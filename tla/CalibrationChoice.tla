------------------------- MODULE CalibrationChoice -------------------------
(* Which calibration row, and so which error, a live forecast is given      *)
(* (calibration_stats_csv.py, profiles/calibration_ready.py).  A row of the *)
(* statistics CSV is a record with the columns that decide something.       *)
(* Temperatures and errors are integers; an error that is missing, zero or  *)
(* not finite is 0.  Models come in the order of the request.               *)
EXTENDS Absent, Integers, FiniteSets, Sequences, FiniteSetsExt, SequencesExt

CONSTANT Wunderground

ScrapedAt == "scraped_at"
RunInit == "run_init"
Legacy == ""      \* a row from before the column existed

\* A row written by recompute_updated_stats, or read back from the file.
CalibrationStatRow(station, model, lead, anchor, bias, std, rmse) ==
    [station |-> station, model |-> model, lead |-> lead, anchor |-> anchor,
     bias |-> bias, std |-> std, rmse |-> rmse]

effective_lead_hours_anchor(row) ==
    IF row.anchor # Legacy THEN row.anchor
    ELSE IF row.model = Wunderground THEN ScrapedAt ELSE RunInit

AnchorAmong(anchors, model) ==
    CASE Cardinality(anchors) = 1 -> CHOOSE a \in anchors : TRUE
      [] Cardinality(anchors) > 1 -> ScrapedAt
      [] OTHER -> IF model = Wunderground THEN ScrapedAt ELSE RunInit

resolve_lead_hours_anchor(rows, station, model) ==
    AnchorAmong({effective_lead_hours_anchor(r) :
                    r \in {r \in rows : r.station = station /\ r.model = model}}, model)

\* inits maps models to their leads, or is None when nothing is known of them.
lookup_lead_hours_for_calibration(model, anchor, wall, inits) ==
    IF anchor = ScrapedAt \/ inits = None THEN wall
    ELSE IF model \in DOMAIN inits THEN inits[model] ELSE None

ShortestLead(candidates) ==
    IF candidates = {} THEN None
    ELSE CHOOSE r \in candidates : \A o \in candidates : r.lead <= o.lead

select_ceiling_row(rows, station, model, lead, anchor) ==
    ShortestLead({r \in rows : /\ r.station = station /\ r.model = model
                               /\ lead # None /\ r.lead >= lead
                               /\ effective_lead_hours_anchor(r) = anchor})

_sigma_for_calibration(row) ==
    IF row.std > 0 THEN row.std ELSE IF row.rmse > 0 THEN row.rmse ELSE None

\* The row of one model, or None: no lead to look up, or no row at or above it.
RowForAnchor(rows, station, model, anchor, wall, inits) ==
    select_ceiling_row(rows, station, model,
        lookup_lead_hours_for_calibration(model, anchor, wall, inits), anchor)

RowOf(rows, station, model, wall, inits) ==
    RowForAnchor(rows, station, model, resolve_lead_hours_anchor(rows, station, model),
                 wall, inits)

RowsOf(rows, station, models, wall, inits) ==
    [i \in DOMAIN models |-> RowOf(rows, station, models[i], wall, inits)]

\* Mutant: a lead of 0 that stands for an unknown run counts.
all_init_lead_hours_by_model(forecast) ==
    IF forecast.inits = <<>> \/ Len(forecast.inits) # Len(forecast.models) THEN None
    ELSE [m \in {forecast.models[i] : i \in DOMAIN forecast.models} |->
             forecast.inits[Max({i \in DOMAIN forecast.models : forecast.models[i] = m})]]

\* The models of a live forecast whose run is known; None is "no answer".
verified_init_lead_hours_by_model(forecast) ==
    LET paired == Len(forecast.inits) = Len(forecast.models)
        known == {i \in DOMAIN forecast.models :
                     forecast.runs = None \/ forecast.runs[i] # None}
    IN  IF forecast.inits = <<>> \/ ~paired THEN None
        ELSE [m \in {forecast.models[i] : i \in known} |->
                 forecast.inits[Max({i \in known : forecast.models[i] = m})]]

\* Of the rows found, one per model, the first with the least usable error.
HasSigma(row) == row # None /\ _sigma_for_calibration(row) # None

NotAbove(row, other) ==
    HasSigma(other) => _sigma_for_calibration(row) <= _sigma_for_calibration(other)

LeastSigma(found) ==
    IF \A i \in DOMAIN found : ~HasSigma(found[i]) THEN None
    ELSE found[Min({i \in DOMAIN found :
                       HasSigma(found[i]) /\ \A j \in DOMAIN found : NotAbove(found[i], found[j])})]

select_best_model(rows, station, models, wall, inits) ==
    LeastSigma(RowsOf(rows, station, models, wall, inits))

----------------------------------------------------------------------------
\* The weighted mixture

Power(b, n) == FoldLeft(LAMBDA a, x : a * b, 1, [i \in 1..n |-> i])
ProductOf(f) == FoldLeft(LAMBDA a, x : a * x, 1, f)
SumOf(f) == FoldLeft(LAMBDA a, x : a + x, 0, f)

\* predicted maps the models of the live forecast to their maxima.  A member
\* of the mixture is a model that has both, with its corrected maximum.
Member(row, predicted) ==
    [model |-> row.model, std |-> row.std, mu |-> predicted[row.model] - row.bias]

EligibleMembers(found, predicted) ==
    LET Counts(row) == row # None /\ row.model \in DOMAIN predicted /\ row.std > 0
    IN  [i \in DOMAIN SelectSeq(found, Counts) |-> Member(SelectSeq(found, Counts)[i], predicted)]

\* (1 / std^2) ^ exponent over the common denominator.
Weights(members, exponent) ==
    [i \in DOMAIN members |->
        ProductOf([j \in DOMAIN members |->
                      IF j = i THEN 1 ELSE Power(members[j].std, 2 * exponent)])]

Weighted(weights, f) == SumOf([i \in DOMAIN f |-> weights[i] * f[i]])

Mixture(members, weights, total, mean) ==
    [models |-> [i \in DOMAIN members |-> members[i].model],
     weights |-> weights,
     total |-> total,
     mean |-> mean,
     within |-> Weighted(weights, [i \in DOMAIN members |-> members[i].std * members[i].std]),
     between |-> Weighted(weights, [i \in DOMAIN members |->
                     (total * members[i].mu - mean) * (total * members[i].mu - mean)])]

WeightedMixture(members, weights) ==
    IF members = <<>> THEN None
    ELSE Mixture(members, weights, SumOf(weights),
                 Weighted(weights, [i \in DOMAIN members |-> members[i].mu]))

MixtureOf(members, exponent) == WeightedMixture(members, Weights(members, exponent))

(* The mean and the variance within and between over the sum of the weights *)
(* (and its square).  None when no model is eligible.                       *)
select_weighted_models(rows, station, models, wall, predicted, inits, exponent) ==
    MixtureOf(EligibleMembers(RowsOf(rows, station, models, wall, inits), predicted), exponent)

----------------------------------------------------------------------------
\* Is there anything to choose from?

\* The file: None, or its age in hours and its rows.
calibration_csv_ready(file, max_age, station) ==
    CASE file = None -> "missing_calibration_csv"
      [] file # None /\ max_age # None /\ file.age > max_age -> "stale_calibration_csv"
      [] file # None /\ (max_age = None \/ file.age <= max_age) ->
            IF file.rows = {} THEN "empty_calibration_csv"
            ELSE IF \E r \in file.rows : r.station = station THEN ""
            ELSE "no_calibration_rows_for_station"

BhuMaxAgeHours == 48

\* A profile is [strategy, station]; the updated strategies need a fresh file.
UpdatedStrategies ==
    {"best_historical_updated", "weighted_historical_updated",
     "weighted_historical_market_sigma", "weighted_historical_updated_sharp"}

filter_profiles_by_calibration(profiles, file) ==
    {p \in profiles :
        \/ p.strategy \notin UpdatedStrategies \cup {"best_historical"}
        \/ p.strategy \in UpdatedStrategies
              /\ calibration_csv_ready(file, BhuMaxAgeHours, p.station) = ""
        \/ p.strategy = "best_historical"
              /\ calibration_csv_ready(file, None, p.station) = ""}

----------------------------------------------------------------------------
\* What these promise

\* The lead a row of the model's anchor must cover.
Needed(row, wall, inits) ==
    lookup_lead_hours_for_calibration(row.model, effective_lead_hours_anchor(row), wall, inits)

Rivals(rows, station, models, wall, inits) ==
    {r \in rows : /\ r.station = station /\ HasSigma(r)
                  /\ \E i \in DOMAIN models : r = RowOf(rows, station, models[i], wall, inits)}

Best(best, rivals, rows, needed) ==
    IF best = None THEN rivals = {}
    ELSE /\ best \in rivals
         /\ needed # None /\ best.lead >= needed
         /\ \A r \in rivals : _sigma_for_calibration(best) <= _sigma_for_calibration(r)
         /\ \A r \in rows :
               /\ r.station = best.station /\ r.model = best.model
               /\ effective_lead_hours_anchor(r) = effective_lead_hours_anchor(best)
               /\ r.lead >= needed
               => best.lead <= r.lead

(* The error a forecast is given was measured at no shorter lead than its   *)
(* own, counted the way the row was counted (run or scrape), never for a    *)
(* model whose run is unknown when runs are known at all; it is the least   *)
(* among the models that have one, and only then there is no answer when    *)
(* none has.                                                                *)
BestIsCovered(rows, station, models, wall, inits) ==
    LET best == select_best_model(rows, station, models, wall, inits)
    IN  Best(best, Rivals(rows, station, models, wall, inits), rows,
             IF best = None THEN None ELSE Needed(best, wall, inits))

LiesBetween(m, std, mu) ==
    LET I == DOMAIN m.models IN
    /\ \E i \in I : m.total * mu[i] <= m.mean
    /\ \E i \in I : m.total * mu[i] >= m.mean
    /\ \A i, j \in I : std[i] <= std[j] => m.weights[i] >= m.weights[j]
    /\ (m.between = 0) <=> (\A i, j \in I : mu[i] = mu[j])
    /\ \E i \in I : m.within >= m.total * std[i] * std[i]

(* The mixture lies between its corrected members, a smaller error never    *)
(* weighs less, and models that agree leave no variance between them.       *)
MixtureBetweenMembers(rows, station, models, wall, predicted, inits, exponent) ==
    LET m == select_weighted_models(rows, station, models, wall, predicted, inits, exponent)
        Row(i) == RowOf(rows, station, m.models[i], wall, inits)
    IN  m # None => LiesBetween(m, [i \in DOMAIN m.models |-> Row(i).std],
                                [i \in DOMAIN m.models |-> predicted[m.models[i]] - Row(i).bias])

(* A profile that trades has rows of its own station to be calibrated with, *)
(* and for the updated strategies they are at most two days old.            *)
EnabledAreCalibrated(profiles, file) ==
    \A p \in filter_profiles_by_calibration(profiles, file) :
        p.strategy \in UpdatedStrategies \cup {"best_historical"} =>
            /\ file # None /\ \E r \in file.rows : r.station = p.station
            /\ p.strategy \in UpdatedStrategies => file.age <= BhuMaxAgeHours
=============================================================================
