------------------------------ MODULE Analysis ------------------------------
(* One analysis of one event (analysis.py): which distribution the profile  *)
(* asked for, which one it gets, what an observation of the day leaves of   *)
(* it, and what the strategy makes of the market.  Temperatures are tenths  *)
(* of a degree, probabilities and prices percentage points; probabilities,  *)
(* means and sigmas are rounded to these units.                             *)
EXTENDS CalibrationChoice, Markets, Strategies

BestHistorical == {"best_historical", "best_historical_updated"}
WeightedHistorical ==
    {"weighted_historical_updated", "weighted_historical_market_sigma",
     "weighted_historical_updated_sharp"}
Calibrated == BestHistorical \cup WeightedHistorical
ModelStrategies == Calibrated \cup {"ensemble_spread"}

\* Precision exponent (3 for the sharp 2.8), and the disagreement weight as <<n, d>>.
_WEIGHTED_MIXTURE_PARAMS(strategy) ==
    IF strategy = "weighted_historical_updated_sharp"
    THEN [exponent |-> 3, disagreement |-> <<0, 1>>]
    ELSE [exponent |-> 2, disagreement |-> <<1, 5>>]

\* A forecast: models and their values, the leads to their runs (or None) and
\* the runs (or None), and the running maximum observed so far (or None).
calibrate_forecast(forecast, bias) ==
    [forecast EXCEPT !.values = [i \in DOMAIN forecast.values |-> forecast.values[i] - bias]]

_predicted_tmax_by_model(forecast) ==
    [m \in {forecast.models[i] : i \in DOMAIN forecast.models} |->
        forecast.values[Max({i \in DOMAIN forecast.models : forecast.models[i] = m})]]

_predicted_first(forecast, model) ==
    forecast.values[Min({i \in DOMAIN forecast.models : forecast.models[i] = model})]

\* The reason why a calibrated distribution cannot be looked up, or "".
_validate_calibration_prerequisites(forecast, station, lead) ==
    CASE station = None -> "missing_station_id"
      [] station # None /\ lead = None -> "missing_lead_hours"
      [] station # None /\ lead # None /\ forecast.models = <<>> -> "forecast_missing_model_identity"
      [] OTHER ->
            IF Len(forecast.models) # Len(forecast.values)
            THEN "forecast_model_value_length_mismatch"
            ELSE IF forecast.inits # None /\ verified_init_lead_hours_by_model(forecast) = None
            THEN "forecast_init_lead_length_mismatch" ELSE ""

InitLeads(forecast) ==
    IF forecast.inits = None THEN None ELSE verified_init_lead_hours_by_model(forecast)

Resolution(strategy, reason, mean, var) ==
    [strategy |-> strategy, reason |-> reason, mean |-> mean, var |-> var]

_ensemble_fallback(reason) == Resolution("ensemble_spread", reason, None, None)

\* The chosen model's value less its bias, with its error as sigma.
FromBest(requested, reason, forecast, rows, row) ==
    LET d == build_calibrated_distribution(_predicted_first(forecast, row.model) - row.bias,
                                           _sigma_for_calibration(row))
    IN  IF reason # "" THEN _ensemble_fallback(reason)
        ELSE IF rows = {} THEN _ensemble_fallback("no_calibration_csv")
        ELSE IF row = None THEN _ensemble_fallback("no_ceiling_row_for_any_live_model")
        ELSE Resolution(requested, "", d.mean, d.var)

_resolve_best_historical(requested, forecast, station, lead, rows) ==
    LET reason == _validate_calibration_prerequisites(forecast, station, lead)
    IN  FromBest(requested, reason, forecast, rows,
            IF reason # "" THEN None
            ELSE select_best_model(rows, station, forecast.models, lead, InitLeads(forecast)))

FromMixture(requested, reason, params, rows, m) ==
    IF reason # "" THEN Resolution(requested, reason, None, None)
    ELSE IF rows = {} THEN Resolution(requested, "no_calibration_csv", None, None)
    ELSE IF m = None THEN Resolution(requested, "no_eligible_models", None, None)
    ELSE Resolution(requested, "", <<m.mean, m.total>>,
             <<params.disagreement[2] * m.within
                   + params.disagreement[1] * (m.between \div (m.total * m.total)),
               params.disagreement[2] * m.total>>)

_resolve_weighted_historical(requested, forecast, station, lead, rows) ==
    LET reason == _validate_calibration_prerequisites(forecast, station, lead)
        params == _WEIGHTED_MIXTURE_PARAMS(requested)
    IN  FromMixture(requested, reason, params, rows,
            IF reason # "" THEN None
            ELSE select_weighted_models(rows, station, forecast.models, lead,
                     _predicted_tmax_by_model(forecast), InitLeads(forecast), params.exponent))

_resolve_strategy(requested, forecast, station, lead, rows) ==
    CASE requested = "ensemble_spread" -> _ensemble_fallback("")
      [] requested \in WeightedHistorical ->
            _resolve_weighted_historical(requested, forecast, station, lead, rows)
      [] requested \in BestHistorical ->
            _resolve_best_historical(requested, forecast, station, lead, rows)

\* None when a weighted strategy failed: there is no substitute for it.
_build_distribution_from_resolution(resolution, forecast, lead) ==
    CASE resolution.strategy \in WeightedHistorical /\ resolution.reason # "" -> None
      [] resolution.strategy \in Calibrated /\ resolution.reason = "" ->
            [mean |-> resolution.mean, var |-> resolution.var]
      [] resolution.strategy = "ensemble_spread" ->
            build_distribution(forecast.values, Degree, lead)

WholeMean(d) == (2 * d.mean[1] + d.mean[2]) \div (2 * d.mean[2])
WholeSigma(d) ==
    LET whole == (d.var[1] + d.var[2] - 1) \div d.var[2]
    IN  Min({s \in 1..200 : s * s >= whole})

Capped(d, cap) == IF cap.applied THEN [d EXCEPT !.var = cap.var] ELSE d

_apply_market_sigma_cap(resolution, d, buckets, prices) ==
    IF resolution.strategy # "weighted_historical_market_sigma" THEN d
    ELSE Capped(d, cap_sigma_to_market(WholeMean(d), WholeSigma(d), buckets,
                       [i \in DOMAIN prices |-> prices[i].ask]))

_condition_probs_on_floor(probs, buckets, floor) ==
    IF floor = None THEN probs
    ELSE condition_probabilities_on_observed_floor(probs, buckets, floor)

\* The rows before the strategy: what the model gives every bucket, beside its quote.
Quoted(probs, buckets, prices) ==
    [i \in DOMAIN buckets |->
        Bucket((2 * One * probs.mass[i] + probs.total) \div (2 * probs.total), prices[i],
               prices[i].liquidity, buckets[i].kind \in {"or_below", "or_higher", "above"})]

\* The outcome: the strategy that was used, why not the requested one, the
\* rows and the decisions on them; without a distribution there are none.
Result(resolution, edges, decisions) ==
    [strategy |-> resolution.strategy, reason |-> resolution.reason,
     edges |-> edges, decisions |-> decisions]

WithDecisions(strategy, resolution, edges) == Result(resolution, edges, Decide(strategy, edges))

BucketsOf(event) == [i \in DOMAIN event |-> parse_temperature_bucket(event[i].label)]

EdgesUnder(d, floor, buckets, prices) ==
    Quoted(_condition_probs_on_floor(
               probabilities_for_buckets(WholeMean(d), WholeSigma(d), buckets), buckets, floor),
           buckets, prices)

Analysed(strategy, resolution, built, floor, buckets, prices) ==
    IF built = None THEN Result(resolution, <<>>, <<>>)
    ELSE WithDecisions(strategy, resolution,
             EdgesUnder(_apply_market_sigma_cap(resolution, built, buckets, prices),
                        floor, buckets, prices))

Resolved(strategy, resolution, forecast, event, lead) ==
    Analysed(strategy, resolution, _build_distribution_from_resolution(resolution, forecast, lead),
             forecast.floor, BucketsOf(event), to_market_prices(event))

analyze_event(strategy, requested, raw, bias, event, station, lead, rows) ==
    LET forecast == calibrate_forecast(raw, bias)
    IN  Resolved(strategy, _resolve_strategy(requested, forecast, station, lead, rows),
                 forecast, event, lead)

\* run_profile of the paper bot and _open_profile of the live node drop a
\* fallback; the controller of the active wallets uses the rows as they are.
Trades(path, requested, result) ==
    IF path # "active" /\ requested \in Calibrated /\ result.reason # "" THEN <<>>
    ELSE result.edges

----------------------------------------------------------------------------
\* What these promise

AskedFor(path, requested, result, forecast, station, lead, rows) ==
    /\ Trades(path, requested, result) # <<>> =>
          \/ result.strategy = requested /\ result.reason = ""
          \/ path = "active" /\ requested \in BestHistorical
    /\ requested \in Calibrated /\ result.reason = "" =>
          /\ station # None /\ lead # None
          /\ \E r \in rows : /\ r.station = station /\ r.std + r.rmse > 0
                             /\ \E i \in DOMAIN forecast.models : forecast.models[i] = r.model
    /\ requested \in Calibrated /\ result.reason # "" /\ requested \notin BestHistorical =>
          result.edges = <<>>

(* A profile that asks for calibrated forecasts trades on no other: what    *)
(* the calibration cannot answer is not traded, on the paper and the live   *)
(* path alike, and never quietly replaced for a weighted strategy.  The     *)
(* active wallets are the exception: with a best_historical strategy they   *)
(* go on with the spread of the ensemble.                                   *)
TradesWhatWasAsked(path, strategy, requested, forecast, event, station, lead, rows) ==
    AskedFor(path, requested,
             analyze_event(strategy, requested, forecast, 0, event, station, lead, rows),
             forecast, station, lead, rows)

NotBought(result, passed, blind) ==
    result.edges # <<>> => \A i \in passed :
        result.decisions[i].buy = "YES" =>
            \A k \in DOMAIN result.edges \ passed : blind.edges[k].p = 0

(* Nobody buys YES on a bucket that the observations of the day have passed *)
(* (a book of every bucket excepted), unless the forecast has no mass left  *)
(* for what is still possible: then the observation is dropped and the      *)
(* forecast that the day has refuted is traded on.                          *)
PassedIsNotBought(strategy, requested, forecast, event, station, lead, rows) ==
    LET Under(f) == analyze_event(strategy, requested, f, 0, event, station, lead, rows)
    IN  forecast.floor # None /\ strategy # "book_arb" =>
            NotBought(Under(forecast), Beaten(BucketsOf(event), forecast.floor),
                      Under([forecast EXCEPT !.floor = None]))
=============================================================================
