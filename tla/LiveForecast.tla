---------------------------- MODULE LiveForecast ----------------------------
(* The forecast a live decision is made on (weather/open_meteo.py,          *)
(* weather/wu_live_forecast.py, weather/calibration_wu_forecasts.py and the *)
(* daily maxima of weather/wunderground.py).  Instants are hours, Day of    *)
(* them a UTC day; a run is the instant it was initialised at; temperatures *)
(* are tenths of a degree.  None stands for an exception that ends the      *)
(* fetch, and for a value that is not there.                                *)
EXTENDS CalibrationChoice, RunTimes

PLAUSIBLE_MIN == -400
PLAUSIBLE_MAX == 600
Plausible(v) == PLAUSIBLE_MIN <= v /\ v <= PLAUSIBLE_MAX

\* Counted to the UTC midnight that ends the target day.
compute_lead_hours(run, target) == (target + 1) * Day - run
lead_hours_to_end_of_target_day(target, now) == Max({0, compute_lead_hours(now, target)})

Retryable == {"timeout", "unavailable"}

\* The first answer that is not worth another attempt, if it comes in time.
fetch_forecast_payload(attempts, max_retries) ==
    LET final == {i \in DOMAIN attempts : attempts[i].status \notin Retryable}
    IN  IF final = {} \/ Min(final) > max_retries \/ attempts[Min(final)].status # "ok"
        THEN None ELSE attempts[Min(final)].payload

\* fetched: [model -> [status, run]]; a model without a file is left out.
fetch_rolling_meta_batch(fetched) ==
    IF \E m \in DOMAIN fetched : fetched[m].status \notin {"ok", "missing"} THEN None
    ELSE [m \in {m \in DOMAIN fetched : fetched[m].status = "ok"} |-> fetched[m].run]

\* The models that have a value, in their order.
Given(models, value) ==
    LET among[i \in 0..Len(models)] ==
            IF i = 0 THEN <<>>
            ELSE IF value[models[i]] # None THEN Append(among[i - 1], models[i])
            ELSE among[i - 1]
    IN  among[Len(models)]

\* A payload is [models, days]: days maps a target day to the values of the
\* models (None for null).  A value nobody can believe spoils the payload here ...
parse_forecast_payload(payload, target) ==
    LET value == payload.days[target]
        given == Given(payload.models, value)
    IN  IF \/ target \notin DOMAIN payload.days \/ given = <<>>
           \/ \E i \in DOMAIN given : ~Plausible(value[given[i]])
        THEN None
        ELSE [models |-> given, values |-> [i \in DOMAIN given |-> value[given[i]]]]

\* ... and is no value here.
_parse_forecast_value_for_model(payload, m, target) ==
    IF /\ target \in DOMAIN payload.days /\ m \in DOMAIN payload.days[target]
       /\ payload.days[target][m] # None /\ Plausible(payload.days[target][m])
    THEN payload.days[target][m] ELSE None

LeadMaps(daily, meta, payload) ==
    IF \E d \in DOMAIN daily : daily[d] = None THEN None
    ELSE [daily |-> daily,
          leads |-> [x \in {x \in (DOMAIN meta) \X (DOMAIN daily) :
                              _parse_forecast_value_for_model(payload, x[1], x[2]) # None} |->
                        compute_lead_hours(meta[x[1]], x[2])]]

_build_lead_maps(meta, targets, payload) ==
    LeadMaps([d \in targets |-> parse_forecast_payload(payload, d)], meta, payload)

\* The runs are asked for before and after the forecast; the later ones count.
Bundle(maps, meta_before, meta_after) ==
    IF maps = None THEN None
    ELSE [daily |-> maps.daily, leads |-> maps.leads, meta |-> meta_after,
          stale |-> \E m \in DOMAIN meta_before \cap DOMAIN meta_after :
                        meta_before[m] # meta_after[m]]

BundleOf(meta_before, payload, meta_after, targets) ==
    IF meta_before = None \/ payload = None \/ meta_after = None THEN None
    ELSE Bundle(_build_lead_maps(meta_after, targets, payload), meta_before, meta_after)

fetch_open_meteo_live_bundle(before, attempts, after, targets, max_retries) ==
    BundleOf(fetch_rolling_meta_batch(before), fetch_forecast_payload(attempts, max_retries),
             fetch_rolling_meta_batch(after), targets)

\* A forecast of the kind Analysis reads; an unknown run is None, its lead 0.
daily_to_forecast_values(bundle, target) ==
    LET daily == bundle.daily[target]
        known(i) == /\ daily.models[i] \in DOMAIN bundle.meta
                    /\ <<daily.models[i], target>> \in DOMAIN bundle.leads
    IN  [models |-> daily.models, values |-> daily.values,
         inits |-> [i \in DOMAIN daily.models |->
                       IF known(i) THEN bundle.leads[<<daily.models[i], target>>] ELSE 0],
         runs |-> [i \in DOMAIN daily.models |->
                       IF known(i) THEN bundle.meta[daily.models[i]] ELSE None],
         floor |-> None]

\* The rows a collector stores of a bundle, with the flag of their cycle.
StoredRows(f, target, fetched_at, stale) ==
    {[model |-> f.models[i], target |-> target, predicted |-> f.values[i],
      fetched_at |-> fetched_at, stale |-> stale, run |-> f.runs[i],
      lead |-> IF f.runs[i] = None THEN None ELSE f.inits[i]] : i \in DOMAIN f.models}

persist_open_meteo_fetch(bundle, fetched_at) ==
    UNION {StoredRows(daily_to_forecast_values(bundle, d), d, fetched_at, bundle.stale) :
              d \in DOMAIN bundle.daily}

----------------------------------------------------------------------------
\* Wunderground: observed so far, and what the hourly forecast still expects

\* Observations are [target, at, temp], hourly forecasts [at, day, temp].
Highest(temps) == IF temps = {} THEN None ELSE Max(temps)

observed_running_max_c(history, target, as_of) ==
    Highest({o.temp : o \in {o \in history : o.target = target /\ o.at <= as_of}})

adjusted_predicted_tmax_c(target, as_of, hourly, history) ==
    Highest({h.temp : h \in {h \in hourly : h.at > as_of}}
                \cup ({observed_running_max_c(history, target, as_of)} \ {None}))

parse_hourly_forecast_metric_payload(hourly, target) ==
    {h \in hourly : h.temp # None /\ h.day = target}

\* answer: the hourly forecast (None: the request failed) and the day's
\* observations (None: they failed, which counts as none).
fetch_wu_adjusted_tmax_c(answer, target, as_of) ==
    LET history == IF answer.history = None THEN {} ELSE answer.history
        rows == parse_hourly_forecast_metric_payload(answer.hourly, target)
        predicted == adjusted_predicted_tmax_c(target, as_of, rows, history)
    IN  IF answer.hourly = None THEN None
        ELSE IF rows = {} \/ predicted = None THEN None
        ELSE [predicted |-> predicted, floor |-> observed_running_max_c(history, target, as_of)]

_pad_to_model_count(items, n, fill) ==
    [i \in 1..n |-> IF i <= Len(items) THEN items[i] ELSE fill]

_append_wunderground_predicted(forecast, adjusted, wall) ==
    LET n == Len(forecast.models)
        inits == IF forecast.inits = None THEN <<>> ELSE forecast.inits
    IN  [models |-> Append(forecast.models, Wunderground),
         values |-> Append(forecast.values, adjusted.predicted),
         inits |-> Append(_pad_to_model_count(inits, n, 0), wall),
         runs |-> IF forecast.runs = None THEN None
                  ELSE Append(_pad_to_model_count(forecast.runs, n, None), None),
         floor |-> IF adjusted.floor # None THEN adjusted.floor ELSE forecast.floor]

append_wunderground_forecast(forecast, answer, target, as_of) ==
    LET adjusted == fetch_wu_adjusted_tmax_c(answer, target, as_of)
    IN  IF adjusted = None \/ \E i \in DOMAIN forecast.models : forecast.models[i] = Wunderground
        THEN forecast
        ELSE _append_wunderground_predicted(forecast, adjusted,
                 lead_hours_to_end_of_target_day(target, as_of))

----------------------------------------------------------------------------
\* The same forecast, rebuilt from stored scrapes for the calibration

\* A snapshot row is [hour, minute, second, target, at, temp] of its scrape.
is_oclock_scrape(row) == row.minute = 0

_group_forecast_snapshots(rows) ==
    LET used == {r \in rows : is_oclock_scrape(r) /\ r.at # None /\ r.temp # None}
    IN  {[scraped |-> k[1], target |-> k[2],
          hourly |-> {r \in used : r.hour = k[1] /\ r.target = k[2]}] :
            k \in {<<r.hour, r.target>> : r \in used}}

bucket_wall_clock_lead_hours(lead, max_hours) ==
    IF lead < 0 \/ lead > max_hours THEN None ELSE lead

ingest_wu_forecasts_from_snapshots(rows, history, since, max_hours) ==
    LET groups == _group_forecast_snapshots({r \in rows : r.hour >= since})
        record(g) ==
            [run |-> g.scraped, target |-> g.target,
             lead |-> bucket_wall_clock_lead_hours(
                          lead_hours_to_end_of_target_day(g.target, g.scraped), max_hours),
             predicted |-> adjusted_predicted_tmax_c(g.target, g.scraped, g.hourly, history)]
    IN  {r \in {record(g) : g \in groups} : r.lead # None /\ r.predicted # None}

----------------------------------------------------------------------------
\* Observed daily maxima

\* answers: the station's hourly temperatures ({}: no usable rows, as when the
\* request fails) and the 30-day grid ([day -> high], empty when it fails).
_fetch_v1_historical_daily_high_c(hourly) == IF hourly = {} THEN None ELSE Max(hourly)

\* Python's round: to the whole degree, halves to the even one.
RoundHalfEven(t) ==
    LET down == t \div 10
        rest == t % 10
    IN  IF rest < 5 \/ (rest = 5 /\ down % 2 = 0) THEN down ELSE down + 1

fetch_wunderground_observed_tmax(hourly, grid, day) ==
    LET high == _fetch_v1_historical_daily_high_c(hourly)
    IN  IF high # None THEN RoundHalfEven(high)
        ELSE IF day \in DOMAIN grid THEN RoundHalfEven(grid[day]) ELSE None

\* Days that failed are left out.
fetch_wunderground_observations_range(hourly, grid, first, last) ==
    LET observed(d) == fetch_wunderground_observed_tmax(hourly[d], grid, d)
    IN  [d \in {d \in first..last : observed(d) # None} |-> observed(d)]

----------------------------------------------------------------------------
\* What these promise

\* Published during the fetch: the flag says so, or the file was missing.
Excused(m, bundle, before) == bundle.stale \/ before[m].status = "missing"

ErrorCovers(best, bundle, before, made, target, wall) ==
    best # None =>
        IF effective_lead_hours_anchor(best) = ScrapedAt THEN best.lead >= wall
        ELSE \/ best.lead >= compute_lead_hours(made[best.model], target)
             \/ Excused(best.model, bundle, before)

StoredAsMade(stored, bundle, before, after, made, target) ==
    \A r \in stored :
        /\ (r.run = None) <=> (after[r.model].status = "missing")
        /\ r.run # None => r.run + r.lead = (target + 1) * Day
                           /\ (r.run = made[r.model] \/ Excused(r.model, bundle, before))

BestFor(forecast, wall, rows, station) ==
    select_best_model(rows, station, forecast.models, wall, verified_init_lead_hours_by_model(forecast))

Covered(bundle, before, after, made, target, answer, as_of, rows, station) ==
    LET forecast == append_wunderground_forecast(
                        daily_to_forecast_values(bundle, target), answer, target, as_of)
        wall == lead_hours_to_end_of_target_day(target, as_of)
    IN  bundle # None =>
            /\ ErrorCovers(BestFor(forecast, wall, rows, station), bundle, before, made, target, wall)
            /\ StoredAsMade(persist_open_meteo_fetch(bundle, as_of), bundle, before, after, made, target)

(* The error a live forecast is given was measured at no shorter lead than  *)
(* the forecast has: its rows are looked up at the lead of the run that     *)
(* made it (made), or at the wall clock's where they were counted so, never *)
(* at the 0 that stands for an unknown run.  Excepted is what was published *)
(* during the fetch: a new run that the flag reports (it is stored, and     *)
(* nobody reads it), or one whose file was still missing before.            *)
ErrorCoversTheRun(before, attempts, after, made, target, answer, as_of, rows, station) ==
    Covered(fetch_open_meteo_live_bundle(before, attempts, after, {target}, 3),
            before, after, made, target, answer, as_of, rows, station)

\* now: with all the observations; before: with the ones made by then.
KnowsThePast(now, before, forecast, answer, target, as_of) ==
    LET n == Len(now.models) IN
    /\ now = before
    /\ answer.hourly = None => now = forecast
    /\ now # forecast =>
          /\ now.floor # None => forecast.floor = now.floor \/ now.floor <= now.values[n]
          /\ answer.history # None =>
                \A o \in answer.history :
                    o.at <= as_of /\ o.target = target => o.temp <= now.values[n]
          /\ now.inits[n] = lead_hours_to_end_of_target_day(target, as_of)

(* What Wunderground adds is at least what was observed already, and makes  *)
(* no use of what is observed later; a request that fails leaves the        *)
(* forecast as it was, and one without observations keeps the old floor.    *)
AdjustedKnowsThePast(forecast, answer, target, as_of) ==
    LET Appended(a) == append_wunderground_forecast(forecast, a, target, as_of)
        known == IF answer.history = None THEN None ELSE {o \in answer.history : o.at <= as_of}
    IN  KnowsThePast(Appended(answer), Appended([answer EXCEPT !.history = known]),
                     forecast, answer, target, as_of)

(* The calibration measures what was traded on: a record made of a scrape   *)
(* says what a live decision at that instant was told, at the same lead -   *)
(* for the scrapes of the full hour, if there was one in its minute.        *)
RecordsSayWhatLiveSaw(rows, history, since, max_hours) ==
    LET records == ingest_wu_forecasts_from_snapshots(rows, history, since, max_hours)
        Alone(h) == Cardinality({r.second : r \in {r \in rows : r.hour = h /\ r.minute = 0}}) = 1
        Told(r) == fetch_wu_adjusted_tmax_c(
                      [hourly |-> {[at |-> x.at, day |-> x.target, temp |-> x.temp] :
                                     x \in {x \in rows : x.hour = r.run /\ x.minute = 0}},
                       history |-> {o \in history : o.target = r.target /\ o.at <= r.run}],
                      r.target, r.run)
    IN  \A r \in records :
            /\ r.lead = lead_hours_to_end_of_target_day(r.target, r.run)
            /\ Alone(r.run) => Told(r) # None /\ Told(r).predicted = r.predicted

(* A stored maximum is, to half a degree, the highest of the day's own      *)
(* hours, or of its day in the 30-day grid when there are none; a day is    *)
(* left out only when neither has it, and a hotter day is never stored as   *)
(* a colder one.                                                            *)
ObservedIsOfItsDay(hourly, grid, first, last) ==
    LET observed == fetch_wunderground_observations_range(hourly, grid, first, last)
        High(d) == IF hourly[d] # {} THEN Max(hourly[d]) ELSE grid[d]
    IN  /\ DOMAIN observed = {d \in first..last : hourly[d] # {} \/ d \in DOMAIN grid}
        /\ \A d \in DOMAIN observed :
              /\ 10 * observed[d] - High(d) \in -5..5
              /\ \A e \in DOMAIN observed : High(d) <= High(e) => observed[d] <= observed[e]
=============================================================================
