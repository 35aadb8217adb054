------------------------------ MODULE RunTimes ------------------------------
(* The instants at which a weather model is initialised, as the fetchers of *)
(* past forecasts count them (historical_forecasts.py).  An instant is a    *)
(* number of hours since some UTC midnight, and a day has Day hours; a time *)
(* zone is a constant offset in hours.  Lists without repetition whose      *)
(* order nobody uses are sets.                                              *)
EXTENDS Absent, Integers, FiniteSets, FiniteSetsExt, Sequences

CONSTANTS
    Day,        \* hours of a day
    RunHours    \* hours of the day at which models start (synoptic inits)

ASSUME RunTimesAssumption ==
    /\ Day \in Nat \ {0}
    /\ RunHours # {} /\ RunHours \subseteq 0..Day-1

UtcMidnight(t) == (t \div Day) * Day

floor_run_time_to_init_grid(t, interval) ==
    UtcMidnight(t) + ((t - UtcMidnight(t)) \div interval) * interval

generate_run_times_utc(start, end, interval) ==
    {start + k * interval : k \in 0..((end - start) \div interval)}

\* ingest_forecasts_for_range: the runs of one model between two instants.
runs_for_range(start, end, interval) ==
    LET grid_start == floor_run_time_to_init_grid(start, interval) IN
    IF end < start \/ grid_start > end THEN {}
    ELSE generate_run_times_utc(grid_start, end, interval)

\* --run-time values merged with an optional interval range.
resolve_raw_fetch_run_times(explicit, start, end, interval) ==
    explicit \cup generate_run_times_utc(start, end, interval)

InitsAround(t, days) == {UtcMidnight(t) + d * Day + h : d \in days, h \in RunHours}

snap_run_time_to_model_init(t) == Max({c \in InitsAround(t, {0, -1}) : c <= t})

next_synoptic_run_time(t) == Min({c \in InitsAround(t, {0, 1}) : c > t})

----------------------------------------------------------------------------
\* Planned fetches: leads are counted to the local midnight that begins the target day

LocalMidnight(target, offset) == target * Day - offset

NominalLeads(max_lead, step) ==
    {l \in step..max_lead : (max_lead - l) % step = 0}

generate_forecast_run_times(target, max_lead, step, offset) ==
    LET anchor == LocalMidnight(target, offset)
        runs == {snap_run_time_to_model_init(anchor - lead) :
                    lead \in NominalLeads(max_lead, step)}
    IN  {<<r, anchor - r>> : r \in {r \in runs : anchor - r > 0}}

plan_historical_forecast_requests(targets, max_lead, step, offset) ==
    UNION {{[target |-> d, run |-> x[1], lead |-> x[2]] :
               x \in generate_forecast_run_times(d, max_lead, step, offset)} : d \in targets}

\* The planned run, then the next one, as far as they are before the target day.
_run_times_to_try_for_job(job, offset) ==
    LET anchor == LocalMidnight(job.target, offset)
        Before(run) == IF run < anchor THEN <<<<run, anchor - run>>>> ELSE <<>>
    IN  Before(job.run) \o Before(next_synoptic_run_time(job.run))

----------------------------------------------------------------------------
\* Daily maxima of an hourly series

\* One entry is [day, hour, temp], and temp is None for a missing or infinite value.
_aggregate_hourly_to_daily_tmax(hours) ==
    LET dates == {hours[i].day : i \in DOMAIN hours}
        covered(d) == \A i \in DOMAIN hours : hours[i].day = d => hours[i].temp # None
        value(d) == Max({hours[i].temp : i \in {i \in DOMAIN hours : hours[i].day = d}})
        partly == hours # <<>> /\ hours[1].hour # 0 /\ Cardinality(dates) > 1
        reported == IF partly THEN dates \ {hours[Len(hours)].day} ELSE dates
    IN  [d \in reported |-> IF covered(d) THEN value(d) ELSE None]

\* A cached file may still have the daily shape, which is returned as it is.
daily_tmax_series_from_payload(payload) ==
    IF payload.shape = "daily" THEN payload.days
    ELSE _aggregate_hourly_to_daily_tmax(payload.hours)

\* None stands for the exceptions: the day is not reported, or is null.
extract_predicted_tmax_c(payload, target) ==
    LET days == daily_tmax_series_from_payload(payload) IN
    IF target \in DOMAIN days THEN days[target] ELSE None

----------------------------------------------------------------------------
\* What these promise

OnGrid(t, interval) == (t - UtcMidnight(t)) % interval = 0

(* A range of runs is exactly the grid between the last init before its     *)
(* start and its end, so two ranges that meet leave no init out, and every  *)
(* lead to a UTC midnight is a multiple of the interval.                    *)
RangeIsTheGrid(start, end, interval) ==
    Day % interval = 0 /\ start <= end =>
        runs_for_range(start, end, interval) =
            {t \in start - interval + 1 .. end : OnGrid(t, interval)}

(* No planned run is younger than the lead it is planned for, and none is   *)
(* older than it by more than the longest gap between inits: what is        *)
(* fetched for "24 hours ahead" was known 24 hours ahead.                   *)
LeadsNotUnderstated(target, max_lead, step, offset) ==
    LET plan == generate_forecast_run_times(target, max_lead, step, offset)
        gap(r) == next_synoptic_run_time(r) - r
    IN  /\ \A nominal \in NominalLeads(max_lead, step) :
               \E x \in plan : x[2] >= nominal /\ x[2] < nominal + gap(x[1])
        /\ \A x \in plan :
               \A i \in DOMAIN _run_times_to_try_for_job([target |-> target, run |-> x[1]], offset) :
                  LET try == _run_times_to_try_for_job([target |-> target, run |-> x[1]], offset)[i]
                  IN  /\ try[1] + try[2] = LocalMidnight(target, offset)
                      /\ try[2] > 0 /\ try[2] <= x[2]

(* A predicted maximum is never taken from part of a day, except for the    *)
(* day the run begins in, and never from a day with a missing hour.         *)
MaximaOfWholeDays(hours) ==
    LET days == _aggregate_hourly_to_daily_tmax(hours)
        Of(d) == {i \in DOMAIN hours : hours[i].day = d}
    IN  \A d \in DOMAIN days : days[d] # None =>
            /\ \A i \in Of(d) : hours[i].temp # None /\ hours[i].temp <= days[d]
            /\ \E i \in Of(d) : hours[i].temp = days[d]
            /\ d # hours[1].day => Cardinality(Of(d)) = Day
=============================================================================
