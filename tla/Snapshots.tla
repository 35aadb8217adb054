----------------------------- MODULE Snapshots -----------------------------
(* What a decision of the past is rebuilt from: the nearest stored          *)
(* snapshots and the calibration file of that instant                       *)
(* (storage/snapshot_reads.py and build_gate_inputs of paper/backtest.py).  *)
(* A history has the sets om (fetch cycles), wu (hourly rows of scrapes),   *)
(* observations, clob (polled slots), and the versions of the calibration   *)
(* file in the order they were written.                                     *)
EXTENDS LiveForecast, Markets

Earlier(x, y) == x[1] < y[1] \/ (x[1] = y[1] /\ x[2] <= y[2])

\* The newest at or before the instant, else the first after it.
_pick_nearest_iso_timestamp(cycles, at) ==
    LET distance(c) == IF c.at <= at THEN <<0, at - c.at>> ELSE <<1, c.at - at>>
        nearest == {c \in cycles : \A o \in cycles : Earlier(distance(c), distance(o))}
    IN  IF cycles = {} THEN None ELSE CHOOSE c \in nearest : TRUE

\* Mutant: age has no sign.
PickNearestInAge(times, at, max_age) ==
    LET usable == {t \in times : max_age # None => at - t <= max_age}
    IN  IF usable = {} THEN None ELSE Max(usable)

\* The newest of the times at or before at that is not too old, or None.
_pick_nearest_at_or_before(times, at, max_age) ==
    LET usable == {t \in times : t <= at /\ (max_age # None => at - t <= max_age)}
    IN  IF usable = {} THEN None ELSE Max(usable)

\* A cycle is [at, rows], a row as persist_open_meteo_fetch writes it.
StoredForecast(rows) ==
    [models |-> [i \in DOMAIN rows |-> rows[i].model],
     values |-> [i \in DOMAIN rows |-> rows[i].predicted],
     inits |-> [i \in DOMAIN rows |->
                   IF rows[i].run = None \/ rows[i].lead = None THEN 0 ELSE rows[i].lead],
     runs |-> [i \in DOMAIN rows |-> rows[i].run], floor |-> None]

RowsOfCycle(cycle, target) ==
    IF cycle = None THEN {} ELSE {r \in cycle.rows : r.target = target}

fetch_nearest_open_meteo_forecast(h, target, at) ==
    LET rows == RowsOfCycle(_pick_nearest_iso_timestamp(h.om, at), target)
    IN  IF rows = {} THEN None ELSE StoredForecast(SetToSeq(rows))

\* Seconds, because a scrape is stamped with the second it was taken at.
Stamp(row) == 3600 * row.hour + 60 * row.minute + row.second

HourlyOf(scrapes, picked) ==
    {[at |-> r.at, temp |-> r.temp] :
        r \in {r \in scrapes : Stamp(r) = picked /\ r.at # None /\ r.temp # None}}

AdjustedBy(hourly, history, target, at) ==
    LET predicted == adjusted_predicted_tmax_c(target, at, hourly, history)
    IN  IF hourly = {} \/ predicted = None THEN None
        ELSE [predicted |-> predicted, floor |-> observed_running_max_c(history, target, at)]

fetch_nearest_wunderground_adjusted_tmax(h, target, at) ==
    LET scrapes == {r \in h.wu : r.target = target /\ is_oclock_scrape(r)}
        picked == _pick_nearest_at_or_before({Stamp(r) : r \in scrapes}, 3600 * at, None)
    IN  AdjustedBy(HourlyOf(scrapes, picked), h.observations, target, at)

\* Half an hour of 60 minutes; a slot is [slot, fetched, quotes], in minutes.
DEFAULT_CLOB_MAX_AGE == 30

fetch_nearest_clob_snapshot(h, minute) ==
    LET slot == _pick_nearest_at_or_before({s.slot : s \in h.clob}, minute, DEFAULT_CLOB_MAX_AGE)
    IN  IF slot = None THEN None ELSE CHOOSE s \in h.clob : s.slot = slot

\* quotes: the rows of the slot, [label, bid, ask, spread, liquidity].
hydrate_event_from_clob_snapshot(buckets, quotes) ==
    [i \in DOMAIN buckets |->
        IF \E q \in quotes : q.label = buckets[i].label /\ ~is_untradeable_market_price(q)
        THEN LET q == CHOOSE q \in quotes : q.label = buckets[i].label IN
             [buckets[i] EXCEPT !.bid = q.bid, !.ask = q.ask, !.spread = q.spread,
                                !.liquidity = q.liquidity]
        ELSE buckets[i]]

\* The event of today without its outcome, at the prices of then.
_open_view_event(buckets, quotes) ==
    LET stripped == strip_untradeable_bucket_prices(buckets)
    IN  hydrate_event_from_clob_snapshot(
            [i \in DOMAIN buckets |-> [stripped[i] EXCEPT !.resolved = FALSE, !.outcome = "none"]],
            quotes)

\* versions: [from, content]; each but the last was archived when the next
\* one was written, under the time of that writing.
calibration_path_as_of(versions, at) ==
    LET later == {k \in 2..Len(versions) : versions[k].from > at}
    IN  IF later = {} THEN versions[Len(versions)].content
        ELSE versions[Min(later) - 1].content

resolve_calibration_path(versions, at, as_of) ==
    IF as_of THEN calibration_path_as_of(versions, at) ELSE versions[Len(versions)].content

GateInputs(forecast, clob, wu_snapshot, event, wall, calibration) ==
    IF forecast = None THEN [reason |-> "no_open_meteo_snapshot"]
    ELSE IF clob = None THEN [reason |-> "no_clob_snapshot"]
    ELSE [reason |-> "",
          forecast |-> IF wu_snapshot = None THEN forecast
                       ELSE _append_wunderground_predicted(forecast, wu_snapshot, wall),
          event |-> _open_view_event(event, clob.quotes),
          winner |-> winning_label_from_event(event),
          calibration |-> calibration]

build_gate_inputs(h, event, target, at, use_wunderground, as_of) ==
    GateInputs(fetch_nearest_open_meteo_forecast(h, target, at),
               fetch_nearest_clob_snapshot(h, 60 * at),
               IF use_wunderground
               THEN fetch_nearest_wunderground_adjusted_tmax(h, target, at) ELSE None,
               event, lead_hours_to_end_of_target_day(target, at),
               resolve_calibration_path(h.versions, at, as_of))

----------------------------------------------------------------------------
\* What these promise

\* What was there to be known: an observation is published after it is made,
\* and a slot is polled for some time after the instant it is named for.
Known(h, at) ==
    [om |-> {c \in h.om : c.at <= at},
     wu |-> {r \in h.wu : Stamp(r) <= 3600 * at},
     observations |-> {o \in h.observations : o.published <= at},
     clob |-> {s \in h.clob : s.fetched <= 60 * at},
     versions |-> [k \in {k \in DOMAIN h.versions : h.versions[k].from <= at} |-> h.versions[k]]]

OnlyPublished(h, at) == \A o \in h.observations : o.at <= at => o.published <= at

\* The same inputs as from what was known.
Foreseen(now, before, known, slot, at, published) ==
    /\ known.om # {} /\ slot.fetched <= 60 * at /\ known.versions # <<>> =>
          /\ before.reason = "" /\ now.event = before.event
          /\ now.calibration = before.calibration
          /\ published => now.forecast = before.forecast
    /\ known.om = {} => before.reason = "no_open_meteo_snapshot"

\* Prices are those of the slot, and none is left of an outcome.
PricesOf(view, slot, event) ==
    LET Priced(b) == \E q \in slot.quotes : q.label = b.label /\ ~is_untradeable_market_price(q)
    IN  /\ ~is_event_resolved(view)
        /\ \A i \in DOMAIN event :
              IF Priced(event[i])
              THEN \E q \in slot.quotes : q.label = event[i].label /\ view[i].ask = q.ask
              ELSE event[i].resolved => view[i].ask = None

WithoutHindsight(now, before, known, slot, event, at, published) ==
    now.reason = "" =>
        /\ Foreseen(now, before, known, slot, at, published)
        /\ 60 * at - slot.slot \in 0..DEFAULT_CLOB_MAX_AGE
        /\ PricesOf(now.event, slot, event)

(* A decision is rebuilt from what was known then.  What came later changes *)
(* it only so: with no forecast before the instant the first one after it   *)
(* is used, a slot of prices counts from the instant it is named for though *)
(* it was polled after, an observation counts from when it was made, and    *)
(* before its first archive the calibration file counts as always there.    *)
(* Prices are at most half an hour old, forecasts of any age; the outcome   *)
(* of the event, and the prices it left, are seen only where the slot has   *)
(* no usable price and the market is not resolved today.                    *)
NoHindsight(h, event, target, at) ==
    LET Inputs(known) == build_gate_inputs(known, event, target, at, TRUE, TRUE)
    IN  WithoutHindsight(Inputs(h), Inputs(Known(h, at)), Known(h, at),
                         fetch_nearest_clob_snapshot(h, 60 * at), event, at, OnlyPublished(h, at))

(* The scrape a decision is rebuilt from says what the decision was told at *)
(* a full hour: rebuilt at the instant of a scrape, Wunderground's value is *)
(* the one that the calibration has recorded for that scrape.               *)
RebuiltAsRecorded(h, target) ==
    \A r \in ingest_wu_forecasts_from_snapshots(h.wu, h.observations, 0, 1000) :
        LET snapshot == fetch_nearest_wunderground_adjusted_tmax(h, target, r.run)
        IN  r.target = target /\ (\A x \in h.wu : x.hour = r.run => x.second = 0) =>
                snapshot # None /\ snapshot.predicted = r.predicted
=============================================================================
