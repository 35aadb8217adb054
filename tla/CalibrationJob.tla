--------------------------- MODULE CalibrationJob ---------------------------
(* The calibration store and the jobs that fill it (calibration_runner.py): *)
(* bootstrap and nightly update of the Open-Meteo part ("om") and of the    *)
(* Wunderground part ("wu"), the raw forecast files beside the database,    *)
(* and the statistics CSV that the analysis reads.                          *)
(*                                                                          *)
(* Time is counted in ticks, one per model initialisation, and a day has    *)
(* Slots of them.  The run initialised at tick r is named r.  Something     *)
(* that happens "at" tick t happens after t's full hour, so a scrape on the *)
(* hour of tick t lies before a success recorded at t.                      *)
EXTENDS Absent, Integers, FiniteSets, FiniteSetsExt

CONSTANTS
    Stations,       \* the stations of calibration.yaml
    Slots,          \* ticks of a day
    ForecastDays,   \* days for which one run has a daily maximum
    Commands,       \* the command lines that may be given: [cmd, stations, noObs]
    Horizon,        \* bounds: of the clock, of starts, of failing fetches and
    MaxStarts,      \* crashes together, of scrapes, and of ticks that pass
    MaxFaults,      \* while a job runs
    MaxScrapes,
    MaxSlow

ASSUME JobAssumption ==
    /\ IsFiniteSet(Stations)
    /\ Slots \in Nat \ {0} /\ ForecastDays \in Nat \ {0}
    /\ {Horizon, MaxStarts, MaxFaults, MaxScrapes, MaxSlow} \subseteq Nat
    /\ Commands \subseteq [cmd : {"bootstrap", "wu_bootstrap", "daily"},
                            stations : (SUBSET Stations) \ {{}}, noObs : BOOLEAN]

VARIABLES
    now,      \* the tick the clock is in
    db,       \* the committed tables
    tx,       \* the tables as the open transaction of the job sees them
    scraped,  \* forecast_snapshots of the collector: <<station, tick>>
    files,    \* raw forecast files that are complete: <<station, run>>
    torn,     \* raw forecast files that a crash left half written
    csv,      \* the statistics file: whether it is whole, and its joined rows
    proc,     \* the locals of the process
    count,    \* how often each bounded thing has happened
    log       \* history: the successes that were committed

vars == <<now, db, tx, scraped, files, torn, csv, proc, count, log>>

----------------------------------------------------------------------------
\* The tables

\* compute_lead_hours and the target dates count whole UTC days.
DayOf(t) == t \div Slots

_utc_yesterday == DayOf(now) - 1

\* The days a run has a forecast for.
TargetDays(r) == DayOf(r) .. DayOf(r) + ForecastDays - 1

\* The last field is history: runs that could not be fetched, and days whose
\* history once could not.
Empty == [obs |-> {}, recs |-> {}, hist |-> {}, wu |-> {},
          om |-> None, wuJob |-> None, missed |-> {}]

AllDays == 0 .. DayOf(Horizon) + ForecastDays

\* Inner join of forecasts and observations on station and target date.
OmJoined(d) ==
    {x \in {"om"} \X Stations \X (0..Horizon) \X AllDays :
        /\ <<x[2], x[3]>> \in d.recs
        /\ x[4] \in TargetDays(x[3])
        /\ <<x[2], x[4]>> \in d.obs}

WuJoined(d) ==
    {x \in {"wu"} \X Stations \X (0..Horizon) \X AllDays :
        /\ \E h \in BOOLEAN : <<x[2], x[3], h>> \in d.wu
        /\ x[4] = DayOf(x[3])
        /\ <<x[2], x[4]>> \in d.obs}

Joined(d) == OmJoined(d) \cup WuJoined(d)

----------------------------------------------------------------------------
\* The process

NoJob == [pc |-> "gone", cmd |-> None, part |-> None, stations |-> {},
          end |-> 0, first |-> 0, since |-> 0, todo |-> {}, read |-> 0,
          noObs |-> FALSE]

NoStats == [is |-> "none", rows |-> {}]

Init ==
    /\ now = 0 /\ db = Empty /\ tx = Empty
    /\ scraped = {} /\ files = {} /\ torn = {}
    /\ csv = NoStats
    /\ proc = NoJob
    /\ count = [starts |-> 0, faults |-> 0, slow |-> 0]
    /\ log = {}

Faults(n) ==
    /\ count.faults + n <= MaxFaults
    /\ count' = [count EXCEPT !.faults = @ + n]

\* One of the scripts is started, for all stations or a subset of them
\* (--station).  The nightly script runs the om part, then the wu part.
Start(c) ==
    /\ proc.pc = "gone"
    /\ count.starts < MaxStarts
    /\ count' = [count EXCEPT !.starts = @ + 1]
    /\ proc' = [NoJob EXCEPT !.pc = "begin", !.cmd = c.cmd, !.stations = c.stations,
                             !.part = IF c.cmd = "wu_bootstrap" THEN "wu" ELSE "om",
                             !.noObs = c.noObs]
    /\ UNCHANGED <<now, db, tx, scraped, files, torn, csv, log>>

State(part) == IF part = "om" THEN db.om ELSE db.wuJob

\* A part returns: the nightly script goes on with the wu part whatever the
\* code of the om part was; everything else ends.
Return ==
    IF proc.cmd = "daily" /\ proc.part = "om"
    THEN proc' = [proc EXCEPT !.pc = "begin", !.part = "wu", !.todo = {}]
    ELSE proc' = NoJob

\* An exception, or a return without commit: the connection rolls back.
Rollback == tx' = db

\* The part opens its transaction, reads its state and computes its windows.
Opens(first, since) ==
    LET end == _utc_yesterday IN
    /\ tx' = db
    /\ proc' = [proc EXCEPT
            !.pc = "ingest", !.end = end, !.first = first, !.since = since, !.read = now,
            !.todo = IF proc.part = "om"
                     THEN proc.stations \X (since .. Slots * (end + 1) - 1)
                     ELSE {}]
    /\ UNCHANGED <<now, db, scraped, files, torn, csv, count, log>>

\* run_bootstrap, run_wu_bootstrap: from the start date, which is day 0.
BeginBootstrap ==
    /\ proc.pc = "begin" /\ proc.cmd # "daily"
    /\ _utc_yesterday >= 0
    /\ Opens(0, 0)

\* run_daily, run_wu_daily: observations from the day after the last target
\* date, forecasts from the instant of the last success.
BeginDaily ==
    /\ proc.pc = "begin" /\ proc.cmd = "daily"
    /\ State(proc.part) # None
    /\ LET state == State(proc.part) IN
       Opens(IF state.target + 1 < _utc_yesterday THEN state.target + 1 ELSE _utc_yesterday,
             IF proc.part = "om" THEN state.at ELSE state.at + 1)

\* Nothing to do yet, or no bootstrap before the nightly update.
NothingToDo ==
    /\ proc.pc = "begin"
    /\ IF proc.cmd = "daily" THEN State(proc.part) = None ELSE _utc_yesterday < 0
    /\ Return
    /\ UNCHANGED <<now, db, tx, scraped, files, torn, csv, count, log>>

Window == proc.stations \X (proc.first .. proc.end)

\* Daily maxima are fetched day by day; a day that fails is skipped.
ingest_observations(failed) == (tx.obs \cup Window) \ (failed \ tx.obs)

\* The wu part also fetches the hourly history, day by day and station by station.
ingest_wu_history_observations(failed) == (tx.hist \cup Window) \ (failed \ tx.hist)

IngestObservations ==
    /\ proc.pc = "ingest" /\ proc.part = "om"
    /\ \E failed \in SUBSET Window :
          /\ IF proc.noObs
             THEN failed = {} /\ UNCHANGED tx
             ELSE tx' = [tx EXCEPT !.obs = ingest_observations(failed)]
          /\ Faults(Cardinality(failed))
    /\ proc' = [proc EXCEPT !.pc = "runs"]
    /\ UNCHANGED <<now, db, scraped, files, torn, csv, log>>

\* A wu bootstrap that gets no history at all gives up.
IngestHistory ==
    /\ proc.pc = "ingest" /\ proc.part = "wu"
    /\ \E failed \in SUBSET Window, lost \in SUBSET Window :
          /\ proc.noObs => lost = {}
          /\ Faults(Cardinality(failed) + Cardinality(lost))
          /\ IF proc.cmd = "wu_bootstrap" /\ failed = Window
             THEN Rollback /\ Return
             ELSE /\ tx' = [tx EXCEPT
                        !.hist = ingest_wu_history_observations(failed),
                        !.obs = IF proc.noObs THEN @ ELSE ingest_observations(lost),
                        !.missed = @ \cup (failed \X {"hist"})]
                  /\ proc' = [proc EXCEPT !.pc = "snapshots"]
    /\ UNCHANGED <<now, db, scraped, files, torn, csv, log>>

----------------------------------------------------------------------------
\* The forecasts

\* Stations in the order of the file, runs in the order of their times.
IsNext(x) ==
    /\ x \in proc.todo
    /\ x[1] = CHOOSE s \in Stations : \E r \in 0..Horizon : <<s, r>> \in proc.todo
    /\ \A y \in proc.todo : y[1] = x[1] => x[2] <= y[2]

RunDone(x) == proc' = [proc EXCEPT !.todo = @ \ {x}]

\* The payload is in the raw directory, or is fetched and stored there;
\* then its records are upserted.
IngestRun(x) ==
    /\ proc.pc = "runs" /\ IsNext(x) /\ x \notin torn
    /\ files' = files \cup {x}
    /\ tx' = [tx EXCEPT !.recs = @ \cup {x}, !.missed = @ \ {<<x, "run">>}]
    /\ RunDone(x)
    /\ UNCHANGED <<now, db, scraped, torn, csv, count, log>>

\* A fetch that fails is logged and skipped.
RunFails(x) ==
    /\ proc.pc = "runs" /\ IsNext(x) /\ x \notin files \cup torn
    /\ Faults(1)
    /\ tx' = [tx EXCEPT !.missed = @ \cup {<<x, "run">>}]
    /\ RunDone(x)
    /\ UNCHANGED <<now, db, scraped, files, torn, csv, log>>

\* A file that exists is read, not fetched; one that does not parse raises
\* outside the handler, and the process ends.
RunRaises(x) ==
    /\ proc.pc = "runs" /\ IsNext(x) /\ x \in torn
    /\ Rollback
    /\ proc' = NoJob
    /\ UNCHANGED <<now, db, scraped, files, torn, csv, count, log>>

\* Mutant: the history is looked up outside the transaction of the job.
IngestSnapshotsOutside ==
    /\ proc.pc = "snapshots"
    /\ LET new == {x \in scraped : x[1] \in proc.stations /\ x[2] >= proc.since}
       IN  tx' = [tx EXCEPT !.wu = {w \in @ : <<w[1], w[2]>> \notin new}
                        \cup {<<x[1], x[2], <<x[1], DayOf(x[2])>> \in db.hist>> : x \in new}]
    /\ proc' = [proc EXCEPT !.pc = "recompute", !.read = now]
    /\ UNCHANGED <<now, db, scraped, files, torn, csv, count, log>>

\* ingest_wu_forecasts_from_snapshots: every scrape on the hour since the
\* last success becomes one record, adjusted by the history of its target
\* day if that is in the store by now (third component).
IngestSnapshots ==
    /\ proc.pc = "snapshots"
    /\ LET new == {x \in scraped : x[1] \in proc.stations /\ x[2] >= proc.since}
           Adjusted(x) == <<x[1], DayOf(x[2])>> \in tx.hist
       IN  tx' = [tx EXCEPT !.wu = {w \in @ : <<w[1], w[2]>> \notin new}
                                     \cup {<<x[1], x[2], Adjusted(x)>> : x \in new}]
    /\ proc' = [proc EXCEPT !.pc = "recompute", !.read = now]
    /\ UNCHANGED <<now, db, scraped, files, torn, csv, count, log>>

----------------------------------------------------------------------------
\* Recomputation and the end of a part

\* recompute_updated_stats joins everything in the store, both parts, and
\* opens the CSV for writing, unless nothing joined.
Recompute ==
    /\ \/ proc.pc = "recompute"
       \/ proc.pc = "runs" /\ proc.todo = {}
    /\ IF Joined(tx) = {}
       THEN proc' = [proc EXCEPT !.pc = "finish"] /\ UNCHANGED csv
       ELSE proc' = [proc EXCEPT !.pc = "write"] /\ csv' = [is |-> "torn", rows |-> {}]
    /\ UNCHANGED <<now, db, tx, scraped, files, torn, count, log>>

\* Mutant: a part writes its own rows only.
WriteStatsOfPart ==
    /\ proc.pc = "write"
    /\ csv' = [is |-> "whole", rows |-> {x \in Joined(tx) : x[1] = proc.part}]
    /\ proc' = [proc EXCEPT !.pc = "finish"]
    /\ UNCHANGED <<now, db, tx, scraped, files, torn, count, log>>

WriteStats ==
    /\ proc.pc = "write"
    /\ csv' = [is |-> "whole", rows |-> Joined(tx)]
    /\ proc' = [proc EXCEPT !.pc = "finish"]
    /\ UNCHANGED <<now, db, tx, scraped, files, torn, count, log>>

JoinedOf(part) == IF part = "om" THEN OmJoined(tx) ELSE WuJoined(tx)

\* No joined row of this part: everything is rolled back, but not the CSV.
GivesUp ==
    /\ proc.pc = "finish" /\ JoinedOf(proc.part) = {}
    /\ Rollback /\ Return
    /\ UNCHANGED <<now, db, scraped, files, torn, csv, count, log>>

\* record_job_success with the clock of this moment, and the commit.
Succeeds ==
    /\ proc.pc = "finish" /\ JoinedOf(proc.part) # {}
    /\ LET state == [target |-> proc.end, at |-> now]
           done == IF proc.part = "om" THEN [tx EXCEPT !.om = state]
                                       ELSE [tx EXCEPT !.wuJob = state]
       IN  db' = done /\ tx' = done
    /\ log' = log \cup {[part |-> proc.part, stations |-> proc.stations,
                         end |-> proc.end, read |-> proc.read, at |-> now]}
    /\ Return
    /\ UNCHANGED <<now, scraped, files, torn, csv, count>>

----------------------------------------------------------------------------
\* Around the process

\* Mutant: what was written so far stays.
CrashCommits ==
    /\ proc.pc # "gone"
    /\ Faults(1)
    /\ proc' = NoJob
    /\ UNCHANGED <<now, db, tx, scraped, files, torn, csv, log>>

\* A kill, or a lost connection.  A payload being stored stays half written.
Crash ==
    /\ proc.pc # "gone"
    /\ Faults(1)
    /\ Rollback /\ proc' = NoJob
    /\ \/ UNCHANGED torn
       \/ \E x \in proc.todo : /\ proc.pc = "runs" /\ IsNext(x) /\ x \notin files
                               /\ torn' = torn \cup {x}
    /\ UNCHANGED <<now, db, scraped, files, csv, log>>

\* The collector commits the scrape of this tick's hour.
Scrape(s) ==
    /\ Cardinality(scraped) < MaxScrapes
    /\ scraped' = scraped \cup {<<s, now>>}
    /\ UNCHANGED <<now, db, tx, files, torn, csv, proc, count, log>>

Tick ==
    /\ now < Horizon
    /\ now' = now + 1
    /\ IF proc.pc = "gone" THEN UNCHANGED count
       ELSE count.slow < MaxSlow /\ count' = [count EXCEPT !.slow = @ + 1]
    /\ UNCHANGED <<db, tx, scraped, files, torn, csv, proc, log>>

Process ==
    \/ BeginBootstrap \/ BeginDaily \/ NothingToDo
    \/ IngestObservations \/ IngestHistory
    \/ \E x \in proc.todo : IngestRun(x) \/ RunFails(x) \/ RunRaises(x)
    \/ IngestSnapshots
    \/ Recompute \/ WriteStats \/ GivesUp \/ Succeeds

Next ==
    \/ \E c \in Commands : Start(c)
    \/ Process
    \/ Crash
    \/ \E s \in Stations : Scrape(s)
    \/ Tick

Spec == Init /\ [][Next]_vars

----------------------------------------------------------------------------
\* Properties

Runs == Stations \X (0..Horizon)
Days == Stations \X (0..DayOf(Horizon))
Rows == {"om", "wu"} \X Stations \X (0..Horizon) \X AllDays
States == [target : 0..DayOf(Horizon), at : 0..Horizon] \cup {None}
Tables == [obs : SUBSET Days, recs : SUBSET Runs, hist : SUBSET Days,
           wu : SUBSET (Stations \X (0..Horizon) \X BOOLEAN), om : States, wuJob : States,
           missed : SUBSET ((Days \X {"hist"}) \cup (Runs \X {"run"}))]

(* The tables, the files and the CSV hold what their columns say; a         *)
(* process that is not running has no transaction open (get_connection).    *)
TypeOK ==
    /\ now \in 0..Horizon
    /\ db \in Tables /\ tx \in Tables
    /\ scraped \subseteq Runs /\ files \subseteq Runs /\ torn \subseteq Runs
    /\ csv.is \in {"none", "torn", "whole"} /\ csv.rows \subseteq Rows
    /\ proc.pc = "gone" => tx = db

Successes(part) == {l \in log : l.part = part}

\* A success for other stations moved the windows of this one too.
Overlooked(part, s, t) == \E l \in Successes(part) : s \notin l.stations /\ t < l.at

\* A run of a day that a success did not cover yet, but from before it: the
\* next window begins at the success.
FellBetween(r) == \E l \in Successes("om") : l.end < DayOf(r) /\ r < l.at

RunsLostOnlyAsListed ==
    db.om # None =>
        \A x \in Runs :
            DayOf(x[2]) <= db.om.target =>
                \/ x \in db.recs
                \/ <<x, "run">> \in db.missed
                \/ FellBetween(x[2])
                \/ Overlooked("om", x[1], x[2])

SnapshotsLostOnlyAsListed ==
    db.wuJob # None =>
        \A x \in scraped :
            x[2] <= db.wuJob.at =>
                \/ \E h \in BOOLEAN : <<x[1], x[2], h>> \in db.wu
                \/ \E l \in Successes("wu") : l.read <= x[2] /\ x[2] <= l.at
                \/ Overlooked("wu", x[1], x[2])

UnadjustedOnlyAsListed ==
    \A x \in db.wu :
        ~x[3] =>
            \/ \E l \in Successes("wu") : l.end < DayOf(x[2]) /\ x[2] <= l.at
            \/ <<<<x[1], DayOf(x[2])>>, "hist">> \in db.missed

(* What a successful job has passed over is lost, as no later window goes   *)
(* back, so this lists the losses.  Every run of a day that the om part has *)
(* covered is in the store, unless its fetch failed, or it fell between two *)
(* windows (calibration_runner.py:438 takes the next window's start from    *)
(* the wall clock of the last success, which only covered the runs up to    *)
(* the end of the day before), or the windows were moved by an update of    *)
(* other stations.  Every scrape on the hour before the last success of the *)
(* wu part became a record, unless it was committed while a success was     *)
(* between its read and its own instant, or came from a station that was    *)
(* left out.  A record is adjusted by the history of its day, unless it was *)
(* read before the day was over or the history once could not be fetched.   *)
LossesAreListed == RunsLostOnlyAsListed /\ SnapshotsLostOnlyAsListed /\ UnadjustedOnlyAsListed

(* The statistics never lag behind the committed store: a complete CSV has  *)
(* every row that joins in it, in particular every success has written one. *)
(* It may be ahead: it is written before the commit (recompute_updated_stats *)
(* runs inside the transaction), so a part that gives up or dies after it   *)
(* leaves rows that the store does not have.                                *)
StatsCoverStore ==
    /\ csv.is = "whole" => Joined(db) \subseteq csv.rows
    /\ csv.is = "none" => Joined(db) = {}
    /\ csv.is = "torn" => proc.pc = "write" \/ count.faults > 0

=============================================================================
