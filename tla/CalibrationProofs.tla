-------------------------- MODULE CalibrationProofs --------------------------
(***************************************************************************)
(* What the calibration jobs promise of their store, for any stations, any *)
(* length of the day and of a forecast, any number of starts, failing      *)
(* fetches, crashes and scrapes: the tables keep their types, a complete   *)
(* statistics file covers the committed store, and what the jobs pass over *)
(* is lost only in the listed cases.                                       *)
(***************************************************************************)
EXTENDS CalibrationJob, FiniteSetTheorems, TLAPS

-----------------------------------------------------------------------------
(* Days.                                                                   *)

LEMMA DivMod ==
  ASSUME NEW a \in Int, NEW b \in Nat \ {0}
  PROVE  /\ a \div b \in Int /\ a % b \in 0 .. b - 1
         /\ a = b * (a \div b) + (a % b)
  BY SMT

\* The days up to e are the ticks before the first one of day e + 1.
LEMMA DayBound ==
  ASSUME NEW t \in Int, NEW e \in Int
  PROVE  DayOf(t) \in Int /\ (t <= Slots * (e + 1) - 1 <=> DayOf(t) <= e)
<1> DEFINE d == t \div Slots
<1> USE JobAssumption
<1>1. /\ d \in Int /\ t % Slots \in 0 .. Slots - 1
      /\ t = Slots * d + (t % Slots)
  BY DivMod
<1>2. Slots * d \in Int /\ Slots * e \in Int /\ Slots * (e + 1) = Slots * e + Slots
  BY <1>1, SMT
<1> HIDE DEF d
<1>3. ASSUME d <= e PROVE Slots * d <= Slots * e
  BY <1>1, <1>3, SMT
<1>4. ASSUME d >= e + 1 PROVE Slots * d >= Slots * (e + 1)
  BY <1>1, <1>4, SMT
<1>5. d <= e => t <= Slots * (e + 1) - 1
  BY <1>1, <1>2, <1>3
<1>6. t <= Slots * (e + 1) - 1 => d <= e
  BY <1>1, <1>2, <1>4
<1> QED BY <1>1, <1>5, <1>6 DEF DayOf, d

LEMMA DayMonotone ==
  ASSUME NEW s \in Int, NEW t \in Int, s <= t
  PROVE  DayOf(s) \in Int /\ DayOf(t) \in Int /\ DayOf(s) <= DayOf(t)
<1> DEFINE e == DayOf(t)
<1>1. e \in Int /\ DayOf(s) \in Int  BY DayBound
<1>2. t <= Slots * (e + 1) - 1  BY <1>1, DayBound
<1>3. Slots * (e + 1) \in Int  BY <1>1, JobAssumption
<1>4. s <= Slots * (e + 1) - 1  BY <1>1, <1>2, <1>3
<1> QED BY <1>1, <1>4, DayBound

LEMMA DayNatural ==
  ASSUME NEW t \in Nat
  PROVE  DayOf(t) \in Nat
<1>1. DayOf(0) = 0  BY JobAssumption DEF DayOf
<1> QED BY <1>1, DayMonotone

-----------------------------------------------------------------------------
(* Types, with the locals of the process and the times it works on.        *)

Working == proc.pc \notin {"gone", "begin"}

ProcSet ==
    [pc : {"gone", "begin", "ingest", "runs", "snapshots", "recompute", "write", "finish"},
     cmd : {None, "bootstrap", "wu_bootstrap", "daily"}, part : {None, "om", "wu"},
     stations : SUBSET Stations, end : Int, first : Int, since : Int, todo : SUBSET Runs,
     read : Int, noObs : BOOLEAN]

LocalsOK ==
    /\ proc \in ProcSet
    /\ proc.pc # "gone" => proc.part \in {"om", "wu"}
    /\ count \in [starts : Nat, faults : Nat, slow : Nat]
    /\ log \in SUBSET [part : {"om", "wu"}, stations : SUBSET Stations,
                       end : Int, read : Int, at : Int]

\* A state the job recorded: its days were over when it succeeded.
Recorded(state) == state # None => DayOf(state.at) > state.target /\ state.at <= now

TimesOK ==
    /\ \A x \in scraped : x[2] <= now
    /\ Recorded(db.om) /\ Recorded(db.wuJob)
    /\ tx.om = db.om /\ tx.wuJob = db.wuJob
    /\ Working => /\ 0 <= proc.end /\ proc.end < DayOf(now)
                  /\ 0 <= proc.first /\ 0 <= proc.since
                  /\ 0 <= proc.read /\ proc.read <= now
    /\ ~Working => tx = db

Types == TypeOK /\ LocalsOK /\ TimesOK

LEMMA InitTypes ==
  Init => Types
<1> SUFFICES ASSUME Init PROVE Types
  OBVIOUS
<1> USE JobAssumption
<1>1. Empty \in Tables  BY DEF Empty, Tables, States
<1>2. NoJob \in ProcSet  BY DEF NoJob, ProcSet
<1>3. TypeOK  BY <1>1 DEF Init, TypeOK, NoStats
<1>4. LocalsOK  BY <1>2 DEF Init, LocalsOK, NoJob
<1>5. TimesOK  BY DEF Init, TimesOK, Working, NoJob, Empty, Recorded
<1> QED BY <1>3, <1>4, <1>5 DEF Types

LEMMA NowDays ==
  ASSUME Types
  PROVE  /\ now \in Nat /\ DayOf(now) \in Nat /\ DayOf(Horizon) \in Nat
         /\ DayOf(now) <= DayOf(Horizon)
<1>1. now \in 0..Horizon /\ Horizon \in Nat  BY JobAssumption DEF Types, TypeOK
<1> QED BY <1>1, DayMonotone, DayNatural

LEMMA FaultsGrow ==
  ASSUME Types, NEW n \in Nat, Faults(n)
  PROVE  count' \in [starts : Nat, faults : Nat, slow : Nat]
BY DEF Types, LocalsOK, Faults

LEMMA WindowDays ==
  ASSUME Types, Working
  PROVE  Window \subseteq Days /\ IsFiniteSet(Window)
<1>1. proc.stations \subseteq Stations /\ proc.first \in Int /\ proc.end \in Int
  BY DEF Types, LocalsOK, ProcSet
<1>2. 0 <= proc.first /\ proc.end < DayOf(now)
  BY DEF Types, TimesOK
<1>3. Window \subseteq Days
  BY <1>1, <1>2, NowDays DEF Window, Days
<1>4. IsFiniteSet(proc.stations) /\ IsFiniteSet(proc.first .. proc.end)
  BY <1>1, JobAssumption, FS_Subset, FS_Interval
<1>5. IsFiniteSet(Window)
  BY <1>4, FS_Product DEF Window
<1> QED BY <1>3, <1>5

LEMMA NoJobTypes ==
  NoJob \in ProcSet /\ NoJob.pc = "gone"
BY DEF NoJob, ProcSet

LEMMA ReturnTypes ==
  ASSUME Types, Return
  PROVE  /\ proc' \in ProcSet /\ ~Working' /\ proc'.pc # "finish" /\ proc'.pc # "write"
         /\ proc'.pc # "gone" => proc'.part \in {"om", "wu"}
<1>1. proc \in ProcSet  BY DEF Types, LocalsOK
<1>2. CASE proc.cmd = "daily" /\ proc.part = "om"
  BY <1>1, <1>2 DEF Return, ProcSet, Working
<1>3. CASE ~(proc.cmd = "daily" /\ proc.part = "om")
  BY <1>3, NoJobTypes DEF Return, Working
<1> QED BY <1>2, <1>3

\* A part that ends, with or without the commit of done.
LEMMA PartEndsTypes ==
  ASSUME Types, Return, NEW done \in Tables, db' = done, tx' = done, UNCHANGED now,
         UNCHANGED <<scraped, files, torn>>,
         csv'.is \in {"none", "torn", "whole"}, csv'.rows \subseteq Rows,
         count' \in [starts : Nat, faults : Nat, slow : Nat],
         log' \in SUBSET [part : {"om", "wu"}, stations : SUBSET Stations,
                          end : Int, read : Int, at : Int],
         Recorded(done.om), Recorded(done.wuJob)
  PROVE  Types'
<1>1. /\ proc' \in ProcSet /\ ~Working'
      /\ proc'.pc # "gone" => proc'.part \in {"om", "wu"}
  BY ReturnTypes
<1>2. TypeOK'  BY DEF Types, TypeOK
<1>3. LocalsOK'  BY <1>1 DEF LocalsOK
<1>4. TimesOK'  BY <1>1 DEF Types, TimesOK, Recorded
<1> QED BY <1>2, <1>3, <1>4 DEF Types

\* The process dies: everything that was not committed is gone.
LEMMA DiesTypes ==
  ASSUME Types, Rollback, proc' = NoJob, UNCHANGED <<now, db, scraped, files, csv, log>>,
         torn' \subseteq Runs, count' \in [starts : Nat, faults : Nat, slow : Nat]
  PROVE  Types'
<1>1. tx' = db' /\ db' \in Tables  BY DEF Types, TypeOK, Rollback
<1>2. TypeOK'  BY <1>1 DEF Types, TypeOK
<1>3. LocalsOK'  BY NoJobTypes DEF Types, LocalsOK, NoJob
<1>4. TimesOK'
  BY <1>1, NoJobTypes DEF Types, TimesOK, Working, Recorded
<1> QED BY <1>2, <1>3, <1>4 DEF Types

\* The windows and the stations of the part in work stay what they are.
SamePart ==
    /\ proc' \in ProcSet
    /\ proc'.part = proc.part /\ proc'.stations = proc.stations
    /\ proc'.first = proc.first /\ proc'.end = proc.end /\ proc'.since = proc.since
    /\ proc'.read = proc.read \/ proc'.read = now

\* A step of a working part that writes its transaction.
LEMMA WritesTypes ==
  ASSUME Types, Working, SamePart, NEW written \in Tables, tx' = written,
         written.om = tx.om, written.wuJob = tx.wuJob,
         UNCHANGED <<now, db, scraped, torn, log>>, files' \subseteq Runs,
         csv'.is \in {"none", "torn", "whole"}, csv'.rows \subseteq Rows,
         count' \in [starts : Nat, faults : Nat, slow : Nat],
         proc'.pc \in {"runs", "snapshots", "recompute", "write", "finish"}
  PROVE  Types' /\ Working'
<1>1. proc \in ProcSet /\ proc.pc # "gone" /\ now \in Int
  BY NowDays DEF Types, LocalsOK, Working
<1>2. Working' /\ proc'.pc # "gone"  BY DEF Working
<1>3. TypeOK'  BY <1>2 DEF Types, TypeOK
<1>4. LocalsOK'  BY <1>1 DEF Types, LocalsOK, SamePart
<1>5. TimesOK'
  BY <1>1, <1>2, NowDays DEF Types, TimesOK, SamePart, Recorded
<1> QED BY <1>2, <1>3, <1>4, <1>5 DEF Types

LEMMA StartTypes ==
  ASSUME Types, NEW c \in Commands, Start(c)
  PROVE  Types'
<1>1. c.cmd \in {"bootstrap", "wu_bootstrap", "daily"} /\ c.stations \in SUBSET Stations
      /\ c.noObs \in BOOLEAN
  BY JobAssumption
<1> DEFINE part == IF c.cmd = "wu_bootstrap" THEN "wu" ELSE "om"
<1>0. part \in {"om", "wu"}  OBVIOUS
<1>2. proc' \in ProcSet /\ proc'.pc = "begin" /\ proc'.part \in {"om", "wu"}
  <2>1. proc' = [NoJob EXCEPT !.pc = "begin", !.cmd = c.cmd, !.stations = c.stations,
                              !.part = part, !.noObs = c.noObs]
    BY DEF Start
  <2> HIDE DEF part
  <2> QED BY <1>0, <1>1, <2>1, NoJobTypes DEF ProcSet
<1>3. count' \in [starts : Nat, faults : Nat, slow : Nat]
  BY DEF Start, Types, LocalsOK
<1>4. TypeOK'  BY <1>2 DEF Types, TypeOK, Start
<1>5. LocalsOK'  BY <1>2, <1>3 DEF Types, LocalsOK, Start
<1>6. TimesOK'  BY <1>2 DEF Types, TimesOK, Start, Working, Recorded
<1> QED BY <1>4, <1>5, <1>6 DEF Types

\* The windows of a part that begins lie before the day it begins on.
LEMMA OpensTypes ==
  ASSUME Types, proc.pc = "begin", NEW first \in Nat, NEW since \in Nat, DayOf(now) >= 1,
         Opens(first, since)
  PROVE  /\ Types' /\ Working' /\ proc'.pc = "ingest"
         /\ proc'.part = proc.part /\ proc'.stations = proc.stations /\ proc'.cmd = proc.cmd
         /\ proc'.first = first /\ proc'.since = since /\ proc'.end = DayOf(now) - 1
         /\ proc'.todo = IF proc.part = "om"
                         THEN proc.stations \X (since .. Slots * (proc'.end + 1) - 1) ELSE {}
<1> DEFINE end == DayOf(now) - 1
           todo == IF proc.part = "om"
                   THEN proc.stations \X (since .. Slots * (end + 1) - 1) ELSE {}
<1>1. proc \in ProcSet /\ now \in Nat /\ end \in Nat /\ end < DayOf(now)
      /\ now <= Horizon /\ Horizon \in Nat
  BY NowDays, JobAssumption DEF Types, LocalsOK, TypeOK
<1>2. todo \subseteq Runs
  <2>1. ASSUME NEW r \in since .. Slots * (end + 1) - 1
        PROVE  r \in 0 .. Horizon
    <3>1. r \in Int /\ r >= 0 /\ DayOf(r) <= end
      BY <2>1, <1>1, DayBound, JobAssumption
    <3>2. ~(now <= r)
      BY <3>1, <1>1, DayMonotone
    <3> QED BY <3>1, <3>2, <1>1
  <2>2. proc.stations \subseteq Stations  BY <1>1 DEF ProcSet
  <2> QED BY <2>1, <2>2 DEF Runs
<1>3. proc' = [proc EXCEPT !.pc = "ingest", !.end = end, !.first = first,
                           !.since = since, !.read = now, !.todo = todo]
  BY DEF Opens, _utc_yesterday
<1> HIDE DEF todo, end
<1>4. /\ proc' \in ProcSet /\ proc'.pc = "ingest" /\ proc'.end = end /\ proc'.first = first
      /\ proc'.since = since /\ proc'.read = now /\ proc'.todo = todo
      /\ proc'.part = proc.part /\ proc'.stations = proc.stations /\ proc'.cmd = proc.cmd
  <2>1. end \in Int /\ first \in Int /\ since \in Int /\ now \in Int /\ todo \in SUBSET Runs
    BY <1>1, <1>2
  <2> QED BY <1>1, <1>3, <2>1 DEF ProcSet
<1>5. tx' = db /\ db \in Tables  BY DEF Opens, Types, TypeOK
<1>6. Working'  BY <1>4 DEF Working
<1>7. TypeOK'  BY <1>4, <1>5 DEF Types, TypeOK, Opens
<1>8. LocalsOK'  BY <1>4 DEF Types, LocalsOK, Opens
<1>9. TimesOK'
  BY <1>1, <1>4, <1>5, <1>6 DEF Types, TimesOK, Opens, Recorded
<1> QED BY <1>4, <1>6, <1>7, <1>8, <1>9 DEF Types, end, todo

\* A nightly part follows a success, and the day after its last target.
LEMMA DailyWindow ==
  ASSUME Types, proc.pc = "begin", State(proc.part) # None
  PROVE  /\ State(proc.part).target \in Nat /\ State(proc.part).at \in Nat
         /\ State(proc.part).target < DayOf(State(proc.part).at)
         /\ State(proc.part).target <= DayOf(now) - 1 /\ DayOf(now) >= 1
<1> DEFINE state == State(proc.part)
<1>1. state \in States /\ Recorded(state)
  BY DEF Types, TypeOK, Tables, TimesOK, State
<1>2. state # None  OBVIOUS
<1> HIDE DEF state
<1>3. state \in [target : 0..DayOf(Horizon), at : 0..Horizon]
  BY <1>1, <1>2 DEF States
<1>4. state.target \in Nat /\ state.at \in Nat
  BY <1>3, NowDays, JobAssumption
<1>5. DayOf(state.at) > state.target /\ state.at <= now
  BY <1>1, <1>2 DEF Recorded
<1>6. DayOf(state.at) \in Int /\ DayOf(state.at) <= DayOf(now) /\ DayOf(now) \in Int
  BY <1>4, <1>5, NowDays, DayMonotone
<1>7. DayOf(now) >= 1 /\ state.target <= DayOf(now) - 1 /\ state.target < DayOf(state.at)
  BY <1>4, <1>5, <1>6
<1> QED BY <1>4, <1>7 DEF state

\* The first day of a nightly window, and its first instant.
NightlyFirst ==
    LET state == State(proc.part) IN
    IF state.target + 1 < _utc_yesterday THEN state.target + 1 ELSE _utc_yesterday

NightlySince == IF proc.part = "om" THEN State(proc.part).at ELSE State(proc.part).at + 1

LEMMA BeginTypes ==
  ASSUME Types, BeginBootstrap \/ BeginDaily
  PROVE  /\ proc.pc = "begin" /\ DayOf(now) >= 1
         /\ \/ BeginBootstrap /\ Opens(0, 0)
            \/ /\ BeginDaily /\ Opens(NightlyFirst, NightlySince)
               /\ NightlyFirst \in Nat /\ NightlySince \in Nat
               /\ NightlyFirst <= State(proc.part).target + 1
         /\ Types'
<1>1. CASE BeginBootstrap
  <2>1. DayOf(now) >= 1
    BY <1>1, NowDays DEF BeginBootstrap, _utc_yesterday
  <2>2. proc.pc = "begin" /\ Opens(0, 0)
    BY <1>1 DEF BeginBootstrap
  <2> QED BY <1>1, <2>1, <2>2, OpensTypes
<1>2. CASE BeginDaily
  <2>1. proc.pc = "begin" /\ State(proc.part) # None
        /\ Opens(NightlyFirst, NightlySince)
    BY <1>2 DEF BeginDaily, NightlyFirst, NightlySince
  <2>2. /\ State(proc.part).target \in Nat /\ State(proc.part).at \in Nat
        /\ State(proc.part).target <= DayOf(now) - 1 /\ DayOf(now) >= 1
    BY <2>1, DailyWindow
  <2>3. NightlyFirst \in Nat /\ NightlyFirst <= State(proc.part).target + 1
    BY <2>2, NowDays DEF NightlyFirst, _utc_yesterday
  <2>4. NightlySince \in Nat
    BY <2>2 DEF NightlySince
  <2> QED BY <1>2, <2>1, <2>2, <2>3, <2>4, OpensTypes
<1> QED BY <1>1, <1>2

LEMMA NothingTypes ==
  ASSUME Types, NothingToDo
  PROVE  Types'
<1>1. db \in Tables /\ tx = db /\ Recorded(db.om) /\ Recorded(db.wuJob)
  BY DEF Types, TypeOK, TimesOK, Working, NothingToDo
<1>2. UNCHANGED <<now, db, tx, scraped, files, torn, csv, count, log>> /\ Return
  BY DEF NothingToDo
<1> QED BY <1>1, <1>2, PartEndsTypes DEF Types, TypeOK, LocalsOK

\* What a fetch of days can leave in a table.
LEMMA FetchedDays ==
  ASSUME Types, Working, NEW table \in SUBSET Days, NEW failed \in SUBSET Window
  PROVE  /\ (table \cup Window) \ (failed \ table) \in SUBSET Days
         /\ failed \X {"hist"} \in SUBSET (Days \X {"hist"})
         /\ Cardinality(failed) \in Nat
<1>1. Window \subseteq Days /\ IsFiniteSet(Window)  BY WindowDays
<1>2. IsFiniteSet(failed)  BY <1>1, FS_Subset
<1>3. Cardinality(failed) \in Nat  BY <1>2, FS_CardinalityType
<1> QED BY <1>1, <1>3

LEMMA ObservationsTypes ==
  ASSUME Types, IngestObservations
  PROVE  Types' /\ SamePart /\ Working' /\ proc'.pc = "runs" /\ proc'.todo = proc.todo
<1>1. Working /\ proc \in ProcSet /\ tx \in Tables
  BY DEF IngestObservations, Working, Types, LocalsOK, TypeOK
<1>2. proc' = [proc EXCEPT !.pc = "runs"]  BY DEF IngestObservations
<1>3. SamePart /\ proc'.pc = "runs" /\ proc'.todo = proc.todo
  BY <1>1, <1>2 DEF SamePart, ProcSet
<1>4. PICK failed \in SUBSET Window :
        /\ \/ failed = {} /\ UNCHANGED tx
           \/ tx' = [tx EXCEPT !.obs = ingest_observations(failed)]
        /\ Faults(Cardinality(failed))
  BY DEF IngestObservations
<1>5. tx.obs \in SUBSET Days  BY <1>1 DEF Tables
<1>6. count' \in [starts : Nat, faults : Nat, slow : Nat]
  BY <1>1, <1>4, <1>5, FetchedDays, FaultsGrow
<1>7. tx' \in Tables /\ tx'.om = tx.om /\ tx'.wuJob = tx.wuJob
  <2>1. ingest_observations(failed) \in SUBSET Days
    BY <1>1, <1>5, FetchedDays DEF ingest_observations
  <2> QED BY <1>1, <1>4, <2>1 DEF Tables
<1> QED BY <1>1, <1>3, <1>6, <1>7, WritesTypes DEF IngestObservations, Types, TypeOK

LEMMA RunTypes ==
  ASSUME Types, NEW x \in proc.todo, IngestRun(x) \/ RunFails(x)
  PROVE  /\ Types' /\ SamePart /\ Working' /\ proc'.pc = "runs" /\ proc.pc = "runs"
         /\ proc'.todo = proc.todo \ {x}
<1>1. Working /\ proc \in ProcSet /\ tx \in Tables /\ x \in Runs /\ proc.pc = "runs"
  BY DEF IngestRun, RunFails, Working, Types, LocalsOK, TypeOK, ProcSet
<1>2. proc' = [proc EXCEPT !.todo = @ \ {x}]  BY DEF IngestRun, RunFails, RunDone
<1>3. SamePart /\ proc'.pc = "runs" /\ proc'.todo = proc.todo \ {x}
  BY <1>1, <1>2 DEF SamePart, ProcSet
<1>4. /\ tx' \in Tables /\ tx'.om = tx.om /\ tx'.wuJob = tx.wuJob
      /\ files' \subseteq Runs /\ count' \in [starts : Nat, faults : Nat, slow : Nat]
  <2>1. CASE IngestRun(x)
    BY <1>1, <2>1 DEF IngestRun, Tables, Types, TypeOK, LocalsOK
  <2>2. CASE RunFails(x)
    <3>1. count' \in [starts : Nat, faults : Nat, slow : Nat]
      BY <2>2, FaultsGrow DEF RunFails
    <3>2. <<x, "run">> \in Runs \X {"run"}  BY <1>1
    <3> QED BY <1>1, <2>2, <3>1, <3>2 DEF RunFails, Tables, Types, TypeOK
  <2> QED BY <2>1, <2>2
<1> QED BY <1>1, <1>3, <1>4, WritesTypes DEF IngestRun, RunFails, Types, TypeOK

LEMMA HistoryTypes ==
  ASSUME Types, IngestHistory
  PROVE  /\ Types'
         /\ \/ Rollback /\ Return
            \/ SamePart /\ Working' /\ proc'.pc = "snapshots" /\ proc'.todo = proc.todo
<1>1. Working /\ proc \in ProcSet /\ tx \in Tables
  BY DEF IngestHistory, Working, Types, LocalsOK, TypeOK
<1>2. PICK failed \in SUBSET Window, lost \in SUBSET Window :
        /\ Faults(Cardinality(failed) + Cardinality(lost))
        /\ IF proc.cmd = "wu_bootstrap" /\ failed = Window
           THEN Rollback /\ Return
           ELSE /\ tx' = [tx EXCEPT
                      !.hist = ingest_wu_history_observations(failed),
                      !.obs = IF proc.noObs THEN @ ELSE ingest_observations(lost),
                      !.missed = @ \cup (failed \X {"hist"})]
                /\ proc' = [proc EXCEPT !.pc = "snapshots"]
  BY DEF IngestHistory
<1>3. tx.obs \in SUBSET Days /\ tx.hist \in SUBSET Days
      /\ tx.missed \in SUBSET ((Days \X {"hist"}) \cup (Runs \X {"run"}))
  BY <1>1 DEF Tables
<1>4. count' \in [starts : Nat, faults : Nat, slow : Nat]
  <2>1. Cardinality(failed) \in Nat  BY <1>1, <1>3, FetchedDays
  <2>2. Cardinality(lost) \in Nat  BY <1>1, <1>3, FetchedDays
  <2>3. Cardinality(failed) + Cardinality(lost) \in Nat  BY <2>1, <2>2
  <2> QED BY <1>2, <2>3, FaultsGrow
<1>5. CASE Rollback /\ Return
  <2>1. db \in Tables /\ Recorded(db.om) /\ Recorded(db.wuJob)
    BY DEF Types, TypeOK, TimesOK
  <2>2. Types'
    BY <1>4, <1>5, <2>1, PartEndsTypes DEF IngestHistory, Rollback, Types, TypeOK, LocalsOK
  <2> QED BY <1>5, <2>2
<1>6. CASE ~(proc.cmd = "wu_bootstrap" /\ failed = Window)
  <2>1. SamePart /\ proc'.pc = "snapshots" /\ proc'.todo = proc.todo
    BY <1>1, <1>2, <1>6 DEF SamePart, ProcSet
  <2>2. /\ ingest_wu_history_observations(failed) \in SUBSET Days
        /\ ingest_observations(lost) \in SUBSET Days
        /\ failed \X {"hist"} \in SUBSET (Days \X {"hist"})
    BY <1>1, <1>3, FetchedDays DEF ingest_wu_history_observations, ingest_observations
  <2>3. tx.missed \cup (failed \X {"hist"})
            \in SUBSET ((Days \X {"hist"}) \cup (Runs \X {"run"}))
    BY <1>3, <2>2
  <2>4. PICK obs \in SUBSET Days :
          tx' = [tx EXCEPT !.hist = ingest_wu_history_observations(failed), !.obs = obs,
                           !.missed = tx.missed \cup (failed \X {"hist"})]
    BY <1>2, <1>3, <1>6, <2>2
  <2>5. tx' \in Tables /\ tx'.om = tx.om /\ tx'.wuJob = tx.wuJob
    BY <1>1, <2>2, <2>3, <2>4 DEF Tables
  <2> QED BY <1>1, <1>4, <2>1, <2>5, WritesTypes DEF IngestHistory, Types, TypeOK
<1> QED BY <1>2, <1>5, <1>6
LEMMA RaisesTypes ==
  ASSUME Types, NEW x \in proc.todo, RunRaises(x)
  PROVE  Types'
BY DiesTypes DEF RunRaises, Types, TypeOK, LocalsOK

LEMMA CrashTypes ==
  ASSUME Types, Crash
  PROVE  Types'
<1>1. count' \in [starts : Nat, faults : Nat, slow : Nat]
  BY FaultsGrow DEF Crash
<1>2. proc.todo \subseteq Runs /\ torn \subseteq Runs
  BY DEF Types, TypeOK, LocalsOK, ProcSet
<1>3. torn' \subseteq Runs
  BY <1>2 DEF Crash
<1>4. Rollback /\ proc' = NoJob /\ UNCHANGED <<now, db, scraped, files, csv, log>>
  BY DEF Crash
<1> QED BY <1>1, <1>3, <1>4, DiesTypes

\* The scrapes that the wu part turns into records.
NewScrapes == {x \in scraped : x[1] \in proc.stations /\ x[2] >= proc.since}

LEMMA SnapshotsTypes ==
  ASSUME Types, IngestSnapshots
  PROVE  Types' /\ SamePart /\ Working' /\ proc'.pc = "recompute" /\ proc'.read = now
<1>1. Working /\ proc \in ProcSet /\ tx \in Tables /\ scraped \subseteq Runs
  BY DEF IngestSnapshots, Working, Types, LocalsOK, TypeOK
<1>2. proc' = [proc EXCEPT !.pc = "recompute", !.read = now]  BY DEF IngestSnapshots
<1>3. now \in Int  BY NowDays
<1>4. SamePart /\ proc'.pc = "recompute" /\ proc'.read = now
  BY <1>1, <1>2, <1>3 DEF SamePart, ProcSet
<1> DEFINE written == {w \in tx.wu : <<w[1], w[2]>> \notin NewScrapes}
                        \cup {<<x[1], x[2], <<x[1], DayOf(x[2])>> \in tx.hist>> : x \in NewScrapes}
<1>5. tx' = [tx EXCEPT !.wu = written]
  BY DEF IngestSnapshots, NewScrapes
<1>6. written \in SUBSET (Stations \X (0..Horizon) \X BOOLEAN)
  <2>1. tx.wu \in SUBSET (Stations \X (0..Horizon) \X BOOLEAN)  BY <1>1 DEF Tables
  <2>2. NewScrapes \subseteq Stations \X (0..Horizon)  BY <1>1 DEF NewScrapes, Runs
  <2>3. ASSUME NEW x \in NewScrapes
        PROVE  <<x[1], x[2], <<x[1], DayOf(x[2])>> \in tx.hist>>
                  \in Stations \X (0..Horizon) \X BOOLEAN
    <3> DEFINE h == <<x[1], DayOf(x[2])>> \in tx.hist
    <3>1. h \in BOOLEAN  OBVIOUS
    <3> HIDE DEF h
    <3>2. <<x[1], x[2], h>> \in Stations \X (0..Horizon) \X BOOLEAN  BY <2>2, <3>1
    <3> QED BY <3>2 DEF h
  <2> QED BY <2>1, <2>3
<1> HIDE DEF written
<1>7. tx' \in Tables /\ tx'.om = tx.om /\ tx'.wuJob = tx.wuJob
  BY <1>1, <1>5, <1>6 DEF Tables
<1> QED BY <1>1, <1>4, <1>7, WritesTypes DEF IngestSnapshots, Types, TypeOK, LocalsOK

\* The rows of the statistics are rows.
LEMMA JoinedRows ==
  ASSUME NEW d
  PROVE  Joined(d) \subseteq Rows
<1>1. OmJoined(d) \subseteq Rows  BY DEF OmJoined, Rows
<1>2. WuJoined(d) \subseteq Rows  BY DEF WuJoined, Rows
<1> QED BY <1>1, <1>2 DEF Joined

LEMMA StatsTypes ==
  ASSUME Types, Recompute \/ WriteStats
  PROVE  Types' /\ SamePart /\ Working' /\ tx' = tx
<1>1. Working /\ proc \in ProcSet /\ tx \in Tables
  BY DEF Recompute, WriteStats, Working, Types, LocalsOK, TypeOK
<1>2. /\ tx' = tx /\ UNCHANGED <<now, db, scraped, files, torn, count, log>>
      /\ \/ proc' = [proc EXCEPT !.pc = "finish"]
         \/ proc' = [proc EXCEPT !.pc = "write"]
  BY DEF Recompute, WriteStats
<1>3. csv'.is \in {"none", "torn", "whole"} /\ csv'.rows \subseteq Rows
  BY JoinedRows DEF Recompute, WriteStats, Types, TypeOK
<1>4. SamePart /\ proc'.pc \in {"write", "finish"}
  BY <1>1, <1>2 DEF SamePart, ProcSet
<1> QED BY <1>1, <1>2, <1>3, <1>4, WritesTypes DEF Types, TypeOK, LocalsOK

LEMMA GivesUpTypes ==
  ASSUME Types, GivesUp
  PROVE  Types'
<1>1. db \in Tables /\ Recorded(db.om) /\ Recorded(db.wuJob)
  BY DEF Types, TypeOK, TimesOK
<1> QED BY <1>1, PartEndsTypes DEF GivesUp, Rollback, Types, TypeOK, LocalsOK

\* The store that a success leaves.
Success == [target |-> proc.end, at |-> now]
Done == IF proc.part = "om" THEN [tx EXCEPT !.om = Success] ELSE [tx EXCEPT !.wuJob = Success]
Entry == [part |-> proc.part, stations |-> proc.stations, end |-> proc.end,
          read |-> proc.read, at |-> now]

LEMMA SucceedsTypes ==
  ASSUME Types, Succeeds
  PROVE  Types' /\ db' = Done /\ log' = log \cup {Entry}
<1>1. /\ Working /\ proc \in ProcSet /\ tx \in Tables /\ proc.part \in {"om", "wu"}
      /\ now \in Nat /\ now <= Horizon /\ Horizon \in Nat
  BY NowDays, JobAssumption DEF Succeeds, Working, Types, LocalsOK, TypeOK
<1>2. 0 <= proc.end /\ proc.end < DayOf(now) /\ proc.end \in Int
  BY <1>1 DEF Types, TimesOK, ProcSet
<1>3. Success \in States /\ Recorded(Success)
  BY <1>1, <1>2, NowDays DEF Success, States, Recorded
<1>4. db' = Done /\ tx' = Done /\ log' = log \cup {Entry}
  BY DEF Succeeds, Done, Success, Entry
<1>5. tx.om = db.om /\ tx.wuJob = db.wuJob /\ Recorded(db.om) /\ Recorded(db.wuJob)
  BY DEF Types, TimesOK
<1>6. Done \in Tables /\ Recorded(Done.om) /\ Recorded(Done.wuJob)
  <2>1. CASE proc.part = "om"
    BY <1>1, <1>3, <1>5, <2>1 DEF Done, Tables
  <2>2. CASE proc.part = "wu"
    BY <1>1, <1>3, <1>5, <2>2 DEF Done, Tables
  <2> QED BY <1>1, <2>1, <2>2
<1>7. Entry \in [part : {"om", "wu"}, stations : SUBSET Stations,
                 end : Int, read : Int, at : Int]
  BY <1>1 DEF Entry, ProcSet
<1> QED BY <1>4, <1>6, <1>7, PartEndsTypes DEF Succeeds, Types, TypeOK, LocalsOK

LEMMA ScrapeTypes ==
  ASSUME Types, NEW s \in Stations, Scrape(s)
  PROVE  Types'
<1>1. now \in Nat /\ now \in 0..Horizon  BY NowDays DEF Types, TypeOK
<1>2. TypeOK'  BY <1>1 DEF Types, TypeOK, Scrape, Runs
<1>3. LocalsOK'  BY DEF Types, LocalsOK, Scrape
<1>4. TimesOK'  BY <1>1 DEF Types, TimesOK, Scrape, Working, Recorded
<1> QED BY <1>2, <1>3, <1>4 DEF Types

LEMMA TickTypes ==
  ASSUME Types, Tick
  PROVE  Types'
<1>1. now \in Nat /\ now' = now + 1 /\ now' \in 0..Horizon /\ Horizon \in Nat
  BY NowDays, JobAssumption DEF Tick, Types, TypeOK
<1>2. UNCHANGED <<db, tx, scraped, files, torn, csv, proc, log>>  BY DEF Tick
<1>3. DayOf(now) \in Int /\ DayOf(now') \in Int /\ DayOf(now) <= DayOf(now')
  BY <1>1, DayMonotone
<1>4. count' \in [starts : Nat, faults : Nat, slow : Nat]
  BY DEF Tick, Types, LocalsOK
<1>5. TypeOK'  BY <1>1, <1>2 DEF Types, TypeOK
<1>6. LocalsOK'  BY <1>2, <1>4 DEF Types, LocalsOK
<1>7. TimesOK'
  <2>1. \A x \in scraped' : x[2] <= now'
    <3> SUFFICES ASSUME NEW x \in scraped PROVE x[2] <= now'
      BY <1>2
    <3>1. x[2] \in Int /\ x[2] <= now  BY DEF Types, TypeOK, TimesOK, Runs
    <3> QED BY <1>1, <3>1
  <2>2. ASSUME NEW state \in States, Recorded(state) PROVE Recorded(state)'
    <3>1. CASE state = None  BY <3>1 DEF Recorded
    <3>2. CASE state # None
      <4>1. state.at \in Int /\ state.at <= now /\ DayOf(state.at) > state.target
        BY <2>2, <3>2 DEF States, Recorded
      <4> QED BY <1>1, <4>1 DEF Recorded
    <3> QED BY <3>1, <3>2
  <2>3. Recorded(db.om)' /\ Recorded(db.wuJob)'
    BY <1>2, <2>2 DEF Types, TypeOK, TimesOK, Tables
  <2>4. Working => /\ 0 <= proc.end /\ proc.end < DayOf(now')
                   /\ 0 <= proc.first /\ 0 <= proc.since
                   /\ 0 <= proc.read /\ proc.read <= now'
    BY <1>1, <1>3 DEF Types, TimesOK, LocalsOK, ProcSet
  <2> QED BY <1>2, <2>1, <2>3, <2>4 DEF Types, TimesOK, Working
<1> QED BY <1>5, <1>6, <1>7 DEF Types

LEMMA NextTypes ==
  Types /\ [Next]_vars => Types'
<1> SUFFICES ASSUME Types, [Next]_vars PROVE Types'
  OBVIOUS
<1>1. ASSUME NEW c \in Commands, Start(c) PROVE Types'
  BY <1>1, StartTypes
<1>2. CASE Process
  <2>1. CASE BeginBootstrap \/ BeginDaily  BY <2>1, BeginTypes
  <2>2. CASE NothingToDo  BY <2>2, NothingTypes
  <2>3. CASE IngestObservations  BY <2>3, ObservationsTypes
  <2>4. CASE IngestHistory  BY <2>4, HistoryTypes
  <2>5. ASSUME NEW x \in proc.todo, IngestRun(x) \/ RunFails(x) PROVE Types'
    BY <2>5, RunTypes
  <2>6. ASSUME NEW x \in proc.todo, RunRaises(x) PROVE Types'
    BY <2>6, RaisesTypes
  <2>7. CASE IngestSnapshots  BY <2>7, SnapshotsTypes
  <2>8. CASE Recompute \/ WriteStats  BY <2>8, StatsTypes
  <2>9. CASE GivesUp  BY <2>9, GivesUpTypes
  <2>10. CASE Succeeds  BY <2>10, SucceedsTypes
  <2> QED BY <1>2, <2>1, <2>2, <2>3, <2>4, <2>5, <2>6, <2>7, <2>8, <2>9, <2>10 DEF Process
<1>3. CASE Crash  BY <1>3, CrashTypes
<1>4. ASSUME NEW s \in Stations, Scrape(s) PROVE Types'
  BY <1>4, ScrapeTypes
<1>5. CASE Tick  BY <1>5, TickTypes
<1>6. CASE UNCHANGED vars
  BY <1>6 DEF vars, Types, TypeOK, LocalsOK, TimesOK, Working, Recorded
<1> QED BY <1>1, <1>2, <1>3, <1>4, <1>5, <1>6 DEF Next

LEMMA TypesHold ==
  Spec => []Types
<1>1. Init => Types  BY InitTypes
<1>2. Types /\ [Next]_vars => Types'  BY NextTypes
<1> QED BY <1>1, <1>2, PTL DEF Spec

\* The tables, the files, the CSV and the locals keep their types, and a
\* process that is not running has no transaction open.
THEOREM TypeCorrect == Spec => []TypeOK
<1>1. Types => TypeOK  BY DEF Types
<1> QED BY <1>1, TypesHold, PTL

-----------------------------------------------------------------------------
(* The statistics file.  A transaction only adds to what joins, the file   *)
(* is written from the transaction, and what is committed was written.     *)

Recordings(d) == {x \in Runs : \E h \in BOOLEAN : <<x[1], x[2], h>> \in d.wu}

Grown(d, t) ==
    d.obs \subseteq t.obs /\ d.recs \subseteq t.recs /\ Recordings(d) \subseteq Recordings(t)

StatsInv ==
    /\ Grown(db, tx)
    /\ csv.is = "whole" => Joined(db) \subseteq csv.rows
    /\ csv.is = "none" => Joined(db) = {}
    /\ csv.is = "torn" => proc.pc = "write" \/ count.faults > 0
    /\ proc.pc = "finish" => Joined(tx) = {} \/ (csv.is = "whole" /\ csv.rows = Joined(tx))

LEMMA JoinedGrows ==
  ASSUME NEW d, NEW t, Grown(d, t)
  PROVE  Joined(d) \subseteq Joined(t)
<1>1. OmJoined(d) \subseteq OmJoined(t)
  BY DEF OmJoined, Grown
<1>2. WuJoined(d) \subseteq WuJoined(t)
  <2> SUFFICES ASSUME NEW x \in WuJoined(d) PROVE x \in WuJoined(t)
    OBVIOUS
  <2>1. x[2] \in Stations /\ x[3] \in 0..Horizon  BY DEF WuJoined
  <2>2. \E h \in BOOLEAN : <<x[2], x[3], h>> \in d.wu  BY DEF WuJoined
  <2>3. <<x[2], x[3]>> \in Recordings(d)  BY <2>1, <2>2 DEF Recordings, Runs
  <2>4. <<x[2], x[3]>> \in Recordings(t)  BY <2>3 DEF Grown
  <2>5. \E h \in BOOLEAN : <<x[2], x[3], h>> \in t.wu  BY <2>4 DEF Recordings
  <2> QED BY <2>5 DEF WuJoined, Grown
<1> QED BY <1>1, <1>2 DEF Joined

LEMMA GrownSelf ==
  ASSUME NEW d
  PROVE  Grown(d, d)
BY DEF Grown

LEMMA GrownTwice ==
  ASSUME NEW d, NEW e, NEW t, Grown(d, e), Grown(e, t)
  PROVE  Grown(d, t)
BY DEF Grown

LEMMA InitStats ==
  Init => StatsInv
<1> SUFFICES ASSUME Init PROVE StatsInv
  OBVIOUS
<1>1. Joined(Empty) = {}
  BY DEF Joined, OmJoined, WuJoined, Empty
<1> QED BY <1>1, GrownSelf DEF Init, StatsInv, NoStats, NoJob

\* A step that leaves the file and the store alone, and does not write.
LEMMA StatsKept ==
  ASSUME Types, StatsInv, UNCHANGED <<db, csv>>, Grown(db, tx'),
         proc.pc # "write" \/ count'.faults > 0,
         count'.faults \in Nat, count'.faults >= count.faults,
         proc'.pc # "finish"
  PROVE  StatsInv'
<1>1. count.faults \in Nat  BY DEF Types, LocalsOK
<1>2. csv.is = "torn" => count'.faults > 0  BY <1>1 DEF StatsInv
<1> QED BY <1>2 DEF StatsInv

LEMMA GrowFaults ==
  ASSUME Types, NEW n \in Nat, Faults(n)
  PROVE  count'.faults \in Nat /\ count'.faults = count.faults + n /\ count'.faults >= count.faults
BY DEF Types, LocalsOK, Faults

LEMMA SameFaults ==
  ASSUME Types, count' = count
  PROVE  count'.faults \in Nat /\ count'.faults >= count.faults
BY DEF Types, LocalsOK

LEMMA StartStats ==
  ASSUME Types, StatsInv, NEW c \in Commands, Start(c)
  PROVE  StatsInv'
<1>1. UNCHANGED <<db, csv, tx>> /\ proc.pc = "gone"
      /\ count' = [count EXCEPT !.starts = @ + 1]
  BY DEF Start
<1>2. count'.faults = count.faults /\ count.faults \in Nat
  BY <1>1 DEF Types, LocalsOK
<1>3. proc'.pc = "begin"  BY DEF Start, NoJob
<1>4. Grown(db, tx')  BY <1>1 DEF StatsInv
<1> QED BY <1>1, <1>2, <1>3, <1>4, StatsKept

LEMMA BeginStats ==
  ASSUME Types, StatsInv, BeginBootstrap \/ BeginDaily
  PROVE  StatsInv'
<1>1. proc.pc = "begin"  BY BeginTypes
<1>2. UNCHANGED <<db, csv, count>> /\ tx' = db /\ proc'.pc = "ingest"
  <2>1. CASE Opens(0, 0)
    BY <2>1 DEF Opens, Types, LocalsOK, ProcSet
  <2>2. CASE Opens(NightlyFirst, NightlySince)
    BY <2>2 DEF Opens, Types, LocalsOK, ProcSet
  <2> QED BY <2>1, <2>2, BeginTypes
<1> QED BY <1>1, <1>2, GrownSelf, SameFaults, StatsKept

\* A part that ends with a rollback.
LEMMA RollbackStats ==
  ASSUME Types, StatsInv, Rollback, UNCHANGED <<db, csv>>, proc'.pc # "finish",
         proc.pc # "write" \/ count'.faults > 0,
         count'.faults \in Nat, count'.faults >= count.faults
  PROVE  StatsInv'
BY GrownSelf, StatsKept DEF Rollback

LEMMA DaysGrow ==
  ASSUME Types, NEW table, NEW failed
  PROVE  table \subseteq (table \cup Window) \ (failed \ table)
OBVIOUS

LEMMA ObservationsStats ==
  ASSUME Types, StatsInv, IngestObservations
  PROVE  StatsInv'
<1>1. tx \in Tables /\ proc.pc = "ingest" /\ Working
  BY DEF IngestObservations, Types, TypeOK, Working
<1>2. PICK failed \in SUBSET Window :
        /\ \/ UNCHANGED tx
           \/ tx' = [tx EXCEPT !.obs = ingest_observations(failed)]
        /\ Faults(Cardinality(failed))
  BY DEF IngestObservations
<1>3. Cardinality(failed) \in Nat
  BY <1>1, WindowDays, FS_Subset, FS_CardinalityType
<1>4. Grown(tx, tx')
  <2>1. tx.obs \subseteq ingest_observations(failed)
    BY DaysGrow DEF ingest_observations
  <2> QED BY <1>1, <1>2, <2>1 DEF Grown, Tables, Recordings
<1>5. Grown(db, tx')  BY <1>4, GrownTwice DEF StatsInv
<1>6. count'.faults \in Nat /\ count'.faults >= count.faults
  BY <1>2, <1>3, GrowFaults
<1>7. proc'.pc = "runs"  BY ObservationsTypes
<1> QED BY <1>1, <1>5, <1>6, <1>7, StatsKept DEF IngestObservations

LEMMA HistoryStats ==
  ASSUME Types, StatsInv, IngestHistory
  PROVE  StatsInv'
<1>1. tx \in Tables /\ proc.pc = "ingest" /\ Working
  BY DEF IngestHistory, Types, TypeOK, Working
<1>2. PICK failed \in SUBSET Window, lost \in SUBSET Window :
        /\ Faults(Cardinality(failed) + Cardinality(lost))
        /\ IF proc.cmd = "wu_bootstrap" /\ failed = Window
           THEN Rollback /\ Return
           ELSE tx' = [tx EXCEPT
                      !.hist = ingest_wu_history_observations(failed),
                      !.obs = IF proc.noObs THEN @ ELSE ingest_observations(lost),
                      !.missed = @ \cup (failed \X {"hist"})]
  BY DEF IngestHistory
<1>3. Cardinality(failed) + Cardinality(lost) \in Nat
  BY <1>1, WindowDays, FS_Subset, FS_CardinalityType
<1>4. Grown(db, tx')
  <2>1. CASE Rollback  BY <2>1, GrownSelf DEF Rollback
  <2>2. CASE tx' = [tx EXCEPT
                      !.hist = ingest_wu_history_observations(failed),
                      !.obs = IF proc.noObs THEN @ ELSE ingest_observations(lost),
                      !.missed = @ \cup (failed \X {"hist"})]
    <3>1. tx.obs \subseteq ingest_observations(lost)
      BY DaysGrow DEF ingest_observations
    <3>2. Grown(tx, tx')  BY <1>1, <2>2, <3>1 DEF Grown, Tables, Recordings
    <3> QED BY <3>2, GrownTwice DEF StatsInv
  <2> QED BY <1>2, <2>1, <2>2
<1>5. count'.faults \in Nat /\ count'.faults >= count.faults
  BY <1>2, <1>3, GrowFaults
<1>6. proc'.pc # "finish"
  BY HistoryTypes, ReturnTypes
<1> QED BY <1>1, <1>4, <1>5, <1>6, StatsKept DEF IngestHistory

LEMMA RunStats ==
  ASSUME Types, StatsInv, NEW x \in proc.todo, IngestRun(x) \/ RunFails(x)
  PROVE  StatsInv'
<1>1. tx \in Tables  BY DEF Types, TypeOK
<1>2. Grown(tx, tx')
  BY <1>1 DEF IngestRun, RunFails, Grown, Tables, Recordings
<1>3. Grown(db, tx')  BY <1>2, GrownTwice DEF StatsInv
<1>4. count'.faults \in Nat /\ count'.faults >= count.faults
  BY GrowFaults, SameFaults DEF IngestRun, RunFails
<1>5. proc.pc = "runs" /\ proc'.pc = "runs"  BY RunTypes
<1> QED BY <1>3, <1>4, <1>5, StatsKept DEF IngestRun, RunFails

LEMMA RaisesStats ==
  ASSUME Types, StatsInv, NEW x \in proc.todo, RunRaises(x)
  PROVE  StatsInv'
BY NoJobTypes, SameFaults, RollbackStats DEF RunRaises

LEMMA CrashStats ==
  ASSUME Types, StatsInv, Crash
  PROVE  StatsInv'
<1>1. count'.faults \in Nat /\ count'.faults = count.faults + 1 /\ count.faults \in Nat
  BY GrowFaults DEF Crash, Types, LocalsOK
<1> QED BY <1>1, NoJobTypes, RollbackStats DEF Crash

\* The records that IngestSnapshots keeps, and those it makes.
KeptRecords == {w \in tx.wu : <<w[1], w[2]>> \notin NewScrapes}
NewRecords == {<<x[1], x[2], <<x[1], DayOf(x[2])>> \in tx.hist>> : x \in NewScrapes}

LEMMA SnapshotRecords ==
  ASSUME Types, IngestSnapshots
  PROVE  /\ tx' = [tx EXCEPT !.wu = KeptRecords \cup NewRecords]
         /\ NewScrapes \subseteq Recordings(tx') /\ Recordings(tx) \subseteq Recordings(tx')
<1>1. tx \in Tables /\ NewScrapes \subseteq Runs
  BY DEF NewScrapes, Types, TypeOK
<1>2. tx' = [tx EXCEPT !.wu = KeptRecords \cup NewRecords]
  BY DEF IngestSnapshots, NewScrapes, KeptRecords, NewRecords
<1>3. tx'.wu = KeptRecords \cup NewRecords  BY <1>1, <1>2 DEF Tables
<1>4. ASSUME NEW x \in NewScrapes PROVE x \in Recordings(tx')
  <2> DEFINE h == <<x[1], DayOf(x[2])>> \in tx.hist
  <2>1. h \in BOOLEAN  OBVIOUS
  <2>2. <<x[1], x[2], h>> \in NewRecords  BY DEF NewRecords
  <2> HIDE DEF h
  <2> QED BY <1>1, <1>3, <2>1, <2>2 DEF Recordings
<1>5. ASSUME NEW x \in Recordings(tx), x \notin NewScrapes PROVE x \in Recordings(tx')
  <2>1. x \in Runs /\ x = <<x[1], x[2]>>  BY DEF Recordings, Runs
  <2>2. PICK h \in BOOLEAN : <<x[1], x[2], h>> \in tx.wu  BY DEF Recordings
  <2>3. <<x[1], x[2], h>> \in KeptRecords  BY <1>5, <2>1, <2>2 DEF KeptRecords
  <2> QED BY <1>3, <2>1, <2>3 DEF Recordings
<1> QED BY <1>2, <1>4, <1>5

LEMMA SnapshotsStats ==
  ASSUME Types, StatsInv, IngestSnapshots
  PROVE  StatsInv'
<1>1. tx \in Tables  BY DEF Types, TypeOK
<1>2. Grown(tx, tx')  BY <1>1, SnapshotRecords DEF Grown, Tables
<1>3. Grown(db, tx')  BY <1>2, GrownTwice DEF StatsInv
<1>4. proc'.pc = "recompute"  BY SnapshotsTypes
<1> QED BY <1>3, <1>4, SameFaults, StatsKept DEF IngestSnapshots

LEMMA StatsStats ==
  ASSUME Types, StatsInv, Recompute \/ WriteStats
  PROVE  StatsInv'
<1>1. Joined(db) \subseteq Joined(tx)  BY JoinedGrows DEF StatsInv
<1>2. proc \in ProcSet  BY DEF Types, LocalsOK
<1>3. CASE Recompute /\ Joined(tx) = {}
  <2>1. UNCHANGED <<db, tx, csv, count>> /\ proc'.pc = "finish"
        /\ proc.pc # "write"
    BY <1>2, <1>3 DEF Recompute, ProcSet
  <2> QED BY <1>3, <2>1 DEF StatsInv
<1>4. CASE Recompute /\ Joined(tx) # {}
  <2>1. UNCHANGED <<db, tx, count>> /\ proc'.pc = "write" /\ csv'.is = "torn"
    BY <1>2, <1>4 DEF Recompute, ProcSet
  <2> QED BY <2>1 DEF StatsInv
<1>5. CASE WriteStats
  <2>1. UNCHANGED <<db, tx, count>> /\ csv'.is = "whole" /\ csv'.rows = Joined(tx)
    BY <1>5 DEF WriteStats
  <2> QED BY <1>1, <2>1 DEF StatsInv
<1> QED BY <1>3, <1>4, <1>5

LEMMA GivesUpStats ==
  ASSUME Types, StatsInv, GivesUp
  PROVE  StatsInv'
<1>1. proc'.pc # "finish"  BY ReturnTypes DEF GivesUp
<1> QED BY <1>1, SameFaults, RollbackStats DEF GivesUp

LEMMA SucceedsStats ==
  ASSUME Types, StatsInv, Succeeds
  PROVE  StatsInv'
<1>1. tx \in Tables /\ db' = Done /\ tx' = Done
  BY DEF Types, TypeOK, Succeeds, Done, Success
<1>2. Done.obs = tx.obs /\ Done.recs = tx.recs /\ Done.wu = tx.wu
  BY <1>1 DEF Done, Tables
<1>3. Joined(Done) = Joined(tx)
  <2>1. Grown(Done, tx) /\ Grown(tx, Done)  BY <1>2 DEF Grown, Recordings
  <2> QED BY <2>1, JoinedGrows
<1>4. Joined(tx) # {}  BY DEF Succeeds, JoinedOf, Joined
<1>5. csv.is = "whole" /\ csv.rows = Joined(tx)  BY <1>4 DEF StatsInv, Succeeds
<1>6. proc'.pc # "finish" /\ csv' = csv  BY ReturnTypes DEF Succeeds
<1>7. Grown(db', tx')  BY <1>1, GrownSelf
<1>8. Joined(db') = Joined(tx)  BY <1>1, <1>3
<1>9. csv'.is = "whole" /\ csv'.rows = Joined(tx)  BY <1>5, <1>6
<1> QED BY <1>6, <1>7, <1>8, <1>9 DEF StatsInv

LEMMA NextStats ==
  Types /\ StatsInv /\ [Next]_vars => StatsInv'
<1> SUFFICES ASSUME Types, StatsInv, [Next]_vars PROVE StatsInv'
  OBVIOUS
<1>1. ASSUME NEW c \in Commands, Start(c) PROVE StatsInv'
  BY <1>1, StartStats
<1>2. CASE Process
  <2>1. CASE BeginBootstrap \/ BeginDaily  BY <2>1, BeginStats
  <2>2. CASE NothingToDo
    <3>1. proc'.pc # "finish"  BY <2>2, ReturnTypes DEF NothingToDo
    <3>2. Grown(db, tx')  BY <2>2 DEF NothingToDo, StatsInv
    <3> QED BY <2>2, <3>1, <3>2, SameFaults, StatsKept DEF NothingToDo
  <2>3. CASE IngestObservations  BY <2>3, ObservationsStats
  <2>4. CASE IngestHistory  BY <2>4, HistoryStats
  <2>5. ASSUME NEW x \in proc.todo, IngestRun(x) \/ RunFails(x) PROVE StatsInv'
    BY <2>5, RunStats
  <2>6. ASSUME NEW x \in proc.todo, RunRaises(x) PROVE StatsInv'
    BY <2>6, RaisesStats
  <2>7. CASE IngestSnapshots  BY <2>7, SnapshotsStats
  <2>8. CASE Recompute \/ WriteStats  BY <2>8, StatsStats
  <2>9. CASE GivesUp  BY <2>9, GivesUpStats
  <2>10. CASE Succeeds  BY <2>10, SucceedsStats
  <2> QED BY <1>2, <2>1, <2>2, <2>3, <2>4, <2>5, <2>6, <2>7, <2>8, <2>9, <2>10 DEF Process
<1>3. CASE Crash  BY <1>3, CrashStats
<1>4. ASSUME NEW s \in Stations, Scrape(s) PROVE StatsInv'
  BY <1>4 DEF Scrape, StatsInv
<1>5. CASE Tick
  <2>1. UNCHANGED <<db, tx, csv, proc>> /\ count'.faults = count.faults
    BY <1>5 DEF Tick, Types, LocalsOK
  <2> QED BY <2>1 DEF StatsInv
<1>6. CASE UNCHANGED vars
  BY <1>6 DEF vars, StatsInv
<1> QED BY <1>1, <1>2, <1>3, <1>4, <1>5, <1>6 DEF Next

\* The statistics never lag behind the committed store: a complete file has
\* every row that joins in it, and without a file nothing joins.
THEOREM StatsCoverStoreHolds == Spec => []StatsCoverStore
<1>1. Init => StatsInv  BY InitStats
<1>2. Types /\ StatsInv /\ [Next]_vars => StatsInv'  BY NextStats
<1>3. StatsInv => StatsCoverStore  BY DEF StatsInv, StatsCoverStore
<1> QED BY <1>1, <1>2, <1>3, TypesHold, PTL DEF Spec

-----------------------------------------------------------------------------
(* What is lost.  A run is settled once it is in the store or its fetch    *)
(* has failed, a day's history is tried once it is there or has failed.    *)
(* A working part settles its window, so what a success leaves open lies   *)
(* before the window: the state it began with, which is that of the last   *)
(* success in the log, tells which of the listed cases it is.              *)

Settled(d) == {x \in Runs : x \in d.recs \/ <<x, "run">> \in d.missed}
HistMissed(d) == {y \in Days : <<y, "hist">> \in d.missed}
HistTried(d) == {y \in Days : y \in d.hist \/ <<y, "hist">> \in d.missed}

\* A transaction forgets nothing of the store it began with.
Remembers(d, t) ==
    /\ Settled(d) \subseteq Settled(t)
    /\ HistMissed(d) \subseteq HistMissed(t)
    /\ Recordings(d) \subseteq Recordings(t)

LastSuccess(part, state) ==
    state # None => \E l \in Successes(part) :
        l.end = state.target /\ l.at = state.at /\ l.read <= l.at

Logged == LastSuccess("om", db.om) /\ LastSuccess("wu", db.wuJob)

PartsInPlace ==
    /\ proc.pc = "runs" => proc.part = "om"
    /\ proc.pc \in {"snapshots", "recompute"} => proc.part = "wu"

Closing == proc.pc \in {"recompute", "write", "finish"}

WindowsFollow ==
    Working =>
        /\ proc.part = "om" => proc.since = 0 \/ (db.om # None /\ proc.since = db.om.at)
        /\ proc.part = "wu" =>
              /\ proc.since = 0 \/ (db.wuJob # None /\ proc.since = db.wuJob.at + 1)
              /\ proc.first <= DayOf(proc.since)

RunsDone ==
    Working /\ proc.part = "om" =>
        /\ \A x \in proc.stations \X (proc.since .. Slots * (proc.end + 1) - 1) :
              x \in proc.todo \/ x \in Settled(tx)
        /\ Closing => proc.todo = {}

ScrapesRead ==
    Closing /\ proc.part = "wu" =>
        \A x \in scraped :
            x[1] \in proc.stations /\ proc.since <= x[2] /\ x[2] < proc.read
                => x \in Recordings(tx)

HistoryTried ==
    (Closing \/ proc.pc = "snapshots") /\ proc.part = "wu" => Window \subseteq HistTried(tx)

\* A record that is adjusted, or was made too early, or whose history failed.
Excused(w, d) ==
    \/ w[3] = TRUE
    \/ <<w[1], DayOf(w[2])>> \in HistMissed(d)
    \/ \E l \in Successes("wu") : l.end < DayOf(w[2]) /\ w[2] <= l.at

StoreAdjusted == \A w \in db.wu : Excused(w, db)

TransactionAdjusted ==
    \A w \in tx.wu :
        \/ Excused(w, tx)
        \/ Working /\ proc.part = "wu" /\ proc.end < DayOf(w[2]) /\ w[2] <= now

LossInv ==
    /\ Remembers(db, tx) /\ Logged /\ PartsInPlace /\ WindowsFollow
    /\ RunsDone /\ ScrapesRead /\ HistoryTried /\ StoreAdjusted /\ TransactionAdjusted
    /\ RunsLostOnlyAsListed /\ SnapshotsLostOnlyAsListed

LEMMA InitLoss ==
  Init => LossInv
<1> SUFFICES ASSUME Init PROVE LossInv
  OBVIOUS
<1>1. proc.pc = "gone" /\ ~Working /\ ~Closing  BY DEF Init, NoJob, Working, Closing
<1>2. db = Empty /\ tx = Empty /\ scraped = {}  BY DEF Init
<1>3. db.wu = {} /\ tx.wu = {} /\ db.om = None /\ db.wuJob = None  BY <1>2 DEF Empty
<1>4. Remembers(db, tx)  BY <1>2 DEF Remembers
<1>5. Logged /\ PartsInPlace /\ WindowsFollow /\ RunsDone /\ ScrapesRead /\ HistoryTried
  BY <1>1, <1>3 DEF Logged, LastSuccess, PartsInPlace, WindowsFollow, RunsDone, ScrapesRead,
                    HistoryTried
<1>6. StoreAdjusted /\ TransactionAdjusted  BY <1>3 DEF StoreAdjusted, TransactionAdjusted
<1>7. RunsLostOnlyAsListed /\ SnapshotsLostOnlyAsListed
  BY <1>3 DEF RunsLostOnlyAsListed, SnapshotsLostOnlyAsListed
<1> QED BY <1>4, <1>5, <1>6, <1>7 DEF LossInv

LEMMA RemembersSelf ==
  ASSUME NEW d
  PROVE  Remembers(d, d)
BY DEF Remembers

\* What depends on the store and the log alone.
LEMMA StoreKept ==
  ASSUME LossInv, UNCHANGED <<db, scraped, log>>
  PROVE  Logged' /\ StoreAdjusted' /\ RunsLostOnlyAsListed' /\ SnapshotsLostOnlyAsListed'
<1>1. Logged'  BY DEF LossInv, Logged, LastSuccess, Successes
<1>2. StoreAdjusted'  BY DEF LossInv, StoreAdjusted, Excused, Successes
<1>3. RunsLostOnlyAsListed'
  BY DEF LossInv, RunsLostOnlyAsListed, FellBetween, Overlooked, Successes
<1>4. SnapshotsLostOnlyAsListed'
  BY DEF LossInv, SnapshotsLostOnlyAsListed, Overlooked, Successes
<1> QED BY <1>1, <1>2, <1>3, <1>4

\* A step after which no part works, and which commits nothing.
LEMMA DropsLoss ==
  ASSUME Types', LossInv, UNCHANGED <<now, db, scraped, log>>, ~Working'
  PROVE  LossInv'
<1>1. tx' = db  BY DEF Types, TimesOK
<1>2. Remembers(db, tx)'  BY <1>1, RemembersSelf
<1>3. ~Closing' /\ proc'.pc \in {"gone", "begin"}  BY DEF Working, Closing
<1>4. /\ PartsInPlace' /\ WindowsFollow' /\ RunsDone' /\ ScrapesRead' /\ HistoryTried'
  BY <1>3 DEF PartsInPlace, WindowsFollow, RunsDone, ScrapesRead, HistoryTried
<1>5. TransactionAdjusted'
  BY <1>1, StoreKept DEF StoreAdjusted, TransactionAdjusted, Excused, Successes
<1> QED BY <1>2, <1>4, <1>5, StoreKept DEF LossInv

\* A step of a part in work.
LEMMA WorksLoss ==
  ASSUME Types, LossInv, Working, Working', SamePart, UNCHANGED <<now, db, scraped, log>>,
         Remembers(tx, tx')
  PROVE  /\ Remembers(db, tx)' /\ WindowsFollow' /\ Window' = Window
         /\ Logged' /\ StoreAdjusted' /\ RunsLostOnlyAsListed' /\ SnapshotsLostOnlyAsListed'
<1>1. Remembers(db, tx)'  BY DEF LossInv, Remembers
<1>2. WindowsFollow'  BY DEF LossInv, WindowsFollow, SamePart
<1>3. Window' = Window  BY DEF Window, SamePart
<1> QED BY <1>1, <1>2, <1>3, StoreKept

\* Its records stay excused if they are the same.
LEMMA SameRecords ==
  ASSUME LossInv, Working, Working', SamePart, UNCHANGED <<now, log>>, tx'.wu = tx.wu,
         Remembers(tx, tx')
  PROVE  TransactionAdjusted'
<1> SUFFICES ASSUME NEW w \in tx.wu
             PROVE  Excused(w, tx)' \/ (proc'.part = "wu" /\ proc'.end < DayOf(w[2]) /\ w[2] <= now)
  BY DEF TransactionAdjusted
<1>1. CASE Excused(w, tx)
  BY <1>1 DEF Excused, Successes, Remembers
<1>2. CASE proc.part = "wu" /\ proc.end < DayOf(w[2]) /\ w[2] <= now
  BY <1>2 DEF SamePart
<1> QED BY <1>1, <1>2 DEF LossInv, TransactionAdjusted

\* The first window that follows a success: nothing before it is open.
LEMMA OpensLoss ==
  ASSUME Types, LossInv, BeginBootstrap \/ BeginDaily
  PROVE  LossInv'
<1>1. proc \in ProcSet /\ proc.part \in {"om", "wu"} /\ proc.pc = "begin" /\ now \in Nat
  BY BeginTypes, NowDays DEF Types, LocalsOK
<1>2. PICK first \in Nat, since \in Nat :
        /\ Opens(first, since)
        /\ \/ first = 0 /\ since = 0
           \/ /\ BeginDaily /\ first = NightlyFirst /\ since = NightlySince
              /\ first <= State(proc.part).target + 1
  BY BeginTypes
<1>3. /\ Types' /\ Working' /\ proc'.pc = "ingest"
      /\ proc'.part = proc.part /\ proc'.stations = proc.stations
      /\ proc'.first = first /\ proc'.since = since /\ proc'.end = DayOf(now) - 1
      /\ proc'.todo = IF proc.part = "om"
                      THEN proc.stations \X (since .. Slots * (proc'.end + 1) - 1) ELSE {}
  <2>1. DayOf(now) >= 1  BY BeginTypes
  <2> QED BY <1>1, <1>2, <2>1, OpensTypes
<1>4. tx' = db /\ UNCHANGED <<now, db, scraped, log>>  BY <1>2 DEF Opens
<1>5. Remembers(db, tx)'  BY <1>4, RemembersSelf
<1>6. PartsInPlace' /\ ~Closing'  BY <1>3 DEF PartsInPlace, Closing
<1>7. RunsDone' /\ ScrapesRead' /\ HistoryTried'
  BY <1>3, <1>6 DEF RunsDone, ScrapesRead, HistoryTried
<1>8. TransactionAdjusted'
  BY <1>4, StoreKept DEF StoreAdjusted, TransactionAdjusted, Excused, Successes
<1>9. WindowsFollow'
  <2>1. CASE first = 0 /\ since = 0
    <3>1. DayOf(0) \in Nat  BY DayNatural
    <3> QED BY <1>3, <2>1, <3>1 DEF WindowsFollow
  <2>2. CASE /\ BeginDaily /\ since = NightlySince
             /\ first <= State(proc.part).target + 1
    <3>1. State(proc.part) # None  BY <2>2 DEF BeginDaily
    <3>2. CASE proc.part = "om"
      BY <1>3, <1>4, <2>2, <3>1, <3>2 DEF WindowsFollow, NightlySince, State
    <3>3. CASE proc.part = "wu"
      <4>1. /\ db.wuJob # None /\ since = db.wuJob.at + 1
            /\ first <= db.wuJob.target + 1
        BY <2>2, <3>1, <3>3 DEF NightlySince, State
      <4>2. /\ db.wuJob.target \in Nat /\ db.wuJob.at \in Nat
            /\ db.wuJob.target < DayOf(db.wuJob.at)
        BY <1>1, <3>1, <3>3, DailyWindow DEF State
      <4>3. DayOf(db.wuJob.at) \in Int /\ DayOf(since) \in Int
            /\ DayOf(db.wuJob.at) <= DayOf(since)
        BY <4>1, <4>2, DayMonotone
      <4>4. first <= DayOf(since)  BY <4>1, <4>2, <4>3
      <4> QED BY <1>3, <1>4, <3>3, <4>1, <4>4 DEF WindowsFollow
    <3> QED BY <1>1, <3>2, <3>3
  <2> QED BY <1>2, <2>1, <2>2
<1> QED BY <1>4, <1>5, <1>6, <1>7, <1>8, <1>9, StoreKept DEF LossInv

LEMMA ObservationsLoss ==
  ASSUME Types, LossInv, IngestObservations
  PROVE  LossInv'
<1>1. /\ Types' /\ SamePart /\ Working /\ Working' /\ proc'.pc = "runs"
      /\ proc'.todo = proc.todo /\ proc.part = "om"
  BY ObservationsTypes DEF IngestObservations, Working
<1>2. tx \in Tables  BY DEF Types, TypeOK
<1>3. /\ tx'.recs = tx.recs /\ tx'.missed = tx.missed /\ tx'.wu = tx.wu
      /\ UNCHANGED <<now, db, scraped, log>>
  BY <1>2 DEF IngestObservations, Tables
<1>4. Remembers(tx, tx') /\ Settled(tx') = Settled(tx)
  BY <1>3 DEF Remembers, Settled, HistMissed, Recordings
<1>5. ~Closing' /\ PartsInPlace' /\ ScrapesRead' /\ HistoryTried'
  BY <1>1 DEF SamePart, Closing, PartsInPlace, ScrapesRead, HistoryTried
<1>6. RunsDone'
  BY <1>1, <1>4, <1>5 DEF LossInv, RunsDone, SamePart
<1> QED BY <1>1, <1>3, <1>4, <1>5, <1>6, WorksLoss, SameRecords DEF LossInv

LEMMA HistoryLoss ==
  ASSUME Types, LossInv, IngestHistory
  PROVE  LossInv'
<1>1. Types' /\ Working /\ proc.part = "wu" /\ tx \in Tables
  BY HistoryTypes DEF IngestHistory, Working, Types, TypeOK
<1>2. UNCHANGED <<now, db, scraped, log>>  BY DEF IngestHistory
<1>3. CASE ~Working'  BY <1>1, <1>2, <1>3, DropsLoss
<1>4. CASE Working'
  <2>1. SamePart /\ proc'.pc = "snapshots"
    BY <1>4, HistoryTypes, ReturnTypes
  <2>2. ~Return  BY <1>4, ReturnTypes
  <2>3. PICK failed \in SUBSET Window : \E obs :
          tx' = [tx EXCEPT !.hist = ingest_wu_history_observations(failed), !.obs = obs,
                           !.missed = @ \cup (failed \X {"hist"})]
    BY <2>2 DEF IngestHistory
  <2>4. /\ tx'.hist = (tx.hist \cup Window) \ (failed \ tx.hist)
        /\ tx'.missed = tx.missed \cup (failed \X {"hist"})
        /\ tx'.recs = tx.recs /\ tx'.wu = tx.wu
    BY <1>1, <2>3 DEF Tables, ingest_wu_history_observations
  <2>5. Remembers(tx, tx')
    BY <2>4 DEF Remembers, Settled, HistMissed, Recordings
  <2>6. Window \subseteq HistTried(tx') /\ Window' = Window
    BY <1>1, <2>1, <2>4, WindowDays DEF HistTried, SamePart, Window
  <2>7. ~Closing' /\ proc'.part = "wu" /\ PartsInPlace' /\ ScrapesRead' /\ RunsDone'
    BY <1>1, <2>1 DEF SamePart, Closing, PartsInPlace, ScrapesRead, RunsDone
  <2>8. HistoryTried'  BY <2>6 DEF HistoryTried
  <2> QED BY <1>1, <1>2, <1>4, <2>1, <2>4, <2>5, <2>7, <2>8, WorksLoss, SameRecords DEF LossInv
<1> QED BY <1>3, <1>4

LEMMA RunLoss ==
  ASSUME Types, LossInv, NEW x \in proc.todo, IngestRun(x) \/ RunFails(x)
  PROVE  LossInv'
<1>1. /\ Types' /\ SamePart /\ Working /\ Working' /\ proc'.pc = "runs" /\ proc.pc = "runs"
      /\ proc'.todo = proc.todo \ {x}
  BY RunTypes DEF Working
<1>2. tx \in Tables /\ x \in Runs /\ proc.part = "om"
  BY <1>1 DEF Types, TypeOK, LocalsOK, ProcSet, LossInv, PartsInPlace
<1>3. /\ tx'.wu = tx.wu /\ tx.recs \subseteq tx'.recs
      /\ \/ x \in tx'.recs /\ tx'.missed = tx.missed \ {<<x, "run">>}
         \/ tx'.missed = tx.missed \cup {<<x, "run">>}
      /\ UNCHANGED <<now, db, scraped, log>>
  BY <1>2 DEF IngestRun, RunFails, Tables
<1>4. Settled(tx) \subseteq Settled(tx') /\ x \in Settled(tx')
  BY <1>2, <1>3 DEF Settled
<1>5. HistMissed(tx) \subseteq HistMissed(tx')
  <2> SUFFICES ASSUME NEW y \in HistMissed(tx) PROVE <<y, "hist">> \in tx'.missed
    BY DEF HistMissed
  <2>1. <<y, "hist">> # <<x, "run">> /\ <<y, "hist">> \in tx.missed  BY DEF HistMissed
  <2> QED BY <1>3, <2>1
<1>6. Remembers(tx, tx')
  BY <1>3, <1>4, <1>5 DEF Remembers, Recordings
<1>7. ~Closing' /\ PartsInPlace' /\ ScrapesRead' /\ HistoryTried'
  BY <1>1, <1>2 DEF SamePart, Closing, PartsInPlace, ScrapesRead, HistoryTried
<1>8. RunsDone'
  BY <1>1, <1>2, <1>4, <1>7 DEF LossInv, RunsDone, SamePart
<1> QED BY <1>1, <1>3, <1>6, <1>7, <1>8, WorksLoss, SameRecords DEF LossInv

LEMMA StatsLoss ==
  ASSUME Types, LossInv, Recompute \/ WriteStats
  PROVE  LossInv'
<1>1. /\ Types' /\ SamePart /\ Working /\ Working' /\ tx' = tx /\ proc \in ProcSet
      /\ UNCHANGED <<now, db, scraped, log>>
  BY StatsTypes DEF Recompute, WriteStats, Working, Types, LocalsOK
<1>2. /\ proc'.todo = proc.todo /\ proc'.read = proc.read /\ Closing'
      /\ proc'.pc \in {"write", "finish"}
  BY <1>1 DEF Recompute, WriteStats, ProcSet, Closing
<1>3. Closing \/ (proc.pc = "runs" /\ proc.part = "om" /\ proc.todo = {})
  BY DEF Recompute, WriteStats, Closing, LossInv, PartsInPlace
<1>4. Remembers(tx, tx')  BY <1>1, RemembersSelf
<1>5. RunsDone' /\ PartsInPlace'
  BY <1>1, <1>2, <1>3 DEF LossInv, RunsDone, SamePart, PartsInPlace
<1>6. ScrapesRead'
  BY <1>1, <1>2, <1>3 DEF LossInv, ScrapesRead, SamePart
<1>7. Window' = Window  BY <1>1 DEF Window, SamePart
<1>8. HistoryTried'
  BY <1>1, <1>2, <1>3, <1>7 DEF LossInv, HistoryTried, SamePart
<1> QED BY <1>1, <1>4, <1>5, <1>6, <1>8, WorksLoss, SameRecords DEF LossInv

LEMMA SnapshotsLoss ==
  ASSUME Types, LossInv, IngestSnapshots
  PROVE  LossInv'
<1>1. /\ Types' /\ SamePart /\ Working /\ Working' /\ proc'.pc = "recompute"
      /\ proc.pc = "snapshots" /\ proc.part = "wu" /\ proc'.part = "wu"
      /\ UNCHANGED <<now, db, scraped, log>>
  BY SnapshotsTypes DEF IngestSnapshots, Working, LossInv, PartsInPlace, SamePart
<1>2. tx \in Tables /\ proc \in ProcSet /\ now \in Nat /\ scraped \subseteq Runs
  BY NowDays DEF Types, TypeOK, LocalsOK
<1>3. /\ tx'.wu = KeptRecords \cup NewRecords
      /\ tx'.recs = tx.recs /\ tx'.missed = tx.missed /\ tx'.hist = tx.hist
  BY <1>2, SnapshotRecords DEF Tables
<1>4. Remembers(tx, tx')
  BY <1>3, SnapshotRecords DEF Remembers, Settled, HistMissed
<1>5. Closing' /\ PartsInPlace' /\ RunsDone'
  BY <1>1 DEF Closing, PartsInPlace, RunsDone
<1>6. ScrapesRead'
  BY <1>1, SnapshotRecords DEF ScrapesRead, SamePart, NewScrapes
<1>7. Window' = Window /\ Window \subseteq HistTried(tx)
  BY <1>1 DEF Window, SamePart, LossInv, HistoryTried
<1>8. HistoryTried'
  BY <1>3, <1>7 DEF HistoryTried, HistTried
<1>9. TransactionAdjusted'
  <2> SUFFICES ASSUME NEW w \in tx'.wu
               PROVE  Excused(w, tx)' \/ (proc.end < DayOf(w[2]) /\ w[2] <= now)
    BY <1>1 DEF TransactionAdjusted, SamePart
  <2>1. ASSUME NEW v \in tx.wu, Excused(v, tx) PROVE Excused(v, tx)'
    BY <1>1, <1>3, <2>1 DEF Excused, Successes, HistMissed
  <2>2. CASE w \in KeptRecords
    BY <2>1, <2>2 DEF LossInv, TransactionAdjusted, KeptRecords
  <2>3. CASE w \in NewRecords
    <3>1. PICK x \in NewScrapes : w = <<x[1], x[2], <<x[1], DayOf(x[2])>> \in tx.hist>>
      BY <2>3 DEF NewRecords
    <3>2. /\ x \in Runs /\ x[1] \in proc.stations /\ proc.since <= x[2] /\ x[2] <= now
          /\ x[2] \in Nat /\ proc.since \in Nat
      BY <1>1, <1>2 DEF NewScrapes, Types, TimesOK, ProcSet, Runs
    <3>3. /\ DayOf(proc.since) \in Int /\ DayOf(x[2]) \in Int
          /\ DayOf(proc.since) <= DayOf(x[2])
      BY <3>2, DayMonotone
    <3>4. proc.first <= DayOf(proc.since)
      BY <1>1 DEF LossInv, WindowsFollow
    <3>5. CASE proc.end < DayOf(x[2])
      BY <3>1, <3>2, <3>5
    <3>6. CASE ~(proc.end < DayOf(x[2]))
      <4>1. DayOf(x[2]) \in proc.first .. proc.end
        BY <1>2, <3>3, <3>4, <3>6 DEF ProcSet
      <4>2. <<x[1], DayOf(x[2])>> \in Window  BY <3>2, <4>1 DEF Window
      <4>3. CASE <<x[1], DayOf(x[2])>> \in tx.hist
        <5>1. w[3] = TRUE  BY <3>1, <4>3
        <5> QED BY <5>1 DEF Excused
      <4>4. CASE <<x[1], DayOf(x[2])>> \in HistMissed(tx)
        <5>1. <<w[1], DayOf(w[2])>> \in HistMissed(tx')
          BY <1>3, <3>1, <4>4 DEF HistMissed
        <5> QED BY <5>1 DEF Excused
      <4> QED BY <1>7, <4>2, <4>3, <4>4 DEF HistTried, HistMissed
    <3> QED BY <3>5, <3>6
  <2> QED BY <1>3, <2>2, <2>3
<1> QED BY <1>1, <1>4, <1>5, <1>6, <1>8, <1>9, WorksLoss DEF LossInv

\* After a success every run of a covered day is accounted for: it is of
\* another station, was in the window, or lies before it.
LEMMA SucceedsRuns ==
  ASSUME Types, LossInv, Succeeds
  PROVE  RunsLostOnlyAsListed'
<1>1. /\ Working /\ proc \in ProcSet /\ tx \in Tables /\ proc.part \in {"om", "wu"}
      /\ now \in Nat /\ db' = Done /\ log' = log \cup {Entry} /\ Closing
      /\ 0 <= proc.end /\ proc.end < DayOf(now) /\ tx.om = db.om
  BY NowDays, SucceedsTypes
     DEF Succeeds, Working, Closing, Types, LocalsOK, TypeOK, TimesOK
<1>2. Done.recs = tx.recs /\ Done.missed = tx.missed
      /\ (proc.part = "om" => Done.om = Success) /\ (proc.part = "wu" => Done.om = db.om)
  BY <1>1 DEF Done, Tables
<1>3. Settled(Done) = Settled(tx) /\ Settled(db) \subseteq Settled(tx)
  BY <1>2 DEF Settled, LossInv, Remembers
<1>4. \A part : Successes(part) \subseteq Successes(part)'
  BY <1>1 DEF Successes
<1> SUFFICES ASSUME NEW x \in Runs, Done.om # None, DayOf(x[2]) <= Done.om.target
             PROVE  x \in Settled(tx) \/ FellBetween(x[2])' \/ Overlooked("om", x[1], x[2])'
  BY <1>1, <1>3 DEF RunsLostOnlyAsListed, Settled
<1>5. ASSUME db.om # None, DayOf(x[2]) <= db.om.target
      PROVE  x \in Settled(tx) \/ FellBetween(x[2])' \/ Overlooked("om", x[1], x[2])'
  <2>1. x \in Settled(db) \/ FellBetween(x[2]) \/ Overlooked("om", x[1], x[2])
    BY <1>5 DEF LossInv, RunsLostOnlyAsListed, Settled
  <2> QED BY <1>3, <1>4, <2>1 DEF FellBetween, Overlooked
<1>6. CASE proc.part = "wu"  BY <1>2, <1>5, <1>6
<1>7. CASE proc.part = "om"
  <2>1. DayOf(x[2]) <= proc.end /\ x[2] \in Nat /\ x[1] \in Stations
    BY <1>2, <1>7 DEF Success, Runs
  <2>2. x[2] < now
    <3>1. CASE now <= x[2]
      <4>1. DayOf(now) <= DayOf(x[2]) /\ DayOf(x[2]) \in Int /\ DayOf(now) \in Int
        BY <1>1, <2>1, <3>1, DayMonotone
      <4> QED BY <1>1, <2>1, <4>1 DEF ProcSet
    <3> QED BY <1>1, <2>1, <3>1
  <2>3. CASE x[1] \notin proc.stations
    <3>1. Entry \in Successes("om")'  BY <1>1, <1>7 DEF Entry, Successes
    <3> QED BY <2>2, <2>3, <3>1 DEF Overlooked, Entry
  <2>4. CASE x[1] \in proc.stations /\ proc.since <= x[2]
    <3>1. x[2] \in proc.since .. Slots * (proc.end + 1) - 1
      <4>0. x[2] \in Int /\ proc.end \in Int  BY <1>1, <2>1 DEF ProcSet
      <4>1. x[2] <= Slots * (proc.end + 1) - 1  BY <2>1, <4>0, DayBound
      <4>2. Slots * (proc.end + 1) - 1 \in Int  BY <1>1, JobAssumption DEF ProcSet
      <4> QED BY <1>1, <2>1, <2>4, <4>1, <4>2 DEF ProcSet
    <3>2. x = <<x[1], x[2]>>  BY DEF Runs
    <3>3. x \in proc.stations \X (proc.since .. Slots * (proc.end + 1) - 1)
      BY <2>4, <3>1, <3>2
    <3> QED BY <1>1, <1>7, <3>3 DEF LossInv, RunsDone
  <2>5. CASE x[2] < proc.since
    <3>1. db.om # None /\ proc.since = db.om.at
      BY <1>1, <1>7, <2>1, <2>5 DEF LossInv, WindowsFollow
    <3>2. PICK l \in Successes("om") : l.end = db.om.target /\ l.at = db.om.at
      BY <3>1 DEF LossInv, Logged, LastSuccess
    <3>3. CASE db.om.target < DayOf(x[2])
      BY <1>4, <2>5, <3>1, <3>2, <3>3 DEF FellBetween
    <3>4. CASE ~(db.om.target < DayOf(x[2]))
      <4>1. DayOf(x[2]) \in Int /\ db.om.target \in Int
        <5>1. db.om \in States  BY DEF Types, TypeOK, Tables
        <5> QED BY <2>1, <3>1, <5>1, DayNatural DEF States
      <4> QED BY <1>5, <3>1, <3>4, <4>1
    <3> QED BY <3>3, <3>4
  <2> QED BY <1>1, <2>1, <2>3, <2>4, <2>5 DEF ProcSet
<1> QED BY <1>1, <1>6, <1>7

\* The same for the scrapes before it.
LEMMA SucceedsScrapes ==
  ASSUME Types, LossInv, Succeeds
  PROVE  SnapshotsLostOnlyAsListed'
<1>1. /\ Working /\ proc \in ProcSet /\ tx \in Tables /\ proc.part \in {"om", "wu"}
      /\ now \in Nat /\ db' = Done /\ log' = log \cup {Entry} /\ Closing
      /\ 0 <= proc.read /\ proc.read <= now /\ scraped' = scraped /\ scraped \subseteq Runs
  BY NowDays, SucceedsTypes
     DEF Succeeds, Working, Closing, Types, LocalsOK, TypeOK, TimesOK
<1>2. /\ Done.wu = tx.wu /\ tx.wuJob = db.wuJob
      /\ (proc.part = "wu" => Done.wuJob = Success) /\ (proc.part = "om" => Done.wuJob = db.wuJob)
  BY <1>1 DEF Done, Tables, Types, TimesOK
<1>3. Recordings(Done) = Recordings(tx) /\ Recordings(db) \subseteq Recordings(tx)
  BY <1>2 DEF Recordings, LossInv, Remembers
<1>4. \A part : Successes(part) \subseteq Successes(part)'
  BY <1>1 DEF Successes
<1> SUFFICES ASSUME NEW x \in scraped, Done.wuJob # None, x[2] <= Done.wuJob.at
             PROVE  \/ x \in Recordings(tx)
                    \/ \E l \in Successes("wu")' : l.read <= x[2] /\ x[2] <= l.at
                    \/ Overlooked("wu", x[1], x[2])'
  BY <1>1, <1>3 DEF SnapshotsLostOnlyAsListed, Recordings
<1>5. x[2] \in Nat /\ x[1] \in Stations /\ x \in Runs  BY <1>1 DEF Runs
<1>6. ASSUME db.wuJob # None, x[2] <= db.wuJob.at
      PROVE  \/ x \in Recordings(tx)
             \/ \E l \in Successes("wu")' : l.read <= x[2] /\ x[2] <= l.at
             \/ Overlooked("wu", x[1], x[2])'
  <2>1. \/ x \in Recordings(db)
        \/ \E l \in Successes("wu") : l.read <= x[2] /\ x[2] <= l.at
        \/ Overlooked("wu", x[1], x[2])
    BY <1>5, <1>6 DEF LossInv, SnapshotsLostOnlyAsListed, Recordings
  <2> QED BY <1>3, <1>4, <2>1 DEF Overlooked
<1>7. CASE proc.part = "om"  BY <1>2, <1>6, <1>7
<1>8. CASE proc.part = "wu"
  <2>1. x[2] <= now  BY <1>2, <1>8 DEF Success
  <2>2. Entry \in Successes("wu")'  BY <1>1, <1>8 DEF Entry, Successes
  <2>3. CASE proc.read <= x[2]
    BY <2>1, <2>2, <2>3 DEF Entry
  <2>4. CASE x[2] < proc.read /\ x[1] \notin proc.stations
    <3>1. x[2] < now  BY <1>1, <1>5, <2>4 DEF ProcSet
    <3> QED BY <2>2, <2>4, <3>1 DEF Overlooked, Entry
  <2>5. CASE x[2] < proc.read /\ x[1] \in proc.stations /\ proc.since <= x[2]
    BY <1>1, <1>8, <2>5 DEF LossInv, ScrapesRead
  <2>6. CASE x[2] < proc.since
    <3>1. db.wuJob # None /\ proc.since = db.wuJob.at + 1
      BY <1>1, <1>5, <1>8, <2>6 DEF LossInv, WindowsFollow
    <3>2. db.wuJob.at \in Int
      <4>1. db.wuJob \in States  BY DEF Types, TypeOK, Tables
      <4> QED BY <3>1, <4>1 DEF States
    <3>3. x[2] <= db.wuJob.at  BY <1>5, <2>6, <3>1, <3>2
    <3> QED BY <1>6, <3>1, <3>3
  <2> QED BY <1>1, <1>5, <2>3, <2>4, <2>5, <2>6 DEF ProcSet
<1> QED BY <1>1, <1>7, <1>8

LEMMA SucceedsLoss ==
  ASSUME Types, LossInv, Succeeds
  PROVE  LossInv'
<1>1. /\ Working /\ proc \in ProcSet /\ tx \in Tables /\ proc.part \in {"om", "wu"}
      /\ db' = Done /\ tx' = Done /\ log' = log \cup {Entry} /\ now' = now
      /\ proc.read <= now /\ ~Working'
  BY SucceedsTypes, ReturnTypes
     DEF Succeeds, Working, Types, LocalsOK, TypeOK, TimesOK, Done, Success
<1>2. /\ Done.wu = tx.wu /\ Done.missed = tx.missed
      /\ tx.om = db.om /\ tx.wuJob = db.wuJob
      /\ IF proc.part = "om" THEN Done.om = Success /\ Done.wuJob = db.wuJob
                             ELSE Done.wuJob = Success /\ Done.om = db.om
  BY <1>1 DEF Done, Tables, Types, TimesOK
<1>3. \A part : Successes(part) \subseteq Successes(part)'
  BY <1>1 DEF Successes
<1>4. ASSUME NEW part, part = proc.part PROVE Entry \in Successes(part)'
  BY <1>1, <1>4 DEF Entry, Successes
<1>5. Logged'
  <2>1. ASSUME NEW part, NEW state, LastSuccess(part, state) PROVE LastSuccess(part, state)'
    BY <1>3, <2>1 DEF LastSuccess
  <2>2. ASSUME NEW part, part = proc.part, NEW state, state = Success
        PROVE  LastSuccess(part, state)'
    <3>1. Entry \in Successes(part)'  BY <1>4, <2>2
    <3>2. Entry.end = state.target /\ Entry.at = state.at /\ Entry.read <= Entry.at
      BY <1>1, <2>2 DEF Success, Entry
    <3> QED BY <3>1, <3>2 DEF LastSuccess
  <2>3. LastSuccess("om", db.om)' \/ proc.part = "om"
    BY <1>1, <1>2, <2>1 DEF LossInv, Logged, LastSuccess
  <2>4. LastSuccess("wu", db.wuJob)' \/ proc.part = "wu"
    BY <1>1, <1>2, <2>1 DEF LossInv, Logged, LastSuccess
  <2>5. proc.part = "om" => LastSuccess("om", db.om)'
    BY <1>1, <1>2, <2>2 DEF LastSuccess
  <2>6. proc.part = "wu" => LastSuccess("wu", db.wuJob)'
    BY <1>1, <1>2, <2>2 DEF LastSuccess
  <2> QED BY <2>3, <2>4, <2>5, <2>6 DEF Logged
<1>6. ASSUME NEW w \in tx.wu PROVE Excused(w, db)'
  <2>1. CASE w[3] = TRUE  BY <2>1 DEF Excused
  <2>2. CASE <<w[1], DayOf(w[2])>> \in HistMissed(tx)
    <3>1. HistMissed(db') = HistMissed(tx)  BY <1>1, <1>2 DEF HistMissed
    <3>2. HistMissed(db)' = HistMissed(db')  BY DEF HistMissed
    <3> QED BY <2>2, <3>1, <3>2 DEF Excused
  <2>3. CASE \E l \in Successes("wu") : l.end < DayOf(w[2]) /\ w[2] <= l.at
    BY <1>3, <2>3 DEF Excused
  <2>4. CASE proc.part = "wu" /\ proc.end < DayOf(w[2]) /\ w[2] <= now
    <3>1. Entry \in Successes("wu")'  BY <1>4, <2>4
    <3>2. Entry.end < DayOf(w[2]) /\ w[2] <= Entry.at  BY <2>4 DEF Entry
    <3> QED BY <3>1, <3>2 DEF Excused
  <2> QED BY <2>1, <2>2, <2>3, <2>4 DEF LossInv, TransactionAdjusted, Excused
<1>7. StoreAdjusted' /\ TransactionAdjusted'
  <2>1. db'.wu = tx.wu /\ tx' = db'  BY <1>1, <1>2
  <2>2. \A w \in db'.wu : Excused(w, db)'  BY <1>6, <2>1
  <2>3. \A w \in tx'.wu : Excused(w, tx)'  BY <2>1, <2>2 DEF Excused, HistMissed
  <2> QED BY <2>2, <2>3 DEF StoreAdjusted, TransactionAdjusted
<1>8. Remembers(db, tx)'  BY <1>1, RemembersSelf
<1>9. ~Closing' /\ proc'.pc \notin {"runs", "snapshots", "recompute"}
  BY <1>1 DEF Working, Closing
<1>10. PartsInPlace' /\ WindowsFollow' /\ RunsDone' /\ ScrapesRead' /\ HistoryTried'
  BY <1>1, <1>9 DEF Working, PartsInPlace, WindowsFollow, RunsDone, ScrapesRead, HistoryTried
<1> QED BY <1>5, <1>7, <1>8, <1>10, SucceedsRuns, SucceedsScrapes DEF LossInv

LEMMA ScrapeLoss ==
  ASSUME Types, LossInv, NEW s \in Stations, Scrape(s)
  PROVE  LossInv'
<1>1. /\ UNCHANGED <<now, db, tx, proc, log>> /\ scraped' = scraped \cup {<<s, now>>}
      /\ now \in Nat
  BY NowDays DEF Scrape
<1>2. ScrapesRead'
  <2>1. Closing => proc.read <= now /\ proc.read \in Int
    BY DEF Types, TimesOK, LocalsOK, ProcSet, Working, Closing
  <2> QED BY <1>1, <2>1 DEF LossInv, ScrapesRead, Closing
<1>3. SnapshotsLostOnlyAsListed'
  <2>1. ASSUME db.wuJob # None, now <= db.wuJob.at
        PROVE  \E l \in Successes("wu") : l.read <= now /\ now <= l.at
    <3>1. db.wuJob.at = now
      BY <1>1, <2>1 DEF Types, TypeOK, TimesOK, Tables, States, Recorded
    <3> QED BY <1>1, <2>1, <3>1 DEF LossInv, Logged, LastSuccess
  <2> QED BY <1>1, <2>1 DEF LossInv, SnapshotsLostOnlyAsListed, Overlooked, Successes
<1>4. Logged' /\ StoreAdjusted' /\ RunsLostOnlyAsListed'
  BY <1>1 DEF LossInv, Logged, LastSuccess, StoreAdjusted, Excused, RunsLostOnlyAsListed,
              FellBetween, Overlooked, Successes
<1>5. /\ Remembers(db, tx)' /\ PartsInPlace' /\ WindowsFollow' /\ RunsDone' /\ HistoryTried'
  BY <1>1 DEF LossInv, PartsInPlace, WindowsFollow, RunsDone, HistoryTried, Working, Closing,
              Window
<1>6. TransactionAdjusted'
  BY <1>1 DEF LossInv, TransactionAdjusted, Excused, Successes, Working
<1> QED BY <1>2, <1>3, <1>4, <1>5, <1>6 DEF LossInv

LEMMA TickLoss ==
  ASSUME Types, LossInv, Tick
  PROVE  LossInv'
<1>1. /\ UNCHANGED <<db, tx, scraped, proc, log>> /\ now' = now + 1 /\ now \in Nat
      /\ tx \in Tables
  BY NowDays DEF Tick, Types, TypeOK
<1>3. TransactionAdjusted'
  <2> SUFFICES ASSUME NEW w \in tx.wu
               PROVE  Excused(w, tx)' \/ (Working /\ proc.part = "wu"
                                            /\ proc.end < DayOf(w[2]) /\ w[2] <= now')
    BY <1>1 DEF TransactionAdjusted, Working
  <2>1. CASE Excused(w, tx)  BY <1>1, <2>1 DEF Excused, Successes
  <2>2. CASE Working /\ proc.part = "wu" /\ proc.end < DayOf(w[2]) /\ w[2] <= now
    <3>1. w[2] \in Int  BY <1>1 DEF Tables
    <3> QED BY <1>1, <2>2, <3>1
  <2> QED BY <2>1, <2>2 DEF LossInv, TransactionAdjusted
<1>4. /\ Remembers(db, tx)' /\ PartsInPlace' /\ WindowsFollow' /\ RunsDone' /\ ScrapesRead'
      /\ HistoryTried'
  BY <1>1 DEF LossInv, PartsInPlace, WindowsFollow, RunsDone, ScrapesRead, HistoryTried,
              Working, Closing, Window
<1> QED BY <1>1, <1>3, <1>4, StoreKept DEF LossInv

LEMMA NextLoss ==
  Types /\ LossInv /\ [Next]_vars => LossInv'
<1> SUFFICES ASSUME Types, LossInv, [Next]_vars PROVE LossInv'
  OBVIOUS
<1>0. Types'  BY NextTypes
<1>1. ASSUME NEW c \in Commands, Start(c) PROVE LossInv'
  <2>1. UNCHANGED <<now, db, scraped, log>> /\ proc'.pc = "begin"
    BY <1>1 DEF Start, NoJob
  <2> QED BY <1>0, <2>1, DropsLoss DEF Working
<1>2. CASE Process
  <2>1. CASE BeginBootstrap \/ BeginDaily  BY <2>1, OpensLoss
  <2>2. CASE NothingToDo
    BY <1>0, <2>2, ReturnTypes, DropsLoss DEF NothingToDo
  <2>3. CASE IngestObservations  BY <2>3, ObservationsLoss
  <2>4. CASE IngestHistory  BY <2>4, HistoryLoss
  <2>5. ASSUME NEW x \in proc.todo, IngestRun(x) \/ RunFails(x) PROVE LossInv'
    BY <2>5, RunLoss
  <2>6. ASSUME NEW x \in proc.todo, RunRaises(x) PROVE LossInv'
    BY <1>0, <2>6, NoJobTypes, DropsLoss DEF RunRaises, Working
  <2>7. CASE IngestSnapshots  BY <2>7, SnapshotsLoss
  <2>8. CASE Recompute \/ WriteStats  BY <2>8, StatsLoss
  <2>9. CASE GivesUp
    BY <1>0, <2>9, ReturnTypes, DropsLoss DEF GivesUp
  <2>10. CASE Succeeds  BY <2>10, SucceedsLoss
  <2> QED BY <1>2, <2>1, <2>2, <2>3, <2>4, <2>5, <2>6, <2>7, <2>8, <2>9, <2>10 DEF Process
<1>3. CASE Crash
  BY <1>0, <1>3, NoJobTypes, DropsLoss DEF Crash, Working
<1>4. ASSUME NEW s \in Stations, Scrape(s) PROVE LossInv'
  BY <1>4, ScrapeLoss
<1>5. CASE Tick  BY <1>5, TickLoss
<1>6. CASE UNCHANGED vars
  <2>1. UNCHANGED <<now, db, tx, scraped, proc, log>>  BY <1>6 DEF vars
  <2>2. /\ Remembers(db, tx)' /\ PartsInPlace' /\ WindowsFollow' /\ RunsDone' /\ ScrapesRead'
        /\ HistoryTried' /\ TransactionAdjusted'
    BY <2>1 DEF LossInv, PartsInPlace, WindowsFollow, RunsDone, ScrapesRead, HistoryTried,
                TransactionAdjusted, Excused, Successes, Working, Closing, Window
  <2> QED BY <2>1, <2>2, StoreKept DEF LossInv
<1> QED BY <1>1, <1>2, <1>3, <1>4, <1>5, <1>6 DEF Next

\* What the jobs have passed over is lost only in the listed cases: a failed
\* fetch, a run between two windows, a scrape between read and success, a
\* station that was left out, a record made before its day's history.
THEOREM LossesAreListedHolds == Spec => []LossesAreListed
<1>1. Init => LossInv  BY InitLoss
<1>2. Types /\ LossInv /\ [Next]_vars => LossInv'  BY NextLoss
<1>3. LossInv => LossesAreListed
  <2> SUFFICES ASSUME LossInv, NEW w \in db.wu, ~w[3]
               PROVE  \/ \E l \in Successes("wu") : l.end < DayOf(w[2]) /\ w[2] <= l.at
                      \/ <<<<w[1], DayOf(w[2])>>, "hist">> \in db.missed
    BY DEF LossesAreListed, LossInv, UnadjustedOnlyAsListed
  <2> QED BY DEF LossInv, StoreAdjusted, Excused, HistMissed
<1> QED BY <1>1, <1>2, <1>3, TypesHold, PTL DEF Spec

=============================================================================
