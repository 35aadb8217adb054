------------------------------ MODULE Collector ------------------------------
(***************************************************************************)
(* scripts/run_collector.py: one process that polls the weather sources    *)
(* and the order books on the slots of SlotClock, station by station, each *)
(* station in a database transaction of its own, and reloads its YAML file *)
(* when the file's modification time changes.  Time, the operator's edits, *)
(* SIGTERM and crashes interleave with every step.                         *)
(***************************************************************************)
EXTENDS SlotClock, Sequences, SequencesExt, FiniteSetsExt

CONSTANTS
  Configs,    \* contents of the YAML file that load: sequences of collectors
  Broken,     \* a content that load_weather_collectors_config refuses
  Dawn,       \* the instant the model starts at
  Horizon,    \* bound: the last instant
  MaxEdits,   \* bound: edits of the file
  MaxStarts   \* bound: starts of the process

Kinds == {"obs", "fc"}
Runners == {"wunderground", "open_meteo", "polymarket_clob"}  \* COLLECTORS
Stations == UNION {UNION {ToSet(c[i].stations) : i \in DOMAIN c} : c \in Configs}

\* What a cycle fetches for one station.  Only Wunderground has observations;
\* the other runners return at once when asked for them.
Pages(name, kind) ==
  CASE name = "wunderground" /\ kind = "obs" -> <<"current">>
    [] name = "wunderground" /\ kind = "fc" -> <<"today", "tomorrow">>
    [] name # "wunderground" /\ kind = "fc" -> <<"batch">>
    [] OTHER -> <<>>

Grid(collector, kind) == collector[kind]  \* [interval, anchor] of one kind

ASSUME CollectorAssumption ==
  /\ {Horizon, MaxEdits, MaxStarts} \subseteq Nat
  /\ Dawn \in Day .. Horizon  \* no slot before it is negative
  /\ Broken \notin Configs
  /\ \A c \in Configs :
       /\ c \in Seq(ToSet(c))
       /\ \A i \in DOMAIN c :
            /\ c[i].stations \in Seq(Stations)
            /\ \A kind \in Kinds :
                 LET g == Grid(c[i], kind)
                 IN  /\ g.interval \in 1 .. Day /\ Day % g.interval = 0
                     /\ g.anchor \in 0 .. Day - 1

\* RunState is keyed by name: a collector listed twice would share its slots.
\* The file lists none twice, although nothing refuses it.
ASSUME NamesAssumption ==
  \A c \in Configs : \A i, j \in DOMAIN c : c[i].name = c[j].name => i = j

VARIABLES
  clock,   \* the UTC wall clock
  file,    \* the YAML file: [content, mtime]
  starts,  \* how often the process has been started
  node,    \* the process: where it is, and the locals of main()
  sched,   \* RunState: the last slot run, per collector and kind
  pass,    \* the locals of _run_due_tasks and of the runner it is in
  tx,      \* the open transaction: uncommitted pages and start mark
  known,   \* the stations table
  recent,  \* what this pass has committed, per task and station
  polls    \* this life's CLOB rows: station, poll slot, time of the pass

vars == <<clock, file, starts, node, sched, pass, tx, known, recent, polls>>
world == <<clock, file, starts>>

NoTx == [mark |-> FALSE, rows |-> {}]
Idle == [now |-> 0, at |-> 0, kind |-> "fc", stations |-> <<>>, label |-> None,
         pages |-> <<>>, errors |-> FALSE]
Down == [pc |-> "down", config |-> <<>>, mtime |-> 0, once |-> FALSE,
         stop |-> FALSE, raced |-> FALSE, since |-> 0, wake |-> None]

Init ==
  /\ clock = Dawn
  /\ file \in [content : Configs, mtime : {0}]
  /\ starts = 0
  /\ node = Down
  /\ sched = [name \in Runners |-> [kind \in Kinds |-> None]]
  /\ pass = Idle /\ tx = NoTx /\ known = {} /\ recent = {} /\ polls = {}

Goto(pc) == node' = [node EXCEPT !.pc = pc]
StationsOf(config) == UNION {ToSet(config[i].stations) : i \in DOMAIN config}

\* The process is gone: what it had in memory and had not committed is lost.
Dies ==
  /\ node' = Down
  /\ sched' = [name \in Runners |-> [kind \in Kinds |-> None]]
  /\ pass' = Idle /\ tx' = NoTx /\ recent' = {} /\ polls' = {}
  /\ UNCHANGED known

-----------------------------------------------------------------------------
(* Start-up: the file is loaded, then its time read, then stations synced. *)

Start ==
  /\ node.pc = "down" /\ starts < MaxStarts
  /\ starts' = starts + 1
  /\ \E once \in BOOLEAN : node' = [Down EXCEPT !.pc = "load", !.once = once]
  /\ UNCHANGED <<clock, file, sched, pass, tx, known, recent, polls>>

\* Mutant: a file that does not validate is run with.
LoadAnything ==
  /\ node.pc = "load"
  /\ node' = [node EXCEPT !.pc = "stat", !.config = file.content, !.mtime = file.mtime]
  /\ UNCHANGED <<world, sched, pass, tx, known, recent, polls>>

Load ==
  /\ node.pc = "load"
  /\ IF file.content = Broken
       THEN Dies
       ELSE /\ node' = [node EXCEPT !.pc = "stat", !.config = file.content,
                                    !.mtime = file.mtime]
            /\ UNCHANGED <<sched, pass, tx, known, recent, polls>>
  /\ UNCHANGED world

\* `raced' remembers that the file was saved between the two reads.
FirstStat ==
  /\ node.pc = "stat"
  /\ node' = [node EXCEPT !.pc = "sync", !.mtime = file.mtime,
                          !.raced = node.mtime # file.mtime]
  /\ UNCHANGED <<world, sched, pass, tx, known, recent, polls>>

FirstSync ==
  /\ node.pc = "sync"
  /\ known' = known \union StationsOf(node.config)
  /\ Goto("top")
  /\ UNCHANGED <<world, sched, pass, tx, recent, polls>>

-----------------------------------------------------------------------------
(* One turn of the loop: reload, run what is due, sleep.                   *)

\* Mutant: only the sleep looks at _stop.
TopIgnoringStop ==
  /\ node.pc = "top"
  /\ node' = [node EXCEPT !.pc = "reload", !.since = file.mtime]
  /\ UNCHANGED <<world, sched, pass, tx, known, recent, polls>>

\* while not _stop, and the stat of _reload_config_if_changed.
Top ==
  /\ node.pc = "top"
  /\ IF node.stop
       THEN Dies
       ELSE /\ node' = [node EXCEPT !.pc = "reload", !.since = file.mtime]
            /\ UNCHANGED <<sched, pass, tx, known, recent, polls>>
  /\ UNCHANGED world

\* Mutants of Reload, for a file that loads: an unchanged time means an
\* unchanged file; stations are synced at start-up only; the time is not kept.
ReloadAs(config, mtime, table) ==
  /\ node.pc = "reload" /\ file.content # Broken
  /\ node' = [node EXCEPT !.pc = "run", !.config = config, !.mtime = mtime, !.since = 0,
                          !.raced = node.raced /\ node.since = node.mtime]
  /\ known' = table
  /\ UNCHANGED <<world, sched, pass, tx, recent, polls>>
ReloadWithoutSync == ReloadAs(file.content, node.since, known)
ReloadForgetsTime ==
  ReloadAs(file.content, node.mtime, known \union StationsOf(file.content))

\* The file is read again in any case; stations are synced, and the time
\* kept, when the time read just before differs from the one kept.
Reload ==
  /\ node.pc = "reload"
  /\ IF file.content = Broken
       THEN Dies
       ELSE LET changed == node.since # node.mtime
            IN  /\ node' = [node EXCEPT !.pc = "run", !.config = file.content,
                              !.mtime = node.since, !.since = 0,
                              !.raced = node.raced /\ ~changed]
                /\ known' = IF changed THEN known \union StationsOf(file.content) ELSE known
                /\ UNCHANGED <<sched, pass, tx, recent, polls>>
  /\ UNCHANGED world

\* now_utc is read once for the whole pass.
RunDueTasks ==
  /\ node.pc = "run"
  /\ pass' = [Idle EXCEPT !.now = clock]
  /\ recent' = {}
  /\ Goto("task")
  /\ UNCHANGED <<world, sched, tx, known, polls>>

\* The order of a pass: the collectors as in the file, and for each of them
\* observations before forecasts.
Turn(i, kind) == 2 * i + (IF kind = "fc" THEN 1 ELSE 0)

\* The tasks that the pass has yet to run.
Waiting(i, kind) ==
  LET name == node.config[i].name
      g == Grid(node.config[i], kind)
  IN  /\ name \in Runners
      /\ Turn(pass.at, pass.kind) < Turn(i, kind)
      /\ node.once \/ IsSlotDue(pass.now, g.interval, g.anchor, sched[name][kind])

Task ==
  LET g == Grid(node.config[pass.at], pass.kind)
  IN  [collector |-> node.config[pass.at], kind |-> pass.kind,
       slot |-> SlotForInstant(pass.now, g.interval, g.anchor)]

\* The runner of the next task is called; the CLOB runner reads the clock again
\* for its label.
RunCycle ==
  /\ node.pc = "task"
  /\ \E i \in DOMAIN node.config, kind \in Kinds :
       LET collector == node.config[i]
           g == Grid(collector, kind)
       IN  /\ Waiting(i, kind)
           /\ \A j \in DOMAIN node.config, other \in Kinds :
                Waiting(j, other) => Turn(i, kind) <= Turn(j, other)
           /\ pass' = [pass EXCEPT !.at = i, !.kind = kind,
                !.stations = IF Pages(collector.name, kind) = <<>> THEN <<>>
                               ELSE collector.stations,
                !.label = IF collector.name = "polymarket_clob" /\ kind = "fc"
                            THEN SlotForInstant(clock, g.interval, g.anchor) ELSE None]
  /\ Goto("cycle")
  /\ UNCHANGED <<world, sched, tx, known, recent, polls>>

\* schedule.last_obs_slot / last_fc_slot: set once the runner returns.
CycleDone ==
  /\ node.pc = "cycle" /\ pass.stations = <<>>
  /\ sched' = [sched EXCEPT ![Task.collector.name][Task.kind] = Task.slot]
  /\ pass' = [pass EXCEPT !.label = None]
  /\ Goto("task")
  /\ UNCHANGED <<world, tx, known, recent, polls>>

\* Mutant: sleep until every task has a slot again.
NextWakeOfAll(t) ==
  Max({None} \union {NextScheduledInstant(t, Grid(node.config[i], kind).interval,
                                          Grid(node.config[i], kind).anchor) :
                       i \in DOMAIN node.config, kind \in Kinds})

\* _next_wake_utc: the first slot of any task of the file, known runner or not.
NextWake(t) ==
  LET wakes == {NextScheduledInstant(t, Grid(node.config[i], kind).interval,
                                     Grid(node.config[i], kind).anchor) :
                  i \in DOMAIN node.config, kind \in Kinds}
  IN  IF wakes = {} THEN None ELSE Min(wakes)

PassDone ==
  /\ node.pc = "task"
  /\ \A i \in DOMAIN node.config, kind \in Kinds : ~Waiting(i, kind)
  /\ IF node.once
       THEN Dies
       ELSE /\ node' = [node EXCEPT !.pc = "asleep", !.since = clock,
                                    !.wake = NextWake(clock)]
            /\ pass' = [Idle EXCEPT !.now = pass.now]
            /\ UNCHANGED <<sched, tx, known, recent, polls>>
  /\ UNCHANGED world

\* _sleep_until returns at the deadline, at a changed file or when stopped.
Wake ==
  /\ node.pc = "asleep"
  /\ node.stop \/ node.wake = None \/ node.wake <= clock \/ file.mtime # node.mtime
  /\ node' = [node EXCEPT !.pc = "top", !.since = 0, !.wake = None]
  /\ UNCHANGED <<world, sched, pass, tx, known, recent, polls>>

-----------------------------------------------------------------------------
(* One station of a cycle.                                                 *)

Station == Head(pass.stations)

\* The end of a station's cycle: one commit of what the transaction holds
\* together with the collector_state row.
Commit(outcome, t) ==
  /\ recent' = recent \union
       {[name |-> Task.collector.name, kind |-> Task.kind, station |-> Station,
         outcome |-> outcome, rows |-> t.rows, mark |-> t.mark]}
  /\ polls' = IF pass.label # None /\ "batch" \in t.rows
                THEN polls \union {[station |-> Station, label |-> pass.label,
                                   slot |-> Task.slot, at |-> pass.now]}
                ELSE polls
  /\ tx' = NoTx
  /\ pass' = [pass EXCEPT !.stations = Tail(@), !.pages = <<>>, !.errors = FALSE]
  /\ Goto("cycle")

\* mark_collector_started.
BeginStation ==
  /\ node.pc = "cycle" /\ pass.stations # <<>>
  /\ tx' = [tx EXCEPT !.mark = TRUE]
  /\ pass' = [pass EXCEPT !.pages = Pages(Task.collector.name, Task.kind)]
  /\ Goto("fetch")
  /\ UNCHANGED <<world, sched, known, recent, polls>>

\* Mutant: the handler stands around the loop over the stations.
UnexpectedErrorEndsCycle ==
  /\ node.pc = "fetch" /\ pass.pages = Pages(Task.collector.name, "fc")
  /\ Task.collector.name \in {"open_meteo", "wunderground"}
  /\ tx.rows = {} /\ ~pass.errors
  /\ pass' = [pass EXCEPT !.stations = <<>>, !.pages = <<>>]
  /\ tx' = NoTx
  /\ Goto("cycle")
  /\ UNCHANGED <<world, sched, known, recent, polls>>

\* An exception outside the runner's try is recorded by run_cycle, which does
\* not roll back, and ends the station: Open-Meteo finds no latitude before its
\* mark, Wunderground forecasts an unknown timezone after it.
UnexpectedError ==
  /\ node.pc = "fetch" /\ pass.pages = Pages(Task.collector.name, "fc")
  /\ Task.collector.name \in {"open_meteo", "wunderground"}
  /\ tx.rows = {} /\ ~pass.errors
  /\ Commit("error", [tx EXCEPT !.mark = Task.collector.name = "wunderground"])
  /\ UNCHANGED <<world, sched, known>>

\* A page is fetched, parsed and inserted.  The rows refer to the stations
\* table, so a station that was never synced cannot have any; the CLOB runner
\* may find no event and insert nothing.
FetchPage ==
  /\ node.pc = "fetch" /\ pass.pages # <<>>
  /\ \/ /\ Station \in known
        /\ tx' = [tx EXCEPT !.rows = @ \union {Head(pass.pages)}]
     \/ /\ Task.collector.name = "polymarket_clob"
        /\ UNCHANGED tx
  /\ pass' = [pass EXCEPT !.pages = Tail(@)]
  /\ UNCHANGED <<world, node, sched, known, recent, polls>>

\* Mutant: a page of forecasts that fails is not rolled back.
PageFailsInPlace ==
  /\ node.pc = "fetch" /\ pass.pages # <<>>
  /\ IF Task.collector.name = "wunderground" /\ Task.kind = "fc"
       THEN /\ pass' = [pass EXCEPT !.pages = Tail(@), !.errors = TRUE]
            /\ UNCHANGED <<node, tx, recent, polls>>
       ELSE Commit("error", NoTx)
  /\ UNCHANGED <<world, sched, known>>

\* A page fails, possibly with some of its rows inserted: rolled back with all
\* the transaction holds.  Wunderground forecasts go on with the next page.
PageFails ==
  /\ node.pc = "fetch" /\ pass.pages # <<>>
  /\ IF Task.collector.name = "wunderground" /\ Task.kind = "fc"
       THEN /\ pass' = [pass EXCEPT !.pages = Tail(@), !.errors = TRUE]
            /\ tx' = NoTx
            /\ UNCHANGED <<node, recent, polls>>
       ELSE Commit("error", NoTx)
  /\ UNCHANGED <<world, sched, known>>

\* The metric API that Wunderground forecasts need first.
MetricFails ==
  /\ node.pc = "fetch" /\ Len(pass.pages) = 2
  /\ Commit("error", NoTx)
  /\ UNCHANGED <<world, sched, known>>

FinishStation ==
  /\ node.pc = "fetch" /\ pass.pages = <<>>
  /\ Commit(IF pass.errors THEN "error" ELSE "success", tx)
  /\ UNCHANGED <<world, sched, known>>

-----------------------------------------------------------------------------
(* The world around the process.                                           *)

Tick ==
  /\ clock < Horizon
  /\ clock' = clock + 1
  /\ UNCHANGED <<file, starts, node, sched, pass, tx, known, recent, polls>>

Edit ==
  /\ file.mtime < MaxEdits
  /\ \E content \in (Configs \union {Broken}) \ {file.content} :
       file' = [content |-> content, mtime |-> file.mtime + 1]
  /\ UNCHANGED <<clock, starts, node, sched, pass, tx, known, recent, polls>>

\* SIGINT or SIGTERM: _handle_signal.
Signal ==
  /\ node.pc # "down" /\ ~node.stop
  /\ node' = [node EXCEPT !.stop = TRUE]
  /\ UNCHANGED <<world, sched, pass, tx, known, recent, polls>>

\* A kill, or a database error that no handler survives.
Crash ==
  /\ node.pc # "down"
  /\ Dies
  /\ UNCHANGED world

Process ==
  \/ Load \/ FirstStat \/ FirstSync
  \/ Top \/ Reload \/ RunDueTasks \/ RunCycle \/ CycleDone \/ PassDone \/ Wake
  \/ BeginStation \/ UnexpectedError \/ FetchPage \/ PageFails \/ MetricFails
  \/ FinishStation

Next == Process \/ Start \/ Tick \/ Edit \/ Signal \/ Crash

Spec == Init /\ [][Next]_vars /\ WF_vars(Process)
-----------------------------------------------------------------------------
(* Properties.                                                             *)

\* TypeOK: every variable ranges over what the code can hold.
TypeOK ==
  /\ clock \in Dawn .. Horizon
  /\ file \in [content : Configs \union {Broken}, mtime : 0 .. MaxEdits]
  /\ starts \in 0 .. MaxStarts
  /\ node.pc \in {"down", "load", "stat", "sync", "top", "reload", "run", "task",
                  "cycle", "fetch", "asleep"}
  /\ node.config \in Configs \union {<<>>}
  /\ node.mtime \in 0 .. MaxEdits /\ node.once \in BOOLEAN /\ node.stop \in BOOLEAN
  /\ sched \in [Runners -> [Kinds -> Nat \union {None}]]
  /\ pass.now \in Nat /\ pass.label \in Nat \union {None}
  /\ tx \in [mark : BOOLEAN, rows : SUBSET {"current", "today", "tomorrow", "batch"}]
  /\ known \subseteq Stations
  /\ \A r \in recent : r.station \in Stations /\ r.outcome \in {"success", "error"}
  /\ \A p \in polls : p.station \in Stations

\* The slot a task is in and the instant it is next scheduled for are
\* neighbours on its grid, across midnight and before the day's anchor too
\* (slot_for_instant, next_scheduled_instant_utc).
GridsHold ==
  \A i \in DOMAIN node.config, kind \in Kinds :
    GridAround(clock, Grid(node.config[i], kind).interval, Grid(node.config[i], kind).anchor)

\* While the process sleeps before its deadline, every task has run the slot
\* the clock is in, unless that slot began while the last pass was running:
\* a pass that overruns is the only way to lose a slot.
SkippedOnlyByOverrun ==
  node.pc = "asleep" /\ clock < node.wake =>
    \A i \in DOMAIN node.config, kind \in Kinds :
      LET name == node.config[i].name
          g == Grid(node.config[i], kind)
          slot == SlotForInstant(clock, g.interval, g.anchor)
      IN  name \in Runners =>
            \/ slot <= sched[name][kind]
            \/ pass.now < slot /\ slot <= node.since

\* No task completes the same slot twice in one life of the process, whatever
\* intervals an edit brings in between (is_slot_due, schedule.last_fc_slot).
SlotsRunOnce ==
  [][node.pc = "cycle" /\ node'.pc = "task" /\ ~node.once =>
       sched[Task.collector.name][Task.kind] < Task.slot]_vars

\* A slot is recorded as run only when every station of the collector has an
\* outcome committed in this pass: a station that fails stops no other.
DoneMeansAllTried ==
  [][node.pc = "cycle" /\ node'.pc = "task" /\ Pages(Task.collector.name, Task.kind) # <<>> =>
       \A station \in ToSet(Task.collector.stations) :
         \E r \in recent : /\ r.name = Task.collector.name /\ r.kind = Task.kind
                           /\ r.station = station]_vars

\* collector_state tells the truth of what was committed with it: success only
\* with every page (the order books may have none), error only without one,
\* and no page fetched before the one that failed.
OutcomeMatchesRows ==
  \A r \in recent :
    LET all == ToSet(Pages(r.name, r.kind))
    IN  /\ r.outcome = "success" =>
             r.mark /\ (r.rows = all \/ r.name = "polymarket_clob")
        /\ r.outcome = "error" => r.rows # all /\ "today" \notin r.rows

\* Two polls of one life carry the same poll slot only when the first was
\* labelled with a slot later than the one it ran for (poll_slot is computed
\* from a second reading of the clock).
SameLabelOnlyAfterOverrun ==
  \A p, q \in polls :
    p.station = q.station /\ p.label = q.label /\ p.at < q.at => p.slot < p.label

\* Both exceptions are those of a pass that overruns and no other: without one
\* every slot is run, and every poll carries a label of its own.
OnlyOverrunsDisturbSlots == SkippedOnlyByOverrun /\ SameLabelOnlyAfterOverrun

\* A process that sleeps and has noticed no edit runs on the file's content.
AsleepOnCurrentFile ==
  node.pc = "asleep" /\ node.mtime = file.mtime => node.config = file.content

\* ... and its stations are in the table their rows refer to, unless the file
\* was saved between the two reads of the start-up and not since.
StationsSynced ==
  node.pc = "asleep" /\ node.mtime = file.mtime /\ ~node.raced =>
    StationsOf(node.config) \subseteq known

\* Both together: what a sleeping process runs on, and what its rows will
\* refer to, is the file as it was last read, whatever edits came between the
\* reads of _reload_config_if_changed and of main.
AsleepUpToDate == AsleepOnCurrentFile /\ StationsSynced

\* A process asked to stop ends, whatever it is doing and whatever fails.
StopsWhenAsked == node.stop ~> node.pc = "down"

\* An edit noticed in sleep is taken up, or the process ends over it.
EditIsTakenUp ==
  node.pc = "asleep" /\ node.mtime # file.mtime ~>
    node.pc = "down" \/ node.mtime = file.mtime
=============================================================================
