------------------------------- MODULE GateLoop -------------------------------
(***************************************************************************)
(* The main loops of scripts/run_paper_bot.py and scripts/run_live_node.py *)
(* against the clock: a tick reads the time once, looks at the markets of  *)
(* every date and takes as long as it takes; then the loop reads the time  *)
(* again and sleeps until the next gate, the next settlement sweep or a    *)
(* retry.  A gate is open for twice its tolerance, so a tick may be longer *)
(* than a gate is open.  What the tick does at a gate is the matter of     *)
(* PaperBot and LiveNode.                                                  *)
(***************************************************************************)
EXTENDS GateClock

CONSTANTS
  Profiles,     \* the gated profiles: [city, target_day, lead, tol]
  Sweep,        \* SETTLE_SWEEP_INTERVAL
  Retry,        \* GATE_RETRY_INTERVAL
  Poll,         \* ACTIVE_EXIT_POLL_INTERVAL
  RetryWindow,  \* execution.retry_window_hours
  Dawn,         \* the instant the model starts at
  Horizon,      \* bound: the last instant
  MaxStarts     \* bound: starts of the process

ASSUME ScheduleAssumption ==
  /\ {Dawn, Horizon, MaxStarts, RetryWindow} \subseteq Nat
  /\ {Sweep, Retry, Poll} \subseteq Nat \ {0}
  /\ Day <= Dawn /\ Dawn <= Horizon  \* no date before it is negative
  /\ RetryWindow <= Day

ASSUME GatesAssumption ==
  \A p \in Profiles :
    /\ p.target_day \in {"today", "tomorrow", "both"}
    /\ p.tol \in 0 .. Day /\ p.lead \in p.tol + 1 .. 3 * Day

VARIABLES
  clock,   \* the UTC wall clock
  who,     \* which program runs: the paper bot or the live node
  starts,  \* how often it has been started
  pc,      \* where its thread is
  tick,    \* run_tick's and run_node_tick's locals and result
  wake,    \* wake_at
  born,    \* history: when the first tick of this life began
  ticks    \* history: the ticks of this life that can still matter for a gate

vars == <<clock, who, starts, pc, tick, wake, born, ticks>>

\* from and to are the two readings of the clock, before and after the tick;
\* free is when the thread went to sleep.
NoTick == [from |-> None, to |-> None, free |-> None,
           looked |-> {}, failed |-> {}, raised |-> FALSE]

Init ==
  /\ clock = Dawn /\ who \in {"bot", "node"} /\ starts = 0
  /\ pc = "down" /\ tick = NoTick /\ wake = None /\ born = None /\ ticks = {}

Opens(p, date) == gate_target_utc(date, p.lead) - p.tol
Closes(p, date) == gate_target_utc(date, p.lead) + p.tol
Unit(p, date) == [city |-> p.city, date |-> date]

\* What a tick at `now' finds work for; the live node puts the dates back
\* whose gate has passed.
UnitsAt(now) ==
  LET units == work_units_for_profiles(Profiles, now)
  IN  IF who = "bot" THEN units
      ELSE units \union retry_units(Profiles, now, RetryWindow, units)

\* The units with a profile at its gate; no other unit's market context has a
\* bearing on the time of the next tick.
UnitsAtGate(now) ==
  {u \in UnitsAt(now) : \E p \in Profiles :
     /\ u.city = p.city
     /\ who = "bot" => u.date \in settlement_dates_for_profile(p, now)
     /\ lead_hours_at_target(lead_hours_to_end_of_target_day(u.date, now), p)}

-----------------------------------------------------------------------------

\* The loop begins: the bot with a tick, the node with a reconciliation.
Start ==
  /\ pc = "down" /\ starts < MaxStarts
  /\ starts' = starts + 1
  /\ wake' = clock /\ born' = None /\ ticks' = {}
  /\ pc' = IF who = "bot" THEN "asleep" ELSE "reconcile"
  /\ UNCHANGED <<clock, who, tick>>

BeginTick ==
  /\ pc = "asleep" /\ wake <= clock
  /\ pc' = "tick"
  /\ tick' = [NoTick EXCEPT !.from = clock]
  /\ born' = IF born = None THEN clock ELSE born
  /\ UNCHANGED <<clock, who, starts, wake, ticks>>

\* fetch_market_context for each unit: an answer, no such event, or an error.
LookAtUnits ==
  /\ pc = "tick"
  /\ \E failed \in SUBSET UnitsAtGate(tick.from) :
       tick' = [tick EXCEPT !.failed = failed, !.looked = UnitsAtGate(tick.from) \ failed]
  /\ pc' = "end"
  /\ UNCHANGED <<clock, who, starts, wake, born, ticks>>

\* "tick failed": the loop goes on without a result.
TickFails ==
  /\ pc \in {"tick", "end"} /\ ~tick.raised
  /\ tick' = [tick EXCEPT !.raised = TRUE]
  /\ pc' = "end"
  /\ UNCHANGED <<clock, who, starts, wake, born, ticks>>

\* The bot asks for the next gate after the tick, and for what the tick's
\* result wants: a retry, or the poll of active exits.
BotWakes(fast_poll) ==
  {compute_next_wake(Profiles, clock + Sweep, clock)}
  \union {at \in IF ~tick.raised /\ tick.failed # {} THEN {tick.from + Retry} ELSE {} : clock < at}
  \union {at \in IF ~tick.raised /\ fast_poll THEN {tick.from + Poll} ELSE {} : clock < at}

\* Mutant: the retry is asked for and forgotten.
BotSleepsWithoutRetry ==
  /\ pc = "end" /\ who = "bot"
  /\ wake' = compute_next_wake(Profiles, clock + Sweep, clock)
  /\ pc' = "asleep"
  /\ ticks' = ticks \union {[tick EXCEPT !.to = clock, !.free = clock]}
  /\ tick' = NoTick
  /\ UNCHANGED <<clock, who, starts, born>>

BotSleeps ==
  /\ pc = "end" /\ who = "bot"
  /\ \E fast_poll \in BOOLEAN : wake' = Min(BotWakes(fast_poll))
  /\ pc' = "asleep"
  /\ ticks' = ticks \union {[tick EXCEPT !.to = clock, !.free = clock]}
  /\ tick' = NoTick
  /\ UNCHANGED <<clock, who, starts, born>>

\* The node's tick has asked for the next gate as of its own `now'; a
\* reconciliation may be due before the thread sleeps.
NodeTickEnds ==
  /\ pc = "end" /\ who = "node"
  /\ wake' = Min({clock + Sweep} \union
                 {at \in IF tick.raised THEN {}
                         ELSE {next_gate_wake_utc(Profiles, tick.from)} : clock < at})
  /\ \/ /\ pc' = "asleep"
        /\ ticks' = ticks \union {[tick EXCEPT !.to = clock, !.free = clock]}
        /\ tick' = NoTick
     \/ /\ pc' = "reconcile"
        /\ tick' = [tick EXCEPT !.to = clock]
        /\ UNCHANGED ticks
  /\ UNCHANGED <<clock, who, starts, born>>

Reconciled ==
  /\ pc = "reconcile"
  /\ pc' = "asleep"
  /\ ticks' = IF tick = NoTick THEN ticks ELSE ticks \union {[tick EXCEPT !.free = clock]}
  /\ tick' = NoTick
  /\ UNCHANGED <<clock, who, starts, wake, born>>

\* _sleep_until looks at the clock every second: a thread whose time has come
\* ticks before time goes on.  A tick is forgotten when no gate that is still
\* open depends on it.
TimePasses ==
  /\ clock < Horizon
  /\ ~(pc = "asleep" /\ wake <= clock)
  /\ clock' = clock + 1
  /\ ticks' = {t \in ticks : \E p \in Profiles : clock <= t.free + 2 * p.tol + Sweep}
  /\ UNCHANGED <<who, starts, pc, tick, wake, born>>

Crash ==
  /\ pc # "down"
  /\ pc' = "down" /\ tick' = NoTick /\ wake' = None /\ born' = None /\ ticks' = {}
  /\ UNCHANGED <<clock, who, starts>>

Next == \/ Start \/ BeginTick \/ LookAtUnits \/ TickFails \/ BotSleeps \/ NodeTickEnds
        \/ Reconciled \/ TimePasses \/ Crash

Spec == Init /\ [][Next]_vars
-----------------------------------------------------------------------------
(* Properties.                                                             *)

\* TypeOK: every variable ranges over what the code can hold; the thread never
\* sleeps past the next settlement sweep.
TypeOK ==
  /\ clock \in Dawn .. Horizon /\ starts \in 0 .. MaxStarts
  /\ pc \in {"down", "asleep", "tick", "end", "reconcile"}
  /\ wake \in {None} \union Dawn .. Horizon + Sweep
  /\ born \in {None} \union Dawn .. clock
  /\ \A t \in ticks \union {tick} :
       /\ {t.from, t.to, t.free} \subseteq {None} \union Dawn .. clock
       /\ t.looked \intersect t.failed = {}

\* All dates whose gates can be near the clock, whatever the code enumerates.
NearDates == Today(Dawn) - 3 .. Today(Horizon) + 7

\* Whenever a gate is open its date is among the work units, and whenever its
\* retry window is, it is among the node's: neither the settlement day itself
\* nor a lead of several days falls out of the dates scanned
\* (settlement_dates_for_profile, _retry_units).
UnitsCoverGates ==
  LET units == work_units_for_profiles(Profiles, clock)
  IN  \A p \in Profiles, date \in NearDates :
        LET lead == lead_hours_to_end_of_target_day(date, clock)
        IN  /\ lead_hours_at_target(lead, p) => Unit(p, date) \in units
            /\ 0 < lead /\ in_retry_window(lead, p, RetryWindow) =>
                 Unit(p, date) \in units \union retry_units(Profiles, clock, RetryWindow, units)

\* The instant the active sweep is keyed on is the latest gate instant of any
\* date that has passed (latest_due_gate_instant looks at five dates).
LatestIsLatest ==
  Profiles # {} =>
    LET latest == latest_due_gate_instant(Profiles, clock)
    IN  /\ latest <= clock
        /\ \A p \in Profiles, date \in NearDates :
             ~(latest < gate_target_utc(date, p.lead) /\ gate_target_utc(date, p.lead) <= clock)

\* What keeps a gate from being looked at.  The bot: a tick that was running
\* when the gate opened, a failed tick at the gate, or a failed market context
\* whose retry came too late.  The node, which knows of one gate ahead of its
\* tick: a tick from before the gate opened that failed or ran past the first
\* gate ahead of it, be it this one or another; a reconciliation past the gate;
\* or any failure at the gate, since the node's loop has no retry for those.
BotMissesBy(t, p, date) ==
  \/ t.from < Opens(p, date) /\ Opens(p, date) <= t.to
  \/ /\ t.from \in Opens(p, date) .. Closes(p, date)
     /\ \/ t.raised
        \/ /\ Unit(p, date) \in t.failed
           /\ t.from + Retry <= t.to \/ Closes(p, date) < t.from + Retry

NodeMissesBy(t, p, date) ==
  \/ /\ t.from < Opens(p, date)
     /\ t.raised \/ next_gate_wake_utc(Profiles, t.from) <= t.to \/ Closes(p, date) < t.free
  \/ /\ t.from \in Opens(p, date) .. Closes(p, date)
     /\ t.raised \/ Unit(p, date) \in t.failed

\* At the moment a gate closes, a loop that has been ticking since before it
\* opened has looked at its market within the tolerance, or a tick is to blame:
\* one that is still under way, or one of those above.
GateMissedOnlyInTick ==
  \A p \in Profiles, date \in NearDates :
    clock = Closes(p, date) + 1 /\ born # None /\ born <= Opens(p, date) =>
      \/ tick # NoTick
      \/ \E t \in ticks :
           \/ t.from \in Opens(p, date) .. Closes(p, date) /\ Unit(p, date) \in t.looked
           \/ IF who = "bot" THEN BotMissesBy(t, p, date) ELSE NodeMissesBy(t, p, date)
=============================================================================
