------------------------------ MODULE SlotClock ------------------------------
(***************************************************************************)
(* The wall-clock grid of the weather collectors (collectors/schedule.py). *)
(* An instant is a number of ticks since some UTC midnight, a day is Day   *)
(* ticks, and a task that polls every `interval' ticks from `anchor' has a *)
(* slot at the anchor of each day and at every interval after it.          *)
(***************************************************************************)
EXTENDS Integers

CONSTANT Day  \* length of a UTC day, 86400 seconds in the code

ASSUME DayAssumption == Day \in Nat \ {0}

None == -1  \* last_run_slot of a task that has not run

\* The slot at or before t: the anchor's last passing, plus whole intervals.
SlotForInstant(t, interval, anchor) ==
  LET elapsed == t % Day
      since == IF elapsed < anchor THEN elapsed + Day - anchor ELSE elapsed - anchor
  IN  t - since + (since \div interval) * interval

\* Mutant: the slot that starts now is not past yet.
NextOrThisInstant(t, interval, anchor) ==
  LET current == SlotForInstant(t, interval, anchor)
  IN  IF current < t THEN current + interval ELSE current

NextScheduledInstant(t, interval, anchor) ==
  LET current == SlotForInstant(t, interval, anchor)
  IN  IF current <= t THEN current + interval ELSE current

\* Mutant: the slot that has just run is due again.
IsSlotDueAgain(t, interval, anchor, last) ==
  last = None \/ last <= SlotForInstant(t, interval, anchor)

IsSlotDue(t, interval, anchor, last) ==
  last = None \/ last < SlotForInstant(t, interval, anchor)

-----------------------------------------------------------------------------
(***************************************************************************)
(* What the docstrings of schedule.py promise, stated of the grid itself.  *)
(***************************************************************************)
OnGrid(t, interval, anchor) == ((t - anchor) % Day) % interval = 0

\* The slot is the last point of the grid at or before t, and the next
\* scheduled instant is the first one after it.
GridAround(t, interval, anchor) ==
  LET slot == SlotForInstant(t, interval, anchor)
      next == NextScheduledInstant(t, interval, anchor)
  IN  /\ slot <= t /\ t < next
      /\ OnGrid(slot, interval, anchor) /\ OnGrid(next, interval, anchor)
      /\ \A u \in slot + 1 .. next - 1 : ~OnGrid(u, interval, anchor)
=============================================================================
