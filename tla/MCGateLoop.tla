------------------------------ MODULE MCGateLoop ------------------------------
(* Instance of GateLoop for TLC: a day of 24 ticks.                          *)
EXTENDS GateLoop

Gate(city, target_day, lead) ==
  [city |-> city, target_day |-> target_day, lead |-> lead, tol |-> 1]

\* Gates three ticks apart, two before a midnight and one at it; their dates
\* are two days ahead, the next day, and the day that begins.
MCProfiles == {Gate("london", "tomorrow", 54), Gate("madrid", "today", 27),
               Gate("london", "tomorrow", 24)}
=============================================================================
