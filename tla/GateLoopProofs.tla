---------------------------- MODULE GateLoopProofs ----------------------------
(***************************************************************************)
(* The dates that the loops scan are enough: no gate and no retry window   *)
(* is ever open on a date that is not among the work units, and no gate    *)
(* instant is later than the one the active sweep is keyed on.  And the    *)
(* loops sleep no longer than they may: a gate that nobody looked at was   *)
(* missed in a tick, not in a sleep.                                       *)
(***************************************************************************)
EXTENDS GateLoop, TLAPS, WellFoundedInduction

LEMMA DayType == Day \in Nat \ {0} /\ 23 * Hour \in Nat /\ 23 * Hour + Hour = Day
  BY HourAssumption DEF Day

\* Division with remainder by a day.
LEMMA DivDay ==
  ASSUME NEW a \in Int
  PROVE  /\ a \div Day \in Int
         /\ Day * (a \div Day) \in Int
         /\ Day * (a \div Day) <= a /\ a < Day * (a \div Day) + Day
<1> HIDE DEF Day
<1> QED BY DayType, SMT

\* Days are compared like their numbers.
LEMMA DayOrder ==
  ASSUME NEW a \in Int, NEW b \in Int, Day * a < Day * b
  PROVE  a < b
<1> HIDE DEF Day
<1> SUFFICES ASSUME b <= a PROVE Day * b <= Day * a
  BY DayType, SMT
<1>1. a - b \in Nat  OBVIOUS
<1>2. Day * (a - b) >= 0  BY <1>1, DayType, SMT
<1>3. Day * (a - b) = Day * a - Day * b  BY DayType, SMT
<1> QED BY <1>2, <1>3, DayType, SMT

LEMMA DaySums ==
  ASSUME NEW a \in Int, NEW b \in Int
  PROVE  /\ Day * a \in Int /\ Day * b \in Int
         /\ Day * (a + b) = Day * a + Day * b
         /\ a * Day = Day * a
<1> HIDE DEF Day
<1> QED BY DayType, SMT

\* The span is more days than the lead has, less an hour.
LEMMA SpanCoversLead ==
  ASSUME NEW lead \in Nat
  PROVE  /\ settlement_date_span_days(lead) \in Nat
         /\ lead + Day < Day * settlement_date_span_days(lead) + Hour + 1
<1> DEFINE q == (lead + 23 * Hour) \div Day
           a == lead + 23 * Hour
<1>1. a \in Int /\ a >= 0  BY HourAssumption
<1>2. q \in Int /\ Day * q \in Int /\ Day * q <= a /\ a < Day * q + Day
  BY <1>1, DivDay
<1>3. q >= 0
  <2> SUFFICES ASSUME q <= -1 PROVE FALSE  BY <1>2
  <2>1. a < Day * q + Day * 1  BY <1>2, DayType
  <2>2. Day * (q + 1) = Day * q + Day * 1  BY <1>2, DaySums
  <2>3. Day * 0 < Day * (q + 1)  BY <2>1, <2>2, <1>1, <1>2, DayType
  <2>4. 0 < q + 1  BY <2>3, <1>2, DayOrder
  <2> QED BY <2>4, <1>2
<1>4. settlement_date_span_days(lead) = q + 1
  BY <1>3, <1>2 DEF settlement_date_span_days
<1>5. Day * (q + 1) = Day * q + Day
  BY <1>2, DaySums, DayType
<1>6. lead + 23 * Hour < Day * (q + 1)  BY <1>2, <1>5
<1>7. lead \in Int /\ Hour \in Int /\ Day \in Int /\ Day * (q + 1) \in Int
  BY <1>2, <1>5, DayType, HourAssumption
<1>8. lead + Day < Day * (q + 1) + Hour
  BY <1>6, <1>7, DayType
<1> QED BY <1>3, <1>4, <1>7, <1>8, <1>2

\* A date whose lead is positive and at most `most' is at most that far ahead.
LEMMA DateOfLead ==
  ASSUME NEW now \in Nat, NEW date \in Int, NEW days \in Int,
         LET lead == lead_hours_to_end_of_target_day(date, now)
         IN  0 < lead /\ lead < Day * days
  PROVE  Today(now) <= date /\ date < Today(now) + days
<1> DEFINE today == Today(now)
           lead == lead_hours_to_end_of_target_day(date, now)
<1>1. /\ today \in Int /\ Day * today \in Int
      /\ Day * today <= now /\ now < Day * today + Day
  BY DivDay DEF Today
<1>2. /\ Day * (date + 1) \in Int
      /\ lead = Day * (date + 1) - now
  BY DaySums, HourAssumption, DayType DEF lead_hours_to_end_of_target_day
<1> HIDE DEF today, lead
<1>3. 0 < lead /\ lead < Day * days /\ Day * days \in Int
  BY DaySums DEF lead
<1>4. Day * today < Day * (date + 1)  BY <1>1, <1>2, <1>3
<1>5. today < date + 1  BY <1>4, <1>1, DayOrder
<1>6. /\ today + 1 \in Int /\ days \in Int
      /\ Day * (today + 1) = Day * today + Day * 1
      /\ Day * ((today + 1) + days) = Day * (today + 1) + Day * days
  <2>1. today + 1 \in Int  BY <1>1
  <2>2. Day * (today + 1) = Day * today + Day * 1  BY <1>1, DaySums
  <2>3. Day * ((today + 1) + days) = Day * (today + 1) + Day * days  BY <2>1, DaySums
  <2> QED BY <2>1, <2>2, <2>3
<1>7. Day * 1 = Day  BY DayType
<1>8. Day * (date + 1) < Day * ((today + 1) + days)
  BY <1>1, <1>2, <1>3, <1>6, <1>7, DayType
<1>9. date + 1 < (today + 1) + days  BY <1>8, <1>6, <1>1, DayOrder
<1> QED BY <1>5, <1>9, <1>1 DEF today

-----------------------------------------------------------------------------

\* When a profile's gate is open on a date, the date is one of those scanned.
LEMMA OpenGateIsScanned ==
  ASSUME NEW now \in Nat, NEW p \in Profiles, NEW date \in Int,
         lead_hours_at_target(lead_hours_to_end_of_target_day(date, now), p)
  PROVE  date \in settlement_dates_for_profile(p, now)
<1> DEFINE span == settlement_date_span_days(p.lead)
           lead == lead_hours_to_end_of_target_day(date, now)
<1>1. /\ p.tol \in 0 .. Day /\ p.lead \in p.tol + 1 .. 3 * Day /\ p.lead \in Nat
  BY GatesAssumption, DayType
<1>2. lead \in Int
  BY DaySums, DayType DEF lead_hours_to_end_of_target_day
<1> HIDE DEF lead
<1>3. p.lead - p.tol <= lead /\ lead <= p.lead + p.tol
  BY DEF lead_hours_at_target, lead
<1>4. span \in Nat /\ p.lead + Day < Day * span + Hour + 1
  BY <1>1, SpanCoversLead
<1> HIDE DEF span
<1>5. Day * span \in Int /\ Day * (span + 1) = Day * span + Day
  BY <1>4, DaySums, DayType
<1>6. Hour \in Int /\ Day \in Int /\ Hour + 1 <= Day
  BY HourAssumption DEF Day
<1>7. 0 < lead /\ lead < Day * (span + 1)
  BY <1>1, <1>2, <1>3, <1>4, <1>5, <1>6
<1>8. Today(now) <= date /\ date < Today(now) + (span + 1)
  <2>1. span + 1 \in Int  BY <1>4
  <2> QED BY <2>1, <1>7, DateOfLead DEF lead
<1>9. Today(now) \in Int  BY DivDay DEF Today
<1>10. date \in Today(now) - 1 .. Today(now) + span + 1
  BY <1>8, <1>9, <1>4
<1> QED BY <1>10 DEF settlement_dates_for_profile, span

\* ... and in its retry window, one of those put back.
LEMMA RetryWindowIsScanned ==
  ASSUME NEW now \in Nat, NEW p \in Profiles, NEW date \in Int,
         0 < lead_hours_to_end_of_target_day(date, now),
         in_retry_window(lead_hours_to_end_of_target_day(date, now), p, RetryWindow)
  PROVE  date \in Today(now) - 1 .. Today(now) + 3
<1> DEFINE lead == lead_hours_to_end_of_target_day(date, now)
<1>1. p.lead \in Int /\ p.lead <= 3 * Day
  BY GatesAssumption, DayType
<1>2. lead \in Int
  BY DaySums, DayType DEF lead_hours_to_end_of_target_day
<1>3. 0 < lead /\ lead < p.lead
  BY DEF in_retry_window
<1> HIDE DEF lead
<1>4. Day * 3 = 3 * Day  BY DaySums
<1>5. lead < Day * 3  BY <1>1, <1>2, <1>3, <1>4, DayType
<1>6. Today(now) <= date /\ date < Today(now) + 3
  BY <1>3, <1>5, DateOfLead DEF lead
<1>7. Today(now) \in Int  BY DivDay DEF Today
<1> QED BY <1>6, <1>7

LEMMA GatesCovered == clock \in Nat => UnitsCoverGates
<1> SUFFICES ASSUME clock \in Nat,
                    NEW p \in Profiles, NEW date \in NearDates
             PROVE
               LET units == work_units_for_profiles(Profiles, clock)
                   lead == lead_hours_to_end_of_target_day(date, clock)
               IN  /\ lead_hours_at_target(lead, p) => Unit(p, date) \in units
                   /\ 0 < lead /\ in_retry_window(lead, p, RetryWindow) =>
                        Unit(p, date) \in
                          units \union retry_units(Profiles, clock, RetryWindow, units)
  BY DEF UnitsCoverGates
<1> DEFINE lead == lead_hours_to_end_of_target_day(date, clock)
<1>1. date \in Int
  <2>1. Dawn \in Int /\ Horizon \in Int  BY ScheduleAssumption
  <2>2. Today(Dawn) \in Int /\ Today(Horizon) \in Int  BY <2>1, DivDay DEF Today
  <2> QED BY <2>2 DEF NearDates
<1>2. ASSUME lead_hours_at_target(lead, p)
      PROVE  Unit(p, date) \in work_units_for_profiles(Profiles, clock)
  <2>1. date \in settlement_dates_for_profile(p, clock)
    BY <1>1, <1>2, OpenGateIsScanned
  <2> QED BY <2>1 DEF work_units_for_profiles, Unit
<1>3. ASSUME 0 < lead, in_retry_window(lead, p, RetryWindow),
             NEW units
      PROVE  Unit(p, date) \in units \union retry_units(Profiles, clock, RetryWindow, units)
  <2>1. date \in Today(clock) - 1 .. Today(clock) + 3
    BY <1>1, <1>3, RetryWindowIsScanned
  <2>2. date \in retry_dates(p, clock, RetryWindow)
    BY <2>1, <1>3 DEF retry_dates
  <2>3. Unit(p, date) \in units_in_retry_window(Profiles, clock, RetryWindow)
    BY <2>2 DEF units_in_retry_window, Unit
  <2> QED BY <2>3 DEF retry_units
<1> QED BY <1>2, <1>3

-----------------------------------------------------------------------------

\* A set of integers none of which is above a bound has a maximum.
LEMMA MaxOfBounded ==
  ASSUME NEW S, S \subseteq Int, S # {}, NEW n \in Int, \A x \in S : x <= n
  PROVE  Max(S) \in S /\ \A x \in S : x <= Max(S)
<1> DEFINE below == {n - x : x \in S}
<1>1. below \subseteq Nat /\ below # {}  OBVIOUS
<1>2. PICK d \in below : \A e \in below : ~(<<e, d>> \in OpToRel(<, Nat))
  BY <1>1, NatLessThanWellFounded, WFMin
<1>3. \A e \in below : ~(e < d)
  BY <1>1, <1>2 DEF OpToRel
<1>4. PICK m \in S : d = n - m  OBVIOUS
<1>5. ASSUME NEW x \in S
      PROVE  m >= x
  <2>1. ~(n - x < n - m)  BY <1>3, <1>4
  <2>2. x \in Int /\ m \in Int  OBVIOUS
  <2> QED BY <2>1, <2>2
<1>6. Max(S) \in S /\ \A x \in S : Max(S) >= x
  BY <1>4, <1>5 DEF Max
<1> QED BY <1>6

\* The gate instants of a profile are a day apart.
LEMMA GateInstants ==
  ASSUME NEW p \in Profiles, NEW date \in Int
  PROVE  /\ gate_target_utc(date, p.lead) \in Int
         /\ gate_target_utc(date, p.lead) = Day * date + Day - p.lead
         /\ p.lead \in Int /\ 0 < p.lead /\ p.lead <= 3 * Day
<1>1. p.tol \in Nat /\ p.lead \in Int /\ p.tol + 1 <= p.lead /\ p.lead <= 3 * Day
  BY GatesAssumption, DayType
<1>2. (date + 1) * Day = Day * date + Day /\ Day * date \in Int /\ Day \in Int
  <2>1. date + 1 \in Int /\ 1 \in Int  OBVIOUS
  <2>2. (date + 1) * Day = Day * (date + 1)  BY <2>1, DaySums
  <2>3. Day * (date + 1) = Day * date + Day * 1  BY <2>1, DaySums
  <2>4. Day * date \in Int  BY DaySums
  <2> QED BY <2>2, <2>3, <2>4, DayType
<1> HIDE DEF Day
<1> QED BY <1>1, <1>2 DEF gate_target_utc

\* A gate that has passed is not of a date beyond the dates scanned, and one
\* of an earlier date is not after yesterday's.
LEMMA PassedGates ==
  ASSUME NEW now \in Nat, NEW p \in Profiles, NEW date \in Int
  PROVE  /\ Today(now) \in Int
         /\ gate_target_utc(Today(now) - 1, p.lead) <= now
         /\ gate_target_utc(date, p.lead) <= now => date <= Today(now) + 3
         /\ date < Today(now) - 1 =>
              gate_target_utc(date, p.lead) <= gate_target_utc(Today(now) - 1, p.lead)
<1> DEFINE today == Today(now)
<1>1. today \in Int /\ Day * today \in Int /\ Day * today <= now /\ now < Day * today + Day
  BY DivDay DEF Today
<1> HIDE DEF today
<1>2. /\ gate_target_utc(today - 1, p.lead) = Day * (today - 1) + Day - p.lead
      /\ gate_target_utc(date, p.lead) = Day * date + Day - p.lead
      /\ p.lead \in Int /\ 0 < p.lead /\ p.lead <= 3 * Day
  BY <1>1, GateInstants
<1>3. /\ Day * (today - 1) \in Int /\ Day * date \in Int /\ Day * (today + 3) \in Int
      /\ Day * (today - 1) + Day = Day * today
      /\ Day * (today + 3) = Day * today + 3 * Day
  <2>1. today - 1 \in Int /\ today + 3 \in Int /\ 1 \in Int /\ 3 \in Int  BY <1>1
  <2>2. Day * ((today - 1) + 1) = Day * (today - 1) + Day * 1  BY <2>1, DaySums
  <2>3. (today - 1) + 1 = today  BY <1>1
  <2>4. Day * (today + 3) = Day * today + Day * 3  BY <1>1, <2>1, DaySums
  <2>5. Day * 3 = 3 * Day /\ Day * 1 = Day  BY DaySums, DayType
  <2> QED BY <2>1, <2>2, <2>3, <2>4, <2>5, DaySums
<1>4. gate_target_utc(today - 1, p.lead) <= now
  BY <1>1, <1>2, <1>3, DayType
<1>5. ASSUME gate_target_utc(date, p.lead) <= now
      PROVE  date <= today + 3
  <2> SUFFICES ASSUME today + 3 < date PROVE FALSE  BY <1>1
  <2>1. Day * date >= Day * (today + 3)
    <3>1. ~(Day * date < Day * (today + 3)) \/ date < today + 3
      BY <1>1, DayOrder
    <3> QED BY <1>1, <1>3, <3>1
  <2>2. Day * today + Day <= now
    BY <1>1, <1>2, <1>3, <1>5, <2>1, DayType
  <2> QED BY <1>1, <2>2, DayType
<1>6. ASSUME date < today - 1
      PROVE  gate_target_utc(date, p.lead) <= gate_target_utc(today - 1, p.lead)
  <2>1. ~(Day * (today - 1) < Day * date) \/ today - 1 < date
    BY <1>1, DayOrder
  <2>2. Day * date <= Day * (today - 1)
    BY <1>1, <1>3, <1>6, <2>1
  <2> QED BY <1>2, <1>3, <2>2, DayType
<1> QED BY <1>1, <1>4, <1>5, <1>6 DEF today

LEMMA LatestFound == clock \in Nat => LatestIsLatest
<1> DEFINE dates == Today(clock) - 1 .. Today(clock) + 3
           instants == {gate_target_utc(date, p.lead) : date \in dates, p \in Profiles}
           passed == {i \in instants : i <= clock}
           latest == latest_due_gate_instant(Profiles, clock)
<1> SUFFICES ASSUME clock \in Nat, Profiles # {}
             PROVE  /\ latest <= clock
                    /\ \A p \in Profiles, date \in NearDates :
                         ~(/\ latest < gate_target_utc(date, p.lead)
                           /\ gate_target_utc(date, p.lead) <= clock)
  BY DEF LatestIsLatest
<1>1. Today(clock) \in Int /\ clock \in Int
  BY DivDay DEF Today
<1>2. instants \subseteq Int
  <2>1. \A date \in dates : date \in Int  BY <1>1
  <2> QED BY <2>1, GateInstants
<1>3. \A p \in Profiles : gate_target_utc(Today(clock) - 1, p.lead) \in passed
  <2>1. Today(clock) - 1 \in dates /\ Today(clock) - 1 \in Int  BY <1>1
  <2> QED BY <2>1, PassedGates
<1>4. passed # {} /\ passed \subseteq Int /\ \A x \in passed : x <= clock
  BY <1>2, <1>3
<1>5. latest = Max(passed)
  BY <1>4 DEF latest_due_gate_instant, ACTIVE_SWEEP_LOOKBACK_DAYS, ACTIVE_SWEEP_LOOKAHEAD_DAYS
<1> HIDE DEF passed, latest
<1>6. latest \in passed /\ \A x \in passed : x <= latest
  BY <1>1, <1>4, <1>5, MaxOfBounded
<1>7. latest \in Int /\ latest <= clock
  BY <1>4, <1>6
<1>8. ASSUME NEW p \in Profiles, NEW date \in NearDates,
             gate_target_utc(date, p.lead) <= clock
      PROVE  gate_target_utc(date, p.lead) <= latest
  <2>1. date \in Int
    <3>1. Dawn \in Int /\ Horizon \in Int  BY ScheduleAssumption
    <3>2. Today(Dawn) \in Int /\ Today(Horizon) \in Int  BY <3>1, DivDay DEF Today
    <3> QED BY <3>2 DEF NearDates
  <2>2. /\ gate_target_utc(date, p.lead) \in Int
        /\ gate_target_utc(Today(clock) - 1, p.lead) \in Int
    <3>1. Today(clock) - 1 \in Int  BY <1>1
    <3> QED BY <2>1, <3>1, GateInstants
  <2>3. date <= Today(clock) + 3  BY <1>8, <2>1, PassedGates
  <2>4. CASE date < Today(clock) - 1
    <3>1. gate_target_utc(date, p.lead) <= gate_target_utc(Today(clock) - 1, p.lead)
      BY <2>1, <2>4, PassedGates
    <3>2. gate_target_utc(Today(clock) - 1, p.lead) <= latest  BY <1>3, <1>6
    <3> QED BY <1>7, <2>2, <3>1, <3>2
  <2>5. CASE ~(date < Today(clock) - 1)
    <3>1. date \in dates  BY <1>1, <2>1, <2>3, <2>5
    <3>2. gate_target_utc(date, p.lead) \in passed  BY <1>8, <3>1 DEF passed
    <3> QED BY <1>6, <3>2
  <2> QED BY <2>4, <2>5
<1>9. \A p \in Profiles, date \in NearDates :
        gate_target_utc(date, p.lead) <= clock => ~(latest < gate_target_utc(date, p.lead))
  <2> SUFFICES ASSUME NEW p \in Profiles, NEW date \in NearDates,
                      gate_target_utc(date, p.lead) <= clock
               PROVE  ~(latest < gate_target_utc(date, p.lead))
    OBVIOUS
  <2>1. date \in Int
    <3>1. Dawn \in Int /\ Horizon \in Int  BY ScheduleAssumption
    <3>2. Today(Dawn) \in Int /\ Today(Horizon) \in Int  BY <3>1, DivDay DEF Today
    <3> QED BY <3>2 DEF NearDates
  <2>2. gate_target_utc(date, p.lead) \in Int  BY <2>1, GateInstants
  <2> QED BY <1>7, <1>8, <2>2
<1> QED BY <1>7, <1>9

-----------------------------------------------------------------------------

\* The clock is a natural number, whatever the loops do.
LEMMA ClockAlways == Spec => [](clock \in Nat)
<1>1. Init => clock \in Nat
  BY ScheduleAssumption DEF Init
<1>2. clock \in Nat /\ [Next]_vars => (clock \in Nat)'
  <2>1. Start \/ BeginTick \/ LookAtUnits \/ TickFails \/ UNCHANGED vars => clock' = clock
    BY DEF vars, Start, BeginTick, LookAtUnits, TickFails
  <2>2. BotSleeps \/ NodeTickEnds \/ Reconciled \/ Crash => clock' = clock
    BY DEF BotSleeps, NodeTickEnds, Reconciled, Crash
  <2>3. TimePasses => clock' = clock + 1
    BY DEF TimePasses
  <2> QED BY <2>1, <2>2, <2>3 DEF Next
<1> QED BY <1>1, <1>2, PTL DEF Spec

\* For every length of an hour, any number of cities, gates, tolerances and
\* retry windows, at every instant of the loops: the dates that
\* settlement_dates_for_profile and _retry_units scan miss no open gate and no
\* retry window.
THEOREM UnitsCoverGatesHolds == Spec => []UnitsCoverGates
BY ClockAlways, GatesCovered, PTL

\* For the same constants: the five dates that latest_due_gate_instant looks
\* at always include one with a passed gate, and no gate of another date has
\* passed since the one it returns.
THEOREM LatestIsLatestHolds == Spec => []LatestIsLatest
BY ClockAlways, LatestFound, PTL

-----------------------------------------------------------------------------

\* A set of integers none of which is below a bound has a minimum.
LEMMA MinOfBounded ==
  ASSUME NEW S, S \subseteq Int, S # {}, NEW n \in Int, \A x \in S : n <= x
  PROVE  Min(S) \in S /\ \A x \in S : Min(S) <= x
<1> DEFINE above == {x - n : x \in S}
<1>1. above \subseteq Nat /\ above # {}
  <2>1. \A x \in S : x \in Int /\ x - n \in Nat  OBVIOUS
  <2> QED BY <2>1
<1>2. PICK d \in above : \A e \in above : ~(<<e, d>> \in OpToRel(<, Nat))
  BY <1>1, NatLessThanWellFounded, WFMin
<1>3. \A e \in above : ~(e < d)
  BY <1>1, <1>2 DEF OpToRel
<1>4. PICK m \in S : d = m - n  OBVIOUS
<1>5. ASSUME NEW x \in S
      PROVE  m <= x
  <2>1. ~(x - n < m - n)  BY <1>3, <1>4
  <2>2. x \in Int /\ m \in Int  OBVIOUS
  <2> QED BY <2>1, <2>2
<1>6. Min(S) \in S /\ \A x \in S : Min(S) <= x
  BY <1>4, <1>5 DEF Min
<1> QED BY <1>6

\* A gate closes before the end of its date, so that the lead of the date is
\* the time left whenever the gate is open or ahead.
LEMMA GateTimes ==
  ASSUME NEW p \in Profiles, NEW date \in Int
  PROVE  /\ p.tol \in 0 .. Day /\ p.lead \in Nat
         /\ gate_target_utc(date, p.lead) \in Int
         /\ gate_target_utc(date, p.lead) = Day * date + Day - p.lead
         /\ Opens(p, date) = gate_target_utc(date, p.lead) - p.tol
         /\ Closes(p, date) = gate_target_utc(date, p.lead) + p.tol
         /\ Closes(p, date) < Day * date + Day
         /\ Day * date \in Int
         /\ \A now \in Int : now <= Closes(p, date) =>
              lead_hours_to_end_of_target_day(date, now) = Day * date + Day - now
<1>1. p.tol \in 0 .. Day /\ p.lead \in p.tol + 1 .. 3 * Day /\ p.lead \in Nat
  BY GatesAssumption, DayType
<1>2. /\ gate_target_utc(date, p.lead) \in Int
      /\ gate_target_utc(date, p.lead) = Day * date + Day - p.lead
  BY GateInstants
<1>3. Day * date \in Int /\ Day \in Nat  BY DaySums, DayType
<1>4. (date + 1) * Day = Day * date + Day
  <2>1. date + 1 \in Int /\ 1 \in Int  OBVIOUS
  <2>2. (date + 1) * Day = Day * (date + 1)  BY <2>1, DaySums
  <2>3. Day * (date + 1) = Day * date + Day * 1  BY <2>1, DaySums
  <2>4. Day * 1 = Day  BY DayType
  <2> QED BY <2>2, <2>3, <2>4
<1>5. Closes(p, date) < Day * date + Day /\ Closes(p, date) \in Int
  <2> HIDE DEF Day
  <2> QED BY <1>1, <1>2, <1>3 DEF Closes
<1>6. ASSUME NEW now \in Int, now <= Closes(p, date)
      PROVE  lead_hours_to_end_of_target_day(date, now) = Day * date + Day - now
  <2>1. now < Day * date + Day
    <3> HIDE DEF Day
    <3> QED BY <1>3, <1>5, <1>6
  <2>2. lead_hours_to_end_of_target_day(date, now) = (date + 1) * Day - now
    BY <1>4, <2>1 DEF lead_hours_to_end_of_target_day
  <2> DEFINE midnight == (date + 1) * Day
  <2>3. midnight = Day * date + Day  BY <1>4
  <2>4. lead_hours_to_end_of_target_day(date, now) = midnight - now  BY <2>2
  <2> HIDE DEF midnight
  <2> QED BY <2>3, <2>4, <1>3
<1> QED BY <1>1, <1>2, <1>3, <1>5, <1>6 DEF Opens, Closes

\* While a gate is open its unit is among those a tick looks at.
LEMMA OpenGateIsUnit ==
  ASSUME NEW p \in Profiles, NEW date \in Int,
         NEW now \in Nat, now \in Opens(p, date) .. Closes(p, date)
  PROVE  Unit(p, date) \in UnitsAtGate(now)
<1> DEFINE lead == lead_hours_to_end_of_target_day(date, now)
<1>1. lead_hours_at_target(lead, p)
  <2>1. lead = Day * date + Day - now /\ Day * date \in Int /\ Day \in Nat
    BY GateTimes, DayType
  <2>2. /\ p.tol \in Int /\ p.lead \in Int /\ gate_target_utc(date, p.lead) \in Int
        /\ gate_target_utc(date, p.lead) = Day * date + Day - p.lead
        /\ Opens(p, date) = gate_target_utc(date, p.lead) - p.tol
        /\ Closes(p, date) = gate_target_utc(date, p.lead) + p.tol
    <3>1. \A x \in 0 .. Day : x \in Int  OBVIOUS
    <3> QED BY <3>1, GateTimes
  <2> HIDE DEF lead
  <2> QED BY <2>1, <2>2 DEF lead_hours_at_target
<1>2. date \in settlement_dates_for_profile(p, now)
  BY <1>1, OpenGateIsScanned
<1>3. Unit(p, date) \in UnitsAt(now)
  <2>1. Unit(p, date) \in work_units_for_profiles(Profiles, now)
    BY <1>2 DEF work_units_for_profiles, Unit
  <2> QED BY <2>1 DEF UnitsAt
<1> QED BY <1>1, <1>2, <1>3 DEF UnitsAtGate, Unit

LEMMA SettlementDates ==
  ASSUME NEW p \in Profiles, NEW now \in Nat
  PROVE  /\ Today(now) \in Int /\ settlement_date_span_days(p.lead) \in Nat
         /\ settlement_dates_for_profile(p, now) \subseteq Int
<1>1. p.lead \in Nat /\ p.target_day \in {"today", "tomorrow", "both"}
  BY GatesAssumption, DayType
<1>2. Today(now) \in Int /\ settlement_date_span_days(p.lead) \in Nat
  BY <1>1, SpanCoversLead, DivDay DEF Today
<1>3. TargetDayOffsets(p) \subseteq {0, 1}
  BY <1>1 DEF TargetDayOffsets
<1> QED BY <1>2, <1>3 DEF settlement_dates_for_profile

\* The first gate ahead and not yet open, when there is one, is ahead.
LEMMA NextGateIsAhead ==
  ASSUME NEW now \in Nat
  PROVE  LET gate == next_gate_wake_utc(Profiles, now)
         IN  gate \in Int /\ (gate # None => now < gate)
<1> DEFINE NotYetOpen(p) ==
             {date \in settlement_dates_for_profile(p, now) :
                LET lead == lead_hours_to_end_of_target_day(date, now)
                IN  ~lead_hours_at_target(lead, p) /\ ~lead_hours_missed_target(lead, p)}
           gates == UNION {{gate_target_utc(date, p.lead) : date \in NotYetOpen(p)} :
                             p \in Profiles}
           wakes == {w \in gates : now < w}
<1>1. next_gate_wake_utc(Profiles, now) = IF wakes = {} THEN None ELSE Min(wakes)
  BY DEF next_gate_wake_utc
<1>2. gates \subseteq Int
  BY SettlementDates, GateInstants
<1>3. wakes \subseteq gates /\ \A x \in wakes : now < x  OBVIOUS
<1> HIDE DEF gates, wakes
<1>4. wakes \subseteq Int /\ now \in Int  BY <1>2, <1>3
<1>5. CASE wakes = {}
  BY <1>1, <1>5 DEF None
<1>6. CASE wakes # {}
  <2>1. \A x \in wakes : now <= x  BY <1>3, <1>4
  <2>2. Min(wakes) \in wakes
    BY <1>4, <1>6, <2>1, MinOfBounded
  <2> QED BY <1>1, <1>3, <1>4, <1>6, <2>2
<1> QED BY <1>5, <1>6

\* ... and no later than any gate that is not open yet: some date of the same
\* profile that is scanned has a gate as early.
THEOREM NextGateInTime ==
  ASSUME NEW p \in Profiles, NEW date \in Int, NEW now \in Nat,
         now < Opens(p, date)
  PROVE  LET gate == next_gate_wake_utc(Profiles, now)
         IN  gate \in Int /\ now < gate /\ gate <= gate_target_utc(date, p.lead)
<1> DEFINE Ahead == {d \in Int : now < Opens(p, d)}
           m == Min(Ahead)
           span == settlement_date_span_days(p.lead)
           today == Today(now)
           lead == lead_hours_to_end_of_target_day(m, now)
<1>0. /\ p.tol \in 0 .. Day /\ p.lead \in Nat /\ p.lead >= 1 /\ Day \in Nat \ {0}
      /\ p.tol \in Nat /\ now \in Int
  <2>1. Day \in Nat \ {0} /\ \A x \in 0 .. Day : x \in Nat  BY DayType
  <2>2. p.tol \in 0 .. Day /\ p.lead \in Nat  BY GateTimes
  <2>3. p.lead >= 1  BY <2>2, GateInstants
  <2> QED BY <2>1, <2>2, <2>3
<1>1. \A d \in Int : /\ Opens(p, d) \in Int /\ Day * d \in Int
                     /\ Opens(p, d) = Day * d + Day - p.lead - p.tol
  <2> SUFFICES ASSUME NEW d \in Int
               PROVE  /\ Opens(p, d) \in Int /\ Day * d \in Int
                      /\ Opens(p, d) = Day * d + Day - p.lead - p.tol
    OBVIOUS
  <2>1. /\ gate_target_utc(d, p.lead) = Day * d + Day - p.lead /\ Day * d \in Int
        /\ Opens(p, d) = gate_target_utc(d, p.lead) - p.tol
    BY GateTimes
  <2> QED BY <1>0, <2>1
<1>2. \A d \in Ahead : 0 <= d
  <2> SUFFICES ASSUME NEW d \in Int, now < Opens(p, d) PROVE 0 <= d
    OBVIOUS
  <2>1. /\ Day * (d + 1) = Day * d + Day * 1 /\ Day * 1 = Day /\ Day * 0 = 0
        /\ Day * (d + 1) \in Int
    BY DaySums, DayType
  <2>4. /\ Opens(p, d) \in Int /\ Day * d \in Int
        /\ Opens(p, d) = Day * d + Day - p.lead - p.tol
    BY <1>1
  <2>2. Day * 0 < Day * (d + 1)
    <3> DEFINE x == Day * d  y == Day * (d + 1)  z == Day * 0
    <3>1. x \in Int /\ y = x + Day /\ z = 0 /\ y \in Int  BY <2>1, <2>4
    <3>2. now < x + Day - p.lead - p.tol  BY <2>4
    <3> HIDE DEF x, y, z
    <3>3. z < y  BY <3>1, <3>2, <1>0
    <3> QED BY <3>3 DEF y, z
  <2>3. 0 < d + 1  BY <2>2, DayOrder
  <2> QED BY <2>3
<1>3. /\ m \in Int /\ now < Opens(p, m) /\ m <= date
      /\ \A d \in Int : now < Opens(p, d) => m <= d
  <2>1. date \in Ahead /\ Ahead \subseteq Int  OBVIOUS
  <2> HIDE DEF Ahead
  <2>3. Ahead # {} /\ 0 \in Int  BY <2>1
  <2>2. m \in Ahead /\ \A d \in Ahead : m <= d  BY <1>2, <2>1, <2>3, MinOfBounded
  <2> QED BY <2>1, <2>2 DEF Ahead
<1> HIDE DEF m
<1>4. Opens(p, m) <= now + Day
  <2>1. m - 1 \in Int /\ ~(now < Opens(p, m - 1))  BY <1>3
  <2>2. Day * m = Day * (m - 1) + Day * 1 /\ Day * 1 = Day
    <3>1. (m - 1) + 1 = m /\ m - 1 \in Int /\ 1 \in Int  BY <1>3
    <3>2. Day * ((m - 1) + 1) = Day * (m - 1) + Day * 1  BY <3>1, DaySums
    <3> QED BY <3>1, <3>2, DayType
  <2> QED BY <1>0, <1>1, <1>3, <2>1, <2>2
<1>5. /\ today \in Int /\ Day * today \in Int /\ Day * today <= now
      /\ now < Day * today + Day
  BY DivDay DEF Today
<1>6. /\ span \in Nat /\ Day * span \in Int /\ Hour \in Nat /\ Hour + 1 <= Day
      /\ p.lead + Day < Day * span + Hour + 1
  <2>1. Hour \in Nat /\ Hour + 1 <= Day  BY HourAssumption DEF Day
  <2>2. span \in Nat  BY <1>0, SpanCoversLead
  <2> QED BY <1>0, <2>1, <2>2, SpanCoversLead, DaySums
<1> HIDE DEF today, span
<1>7. m \in today - 1 .. today + span + 1
  <2>1. /\ Day * (m + 1) = Day * m + Day * 1 /\ Day * 1 = Day /\ Day * (m + 1) \in Int
        /\ Day * (today + (span + 3)) = Day * today + (Day * span + Day * 3)
        /\ Day * 3 = Day + Day + Day /\ Day * (today + (span + 3)) \in Int
    <3>1. /\ m \in Int /\ 1 \in Int /\ today \in Int /\ span \in Int /\ 3 \in Int
          /\ span + 3 \in Int /\ m + 1 \in Int /\ today + (span + 3) \in Int
      BY <1>3, <1>5, <1>6
    <3>2. Day * (m + 1) = Day * m + Day * 1 /\ Day * (m + 1) \in Int  BY <3>1, DaySums
    <3>3. /\ Day * (today + (span + 3)) = Day * today + Day * (span + 3)
          /\ Day * (today + (span + 3)) \in Int
      BY <3>1, DaySums
    <3>4. Day * (span + 3) = Day * span + Day * 3  BY <3>1, DaySums
    <3>5. Day * 3 = Day + Day + Day /\ Day * 1 = Day  BY DayType
    <3> QED BY <3>2, <3>3, <3>4, <3>5
  <2> DEFINE x == Day * m  y == Day * (m + 1)  t == Day * today
             s == Day * span  z == Day * (today + (span + 3))
  <2>5. /\ x \in Int /\ y \in Int /\ t \in Int /\ s \in Int /\ z \in Int
        /\ y = x + Day /\ z = t + (s + (Day + Day + Day))
    BY <1>1, <1>3, <1>5, <1>6, <2>1
  <2>6. /\ Opens(p, m) = x + Day - p.lead - p.tol /\ Opens(p, m) \in Int
        /\ t <= now /\ now < t + Day /\ p.lead + Day < s + Hour + 1
    BY <1>1, <1>3, <1>5, <1>6
  <2> HIDE DEF x, y, t, s, z
  <2>7. t < y  BY <1>0, <1>3, <2>5, <2>6
  <2>8. p.tol <= Day  BY <1>0
  <2>9. y < z
    BY <1>0, <1>4, <1>6, <2>5, <2>6, <2>8
  <2>2. Day * today < Day * (m + 1)  BY <2>7 DEF t, y
  <2>3. Day * (m + 1) < Day * (today + (span + 3))  BY <2>9 DEF y, z
  <2>4. today < m + 1 /\ m + 1 < today + (span + 3)
    BY <1>3, <1>5, <1>6, <2>2, <2>3, DayOrder
  <2> QED BY <1>3, <1>5, <1>6, <2>4
<1>8. /\ gate_target_utc(m, p.lead) \in Int /\ now < gate_target_utc(m, p.lead)
      /\ lead = Day * m + Day - now /\ lead \in Int
      /\ lead_hours_before_target(lead, p)
  <2>1. /\ gate_target_utc(m, p.lead) \in Int
        /\ Opens(p, m) = gate_target_utc(m, p.lead) - p.tol
        /\ Closes(p, m) = gate_target_utc(m, p.lead) + p.tol
        /\ now <= Closes(p, m) => lead = Day * m + Day - now
    BY <1>0, <1>3, GateTimes
  <2> HIDE DEF lead
  <2>2. now < gate_target_utc(m, p.lead) /\ now <= Closes(p, m)
    BY <1>0, <1>3, <2>1
  <2>3. lead = Day * m + Day - now /\ lead \in Int
    BY <1>0, <1>1, <1>3, <2>1, <2>2
  <2>4. p.lead + p.tol < lead
    BY <1>0, <1>1, <1>3, <2>3
  <2> QED BY <2>1, <2>2, <2>3, <2>4 DEF lead_hours_before_target
<1>9. /\ m \in settlement_dates_for_profile(p, now)
      /\ ~lead_hours_at_target(lead, p) /\ ~lead_hours_missed_target(lead, p)
  <2>1. m \in settlement_dates_for_profile(p, now)
    BY <1>7, <1>8 DEF settlement_dates_for_profile, today, span
  <2> HIDE DEF lead
  <2> QED
    BY <2>1, <1>0, <1>8
    DEF lead_hours_at_target, lead_hours_before_target, lead_hours_missed_target
<1> DEFINE NotYetOpen(q) ==
             {d \in settlement_dates_for_profile(q, now) :
                LET l == lead_hours_to_end_of_target_day(d, now)
                IN  ~lead_hours_at_target(l, q) /\ ~lead_hours_missed_target(l, q)}
           gates == UNION {{gate_target_utc(d, q.lead) : d \in NotYetOpen(q)} : q \in Profiles}
           wakes == {w \in gates : now < w}
<1>10. next_gate_wake_utc(Profiles, now) = IF wakes = {} THEN None ELSE Min(wakes)
  BY DEF next_gate_wake_utc
<1>11. gates \subseteq Int
  BY SettlementDates, GateInstants
<1>12. gate_target_utc(m, p.lead) \in gates
  BY <1>9
<1>13. wakes \subseteq gates /\ \A x \in gates : x \in wakes <=> now < x  OBVIOUS
<1> HIDE DEF gates, wakes
<1>14. wakes \subseteq Int /\ gate_target_utc(m, p.lead) \in wakes
  BY <1>8, <1>11, <1>12, <1>13
<1>15. \A x \in wakes : now <= x
  <2> SUFFICES ASSUME NEW x \in wakes PROVE now <= x  OBVIOUS
  <2>1. x \in Int /\ now < x  BY <1>13, <1>14
  <2> QED BY <2>1
<1>16. Min(wakes) \in wakes /\ Min(wakes) <= gate_target_utc(m, p.lead)
  BY <1>0, <1>14, <1>15, MinOfBounded
<1>17. gate_target_utc(m, p.lead) <= gate_target_utc(date, p.lead)
  <2>1. Day * m <= Day * date
    <3> SUFFICES ASSUME Day * date < Day * m PROVE FALSE  BY <1>1, <1>3
    <3>1. date < m  BY <1>3, DayOrder
    <3> QED BY <1>3, <3>1
  <2>2. /\ gate_target_utc(m, p.lead) = Day * m + Day - p.lead
        /\ gate_target_utc(date, p.lead) = Day * date + Day - p.lead
    BY <1>3, GateInstants
  <2> DEFINE x == Day * m  y == Day * date
  <2>3. /\ x \in Int /\ y \in Int /\ x <= y
        /\ gate_target_utc(m, p.lead) = x + Day - p.lead
        /\ gate_target_utc(date, p.lead) = y + Day - p.lead
    BY <1>1, <1>3, <2>1, <2>2
  <2> HIDE DEF x, y
  <2> QED BY <1>0, <2>3
<1>18. gate_target_utc(date, p.lead) \in Int  BY GateInstants
<1>19. next_gate_wake_utc(Profiles, now) = Min(wakes)  BY <1>10, <1>14
<1>20. Min(wakes) \in Int /\ now < Min(wakes)  BY <1>13, <1>14, <1>16
<1>21. Min(wakes) <= gate_target_utc(date, p.lead)
  BY <1>8, <1>16, <1>17, <1>18, <1>20
<1> QED BY <1>19, <1>20, <1>21

-----------------------------------------------------------------------------

(***************************************************************************)
(* The thread and its ticks.                                               *)
(***************************************************************************)
Sane ==
  /\ clock \in Dawn .. Horizon /\ starts \in 0 .. MaxStarts /\ who \in {"bot", "node"}
  /\ pc \in {"down", "asleep", "tick", "end", "reconcile"}
  /\ wake \in {None} \union Dawn .. Horizon + Sweep
  /\ born \in {None} \union Dawn .. clock
  /\ pc = "reconcile" => who = "node"

\* The tick under way: from its first reading of the clock to its sleep.
TickUnderWay ==
  /\ DOMAIN tick = DOMAIN NoTick
  /\ pc \in {"down", "asleep"} => tick = NoTick
  /\ pc \in {"tick", "end"} => tick # NoTick /\ tick.to = None
  /\ pc = "reconcile" /\ born # None => tick # NoTick
  /\ pc = "reconcile" /\ tick # NoTick => tick.to \in tick.from .. clock
  /\ tick # NoTick => tick.from \in Dawn .. clock /\ tick.free = None
  /\ pc = "tick" => ~tick.raised
  /\ tick.looked \intersect tick.failed = {}

\* What it looked at is what was at its gate when it began.
TickLooked ==
  tick # NoTick /\ pc # "tick" /\ ~tick.raised =>
    tick.looked = UnitsAtGate(tick.from) \ tick.failed

\* The wake time the node has computed before it reconciles.
NodeWake ==
  pc = "reconcile" /\ tick # NoTick =>
    /\ wake \in Int /\ wake <= tick.to + Sweep
    /\ ~tick.raised =>
         LET gate == next_gate_wake_utc(Profiles, tick.from)
         IN  tick.to < gate => wake <= gate

TicksDone ==
  /\ pc = "down" => born = None
  /\ born = None => tick = NoTick /\ ticks = {}
  /\ \A t \in ticks : /\ t.from \in Dawn .. clock /\ t.to \in t.from .. clock
                      /\ t.free \in t.to .. clock
                      /\ t.looked \intersect t.failed = {}

LoopInv == Sane /\ TickUnderWay /\ TickLooked /\ NodeWake /\ TicksDone

LEMMA Bounds ==
  /\ Dawn \in Nat /\ Horizon \in Nat /\ Dawn <= Horizon /\ MaxStarts \in Nat
  /\ Sweep \in Nat \ {0} /\ Retry \in Nat \ {0} /\ Poll \in Nat \ {0}
  /\ None = -1
  BY ScheduleAssumption DEF None

LEMMA NoTickFields ==
  /\ NoTick.from = None /\ NoTick.to = None /\ NoTick.free = None
  /\ NoTick.looked = {} /\ NoTick.failed = {} /\ ~NoTick.raised
  /\ DOMAIN NoTick = {"from", "to", "free", "looked", "failed", "raised"}
  BY DEF NoTick

\* What is at a gate depends on the program that runs and the time alone.
LEMMA SameUnits ==
  ASSUME who' = who, tick'.from = tick.from
  PROVE  UnitsAtGate(tick.from)' = UnitsAtGate(tick.from)
  BY DEF UnitsAtGate, UnitsAt

LEMMA InitLoopInv == Init => LoopInv
<1> SUFFICES ASSUME Init PROVE LoopInv  OBVIOUS
<1> USE DEF Init
<1>1. Sane  BY Bounds DEF Sane
<1>2. TickUnderWay  BY NoTickFields DEF TickUnderWay
<1> QED BY <1>1, <1>2 DEF LoopInv, TickLooked, NodeWake, TicksDone

\* A sleeping bot is woken after the clock and before the next sweep, by the
\* first gate ahead, and by what the tick's result asks for.
LEMMA BotWakesInTime ==
  ASSUME clock \in Nat, NEW fast_poll \in BOOLEAN,
         tick.from \in Nat
  PROVE  LET at == Min(BotWakes(fast_poll))
             gate == next_gate_wake_utc(Profiles, clock)
         IN  /\ at \in Int /\ clock < at /\ at <= clock + Sweep
             /\ clock < gate => at <= gate
             /\ ~tick.raised /\ tick.failed # {} /\ clock < tick.from + Retry =>
                  at <= tick.from + Retry
<1> DEFINE gate == next_gate_wake_utc(Profiles, clock)
           sweep == clock + Sweep
           due == {w \in {sweep, gate} : clock < w}
           first == Min(due)
           retry == {at \in IF ~tick.raised /\ tick.failed # {} THEN {tick.from + Retry} ELSE {} :
                       clock < at}
           poll == {at \in IF ~tick.raised /\ fast_poll THEN {tick.from + Poll} ELSE {} :
                      clock < at}
           all == BotWakes(fast_poll)
<1>1. gate \in Int /\ sweep \in Int /\ clock < sweep
  BY NextGateIsAhead, Bounds
<1> HIDE DEF gate
<1>2. due \subseteq Int /\ sweep \in due /\ (clock < gate => gate \in due)
      /\ \A x \in due : clock <= x /\ clock < x
  BY <1>1
<1>3. first \in due /\ \A x \in due : first <= x
  <2> HIDE DEF due
  <2>1. due # {} /\ clock \in Int  BY <1>2
  <2> QED BY <1>2, <2>1, MinOfBounded
<1>4. all = {first} \union retry \union poll
  BY DEF BotWakes, compute_next_wake, gate
<1> HIDE DEF due, first
<1>5. first \in Int /\ clock < first /\ first <= sweep /\ (clock < gate => first <= gate)
  BY <1>1, <1>2, <1>3
<1>6. retry \subseteq Int /\ poll \subseteq Int /\ \A x \in retry \union poll : clock < x
  BY Bounds
<1>7. ~tick.raised /\ tick.failed # {} /\ clock < tick.from + Retry => tick.from + Retry \in retry
  OBVIOUS
<1> HIDE DEF retry, poll, all
<1>8. all \subseteq Int /\ first \in all /\ \A x \in all : x \in Int /\ clock < x
  BY <1>4, <1>5, <1>6
<1>9. \A x \in all : clock <= x  BY <1>8
<1>10. Min(all) \in all /\ \A x \in all : Min(all) <= x
  <2>1. all # {} /\ clock \in Int  BY <1>8
  <2> QED BY <1>8, <1>9, <2>1, MinOfBounded
<1>11. Min(all) \in Int /\ clock < Min(all) /\ Min(all) <= first  BY <1>8, <1>10
<1>12. Min(all) <= sweep /\ (clock < gate => Min(all) <= gate)
  BY <1>1, <1>5, <1>11
<1>13. ASSUME ~tick.raised, tick.failed # {}, clock < tick.from + Retry
       PROVE  Min(all) <= tick.from + Retry
  BY <1>4, <1>7, <1>10, <1>13
<1> QED BY <1>11, <1>12, <1>13 DEF gate, all

\* The node's wake time likewise; the gate it knows of is the one ahead of the
\* beginning of its tick.
LEMMA NodeWakesInTime ==
  ASSUME clock \in Nat, tick.from \in Nat
  PROVE  LET gate == next_gate_wake_utc(Profiles, tick.from)
             at == Min({clock + Sweep} \union
                       {w \in IF tick.raised THEN {} ELSE {gate} : clock < w})
         IN  /\ at \in Int /\ clock < at /\ at <= clock + Sweep
             /\ ~tick.raised /\ clock < gate => at <= gate
<1> DEFINE gate == next_gate_wake_utc(Profiles, tick.from)
           sweep == clock + Sweep
           ahead == {w \in IF tick.raised THEN {} ELSE {gate} : clock < w}
           all == {sweep} \union ahead
<1>1. gate \in Int /\ sweep \in Int /\ clock < sweep
  BY NextGateIsAhead, Bounds
<1> HIDE DEF gate
<1>2. all \subseteq Int /\ sweep \in all /\ (~tick.raised /\ clock < gate => gate \in all)
      /\ \A x \in all : clock < x
  BY <1>1
<1> HIDE DEF all
<1>3. \A x \in all : clock <= x  BY <1>2
<1>4. Min(all) \in all /\ \A x \in all : Min(all) <= x
  <2>1. all # {} /\ clock \in Int  BY <1>2
  <2> QED BY <1>2, <1>3, <2>1, MinOfBounded
<1>5. Min(all) \in Int /\ clock < Min(all) /\ Min(all) <= sweep
      /\ (~tick.raised /\ clock < gate => Min(all) <= gate)
  BY <1>1, <1>2, <1>4
<1> QED BY <1>5 DEF gate, all

LEMMA NextLoopInv == LoopInv /\ [Next]_vars => LoopInv'
<1> SUFFICES ASSUME LoopInv, [Next]_vars PROVE LoopInv'
  OBVIOUS
<1>0. /\ clock \in Nat /\ clock \in Int /\ Dawn <= clock /\ clock <= Horizon
      /\ DOMAIN tick = DOMAIN NoTick
  BY Bounds DEF LoopInv, Sane, TickUnderWay
<1>1. CASE Start
  <2>1. /\ pc = "down" /\ pc' \in {"asleep", "reconcile"} /\ (pc' = "reconcile" => who' = "node")
        /\ starts' \in 0 .. MaxStarts /\ wake' = clock /\ born' = None /\ ticks' = {}
        /\ clock' = clock /\ who' = who /\ tick' = tick /\ tick = NoTick
    <3>1. who = "bot" \/ who = "node"
      BY <1>1 DEF Start, LoopInv, Sane
    <3> QED BY <1>1, <3>1, Bounds DEF Start, LoopInv, Sane, TickUnderWay
  <2>2. Sane'  BY <2>1, <1>0, Bounds DEF LoopInv, Sane
  <2>3. TickUnderWay'  BY <2>1, NoTickFields DEF TickUnderWay
  <2> QED BY <2>1, <2>2, <2>3 DEF LoopInv, TickLooked, NodeWake, TicksDone
<1>2. CASE BeginTick
  <2>1. /\ pc = "asleep" /\ pc' = "tick" /\ born' \in {born, clock} /\ born' # None
        /\ clock' = clock /\ who' = who /\ starts' = starts /\ wake' = wake /\ ticks' = ticks
    BY <1>0, <1>2, Bounds DEF BeginTick, LoopInv
  <2>2. /\ DOMAIN tick' = DOMAIN NoTick /\ tick'.from = clock /\ tick'.to = None
        /\ tick'.free = None /\ ~tick'.raised /\ tick'.looked = {} /\ tick'.failed = {}
        /\ tick' # NoTick
    <3>1. tick' = [NoTick EXCEPT !.from = clock]  BY <1>2 DEF BeginTick
    <3>2. tick'.from = clock  BY <3>1, NoTickFields
    <3>3. clock # None  BY <1>0, Bounds
    <3> QED BY <3>1, <3>2, <3>3, NoTickFields
  <2>3. Sane'  BY <2>1, <1>0, Bounds DEF LoopInv, Sane
  <2>4. TickUnderWay'  BY <2>1, <2>2, <1>0 DEF TickUnderWay
  <2>5. TicksDone'  BY <2>1 DEF LoopInv, TicksDone
  <2> QED BY <2>1, <2>3, <2>4, <2>5 DEF LoopInv, TickLooked, NodeWake
<1>3. CASE LookAtUnits
  <2>1. /\ pc = "tick" /\ pc' = "end" /\ UNCHANGED <<clock, who, starts, wake, born, ticks>>
    BY <1>3 DEF LookAtUnits
  <2>2. PICK failed \in SUBSET UnitsAtGate(tick.from) :
          tick' = [tick EXCEPT !.failed = failed, !.looked = UnitsAtGate(tick.from) \ failed]
    BY <1>3 DEF LookAtUnits
  <2>3. /\ DOMAIN tick' = DOMAIN NoTick /\ tick'.from = tick.from /\ tick'.to = tick.to
        /\ tick'.free = tick.free /\ tick'.raised = tick.raised
        /\ tick'.failed = failed /\ tick'.looked = UnitsAtGate(tick.from) \ failed
    BY <2>2, <1>0, NoTickFields
  <2>4. tick # NoTick /\ tick.from \in Dawn .. clock /\ tick' # NoTick
    <3>1. tick # NoTick /\ tick.from \in Dawn .. clock
      BY <2>1 DEF LoopInv, TickUnderWay
    <3> QED BY <3>1, <2>3, <1>0, Bounds, NoTickFields
  <2>5. Sane'  BY <2>1 DEF LoopInv, Sane
  <2>6. TickUnderWay'  BY <2>1, <2>3, <2>4 DEF LoopInv, TickUnderWay
  <2>7. TickLooked'
    <3>1. UnitsAtGate(tick.from)' = UnitsAtGate(tick.from)  BY <2>1, <2>3, SameUnits
    <3> QED BY <3>1, <2>3 DEF TickLooked
  <2>8. TicksDone'  BY <2>1, <2>4 DEF LoopInv, TicksDone
  <2> QED BY <2>1, <2>5, <2>6, <2>7, <2>8 DEF LoopInv, NodeWake
<1>4. CASE TickFails
  <2>1. /\ pc \in {"tick", "end"} /\ pc' = "end"
        /\ UNCHANGED <<clock, who, starts, wake, born, ticks>>
        /\ tick' = [tick EXCEPT !.raised = TRUE]
    BY <1>4 DEF TickFails
  <2>3. /\ DOMAIN tick' = DOMAIN NoTick /\ tick'.from = tick.from /\ tick'.to = tick.to
        /\ tick'.free = tick.free /\ tick'.raised
        /\ tick'.failed = tick.failed /\ tick'.looked = tick.looked
    BY <2>1, <1>0, NoTickFields
  <2>4. tick # NoTick /\ tick.from \in Dawn .. clock /\ tick' # NoTick
    <3>1. tick # NoTick /\ tick.from \in Dawn .. clock
      BY <2>1 DEF LoopInv, TickUnderWay
    <3> QED BY <3>1, <2>3, NoTickFields
  <2>5. Sane'  BY <2>1 DEF LoopInv, Sane
  <2>6. TickUnderWay'  BY <2>1, <2>3, <2>4 DEF LoopInv, TickUnderWay
  <2>8. TicksDone'  BY <2>1, <2>4 DEF LoopInv, TicksDone
  <2> QED BY <2>1, <2>3, <2>5, <2>6, <2>8 DEF LoopInv, TickLooked, NodeWake
<1>5. ASSUME NEW to, to \in tick.from .. clock, tick # NoTick,
             ticks' = ticks \union {[tick EXCEPT !.to = to, !.free = clock]},
             tick' = NoTick, pc' = "asleep", UNCHANGED <<clock, who, starts, born>>,
             wake' \in Dawn .. Horizon + Sweep
      PROVE  LoopInv'
  <2> DEFINE t == [tick EXCEPT !.to = to, !.free = clock]
  <2>1. /\ t.from = tick.from /\ t.to = to /\ t.free = clock
        /\ t.looked = tick.looked /\ t.failed = tick.failed
    BY <1>0, NoTickFields
  <2> HIDE DEF t
  <2>2. Sane'  BY <1>5 DEF LoopInv, Sane
  <2>3. TickUnderWay'  BY <1>5, NoTickFields DEF TickUnderWay
  <2>4. tick.from \in Dawn .. clock /\ tick.looked \intersect tick.failed = {}
    BY <1>5 DEF LoopInv, TickUnderWay
  <2>5. born # None  BY <1>5 DEF LoopInv, TicksDone
  <2>6. TicksDone'
    <3>1. ticks' = ticks \union {t}  BY <1>5 DEF t
    <3>2. /\ t.from \in Dawn .. clock /\ t.to \in t.from .. clock
          /\ t.free \in t.to .. clock /\ t.looked \intersect t.failed = {}
      BY <1>0, <1>5, <2>1, <2>4, Bounds
    <3> QED BY <3>1, <3>2, <1>5, <2>5 DEF LoopInv, TicksDone
  <2> QED BY <1>5, <2>2, <2>3, <2>6 DEF LoopInv, TickLooked, NodeWake
<1>6. CASE BotSleeps
  <2>1. /\ pc = "end" /\ pc' = "asleep" /\ tick' = NoTick
        /\ UNCHANGED <<clock, who, starts, born>>
        /\ ticks' = ticks \union {[tick EXCEPT !.to = clock, !.free = clock]}
    BY <1>6 DEF BotSleeps
  <2>2. tick # NoTick /\ tick.from \in Dawn .. clock /\ tick.from \in Nat
    BY <2>1, Bounds DEF LoopInv, TickUnderWay
  <2>3. PICK fast_poll \in BOOLEAN : wake' = Min(BotWakes(fast_poll))
    BY <1>6 DEF BotSleeps
  <2>4. wake' \in Int /\ clock < wake' /\ wake' <= clock + Sweep
    BY <1>0, <2>2, <2>3, BotWakesInTime
  <2>5. wake' \in Dawn .. Horizon + Sweep  BY <2>4, <1>0, Bounds
  <2>6. clock \in tick.from .. clock  BY <2>2, <1>0
  <2> QED BY <1>5, <2>1, <2>2, <2>5, <2>6
<1>7. CASE NodeTickEnds
  <2>1. /\ pc = "end" /\ UNCHANGED <<clock, who, starts, born>> /\ who = "node"
    BY <1>7 DEF NodeTickEnds
  <2>2. tick # NoTick /\ tick.from \in Dawn .. clock /\ tick.from \in Nat
    BY <2>1, Bounds DEF LoopInv, TickUnderWay
  <2> DEFINE gate == next_gate_wake_utc(Profiles, tick.from)
  <2>3. wake' = Min({clock + Sweep} \union
                    {at \in IF tick.raised THEN {} ELSE {gate} : clock < at})
    BY <1>7 DEF NodeTickEnds
  <2>4. /\ wake' \in Int /\ clock < wake' /\ wake' <= clock + Sweep
        /\ ~tick.raised /\ clock < gate => wake' <= gate
    BY <1>0, <2>2, <2>3, NodeWakesInTime
  <2> HIDE DEF gate
  <2>5. wake' \in Dawn .. Horizon + Sweep  BY <2>4, <1>0, Bounds
  <2>6. clock \in tick.from .. clock  BY <2>2, <1>0
  <2>7. CASE /\ pc' = "asleep" /\ tick' = NoTick
             /\ ticks' = ticks \union {[tick EXCEPT !.to = clock, !.free = clock]}
    BY <1>5, <2>1, <2>2, <2>5, <2>6, <2>7
  <2>8. CASE pc' = "reconcile" /\ tick' = [tick EXCEPT !.to = clock] /\ ticks' = ticks
    <3>1. /\ DOMAIN tick' = DOMAIN NoTick /\ tick'.from = tick.from /\ tick'.to = clock
          /\ tick'.free = tick.free /\ tick'.raised = tick.raised
          /\ tick'.failed = tick.failed /\ tick'.looked = tick.looked
      BY <2>8, <1>0, NoTickFields
    <3>2. tick' # NoTick  BY <2>2, <3>1, Bounds, NoTickFields
    <3>3. Sane'  BY <2>1, <2>5, <2>8 DEF LoopInv, Sane
    <3>4. TickUnderWay'  BY <2>1, <2>2, <2>6, <2>8, <3>1, <3>2 DEF LoopInv, TickUnderWay
    <3>5. TickLooked'
      <4>1. UnitsAtGate(tick.from)' = UnitsAtGate(tick.from)  BY <2>1, <3>1, SameUnits
      <4> QED BY <4>1, <2>1, <2>2, <3>1 DEF LoopInv, TickLooked
    <3>6. NodeWake'  BY <2>4, <2>1, <3>1 DEF NodeWake, gate
    <3>7. TicksDone'  BY <2>1, <2>2, <2>8 DEF LoopInv, TicksDone
    <3> QED BY <3>3, <3>4, <3>5, <3>6, <3>7 DEF LoopInv
  <2> QED BY <1>7, <2>7, <2>8 DEF NodeTickEnds
<1>8. CASE Reconciled
  <2>1. /\ pc = "reconcile" /\ pc' = "asleep" /\ tick' = NoTick
        /\ UNCHANGED <<clock, who, starts, wake, born>>
        /\ ticks' = IF tick = NoTick THEN ticks ELSE ticks \union {[tick EXCEPT !.free = clock]}
    BY <1>8 DEF Reconciled
  <2>2. CASE tick = NoTick
    <3>1. ticks' = ticks  BY <2>1, <2>2
    <3>2. Sane'  BY <2>1 DEF LoopInv, Sane
    <3>3. TickUnderWay'  BY <2>1, NoTickFields DEF TickUnderWay
    <3>4. TicksDone'  BY <2>1, <3>1 DEF LoopInv, TicksDone
    <3> QED BY <2>1, <3>2, <3>3, <3>4 DEF LoopInv, TickLooked, NodeWake
  <2>3. CASE tick # NoTick
    <3>1. tick.to \in tick.from .. clock /\ tick.from \in Dawn .. clock
          /\ wake \in Int
      BY <2>1, <2>3 DEF LoopInv, TickUnderWay, NodeWake
    <3> DEFINE t == [tick EXCEPT !.free = clock]
    <3>2. /\ t.from = tick.from /\ t.to = tick.to /\ t.free = clock
          /\ t.looked = tick.looked /\ t.failed = tick.failed
      BY <1>0, NoTickFields
    <3>3. ticks' = ticks \union {t}  BY <2>1, <2>3
    <3> HIDE DEF t
    <3>4. Sane'  BY <2>1 DEF LoopInv, Sane
    <3>5. TickUnderWay'  BY <2>1, NoTickFields DEF TickUnderWay
    <3>6. TicksDone'
      <4>1. /\ t.from \in Dawn .. clock /\ t.to \in t.from .. clock
            /\ t.free \in t.to .. clock /\ t.looked \intersect t.failed = {}
        BY <1>0, <3>1, <3>2, Bounds DEF LoopInv, TickUnderWay
      <4>2. born # None  BY <2>3 DEF LoopInv, TicksDone
      <4> QED BY <2>1, <3>3, <4>1, <4>2 DEF LoopInv, TicksDone
    <3> QED BY <2>1, <3>4, <3>5, <3>6 DEF LoopInv, TickLooked, NodeWake
  <2> QED BY <2>2, <2>3
<1>9. CASE TimePasses
  <2>1. /\ clock < Horizon /\ clock' = clock + 1 /\ ticks' \subseteq ticks
        /\ UNCHANGED <<who, starts, pc, tick, wake, born>>
    BY <1>9 DEF TimePasses
  <2>2. \A x, y \in Int : x \in y .. clock => x \in y .. clock'
    BY <2>1, <1>0
  <2>3. Sane'
    <3>1. clock' \in Dawn .. Horizon  BY <2>1, <1>0, Bounds
    <3>2. \A x \in Dawn .. clock : x \in Dawn .. clock'  BY <2>1, <1>0, Bounds
    <3> QED BY <2>1, <3>1, <3>2 DEF LoopInv, Sane
  <2>4. TickUnderWay'
    <3>1. \A x \in Dawn .. clock : x \in Dawn .. clock' /\ x \in Int
      BY <2>1, <1>0, Bounds
    <3>2. tick # NoTick => \A x \in tick.from .. clock : x \in tick.from .. clock'
      BY <2>1, <1>0, <3>1 DEF LoopInv, TickUnderWay
    <3> QED BY <2>1, <3>1, <3>2 DEF LoopInv, TickUnderWay
  <2>5. TickLooked'
    <3>1. UnitsAtGate(tick.from)' = UnitsAtGate(tick.from)  BY <2>1, SameUnits
    <3> QED BY <2>1, <3>1 DEF LoopInv, TickLooked
  <2>6. TicksDone'
    <3>1. ASSUME NEW t \in ticks
          PROVE  /\ t.from \in Dawn .. clock' /\ t.to \in t.from .. clock'
                 /\ t.free \in t.to .. clock'
      <4>1. /\ t.from \in Dawn .. clock /\ t.to \in t.from .. clock
            /\ t.free \in t.to .. clock
        BY DEF LoopInv, TicksDone
      <4>2. /\ t.from \in Int /\ t.to \in Int /\ t.free \in Int /\ t.free <= clock
            /\ Dawn <= t.from /\ t.from <= t.to /\ t.to <= t.free
        BY <4>1, <1>0, Bounds
      <4>3. t.from <= clock' /\ t.to <= clock' /\ t.free <= clock' /\ clock' \in Int
        BY <4>2, <2>1, <1>0
      <4> QED BY <4>2, <4>3, Bounds
    <3> QED BY <2>1, <3>1 DEF LoopInv, TicksDone
  <2> QED BY <2>1, <2>3, <2>4, <2>5, <2>6 DEF LoopInv, NodeWake
<1>10. CASE Crash
  <2>1. /\ pc' = "down" /\ tick' = NoTick /\ wake' = None /\ born' = None /\ ticks' = {}
        /\ UNCHANGED <<clock, who, starts>>
    BY <1>10 DEF Crash
  <2>2. Sane'  BY <2>1 DEF LoopInv, Sane
  <2>3. TickUnderWay'  BY <2>1, NoTickFields DEF TickUnderWay
  <2> QED BY <2>1, <2>2, <2>3 DEF LoopInv, TickLooked, NodeWake, TicksDone
<1>11. CASE UNCHANGED vars
  <2>1. UNCHANGED <<clock, who, starts, pc, tick, wake, born, ticks>>
    BY <1>11 DEF vars
  <2>2. TickLooked'
    <3>1. UnitsAtGate(tick.from)' = UnitsAtGate(tick.from)  BY <2>1, SameUnits
    <3> QED BY <2>1, <3>1 DEF LoopInv, TickLooked
  <2> QED BY <2>1, <2>2 DEF LoopInv, Sane, TickUnderWay, NodeWake, TicksDone
<1> QED
  BY <1>1, <1>2, <1>3, <1>4, <1>6, <1>7, <1>8, <1>9, <1>10, <1>11 DEF Next

\* The clock, the wake time and the ticks of the loops stay in range, however
\* long a tick takes and wherever it fails.
THEOREM TypeOKHolds == Spec => []TypeOK
<1>1. LoopInv => TypeOK
  <2> SUFFICES ASSUME LoopInv PROVE TypeOK  OBVIOUS
  <2>1. clock \in Int /\ Dawn \in Int  BY Bounds DEF LoopInv, Sane
  <2>2. {tick.from, tick.to, tick.free} \subseteq {None} \union Dawn .. clock
    <3>1. CASE tick = NoTick  BY <3>1, NoTickFields
    <3>2. CASE tick # NoTick
      <4>1. tick.from \in Dawn .. clock /\ tick.free = None
        BY <3>2 DEF LoopInv, TickUnderWay
      <4>2. tick.to = None \/ tick.to \in tick.from .. clock
        BY <3>2 DEF LoopInv, TickUnderWay, Sane
      <4> QED BY <2>1, <4>1, <4>2
    <3> QED BY <3>1, <3>2
  <2>3. ASSUME NEW t \in ticks
        PROVE  {t.from, t.to, t.free} \subseteq {None} \union Dawn .. clock
    <3>1. /\ t.from \in Dawn .. clock /\ t.to \in t.from .. clock /\ t.free \in t.to .. clock
      BY DEF LoopInv, TicksDone
    <3> QED BY <2>1, <3>1
  <2> QED BY <2>2, <2>3 DEF LoopInv, Sane, TickUnderWay, TicksDone, TypeOK
<1> QED BY <1>1, InitLoopInv, NextLoopInv, PTL DEF Spec

-----------------------------------------------------------------------------

(***************************************************************************)
(* A gate that a loop has been ticking since before, until it has just     *)
(* closed: it was looked at, or a tick was to blame, and that tick is not  *)
(* forgotten; or the thread sleeps and will wake in time; or it is in a    *)
(* tick that began in time.                                                *)
(***************************************************************************)
SettlesAs(program, t, p, date) ==
  \/ t.from \in Opens(p, date) .. Closes(p, date) /\ Unit(p, date) \in t.looked
  \/ IF program = "bot" THEN BotMissesBy(t, p, date) ELSE NodeMissesBy(t, p, date)

Settled(p, date) ==
  \E t \in ticks : Opens(p, date) <= t.free + Sweep /\ SettlesAs(who, t, p, date)

Watched(p, date) == born # None /\ born <= Opens(p, date) /\ clock <= Closes(p, date) + 1

SleepsUntil(p, date) == pc = "asleep" /\ wake <= Closes(p, date) /\ clock <= Closes(p, date)

TicksSince(p, date) == tick # NoTick /\ tick.from <= Closes(p, date)

GateInv ==
  \A p \in Profiles, date \in Int :
    Watched(p, date) => Settled(p, date) \/ SleepsUntil(p, date) \/ TicksSince(p, date)

LEMMA GateOrder ==
  ASSUME NEW p \in Profiles, NEW date \in Int
  PROVE  /\ Opens(p, date) \in Int /\ Closes(p, date) \in Int /\ p.tol \in Nat
         /\ gate_target_utc(date, p.lead) \in Int
         /\ Opens(p, date) <= gate_target_utc(date, p.lead)
         /\ gate_target_utc(date, p.lead) <= Closes(p, date)
         /\ Closes(p, date) = Opens(p, date) + 2 * p.tol
<1>1. /\ p.tol \in 0 .. Day /\ gate_target_utc(date, p.lead) \in Int
      /\ Opens(p, date) = gate_target_utc(date, p.lead) - p.tol
      /\ Closes(p, date) = gate_target_utc(date, p.lead) + p.tol
  BY GateTimes
<1>2. p.tol \in Nat
  <2>1. Day \in Int  BY DayType
  <2> QED BY <1>1, <2>1
<1> QED BY <1>1, <1>2

\* The bot's thread goes to sleep after a tick that began before the gate
\* closed: the gate is settled, or the wake time is early enough.
LEMMA BotSleepsInTime ==
  ASSUME LoopInv, BotSleeps, NEW p \in Profiles, NEW date \in Int,
         tick.from <= Closes(p, date)
  PROVE  Settled(p, date)' \/ SleepsUntil(p, date)'
<1>1. /\ pc = "end" /\ pc' = "asleep" /\ tick' = NoTick /\ who = "bot" /\ who' = "bot"
      /\ UNCHANGED <<clock, who, starts, born>>
      /\ ticks' = ticks \union {[tick EXCEPT !.to = clock, !.free = clock]}
  BY DEF BotSleeps
<1>2. /\ tick # NoTick /\ tick.from \in Nat /\ tick.from <= clock
      /\ clock \in Nat /\ DOMAIN tick = DOMAIN NoTick
      /\ ~tick.raised => tick.looked = UnitsAtGate(tick.from) \ tick.failed
  BY <1>1, Bounds DEF LoopInv, Sane, TickUnderWay, TickLooked
<1>3. PICK fast_poll \in BOOLEAN : wake' = Min(BotWakes(fast_poll))
  BY DEF BotSleeps
<1> DEFINE gate == next_gate_wake_utc(Profiles, clock)
           t == [tick EXCEPT !.to = clock, !.free = clock]
           opens == Opens(p, date)
           closes == Closes(p, date)
           target == gate_target_utc(date, p.lead)
<1>4. /\ wake' \in Int /\ clock < wake' /\ wake' <= clock + Sweep
      /\ clock < gate => wake' <= gate
      /\ ~tick.raised /\ tick.failed # {} /\ clock < tick.from + Retry =>
           wake' <= tick.from + Retry
  BY <1>2, <1>3, BotWakesInTime
<1>5. /\ t.from = tick.from /\ t.to = clock /\ t.free = clock /\ t.raised = tick.raised
      /\ t.looked = tick.looked /\ t.failed = tick.failed
  BY <1>2, NoTickFields
<1>6. t \in ticks'  BY <1>1
<1>7. /\ opens \in Int /\ closes \in Int /\ target \in Int
      /\ opens <= target /\ target <= closes
  BY GateOrder
<1>8. Unit(p, date) \in UnitsAtGate(tick.from) \/ tick.from < opens
  <2>1. tick.from < opens \/ tick.from \in opens .. closes  BY <1>2, <1>7
  <2> QED BY <1>2, <2>1, OpenGateIsUnit
<1>9. clock < opens => gate \in Int /\ clock < gate /\ gate <= target
  BY <1>2, NextGateInTime
<1> HIDE DEF t
<1>10. opens <= clock /\ SettlesAs("bot", t, p, date) => Settled(p, date)'
  <2> SUFFICES ASSUME opens <= clock, SettlesAs("bot", t, p, date) PROVE Settled(p, date)'
    OBVIOUS
  <2>1. Opens(p, date) <= t.free + Sweep
    BY <1>2, <1>5, <1>7, Bounds
  <2>2. \E u \in ticks' : Opens(p, date) <= u.free + Sweep /\ SettlesAs(who', u, p, date)
    BY <1>1, <1>6, <2>1
  <2> QED BY <2>2 DEF Settled
<1> HIDE DEF gate, target
<1>11. CASE clock < opens
  <2>1. wake' <= closes /\ clock <= closes
    BY <1>2, <1>4, <1>7, <1>9, <1>11
  <2> QED BY <1>1, <2>1 DEF SleepsUntil
<1>12. CASE opens <= clock /\ tick.from < opens
  <2>1. BotMissesBy(t, p, date)  BY <1>5, <1>12 DEF BotMissesBy
  <2> QED BY <1>10, <1>12, <2>1 DEF SettlesAs
<1>13. CASE opens <= clock /\ opens <= tick.from
  <2>1. t.from \in opens .. closes  BY <1>2, <1>5, <1>7, <1>13
  <2>2. CASE tick.raised
    <3>1. BotMissesBy(t, p, date)  BY <1>5, <2>1, <2>2 DEF BotMissesBy
    <3> QED BY <1>10, <1>13, <3>1 DEF SettlesAs
  <2>3. CASE ~tick.raised /\ Unit(p, date) \notin tick.failed
    <3>1. Unit(p, date) \in t.looked
      BY <1>2, <1>5, <1>7, <1>8, <1>13, <2>3
    <3> QED BY <1>10, <1>13, <2>1, <3>1 DEF SettlesAs
  <2>4. CASE ~tick.raised /\ Unit(p, date) \in tick.failed
    <3>1. CASE tick.from + Retry <= clock \/ closes < tick.from + Retry
      <4>1. BotMissesBy(t, p, date)  BY <1>5, <2>1, <2>4, <3>1 DEF BotMissesBy
      <4> QED BY <1>10, <1>13, <4>1 DEF SettlesAs
    <3>2. CASE clock < tick.from + Retry /\ tick.from + Retry <= closes
      <4>1. wake' <= tick.from + Retry  BY <1>4, <2>4, <3>2
      <4>2. wake' <= closes /\ clock <= closes
        BY <1>2, <1>4, <1>7, <3>2, <4>1, Bounds
      <4> QED BY <1>1, <4>2 DEF SleepsUntil
    <3> QED BY <1>2, <1>7, <3>1, <3>2, Bounds
  <2> QED BY <2>2, <2>3, <2>4
<1> QED BY <1>2, <1>7, <1>11, <1>12, <1>13

\* Likewise the node's, directly or after a reconciliation.
LEMMA NodeSleepsInTime ==
  ASSUME LoopInv, NEW p \in Profiles, NEW date \in Int,
         tick # NoTick, tick.from <= Closes(p, date), who = "node",
         ~tick.raised => tick.looked = UnitsAtGate(tick.from) \ tick.failed,
         NEW to \in Int, to \in tick.from .. clock, clock <= Closes(p, date) + 1,
         wake' \in Int, wake' <= to + Sweep,
         ~tick.raised /\ to < next_gate_wake_utc(Profiles, tick.from) =>
           wake' <= next_gate_wake_utc(Profiles, tick.from),
         pc' = "asleep", UNCHANGED <<clock, who>>,
         [tick EXCEPT !.to = to, !.free = clock] \in ticks'
  PROVE  Settled(p, date)' \/ SleepsUntil(p, date)'
<1> DEFINE gate == next_gate_wake_utc(Profiles, tick.from)
           t == [tick EXCEPT !.to = to, !.free = clock]
           opens == Opens(p, date)
           closes == Closes(p, date)
           target == gate_target_utc(date, p.lead)
<1>2. /\ tick.from \in Nat /\ tick.from <= clock
      /\ clock \in Nat /\ DOMAIN tick = DOMAIN NoTick
  BY Bounds DEF LoopInv, Sane, TickUnderWay
<1>5. /\ t.from = tick.from /\ t.to = to /\ t.free = clock /\ t.raised = tick.raised
      /\ t.looked = tick.looked /\ t.failed = tick.failed
  BY <1>2, NoTickFields
<1>6. t \in ticks'  OBVIOUS
<1>7. /\ opens \in Int /\ closes \in Int /\ target \in Int
      /\ opens <= target /\ target <= closes
  BY GateOrder
<1>8. Unit(p, date) \in UnitsAtGate(tick.from) \/ tick.from < opens
  <2>1. tick.from < opens \/ tick.from \in opens .. closes  BY <1>2, <1>7
  <2> QED BY <1>2, <2>1, OpenGateIsUnit
<1>9. tick.from < opens => gate \in Int /\ tick.from < gate /\ gate <= target
  BY <1>2, NextGateInTime
<1> HIDE DEF t
<1>10. opens <= clock + Sweep /\ SettlesAs("node", t, p, date) => Settled(p, date)'
  <2> SUFFICES ASSUME opens <= clock + Sweep, SettlesAs("node", t, p, date)
               PROVE  Settled(p, date)'
    OBVIOUS
  <2>1. \E u \in ticks' : Opens(p, date) <= u.free + Sweep /\ SettlesAs(who', u, p, date)
    BY <1>5, <1>6
  <2> QED BY <2>1 DEF Settled
<1>11. CASE tick.from < opens
  <2>0. gate \in Int /\ gate <= target  BY <1>9, <1>11
  <2>1. CASE ~tick.raised /\ to < gate /\ clock <= closes
    <3>1. wake' <= gate  BY <2>1
    <3> HIDE DEF gate, target
    <3>2. wake' <= closes  BY <2>0, <3>1, <1>7
    <3> QED BY <2>1, <3>2 DEF SleepsUntil
  <2>2. CASE tick.raised \/ gate <= to \/ closes < clock
    <3>1. NodeMissesBy(t, p, date)  BY <1>5, <1>11, <2>2 DEF NodeMissesBy
    <3>2. CASE opens <= clock + Sweep
      BY <1>10, <3>1, <3>2 DEF SettlesAs
    <3>3. CASE clock + Sweep < opens
      <4> HIDE DEF gate, target
      <4>1. wake' <= closes /\ clock <= closes
        BY <1>2, <1>7, <3>3, Bounds
      <4> QED BY <4>1 DEF SleepsUntil
    <3> QED BY <1>2, <1>7, <3>2, <3>3, Bounds
  <2> QED BY <1>2, <1>7, <2>0, <2>1, <2>2
<1>12. CASE opens <= tick.from
  <2>1. t.from \in opens .. closes /\ opens <= clock + Sweep
    BY <1>2, <1>5, <1>7, <1>12, Bounds
  <2>2. CASE tick.raised \/ Unit(p, date) \in tick.failed
    <3>1. NodeMissesBy(t, p, date)  BY <1>5, <2>1, <2>2 DEF NodeMissesBy
    <3> QED BY <1>10, <2>1, <3>1 DEF SettlesAs
  <2>3. CASE ~tick.raised /\ Unit(p, date) \notin tick.failed
    <3>1. Unit(p, date) \in t.looked
      BY <1>2, <1>5, <1>7, <1>8, <1>12, <2>3
    <3> QED BY <1>10, <2>1, <3>1 DEF SettlesAs
  <2> QED BY <2>2, <2>3
<1> QED BY <1>2, <1>7, <1>11, <1>12

LEMMA InitGateInv == Init => GateInv
  BY DEF Init, GateInv, Watched

\* What settles a gate stays as long as the ticks do.
LEMMA SettledStays ==
  ASSUME NEW p, NEW date, Settled(p, date), ticks \subseteq ticks', who' = who
  PROVE  Settled(p, date)'
  BY DEF Settled

LEMMA NextGateInv == LoopInv /\ GateInv /\ [Next]_vars => GateInv'
<1> SUFFICES ASSUME LoopInv, GateInv, [Next]_vars,
                    NEW p \in Profiles, NEW date \in Int, Watched(p, date)'
             PROVE  Settled(p, date)' \/ SleepsUntil(p, date)' \/ TicksSince(p, date)'
  BY DEF GateInv
<1>0. /\ clock \in Nat /\ clock \in Int /\ wake \in Int
      /\ Opens(p, date) \in Int /\ Closes(p, date) \in Int
      /\ Opens(p, date) <= Closes(p, date)
      /\ Closes(p, date) = Opens(p, date) + 2 * p.tol /\ p.tol \in Nat
  BY Bounds, GateOrder DEF LoopInv, Sane
<1>1. CASE Start
  BY <1>1 DEF Start, Watched
<1>2. CASE BeginTick
  <2>1. /\ pc = "asleep" /\ tick = NoTick /\ tick' # NoTick /\ tick'.from = clock
        /\ clock' = clock /\ ticks' = ticks /\ who' = who
        /\ born' = IF born = None THEN clock ELSE born
    <3>1. tick' = [NoTick EXCEPT !.from = clock]  BY <1>2 DEF BeginTick
    <3>2. tick'.from = clock  BY <3>1, NoTickFields
    <3>3. clock # None  BY <1>0, Bounds
    <3> QED BY <1>2, <3>2, <3>3, NoTickFields DEF BeginTick, LoopInv, TickUnderWay
  <2>2. CASE born = None
    <3>1. clock <= Closes(p, date)  BY <1>0, <2>1, <2>2 DEF Watched
    <3> QED BY <2>1, <3>1 DEF TicksSince
  <2>3. CASE born # None
    <3>1. Watched(p, date)  BY <2>1, <2>3 DEF Watched
    <3>2. Settled(p, date) \/ SleepsUntil(p, date)
      BY <2>1, <3>1 DEF GateInv, TicksSince
    <3> QED BY <2>1, <3>2, SettledStays DEF SleepsUntil, TicksSince
  <2> QED BY <2>2, <2>3
<1>3. CASE LookAtUnits \/ TickFails
  <2>1. /\ tick'.from = tick.from /\ UNCHANGED <<clock, born, ticks, who>>
        /\ pc \in {"tick", "end"} /\ tick # NoTick
    BY <1>3, NoTickFields DEF LookAtUnits, TickFails, LoopInv, TickUnderWay
  <2>2. tick' # NoTick
    <3>1. tick.from # None  BY <2>1, Bounds DEF LoopInv, TickUnderWay
    <3> QED BY <2>1, <3>1, NoTickFields
  <2>3. Watched(p, date)  BY <2>1 DEF Watched
  <2>4. Settled(p, date) \/ TicksSince(p, date)
    BY <2>1, <2>3 DEF GateInv, SleepsUntil
  <2> QED BY <2>1, <2>2, <2>4, SettledStays DEF TicksSince
<1>4. CASE BotSleeps
  <2>1. /\ pc = "end" /\ UNCHANGED <<clock, born, who>> /\ ticks \subseteq ticks'
    BY <1>4 DEF BotSleeps
  <2>2. Settled(p, date) \/ TicksSince(p, date)
    BY <2>1 DEF GateInv, Watched, SleepsUntil
  <2> QED BY <1>4, <2>1, <2>2, SettledStays, BotSleepsInTime DEF TicksSince
<1>5. CASE NodeTickEnds
  <2>1. /\ pc = "end" /\ UNCHANGED <<clock, born, who>> /\ ticks \subseteq ticks' /\ who = "node"
    BY <1>5 DEF NodeTickEnds
  <2>2. Settled(p, date) \/ TicksSince(p, date)
    BY <2>1 DEF GateInv, Watched, SleepsUntil
  <2>3. /\ tick # NoTick /\ tick.from \in Nat /\ clock \in tick.from .. clock
        /\ DOMAIN tick = DOMAIN NoTick
        /\ ~tick.raised => tick.looked = UnitsAtGate(tick.from) \ tick.failed
    BY <2>1, <1>0, Bounds DEF LoopInv, TickUnderWay, TickLooked
  <2>4. CASE pc' = "reconcile" /\ tick' = [tick EXCEPT !.to = clock]
    <3>1. tick'.from = tick.from /\ tick' # NoTick
      <4>1. tick'.from = tick.from  BY <2>3, <2>4, NoTickFields
      <4> QED BY <2>3, <4>1, Bounds, NoTickFields
    <3> QED BY <2>1, <2>2, <3>1, SettledStays DEF TicksSince
  <2>5. CASE pc' = "asleep" /\ [tick EXCEPT !.to = clock, !.free = clock] \in ticks'
    <3> DEFINE gate == next_gate_wake_utc(Profiles, tick.from)
    <3>1. /\ wake' \in Int /\ wake' <= clock + Sweep
          /\ ~tick.raised /\ clock < gate => wake' <= gate
      <4>1. wake' = Min({clock + Sweep} \union
                        {at \in IF tick.raised THEN {} ELSE {gate} : clock < at})
        BY <1>5 DEF NodeTickEnds
      <4> QED BY <1>0, <2>3, <4>1, NodeWakesInTime
    <3> HIDE DEF gate
    <3>2. clock <= Closes(p, date) + 1  BY <2>1 DEF Watched
    <3>3. TicksSince(p, date) => Settled(p, date)' \/ SleepsUntil(p, date)'
      BY <1>0, <2>1, <2>3, <2>5, <3>1, <3>2, NodeSleepsInTime DEF TicksSince, gate
    <3> QED BY <2>1, <2>2, <3>3, SettledStays
  <2> QED BY <1>5, <2>4, <2>5 DEF NodeTickEnds
<1>6. CASE Reconciled
  <2>1. /\ pc = "reconcile" /\ pc' = "asleep" /\ UNCHANGED <<clock, born, who, wake>>
        /\ ticks \subseteq ticks' /\ who = "node"
        /\ tick # NoTick => [tick EXCEPT !.free = clock] \in ticks'
    BY <1>6 DEF Reconciled, LoopInv, Sane
  <2>2. Settled(p, date) \/ TicksSince(p, date)
    BY <2>1 DEF GateInv, Watched, SleepsUntil
  <2>3. CASE TicksSince(p, date)
    <3>1. /\ tick # NoTick /\ tick.from \in Nat /\ tick.to \in tick.from .. clock /\ tick.to \in Int
          /\ DOMAIN tick = DOMAIN NoTick
          /\ ~tick.raised => tick.looked = UnitsAtGate(tick.from) \ tick.failed
      BY <2>1, <2>3, <1>0, Bounds DEF LoopInv, TickUnderWay, TickLooked, TicksSince
    <3>2. [tick EXCEPT !.free = clock] = [tick EXCEPT !.to = tick.to, !.free = clock]
      BY <3>1, NoTickFields
    <3> DEFINE gate == next_gate_wake_utc(Profiles, tick.from)
    <3>3. /\ wake' \in Int /\ wake' <= tick.to + Sweep
          /\ ~tick.raised /\ tick.to < gate => wake' <= gate
      BY <2>1, <3>1, <1>0 DEF LoopInv, NodeWake
    <3> HIDE DEF gate
    <3>4. clock <= Closes(p, date) + 1  BY <2>1 DEF Watched
    <3> QED
      BY <2>1, <2>3, <3>1, <3>2, <3>3, <3>4, NodeSleepsInTime DEF TicksSince, gate
  <2> QED BY <2>1, <2>2, <2>3, SettledStays
<1>7. CASE TimePasses
  <2>1. /\ clock' = clock + 1 /\ ~(pc = "asleep" /\ wake <= clock)
        /\ ticks' = {t \in ticks : \E q \in Profiles : clock <= t.free + 2 * q.tol + Sweep}
        /\ UNCHANGED <<who, pc, tick, wake, born>>
    BY <1>7 DEF TimePasses
  <2>2. Watched(p, date) /\ clock <= Closes(p, date)
    <3>1. clock + 1 <= Closes(p, date) + 1  BY <2>1 DEF Watched
    <3> QED BY <1>0, <2>1, <3>1 DEF Watched
  <2>3. CASE Settled(p, date)
    <3>1. PICK t \in ticks : Opens(p, date) <= t.free + Sweep /\ SettlesAs(who, t, p, date)
      BY <2>3 DEF Settled
    <3>2. t.free \in Int
      <4>1. /\ t.from \in Dawn .. clock /\ t.to \in t.from .. clock /\ t.free \in t.to .. clock
        BY DEF LoopInv, TicksDone
      <4> QED BY <1>0, <4>1, Bounds
    <3>3. clock <= t.free + 2 * p.tol + Sweep
      BY <1>0, <2>2, <3>1, <3>2, Bounds
    <3> QED BY <2>1, <3>1, <3>3 DEF Settled
  <2>4. CASE SleepsUntil(p, date)
    <3>1. clock < wake  BY <1>0, <2>1, <2>4 DEF SleepsUntil
    <3>2. clock + 1 <= Closes(p, date)  BY <1>0, <2>4, <3>1 DEF SleepsUntil
    <3> QED BY <2>1, <2>4, <3>2 DEF SleepsUntil
  <2>5. CASE TicksSince(p, date)
    BY <2>1, <2>5 DEF TicksSince
  <2> QED BY <2>2, <2>3, <2>4, <2>5 DEF GateInv
<1>8. CASE Crash
  BY <1>8 DEF Crash, Watched
<1>9. CASE UNCHANGED vars
  BY <1>9 DEF vars, GateInv, Watched, Settled, SleepsUntil, TicksSince
<1> QED
  BY <1>1, <1>2, <1>3, <1>4, <1>5, <1>6, <1>7, <1>8, <1>9 DEF Next

\* For any profiles, sweep and retry intervals, and any durations of ticks and
\* reconciliations: when a gate closes, a loop that has been ticking since
\* before it opened has looked at its market, or a tick is to blame.
THEOREM GateMissedOnlyInTickHolds == Spec => []GateMissedOnlyInTick
<1>1. LoopInv /\ GateInv => GateMissedOnlyInTick
  <2> SUFFICES ASSUME LoopInv, GateInv,
                      NEW p \in Profiles, NEW date \in NearDates,
                      clock = Closes(p, date) + 1, born # None, born <= Opens(p, date)
               PROVE  \/ tick # NoTick
                      \/ \E t \in ticks :
                           \/ /\ t.from \in Opens(p, date) .. Closes(p, date)
                              /\ Unit(p, date) \in t.looked
                           \/ IF who = "bot" THEN BotMissesBy(t, p, date)
                                            ELSE NodeMissesBy(t, p, date)
    BY DEF GateMissedOnlyInTick
  <2>1. date \in Int
    <3>1. Dawn \in Int /\ Horizon \in Int  BY ScheduleAssumption
    <3>2. Today(Dawn) \in Int /\ Today(Horizon) \in Int  BY <3>1, DivDay DEF Today
    <3> QED BY <3>2 DEF NearDates
  <2>2. Closes(p, date) \in Int  BY <2>1, GateOrder
  <2>3. Watched(p, date) /\ ~SleepsUntil(p, date)
    BY <2>2 DEF Watched, SleepsUntil
  <2>4. Settled(p, date) \/ TicksSince(p, date)
    BY <2>1, <2>3 DEF GateInv
  <2> QED BY <2>4 DEF Settled, SettlesAs, TicksSince
<1> QED
  BY <1>1, InitLoopInv, NextLoopInv, InitGateInv, NextGateInv, PTL DEF Spec
=============================================================================
