------------------------------ MODULE GateClock ------------------------------
(***************************************************************************)
(* The arithmetic of the lead gates (model/lead_time.py, the settlement    *)
(* dates of paper/market_context.py, the wake times of paper/bot.py and    *)
(* the retry window of live/node.py).  An instant counts ticks, Hour of    *)
(* them an hour; a date counts UTC days; the lead of a date is the time    *)
(* left until its end.  A profile has a city, a target day and a gate: the *)
(* lead it opens at, give or take a tolerance.                             *)
(***************************************************************************)
EXTENDS Integers, FiniteSetsExt

CONSTANT Hour

ASSUME HourAssumption == Hour \in Nat \ {0}

Day == 24 * Hour
None == -1
Today(now) == now \div Day

lead_hours_to_end_of_target_day(date, now) ==
  IF now < (date + 1) * Day THEN (date + 1) * Day - now ELSE 0

gate_target_utc(date, lead) == (date + 1) * Day - lead

lead_hours_at_target(lead, p) == p.lead - p.tol <= lead /\ lead <= p.lead + p.tol
lead_hours_before_target(lead, p) == p.lead + p.tol < lead
lead_hours_missed_target(lead, p) == lead < p.lead - p.tol

-----------------------------------------------------------------------------
(* The dates a profile's market may settle on.                             *)

TargetDayOffsets(p) ==
  CASE p.target_day = "today" -> {0}
    [] p.target_day = "tomorrow" -> {1}
    [] p.target_day = "both" -> {0, 1}

\* int((lead + 23) // 24) + 1, at least one.
settlement_date_span_days(lead) ==
  LET days == (lead + 23 * Hour) \div Day + 1
  IN  IF days < 1 THEN 1 ELSE days

\* Mutant: the days of target_day and the horizon after them, no others.
SettlementDatesOfTargetDay(p, now) ==
  {Today(now) + base + extra : base \in TargetDayOffsets(p),
                               extra \in 0 .. settlement_date_span_days(p.lead)}

\* ... and every day whose gate is open or still ahead.
settlement_dates_for_profile(p, now) ==
  LET span == settlement_date_span_days(p.lead)
      Ahead(date) ==
        LET lead == lead_hours_to_end_of_target_day(date, now)
        IN  lead_hours_at_target(lead, p) \/ lead_hours_before_target(lead, p)
  IN  {Today(now) + base + extra : base \in TargetDayOffsets(p), extra \in 0 .. span}
      \union {date \in Today(now) - 1 .. Today(now) + span + 1 : Ahead(date)}

work_units_for_profiles(profiles, now) ==
  UNION {{[city |-> p.city, date |-> date] : date \in settlement_dates_for_profile(p, now)} :
           p \in profiles}

in_retry_window(lead, p, window) ==
  window > 0 /\ p.lead - window <= lead /\ lead < p.lead

\* The dates that left the discovery when their gate passed.
retry_dates(p, now, window) ==
  {date \in Today(now) - 1 .. Today(now) + 3 :
     in_retry_window(lead_hours_to_end_of_target_day(date, now), p, window)}

units_in_retry_window(profiles, now, window) ==
  UNION {{[city |-> p.city, date |-> date] : date \in retry_dates(p, now, window)} :
           p \in profiles}

retry_units(profiles, now, window, existing) ==
  units_in_retry_window(profiles, now, window) \ existing

-----------------------------------------------------------------------------
(* When to wake, and which gate instant is the latest.                     *)

\* The first gate that is ahead and not yet open.
next_gate_wake_utc(profiles, now) ==
  LET NotYetOpen(p) ==
        {date \in settlement_dates_for_profile(p, now) :
           LET lead == lead_hours_to_end_of_target_day(date, now)
           IN  ~lead_hours_at_target(lead, p) /\ ~lead_hours_missed_target(lead, p)}
      wakes == {wake \in UNION {{gate_target_utc(date, p.lead) : date \in NotYetOpen(p)} :
                                  p \in profiles} : now < wake}
  IN  IF wakes = {} THEN None ELSE Min(wakes)

\* Mutant: only a gate wakes the bot.
WakeForGatesOnly(profiles, next_settle, now) ==
  LET gate == next_gate_wake_utc(profiles, now)
  IN  IF gate = None THEN next_settle ELSE gate

compute_next_wake(profiles, next_settle, now) ==
  Min({wake \in {next_settle, next_gate_wake_utc(profiles, now)} : now < wake})

ACTIVE_SWEEP_LOOKBACK_DAYS == 1
ACTIVE_SWEEP_LOOKAHEAD_DAYS == 3

\* Mutant: only the days around today are looked at.
LatestInstantNearby(profiles, now) ==
  LET passed == {i \in {gate_target_utc(date, p.lead) :
                          date \in Today(now) - 1 .. Today(now), p \in profiles} : i <= now}
  IN  IF passed = {} THEN None ELSE Max(passed)

latest_due_gate_instant(profiles, now) ==
  LET dates == Today(now) - ACTIVE_SWEEP_LOOKBACK_DAYS
               .. Today(now) + ACTIVE_SWEEP_LOOKAHEAD_DAYS
      passed == {i \in {gate_target_utc(date, p.lead) : date \in dates, p \in profiles} :
                   i <= now}
  IN  IF passed = {} THEN None ELSE Max(passed)
=============================================================================
