SPECIFICATION DeskSpec
CONSTANTS
 None = None
 s1 = s1
 s2 = s2
 Stations = {s1, s2}
 Slots = 2
 ForecastDays = 1
 Horizon = 5
 MaxStarts = 3
 MaxFaults = 1
 MaxScrapes = 1
 MaxSlow = 1
 Commands <- MCCommands
 Day = 4
 RunHours <- MCRunHours
 om = om
 om2 = om2
 StartingBalance = 2500
 wu = wu
 Wunderground = wu
INVARIANTS
 TypeOK
 StatsCoverStore
 LossesAreListed
 ForecastsAreKnown
 HindsightIsListed
 MarketsAreRead
 DecisionsAreRight
CHECK_DEADLOCK FALSE
