SPECIFICATION Spec
CONSTANTS
  Hour = 1
  Profiles <- MCProfiles
  Sweep = 5
  Retry = 1
  Poll = 2
  RetryWindow = 4
  Dawn = 65
  Horizon = 74
  MaxStarts = 2
INVARIANTS
  TypeOK
  UnitsCoverGates
  LatestIsLatest
  GateMissedOnlyInTick
CHECK_DEADLOCK FALSE
