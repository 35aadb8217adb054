SPECIFICATION Spec
CONSTANTS
  Day = 12
  s1 = s1
  s2 = s2
  Configs <- MCConfigs
  Broken = Broken
  Dawn = 22
  Horizon = 26
  MaxEdits = 1
  MaxStarts = 2
INVARIANTS
  TypeOK
  GridsHold
  OutcomeMatchesRows
  OnlyOverrunsDisturbSlots
  AsleepUpToDate
PROPERTIES
  SlotsRunOnce
  DoneMeansAllTried
  StopsWhenAsked
  EditIsTakenUp
CHECK_DEADLOCK FALSE
