SPECIFICATION Spec
CONSTANTS
  D = 6
  Week = 2
  Horizon = 2
  RangeChoices <- MCRanges
  MaxRules = 2
  MaxExceptions = 2
  MaxTicks = 4
  MaxUpdates = 1
INVARIANTS
  AgreesWithSchedule
  BlocksAreRespected
CHECK_DEADLOCK FALSE
