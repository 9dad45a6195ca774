SPECIFICATION Spec
CONSTANTS
  D = 6
  Week = 2
  Horizon = 2
  RangeChoices <- MCRanges
  MaxRules = 1
  MaxExceptions = 0
  MaxTicks = 4
  MaxUpdates = 1
INVARIANT OpenMeansCovered
CHECK_DEADLOCK FALSE
