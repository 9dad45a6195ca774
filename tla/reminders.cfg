SPECIFICATION FairSpec
CONSTANTS
  c1 = c1  w1 = w1
  N = 1
  Due <- MCDue
  ByWhatsapp = {1}
  Reachable = {1}
  Cancellers = {c1}
  Workers = {w1}
  MaxAttempts = 2
  MaxStalls = 1
  MaxNow = 1
  MaxCrashes = 1
INVARIANTS
  TypeOK
  DuplicateOnlyAfterDoubt
  DeliveriesBounded
  LateDeliveriesBounded
  PendingIsOnItsWay
  RecordsAreTrue
  CancelLeavesNonePending
  LiveLosesNoReminder
PROPERTIES
  QueueRunsDown
  EveryReminderSettles
CHECK_DEADLOCK FALSE
