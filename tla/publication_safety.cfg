SPECIFICATION Spec
CONSTANTS
  MaxGen = 2
  MaxFence = 2
  MaxPreSend = 2
  MaxFaults = 1
  MaxRestores = 1
  MaxCancels = 0
  MaxSlowSweeps = 0
  JobsListed = TRUE
INVARIANTS
  SecondPostNeedsPerson
  PublishedHasPost
  FailedHasNoPost
PROPERTIES
  LedgerRefined
CHECK_DEADLOCK FALSE
