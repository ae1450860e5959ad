SPECIFICATION FairSpec
CONSTANTS
  MaxGen = 1
  MaxFence = 2
  MaxPreSend = 2
  MaxFaults = 1
  MaxRestores = 0
  MaxCancels = 1
  MaxSlowSweeps = 1
  JobsListed = TRUE
INVARIANTS
  SettledBeforeRelease
PROPERTIES
  DueRowIsTaken
  ClaimIsResolved
  OutcomeIsSought
CHECK_DEADLOCK FALSE
