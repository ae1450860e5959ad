SPECIFICATION Spec
CONSTANTS
  MaxGen = 2
  MaxFence = 4
  MaxPreSend = 2
  MaxFaults = 0
  MaxRestores = 1
  MaxCancels = 0
  MaxSlowSweeps = 0
  JobsListed = TRUE
PROPERTY
  NoUnsettledResend
CHECK_DEADLOCK FALSE
