SPECIFICATION FairSpec
CONSTANTS
  Runs = {r1}
  SecondBrand = {}
  MaxReservations = 2
  Estimate = 2
  DayLimit = 3
  MonthLimit = 4
  MaxCalls = 2
  ActTries = 2
  ModelTries = 1
  MaxSteps = 2
  MaxFaults = 1
  MayCancel = TRUE
  MayRevoke = TRUE
INVARIANTS
  ChargedOnce
  AppliedOnce
  AppliedWasAccepted
  NothingHeldAtEnd
PROPERTIES
  RunEnds
CHECK_DEADLOCK FALSE
