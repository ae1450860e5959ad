SPECIFICATION Spec
CONSTANTS
  Jobs = {j1, j2}
  OtherBrand = {j2}
  None = None
  MaxRetries = 1
  MaxReservations = 2
  Estimate = 1
  DayLimit = 2
  MonthLimit = 3
  ActTries = 2
  ModelTries = 2
  MaxFaults = 1
  MaxCancels = 1
INVARIANTS
  SpendWithinCap
  LiveAttemptHolds
SYMMETRY Symmetry
CHECK_DEADLOCK FALSE
