SPECIFICATION FairSpec
CONSTANTS
  MaxCreds = 3
  MaxConnects = 1
  MaxDisconnects = 1
  Slots = {s1, s2}
  Delays = 1
  Tries = 2
  MaxFaults = 1
INVARIANTS
  OnlyCurrentOpens
  ActiveIsIntact
PROPERTIES
  DisabledIsShredded
  ExpiryIsMet
CHECK_DEADLOCK FALSE
