SPECIFICATION KeySpec
CONSTANTS
  Requests = {r1, r2, r3, r4, r5}
  Others = {r4, r5}
  Nobody = Nobody
  MaxDeaths = 2
  MaxDays = 2
  MaxLostAcks = 1
INVARIANTS
  CommandOnce
  ReplayIsOwn
PROPERTIES
  ReplayIsFresh
SYMMETRY Symmetry
CHECK_DEADLOCK FALSE
