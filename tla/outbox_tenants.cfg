SPECIFICATION LineSpec
CONSTANTS
  Dispatchers = {w1, w2}
  Tenants = {t1, t2}
  Batch = 2
  NoClaim = NoClaim
  MaxRows = 6
  MaxLosses = 1
SYMMETRY Symmetry
INVARIANTS
  TurnComes
