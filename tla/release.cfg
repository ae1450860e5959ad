SPECIFICATION Spec
CONSTANTS
  Targets = {t1, t2}
  Pubs = {p1, p2, p3}
  Quota = 2
  MaxDays = 2
  MaxChanges = 1
  Scopes <- Few
INVARIANTS
  ConsumedWhenAllOut
  OncePerTarget
  
  TextIsReviewed
  OutdatedIsInvalidated
SYMMETRY Symmetry
CHECK_DEADLOCK FALSE
