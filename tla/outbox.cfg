SPECIFICATION FairSpec
CONSTANTS
  Events = {e1, e2}
  Routed = {e1}
  Workers = {w1, w2}
  None = None
  DeadLetter = 1
  MaxCrashes = 1
  MaxFaults = 1
  MaxSlow = 1
  MaxReplays = 1
INVARIANTS
  Exclusive
PROPERTIES
  LiveClaimKept
  EventIsServed
