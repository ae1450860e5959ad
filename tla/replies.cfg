SPECIFICATION FairSpec
CONSTANTS
  Drafts = {1}
  Native = {9}
  Wording <- SameWords
  None = None
  MaxRuns = 2
  MaxSends = 2
  Tries = 2
  MaxFaults = 4
INVARIANTS
  PostedOnce
  FailedWasNotPosted
  SentIsShown
  FoundIsConfirmed
PROPERTIES
  ReplyEnds
CHECK_DEADLOCK FALSE
