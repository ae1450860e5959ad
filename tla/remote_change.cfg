SPECIFICATION FairSpec
CONSTANTS
  MaxChanges = 2
  Texts = {t1, t2}
  Original = t0
  Foreign = theirs
  Tries = 2
  RecordTries = 2
  MaxFaults = 1
  MaxAged = 1
  MaxVisits = 1
INVARIANTS
  RecordIsEarned
  TextIsKnown
  SiteEditKept
PROPERTIES
  ConfirmationIsRecorded
CHECK_DEADLOCK FALSE
