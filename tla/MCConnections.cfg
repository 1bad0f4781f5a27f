CONSTANTS
  Threads = {t1, t2}
  Keys = {k1, k2}
  MaxCalls = 2
  MaxSaves = 1
  None = None
SPECIFICATION FairSpec
INVARIANTS
  RunsOnOwnProfile
  SpoiltIsEvicted
PROPERTIES
  InvalidationSparesOthers
  CallsReturn
CHECK_DEADLOCK FALSE
