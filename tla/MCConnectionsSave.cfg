CONSTANTS
  Threads = {t1, t2}
  Keys = {k1, k2}
  MaxCalls = 2
  MaxSaves = 1
  None = None
SPECIFICATION Spec
INVARIANT SaveInvalidates
CHECK_DEADLOCK FALSE
