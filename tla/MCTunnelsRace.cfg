SPECIFICATION Spec
CONSTANTS
  socks = socks
  remote = remote
  s1 = s1
  s2 = s2
  k1 = k1
  Ids = {socks}
  Socks = {socks}
  Remote = {}
  Starters = {s1, s2}
  MaxRuns = 2
  Conns = {}
  MaxUp = 2
  MaxDown = 1
  Cap = 2
  Chunk = 1
  None = None
PROPERTY StopReachesEveryRun
CHECK_DEADLOCK FALSE
