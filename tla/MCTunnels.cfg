SPECIFICATION Spec
CONSTANTS
  socks = socks
  remote = remote
  s1 = s1
  s2 = s2
  k1 = k1
  Ids = {socks, remote}
  Socks = {socks}
  Remote = {remote}
  Starters = {s1}
  MaxRuns = 2
  Conns = {k1}
  MaxUp = 2
  MaxDown = 1
  Cap = 2
  Chunk = 1
  None = None
INVARIANTS FailureLeavesError OnlyLatestRuns PumpIsFaithful EndIsComplete
PROPERTY StopEnds
CHECK_DEADLOCK FALSE
