CONSTANTS
  Ops = {1, 2, 3}
  MaxCalls = 3
  MaxPending = 1
  Threads = 2
  None = None
  Prompts = {"hostKey"}
SPECIFICATION FairSpec
INVARIANTS
  RegistryMatchesThreads
  CancelReachesCommand
  PendingBounded
PROPERTIES
  OnlyLatestApplies
  NoSuccessAfterCancel
  SlotIsFreed
CHECK_DEADLOCK FALSE
