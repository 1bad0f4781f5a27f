CONSTANTS
  Capacity = 3
  MaxFailures = 2
  Lengths = {0, 2}
  Sizes = {1, 3}
  MinSize = 2
  MaxInputs = 2
  MaxResizes = 2
SPECIFICATION FairSpec
INVARIANTS
  InputAccounted
  EntryIsLive
PROPERTIES
  RetriesSameWrite
  ImplementsPipe
  CloseEnds
  InputDelivered
  ResizeDelivered
CHECK_DEADLOCK FALSE
