SPECIFICATION Spec
CONSTANTS
  Radix = 2
  Channels = 2
  InitialCapacity = 4
  MaxCapacity = 16
  BalancedDepth = 2
  MaxReads = 3
  MaxFaults = 1
  BlockSize = 2
  InPackets = 1
  OutSize = 2
  WriteSizes = {5}
  ReadSizes = {1, 5}
  ChunkSizes = {0, 2}
  BorrowDepth = 2
  WritesWhileBorrowing = FALSE
  MaxCalls = 3
CHECK_DEADLOCK FALSE
INVARIANTS QueueHoldsInFlight BuffersArePrivate OpenAllOrNothing
PROPERTIES AwaitedWritesHaveLeft ImplementsTransfers EveryCallReturns
