SPECIFICATION FairSpec
CONSTANTS
  p1 = p1
  p2 = p2
  Consumer = Consumer
  Free = Free
  NoToken = NoToken
  Producers <- MCProducers
  Capacity = 2
  PayloadCapacity = 4
  Sizes = {1, 2, 4}
  Pops = {1}
  ChecksDepth = TRUE
  MaxTokens = 2
INVARIANTS
  CountersInStep
  PeekFindsOldestToken
PROPERTIES
  RefinesSharedFifo
  LockIsReleased
