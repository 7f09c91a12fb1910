SPECIFICATION FairSpec
CONSTANTS
  p1 = p1
  p2 = p2
  Consumer = Consumer
  Free = Free
  NoToken = NoToken
  Producers <- MCProducers
  Capacity = 3
  MaxPush = 2
  MaxPop = 2
  MaxTokens = 3
INVARIANTS
  CountersConsistent
PROPERTIES
  PeekedTokenStable
  RefinesSharedFifo
  TokensDelivered
