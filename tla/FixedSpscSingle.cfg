SPECIFICATION FairSpec
CONSTANTS
  Capacity = 3
  MaxPush = 1
  MaxPop = 2
  MaxTokens = 7
INVARIANT TokensInOrder
PROPERTIES
  RefinesBoundedFifo
  TokensDelivered
