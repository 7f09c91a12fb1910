SPECIFICATION FairSpec
CONSTANTS
  Capacity = 2
  PayloadCapacity = 5
  Sizes = {1, 2, 3, 5}
  MaxPop = 2
  MaxTokens = 5
INVARIANTS
  StaleOnTheSafeSide
  PayloadsIntact
PROPERTIES
  RefinesBoundedFifo
  RoomComesBack
