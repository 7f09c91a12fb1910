SPECIFICATION Spec
CONSTANTS
  Capacity = 3
  MaxPush = 3
  MaxPop = 2
  MaxTokens = 8
INVARIANTS
  StaleOnTheSafeSide
  NoFatal
PROPERTY PeekedTokensStable
