SPECIFICATION MpscFairSpec
CONSTANTS
  N = 3
  ChannelCapacity = 2
  Pops = {1}
  Word = 16
INVARIANTS
  HelperInStep
PROPERTY
  PopTakesPeekedToken
  FullChannelDrains
