SPECIFICATION FairSpec
CONSTANTS
  Launches <- MCLaunches
  Readable <- MCReadable
  Shown <- MCShown
INVARIANTS
  NoException
  CollectivesMatch
  AccessesLiveSlots
  EndsAgree
  CopyNotRaced
  DestructionsFinishCollectively
  PrintsWhatWasSent
PROPERTY ProgramsFinish
