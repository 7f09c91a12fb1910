SPECIFICATION FairSpec
CONSTANT ComputeLaunches <- MCLaunches
INVARIANTS
  PrintsTheResult
  UnitOutlivesItsWork
PROPERTY UnsuspendedProgramsEnd
CHECK_DEADLOCK FALSE
