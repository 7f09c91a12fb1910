SPECIFICATION FairSpec
CONSTANT ComputeLaunches <- MCSuspending
PROPERTY ResumedUnitRuns
CHECK_DEADLOCK FALSE
