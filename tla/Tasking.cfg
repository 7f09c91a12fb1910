SPECIFICATION FairSpec
CONSTANTS
  Workers = {w1, w2}
  Programs <- MCPrograms
INVARIANTS
  OneWorkerPerTask
  DeletedTasksUnused
  RunComputesResult
PROPERTY RunEnds
