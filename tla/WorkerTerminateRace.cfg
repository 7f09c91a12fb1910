SPECIFICATION WorkerFairSpec
CONSTANTS
  Tasks = {t1, t2}
  NPU = 1
PROPERTY TerminationHonoured
