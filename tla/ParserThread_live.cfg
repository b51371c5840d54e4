CONSTANTS
  f1 = f1  f2 = f2  lo = lo  bn = bn  save = save  retry = retry
  fileA = fileA
  NoItem = NoItem  Aborted = Aborted
  Items = {lo, bn, retry}
  FileItems <- MCFileItems
  FileOf <- MCFileOf
  Files <- MCFiles
  PriOf <- MCPriOf
  AtShutdown <- MCAtShutdown
  MaySkip = {retry}
  MaxSkips = 1
  MaxLoads = 1
  MaxRefactors = 1
  MaxFaults = 0
SPECIFICATION FairSpec
\* the program stops after shutdown
CHECK_DEADLOCK FALSE
INVARIANT NoGapInActivity
PROPERTIES QueuedJobsFinish ShutdownCompletes
