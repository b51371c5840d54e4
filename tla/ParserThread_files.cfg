CONSTANTS
  f1 = f1  f2 = f2  lo = lo  bn = bn  save = save  retry = retry
  fileA = fileA
  NoItem = NoItem  Aborted = Aborted
  Items = {f1, f2, save, lo}
  FileItems <- MCFileItems
  FileOf <- MCFileOf
  Files <- MCFiles
  PriOf <- MCPriOf
  AtShutdown <- MCAtShutdown
  MaySkip <- MCMaySkip
  MaxSkips = 1
  MaxLoads = 0
  MaxRefactors = 1
  MaxFaults = 1
SPECIFICATION Spec
\* the program stops after shutdown
CHECK_DEADLOCK FALSE
INVARIANTS OwnedOnce LastTextWins ShutdownWorkDone JobsRunUnderDirLock
PROPERTY Implements
