CONSTANTS
  Threads = {main, t1, t2}
  MainThread = main
  main = main  t1 = t1  t2 = t2
  NoThread = NoThread
  Refactorings = TRUE
  MaxDepth = 2
  MaxOps = 2
SPECIFICATION Spec
\* every thread has used up its accesses
CHECK_DEADLOCK FALSE
INVARIANT OverlapOnlyWithAllowance
