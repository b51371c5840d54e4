CONSTANTS
  Threads = {main, t1, t2}
  MainThread = main
  main = main  t1 = t1  t2 = t2
  NoThread = NoThread
  Refactorings = FALSE
  MaxDepth = 2
  MaxOps = 3
SPECIFICATION FairSpec
\* every thread has used up its accesses
CHECK_DEADLOCK FALSE
PROPERTIES Implements RequestsGranted
