CONSTANTS
  Threads = {t1, t2, t3}
  t1 = t1  t2 = t2  t3 = t3
  NoThread = NoThread
  MaxDepth = 2
  MaxOps = 2
SPECIFICATION FairSpec
\* every thread has used up its accesses
CHECK_DEADLOCK FALSE
INVARIANT AssertionsHold
PROPERTIES Implements RequestsGranted
