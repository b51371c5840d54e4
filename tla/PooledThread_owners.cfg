CONSTANTS
  Objs = {"detached", "shared", "stack", "window", "highlighter", "loader"}
  KindOf <- KindByName
  MaxUsed = 2
  MaxRuns = 2
  QueueFails = {"detached", "shared", "window", "highlighter"}
  ProcFails = {"detached", "window", "highlighter", "loader"}
  LongWaits = TRUE
SPECIFICATION FairSpec
\* every client is done with its thread
CHECK_DEADLOCK FALSE
INVARIANTS NoUseAfterDelete RefCountIsHolders WaitedForTheRun ActiveCountIsExact
PROPERTY WaitersComeBack
