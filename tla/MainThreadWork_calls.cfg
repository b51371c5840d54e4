CONSTANTS
  Workers = {w1}
  Nobody = Nobody
  Markers = {1}
  MaxTasks = 2
  MaxItems = 2
  MaxDepth = 2
  MaxPumps = 1
SPECIFICATION FairSpec
CHECK_DEADLOCK FALSE
INVARIANTS TasksWaitInOrder ReturnedCallsAreDone ItemsRunInOrder FlushRunsOwnItems
PROPERTY SyncCallsReturn
