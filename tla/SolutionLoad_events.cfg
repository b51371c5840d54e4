CONSTANTS
  s1 = s1  f1 = f1
  Solutions = {s1, f1}
  Folders = {f1}
  NoSolution = NoSolution  NoInfo = NoInfo
  MaxDeferred = 1
  MaxRequests = 2
  Answers <- MCAnswers
  MaxLoads = 2
  MaxEvents = 2
  StartsWhile = {"closed", "open"}
SPECIFICATION Spec
CHECK_DEADLOCK FALSE
INVARIANTS CacheMatchesRequest DecidesByOwnFlag RegisteredLoaderLives LoadedOrKnownDirty WaitsHaveTimers
