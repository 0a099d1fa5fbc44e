CONSTANTS
  h1 = h1
  s1 = s1
  s2 = s2
  s3 = s3
  Handlers = {h1}
  Pids = {s1, s2, s3}
  NoPid = NoPid
  e1 = e1
  e2 = e2
  Exits = {e1, e2}
  Setups <- MCSetups
  Searches = 2
  RefreshMax = 2
  RotateMax = 1
  RecoverMax = 1
  GeoTries = 2
  JudgeAfter = 2
  SilentMax = 2
  MaxRuns = 2
  Unknown = Unknown
SPECIFICATION PartsSpec
INVARIANTS AtMostOneScheduler SchedulerIsTracked   
PROPERTIES StopIsFinal RunEnds
CHECK_DEADLOCK FALSE
