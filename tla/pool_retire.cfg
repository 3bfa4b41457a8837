SPECIFICATION FairSpec
CONSTANTS
  Tasks = {k1, k2}
  Bounded = {k1}
  Routed = {}
  NoTask = NoTask
  Cleaner = Cleaner
  MaxThreads = 5
  MinPool = 1
  MaxPool = 2
  QueueSize = 1
  SelectAt = 1
  CreateAt = 1
  MaxExecutions = 1
  IdleExpires = FALSE
  MaxReloads = 0
  StopMayCome = TRUE
  EngineMayFail = TRUE
  CountWidth = 16
PROPERTIES ExecuteReturns StopEnds PoolRefilled
CHECK_DEADLOCK FALSE
