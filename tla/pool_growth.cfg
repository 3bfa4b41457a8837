\* The default configuration: the pool grows, nothing retires; three requests,
\* a reload and a stop, engines that fail to load.
SPECIFICATION Spec
CONSTANTS
  Tasks = {k1, k2, k3}
  Bounded = {k1, k2, k3}
  Routed = {k1, k2, k3}
  NoTask = NoTask
  Cleaner = Cleaner
  MaxThreads = 4
  MinPool = 1
  MaxPool = 2
  QueueSize = 2
  SelectAt = 1
  CreateAt = 1
  MaxExecutions = 0
  IdleExpires = FALSE
  MaxReloads = 1
  StopMayCome = TRUE
  EngineMayFail = TRUE
  CountWidth = 16
SYMMETRY Symmetry
INVARIANTS TypeOK PoolBounded RunOnce ReloadReachesListed
CHECK_DEADLOCK FALSE
