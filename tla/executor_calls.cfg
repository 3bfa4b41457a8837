\* Three goroutines, six calls between them; starting may fail.
SPECIFICATION FairSpec
CONSTANTS
  Callers = {c1, c2, c3}
  Nobody = Nobody
  MaxCalls = 6
  StartMayFail = TRUE
INVARIANTS TypeOK PoolOpsExclusive
PROPERTIES StopHeard
CHECK_DEADLOCK FALSE
