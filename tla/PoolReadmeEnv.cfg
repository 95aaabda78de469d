CONSTANTS
  Threads = {t1, t2, t3}
  ConnectionsCount = 2
  PoolRetry = 2
  NULL = NULL
  Wild = Wild
SPECIFICATION Spec
INVARIANT OneConnPerThread
CHECK_DEADLOCK FALSE
