CONSTANTS
  Threads = {t1, t2, t3}
  ConnectionsCount = 3
  PoolRetry = 2
  NULL = NULL
  Wild = Wild
SPECIFICATION FairSpec
INVARIANTS TypeOK OneConnPerThread IndexInBounds NeverRefused PoolWholeAgain
PROPERTIES SomeCallEnds ImplementsLease
