CONSTANTS
  Threads = {t1, t2}
  Conns = {c1, c2}
  IntMax = 3
  Amounts = {2, 5}
  NoConn = NoConn
  NoRow = NoRow
  MaxPosts = 2
  MaxFailures = 1
  MaxLosses = 1
  MaxRestarts = 1
SYMMETRY Symmetry
SPECIFICATION Spec
INVARIANT EveryFailureReported
