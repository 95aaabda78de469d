CONSTANTS
  Thread = {t1, t2}
  MaxConn = 3
  MaxWrites = 1
  Hangups = TRUE
  None = None
SPECIFICATION Spec
INVARIANT HandlesProtect
CHECK_DEADLOCK FALSE
