CONSTANTS
  api1 = api1  api2 = api2
  w1 = w1  w2 = w2  w3 = w3
  t1 = t1  t2 = t2  t3 = t3
  c1 = c1  c2 = c2
  Servers = {api1, api2}
  Procs = {w1, w2}
  Threads = {t1, t2, t3}
  ServerOf <- OneWorkerEach
  ProcOf <- TwoServers
  Clientes = {c1, c2}
  Unknown = Unknown
  Limite <- Limites
  Upstream <- Locations
  Valores <- Amounts
  INT64_MIN = INT64_MIN
  NULL = NULL
  ExtratoLimit = 1
  BootMayFail = FALSE
  MaxRequests = 3
  MaxFailures = 1
  MaxCrashes = 0
SPECIFICATION Spec
SYMMETRY Symmetry
INVARIANTS TypeOK RowsMatchBalance SavedNeverAhead TotalCoversListed ReadYourWrites
PROPERTIES ImplementsLedger
