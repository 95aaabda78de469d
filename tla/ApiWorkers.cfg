CONSTANTS
  api1 = api1  api2 = api2
  w1 = w1  w2 = w2  w3 = w3
  t1 = t1  t2 = t2  t3 = t3
  c1 = c1  c2 = c2
  Servers = {api1}
  Procs = {w1, w2}
  Threads = {t1, t2}
  ServerOf <- TwoWorkers
  ProcOf <- OneThreadEach
  Clientes = {c1}
  Unknown = Unknown
  Limite <- LimiteC1
  Upstream <- OnlyApi1
  Valores <- Amounts
  INT64_MIN = INT64_MIN
  NULL = NULL
  ExtratoLimit = 2
  BootMayFail = FALSE
  MaxRequests = 2
  MaxFailures = 0
  MaxCrashes = 0
SPECIFICATION Spec
INVARIANT ReadYourWrites
