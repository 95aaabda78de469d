SPECIFICATION MCSpec
CONSTANTS
    ConnectionsCount = 3
    MaxOutages = 2
    MaxNulls = 2
    WorkerCount = 2
    MaxForks = 3
    MaxCrashes = 1
    GroupSignals = TRUE
    RootCrashes = TRUE
    MaxFd = 2
    MaxUnsent = 1
    Grace = 1
    Handlers = {t1, t2}
    MaxRequests = 3
    Limit = 2
    Throttle = 0
    AsksToClose = TRUE
    Nobody = None
    Thread = {t1, t2}
    Timer = {a, b}
    None = None
INVARIANTS ProcessesSound PendingBounded
PROPERTIES StartEnds WorkersComeAndGo NothingStays AllAnswered
CHECK_DEADLOCK FALSE
