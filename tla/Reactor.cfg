SPECIFICATION MCSpec
CONSTANTS
    Thread = {t1, t2}
    None = None
    Timer = {a, b}
    Intervals = {0, 1, 2}
    Repetitions = {0, 2}
    MaxTime = 3
    MaxWrites = 3
    MaxConn = 2
    MaxWritesEach = 1
    Hangups = TRUE
    MaxProtocols = 2
    MaxAttackers = 1
    MaxForced = 1
    UserTasks = 1
    Arena = {a1, a2}
    Mapping = {b1, b2}
    PerChunk = 2
    Slices = 2
    Sizes = {1, 2}
    MaxPieces = 2
    Borrower = {x, y, z}
    PoolLength = 2
    PoolRetry = 1
    Wild = Wild
    Job = {t, u}
    Block = {s, b1, b2}
    StaticBlock = s
    BlockLength = 2
SYMMETRY Symmetry
INVARIANTS TasksSound MemorySound BytesInOrder NothingForgotten UsedByOne RequestsIntact
PROPERTIES ImplementsFifo RunsAsAsked
CHECK_DEADLOCK FALSE
