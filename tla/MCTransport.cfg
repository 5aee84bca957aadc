SPECIFICATION Spec
CONSTANTS
    HeaderSize = 3
    Word = 2
    ChunkSize = 2
    Shapes = {1, 2, 3}
    PoolSize = 1
    MaxPackets = 3
    Addresses = 2
    Timeouts <- MCTimeouts
    Capacities = {0, 1, 4}
    VarintBase = 4
    Frames <- MCFrames
    MaxWait = 5
    MaxSignals = 1
    Workers = {w1, w2}
    Tasks = {t1, t2, t3}
    FileSize = 3
    MaxReaders = 3
    Cells = 2
    CellSize = 2
    Growth = 3
    Offers <- MCOffers
    Rounds <- MCRounds
    MaxTries = 2
    MaxConnects = 2
    Callers <- MCCallers
    MaxCalls = 4
INVARIANTS
    WireIsExact
    WaitsEnd
    ReadersGetTheirOwn
    CallsAreAuthenticated
CHECK_DEADLOCK FALSE
