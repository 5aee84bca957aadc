SPECIFICATION Spec
CONSTANTS
    Locations <- MCLocations
    LocalNodes = {"dn1"}
    ChunkSize = 2
    PacketSize = 2
    LocalBufferSize = 1
    BlockSize = 4
    PrefetchSize = 4
    MaxGetBlockInfoRetry = 2
    MaxReadBlockRetry = 2
    MaxSkip = 2
    CacheSize = 1
    ReadSizes = {1, 5}
    SeekTargets = {0, 3, 6, 8}
    MaxCalls = 4
    MaxFaults = 1
    MaxExpiries = 1
    MaxLength = 6
    Scenarios <- MCScenarios
INVARIANTS BytesAreTheFiles EndOfFileIsReal GoodReplicaIsRead RoundsAreBounded
