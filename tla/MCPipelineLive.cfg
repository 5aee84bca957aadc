CONSTANTS
    DN = {d1, d2}
    Replication = 2
    PoolSize = 2
    BlockWriteRetry = 1
    CanAddDatanode = TRUE
    AppendLen = 1
    MaxBytes = 1
    MaxPackets = 4
    MaxFaults = 2
SPECIFICATION FairSpec
PROPERTIES
    CallReturns
