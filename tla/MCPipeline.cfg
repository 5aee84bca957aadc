CONSTANTS
    DN = {d1, d2, d3}
    Replication = 2
    PoolSize = 2
    BlockWriteRetry = 1
    CanAddDatanode = TRUE
    AppendLen = 1
    MaxBytes = 2
    MaxPackets = 4
    MaxFaults = 2
SPECIFICATION Spec
SYMMETRY DatanodeSymmetry
INVARIANTS
    AckedIsOnEveryNode
    NoGapOnDatanode
    ClosedBlockIsComplete
    DroppedReplicasAreStale
    AssertionsHold
PROPERTIES
    ImplementsBlockWriter
