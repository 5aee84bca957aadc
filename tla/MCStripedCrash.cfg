SPECIFICATION Spec
CONSTANTS
    NumData = 2
    NumParity = 1
    CellSize = 6
    ChunkSize = 2
    ChunksPerPacket = 2
    BlockSize = 12
    Works <- OneGroup
    IntHalf = 32
    ReadSizes = {7}
    SeekTargets = {3}
    MaxReads = 1
INVARIANTS PipelineHasSocket
