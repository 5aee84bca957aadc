SPECIFICATION Spec
CONSTANTS
    NumData = 2
    NumParity = 2
    CellSize = 6
    ChunkSize = 2
    ChunksPerPacket = 2
    BlockSize = 12
    Works <- MCWorks
    IntHalf = 32
    ReadSizes = {7}
    SeekTargets = {3, 20}
    MaxReads = 3
INVARIANTS Durable WriteSurvives ReadIsExact ReadNeedsNoMore
