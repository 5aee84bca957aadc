CONSTANTS
    ChunkSize = 2
    PacketChunks = 2
    BlockSize = 6
    MaxFile = 10
    MaxOpens = 3
SPECIFICATION Spec
INVARIANTS
    FlushedIsDurable
    ChecksumCoversChunk
    CloseEndsFile
PROPERTIES
    PacketsContinueBlock
