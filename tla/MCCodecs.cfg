SPECIFICATION MCSpec
CONSTANTS
    Policies = {1, 2, 4}
    Reused = {2, 4}
    UnitLength = 1
    Int32Max = 4000000
    Int64Max = 6000000
    NumberOf <- MCNumberOf
    Files <- MCFiles
    DefaultFile <- MCDefaultFile
    NameNodes <- MCNameNodes
    UriOf <- MCUriOf
    Settings <- MCSettings
    UserNames <- MCUserNames
    Principals <- MCPrincipals
    Tokens <- MCTokens
    TokenOf <- MCTokenOf
    Port = 1
    LocalUser <- MCLocalUser
    TicketCache <- MCTicketCache
    Directories <- MCDirectories
    HaKey <- MCHaKey
    HaAddresses <- MCHaAddresses
    BlockSizes <- MCBlockSizes
    MaxSets = 4
    Int32Bound = 100000
    WRITEBUFFER_INIT_SIZE = 16
    TokenBufferSize = 150
INVARIANTS
    CoderDecodedIsOriginal
    
    MessagesSurvive
    NamesAreResolved
CHECK_DEADLOCK FALSE
