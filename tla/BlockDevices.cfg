SPECIFICATION Spec
CONSTANTS
    None = None
    Sectors = 4
    MaxLength = 3
    Starts = {0, 2}
    MaxCalls = 2
    MaxSectors = 2
    BlkLen = 3
    CommandSlots = 2
    Chunk = 2
    BlockLength = 2
    Sizes = {0, 6, 7}
    blksize = 3
    MaxRead = 7
    Seeks <- MCSeeks
    SectorLen = 2
    BlkSizes = {2, 4}
    Capacity = 6
    PartTables <- MCPartTables
    Spans = {0, 1, 2, 4}
    BlkCalls = 3
    PageSize = 4
    MemoryPages = 4
    Images <- MCImages
    Offsets = {0, 5, 7, 8, 9}
    Disks = {0, 1}
    Parts = {0, 1}
    Tables <- MCTables
    Blocks = 3
    MaxBlocks = 2
    MaxId = 3
    CopyIds = 2
INVARIANTS
    Transferred
    BufferInStep
    SdReadyForNext
    StreamOfBytes
    UsersApart
PROPERTIES
    OnlyTheSectorsAsked
    EveryCallReturns
CHECK_DEADLOCK FALSE
