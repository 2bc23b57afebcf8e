SPECIFICATION MCSpec
CONSTANTS
    MaxFrames = 12
    PageSize = 4
    WideMod = 128
    LowEnd = 4
    Kernels <- MCKernels
    Entries <- MCEntries
    MaxEntries = 2
    Dirs = 4
    PerTable = 2
    MaxTables = 3
    IdentityPages = 2
    Users = {FALSE}
    Clones = {p, q}
    TlbSize = 0
    NoEntry = NoEntry
    HeapStart = 2
    HeapLimit = 8
    Devices = {99}
    PagesDirs = 3
    PagesTables = 2
    PagesFrames = {0, 1}
    PagesClones = {p}
    PagesTlb = 1
    BlockPage = 16
    BlockStart = 16
    BlockLimit = 96
    HeaderSize = 4
    NodeSize = 2
INVARIANTS
    PoolExact
    HeapBacked
    FramesAccounted
    TranslationsAgree
    HeapWellFormed
PROPERTIES
    UsesPmm
    NoBytesLost
    PageMapSpec
CHECK_DEADLOCK FALSE
