SPECIFICATION MCSpec
CONSTANTS
    ExpansionGuard = 3
    Programs <- MCPrograms
    MemSize = 56
    MaxSteps = 30
    SectorBytes = 8
    SectorsPerCluster = 2
    RootSectors = 2
    BootSectors = 36
    Alignment = 4
    Unit = 4
    SectorWords = 2
    LineMax = 5
    BufferSectors = 6
    NoDisk = NoDisk
    RingSize = 3
    MaxKeys = 4
    Keys = {"a", " "}
    MaxLine = 3
    Capacity = 2
    MaxLines = 3
    Bytes = {0, 1, 2}
    MaxInodes = 6
    MaxFds = 2
    MaxPath = 8
    MaxSegments = 3
    Chunk = 2
    LdEntries = 2
    StatEntries = 1
    BufferMax = 2
    MaxCommands = 2
INVARIANT
    AbsoluteRunsAsWritten
CHECK_DEADLOCK FALSE
