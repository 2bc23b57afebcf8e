SPECIFICATION CallSpec
CONSTANTS
    NameLen <- MCNameLen
    PathSize = 8
    Bytes = {x, y}
    MinCapacity = 1
    MaxSize = 3
    MaxWrite = 2
    Rooms = {0, 1, 3}
    MaxInodes = 5
    MaxFds = 2
    RawPaths <- MCPaths
    Seeds <- MCSeeds
    Flags <- MCFlags
    Workloads <- MCWorkloads
SYMMETRY ByteSymmetry
INVARIANTS
    TablesWellFormed
    CallsAsPromised
PROPERTY
    HandlesStable
CHECK_DEADLOCK FALSE
