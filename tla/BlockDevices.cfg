\* The parts stop when their bounds are reached.
SPECIFICATION Spec
CONSTANTS
    Depth = 2
    CidMod = 3
    PageCells = 2
    ListEntries = 2
    MemCells = 8
    NvmeBlocks = 6
    MaxCommands = 6
    IdeSectors = 3
    LbaMod = 4
    Buffer = 2
    MaxCalls = 3
    RingSize = 4
    EventSize = 4
    TableSize = 3
    Handler = TRUE
    MaxGiveUps = 2
    UsbBlocks = 2
    MaxRequests = 3
    DeviceTable = 6
    MaxPartitions = 5
    NameParts = 2
INVARIANTS TransfersExact UsbAnswerComes PartitionsConfined DeviceTableAgrees
PROPERTY NvmeReturns
CHECK_DEADLOCK FALSE
