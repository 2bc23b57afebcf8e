SPECIFICATION TimingSpec
CONSTANTS
    MaxTasks = 2
    MaxProcesses = 2
    QuantumTicks = 2
    TickMod = 4
    SleepTicks = {2}
    Polls = TRUE
    LateCreate = TRUE
    MaxTid = 3
    MaxPid = 2
INVARIANTS
    StacksNotMixed
    AddressSpaceFollowsTask
    WokenOnTime
PROPERTIES
    ExitedNeverResumes
    NeverReturnsEarly
