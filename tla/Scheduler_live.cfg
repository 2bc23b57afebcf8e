SPECIFICATION FairSpec
CONSTANTS
    MaxTasks = 3
    MaxProcesses = 2
    QuantumTicks = 1
    TickMod = 3
    SleepTicks = {2}
    Polls = FALSE
    LateCreate = FALSE
    MaxTid = 3
    MaxPid = 2
INVARIANT
    ThreadCountCoversLive
PROPERTY
    TaskGetsCpu
