SPECIFICATION TimingSpec
CONSTANTS
    MaxTasks = 2
    MaxProcesses = 2
    QuantumTicks = 2
    TickMod = 4
    SleepTicks = {2}
    Polls = FALSE
    LateCreate = FALSE
    MaxTid = 3
    MaxPid = 3
INVARIANT
    WokenOnTimeIfPreempted
