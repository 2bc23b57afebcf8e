SPECIFICATION MCSpec
CONSTANTS
    N = 3
    MaxCalls = 2
    Threads = {t0, t1}
    Boot = t0
    StackSize = 36
    Locals = {0, 2}
INVARIANTS
    OperationsAtomic
    InterruptsInvisible
    ArgumentsArrive
PROPERTY
    LockProgress
