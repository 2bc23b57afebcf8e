SPECIFICATION SpecLines
CONSTANTS
    Tasks = {t0, t1}
    Boot = t0
    StackSize = 36
    Locals = {0, 2}
INVARIANT
    InterruptsInvisible
