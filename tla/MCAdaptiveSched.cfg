SPECIFICATION AdaptiveSpec
CONSTANTS
    c1 = c1
    c2 = c2
    None = None
    CPU = {c1, c2}
    Cpu0 = c1
    NPROC = 3
    MaxTicks = 1
    PRIORITY_DEFAULT = 2
    PRIORITY_MAX = 3
    PRIORITY_MIN = 1
    AGING_RATE = 1
    IntMax = 7
INVARIANTS
    AdaptiveTypeOK
    MostUrgentChosen
    OldestFirst
    IdleJustified
    SchedLocks
    NoLockCycle
    WaitMeasured
PROPERTY CoreSpec
