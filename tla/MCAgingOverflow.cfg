SPECIFICATION AdaptiveSpec
CONSTANTS
    c1 = c1
    None = None
    CPU = {c1}
    Cpu0 = c1
    NPROC = 2
    MaxTicks = 2
    PRIORITY_DEFAULT = 2
    PRIORITY_MAX = 3
    PRIORITY_MIN = 1
    AGING_RATE = 6
    IntMax = 7
INVARIANT KilledIsFound
