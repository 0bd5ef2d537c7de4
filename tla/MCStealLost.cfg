SPECIFICATION StealSafetySpec
CONSTANTS
    c1 = c1
    c2 = c2
    None = None
    CPU = {c1, c2}
    Absent = {}
    Attempts = 1
    NPROC = 3
    MAX_TASKS = 3
INVARIANTS
    NoWakeupLost
SYMMETRY CpuSymmetry
