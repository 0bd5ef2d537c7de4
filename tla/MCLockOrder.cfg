SPECIFICATION Spec
CONSTANTS
    c1 = c1
    c2 = c2
    c3 = c3
    None = None
    CPU = {c1, c2, c3}
    Cpu0 = c1
    NPROC = 2
INVARIANTS
    LocksPaired
    WaitLockFirst
    OnlyTicksDeadlock
CHECK_DEADLOCK FALSE
