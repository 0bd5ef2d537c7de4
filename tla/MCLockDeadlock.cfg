SPECIFICATION Spec
CONSTANTS
    c1 = c1
    c2 = c2
    None = None
    CPU = {c1, c2}
    Cpu0 = c1
    NPROC = 3
CHECK_DEADLOCK FALSE
INVARIANT NoDeadlock
