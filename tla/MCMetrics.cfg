SPECIFICATION MetSpec
CONSTANTS
    c1 = c1
    c2 = c2
    None = None
    CPU = {c1, c2}
    Cpu0 = c1
    NPROC = 3
    Measured = {2}
    MaxTicks = 2
    MaxSwitches = 3
INVARIANTS
    Handoff
    RunningHasCpu
    ForkOwnsChild
    MetricsTypeOK
    SwitchesCoverRuntime
    TurnaroundInLife
PROPERTY AbsSpec
