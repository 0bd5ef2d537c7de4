SPECIFICATION LptSpec
CONSTANTS
    c1 = c1
    c2 = c2
    None = None
    CPU = {c1, c2}
    NPROC = 3
    RtimeBound = 1
    Boots <- MCBoots
INVARIANTS
    LptTypeOK
    IdleJustified
    WaitingIsListed
PROPERTIES
    CoreSpec
    SortsDescending
    RunnableRuns
