SPECIFICATION Spec
CONSTANTS
    NPROC = 2
    TickMod = 6
    Pauses <- MCPauses
    Increments <- MCIncrements
    Growing = {2}
    Lag = 1
    UintMod = 16
    IntMax = 3
    TRAPFRAME = 9
    Word = 2
INVARIANTS
    SysTypeOK
    NoOversleep
    KilledStops
    SizeSound
PROPERTIES
    PauseNotEarly
    KilledExits
