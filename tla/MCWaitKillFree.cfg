SPECIFICATION SafetySpec
CONSTANTS
    None = None
    NPROC = 3
INVARIANT KilledIsProcess
