SPECIFICATION Spec
CONSTANTS
    None = None
    NPROC = 4
INVARIANTS
    WaitTypeOK
    NoLostWakeup
    SleeperHasChild
    ParentLive
    ReapSafe
PROPERTIES
    FamilySpec
    WaitReturns
