SPECIFICATION SetupSpec
CONSTANTS
    Caller = {t1, t2, t3}
    None = None
CHECK_DEADLOCK FALSE
INVARIANTS
    SetupTypeOK
    RingUsedMapped
    RingLockAlive

    
