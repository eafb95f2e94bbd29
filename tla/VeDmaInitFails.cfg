SPECIFICATION SetupFairSpec
CONSTANTS
    Caller = {t1, t2}
    None = None
CHECK_DEADLOCK FALSE
PROPERTIES
    InitReturns
