SPECIFICATION FairSpec
CONSTANTS
    Thread = {t1, t2}
    Handle = {h1, h2}
    NDesc = 2
    Exc = {ok}
    Null = Null
    Sync = Sync
INVARIANTS
    TypeOK
    OwnersTracked
PROPERTIES
    RunningOwnerKept
    NoLateHandleWrite
    Implements
    SyncReturns
