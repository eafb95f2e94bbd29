SPECIFICATION FairSpec
CONSTANTS
    Thread = {t1, t2}
    Ctx = {c1, c2}
    MaxRequest = 2
    None = None
INVARIANTS
    TypeOK
    OneRequest
    NotStale
    ReleasedQuiet
PROPERTIES
    ActiveEnds
