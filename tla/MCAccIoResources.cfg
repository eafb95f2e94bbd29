SPECIFICATION Spec
CONSTANTS
    Thread = {t1, t2}
    Res = {r1, r2, r3}
    Null = Null
SYMMETRY Symmetry
CHECK_DEADLOCK FALSE
INVARIANTS
    TypeOK
    BuffersExclusive
    ListSound
    NoSelfWait
    ExitReleases
