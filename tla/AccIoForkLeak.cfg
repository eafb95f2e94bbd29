SPECIFICATION Spec
CONSTANTS
    Thread = {t1, t2}
    Res = {r1, r2}
    Null = Null
CHECK_DEADLOCK FALSE
INVARIANTS
    ChildClean
