SPECIFICATION Spec
CONSTANTS
    Thread = {t1, t2}
    Ctx = {c1}
    MaxRequest = 2
    None = None
INVARIANTS
    OneOutcome
