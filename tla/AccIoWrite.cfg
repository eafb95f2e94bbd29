SPECIFICATION FairSpec
CONSTANTS
    NParas = 2
    Paras = 2
    MaxCount = 9
    MaxIov = 3
    MaxLen = 3
INVARIANTS
    TypeOK
    Written
    CountedExactly
    SystemErrorIsClean
PROPERTIES
    UsesDma
    Returns
