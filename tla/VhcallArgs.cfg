SPECIFICATION FairSpec
CONSTANTS
    Node = {n1, n2, n3}
    Number = {0, 1, 2, 3}
    Value = {zero, c}
    Complex = {c}
    Zero = zero
    Null = Null
INVARIANTS
    TypeOK
    MemorySafe
PROPERTIES
    Implements
    CallsReturn
