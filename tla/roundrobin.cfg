CONSTANTS
    A = A
    AAAA = AAAA
    a1 = a1
    a2 = a2
    a3 = a3
    a4 = a4
    b1 = b1
    b2 = b2
    b3 = b3
    Types = {A, AAAA}
    Backends = {a1, a2, a3, a4, b1, b2, b3}
    Lists <- MCLists
    NoBackend = NoBackend
    NoType = NoType
SPECIFICATION RobinSpec
INVARIANTS
    RobinTypeOK
    RoundsAreFair
