SPECIFICATION Spec
CONSTANTS
    p1 = p1
    p2 = p2
    a1 = a1
    a2 = a2
    a3 = a3
    n1 = n1
    n2 = n2
    Programs = {p1, p2}
    Names = {n1, n2}
    Memory = {a1, a2, a3}
    MaxFiles = 3
SYMMETRY Symmetry
INVARIANTS
    TypeOK
    ListingComplete
    LockHeld
