CONSTANTS
    r1 = r1
    r2 = r2
    r3 = r3
    Requests = {r1, r2, r3}
    NULL = NULL
SPECIFICATION Spec
SYMMETRY Symmetry
INVARIANTS
    Represents
