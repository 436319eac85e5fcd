SPECIFICATION TreeSpec
CONSTANTS
    Addr = {a1, a2, a3, a4, a5}
    NULL = NULL
    Id = {1, 2, 3, 4, 5}
    Text = {t1, t2}
SYMMETRY Symmetry
INVARIANTS SearchTree
PROPERTIES OnlyTypedId
CHECK_DEADLOCK FALSE
