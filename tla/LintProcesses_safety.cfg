SPECIFICATION Spec
CONSTANTS
    Numbers = {n1, n2, n3}
    Nobody = nobody
    Newest = 6
SYMMETRY Interchangeable
INVARIANTS
    SweepsSpareOthers
    KnownAreSwept
CHECK_DEADLOCK FALSE
