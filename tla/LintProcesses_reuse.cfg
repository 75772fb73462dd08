SPECIFICATION Spec
CONSTANTS
    Numbers = {n1, n2, n3}
    Nobody = nobody
    Newest = 4
SYMMETRY Interchangeable
INVARIANT ReusedSpared
CHECK_DEADLOCK FALSE
