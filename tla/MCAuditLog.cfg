SPECIFICATION Spec
CONSTANTS
    e1 = e1
    e2 = e2
    e3 = e3
    e4 = e4
    Events = {e1, e2, e3, e4}
    MaxTime = 2
SYMMETRY EventSymmetry
CHECK_DEADLOCK FALSE
INVARIANTS TypeOK AckedKept InOrder
