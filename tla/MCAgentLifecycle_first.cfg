SPECIFICATION Spec
CONSTANTS
    Ids = {i1, i2, i3, i4, i5}
    i1 = i1
    i2 = i2
    i3 = i3
    i4 = i4
    i5 = i5
    MaxAttempts = 2
    Environments = {TRUE}
    Installs = {"nothing"}
    Faults = {"stop"}
SYMMETRY IdSymmetry
INVARIANTS FirstStartRuns
