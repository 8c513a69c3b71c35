SPECIFICATION Spec
CONSTANTS
    Points = {p1, p2, p3}
    p1 = p1
    p2 = p2
    p3 = p3
    c1 = c1
    Collectors = {c1}
    BatchSize = 2
    MaxRetries = 1
    MaxSize = 4
    Times <- MCTimes5
    Faults = {"read"}
SYMMETRY PointSymmetry
PROPERTIES ClearedAfterTransmission
