SPECIFICATION LiveSpec
CONSTANTS
    Points = {p1, p2}
    p1 = p1
    p2 = p2
    c1 = c1
    c2 = c2
    Collectors = {c1, c2}
    BatchSize = 2
    MaxRetries = 2
    MaxSize = 3
    Times <- MCTimes4
    Faults = {"walk", "write", "remove"}
INVARIANTS TypeOK
PROPERTIES KeepsDeliveryPromise ClearedAfterTransmission SendReturns EventuallyDelivered
