SPECIFICATION Spec
CONSTANTS
    Batches <- MCBatches
    SizeOf <- MCSizeOf
    Times <- MCTimes
    MaxSize = 3
    Faults = {"walk", "write", "read", "remove"}
INVARIANTS TypeOK
PROPERTIES GrowsWithinLimit PruneRemovesOldest
