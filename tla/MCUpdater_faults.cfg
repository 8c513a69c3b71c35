SPECIFICATION Spec
CONSTANTS
    Versions = {v1, v2, v3}
    v1 = v1
    v2 = v2
    v3 = v3
    Platforms = {"linux", "darwin", "windows"}
    RestartFirst = TRUE
    MaxCalls = 6
    Faults = {"download", "corrupt", "backup", "swap", "undo", "chmod", "remove", "restore", "crash"}
SYMMETRY VersionSymmetry
CHECK_DEADLOCK FALSE
INVARIANTS TypeOK OnlyVerified CopyStays
PROPERTIES FailureKeeps RollbackRestores
