SPECIFICATION LiveSpec
CONSTANTS
    Callers = {p1, p2}
    p1 = p1
    p2 = p2
    Levels = {2, 3}
    MaxSize = 2
    MaxBackups = 2
    MaxLines = 6
    Faults = {"stdout", "rename", "open", "crash"}
CHECK_DEADLOCK FALSE
INVARIANTS TypeOK NewestFirst OnlyOldDeleted NeverUndercounts
PROPERTIES LogReturns
