SPECIFICATION LiveSpec
CONSTANTS
    Callers = {p1, p2}
    p1 = p1
    p2 = p2
    Levels = {1, 2}
    MaxSize = 2
    MaxBackups = 2
    MaxLines = 4
    Faults = {}
CHECK_DEADLOCK FALSE
PROPERTIES LogReturns
