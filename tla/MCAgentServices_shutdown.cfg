SPECIFICATION LiveSpec
CONSTANTS
    cpu = cpu
    gpu = gpu
    p1 = p1
    p2 = p2
    Collectors = {cpu, gpu}
    Defaults <- MCDefaults
    Hanging = {gpu}
    MaxJobs = 2
    MaxListed = 2
    Policies = {p1, p2}
    Default = default
CHECK_DEADLOCK FALSE
INVARIANTS TypeOK NeverPanics
PROPERTIES WindsDown SignalEnds PolicyArrives
