SPECIFICATION LiveSpec
CONSTANTS
    cpu = cpu
    gpu = gpu
    Collectors = {cpu, gpu}
    Defaults <- MCDefaults
    Hanging = {gpu}
    MaxJobs = 3
    MaxListed = 3
CHECK_DEADLOCK FALSE
INVARIANTS TypeOK ListedCollects
PROPERTIES StopEnds JobsEnd
