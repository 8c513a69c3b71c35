SPECIFICATION ServiceLiveSpec
CONSTANTS
    Platforms <- MCPlatforms
CHECK_DEADLOCK FALSE
INVARIANTS ServiceTypeOK
PROPERTIES RemovedStaysDown InstallSucceeds
