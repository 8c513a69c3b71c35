SPECIFICATION LiveSpec
CONSTANTS
    Ids = {i1, i2, i3, i4, i5}
    i1 = i1
    i2 = i2
    i3 = i3
    i4 = i4
    i5 = i5
    MaxAttempts = 2
    Environments = {TRUE, FALSE}
    Installs = {"nothing", "edited"}
    Faults = {"stop", "crash", "read", "dir", "reply", "certs", "config"}
INVARIANTS TypeOK RunsAsItself RestartsAsItself TokenCleared
PROPERTIES BootstrapSticks Settles ComesUp
