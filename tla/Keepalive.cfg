SPECIFICATION FairSpec
CONSTANTS
    j1 = j1  j2 = j2  j3 = j3
    NoJob = NoJob
    Tasks = {"app", "web"}
    Jobs = {j1, j2, j3}
    AppInterval = 2
    WebInterval = 3
    Interval <- MCInterval
    FirstDelay = 2
    MaxBackoff = 4
    Wanted <- MCWanted
    PortalPauses = {2}
    MaxFailures = 2
    MaxEvents = 2
INVARIANTS TypeOK OneLife
PROPERTIES Spaced BacksOff KeepsAlive
CHECK_DEADLOCK FALSE
