SPECIFICATION FairSpec
CONSTANTS
    d1 = d1
    d2 = d2
    Devices = {d1, d2}
    Reliable = FALSE
    Requests = {"cron", "repair"}
    MaxRequests = 1
    MaxDisturbances = 0
INVARIANTS
    RunningRowIsWatched
PROPERTIES
    RunningRowEnds
CHECK_DEADLOCK FALSE
