SPECIFICATION FairSpec
CONSTANTS
    d1 = d1
    Devices = {d1}
    Reliable = TRUE
    Requests = {"cron"}
    MaxRequests = 1
    MaxDisturbances = 0
PROPERTIES
    RunningRowEnds
CHECK_DEADLOCK FALSE
