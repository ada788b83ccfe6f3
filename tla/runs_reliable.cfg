SPECIFICATION Spec
CONSTANTS
    d1 = d1
    Devices = {d1}
    Reliable = TRUE
    Requests = {"cron"}
    MaxRequests = 2
    MaxDisturbances = 0
INVARIANTS
    DoneIsEarned
CHECK_DEADLOCK FALSE
CONSTRAINT FewUnderWay
