SPECIFICATION Spec
CONSTANTS
    d1 = d1
    Devices = {d1}
    Reliable = FALSE
    Requests = {"cron", "start", "push", "stop", "reset", "release"}
    MaxRequests = 2
    MaxDisturbances = 1
INVARIANTS
    DoneIsEarned
    FailedIsEarned
CONSTRAINT FewerUnderWay
CHECK_DEADLOCK FALSE
