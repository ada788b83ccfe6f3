SPECIFICATION FairSpec
CONSTANTS
    Sockets = {"w1", "w2"}
    Transports = {"m1", "m2"}
    None = None
    Mqtt = TRUE
    MaxFaults = 1
INVARIANTS
    OneMainChannel
PROPERTIES
    StaysOnline
CHECK_DEADLOCK FALSE
