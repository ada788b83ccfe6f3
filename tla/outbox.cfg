SPECIFICATION FairSpec
CONSTANTS
    Names = {"a"}
    Threads = {"reader", "timer"}
    MaxItems = 1
    MaxBytes = 3
    Batch = 1
    MaxQueued = 2
    MaxOverlaps = 1
    MaxFaults = 1
    FaultKinds = {"crash", "read", "store", "ttl", "loss"}
INVARIANTS
    KeptUntilSettled
    OutboxIsBounded
PROPERTIES
    KeptEventsSettle
CHECK_DEADLOCK FALSE
