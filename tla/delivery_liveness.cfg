SPECIFICATION FairSpec
CONSTANTS
    t1 = t1
    NoTask = NoTask
    NoRun = NoRun
    NoCommand = NoCommand
    Commands = {c1}
    TaskOf <- OneTaskOf
    RunOf <- OwnRunOf
    Readers = {r1}
    MaxAttempts = 2
    BatchSize = 1
    MaxHistory = 1
    FaultKinds = {"server", "phone", "db", "loss", "ttl"}
    MaxFaults = 1
PROPERTIES
    LiveRowSettles
    QueuedAckIsConfirmed
