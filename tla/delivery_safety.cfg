SPECIFICATION Spec
CONSTANTS
    t1 = t1
    NoTask = NoTask
    NoRun = NoRun
    NoCommand = NoCommand
    Commands = {c1}
    TaskOf <- OneTaskOf
    RunOf <- OwnRunOf
    Readers = {r1, r2}
    MaxAttempts = 2
    BatchSize = 1
    MaxHistory = 1
    FaultKinds = {"server", "phone", "db", "load", "store", "overlap", "duplicate", "loss", "eviction"}
    MaxFaults = 2
SYMMETRY ReaderSymmetry
INVARIANTS
    AcknowledgedWasClaimed
    ExecutedAtMostOnce
    SendsBounded
PROPERTIES
    TerminalIsFinal
    ImplementsContract
