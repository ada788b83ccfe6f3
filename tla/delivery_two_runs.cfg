SPECIFICATION Spec
CONSTANTS
    t1 = t1
    NoTask = NoTask
    NoRun = NoRun
    NoCommand = NoCommand
    Commands = {c1, c2}
    TaskOf <- OneTaskOf
    RunOf <- OwnRunOf
    Readers = {r1}
    MaxAttempts = 1
    BatchSize = 1
    MaxHistory = 2
    FaultKinds = {}
    MaxFaults = 0
SYMMETRY CommandSymmetry
CONSTRAINT FewInFlight
INVARIANTS
    SingleLiveRun
