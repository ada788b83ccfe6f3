SPECIFICATION PeripherySpec
CONSTANTS
    Instances = {i1, i2, i3}
    Nobody = nobody
    NoReporter = noreporter
    MaxStalls = 1
    MaxBreaks = 2
    MaxSends = 1
    Lengths = {2, 200, 20000, 2097152, 2097153}
    QueueLimit = 3
    BatchLimit = 2
    MaxEntries = 5
    MaxSessions = 2
    Limit = 2
    MaxStarts = 2
    MaxFaults = 1
    Tokens = {t1, t2}
    NoToken = none
    MaxEvents = 2
    Filters = {f1, f2}
    NoFilter = nofilter
    MaxChanges = 3
    MaxErrors = 2
    MaxConnections = 2
    MaxTimeouts = 1
    Reporters = {r1, r2}
    MaxBeats = 3
    MaxHeld = 1
    Policy = "latest"
    Window = 2
    MaxTime = 3
    MaxRestarts = 2
    MaxRefusals = 1
    PacketIds = 3
    InflightLimit = 2
    SendLimit = 2
    MaxAttempts = 2
    MaxCommands = 3
INVARIANTS
    TypesOK
    OneInstance
    LogsAreSent
    QuotaKept
    NewestIsReachable
    BusyIsKept
    UnwrittenIsMarked
    ExecutedOnce
PROPERTIES
    LostIsTold
    CloseReturns
    StreamEnds
    LoopEnds
    RevokedSessionEnds
    TableCatchesUp
    GoneIsOfflineIfFair
    SentIsSettled
CHECK_DEADLOCK FALSE
