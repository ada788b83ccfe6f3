SPECIFICATION Spec
CONSTANTS
    r1 = r1
    r2 = r2
    t1 = t1
    t2 = t2
    s1 = s1
    s2 = s2
    None = None
    Runs = {r1, r2}
    Tasks = {t1, t2}
    TaskOf <- OwnTask
    Scripts = {s1, s2}
    Hid = TRUE
    Direct = TRUE
    MaxDisturbances = 2
SYMMETRY Symmetry
INVARIANTS
    OneEndPerRun
    CurrentIsJournaled
    BegunIsAccounted
CHECK_DEADLOCK FALSE
