SPECIFICATION Spec
CONSTANTS
    p1 = p1
    p2 = p2
    l1 = l1
    l2 = l2
    Process = {p1,p2}
    Log = {l1,l2}
    MaxRunner = 3
    Exclusive = TRUE
    Retries = TRUE
    HasTimeout = TRUE
    MonitorRuns = TRUE
    DbFaults = TRUE
    NoLog = NoLog
SYMMETRY JobSymmetry
INVARIANTS
    TypeOK
    ReclaimedIsDead
PROPERTY
    FinishedIsFinal
