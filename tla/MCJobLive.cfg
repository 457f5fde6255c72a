SPECIFICATION FairSpec
CONSTANTS
    p1 = p1
    l1 = l1
    l2 = l2
    Process = {p1}
    Log = {l1,l2}
    MaxRunner = 3
    Exclusive = TRUE
    Retries = TRUE
    HasTimeout = TRUE
    MonitorRuns = TRUE
    DbFaults = TRUE
    NoLog = NoLog
PROPERTY
    OrphanRecovers
