SPECIFICATION Spec
CONSTANTS
    p1 = p1
    l1 = l1
    l2 = l2
    Process = {p1}
    Log = {l1,l2}
    MaxRunner = 2
    Exclusive = TRUE
    Retries = TRUE
    HasTimeout = FALSE
    MonitorRuns = TRUE
    DbFaults = FALSE
    NoLog = NoLog
INVARIANT
    RunningIsExecuted
