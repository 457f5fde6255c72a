SPECIFICATION Spec
CONSTANTS
    Call = {c1, c2, c3}
    Subject = {s}
    Request = {r1, r2}
    Limit <- TwoCalls
    Threshold = 2
    MaxDay = 1
    Slots = 2
    Address = {"good", "bad"}
    Allowed = {"good"}
    MaxCalls = 4
    Resume = {1, 2}
    MaxTurns = 2
    MaxRevokes = 1
    Question = {1}
    MaxRoutes = 1
    MaxEvents = 2
    MaxText = 1
    Provider = {"p1"}
    Model = {"m1", "m2"}
    Home <- OneProvider
    MaxPolicies = 3
    Trigger = {"g1", "g2"}
    MaxJobs = 3
    MaxStarts = 2
    Assign = {"t1"}
    Proc = {"p1"}
    Reader = {"q1"}
    MaxSaves = 2
    MaxConfig = 1
    Export = {"e1", "e2"}
    AiExport = {"e1"}
    Upload = {"f1"}
    MaxCrashes = 1
SYMMETRY Symmetry
INVARIANTS
    QuotaHolds
    ProjectionHolds
    EgressHolds
    StreamHolds
    ResumeHolds
    ScheduleHolds
    FilesHold
PROPERTIES
    GatewayHolds
    PoliciesHold
    SettingsHold
CHECK_DEADLOCK FALSE
