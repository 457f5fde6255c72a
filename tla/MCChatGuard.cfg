SPECIFICATION Spec
CONSTANTS
    Run = {r1, r2}
    Action = {a1, a2}
    Worker = {c1}
    PubSub = TRUE
    MaxTools = 1
    None = None
SYMMETRY Symmetry
INVARIANTS WakeIsTruth ClaimedIsSeen OneRunActs
CHECK_DEADLOCK FALSE
