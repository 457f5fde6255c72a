SPECIFICATION Spec
CONSTANTS
    Run = {r1}
    Action = {a1}
    Worker = {c1}
    PubSub = FALSE
    MaxTools = 1
    None = None
PROPERTY NotifySparesStream
CHECK_DEADLOCK FALSE
