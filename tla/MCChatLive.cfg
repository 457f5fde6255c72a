SPECIFICATION FairSpec
CONSTANTS
    Run = {r1, r2}
    Action = {a1}
    Worker = {c1, c2}
    PubSub = FALSE
    MaxTools = 1
    None = None
INVARIANT WakeNotLost
PROPERTY ConversationFreed
CHECK_DEADLOCK FALSE
