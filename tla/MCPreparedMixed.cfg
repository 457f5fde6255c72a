SPECIFICATION Spec
CONSTANTS
    f1 = f1
    q1 = q1
    r1 = r1
    Action = {f1, q1}
    DbAction = {}
    FileAction = {f1}
    Request = {r1}
    Sweeper = Sweeper
    NoProc = NoProc
    NoAct = NoAct
    NoTxn = NoTxn
INVARIANTS
    NoPhantomFailure
    CardIsTrue
    DeletedIsSettled
PROPERTIES
    TerminalIsFinal
