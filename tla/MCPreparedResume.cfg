SPECIFICATION Spec
CONSTANTS
    d1 = d1
    r1 = r1
    Action = {d1}
    DbAction = {d1}
    FileAction = {}
    Request = {r1}
    Sweeper = Sweeper
    NoProc = NoProc
    NoAct = NoAct
    NoTxn = NoTxn
INVARIANT
    EverySettledFactBinds
