SPECIFICATION Spec
CONSTANTS
    d1 = d1
    r1 = r1
    r2 = r2
    Action = {d1}
    DbAction = {d1}
    FileAction = {}
    Request = {r1, r2}
    Sweeper = Sweeper
    NoProc = NoProc
    NoAct = NoAct
    NoTxn = NoTxn
SYMMETRY RequestSymmetry
INVARIANTS
    TypeOK
    EffectMatchesRecord
    AnswersAreFacts
    SettledFactsBind
PROPERTIES
    AnnotatedIsFrozen
    ImplementsOutcome
