SPECIFICATION Spec
CONSTANTS
    Request = {r1, r2}
    Password = {p1, p2}
    Address = {a1, a2}
    MaxTries = 1
    MaxCode = 2
    MaxVersion = 2
    FileRows = 3
    Chunk = 2
    Tenant = {1, 2}
    IdemKey = {k1}
    Body = {b1, b2}
    MaxControls = 3
    MaxOld = 1
    Dept = {1, 2, 3, 4}
    FirstTree <- TwoChildren
    FirstHome <- RootAndChild
    MaxLevel = 3
    MaxAsks = 2
    DictType = {t1, t2}
    Datum = {d1}
    Word = {w1, w2}
SYMMETRY Symmetry
INVARIANTS
    SessionsHold
    RecoveryHolds
    ImportHolds
    TenantsHold
    DepartmentsHold
    GrantsHold
    WordsHold
PROPERTIES
    DeletionHolds
    MenusHold
CHECK_DEADLOCK FALSE
