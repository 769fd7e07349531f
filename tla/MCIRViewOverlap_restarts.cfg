SPECIFICATION HSpec
CONSTANTS
    Task = {t1, t2}
    f1 = f1
    f2 = f2
    s1 = s1
    ghost = ghost
    Function = Function
    Statement = Statement
    Unit <- MCReal
    Kind <- MCKind
    kindOf <- HCkindOf
    Real <- MCReal
    Related <- MCRelated
    PreloadKinds <- MCPreloadKinds
    Stored <- HCStored
    Offered <- HCRequests
    MaxRequests = 3
    NoTask = NoTask
    NoUnit = NoUnit
SYMMETRY TaskSymmetry
INVARIANTS
    EdgesHaveUnits
    RelationsComplete
    SyncedBeforeClear
    ViewIsCurrent
CHECK_DEADLOCK FALSE
