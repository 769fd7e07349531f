SPECIFICATION Spec
CONSTANTS
    Task = {t1}
    f1 = f1
    f2 = f2
    s1 = s1
    ghost = ghost
    Function = Function
    Statement = Statement
    Unit <- MCUnit
    Kind <- MCKind
    kindOf <- MCkindOf
    Real <- MCReal
    Related <- MCRelated
    PreloadKinds <- MCPreloadKinds
    Stored <- MCStored
    Offered <- LookUps
    MaxRequests = 3
    NoTask = NoTask
    NoUnit = NoUnit
INVARIANTS
    AllNodesTracked
CHECK_DEADLOCK FALSE
