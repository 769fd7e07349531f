SPECIFICATION FairSpec
CONSTANTS
    Task = {t1, t2}
    f1 = f1
    f2 = f2
    s1 = s1
    ghost = ghost
    Function = Function
    Statement = Statement
    Unit <- MCUnit
    Kind <- MCKind
    kindOf <- MCkindOf
    Real <- MCReal
    Related <- MCRelated
    PreloadKinds <- MCPreloadKinds
    Stored <- MCStored
    Offered <- AllRequests
    MaxRequests = 2
    NoTask = NoTask
    NoUnit = NoUnit
INVARIANTS
    TypeOK
    IndexMatchesGraph
    LoadedUnitsPresent
    EdgesSound
PROPERTIES
    RequestsAnswered
CHECK_DEADLOCK FALSE
