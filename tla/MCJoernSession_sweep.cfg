SPECIFICATION FairSpec
CONSTANTS
    j1 = j1
    j2 = j2
    j3 = j3
    p = p
    q = q
    r = r
    NoJvm = NoJvm
    NoProject = NoProject
    Jvm = {j1, j2, j3}
    Project = {p, q, r}
    Cves <- TwoCves
    SlowBoot = TRUE
    MaxRestarts = 2
INVARIANTS
    TypeOK
    NoPortCascade
    OwnServer
    CleanRunLeavesNothing
PROPERTIES
    SweepEnds
CHECK_DEADLOCK FALSE
