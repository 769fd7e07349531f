SPECIFICATION Spec
CONSTANTS
    j1 = j1
    j2 = j2
    j3 = j3
    p = p
    q = q
    r = r
    NoJvm = NoJvm
    NoProject = NoProject
    Jvm = {j1}
    Project = {p}
    Cves <- OneCve
    SlowBoot = FALSE
    MaxRestarts = 1
INVARIANTS
    ScansCompleteProject
CHECK_DEADLOCK FALSE
