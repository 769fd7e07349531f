SPECIFICATION Spec
CONSTANTS
    CVE = {1, 2}
    CloneFails = {}
    NoLines = {}
    Explicit = {}
    Endings <- FirstHangs
    RunPatched = FALSE
    MaxResumes = 4
    Relaunches = 0
    Faults = {}
    MaxFaults = 0
INVARIANTS
    OthersRecorded
CHECK_DEADLOCK FALSE
