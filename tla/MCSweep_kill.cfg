SPECIFICATION Spec
CONSTANTS
    CVE = {1, 2}
    CloneFails = {}
    NoLines = {}
    Explicit = {}
    Endings <- AllReturn
    RunPatched = FALSE
    MaxResumes = 1
    Relaunches = 1
    Faults = {"kill"}
    MaxFaults = 1
PROPERTIES
    FinishedWorkKept
CHECK_DEADLOCK FALSE
