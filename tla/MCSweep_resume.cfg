SPECIFICATION FairSpec
CONSTANTS
    CVE = {1, 2, 3, 4, 5, 6}
    CloneFails = {4}
    NoLines = {5}
    Explicit = {6}
    Endings <- MCEndings
    RunPatched = TRUE
    MaxResumes = 2
    Relaunches = 1
    Faults = {"kill", "oserror", "sigint"}
    MaxFaults = 2
INVARIANTS
    TypeOK
    OneRowPerCve
    CompleteWhenDone
PROPERTIES
    RecordsResults
    WrapperStops
CHECK_DEADLOCK FALSE
