SPECIFICATION Spec
CONSTANTS
    c1 = c1
    c2 = c2
    c3 = c3
    c4 = c4
    c5 = c5
    p1 = p1
    p2 = p2
    p3 = p3
    p4 = p4
    t2 = t2
    Commit <- Commits
    NoCommit = NoCommit
    Path = {"NEWS", "run.py", "util.py"}
    NoPath = ""
    Python = {"run.py", "util.py"}
    Sink = {"system", "popen", "run"}
    SinkPatterns <- MCSinkPatterns
    Diff <- MCDiff
    Cve <- Cves
    Numbered = {c1, c2, c3, c5}
    Refs = {"direct1", "tag2", "pull3", "direct3", "direct4", "nothing"}
    Links <- MCLinks
    Repo = {"r", "q"}
    NoRepo = NoRepo
    Severity = {"low", "high"}
    NoSeverity = NoSeverity
    Nvd <- MCNvd
    Advisories <- MCAdvisories
    Shipped <- MCShipped
    TargetN = 2
    MinPerLocBin = 1
    MinPerSink = 1
    MinPerSeverity = 1
    LocLimits <- MCLocLimits
    MaxCommands = 3
    MaxFaults = 1
    MaxKills = 1
    Osv <- MCOsv
    NvdCandidates <- MCNvdCandidates
    SupplementTarget = 4
    Sizes = {2}
    TrainingSize <- MCTrainingSize
    Skips <- MCSkips
    Onlys <- MCOnlys
    SeedReplies <- MCSeedReplies
    CatalogReplies <- MCCatalogReplies
    MaxDeaths = 1
INVARIANTS
    OneEntryPerCve
    ValidatedIsUsable
    LocationFromPatch
    AdvisoriesAccounted
    SampleIsStratified
    LeaksAreBorrowed
CHECK_DEADLOCK FALSE
