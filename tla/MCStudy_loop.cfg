SPECIFICATION FairSpec
CONSTANTS
    a = a
    b = b
    w = w
    req = req
    arg = arg
    self = self
    Site <- Sites
    Source <- Sources
    NoSource = NoSource
    SourcesCap = 2
    Name <- Names
    NoName = NoName
    Short <- Shorts
    Cleaned <- MCCleaned
    ShortName <- MCShortName
    CallSource = {"input"}
    Seed <- MCSeed
    Call <- MCCall
    CallName <- MCCallName
    Prefixes <- MCPrefixes
    Flow <- MCFlow
    Callers <- MCCallers
    Callees <- MCCallees
    BodyCalls <- MCBodyCalls
    DirectCap = 2
    RelaxedCap = 3
    DefUseCap = 2
    Rule <- MCRules
    NoRule = NoRule
    RuleId <- MCRuleId
    NoId = NoId
    Matches <- MCMatches
    Dump <- MCDump
    SeedRules <- MCSeedRules
    CodeSources <- MCCodeSources
    ContextSources <- MCContextSources
    Unreadable = {w}
    SelfFlow <- MCSelfFlow
    AltSourcesCap = 1
    File <- MCFile
    Line <- MCLine
    SamePath <- MCSamePath
    VulnerableFile = "app.py"
    VulnerableLines <- MCLines
    LineTolerance = 5
    Configs <- MCConfigs
    NoAgent = NoAgent
    TriageReplies <- MCTriageReplies
    HelperReplies <- MCHelperReplies
    RuleReplies <- MCRuleReplies
    MaxFaults = 1
INVARIANTS
    TypeOK
    EverySiteOnce
    StrongestRecordWins
    MergeIsExact
    CandidatesKept
    BrakesAgree
    ScoreAddsUp
    SinksGrounded
    CatalogClean
    OneResultPerKey
    NoChangeNoNews
    HitsPersist
    TokensAttributed
    BaselineIsFree
PROPERTIES
    RunEnds
CHECK_DEADLOCK FALSE
