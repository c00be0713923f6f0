SPECIFICATION NoteSpec
CONSTANTS
    t1 = t1
    t2 = t2
    r1 = r1
    r2 = r2
    k1 = k1
    k2 = k2
    NoTask = NoTask
    NKeys = 1
    NModels = 1
    Models <- MCModels1
    Tasks = {t1, t2}
    Timeouts = {}
    RetryDelays <- MCDelays
    DefaultPark = 2
    MinWait = 3
    PrimaryTimeout = 4
    FallbackTimeout = 1
    SafetyMargin = 1
    TimeoutFloor = 0
    Cutoff = 0
    BreakerTime = 2
    Requests = {r1, r2}
    CacheKeys = {k1}
    RequestOf <- TwoRequests
    KeyOf <- SameKey
    MaxCache = 1
    MaxRepairs = 1
    Thinking = TRUE
    RuleFallback = TRUE
    RuleReads = {k1}
    Correctable = {t1}
    TotalTime = 5
    WaitSlack = 2
INVARIANTS
    NoteTypeOK
    DegradedNeverCached
    OverrunBounded
PROPERTIES
    ReplacedOnlyByOverlap
    OnlyRepairsPassBreakers
