SPECIFICATION NoteSpec
CONSTANTS
    t1 = t1
    t2 = t2
    r1 = r1
    r2 = r2
    k1 = k1
    k2 = k2
    NoTask = NoTask
    NKeys = 2
    NModels = 1
    Models <- MCModels1
    Tasks = {t1}
    Timeouts = {}
    RetryDelays <- MCDelays
    DefaultPark = 2
    MinWait = 3
    PrimaryTimeout = 3
    FallbackTimeout = 1
    SafetyMargin = 1
    TimeoutFloor = 0
    Cutoff = 0
    BreakerTime = 2
    Requests = {r1}
    CacheKeys = {k1, k2}
    RequestOf <- OneRequest
    KeyOf <- TwoKeys
    MaxCache = 2
    MaxRepairs = 1
    Thinking = FALSE
    RuleFallback = TRUE
    RuleReads = {k1}
    Correctable = {}
    TotalTime = 5
    WaitSlack = 2
INVARIANTS
    AttemptFitsDeadline
