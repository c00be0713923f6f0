SPECIFICATION ServiceSpec
CONSTANTS
    k1 = k1
    k2 = k2
    NoTask = NoTask
    req = req
    NKeys = 1
    NModels = 1
    Models <- MCModels
    Tasks = {0, 1}
    Timeouts = {}
    RetryDelays <- MCDelays
    DefaultPark = 2
    MinWait = 3
    PrimaryTimeout = 3
    FallbackTimeout = 1
    SafetyMargin = 1
    TimeoutFloor = 0
    Cutoff = 0
    BreakerTime = 2
    Requests = {req}
    CacheKeys = {k1, k2}
    RequestOf <- MCRequestOf
    KeyOf <- MCKeyOf
    MaxCache = 2
    MaxRepairs = 1
    Thinking = FALSE
    RuleFallback = TRUE
    RuleReads = {k1}
    Correctable = {0, 1}
    TotalTime = 4
    WaitSlack = 2
    Day <- TwoHours
    MaxNotes = 3
    Huge = 9
    Bodies <- MCBodies
INVARIANTS
    CallsBelongToNotes
    StatusAsDocumented
    AnsweredInTime
PROPERTIES
    ImplementsPipeline
