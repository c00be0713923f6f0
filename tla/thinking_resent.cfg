SPECIFICATION Spec
CONSTANTS
    t1 = t1
    t2 = t2
    NKeys = 2
    Models = {m1}
    Tasks = {t1}
    Timeouts = {1}
    RetryDelays <- MCDelays
    DefaultPark = 2
    MinWait = 1
PROPERTIES
    ThinkingNotSentAgain
