SPECIFICATION FairSpec
CONSTANTS
    t1 = t1
    t2 = t2
    NKeys = 2
    Models = {m1}
    Tasks = {t1, t2}
    Timeouts = {0, 2}
    RetryDelays <- MCDelays
    DefaultPark = 2
    MinWait = 1
INVARIANTS
    TypeOK
    KeysAccounted
    GivenUpOnlyWhenEveryKeyRefused
PROPERTIES
    ParkedKeyAskedFromOldList
    WaitSuffices
    CallReturns
