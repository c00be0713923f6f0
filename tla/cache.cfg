SPECIFICATION HistorySpec
CONSTANTS
    CacheKeys = {k1, k2, k3, k4}
    Values = {a, b}
    None = None
    MaxSize = 2
INVARIANTS
    TypeOK
    StoreConsistent
    KeepsMostRecent
    HitIsLatest
