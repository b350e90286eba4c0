SPECIFICATION FairSpec
CONSTANTS
    t1 = t1
    t2 = t2
    t3 = t3
    m1 = m1
    m2 = m2
    shared = shared
    Threads = {t1, t2, t3}
    Resolvers = {}
    Unloaders = {t2}
    Models = {m1, m2}
    Buckets = {shared}
    BucketOf <- OneBucket
    Budget <- BudgetOfOne
    Capacity = 2
    Entries = {1, 2, 3, 4, 5}
    MayTimeOut = FALSE
    NoEntry = NoEntry
    NoThread = NoThread
    NoModel = NoModel
INVARIANT LimitsAreKept
PROPERTY BusyIsTransient
PROPERTY DrainEnds
