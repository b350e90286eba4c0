SPECIFICATION Spec
CONSTANTS
    t1 = t1
    t2 = t2
    t3 = t3
    m1 = m1
    m2 = m2
    shared = shared
    Threads = {t1, t2}
    Resolvers = {t1, t2}
    Unloaders = {t1, t2}
    Models = {m1, m2}
    Buckets = {shared}
    BucketOf <- OneBucket
    Budget <- BudgetOfOne
    Capacity = 2
    Entries = {1, 2, 3, 4, 5, 6}
    MayTimeOut = TRUE
    NoEntry = NoEntry
    NoThread = NoThread
    NoModel = NoModel
SYMMETRY ThreadSymmetry
VIEW Relevant
INVARIANT UseIsExclusive
INVARIANT TransitionsAreOwned
INVARIANT NoRuntimeLeaks
INVARIANT PinsAreSound
