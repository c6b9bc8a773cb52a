SPECIFICATION Spec
CONSTANTS
    a = a
    b = b
    r = r
    k1 = k1
    k2 = k2
    Procs = {a, b, r}
    NoProc = NoProc
    Keys = {k1, k2}
    NoKey = NoKey
    Capacity = 1
    Jobs <- ReadJobs
    KeysOf <- ReadKeys
    RetryBudget = 2
    FutexSpan = 8
    MaxDeclares = 2
    MaxWrites = 3
    MaxSweeps = 0
    MaxCalls = 1
    MaxCrashes = 1
    Mortal = {a}
    CallsAfter = 1
CHECK_DEADLOCK FALSE
INVARIANT TypeOK
PROPERTY ReadsAreTrue
INVARIANT SleeperIsOwed
