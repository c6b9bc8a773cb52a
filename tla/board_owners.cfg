SPECIFICATION Spec
CONSTANTS
    a = a
    b = b
    r = r
    k1 = k1
    k2 = k2
    Procs = {a, b, r}
    NoProc = NoProc
    Keys = {k1, k2}
    NoKey = NoKey
    Capacity = 2
    Jobs <- OwnJobs
    KeysOf <- OwnKeys
    RetryBudget = 1
    FutexSpan = 8
    MaxDeclares = 3
    MaxWrites = 1
    MaxSweeps = 1
    MaxCalls = 0
    MaxCrashes = 2
    Mortal = {a, b, r}
    CallsAfter = 0
SYMMETRY Alike
CHECK_DEADLOCK FALSE
INVARIANT HolderIsAlone
INVARIANT KeyIsUnique
INVARIANT WriterKeepsEntry
INVARIANT UnlockedIsClean
