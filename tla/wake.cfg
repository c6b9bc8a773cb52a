SPECIFICATION FairSpec
CONSTANTS
    Pubs = {p1, p2}
    Threads = {t1}
    MaxSubs = 2
    RingsOf <- MCRingsOf
    Attached = {1, 2}
    Capacity = 1
    FutexSpan = 8
    MaxMsgs = 1
CHECK_DEADLOCK FALSE
INVARIANT TypeOK
INVARIANT SleeperIsOwed
PROPERTY SleeperWakes
