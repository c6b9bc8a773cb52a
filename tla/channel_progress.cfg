SPECIFICATION FairSpec
CONSTANTS
    Pubs = {p1, p2}
    Subs = {u1}
    Slots = {s1, s2}
    MaxSubs = 1
    Capacity = 1
    NoSlot = NoSlot
    NoOwner = NoOwner
    SlowRepair = TRUE
    MaxMsgs = 1
    MaxJoins = 1
    MaxViews = 0
    MaxRepairs = 0
    MaxCrashes = 1
CHECK_DEADLOCK FALSE
PROPERTY PublishTerminates
