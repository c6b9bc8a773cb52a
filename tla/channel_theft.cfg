SPECIFICATION Theft
CONSTANTS
    Thief = p1
    Second = p2
    Victim = p3
    Pubs = {p1, p2, p3}
    Subs = {u1}
    Slots = {s1, s2, s3, s4}
    MaxSubs = 1
    Capacity = 1
    NoSlot = NoSlot
    NoOwner = NoOwner
    SlowRepair = FALSE
    MaxMsgs = 2
    MaxJoins = 1
    MaxViews = 1
    MaxRepairs = 0
    MaxCrashes = 0
SYMMETRY Symmetry
CHECK_DEADLOCK FALSE
INVARIANT ViewShowsItsMessage
