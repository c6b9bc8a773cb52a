SPECIFICATION Spec
CONSTANTS
    Pubs = {p1, p2}
    Subs = {u1}
    Slots = {s1, s2}
    MaxSubs = 2
    Capacity = 1
    NoSlot = NoSlot
    NoOwner = NoOwner
    SlowRepair = TRUE
    MaxMsgs = 1
    MaxJoins = 1
    MaxViews = 1
    MaxRepairs = 1
    MaxCrashes = 1
SYMMETRY Symmetry
CHECK_DEADLOCK FALSE
INVARIANT RefcountExact
INVARIANT SlotHasOneHome
INVARIANT InFlightExact
