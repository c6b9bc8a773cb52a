SPECIFICATION Spec
CONSTANTS
    Pubs = {p1, p2}
    Subs = {u1}
    Slots = {s1, s2}
    MaxSubs = 1
    Capacity = 1
    NoSlot = NoSlot
    NoOwner = NoOwner
    SlowRepair = FALSE
    MaxMsgs = 2
    MaxJoins = 1
    MaxViews = 1
    MaxRepairs = 0
    MaxCrashes = 1
SYMMETRY Symmetry
CHECK_DEADLOCK FALSE
INVARIANT RefcountExact
INVARIANT SlotHasOneHome
INVARIANT ViewShowsItsMessage
INVARIANT NewerEntryKept
INVARIANT ClaimShowsItsMessage
PROPERTY ViewIsStable
