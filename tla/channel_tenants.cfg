SPECIFICATION Spec
CONSTANTS
    Pubs = {p1}
    Subs = {u1, u2}
    Slots = {s1, s2, s3}
    MaxSubs = 2
    Capacity = 2
    NoSlot = NoSlot
    NoOwner = NoOwner
    SlowRepair = TRUE
    MaxMsgs = 3
    MaxJoins = 1
    MaxViews = 0
    MaxRepairs = 0
    MaxCrashes = 0
SYMMETRY Symmetry
CHECK_DEADLOCK FALSE
INVARIANT TypeOK
INVARIANT RefcountExact
INVARIANT SlotHasOneHome
INVARIANT InFlightExact
INVARIANT DrainIsAlone
INVARIANT DrainedRingIsEmpty
INVARIANT NoReplay
