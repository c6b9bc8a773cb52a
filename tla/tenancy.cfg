SPECIFICATION FairSpec
CONSTANTS
    Subs = {u1, u2}
    Pubs = {p1, p2}
    Reclaimers = {q1, q2}
    NoOwner = NoOwner
    Casts = {{u1, u2, p1, p2, q1}, {u1, p1, p2, q1, q2}}
    MaxJoins = 2
    MaxGone = 3
CHECK_DEADLOCK FALSE
INVARIANT TypeOK
INVARIANT SoleTenant
INVARIANT FlightExact
PROPERTY DeadRingIsReleased
