SPECIFICATION Spec
CONSTANTS
    Subs = {u1, u2, u3}
    Pubs = {}
    Reclaimers = {q1, q2}
    NoOwner = NoOwner
    Casts = {{u1, u2, u3, q1, q2}}
    MaxJoins = 2
    MaxGone = 0
CHECK_DEADLOCK FALSE
INVARIANT SoleTenant
