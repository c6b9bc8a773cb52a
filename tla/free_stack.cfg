SPECIFICATION Spec
CONSTANTS
    Procs = {p1, p2, p3}
    PoolSize = 3
    NoSlot = NoSlot
    MaxGen = 8
INVARIANT ListIsStack
PROPERTY PoolIsKept
