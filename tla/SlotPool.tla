------------------------------ MODULE SlotPool ------------------------------
(***************************************************************************)
(* What the channel relies on when it calls treiber_pop and treiber_push:  *)
(* a set of free slots, from which a pop takes one that nobody else has.   *)
(***************************************************************************)
CONSTANT Slots

VARIABLES
    free,  \* on the stack
    busy   \* handed out and not given back

PoolInit == free = Slots /\ busy = {}

Take == \E s \in free : free' = free \ {s} /\ busy' = busy \cup {s}

Give == \E s \in busy : busy' = busy \ {s} /\ free' = free \cup {s}

PoolSpec == PoolInit /\ [][Take \/ Give]_<<free, busy>>
=============================================================================
