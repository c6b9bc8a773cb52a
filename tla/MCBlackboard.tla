---------------------------- MODULE MCBlackboard ----------------------------
(***************************************************************************)
(* The blackboard with two owners and a reader.                           *)
(***************************************************************************)
EXTENDS Blackboard, TLC

CONSTANTS a, b, r, k1, k2

\* Two writers after another and a reader.
ReadJobs == (a :> {"declare", "write"}) @@ (b :> {"declare", "write"}) @@ (r :> {"read", "list", "snapshot", "wait"})

ReadKeys == (a :> {k1}) @@ (b :> {k1, k2}) @@ (r :> {k1})

\* Everybody does everything but read.
OwnJobs == [p \in Procs |-> IF p = r THEN {"sweep"}
                            ELSE {"declare", "write", "release", "sweep"}]

Alike == Permutations({a, b}) \cup Permutations({k1, k2})

OwnKeys == [p \in Procs |-> Keys]
=============================================================================
