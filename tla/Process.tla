------------------------------ MODULE Process -------------------------------
(***************************************************************************)
(* Processes as the shared structures know them: a pid with its start      *)
(* time.  A restarted process has another start time, so it is another     *)
(* element of Procs, and a recorded owner once dead stays dead.            *)
(***************************************************************************)
EXTENDS Integers

CONSTANTS Procs, NoProc   \* NoProc is the pid 0

ASSUME ProcessAssumption == NoProc \notin Procs

VARIABLES
    alive,
    faults    \* bound: deaths, failed system calls and overlong waits still to come

Fault == faults > 0 /\ faults' = faults - 1

\* A process dies between two of its accesses to shared memory.
Die(p) == alive[p] /\ Fault /\ alive' = [alive EXCEPT ![p] = FALSE]

\* owner_is_dead: pid 0 is nobody's, and nobody is not dead.
OwnerIsDead(p) == p # NoProc /\ ~alive[p]
=============================================================================
