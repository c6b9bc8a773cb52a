------------------------------- MODULE MCTheft -------------------------------
(***************************************************************************)
(* One schedule of Channel, too long for a search over all of them: on a   *)
(* ring of one entry, a publisher that resumes with an old position steals *)
(* the lock of a newer one, and a third commits in between.                *)
(***************************************************************************)
EXTENDS Channel, TLC

CONSTANTS Thief, Second, Victim  \* the three publishers

\* Who claims the positions 0 to 4.
Claimers == <<Second, Thief, Second, Victim, Victim>>

\* Nothing below lets a process do what Next does not: it only says who waits.
\* Thief and Second are preempted between the claim of positions 1 and 2 and
\* their first look at the entry until position 4 is claimed; the reader between
\* its loads of write_pos (when that was 3) and of the sequence.
Schedule ==
    LET n == writePos[1]
    IN  /\ n <= Len(Claimers) /\ \A i \in 1..n : sent[1][i].from = Claimers[i]
        /\ n < Len(Claimers) => \A p \in Pubs \ {Claimers[n + 1]} :
                                    pub[p].pc \notin {"reserved", "ring", "claim"}
        /\ n \in 2..4 => pub[Thief].pc = "first"
        /\ n \in 3..4 => pub[Second].pc = "first"
        /\ \A u \in Subs : /\ sub[u].pc \in {"seq", "meta", "pin", "check"} => n >= 3 /\ sub[u].read = 2
                           /\ n > 3 /\ sub[u].pc = "ready" => views[u] # {}

Theft == Init /\ [][Next /\ Schedule']_vars

Symmetry == Permutations(Slots)
=============================================================================
