------------------------------ MODULE MCChannel ------------------------------
(***************************************************************************)
(* Small instances of Channel for TLC.                                     *)
(***************************************************************************)
EXTENDS Channel, TLC

\* Slots, publishers and subscribers are interchangeable; rings are not, the
\* code scans them in order.
Symmetry == Permutations(Slots) \cup Permutations(Pubs) \cup Permutations(Subs)
=============================================================================
