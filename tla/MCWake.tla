------------------------------- MODULE MCWake -------------------------------
(***************************************************************************)
(* Wake with one thread that owns all the rings.  Threads share nothing    *)
(* but the datagram, which reaches every descriptor.                       *)
(***************************************************************************)
EXTENDS Wake

MCRingsOf == [t \in Threads |-> Rings]
=============================================================================
