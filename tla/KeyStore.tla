------------------------------ MODULE KeyStore ------------------------------
(***************************************************************************)
(* What a blackboard promises its readers: a key is absent or holds the    *)
(* number of writes since it was declared and the last value; a read that  *)
(* answers a value answers one the key held, whole and with its own count, *)
(* at some moment of the call, and ENOENT only for a key that was absent   *)
(* at some moment of the call.                                             *)
(***************************************************************************)
EXTENDS Naturals

CONSTANTS Keys, Readers, Values, NoValue

VARIABLES
    held,   \* per key: count of its writes, last value, and whether it is there
    seen,   \* per reader: what each key was since its call began
    reply   \* per reader: what its call answers

storeVars == <<held, seen, reply>>

Absent == [count |-> 0, value |-> NoValue, there |-> "no"]

Unwritten == [count |-> 0, value |-> NoValue, there |-> "yes"]

NoReply == [kind |-> "none", key |-> NoValue, count |-> 0, len |-> NoValue, data |-> NoValue]

StoreInit ==
    /\ held = [k \in Keys |-> Absent]
    /\ seen = [r \in Readers |-> {}]
    /\ reply = [r \in Readers |-> NoReply]

\* The keys a call under way is about: one for read(), all for a listing.
Asked(r) == {s[1] : s \in seen[r]}

\* What a key may become: declared, written once more, and in two steps gone
\* (reads by name miss it first, listings last).
Successors(h) ==
    CASE h.there = "no" -> {Unwritten}
      [] h.there = "leaving" -> {Absent}
      [] h.there = "yes" -> {[h EXCEPT !.there = "leaving"]}
                            \cup {[h EXCEPT !.count = @ + 1, !.value = v] : v \in Values}

\* A change of one key is noticed by every call under way about it.
Change(k) ==
    /\ held'[k] \in Successors(held[k])
    /\ held' = [held EXCEPT ![k] = held'[k]]
    /\ seen' = [r \in Readers |-> IF k \in Asked(r) THEN seen[r] \cup {<<k, held'[k]>>} ELSE seen[r]]
    /\ UNCHANGED reply

Ask(r) ==
    /\ seen[r] = {}
    /\ seen'[r] # {}
    /\ seen'[r] \subseteq {<<k, held[k]>> : k \in Keys}
    /\ seen' = [seen EXCEPT ![r] = seen'[r]]
    /\ UNCHANGED <<held, reply>>

\* What the calls under way may have met.
Met(r, k) == {s[2] : s \in {t \in seen[r] : t[1] = k}}

\* A value with its count, EAGAIN at any time, ENOENT for a key that was not
\* there, ENOMSG for one not there or not yet written.  A snapshot shows a key
\* without a value only if it was declared and not yet written; what keys()
\* names without looking at a value is not constrained.
Allowed(r, a) ==
    \/ /\ a.kind = "value"
       /\ a.len = a.data
       /\ \E h \in Met(r, a.key) : h.there # "no" /\ h.count = a.count /\ h.value = a.data
    \/ a.kind \in {"again", "listed"}
    \/ a.kind = "noent" /\ \E h \in Met(r, a.key) : h.there # "yes"
    \/ a.kind = "nomsg" /\ \E h \in Met(r, a.key) : h.there # "yes" \/ h.count = 0
    \/ a.kind = "unwritten" /\ \E h \in Met(r, a.key) : h.there = "yes" /\ h.count = 0

Answer(r) ==
    /\ seen[r] # {}
    /\ reply[r] = NoReply
    /\ reply'[r] # NoReply
    /\ Allowed(r, reply'[r])
    /\ reply' = [reply EXCEPT ![r] = reply'[r]]
    /\ UNCHANGED <<held, seen>>

Return(r) ==
    /\ seen[r] # {}
    /\ seen' = [seen EXCEPT ![r] = {}]
    /\ reply' = [reply EXCEPT ![r] = NoReply]
    /\ UNCHANGED held

StoreNext ==
    \/ \E k \in Keys : Change(k)
    \/ \E r \in Readers : Ask(r) \/ Answer(r) \/ Return(r)

StoreSpec == StoreInit /\ [][StoreNext]_storeVars
=============================================================================
