------------------------------ MODULE FreeStack ------------------------------
(***************************************************************************)
(* The free-slot stack of a region: treiber_push and treiber_pop on        *)
(* Header::free_top and SlotHeader::next_free, one action per access to    *)
(* shared memory, by any number of processes that may crash in between.    *)
(***************************************************************************)
EXTENDS Integers, Sequences

CONSTANTS
    Procs,     \* processes that push and pop
    PoolSize,  \* slots of the pool
    NoSlot,    \* INVALID_SLOT
    MaxGen     \* bound: pushes and pops, below the 2^32 the tag can tell apart

ASSUME StackAssumption == PoolSize \in Nat \ {0} /\ MaxGen \in Nat

Slots == 0..(PoolSize - 1)

ASSUME NoSlotAssumption == NoSlot \notin Slots

Link == Slots \cup {NoSlot}

\* tagged_pack(gen, idx)
Tagged == [gen : Nat, idx : Link]

VARIABLES
    top,    \* Header::free_top
    next,   \* SlotHeader::next_free, per slot
    proc,   \* per process: the locals of its current push or pop
    out,    \* slots handed out by a pop that nobody is pushing
    stack   \* history: the free slots, top first

vars == <<top, next, proc, out, stack>>

Idle == [pc |-> "idle", slot |-> NoSlot, old |-> [gen |-> 0, idx |-> NoSlot], link |-> NoSlot]

\* stamp_new_region pushes the slots 0, 1, ... on an empty stack.
Init ==
    /\ top = [gen |-> PoolSize, idx |-> PoolSize - 1]
    /\ next = [s \in Slots |-> IF s = 0 THEN NoSlot ELSE s - 1]
    /\ proc = [p \in Procs |-> Idle]
    /\ out = {}
    /\ stack = [i \in 1..PoolSize |-> PoolSize - i]

At(p, pc) == proc[p].pc = pc

\* Mutant of NewTop: the generation stays as it was observed.
SameTop(old, idx) == [gen |-> old.gen, idx |-> idx]

NewTop(old, idx) == [gen |-> old.gen + 1, idx |-> idx]

-----------------------------------------------------------------------------
\* treiber_push of a slot in use: load the top.  The reference counts see to it
\* that one process gives a slot back; after a crash that is the GC.
PushLoad(p, s) ==
    /\ At(p, "idle") /\ s \in out
    /\ out' = out \ {s}
    /\ proc' = [proc EXCEPT ![p] = [Idle EXCEPT !.pc = "link", !.slot = s, !.old = top]]
    /\ UNCHANGED <<top, next, stack>>

PushLink(p) ==
    /\ At(p, "link")
    /\ next' = [next EXCEPT ![proc[p].slot] = proc[p].old.idx]
    /\ proc' = [proc EXCEPT ![p].pc = "push"]
    /\ UNCHANGED <<top, out, stack>>

\* The CAS from the observed top.
PushSwap(p) ==
    /\ At(p, "push") /\ top = proc[p].old /\ top.gen < MaxGen
    /\ top' = NewTop(proc[p].old, proc[p].slot)
    /\ stack' = <<proc[p].slot>> \o stack
    /\ proc' = [proc EXCEPT ![p] = Idle]
    /\ UNCHANGED <<next, out>>

\* It failed, perhaps spuriously: link to the top it returned.
PushRetry(p) ==
    /\ At(p, "push")
    /\ proc' = [proc EXCEPT ![p].pc = "link", ![p].old = top]
    /\ UNCHANGED <<top, next, out, stack>>

-----------------------------------------------------------------------------
\* One iteration of treiber_pop begins with a top; an empty stack ends it.
PopFrom(p, t) ==
    proc' = [proc EXCEPT ![p] = IF t.idx = NoSlot THEN Idle ELSE [Idle EXCEPT !.pc = "next", !.old = t]]

PopLoad(p) ==
    /\ At(p, "idle")
    /\ PopFrom(p, top)
    /\ UNCHANGED <<top, next, out, stack>>

\* The slot may have left the stack since: what is read may be any old link.
PopNext(p) ==
    /\ At(p, "next")
    /\ proc' = [proc EXCEPT ![p].pc = "pop", ![p].link = next[proc[p].old.idx]]
    /\ UNCHANGED <<top, next, out, stack>>

\* Mutant of PopSwap: the index of the new top is returned, not the old one's.
PopOther(p) ==
    /\ At(p, "pop") /\ top = proc[p].old /\ top.gen < MaxGen
    /\ top' = NewTop(proc[p].old, proc[p].link)
    /\ stack' = Tail(stack)
    /\ out' = out \cup ({proc[p].link} \ {NoSlot})
    /\ proc' = [proc EXCEPT ![p] = Idle]
    /\ UNCHANGED next

PopSwap(p) ==
    /\ At(p, "pop") /\ top = proc[p].old /\ top.gen < MaxGen
    /\ top' = NewTop(proc[p].old, proc[p].link)
    /\ stack' = Tail(stack)
    /\ out' = out \cup {proc[p].old.idx}
    /\ proc' = [proc EXCEPT ![p] = Idle]
    /\ UNCHANGED next

PopRetry(p) ==
    /\ At(p, "pop")
    /\ PopFrom(p, top)
    /\ UNCHANGED <<top, next, out, stack>>

\* A process dies; the slot it was pushing is off the stack, and in use as far
\* as anyone can tell until reclaim_orphaned_slots() pushes it.
Crash(p) ==
    /\ ~At(p, "idle")
    /\ proc' = [proc EXCEPT ![p] = Idle]
    /\ out' = out \cup (IF proc[p].slot = NoSlot THEN {} ELSE {proc[p].slot})
    /\ UNCHANGED <<top, next, stack>>

ProcNext(p) ==
    \/ \E s \in Slots : PushLoad(p, s)
    \/ PushLink(p) \/ PushSwap(p) \/ PushRetry(p)
    \/ PopLoad(p) \/ PopNext(p) \/ PopSwap(p) \/ PopRetry(p)
    \/ Crash(p)

Next == \E p \in Procs : ProcNext(p)

Spec == Init /\ [][Next]_vars

-----------------------------------------------------------------------------
OnStack == {stack[i] : i \in DOMAIN stack}

InHand == {s \in Slots : \E p \in Procs : proc[p].slot = s}

\* Following next_free from free_top visits exactly the free slots, each once,
\* and ends, however pushes and pops interleave: no pop with a stale top or a
\* stale link has cut a slot off, doubled one or closed a cycle.
ListIsStack ==
    /\ top.idx = IF stack = <<>> THEN NoSlot ELSE stack[1]
    /\ \A i \in DOMAIN stack :
          next[stack[i]] = IF i < Len(stack) THEN stack[i + 1] ELSE NoSlot
    /\ \A i, j \in DOMAIN stack : stack[i] = stack[j] => i = j

\* The stack behaves as a set of free slots: whatever a pop returns was free
\* and is nobody else's.
Pool == INSTANCE SlotPool WITH free <- OnStack, busy <- out \cup InHand

PoolIsKept == Pool!PoolSpec
=============================================================================
