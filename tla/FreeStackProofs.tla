--------------------------- MODULE FreeStackProofs ---------------------------
(***************************************************************************)
(* The free stack stays a list and implements SlotPool for every number of *)
(* processes and slots, as long as the generation does not wrap.           *)
(***************************************************************************)
EXTENDS FreeStack, SequenceTheorems, TLAPS

ProcPCs == {"idle", "link", "push", "next", "pop"}

StackTypes ==
    /\ top \in Tagged
    /\ next \in [Slots -> Link]
    /\ proc \in [Procs -> [pc : ProcPCs, slot : Link, old : Tagged, link : Link]]
    /\ out \in SUBSET Slots
    /\ stack \in Seq(Slots)

\* Who has a slot in hand, and that it is only in one place.
InPlace ==
    /\ \A p \in Procs : proc[p].slot # NoSlot <=> proc[p].pc \in {"link", "push"}
    /\ \A p, q \in Procs : proc[p].slot = proc[q].slot /\ proc[p].slot # NoSlot => p = q
    /\ \A p \in Procs : proc[p].slot \notin out
    /\ \A i \in DOMAIN stack : stack[i] \notin out
    /\ \A i \in DOMAIN stack, p \in Procs : proc[p].slot # stack[i]

\* A top that carries the current generation is the current top, and what was
\* linked to it or read through it still holds.
Observed ==
    \A p \in Procs : proc[p].pc # "idle" =>
        /\ proc[p].old.gen <= top.gen
        /\ proc[p].old.gen = top.gen => proc[p].old = top
        /\ proc[p].pc = "push" => next[proc[p].slot] = proc[p].old.idx
        /\ proc[p].pc \in {"next", "pop"} => proc[p].old.idx # NoSlot
        /\ proc[p].pc = "pop" /\ proc[p].old = top => proc[p].link = next[top.idx]

StackInv == StackTypes /\ ListIsStack /\ InPlace /\ Observed

\* The stack that stamp_new_region builds by pushing every slot satisfies the invariant.
LEMMA StackInit == Init => StackInv
<1> SUFFICES ASSUME Init PROVE StackInv
    OBVIOUS
<1> USE StackAssumption, NoSlotAssumption DEF Init, Slots, Link, Idle
<1>1. stack \in Seq(Slots) /\ Len(stack) = PoolSize
    OBVIOUS
<1>2. StackTypes
    BY <1>1 DEF StackTypes, Tagged, ProcPCs
<1>3. ListIsStack
    BY <1>1 DEF ListIsStack
<1>4. InPlace /\ Observed
    BY <1>1 DEF InPlace, Observed
<1> QED
    BY <1>2, <1>3, <1>4 DEF StackInv

\* What a process keeps while another one moves.
LEMMA StackStep == StackInv /\ [Next]_vars => StackInv'
<1> SUFFICES ASSUME StackInv, [Next]_vars PROVE StackInv'
    OBVIOUS
<1> USE NoSlotAssumption DEF StackInv, At
<1>0. /\ NoSlot \notin Slots /\ Link = Slots \cup {NoSlot}
      /\ Idle \in [pc : ProcPCs, slot : Link, old : Tagged, link : Link]
      /\ Idle.pc = "idle" /\ Idle.slot = NoSlot
    BY DEF Link, Idle, ProcPCs, Tagged
<1>1. CASE UNCHANGED vars
    BY <1>1 DEF vars, StackTypes, ListIsStack, InPlace, Observed
<1>2. ASSUME NEW p \in Procs, NEW s \in Slots, PushLoad(p, s)
      PROVE  StackInv'
    <2> DEFINE mine == [Idle EXCEPT !.pc = "link", !.slot = s, !.old = top]
    <2>1. /\ mine \in [pc : ProcPCs, slot : Link, old : Tagged, link : Link]
          /\ mine.pc = "link" /\ mine.slot = s /\ mine.old = top
        BY <1>0 DEF Idle, StackTypes, ProcPCs, Link
    <2> HIDE DEF mine
    <2>2. proc' = [proc EXCEPT ![p] = mine] /\ s \in out /\ out' = out \ {s} /\ proc[p].pc = "idle"
        BY <1>2 DEF PushLoad, mine
    <2>3. UNCHANGED <<top, next, stack>>
        BY <1>2 DEF PushLoad
    <2>4. proc[p].slot = NoSlot
        BY <2>2 DEF InPlace
    <2>5. StackTypes' /\ ListIsStack'
        BY <2>1, <2>2, <2>3 DEF StackTypes, ListIsStack
    <2>6. InPlace'
        BY <1>0, <2>1, <2>2, <2>3, <2>4 DEF InPlace, StackTypes
    <2>7. Observed'
        BY <2>1, <2>2, <2>3 DEF Observed, StackTypes, Tagged
    <2> QED
        BY <2>5, <2>6, <2>7
<1>3. ASSUME NEW p \in Procs, PushLink(p)
      PROVE  StackInv'
    <2>1. /\ proc' = [proc EXCEPT ![p].pc = "push"] /\ proc[p].pc = "link"
          /\ next' = [next EXCEPT ![proc[p].slot] = proc[p].old.idx]
          /\ UNCHANGED <<top, out, stack>>
        BY <1>3 DEF PushLink
    <2>2. proc[p].slot \in Slots
        BY <2>1, <1>0 DEF InPlace, StackTypes
    <2>3. StackTypes'
        BY <2>1, <2>2 DEF StackTypes, ProcPCs, Tagged
    <2>4. \A q \in Procs : proc'[q].slot = proc[q].slot /\ proc'[q].old = proc[q].old
                             /\ proc'[q].link = proc[q].link
        BY <2>1 DEF StackTypes
    <2>5. ListIsStack'
        BY <2>1, <2>2 DEF StackTypes, ListIsStack, InPlace
    <2>6. InPlace'
        BY <2>1, <2>4 DEF InPlace, StackTypes
    <2>7. top.idx # proc[p].slot
        <3>1. CASE stack = <<>>
            BY <3>1, <2>2 DEF ListIsStack
        <3>2. CASE stack # <<>>
            <4>1. 1 \in DOMAIN stack
                BY <3>2 DEF StackTypes
            <4> QED
                BY <4>1, <3>2 DEF ListIsStack, InPlace
        <3> QED
            BY <3>1, <3>2
    <2>8. \A q \in Procs \ {p} : proc'[q] = proc[q] /\ proc[q].slot # proc[p].slot
        BY <2>1, <2>2, <1>0 DEF InPlace, StackTypes
    <2>9. Observed'
        <3> SUFFICES ASSUME NEW q \in Procs, proc'[q].pc # "idle"
                     PROVE  /\ proc'[q].old.gen <= top'.gen
                            /\ proc'[q].old.gen = top'.gen => proc'[q].old = top'
                            /\ proc'[q].pc = "push" => next'[proc'[q].slot] = proc'[q].old.idx
                            /\ proc'[q].pc \in {"next", "pop"} => proc'[q].old.idx # NoSlot
                            /\ proc'[q].pc = "pop" /\ proc'[q].old = top' => proc'[q].link = next'[top'.idx]
            BY DEF Observed
        <3>1. CASE q = p
            BY <3>1, <2>1, <2>2, <2>4 DEF Observed, StackTypes
        <3>2. CASE q # p
            <4>1. proc'[q] = proc[q] /\ proc[q].slot # proc[p].slot
                BY <3>2, <2>8
            <4>2. \A s \in Link : s # proc[p].slot => next'[s] = next[s]
                BY <2>1, <1>0 DEF StackTypes
            <4>3. top.idx \in Link /\ proc[q].slot \in Link
                BY DEF StackTypes, Tagged
            <4> QED
                BY <4>1, <4>2, <4>3, <2>1, <2>7 DEF Observed
        <3> QED
            BY <3>1, <3>2
    <2> QED
        BY <2>3, <2>5, <2>6, <2>9
<1>4. ASSUME NEW p \in Procs, PushSwap(p)
      PROVE  StackInv'
    <2> DEFINE s == proc[p].slot
    <2>1. /\ proc[p].pc = "push" /\ top = proc[p].old
          /\ top' = [gen |-> top.gen + 1, idx |-> s]
          /\ stack' = <<s>> \o stack
          /\ proc' = [proc EXCEPT ![p] = Idle]
          /\ UNCHANGED <<next, out>>
        BY <1>4 DEF PushSwap, NewTop
    <2>2. s \in Slots /\ next[s] = top.idx
        BY <2>1, <1>0 DEF InPlace, StackTypes, Observed
    <2>3. /\ stack' \in Seq(Slots) /\ Len(stack') = Len(stack) + 1
          /\ stack'[1] = s
          /\ \A i \in 1..Len(stack) : stack'[i + 1] = stack[i]
        BY <2>1, <2>2 DEF StackTypes
    <2>4. \A i \in DOMAIN stack' : i = 1 \/ (i - 1 \in DOMAIN stack /\ stack'[i] = stack[i - 1])
        <3> SUFFICES ASSUME NEW i \in DOMAIN stack', i # 1
                     PROVE  i - 1 \in DOMAIN stack /\ stack'[i] = stack[i - 1]
            OBVIOUS
        <3>1. i \in 1..(Len(stack) + 1) /\ Len(stack) \in Nat /\ DOMAIN stack = 1..Len(stack)
            BY <2>3 DEF StackTypes
        <3>2. i - 1 \in 1..Len(stack) /\ (i - 1) + 1 = i
            BY <3>1
        <3>3. stack'[(i - 1) + 1] = stack[i - 1]
            BY <3>2, <2>3
        <3> QED
            BY <3>1, <3>2, <3>3
    <2>5. StackTypes'
        BY <2>1, <2>2, <2>3, <1>0 DEF StackTypes, Tagged
    <2>6. ListIsStack'
        <3>1. top'.idx = stack'[1] /\ stack' # <<>>
            BY <2>1, <2>3 DEF StackTypes
        <3>2. ASSUME NEW i \in DOMAIN stack'
              PROVE  next'[stack'[i]] = IF i < Len(stack') THEN stack'[i + 1] ELSE NoSlot
            <4>1. CASE i = 1
                BY <4>1, <2>1, <2>2, <2>3 DEF ListIsStack, StackTypes
            <4>2. CASE i # 1
                <5>1. i - 1 \in DOMAIN stack /\ stack'[i] = stack[i - 1]
                    BY <4>2, <2>4
                <5>2. next[stack[i - 1]] = IF i - 1 < Len(stack) THEN stack[(i - 1) + 1] ELSE NoSlot
                    BY <5>1 DEF ListIsStack
                <5>3. i \in Nat /\ Len(stack) \in Nat /\ i - 1 \in 1..Len(stack)
                    BY <2>3, <5>1 DEF StackTypes
                <5>4. i - 1 < Len(stack) => stack'[i + 1] = stack[i]
                    BY <5>3, <2>3
                <5> QED
                    BY <5>1, <5>2, <5>3, <5>4, <2>1, <2>3
            <4> QED
                BY <4>1, <4>2
        <3>3. ASSUME NEW i \in DOMAIN stack', NEW j \in DOMAIN stack', stack'[i] = stack'[j]
              PROVE  i = j
            <4>1. \A k \in DOMAIN stack : stack[k] # s
                BY DEF InPlace
            <4>2. i \in Int /\ j \in Int
                BY <2>3
            <4> QED
                BY <4>1, <4>2, <2>3, <2>4, <3>3 DEF ListIsStack
        <3> QED
            BY <3>1, <3>2, <3>3 DEF ListIsStack
    <2>7. \A q \in Procs \ {p} : proc'[q] = proc[q] /\ proc[q].slot # s
        BY <2>1, <2>2, <1>0 DEF InPlace, StackTypes
    <2>8. proc'[p].pc = "idle" /\ proc'[p].slot = NoSlot
        BY <2>1, <1>0 DEF StackTypes
    <2>9. InPlace'
        <3>1. \A i \in DOMAIN stack' : stack'[i] \notin out'
            BY <2>1, <2>3, <2>4 DEF InPlace
        <3>2. ASSUME NEW i \in DOMAIN stack', NEW q \in Procs PROVE proc'[q].slot # stack'[i]
            <4>1. stack'[i] \in Slots /\ (stack'[i] = s \/ \E j \in DOMAIN stack : stack'[i] = stack[j])
                BY <2>3, <2>4
            <4>2. CASE q = p
                BY <4>1, <4>2, <2>8, <1>0
            <4>3. CASE q # p
                BY <4>1, <4>3, <2>7 DEF InPlace
            <4> QED
                BY <4>2, <4>3
        <3>3. \A q \in Procs : proc'[q].slot \notin out'
            BY <2>1, <2>7, <2>8, <1>0 DEF InPlace, StackTypes
        <3>4. \A q \in Procs : proc'[q].slot # NoSlot <=> proc'[q].pc \in {"link", "push"}
            BY <2>7, <2>8 DEF InPlace
        <3>5. \A q, r \in Procs : proc'[q].slot = proc'[r].slot /\ proc'[q].slot # NoSlot => q = r
            BY <2>7, <2>8 DEF InPlace
        <3> QED
            BY <3>1, <3>2, <3>3, <3>4, <3>5 DEF InPlace
    <2>10. Observed'
        <3>1. top.gen \in Nat /\ top'.gen = top.gen + 1 /\ \A q \in Procs : proc[q].old.gen \in Nat
            BY <2>1 DEF StackTypes, Tagged
        <3>2. \A q \in Procs : proc'[q].pc # "idle" => q \in Procs \ {p}
            BY <2>8
        <3>3. \A q \in Procs : proc'[q].pc # "idle" =>
                  proc'[q].old.gen < top'.gen /\ proc'[q].old # top'
            BY <3>1, <3>2, <2>7 DEF Observed
        <3> QED
            BY <3>1, <3>2, <3>3, <2>1, <2>7 DEF Observed
    <2> QED
        BY <2>5, <2>6, <2>9, <2>10
<1>5. ASSUME NEW p \in Procs, PushRetry(p)
      PROVE  StackInv'
    <2>1. /\ proc' = [proc EXCEPT ![p].pc = "link", ![p].old = top] /\ proc[p].pc = "push"
          /\ UNCHANGED <<top, next, out, stack>>
        BY <1>5 DEF PushRetry
    <2>2. StackTypes' /\ ListIsStack'
        <3>1. top \in Tagged /\ "link" \in ProcPCs
            BY DEF StackTypes, ProcPCs
        <3> QED
            BY <2>1, <3>1, ZenonT(40) DEF StackTypes, ListIsStack
    <2>3. \A q \in Procs : proc'[q].slot = proc[q].slot
        BY <2>1 DEF StackTypes
    <2>4. InPlace'
        BY <2>1, <2>3 DEF InPlace, StackTypes
    <2>5. Observed'
        BY <2>1 DEF Observed, StackTypes, Tagged
    <2> QED
        BY <2>2, <2>4, <2>5
<1>6. ASSUME NEW p \in Procs, At(p, "idle") \/ At(p, "pop"), PopFrom(p, top),
             UNCHANGED <<top, next, out, stack>>
      PROVE  StackInv'
    <2> DEFINE mine == IF top.idx = NoSlot THEN Idle ELSE [Idle EXCEPT !.pc = "next", !.old = top]
    <2>1. /\ mine \in [pc : ProcPCs, slot : Link, old : Tagged, link : Link]
          /\ mine.slot = NoSlot
          /\ mine.pc = "idle" \/ (mine.pc = "next" /\ mine.old = top /\ top.idx # NoSlot)
        BY <1>0 DEF Idle, StackTypes, ProcPCs, Link
    <2> HIDE DEF mine
    <2>2. proc' = [proc EXCEPT ![p] = mine]
        BY <1>6 DEF PopFrom, mine
    <2>3. proc[p].slot = NoSlot
        BY <1>6 DEF InPlace
    <2>4. StackTypes' /\ ListIsStack'
        BY <1>6, <2>1, <2>2 DEF StackTypes, ListIsStack
    <2>5. InPlace'
        BY <1>6, <2>1, <2>2, <2>3, <1>0 DEF InPlace, StackTypes
    <2>6. Observed'
        BY <1>6, <2>1, <2>2 DEF Observed, StackTypes, Tagged
    <2> QED
        BY <2>4, <2>5, <2>6
<1>7. ASSUME NEW p \in Procs, PopNext(p)
      PROVE  StackInv'
    <2>1. /\ proc' = [proc EXCEPT ![p].pc = "pop", ![p].link = next[proc[p].old.idx]]
          /\ proc[p].pc = "next"
          /\ UNCHANGED <<top, next, out, stack>>
        BY <1>7 DEF PopNext
    <2>2. proc[p].old.idx \in Slots
        BY <2>1, <1>0 DEF Observed, StackTypes, Tagged
    <2>3. StackTypes' /\ ListIsStack'
        BY <2>1, <2>2, ZenonT(40) DEF StackTypes, ListIsStack, ProcPCs
    <2>4. \A q \in Procs : proc'[q].slot = proc[q].slot /\ proc'[q].old = proc[q].old
        BY <2>1 DEF StackTypes
    <2>5. InPlace'
        BY <2>1, <2>4 DEF InPlace, StackTypes
    <2>6. Observed'
        BY <2>1, <2>2, <2>4 DEF Observed, StackTypes, Tagged
    <2> QED
        BY <2>3, <2>5, <2>6
<1>8. ASSUME NEW p \in Procs, PopSwap(p)
      PROVE  StackInv'
    <2> DEFINE s == proc[p].old.idx
    <2>1. /\ proc[p].pc = "pop" /\ top = proc[p].old
          /\ top' = [gen |-> top.gen + 1, idx |-> proc[p].link]
          /\ stack' = Tail(stack)
          /\ out' = out \cup {s}
          /\ proc' = [proc EXCEPT ![p] = Idle]
          /\ UNCHANGED next
        BY <1>8 DEF PopSwap, NewTop
    <2>2. top.idx # NoSlot /\ s = top.idx /\ proc[p].link = next[s]
        BY <2>1 DEF Observed
    <2>3. stack # <<>> /\ s = stack[1] /\ s \in Slots
        BY <2>2, <1>0 DEF ListIsStack, StackTypes, Tagged
    <2>4. /\ stack' \in Seq(Slots) /\ Len(stack') = Len(stack) - 1 /\ Len(stack) >= 1
          /\ \A i \in 1..(Len(stack) - 1) : stack'[i] = stack[i + 1]
        BY <2>1, <2>3 DEF StackTypes
    <2>5. \A i \in DOMAIN stack' : i + 1 \in DOMAIN stack /\ i \in Nat /\ i >= 1 /\ stack'[i] = stack[i + 1]
        BY <2>4 DEF StackTypes
    <2>6. StackTypes'
        BY <2>1, <2>3, <2>4, <1>0 DEF StackTypes, Tagged
    <2>7. ListIsStack'
        <3>1. 1 \in DOMAIN stack
            BY <2>4 DEF StackTypes
        <3>2. next[s] = IF 1 < Len(stack) THEN stack[2] ELSE NoSlot
            BY <3>1, <2>3 DEF ListIsStack
        <3>3. top'.idx = IF stack' = <<>> THEN NoSlot ELSE stack'[1]
            <4>1. CASE 1 < Len(stack)
                <5>1. stack' # <<>> /\ stack'[1] = stack[2]
                    BY <4>1, <2>4 DEF StackTypes
                <5> QED
                    BY <5>1, <4>1, <3>2, <2>1, <2>2
            <4>2. CASE ~(1 < Len(stack))
                <5>1. stack' = <<>>
                    BY <4>2, <2>4 DEF StackTypes
                <5> QED
                    BY <5>1, <4>2, <3>2, <2>1, <2>2
            <4> QED
                BY <4>1, <4>2
        <3>4. ASSUME NEW i \in DOMAIN stack'
              PROVE  next'[stack'[i]] = IF i < Len(stack') THEN stack'[i + 1] ELSE NoSlot
            <4>1. i + 1 \in DOMAIN stack /\ i \in Nat /\ i >= 1 /\ stack'[i] = stack[i + 1]
                BY <2>5
            <4>2. next[stack[i + 1]] = IF i + 1 < Len(stack) THEN stack[(i + 1) + 1] ELSE NoSlot
                BY <4>1 DEF ListIsStack
            <4>3. Len(stack) \in Nat
                BY DEF StackTypes
            <4>4. i < Len(stack') => stack'[i + 1] = stack[(i + 1) + 1]
                BY <4>1, <4>3, <2>4
            <4> QED
                BY <4>1, <4>2, <4>3, <4>4, <2>1, <2>4
        <3>5. ASSUME NEW i \in DOMAIN stack', NEW j \in DOMAIN stack', stack'[i] = stack'[j]
              PROVE  i = j
            <4>1. i + 1 = j + 1
                BY <3>5, <2>5 DEF ListIsStack
            <4> QED
                BY <4>1, <2>5
        <3> QED
            BY <3>3, <3>4, <3>5 DEF ListIsStack
    <2>8. \A q \in Procs \ {p} : proc'[q] = proc[q]
        BY <2>1 DEF StackTypes
    <2>9. proc'[p].pc = "idle" /\ proc'[p].slot = NoSlot
        BY <2>1, <1>0 DEF StackTypes
    <2>10. \A i \in DOMAIN stack' : stack'[i] # s
        <3> SUFFICES ASSUME NEW i \in DOMAIN stack', stack'[i] = s PROVE FALSE
            OBVIOUS
        <3>1. i + 1 \in DOMAIN stack /\ i \in Nat /\ i >= 1 /\ stack[i + 1] = stack[1] /\ 1 \in DOMAIN stack
            BY <2>3, <2>4, <2>5 DEF StackTypes
        <3> QED
            BY <3>1 DEF ListIsStack
    <2>11. InPlace'
        <3>1. 1 \in DOMAIN stack
            BY <2>4 DEF StackTypes
        <3>2. \A i \in DOMAIN stack' : stack'[i] \notin out'
            BY <2>1, <2>5, <2>10 DEF InPlace
        <3>3. ASSUME NEW i \in DOMAIN stack', NEW q \in Procs PROVE proc'[q].slot # stack'[i]
            BY <2>5, <2>6, <2>8, <2>9, <1>0 DEF InPlace, StackTypes
        <3>4. \A q \in Procs : proc[q].slot # s
            BY <3>1, <2>3 DEF InPlace
        <3>5. \A q \in Procs : proc'[q].slot \notin out'
            BY <2>1, <2>3, <2>8, <2>9, <3>4, <1>0 DEF InPlace, StackTypes
        <3>6. \A q \in Procs : proc'[q].slot # NoSlot <=> proc'[q].pc \in {"link", "push"}
            BY <2>8, <2>9 DEF InPlace
        <3>7. \A q, r \in Procs : proc'[q].slot = proc'[r].slot /\ proc'[q].slot # NoSlot => q = r
            BY <2>8, <2>9 DEF InPlace
        <3> QED
            BY <3>2, <3>3, <3>5, <3>6, <3>7 DEF InPlace
    <2>12. Observed'
        BY <2>1, <2>8, <2>9 DEF Observed, StackTypes, Tagged
    <2> QED
        BY <2>6, <2>7, <2>11, <2>12
<1>9. ASSUME NEW p \in Procs, Crash(p)
      PROVE  StackInv'
    <2>1. /\ proc' = [proc EXCEPT ![p] = Idle]
          /\ out' = out \cup ({proc[p].slot} \ {NoSlot})
          /\ UNCHANGED <<top, next, stack>>
        BY <1>9 DEF Crash
    <2>2. StackTypes' /\ ListIsStack'
        BY <2>1, <1>0 DEF StackTypes, ListIsStack
    <2>3. \A q \in Procs \ {p} : proc'[q] = proc[q]
        BY <2>1 DEF StackTypes
    <2>4. proc'[p].pc = "idle" /\ proc'[p].slot = NoSlot
        BY <2>1, <1>0 DEF StackTypes
    <2>5. \A q \in Procs : proc'[q].slot \notin out'
        BY <2>1, <2>3, <2>4, <1>0 DEF InPlace, StackTypes
    <2>6. \A i \in DOMAIN stack, q \in Procs : proc'[q].slot # stack[i] /\ stack[i] \notin out'
        BY <2>1, <2>3, <2>4, <1>0 DEF InPlace, StackTypes
    <2>7. InPlace'
        BY <2>1, <2>3, <2>4, <2>5, <2>6 DEF InPlace
    <2>8. Observed'
        BY <2>1, <2>3, <2>4 DEF Observed
    <2> QED
        BY <2>2, <2>7, <2>8
<1>10. ASSUME NEW p \in Procs, ProcNext(p)
       PROVE  StackInv'
    BY <1>2, <1>3, <1>4, <1>5, <1>6, <1>7, <1>8, <1>9, <1>10
       DEF ProcNext, PopLoad, PopRetry
<1> QED
    BY <1>1, <1>10 DEF Next

\* Following next_free from free_top always visits exactly the free slots, for
\* any number of processes that push, pop and crash at any point.
THEOREM StackIsList == Spec => []ListIsStack
<1>1. Init => StackInv
    BY StackInit
<1>2. StackInv /\ [Next]_vars => StackInv'
    BY StackStep
<1>3. StackInv => ListIsStack
    BY DEF StackInv
<1> QED
    BY <1>1, <1>2, <1>3, PTL DEF Spec

-----------------------------------------------------------------------------
\* What one step does to the set of free slots and to the slots in use.
LEMMA PoolStep ==
    ASSUME StackInv, StackInv', [Next]_vars
    PROVE  [Pool!Take \/ Pool!Give]_<<OnStack, out \cup InHand>>
<1> USE NoSlotAssumption DEF StackInv, At
<1> DEFINE busy == out \cup InHand
<1>0. Idle.slot = NoSlot /\ InHand \subseteq Slots
    BY DEF Idle, InHand
<1>a. ASSUME UNCHANGED stack, UNCHANGED out,
             \A p \in Procs : proc'[p].slot = proc[p].slot
      PROVE  UNCHANGED <<OnStack, busy>>
    BY <1>a DEF OnStack, InHand
<1>1. CASE UNCHANGED vars
    BY <1>1 DEF vars, OnStack, InHand
<1>2. ASSUME NEW p \in Procs, NEW s \in Slots, PushLoad(p, s)
      PROVE  UNCHANGED <<OnStack, busy>>
    <2>1. /\ proc' = [proc EXCEPT ![p] = [Idle EXCEPT !.pc = "link", !.slot = s, !.old = top]]
          /\ proc[p].pc = "idle" /\ s \in out /\ out' = out \ {s} /\ stack' = stack
        BY <1>2 DEF PushLoad
    <2>2. proc'[p].slot = s /\ proc[p].slot = NoSlot /\ \A q \in Procs \ {p} : proc'[q] = proc[q]
        BY <2>1 DEF StackTypes, InPlace, Idle
    <2>3. InHand' = InHand \cup {s}
        BY <2>2 DEF InHand
    <2> QED
        BY <2>1, <2>3 DEF OnStack
<1>3. ASSUME NEW p \in Procs, PushLink(p) \/ PushRetry(p) \/ PopNext(p)
      PROVE  UNCHANGED <<OnStack, busy>>
    <2>1. \A q \in Procs : proc'[q].slot = proc[q].slot
        BY <1>3 DEF PushLink, PushRetry, PopNext, StackTypes
    <2> QED
        BY <1>3, <2>1, <1>a DEF PushLink, PushRetry, PopNext
<1>4. ASSUME NEW p \in Procs, PushSwap(p)
      PROVE  Pool!Give
    <2> DEFINE s == proc[p].slot
    <2>1. /\ proc[p].pc = "push" /\ stack' = <<s>> \o stack
          /\ proc' = [proc EXCEPT ![p] = Idle] /\ out' = out
        BY <1>4 DEF PushSwap
    <2>2. s \in Slots /\ s \notin out
        BY <2>1 DEF InPlace, StackTypes, Link
    <2>3. proc'[p].slot = NoSlot /\ \A q \in Procs \ {p} : proc'[q] = proc[q] /\ proc[q].slot # s
        BY <2>1, <2>2, <1>0 DEF InPlace, StackTypes
    <2>4. InHand' = InHand \ {s} /\ s \in InHand
        BY <2>2, <2>3 DEF InHand
    <2>5. OnStack' = OnStack \cup {s}
        <3>1. /\ DOMAIN stack' = 1..(Len(stack) + 1) /\ DOMAIN stack = 1..Len(stack) /\ Len(stack) \in Nat
              /\ stack'[1] = s /\ \A i \in 1..Len(stack) : stack'[i + 1] = stack[i]
            BY <2>1, <2>2 DEF StackTypes
        <3>2. \A i \in DOMAIN stack' : i = 1 \/ (i - 1 \in DOMAIN stack /\ stack'[i] = stack[i - 1])
            <4> SUFFICES ASSUME NEW i \in DOMAIN stack', i # 1
                         PROVE  i - 1 \in DOMAIN stack /\ stack'[i] = stack[i - 1]
                OBVIOUS
            <4>1. i - 1 \in 1..Len(stack) /\ (i - 1) + 1 = i
                BY <3>1
            <4> QED
                BY <3>1, <4>1
        <3>3. 1 \in DOMAIN stack' /\ \A i \in DOMAIN stack : i + 1 \in DOMAIN stack'
            BY <3>1
        <3> QED
            BY <3>1, <3>2, <3>3 DEF OnStack
    <2> QED
        BY <2>1, <2>2, <2>4, <2>5 DEF Pool!Give
<1>5. ASSUME NEW p \in Procs, At(p, "idle") \/ At(p, "pop"), PopFrom(p, top), UNCHANGED <<out, stack>>
      PROVE  UNCHANGED <<OnStack, busy>>
    <2>1. proc[p].slot = NoSlot
        BY <1>5 DEF InPlace
    <2>2. \A q \in Procs : proc'[q].slot = proc[q].slot
        BY <1>5, <2>1 DEF PopFrom, StackTypes, Idle
    <2> QED
        BY <1>5, <2>2, <1>a
<1>6. ASSUME NEW p \in Procs, PopSwap(p)
      PROVE  Pool!Take
    <2> DEFINE s == proc[p].old.idx
    <2>1. /\ proc[p].pc = "pop" /\ top = proc[p].old /\ stack' = Tail(stack)
          /\ out' = out \cup {s} /\ proc' = [proc EXCEPT ![p] = Idle]
        BY <1>6 DEF PopSwap
    <2>2. stack # <<>> /\ s = stack[1]
        BY <2>1 DEF Observed, ListIsStack
    <2>3. /\ DOMAIN stack = 1..Len(stack) /\ Len(stack) \in Nat /\ Len(stack) >= 1
          /\ DOMAIN stack' = 1..(Len(stack) - 1)
          /\ \A i \in 1..(Len(stack) - 1) : stack'[i] = stack[i + 1]
        BY <2>1, <2>2 DEF StackTypes
    <2>4. s \in OnStack
        BY <2>2, <2>3 DEF OnStack
    <2>5. OnStack' = OnStack \ {s}
        <3>1. \A i \in DOMAIN stack' : i + 1 \in DOMAIN stack /\ i + 1 # 1 /\ stack'[i] = stack[i + 1]
            BY <2>3
        <3>2. \A j \in DOMAIN stack : j = 1 \/ (j - 1 \in DOMAIN stack' /\ stack'[j - 1] = stack[j])
            <4> SUFFICES ASSUME NEW j \in DOMAIN stack, j # 1
                         PROVE  j - 1 \in DOMAIN stack' /\ stack'[j - 1] = stack[j]
                OBVIOUS
            <4>1. j - 1 \in 1..(Len(stack) - 1) /\ (j - 1) + 1 = j
                BY <2>3
            <4> QED
                BY <2>3, <4>1
        <3>3. \A j \in DOMAIN stack : stack[j] = s => j = 1
            BY <2>2, <2>3 DEF ListIsStack
        <3> QED
            BY <2>2, <3>1, <3>2, <3>3 DEF OnStack
    <2>6. proc[p].slot = NoSlot
        BY <2>1 DEF InPlace
    <2>7. InHand' = InHand
        BY <2>1, <2>6, <1>0 DEF InHand, StackTypes
    <2> QED
        BY <2>1, <2>4, <2>5, <2>7 DEF Pool!Take
<1>7. ASSUME NEW p \in Procs, Crash(p)
      PROVE  UNCHANGED <<OnStack, busy>>
    <2>1. /\ proc' = [proc EXCEPT ![p] = Idle] /\ stack' = stack
          /\ out' = out \cup ({proc[p].slot} \ {NoSlot})
        BY <1>7 DEF Crash
    <2>2. proc[p].slot \in Slots \cup {NoSlot}
        BY DEF StackTypes, Link
    <2>3. InHand \subseteq InHand' \cup ({proc[p].slot} \ {NoSlot})
        BY <2>1, <2>2, <1>0 DEF InHand, StackTypes
    <2>4. InHand' \subseteq InHand
        BY <2>1, <2>2, <1>0 DEF InHand, StackTypes
    <2>5. {proc[p].slot} \ {NoSlot} \subseteq InHand
        BY <2>2 DEF InHand
    <2> QED
        BY <2>1, <2>3, <2>4, <2>5 DEF OnStack
<1>8. ASSUME NEW p \in Procs, ProcNext(p)
      PROVE  Pool!Take \/ Pool!Give \/ UNCHANGED <<OnStack, busy>>
    <2>1. CASE \E s \in Slots : PushLoad(p, s)
        BY <2>1, <1>2
    <2>2. CASE PushLink(p) \/ PushRetry(p) \/ PopNext(p)
        BY <2>2, <1>3
    <2>3. CASE PopLoad(p) \/ PopRetry(p)
        BY <2>3, <1>5 DEF PopLoad, PopRetry
    <2> QED
        BY <1>8, <2>1, <2>2, <2>3, <1>4, <1>6, <1>7 DEF ProcNext
<1> QED
    BY <1>1, <1>8 DEF Next

\* The Treiber stack implements the set of free slots that the channel's model
\* of allocate() and of the last release of a slot relies on.
THEOREM StackImplementsPool == Spec => PoolIsKept
<1>1. Init => StackInv
    BY StackInit
<1>2. StackInv /\ [Next]_vars => StackInv'
    BY StackStep
<1>3. Init => Pool!PoolInit
    <2> SUFFICES ASSUME Init PROVE OnStack = Slots /\ out \cup InHand = {}
        BY DEF Pool!PoolInit
    <2>1. InHand = {} /\ out = {}
        BY NoSlotAssumption DEF Init, InHand, Idle
    <2>2. \A i \in 1..PoolSize : stack[i] = PoolSize - i /\ PoolSize - i \in Slots
        BY StackAssumption DEF Init, Slots
    <2>3. \A s \in Slots : PoolSize - s \in 1..PoolSize /\ s = PoolSize - (PoolSize - s)
        BY StackAssumption DEF Slots
    <2>4. DOMAIN stack = 1..PoolSize
        BY DEF Init
    <2>5. Slots \subseteq OnStack
        BY <2>2, <2>3, <2>4 DEF OnStack
    <2>6. OnStack \subseteq Slots
        BY <2>2, <2>4 DEF OnStack
    <2> QED
        BY <2>1, <2>5, <2>6
<1>4. StackInv /\ StackInv' /\ [Next]_vars => [Pool!Take \/ Pool!Give]_<<OnStack, out \cup InHand>>
    BY PoolStep
<1> QED
    BY <1>1, <1>2, <1>3, <1>4, PTL DEF Spec, PoolIsKept, Pool!PoolSpec
=============================================================================
