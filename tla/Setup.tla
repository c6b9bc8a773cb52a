------------------------------- MODULE Setup --------------------------------
(***************************************************************************)
(* How processes come to share a region: SharedMemory's names and objects, *)
(* SharedRegion::create, open and create_or_open, and the schema claimed   *)
(* in a region's header.  A board is opened or created by the protocol of  *)
(* create_or_open, the registry too, with nothing to compare.  Unlinking   *)
(* removes a name; the object stays with those that mapped it.             *)
(***************************************************************************)
EXTENDS Process, Sequences, FiniteSets

CONSTANTS
    Names,      \* sanitised shared memory names
    Blank       \* what an object holds before it is stamped

VARIABLES
    path,      \* per name: the object it leads to, 0 for none
    objs,      \* the objects in the order of their creation
    att,       \* per process: the locals of its attach or schema claim
    unlinks    \* history, per name: how often somebody asked to unlink it

setupVars == <<path, objs, att, unlinks>>

Modes == {"create", "open", "join"}

NoSchema == [state |-> "Unset", blob |-> Blank, data |-> Blank]

NewObject == [sized |-> FALSE, magic |-> FALSE, stamp |-> Blank, schema |-> NoSchema]

Detached == [pc |-> "idle", mode |-> "open", name |-> "", want |-> Blank, obj |-> 0]

\* Some names may lead to a region stamped by a process long gone.
Stamped(want) == [sized |-> TRUE, magic |-> TRUE, stamp |-> want, schema |-> NoSchema]

SetupInit(stamps) ==
    /\ path = [n \in Names |-> IF \E i \in DOMAIN stamps : stamps[i].name = n
                               THEN CHOOSE i \in DOMAIN stamps : stamps[i].name = n ELSE 0]
    /\ objs = [i \in DOMAIN stamps |-> Stamped(stamps[i].want)]
    /\ att = [p \in Procs |-> Detached]
    /\ unlinks = [n \in Names |-> 0]

AttAt(p, pc) == alive[p] /\ att[p].pc = pc

AttGoto(p, pc) == att' = [att EXCEPT ![p].pc = pc]

Object(p) == objs[att[p].obj]

-----------------------------------------------------------------------------
(***************************************************************************)
(* Attaching.  The call ends at "done" or at "failed" (an exception).      *)
(***************************************************************************)
\* What the three ways in do first.
FirstStep(mode) == CASE mode = "create" -> "unlink" [] mode = "join" -> "excl" [] mode = "open" -> "open"

Attaching(mode, name, want) ==
    [pc |-> FirstStep(mode), mode |-> mode, name |-> name, want |-> want, obj |-> 0]

UnlinkName(n) == path' = [path EXCEPT ![n] = 0] /\ unlinks' = [unlinks EXCEPT ![n] = @ + 1]

\* SharedMemory::create unlinks whatever bears the name.
UnlinkFirst(p) ==
    /\ AttAt(p, "unlink")
    /\ UnlinkName(att[p].name)
    /\ AttGoto(p, "excl")
    /\ UNCHANGED objs

\* Mutant of NameIsFree: the object is made without O_EXCL.
NameIsTaken(p) == TRUE

NameIsFree(p) == path[att[p].name] = 0

\* shm_open(O_CREAT | O_EXCL) makes an empty object.
ExclCreate(p) ==
    /\ AttAt(p, "excl")
    /\ NameIsFree(p)
    /\ objs' = Append(objs, NewObject)
    /\ path' = [path EXCEPT ![att[p].name] = Len(objs')]
    /\ att' = [att EXCEPT ![p].pc = "map", ![p].obj = Len(objs')]
    /\ UNCHANGED unlinks

\* EEXIST: create() throws, try_create() leaves the rest to the open loop.
ExclExists(p) ==
    /\ AttAt(p, "excl")
    /\ ~NameIsFree(p)
    /\ AttGoto(p, IF att[p].mode = "create" THEN "failed" ELSE "open")
    /\ UNCHANGED <<path, objs, unlinks>>

\* map: ftruncate and mmap.
Map(p) ==
    /\ AttAt(p, "map")
    /\ objs' = [objs EXCEPT ![att[p].obj].sized = TRUE]
    /\ AttGoto(p, "stamp")
    /\ UNCHANGED <<path, unlinks>>

\* ftruncate or mmap fails: try_create takes the name back, whatever object
\* it leads to by now; create leaves its object behind, sized or not.
MapFails(p) ==
    /\ AttAt(p, "map")
    /\ \E sized \in BOOLEAN : objs' = [objs EXCEPT ![att[p].obj].sized = sized]
    /\ path' = IF att[p].mode = "join" THEN [path EXCEPT ![att[p].name] = 0] ELSE path
    /\ AttGoto(p, "failed")
    /\ Fault
    /\ UNCHANGED unlinks

\* stamp_new_region up to the magic, a schema of the configuration included.
Stamp(p) ==
    /\ AttAt(p, "stamp")
    /\ objs' = [objs EXCEPT ![att[p].obj].stamp = att[p].want,
                            ![att[p].obj].schema =
                                IF att[p].want.schema
                                THEN [state |-> "Set", blob |-> p, data |-> p]
                                ELSE NoSchema]
    /\ AttGoto(p, "magic")
    /\ UNCHANGED <<path, unlinks>>

StampMagic(p) ==
    /\ AttAt(p, "magic")
    /\ objs' = [objs EXCEPT ![att[p].obj].magic = TRUE]
    /\ AttGoto(p, "done")
    /\ UNCHANGED <<path, unlinks>>

\* An attempt that found nothing ready: open() throws, the loop tries again
\* until its 200th attempt.  Who waits for a process that died runs out of
\* attempts; otherwise the creator was too slow.
TooSlow == IF \E q \in Procs : ~alive[q] THEN UNCHANGED faults ELSE Fault

NotReady(p) ==
    \/ att[p].mode = "open" /\ AttGoto(p, "failed") /\ UNCHANGED faults
    \/ att[p].mode = "join" /\ AttGoto(p, "open") /\ UNCHANGED faults
    \/ att[p].mode = "join" /\ AttGoto(p, "failed") /\ TooSlow

\* try_open: the object must be there and have its size.
TryOpen(p) ==
    LET o == path[att[p].name]
    IN  /\ AttAt(p, "open")
        /\ IF o # 0 /\ objs[o].sized
           THEN att' = [att EXCEPT ![p].pc = "peek", ![p].obj = o] /\ UNCHANGED faults
           ELSE NotReady(p)
        /\ UNCHANGED <<path, objs, unlinks>>

\* shm_open, fstat or mmap fails: the exception ends the call.
OpenFails(p) ==
    /\ AttAt(p, "open")
    /\ Fault
    /\ AttGoto(p, "failed")
    /\ UNCHANGED <<path, objs, unlinks>>

\* Mutant of Ready: a sized object is taken for a stamped one.
ReadySized(o) == objs[o].sized

Ready(o) == objs[o].magic

IdentityFits(stamp, want) == stamp.topic = want.topic

ConfigFits(stamp, want) == stamp.cfg = want.cfg

\* open() compares the identity, which may be absent, create_or_open() the
\* configuration as well.
Fits(stamp, p) ==
    CASE att[p].mode = "open" -> stamp = Blank \/ IdentityFits(stamp, att[p].want)
      [] att[p].mode = "join" -> /\ stamp # Blank
                                 /\ ConfigFits(stamp, att[p].want)
                                 /\ IdentityFits(stamp, att[p].want)

\* The magic is there: check the header and keep the mapping, or throw.
Peek(p) ==
    /\ AttAt(p, "peek")
    /\ IF Ready(att[p].obj)
       THEN AttGoto(p, IF Fits(Object(p).stamp, p) THEN "done" ELSE "failed") /\ UNCHANGED faults
       ELSE NotReady(p)
    /\ UNCHANGED <<path, objs, unlinks>>

-----------------------------------------------------------------------------
(***************************************************************************)
(* The schema of a mapped region, claimed by whoever comes first.          *)
(***************************************************************************)
ClaimSteps == {"blob", "data", "set"}

\* Mutant of SchemaIsOpen: a claim under way is taken over.
SchemaNotSet(o) == objs[o].schema.state # "Set"

SchemaIsOpen(o) == objs[o].schema.state = "Unset"

\* try_claim_schema's CAS; who loses it waits a little and returns false.
ClaimSchema(p, o) ==
    /\ SchemaIsOpen(o)
    /\ objs' = [objs EXCEPT ![o].schema.state = "Claiming"]
    /\ att' = [att EXCEPT ![p].pc = "blob", ![p].obj = o]
    /\ UNCHANGED <<path, unlinks>>

SchemaBlob(p) ==
    /\ AttAt(p, "blob")
    /\ objs' = [objs EXCEPT ![att[p].obj].schema.blob = p]
    /\ AttGoto(p, "data")
    /\ UNCHANGED <<path, unlinks>>

SchemaData(p) ==
    /\ AttAt(p, "data")
    /\ objs' = [objs EXCEPT ![att[p].obj].schema.data = p]
    /\ AttGoto(p, "set")
    /\ UNCHANGED <<path, unlinks>>

SchemaSet(p) ==
    /\ AttAt(p, "set")
    /\ objs' = [objs EXCEPT ![att[p].obj].schema.state = "Set"]
    /\ AttGoto(p, "idle")
    /\ UNCHANGED <<path, unlinks>>

\* reset_schema_claim, called as its contract asks: the claimant has stopped.
ResetSchemaClaim(o) ==
    /\ objs[o].schema.state = "Claiming"
    /\ \A q \in Procs : alive[q] /\ att[q].pc \in ClaimSteps => att[q].obj # o
    /\ objs' = [objs EXCEPT ![o].schema.state = "Unset"]
    /\ UNCHANGED <<path, att, unlinks>>
=============================================================================
