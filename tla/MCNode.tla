------------------------------- MODULE MCNode -------------------------------
(***************************************************************************)
(* Two nodes and an observer on one topic name; and the layout of small    *)
(* regions, in words of one byte.                                          *)
(***************************************************************************)
EXTENDS Node, Layout, TLC

CONSTANTS a, b, watcher

Want(t, c, s) == [topic |-> t, cfg |-> c, schema |-> s]

\* Two topics that sanitise to one name.
TopicName == ("t" :> "/t") @@ ("t~" :> "/t")

\* Nothing is there yet: the nodes race to create, join and open, with equal,
\* other and colliding configurations, and to claim the schema.
Setting ==
    [there |-> <<>>, capacity |-> 1,
     calls |-> (a :> {AdvertiseOrJoin(Want("t", 0, FALSE))})
            @@ (b :> {Advertise(Want("t", 0, TRUE)),
                      Subscribe(Want("t", 0, FALSE)),
                      SubscribeOrCreate(Want("t", 1, FALSE)),
                      Subscribe(Want("t~", 0, FALSE))})
            @@ (watcher :> {}),
     call |-> (a :> 1) @@ (b :> 1), unlink |-> 1, claim |-> 2, look |-> 0, faults |-> 2]

\* A mailbox is made by its owner or by a sender.
Mail ==
    [there |-> <<>>, capacity |-> 2,
     calls |-> (a :> {CreateMailbox(Want("t", 0, FALSE))})
            @@ (b :> {OpenOrCreateMailbox(Want("t", 0, FALSE)), OpenMailbox(Want("t~", 0, FALSE))})
            @@ (watcher :> {}),
     call |-> (a :> 1) @@ (b :> 1), unlink |-> 0, claim |-> 0, look |-> 0, faults |-> 1]

\* Boards and broadcasts are joined in both roles at once.
Boards ==
    [Mail EXCEPT !.calls = (a :> {OpenBlackboard(Want("t", 0, FALSE))})
                        @@ (b :> {OpenBlackboard(Want("t", 1, FALSE)), OpenBlackboard(Want("t~", 0, FALSE))})
                        @@ (watcher :> {})]

\* Region and registry are there.
There == <<[name |-> "/t", want |-> Want("t", 0, FALSE)], [name |-> "/registry", want |-> RegistryStamp]>>

\* The nodes compete for the only row and change roles; an observer looks on.
Roles ==
    [there |-> There, capacity |-> 1,
     calls |-> (a :> {AdvertiseOrJoin(Want("t", 0, FALSE)), Subscribe(Want("t", 0, FALSE))})
            @@ (b :> {SubscribeOrCreate(Want("t", 0, FALSE))})
            @@ (watcher :> {}),
     call |-> (a :> 2) @@ (b :> 1), unlink |-> 0, claim |-> 0, look |-> 1, faults |-> 1]

\* There are rows for both, and calls that do not fit the region they have.
Rooms ==
    [there |-> There, capacity |-> 2,
     calls |-> (a :> {CreateOrOpenMailbox(Want("t", 0, FALSE)), CreateOrOpenMailbox(Want("t", 1, FALSE))})
            @@ (b :> {OpenMailbox(Want("t", 0, FALSE)), OpenMailbox(Want("t~", 0, FALSE))})
            @@ (watcher :> {}),
     call |-> (a :> 2) @@ (b :> 2), unlink |-> 0, claim |-> 0, look |-> 1, faults |-> 0]

\* Everybody joins in both roles.
Meetings ==
    [Rooms EXCEPT !.calls = (a :> {JoinBroadcast(Want("t", 0, FALSE))})
                         @@ (b :> {JoinBroadcast(Want("t", 0, FALSE)), JoinBroadcast(Want("t", 1, FALSE))})
                         @@ (watcher :> {})]

Scenarios == {Setting, Mail, Boards, Roles, Rooms, Meetings}

-----------------------------------------------------------------------------
\* Configurations around the limits: some wrap, some are refused, some fit.
SmallConfigs == [subs : {0, 1, 3, 31}, capacity : {1, 4, 6, 64}, pool : {1, 9, 255},
                 payload : {1, 17, 200}, schema : {0, 9, 100}, name : {0, 5}]

ASSUME CreatorsAreAccepted == \A cfg \in SmallConfigs : CreatorIsAccepted(cfg)

ASSUME SomeConfigFits == \E cfg \in SmallConfigs : ValidConfig(cfg) /\ ~TooLarge(cfg)

\* Headers, few of which a creator would write.
SmallHeaders == [total : {64, 255}, rings : {8, 12}, slots : {32, 40}, subs : {1, 3}, capacity : {1, 4, 128},
                 mask : {0, 3, 127}, pool : {1, 8}, data : {1, 8}, slot_stride : {4, 8}, ring_stride : {12, 16},
                 blob : {8, 12}, blob_capacity : {0, 4}, name : {0, 4}]

ASSUME SnapshotsAreSafe == \A h \in SmallHeaders : SnapshotIsSafe(h, 255)

ASSUME SomeSnapshotIsValid == \E h \in SmallHeaders : ValidSnapshot(h, 255)
=============================================================================
