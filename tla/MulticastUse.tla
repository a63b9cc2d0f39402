---------------------------- MODULE MulticastUse ----------------------------
(***************************************************************************)
(* How the groups of MulticastManager are used, written down beside it.    *)
(*                                                                         *)
(* The manager decides what to drop from the ages it keeps in its groups.  *)
(* used and joined are kept from the calls alone, and never look at those  *)
(* ages: an age that a call forgets to renew, that ages too fast, or that  *)
(* is read of the wrong group or viewer makes the two disagree.  They are  *)
(* history variables: nothing of the manager depends on them.              *)
(***************************************************************************)
EXTENDS MulticastManager

VARIABLES
    used,       \* ticks since the group of a stream was created or sent to
    joined      \* ticks since a viewer joined it, MaxAge when it is not in

history == <<used, joined>>
useVars == <<vars, history>>

LongAgo == [v \in Viewers |-> MaxAge]

UseInit ==
    /\ Init
    /\ used = [k \in StreamKeys |-> MaxAge]
    /\ joined = [k \in StreamKeys |-> LongAgo]

(* Nothing is remembered of a stream that has no group.                    *)
Remember(u, j) ==
    /\ used' = [k \in StreamKeys |-> IF k \in Live' THEN u[k] ELSE MaxAge]
    /\ joined' = [k \in StreamKeys |-> IF k \in Live' THEN j[k] ELSE LongAgo]

UsePacket(t, k) == SendPacket(t, k) /\ Remember([used EXCEPT ![k] = 0], joined)

UseGroup(t) ==
    /\ InsertGroup(t)
    /\ LET k == lease[t].key
       IN Remember([used EXCEPT ![k] = 0], [joined EXCEPT ![k] = LongAgo])

UseJoin(k, v) == AddViewer(k, v) /\ Remember(used, [joined EXCEPT ![k][v] = 0])
UseLeave(k, v) == RemoveViewer(k, v) /\ Remember(used, [joined EXCEPT ![k][v] = MaxAge])

UseTick ==
    /\ Tick
    /\ Remember([k \in StreamKeys |-> Older(used[k])],
                [k \in StreamKeys |-> [v \in Viewers |-> Older(joined[k][v])]])

UseElse ==
    /\ \/ \E t \in Tasks, k \in StreamKeys : CreateGroup(t, k) \/ RemoveGroup(t, k)
       \/ \E t \in Tasks : \/ BindSocket(t) \/ BindFails(t) \/ InsertSocket(t)
                           \/ RemoveResources(t) \/ Transmit(t) \/ AbandonCreate(t)
       \/ Cleanup
    /\ Remember(used, joined)

(* The steps of Next, each with what it means for the use of the groups.   *)
UseNext ==
    \/ \E t \in Tasks, k \in StreamKeys : UsePacket(t, k)
    \/ \E t \in Tasks : UseGroup(t)
    \/ \E k \in StreamKeys, v \in Viewers : UseJoin(k, v) \/ UseLeave(k, v)
    \/ UseTick
    \/ UseElse

UseSpec == UseInit /\ [][UseNext]_useVars
UseFairSpec == UseSpec /\ Fairness
-----------------------------------------------------------------------------
(* An iteration of the cleanup takes away a group only when for a whole    *)
(* timeout nothing was sent to it, it was not created and nobody joined it *)
(* and stayed, and takes out of a group it keeps only a viewer who did not *)
(* join for a whole timeout, whatever the ages in the table say.           *)
DroppedOnlyIdle ==
    [][cleanup_due' > cleanup_due =>
         \A k \in Live :
            IF k \in Live'
            THEN \A v \in DOMAIN groups[k].viewers \ DOMAIN groups'[k].viewers :
                    joined[k][v] > GroupTimeout
            ELSE /\ used[k] > GroupTimeout
                 /\ \A v \in Viewers : joined[k][v] > GroupTimeout]_useVars
=============================================================================
