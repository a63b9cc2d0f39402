----------------------------- MODULE WebRtcServer -----------------------------
(***************************************************************************)
(* src/webrtc_server.rs: the peer connections of one stream key, from the  *)
(* offer to the three places that may close them: stop_stream, the state   *)
(* callback and the cleanup task.                                          *)
(*                                                                         *)
(* A peer is one offer.  create_peer_connection is a sequence of awaits    *)
(* (making[p] is the next); the connection itself belongs to the webrtc    *)
(* library, which reports changes of its state to the callback, one at a   *)
(* time (actual[p], callback[p]).  The tables are read and written under   *)
(* separate locks.  Disconnected counts as failed: the code makes no       *)
(* difference.  The stream's viewer_count and statistics, which nothing    *)
(* here depends on, are left out.                                          *)
(*                                                                         *)
(* In this repository no route leads to create_peer_connection; the module *)
(* is about what it does when called.                                      *)
(***************************************************************************)
EXTENDS Naturals

CONSTANTS
    Peers,
    MaxLives        \* bound: starts of the stream

ASSUME RtcAssumption == MaxLives \in Nat

VARIABLES
    listed,         \* active_streams has the key
    lives,          \* starts so far
    table,          \* peer_connections: connection_state, or absent
    silent,         \* peers of the table without a state change for five minutes
    making,         \* create_peer_connection: next step for each peer
    actual,         \* the library: the connection's own state
    callback,       \* the state callback: the state to note, or the next step
    closer,         \* stop_stream: next step, peers still to close
    doomed,         \* cleanup task: the peers it listed
    late            \* history: peers a stop could not or did not close

creation == <<making, late>>
library == <<actual, callback>>
closers == <<closer, doomed>>
rtcVars == <<listed, lives, table, silent, creation, library, closers>>

Idle == [at |-> "idle", peers |-> {}]
Over == {"failed", "closed"}

RtcInit ==
    /\ listed = FALSE /\ lives = 0
    /\ table = [p \in Peers |-> "absent"]
    /\ silent = {} /\ doomed = {} /\ late = {}
    /\ making = [p \in Peers |-> "offer"]
    /\ actual = [p \in Peers |-> "none"]
    /\ callback = [p \in Peers |-> "idle"]
    /\ closer = Idle
-----------------------------------------------------------------------------
(* ListConnected and ListFailed are faulty variants of the definition that *)
(* follows each; no action uses them.                                      *)
-----------------------------------------------------------------------------
Stored == {p \in Peers : table[p] # "absent"}

(* peer_connections.remove *)
Remove(peers) ==
    /\ table' = [p \in Peers |-> IF p \in peers THEN "absent" ELSE table[p]]
    /\ silent' = silent \ peers

(* close: the library will report it.  Closing twice does nothing. *)
Close(peers) ==
    actual' = [p \in Peers |-> IF p \in peers /\ actual[p] # "closed" THEN "closing"
                               ELSE actual[p]]

Make(p, from, to) ==
    /\ making[p] = from
    /\ making' = [making EXCEPT ![p] = to]

StartStream ==
    /\ lives < MaxLives
    /\ closer = Idle
    /\ listed' = TRUE
    /\ lives' = lives + 1
    /\ late' = {}
    /\ UNCHANGED <<table, silent, making, library, closers>>
-----------------------------------------------------------------------------
(* create_peer_connection.                                                 *)

CheckStream(p) ==
    /\ Make(p, "offer", IF listed THEN "describe" ELSE "refused")
    /\ actual' = IF listed THEN [actual EXCEPT ![p] = "new"] ELSE actual
    /\ UNCHANGED <<listed, lives, table, silent, late, callback, closers>>

(* No error if the stream has gone: the peer gets no tracks.  The handlers *)
(* are set; the library starts on the local description.                   *)
Describe(p) ==
    /\ Make(p, "describe", "insert")
    /\ actual' = [actual EXCEPT ![p] = "connecting"]
    /\ UNCHANGED <<listed, lives, table, silent, late, callback, closers>>

(* One of the awaits before the insertion fails; the connection is dropped *)
(* without being closed.                                                   *)
OfferFails(p) ==
    /\ Make(p, "describe", "refused")
    /\ actual' = [actual EXCEPT ![p] = "none"]
    /\ late' = late \ {p}
    /\ UNCHANGED <<listed, lives, table, silent, callback, closers>>

(* Stored as new, whatever the callback has heard before.                  *)
InsertPeer(p) ==
    /\ Make(p, "insert", "answered")
    /\ table' = [table EXCEPT ![p] = "new"]
    /\ UNCHANGED <<listed, lives, silent, late, library, closers>>
-----------------------------------------------------------------------------
(* The library and the state callback.                                     *)

(* A client can connect once it has the answer; checks may fail before.    *)
StateChanges(p, s) ==
    /\ callback[p] = "idle"
    /\ \/ actual[p] = "connecting" /\ s = "failed"
       \/ actual[p] = "connecting" /\ s = "connected" /\ making[p] = "answered"
       \/ actual[p] = "connected" /\ s = "failed"
       \/ actual[p] = "closing" /\ s = "closed"
    /\ actual' = [actual EXCEPT ![p] = s]
    /\ callback' = [callback EXCEPT ![p] = s]
    /\ UNCHANGED <<listed, lives, table, silent, creation, closers>>

(* Nothing is noted for a peer that is not in the table (yet).             *)
UpdateState(p) ==
    LET s == callback[p]
    IN  /\ s \in {"connected"} \cup Over
        /\ table' = IF p \in Stored THEN [table EXCEPT ![p] = s] ELSE table
        /\ silent' = silent \ {p}
        /\ callback' = [callback EXCEPT ![p] = IF s \in Over THEN "close" ELSE "idle"]
        /\ UNCHANGED <<listed, lives, creation, actual, closers>>

ClosePeer(p) ==
    /\ callback[p] = "close"
    /\ Close({p})
    /\ callback' = [callback EXCEPT ![p] = "remove"]
    /\ UNCHANGED <<listed, lives, table, silent, creation, closers>>

(* The viewer count is left as it is. *)
RemovePeer(p) ==
    /\ callback[p] = "remove"
    /\ Remove({p})
    /\ callback' = [callback EXCEPT ![p] = "idle"]
    /\ UNCHANGED <<listed, lives, creation, actual, closers>>
-----------------------------------------------------------------------------
(* stop_stream: the stream, then a list of its peers, then one by one.     *)

RemoveStream ==
    /\ listed /\ closer = Idle
    /\ closer' = [Idle EXCEPT !.at = "list"]
    /\ listed' = FALSE
    /\ late' = {p \in Peers : making[p] \in {"describe", "insert"}}
    /\ UNCHANGED <<lives, table, silent, making, library, doomed>>

ListConnected ==
    /\ closer.at = "list"
    /\ closer' = [at |-> "close", peers |-> {p \in Stored : table[p] = "connected"}]
    /\ UNCHANGED <<listed, lives, table, silent, creation, library, doomed>>

ListPeers ==
    /\ closer.at = "list"
    /\ closer' = [at |-> "close", peers |-> Stored]
    /\ UNCHANGED <<listed, lives, table, silent, creation, library, doomed>>

(* close_peer_connection takes the peer out of the table first; the        *)
(* callback may have been quicker.                                         *)
CloseListed(p) ==
    /\ closer.at = "close" /\ p \in closer.peers
    /\ Remove({p})
    /\ Close({p} \cap Stored)
    /\ closer' = [closer EXCEPT !.peers = @ \ {p}]
    /\ UNCHANGED <<listed, lives, creation, callback, doomed>>

(* The connection does not close: the stop returns and the rest of the     *)
(* list is not closed.                                                     *)
CloseFails(p) ==
    /\ closer.at = "close" /\ p \in closer.peers \cap Stored
    /\ Remove({p})
    /\ closer' = Idle
    /\ late' = late \cup (closer.peers \ {p})
    /\ UNCHANGED <<listed, lives, making, library, doomed>>

StopDone ==
    /\ closer.at = "close" /\ closer.peers = {}
    /\ closer' = Idle
    /\ UNCHANGED <<listed, lives, table, silent, creation, library, doomed>>
-----------------------------------------------------------------------------
(* connection_cleanup_task lists under the read lock and removes under the *)
(* write lock.                                                             *)

(* Only a state change renews last_activity: a peer that streams without   *)
(* a hitch falls silent like any other.                                    *)
GoesSilent(p) ==
    /\ p \in Stored \ silent
    /\ silent' = silent \cup {p}
    /\ UNCHANGED <<listed, lives, table, creation, library, closers>>

ListFailed ==
    /\ doomed = {}
    /\ doomed' = {p \in Stored : table[p] = "failed"}
    /\ doomed' # {}
    /\ UNCHANGED <<listed, lives, table, silent, creation, library, closer>>

ListInactive ==
    /\ doomed = {}
    /\ doomed' = silent \cup {p \in Stored : table[p] = "failed"}
    /\ doomed' # {}
    /\ UNCHANGED <<listed, lives, table, silent, creation, library, closer>>

(* Errors of close are ignored here. *)
RemoveInactive ==
    /\ doomed # {}
    /\ Remove(doomed)
    /\ Close(doomed \cap Stored)
    /\ doomed' = {}
    /\ UNCHANGED <<listed, lives, creation, callback, closer>>
-----------------------------------------------------------------------------
CreateStep(p) == CheckStream(p) \/ Describe(p) \/ OfferFails(p) \/ InsertPeer(p)

CallbackStep(p) ==
    \/ \E s \in {"connected"} \cup Over : StateChanges(p, s)
    \/ UpdateState(p) \/ ClosePeer(p) \/ RemovePeer(p)

RtcNext ==
    \/ StartStream
    \/ \E p \in Peers : CreateStep(p) \/ CallbackStep(p) \/ GoesSilent(p)
                        \/ CloseListed(p) \/ CloseFails(p)
    \/ RemoveStream \/ ListPeers \/ StopDone
    \/ ListInactive \/ RemoveInactive

RtcSpec == RtcInit /\ [][RtcNext]_rtcVars

(* Time passes and the cleanup task keeps ticking.                         *)
RtcFairness ==
    /\ \A p \in Peers : WF_rtcVars(GoesSilent(p))
    /\ WF_rtcVars(ListInactive) /\ WF_rtcVars(RemoveInactive)
RtcFairSpec == RtcSpec /\ RtcFairness
-----------------------------------------------------------------------------
(* Properties.                                                             *)

RtcTypeOK ==
    /\ listed \in BOOLEAN /\ lives \in 0..MaxLives
    /\ table \in [Peers -> {"absent", "new", "connected"} \cup Over]
    /\ silent \subseteq Stored /\ doomed \subseteq Peers /\ late \subseteq Peers
    /\ making \in [Peers -> {"offer", "describe", "insert", "answered", "refused"}]
    /\ actual \in [Peers -> {"none", "new", "connecting", "connected", "closing"} \cup Over]
    /\ callback \in [Peers -> {"idle", "connected", "close", "remove"} \cup Over]
    /\ closer \in [at : {"idle", "list", "close"}, peers : SUBSET Peers]

(* After a stop no peer of the stream is left in the table, except those   *)
(* whose creation had passed the check when the stream was removed, and    *)
(* those the stop gave up on because another one would not close.          *)
StopClearsPeers == ~listed /\ closer = Idle => Stored \subseteq late

(* No peer connection stays in the table for ever, however it ended, and   *)
(* even if the callback heard of its end before it was stored.             *)
PeersLeave == \A p \in Peers : p \in Stored ~> p \notin Stored
=============================================================================
