------------------------------ MODULE RtmpServer ------------------------------
(***************************************************************************)
(* src/rtmp_server.rs: the sessions of publishers, from the handshake to   *)
(* the timeout, their entries in connections and the media they queue.     *)
(*                                                                         *)
(* A session is a peer's address and a connection from it; at most one at  *)
(* a time.  The codec (module RtmpCodec) hands messages to it; what has no *)
(* effect on the tables (connect, play, chunk sizes) is left out.  The     *)
(* message loop as a whole is dropped when connection_timeout is over,     *)
(* wherever it is waiting; the handshake has no timeout.  start_stream is  *)
(* StreamManager's: the row's is_live is read, and set some awaits later.  *)
(***************************************************************************)
EXTENDS Naturals, FiniteSets

CONSTANTS
    Sessions,       \* addresses of peers
    StreamKeys,     \* keys that rows of streams may have
    GivenKeys,      \* keys that peers publish with
    QueueSize,      \* mpsc::channel: 1000
    MaxConnects, MaxRunning     \* bounds: connections, runs of a stream

ASSUME RtmpAssumption == QueueSize \in Nat /\ MaxConnects \in Nat /\ MaxRunning \in Nat

VARIABLES
    entry,          \* connections: stream_key, is_publishing
    at,             \* handle_connection: next step
    asked,          \* the key handle_command has parsed (history: the key given,
                    \* the run it started, whether another start overlapped)
    queued,         \* messages in the session's channel
    publisher,      \* active_streams: key -> session; never removed
    keys,           \* keys of the streams whose owner is active
    live,           \* is_live of the rows
    connects,
    running,        \* runs of each stream so far
    told,           \* history: sessions told that they publish, and what they asked
    denied          \* history: the keys given by peers whose publish was
                    \* answered with an error, or ended the session

sessions == <<entry, at, asked, queued>>
streams == <<publisher, keys, live, running>>
rtmpVars == <<sessions, streams, connects, told, denied>>

NoKey == "none"
Nothing == [listed |-> FALSE, key |-> NoKey, publishing |-> FALSE]
NobodyAsks == [given |-> NoKey, key |-> NoKey, run |-> 0, raced |-> FALSE]
Parsed == {"publish"}       \* every key parse_stream_key_from_publish returns

RtmpInit ==
    /\ entry = [s \in Sessions |-> Nothing]
    /\ at = [s \in Sessions |-> "off"]
    /\ asked = [s \in Sessions |-> NobodyAsks]
    /\ queued = [s \in Sessions |-> 0]
    /\ publisher = [k \in {} |-> NoKey]
    /\ keys \in SUBSET StreamKeys /\ live = {} /\ connects = 0
    /\ running = [k \in StreamKeys |-> 0]
    /\ told = {} /\ denied = {}
-----------------------------------------------------------------------------
(* AcceptKnown, LiveUnchecked and QueueUnbounded are faulty variants of    *)
(* the definition that follows each; no action uses them.                  *)
-----------------------------------------------------------------------------
Pass(s, from, to) ==
    /\ at[s] = from
    /\ at' = [at EXCEPT ![s] = to]

(* The task ends; its channel and what it was about to do go with it.      *)
EndSession(s) ==
    /\ at' = [at EXCEPT ![s] = "off"]
    /\ asked' = [asked EXCEPT ![s] = NobodyAsks]
    /\ queued' = [queued EXCEPT ![s] = 0]

AcceptKnown(s) ==
    /\ Pass(s, "off", "handshake")
    /\ connects < MaxConnects /\ connects' = connects + 1
    /\ entry' = [entry EXCEPT ![s] = [@ EXCEPT !.listed = TRUE]]
    /\ told' = {t \in told : t.by # s}
    /\ UNCHANGED <<asked, queued, streams, denied>>

(* An entry that an earlier connection from the address left is replaced.  *)
Accept(s) ==
    /\ Pass(s, "off", "handshake")
    /\ connects < MaxConnects /\ connects' = connects + 1
    /\ entry' = [entry EXCEPT ![s] = [Nothing EXCEPT !.listed = TRUE]]
    /\ told' = {t \in told : t.by # s}
    /\ UNCHANGED <<asked, queued, streams, denied>>

(* The first message, whatever it is, counts as the handshake. *)
Handshake(s) ==
    /\ Pass(s, "handshake", "read")
    /\ UNCHANGED <<entry, asked, queued, streams, connects, told, denied>>

(* A decoding error, a command that does not parse, an answer that cannot  *)
(* be sent, the database: the entry stays.                                 *)
Fails(s) ==
    /\ at[s] \in {"handshake", "read", "authenticate", "respond"}
    /\ EndSession(s)
    /\ UNCHANGED <<entry, streams, connects, told, denied>>

(* The peer closes, and nothing was left undecoded. *)
Closes(s) ==
    /\ at[s] = "read"
    /\ EndSession(s)
    /\ entry' = [entry EXCEPT ![s] = Nothing]
    /\ UNCHANGED <<streams, connects, told, denied>>
-----------------------------------------------------------------------------
(* handle_command.                                                         *)

(* handle_command reads the name of a command from its second byte on, but *)
(* AMF0 puts the marker of the name into the first: "Not an AMF0 string".  *)
(* Of connect and play Fails has the same.                                 *)
Publish(s, key) ==
    /\ at[s] = "read"
    /\ EndSession(s)
    /\ denied' = denied \cup {key}
    /\ UNCHANGED <<entry, streams, connects, told>>

(* The position of the first string marker in the command is that of the   *)
(* command's own name.                                                     *)
ParseStreamKey(key) == "publish"

(* A command with a byte before its marker is read. *)
PublishAfterByte(s, key) ==
    /\ Pass(s, "read", "authenticate")
    /\ asked' = [asked EXCEPT ![s].given = key, ![s].key = ParseStreamKey(key)]
    /\ UNCHANGED <<entry, queued, streams, connects, told, denied>>

Authenticate(s) ==
    /\ asked[s].key \in keys
    /\ Pass(s, "authenticate", "claim")
    /\ UNCHANGED <<entry, asked, queued, streams, connects, told, denied>>

(* onPublishError; the session goes on. *)
Deny(s) ==
    /\ asked[s].key \notin keys
    /\ Pass(s, "authenticate", "read")
    /\ denied' = denied \cup {asked[s].given}
    /\ asked' = [asked EXCEPT ![s] = NobodyAsks]
    /\ UNCHANGED <<entry, queued, streams, connects, told>>

Claim(s) ==
    /\ Pass(s, "claim", "list")
    /\ entry' = [entry EXCEPT ![s] = [listed |-> TRUE, key |-> asked[s].key, publishing |-> TRUE]]
    /\ UNCHANGED <<asked, queued, streams, connects, told, denied>>

List(s) ==
    /\ Pass(s, "list", "check")
    /\ publisher' = [k \in DOMAIN publisher \cup {asked[s].key} |->
                       IF k = asked[s].key THEN s ELSE publisher[k]]
    /\ UNCHANGED <<entry, asked, queued, keys, live, running, connects, told,
                   denied>>

Setting(k) == {s \in Sessions : at[s] = "set" /\ asked[s].key = k}

(* Between its check and the row's update start_stream has others overlap. *)
EnterStart(s) ==
    LET others == Setting(asked[s].key)
    IN  /\ Pass(s, "check", "set")
        /\ asked' = [t \in Sessions |->
                       IF others # {} /\ t \in others \cup {s}
                       THEN [asked[t] EXCEPT !.raced = TRUE] ELSE asked[t]]
        /\ UNCHANGED <<entry, queued, streams, connects, told, denied>>

LiveUnchecked(s) == EnterStart(s)

CheckLive(s) == asked[s].key \notin live /\ EnterStart(s)

(* An error of start_stream ends the session, though the table of streams  *)
(* and its entry name it already.                                          *)
AlreadyLive(s) ==
    /\ at[s] = "check" /\ asked[s].key \in live
    /\ EndSession(s)
    /\ UNCHANGED <<entry, streams, connects, told, denied>>

MarkLive(k) ==
    /\ live' = live \cup {k}
    /\ running' = IF k \in live THEN running ELSE [running EXCEPT ![k] = @ + 1]

StartSucceeds(s) ==
    /\ Pass(s, "set", "respond")
    /\ running[asked[s].key] < MaxRunning
    /\ MarkLive(asked[s].key)
    /\ asked' = [asked EXCEPT ![s].run = running'[asked[s].key]]
    /\ UNCHANGED <<entry, queued, publisher, keys, connects, told, denied>>

(* Before the row is set, or after. *)
StartFails(s) ==
    /\ at[s] = "set"
    /\ \/ running[asked[s].key] < MaxRunning /\ MarkLive(asked[s].key)
       \/ UNCHANGED <<live, running>>
    /\ EndSession(s)
    /\ UNCHANGED <<entry, publisher, keys, connects, told, denied>>

(* onPublishStart *)
Respond(s) ==
    /\ Pass(s, "respond", "read")
    /\ told' = told \cup {[by |-> s, start |-> asked[s]]}
    /\ asked' = [asked EXCEPT ![s] = NobodyAsks]
    /\ UNCHANGED <<entry, queued, streams, connects, denied>>
-----------------------------------------------------------------------------
(* Media, time and the stream's end.                                       *)

Media(s) ==
    /\ entry[s].key # NoKey
    /\ Pass(s, "read", "send")
    /\ UNCHANGED <<entry, asked, queued, streams, connects, told, denied>>

QueueUnbounded(s) ==
    /\ Pass(s, "send", "read")
    /\ queued' = [queued EXCEPT ![s] = @ + 1]
    /\ UNCHANGED <<entry, asked, streams, connects, told, denied>>

(* Nothing is ever taken out of the channel. *)
Queue(s) ==
    /\ queued[s] < QueueSize
    /\ Pass(s, "send", "read")
    /\ queued' = [queued EXCEPT ![s] = @ + 1]
    /\ UNCHANGED <<entry, asked, streams, connects, told, denied>>

(* Whatever the loop awaits; the entry stays. *)
Timeout(s) ==
    /\ at[s] \notin {"off", "handshake"}
    /\ EndSession(s)
    /\ UNCHANGED <<entry, streams, connects, told, denied>>

(* By the API; the session is not told. *)
StreamStopped(k) ==
    /\ k \in live
    /\ live' = live \ {k}
    /\ UNCHANGED <<sessions, publisher, keys, running, connects, told, denied>>
-----------------------------------------------------------------------------
RtmpNext ==
    \/ \E s \in Sessions :
         \/ Accept(s) \/ Handshake(s) \/ Fails(s) \/ Closes(s)
         \/ \E key \in GivenKeys : Publish(s, key) \/ PublishAfterByte(s, key)
         \/ Authenticate(s) \/ Deny(s) \/ Claim(s) \/ List(s)
         \/ CheckLive(s) \/ AlreadyLive(s) \/ StartSucceeds(s) \/ StartFails(s) \/ Respond(s)
         \/ Media(s) \/ Queue(s) \/ Timeout(s)
    \/ \E k \in StreamKeys : StreamStopped(k)

RtmpSpec == RtmpInit /\ [][RtmpNext]_rtmpVars
-----------------------------------------------------------------------------
(* Properties.                                                             *)

Publishing == [given : GivenKeys \cup {NoKey}, key : Parsed \cup {NoKey},
               run : 0..MaxRunning, raced : BOOLEAN]

RtmpTypeOK ==
    /\ entry \in [Sessions -> [listed : BOOLEAN, key : StreamKeys \cup {NoKey}, publishing : BOOLEAN]]
    /\ at \in [Sessions -> {"off", "handshake", "read", "authenticate", "claim", "list",
                            "check", "set", "respond", "send"}]
    /\ asked \in [Sessions -> Publishing]
    /\ queued \in [Sessions -> 0..QueueSize]
    /\ DOMAIN publisher \subseteq StreamKeys /\ \A k \in DOMAIN publisher : publisher[k] \in Sessions
    /\ live \subseteq keys /\ keys \subseteq StreamKeys /\ denied \subseteq GivenKeys
    /\ connects \in 0..MaxConnects /\ running \in [StreamKeys -> 0..MaxRunning]
    /\ told \subseteq [by : Sessions, start : Publishing]

(* Of two peers that publish one key, one at most is told that it does,    *)
(* for each time the stream goes live, though both are given the entry and *)
(* the place in active_streams first; unless their starts overlapped.      *)
OnePublisher ==
    \A t, u \in told :
        t # u /\ t.start.key = u.start.key /\ t.start.run = u.start.run =>
            t.start.raced /\ u.start.raced

(* Media are queued only by a session that was told that it publishes,     *)
(* whatever an earlier connection from its address left in the table.      *)
MediaAfterPublish == \A s \in Sessions : queued[s] > 0 => \E t \in told : t.by = s

(* A peer that publishes with the key of a stream is neither answered with *)
(* an error nor cut off for it.                                            *)
PublishAccepted == denied \cap keys = {}
=============================================================================
