---------------------------- MODULE StreamManager ----------------------------
(***************************************************************************)
(* src/stream_manager.rs, with the API and RTMP handlers that call it: how *)
(* a stream goes live and offline across the database row, the tables of   *)
(* the stream manager, the multicast group, the transcoding job and the    *)
(* HLS and WebRTC servers.                                                 *)
(*                                                                         *)
(* start_stream and stop_stream are long sequences of awaits; each await   *)
(* is a step of its own, pc[c] is the next one of caller c, and any of     *)
(* them may fail with `?`, which returns at once and undoes nothing.       *)
(*                                                                         *)
(* The n-th start of stream s that finds it offline is run n of s: it has  *)
(* one lease, one transcoding job and one session, named <<s, n>>.         *)
(* The layers below are seen through what they promise:                    *)
(*   - groups and leases: StreamDirectory and MulticastManager;            *)
(*   - jobs: the entries in the table of TranscoderManager, where a job    *)
(*     leaves by itself;                                                   *)
(*   - hls, webrtc: the stream tables of the two servers, and bound, the   *)
(*     UDP ports their receivers listen on.                                *)
(***************************************************************************)
EXTENDS Integers, FiniteSets

CONSTANTS
    Streams,
    Callers,        \* API requests and RTMP sessions at work
    Ports,          \* multicast ports, a set of numbers
    MaxRuns,        \* bound: runs of one stream
    MaxCrashes      \* bound: restarts of the server

ASSUME PortsAssumption == Ports \subseteq Nat
ASSUME BoundsAssumption == MaxRuns \in Nat /\ MaxCrashes \in Nat

RunNumbers == 1..MaxRuns
Runs == Streams \X RunNumbers

VARIABLES
    db,             \* the row of each stream: is_live, and the run it advertises
    saved,          \* rows of the stream_sessions table
    active,         \* active_streams: stream -> its run, and whether it looks stalled
    tracking,       \* streams with an entry in viewer_tracking
    sessions,       \* runs with an entry in the stream_sessions map
    groups,         \* stream -> the run whose multicast group is listed
    leases,         \* run -> the port leased for it
    jobs,           \* runs whose job is in the transcoder's table
    hls, webrtc,    \* streams with an entry in each server
    bound,          \* ports a receiver listens on
    monitored,      \* streams the health monitor is about to mark offline
    pc, work,       \* each caller: where it is, and the run it works for
    told,           \* what the last call of each caller returned
    next_run, crashes,
    disturbed       \* history: streams on which calls overlapped, or that a
                    \* restart of the server left marked live

database == <<db, saved>>
manager == <<active, tracking, sessions, monitored>>
multicast == <<groups, leases>>
servers == <<hls, webrtc, bound>>
history == <<next_run, crashes, disturbed>>
vars == <<database, manager, multicast, jobs, servers, pc, work, told, history>>

NoRun == 0
NoPort == 0
Active == DOMAIN active
EmptyTable == [s \in {} |-> 0]

Init ==
    /\ db = [s \in Streams |-> [is_live |-> FALSE, run |-> NoRun]]
    /\ saved = {}
    /\ active = EmptyTable
    /\ tracking = {} /\ sessions = {} /\ monitored = {}
    /\ groups = EmptyTable /\ leases = EmptyTable
    /\ jobs = {} /\ hls = {} /\ webrtc = {} /\ bound = {}
    /\ pc = [c \in Callers |-> "idle"]
    /\ work \in [Callers -> {[stream |-> s, run |-> NoRun, port |-> NoPort] : s \in Streams}]
    /\ told = [c \in Callers |-> "nothing"]
    /\ next_run = [s \in Streams |-> 1]
    /\ crashes = 0
    /\ disturbed = {}
-----------------------------------------------------------------------------
(* Definitions whose names end in Cloned, PastEnd, Swallowed and Fresh are *)
(* faulty variants of the definition that follows them.  Next uses none of *)
(* them: they are put in its place to see which property catches the       *)
(* fault.                                                                  *)
-----------------------------------------------------------------------------
Stream(c) == work[c].stream
Run(c) == <<work[c].stream, work[c].run>>

Set(f, x, v) == [y \in DOMAIN f \cup {x} |-> IF y = x THEN v ELSE f[y]]
Without(f, X) == [y \in DOMAIN f \ X |-> f[y]]

(* A caller comes in for stream s. *)
Call(c, s, first) ==
    /\ pc[c] = "idle"
    /\ pc' = [pc EXCEPT ![c] = first]
    /\ work' = [work EXCEPT ![c].stream = s]
    /\ told' = [told EXCEPT ![c] = "nothing"]
    /\ disturbed' = IF \E d \in Callers : pc[d] # "idle" /\ Stream(d) = s
                    THEN disturbed \cup {s} ELSE disturbed
    /\ UNCHANGED <<next_run, crashes>>

Go(c, from, to) ==
    /\ pc[c] = from
    /\ pc' = [pc EXCEPT ![c] = to]
    /\ UNCHANGED <<told, history>>

Return(c, from, result) ==
    /\ pc[c] \in from
    /\ pc' = [pc EXCEPT ![c] = "idle"]
    /\ told' = [told EXCEPT ![c] = result]
    /\ work' = [work EXCEPT ![c] = [@ EXCEPT !.run = NoRun, !.port = NoPort]]
    /\ UNCHANGED history
-----------------------------------------------------------------------------
(* start_stream.                                                           *)

(* Called by an RTMP publish, or by the API, which has looked at is_live   *)
(* just as the first step of the manager does again.                       *)
StartStream(c, s) ==
    /\ next_run[s] \in RunNumbers
    /\ Call(c, s, "find")
    /\ UNCHANGED <<database, manager, multicast, jobs, servers>>

FindStream(c) ==
    LET s == Stream(c)
    IN  /\ pc[c] = "find"
        /\ ~db[s].is_live
        /\ next_run[s] \in RunNumbers
        /\ pc' = [pc EXCEPT ![c] = "create_group"]
        /\ work' = [work EXCEPT ![c].run = next_run[s]]
        /\ next_run' = [next_run EXCEPT ![s] = @ + 1]
        /\ UNCHANGED <<database, manager, multicast, jobs, servers, told, crashes, disturbed>>

RefuseLive(c) ==
    /\ db[Stream(c)].is_live
    /\ Return(c, {"find"}, "failed")
    /\ UNCHANGED <<database, manager, multicast, jobs, servers>>

FreePortsPastEnd == {p + 1 : p \in Ports} \ {leases[r] : r \in DOMAIN leases}

FreePorts == Ports \ {leases[r] : r \in DOMAIN leases}
FirstFree == {p \in FreePorts : \A q \in FreePorts : p <= q}

(* The group replaces an older one of the same stream, whose lease stays.  *)
CreateGroup(c) ==
    /\ Go(c, "create_group", "set_live")
    /\ \E p \in FirstFree :
         /\ leases' = Set(leases, Run(c), p)
         /\ work' = [work EXCEPT ![c].port = p]
    /\ groups' = Set(groups, Stream(c), work[c].run)
    /\ UNCHANGED <<database, manager, jobs, servers>>

(* create_group ends once the port is leased: its socket cannot be made,   *)
(* or the timeout of the RTMP session drops the call.  The lease stays.    *)
GroupCutShort(c) ==
    /\ \E result \in {"failed", "nothing"} : Return(c, {"create_group"}, result)
    /\ \E p \in FirstFree : leases' = Set(leases, Run(c), p)
    /\ UNCHANGED <<database, manager, groups, jobs, servers>>

SetLive(c) ==
    /\ Go(c, "set_live", "transcode")
    /\ db' = [db EXCEPT ![Stream(c)] = [is_live |-> TRUE, run |-> work[c].run]]
    /\ UNCHANGED <<saved, work, manager, multicast, jobs, servers>>

StartTranscoding(c) ==
    /\ Go(c, "transcode", "insert_active")
    /\ jobs' = jobs \cup {Run(c)}
    /\ UNCHANGED <<database, work, manager, multicast, servers>>

InsertActive(c) ==
    /\ Go(c, "insert_active", "insert_tracking")
    /\ active' = Set(active, Stream(c), [run |-> work[c].run, stalled |-> FALSE])
    /\ UNCHANGED <<database, work, tracking, sessions, monitored, multicast, jobs, servers>>

InsertTracking(c) ==
    /\ Go(c, "insert_tracking", "insert_session")
    /\ tracking' = tracking \cup {Stream(c)}
    /\ UNCHANGED <<database, work, active, sessions, monitored, multicast, jobs, servers>>

InsertSession(c) ==
    /\ Go(c, "insert_session", "hls_insert")
    /\ sessions' = sessions \cup {Run(c)}
    /\ UNCHANGED <<database, work, active, tracking, monitored, multicast, jobs, servers>>

HlsInsert(c) ==
    /\ Go(c, "hls_insert", "hls_bind")
    /\ hls' = hls \cup {Stream(c)}
    /\ UNCHANGED <<database, work, manager, multicast, jobs, webrtc, bound>>

(* Both receivers bind 0.0.0.0 at the multicast port, without SO_REUSEADDR.*)
HlsBind(c) ==
    /\ Go(c, "hls_bind", "webrtc_insert")
    /\ work[c].port \notin bound
    /\ bound' = bound \cup {work[c].port}
    /\ UNCHANGED <<database, work, manager, multicast, jobs, hls, webrtc>>

WebrtcInsert(c) ==
    /\ Go(c, "webrtc_insert", "webrtc_bind")
    /\ webrtc' = webrtc \cup {Stream(c)}
    /\ UNCHANGED <<database, work, manager, multicast, jobs, hls, bound>>

WebrtcBind(c) ==
    /\ Return(c, {"webrtc_bind"}, "started")
    /\ work[c].port \notin bound
    /\ bound' = bound \cup {work[c].port}
    /\ UNCHANGED <<database, manager, multicast, jobs, hls, webrtc>>

(* An error on the way: no free address, the database, an unknown profile, *)
(* the segment directory, a port in use, the playlist.  Nothing is undone. *)
StartFails(c) ==
    /\ Return(c, {"find", "create_group", "set_live", "transcode", "hls_insert",
                  "hls_bind", "webrtc_insert", "webrtc_bind"}, "failed")
    /\ UNCHANGED <<database, manager, multicast, jobs, servers>>

Starting == {"find", "create_group", "set_live", "transcode", "insert_active",
             "insert_tracking", "insert_session", "hls_insert", "hls_bind",
             "webrtc_insert", "webrtc_bind"}

(* The timeout of the RTMP session drops the call at any of its awaits.    *)
AbandonStart(c) ==
    /\ Return(c, Starting, "nothing")
    /\ UNCHANGED <<database, manager, multicast, jobs, servers>>
-----------------------------------------------------------------------------
(* stop_stream.                                                            *)

StopStream(c, s) ==
    /\ Call(c, s, "check")
    /\ UNCHANGED <<database, manager, multicast, jobs, servers>>

CheckLive(c) ==
    /\ db[Stream(c)].is_live
    /\ Go(c, "check", "take")
    /\ UNCHANGED <<database, work, manager, multicast, jobs, servers>>

RefuseOffline(c) ==
    /\ ~db[Stream(c)].is_live
    /\ Return(c, {"check"}, "not_live")
    /\ UNCHANGED <<database, manager, multicast, jobs, servers>>

TakeActiveCloned(c) ==
    /\ Stream(c) \in Active
    /\ Go(c, "take", "set_offline")
    /\ work' = [work EXCEPT ![c].run = active[Stream(c)].run]
    /\ UNCHANGED <<database, manager, multicast, jobs, servers>>

TakeActive(c) ==
    /\ Stream(c) \in Active
    /\ Go(c, "take", "set_offline")
    /\ work' = [work EXCEPT ![c].run = active[Stream(c)].run]
    /\ active' = Without(active, {Stream(c)})
    /\ UNCHANGED <<database, tracking, sessions, monitored, multicast, jobs, servers>>

NothingToStop(c) ==
    /\ Stream(c) \notin Active
    /\ Return(c, {"take"}, "nothing_to_stop")
    /\ UNCHANGED <<database, manager, multicast, jobs, servers>>

SetOfflineSwallowed(c) ==
    /\ Go(c, "set_offline", "stop_job")
    /\ \/ db' = [db EXCEPT ![Stream(c)].is_live = FALSE]
       \/ UNCHANGED db
    /\ UNCHANGED <<saved, work, manager, multicast, jobs, servers>>

SetOffline(c) ==
    /\ Go(c, "set_offline", "stop_job")
    /\ db' = [db EXCEPT ![Stream(c)].is_live = FALSE]
    /\ UNCHANGED <<saved, work, manager, multicast, jobs, servers>>

StopJob(c) ==
    /\ Run(c) \in jobs
    /\ Go(c, "stop_job", "remove_group")
    /\ UNCHANGED <<database, work, manager, multicast, jobs, servers>>

(* Whatever group the stream has now, with the lease of that group.        *)
RemoveGroup(c) ==
    LET s == Stream(c)
    IN  /\ Go(c, "remove_group", "hls_stop")
        /\ groups' = Without(groups, {s})
        /\ leases' = IF s \in DOMAIN groups THEN Without(leases, {<<s, groups[s]>>}) ELSE leases
        /\ UNCHANGED <<database, work, manager, jobs, servers>>

(* The receivers are not told to stop and keep their ports.                *)
HlsStop(c) ==
    /\ Go(c, "hls_stop", "webrtc_stop")
    /\ hls' = hls \ {Stream(c)}
    /\ UNCHANGED <<database, work, manager, multicast, jobs, webrtc, bound>>

WebrtcStop(c) ==
    /\ Go(c, "webrtc_stop", "close_peers")
    /\ webrtc' = webrtc \ {Stream(c)}
    /\ UNCHANGED <<database, work, manager, multicast, jobs, hls, bound>>

(* webrtc_server has closed its peers; then the tracking entry goes.       *)
DropTracking(c) ==
    /\ Go(c, "close_peers", "finalize")
    /\ tracking' = tracking \ {Stream(c)}
    /\ UNCHANGED <<database, work, active, sessions, monitored, multicast, jobs, servers>>

SessionsOf(s) == {r \in sessions : r[1] = s}

(* Any session of the stream that is in the map, where all of them stay;   *)
(* id is the primary key of stream_sessions.  The choice is made before    *)
(* the INSERT; sessions are only added, so it can as well be made with it. *)
FinalizeSession(c) ==
    /\ Return(c, {"finalize"}, "stopped")
    /\ \/ SessionsOf(Stream(c)) = {} /\ UNCHANGED saved
       \/ \E r \in SessionsOf(Stream(c)) \ saved : saved' = saved \cup {r}
    /\ UNCHANGED <<db, manager, multicast, jobs, servers>>

(* An error on the way; the rest of the sequence is not run.               *)
StopErrorAt(c) ==
    \/ pc[c] \in {"check", "set_offline", "hls_stop", "close_peers", "finalize"}
    \/ pc[c] = "stop_job" /\ Run(c) \notin jobs

StopFailsSwallowed(c) ==
    /\ StopErrorAt(c)
    /\ Return(c, {pc[c]}, "stopped")
    /\ UNCHANGED <<database, manager, multicast, jobs, servers>>

StopFails(c) ==
    /\ StopErrorAt(c)
    /\ Return(c, {pc[c]}, "failed")
    /\ UNCHANGED <<database, manager, multicast, jobs, servers>>
-----------------------------------------------------------------------------
(* What goes on beside the callers.                                        *)

(* The task of a job removes it from the table of the transcoder.          *)
JobLeaves(r) ==
    /\ r \in jobs
    /\ jobs' = jobs \ {r}
    /\ UNCHANGED <<database, manager, multicast, servers, pc, work, told, history>>

(* cleanup_task of the multicast manager: no socket or lease is released.  *)
GroupExpires(s) ==
    /\ s \in DOMAIN groups
    /\ groups' = Without(groups, {s})
    /\ UNCHANGED <<database, manager, leases, jobs, servers, pc, work, told, history>>

ReceiverEnds(p) ==
    /\ p \in bound
    /\ bound' = bound \ {p}
    /\ UNCHANGED <<database, manager, multicast, jobs, hls, webrtc, pc, work, told, history>>

(* A minute goes by since last_frame_at: only handle_media_data renews it, *)
(* and nothing calls that.                                                 *)
Stalls(s) ==
    /\ s \in Active
    /\ ~active[s].stalled
    /\ active' = [active EXCEPT ![s].stalled = TRUE]
    /\ UNCHANGED <<database, tracking, sessions, monitored, multicast, jobs, servers,
                   pc, work, told, history>>

StalledFresh == {s \in Active : ~active[s].stalled}
Stalled == {s \in Active : active[s].stalled}

(* stream_health_monitor lists the stalled streams under the read lock ... *)
MonitorTick ==
    /\ monitored = {}
    /\ Stalled # {}
    /\ monitored' = Stalled
    /\ UNCHANGED <<database, active, tracking, sessions, multicast, jobs, servers,
                   pc, work, told, history>>

(* ... and marks the rows afterwards, and only the rows.                   *)
MonitorMark(s) ==
    /\ s \in monitored
    /\ monitored' = monitored \ {s}
    /\ db' = [db EXCEPT ![s].is_live = FALSE]
    /\ UNCHANGED <<saved, active, tracking, sessions, multicast, jobs, servers,
                   pc, work, told, history>>

(* The database does not answer, which is ignored. *)
MonitorSkip(s) ==
    /\ s \in monitored
    /\ monitored' = monitored \ {s}
    /\ UNCHANGED <<database, active, tracking, sessions, multicast, jobs, servers,
                   pc, work, told, history>>

(* The server dies and starts again: only the database remains.            *)
Crash ==
    /\ crashes < MaxCrashes
    /\ crashes' = crashes + 1
    /\ active' = EmptyTable
    /\ tracking' = {} /\ sessions' = {} /\ monitored' = {}
    /\ groups' = EmptyTable /\ leases' = EmptyTable
    /\ jobs' = {} /\ hls' = {} /\ webrtc' = {} /\ bound' = {}
    /\ pc' = [c \in Callers |-> "idle"]
    /\ work' = [c \in Callers |-> [work[c] EXCEPT !.run = NoRun, !.port = NoPort]]
    /\ told' = [c \in Callers |-> "nothing"]
    /\ disturbed' = disturbed \cup {s \in Streams : db[s].is_live}
    /\ UNCHANGED <<database, next_run>>
-----------------------------------------------------------------------------
StartStep(c) ==
    \/ FindStream(c) \/ RefuseLive(c) \/ CreateGroup(c) \/ GroupCutShort(c)
    \/ SetLive(c) \/ StartTranscoding(c) \/ InsertActive(c) \/ InsertTracking(c)
    \/ InsertSession(c) \/ HlsInsert(c) \/ HlsBind(c) \/ WebrtcInsert(c)
    \/ WebrtcBind(c) \/ StartFails(c) \/ AbandonStart(c)

StopStep(c) ==
    \/ CheckLive(c) \/ RefuseOffline(c) \/ TakeActive(c) \/ NothingToStop(c)
    \/ SetOffline(c) \/ StopJob(c) \/ RemoveGroup(c) \/ HlsStop(c) \/ WebrtcStop(c)
    \/ DropTracking(c) \/ FinalizeSession(c) \/ StopFails(c)

Next ==
    \/ \E c \in Callers :
         \/ \E s \in Streams : StartStream(c, s) \/ StopStream(c, s)
         \/ StartStep(c)
         \/ StopStep(c)
    \/ \E r \in Runs : JobLeaves(r)
    \/ \E s \in Streams : GroupExpires(s) \/ Stalls(s) \/ MonitorMark(s) \/ MonitorSkip(s)
    \/ \E p \in Ports : ReceiverEnds(p)
    \/ MonitorTick
    \/ Crash

(* The monitor keeps ticking, and the database answers it again and again. *)
Spec == Init /\ [][Next]_vars
FairSpec == Spec /\ WF_vars(MonitorTick) /\ \A s \in Streams : SF_vars(MonitorMark(s))
-----------------------------------------------------------------------------
(* Properties.                                                             *)

(* Callers of stop_stream that hold the run they took out of active.       *)
TearingDown == {"set_offline", "stop_job", "remove_group", "hls_stop", "webrtc_stop",
                "close_peers", "finalize"}
Stoppers == {c \in Callers : pc[c] \in TearingDown}
RunsOf(f) == {<<s, f[s].run>> : s \in DOMAIN f}

Results == {"nothing", "started", "failed", "stopped", "not_live", "nothing_to_stop"}

TypeOK ==
    /\ db \in [Streams -> [is_live : BOOLEAN, run : RunNumbers \cup {NoRun}]]
    /\ saved \subseteq Runs /\ sessions \subseteq Runs /\ jobs \subseteq Runs
    /\ Active \subseteq Streams
    /\ active \in [Active -> [run : RunNumbers, stalled : BOOLEAN]]
    /\ tracking \subseteq Streams /\ monitored \subseteq Streams
    /\ DOMAIN groups \subseteq Streams /\ groups \in [DOMAIN groups -> RunNumbers]
    /\ DOMAIN leases \subseteq Runs /\ leases \in [DOMAIN leases -> Ports]
    /\ hls \subseteq Streams /\ webrtc \subseteq Streams /\ bound \subseteq Ports
    /\ pc \in [Callers -> {"idle", "check", "take"} \cup Starting \cup TearingDown]
    /\ work \in [Callers -> [stream : Streams, run : RunNumbers \cup {NoRun},
                             port : Ports \cup {NoPort}]]
    /\ told \in [Callers -> Results]
    /\ next_run \in [Streams -> 1..(MaxRuns + 1)]
    /\ crashes \in 0..MaxCrashes
    /\ disturbed \subseteq Streams

(* A run is torn down once: however starts and stops of a stream overlap,  *)
(* no two callers hold the same run, and what one holds is no longer in    *)
(* active_streams for another to take.                                     *)
OneTeardown ==
    \A c \in Stoppers :
        /\ Run(c) \notin RunsOf(active)
        /\ \A d \in Stoppers \ {c} : Run(d) # Run(c)

(* A row that is live advertises an address that is leased to its stream,  *)
(* whatever start or stop was cut short, unless calls overlapped on the    *)
(* stream or a restart left the row behind.                                *)
LiveRowLeased ==
    \A s \in Streams \ disturbed :
        db[s].is_live => <<s, db[s].run>> \in DOMAIN leases

(* A stop that reports success has taken the stream out of the five tables *)
(* that viewers and media are served from and has set its row offline,     *)
(* unless calls overlapped.  Nothing is said of the lease, which stays if  *)
(* the group had expired, of the job, which leaves by itself, of the       *)
(* sessions map, where the session stays, and of the receivers' ports.     *)
Delisted(s) ==
    /\ ~db[s].is_live
    /\ s \notin Active \cup tracking \cup DOMAIN groups \cup hls \cup webrtc

CleanStop ==
    [][\A c \in Callers :
         told'[c] = "stopped" /\ told[c] # "stopped" /\ Stream(c) \notin disturbed
            => Delisted(Stream(c))']_vars

Stalling(s) == s \in Active /\ active[s].stalled

(* A stream without frames does not stay live for ever: the monitor marks  *)
(* its row, or the stream is stopped or started anew first.                *)
StalledGoesOffline ==
    \A s \in Streams : Stalling(s) ~> (~Stalling(s) \/ ~db[s].is_live)

(* What the API reports: after a stop request that it answered with the    *)
(* stream it stopped, the row of that stream is offline.                   *)
StopReallyStops ==
    \A c \in Callers :
        told[c] \in {"stopped", "nothing_to_stop"} /\ Stream(c) \notin disturbed
            => ~db[Stream(c)].is_live

(* What the API reports: a stop request refused because the stream is not  *)
(* live is about a stream that the manager does not have at work.          *)
NotLiveIsInactive ==
    \A c \in Callers :
        told[c] = "not_live" /\ Stream(c) \notin disturbed => Stream(c) \notin Active
-----------------------------------------------------------------------------
(* The life of every run: see RunLife.                                     *)

(* Callers that have run r in hand are at one of these awaits. *)
At(r, awaits) == \E c \in Callers : pc[c] \in awaits /\ Run(c) = r

Phase(r) ==
    CASE r[2] >= next_run[r[1]] -> "unborn"
      [] r \in RunsOf(active) -> "serving"
      [] At(r, {"create_group"}) -> "begun"
      [] At(r, {"set_live"}) -> "leased"
      [] At(r, {"transcode"}) -> "shown"
      [] At(r, {"insert_active"}) -> "encoding"
      [] At(r, TearingDown) -> "stopping"
      [] OTHER -> "over"

phases == [r \in Runs |-> Phase(r)]

Life == INSTANCE RunLife WITH
    phase <- phases, lease <- leases, job <- jobs, row <- db

(* Every run lives its life once and in order, and is taken down by one    *)
(* caller, however callers of start_stream and stop_stream overlap.        *)
ImplementsRunLife == Life!LifeSpec

(* A group is listed with a lease of its own, even where a stop removed    *)
(* the group of a run that came after the one it stops.                    *)
GroupsLeased == \A s \in DOMAIN groups : <<s, groups[s]>> \in DOMAIN leases

(* The groups as StreamDirectory has them; the run stands for its address, *)
(* and the viewers are left out.                                           *)
Directory == INSTANCE StreamDirectory WITH
    StreamKeys <- Streams, Addresses <- Runs, Viewers <- {},
    endpoint <- [s \in DOMAIN groups |-> <<<<s, groups[s]>>, leases[<<s, groups[s]>>]>>],
    audience <- [s \in DOMAIN groups |-> {}]

(* The groups behave as a StreamDirectory here too: they are published,    *)
(* withdrawn and expire, each at an endpoint of its own.  MulticastManager *)
(* shows the same of its table; that this module assumes nothing else of   *)
(* that one is not shown.                                                  *)
ImplementsDirectory == Directory!DirSpec
=============================================================================
