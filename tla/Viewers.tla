------------------------------- MODULE Viewers -------------------------------
(***************************************************************************)
(* src/stream_manager.rs and src/api/viewers.rs: the viewers of one        *)
(* stream, kept four times over: the multicast group, viewer_tracking, the *)
(* count in active_streams and the counts in the row.  Streams share none  *)
(* of this, so one stream is enough.                                       *)
(*                                                                         *)
(* A request joins or leaves; each await is a step, pc[q] the next one.    *)
(* Nothing is undone when a step fails.  Operators start and stop the      *)
(* stream (start_stream and stop_stream, of which module StreamManager has *)
(* the other tables too): any number at once, ending after any step, and   *)
(* the monitor marks the row offline beside them.                          *)
(*                                                                         *)
(* A viewer is its address.  The API gives 127.0.0.1:8000 to every one;    *)
(* add_viewer and remove_viewer take any.                                  *)
(***************************************************************************)
EXTENDS Naturals, FiniteSets

CONSTANTS
    Requests,
    Addresses,
    Operators,      \* callers of start_stream and stop_stream
    MaxCalls,       \* bound: joins and leaves
    MaxStarts       \* bound: runs of the stream

ASSUME ViewersAssumption == /\ IsFiniteSet(Addresses)
                            /\ MaxCalls \in Nat /\ MaxStarts \in Nat

VARIABLES
    row,            \* streams: exists, is_live, viewer_count, max_viewers
    shown,          \* active_streams: listed, viewer_count
    group,          \* the multicast group: listed, viewers
    tracked,        \* viewer_tracking: the entry with its viewers and counters
    inactive,       \* viewers tracked for more than five minutes
    stage,          \* the next step of each operator's start or stop
    unhealthy,      \* the stream is on the list the monitor goes through
    pc, work,       \* requests: the next step, and what is read so far
    calls, starts,  \* bounded counters
    most,           \* history: the largest audience the stream ever had
    lapped,         \* history: requests whose copy of the row is outdated
    crossed,        \* history: addresses on which two requests overlapped, or
                    \* that the group lost behind the back of tracking, until
                    \* tracking begins anew
    alone,          \* history: the request no other has overlapped so far
    unsettled       \* history: something came between the counts and the
                    \* viewers that no request on its own has put right since

tables == <<row, shown, group, tracked, inactive>>
requests == <<pc, work, calls>>
history == <<most, lapped, crossed, alone, unsettled>>
lifecycle == <<stage, unhealthy, starts>>
vars == <<tables, lifecycle, requests, history>>

NoEntry == [listed |-> FALSE, viewers |-> {}, peak |-> 0]
NoGroup == [listed |-> FALSE, viewers |-> {}]
Unlisted == [listed |-> FALSE, count |-> 0]
NoAddress == "none"
NoWork == [address |-> NoAddress, count |-> 0, max |-> 0]
Audience == Cardinality(tracked.viewers)

Init ==
    /\ row = [exists |-> TRUE, live |-> FALSE, count |-> 0, max |-> 0]
    /\ shown = Unlisted /\ group = NoGroup /\ tracked = NoEntry
    /\ inactive = {}
    /\ stage = [o \in Operators |-> "idle"] /\ unhealthy = FALSE /\ starts = 0
    /\ pc = [q \in Requests |-> "idle"]
    /\ work = [q \in Requests |-> NoWork]
    /\ calls = 0
    /\ most = 0 /\ lapped = {} /\ crossed = {} /\ alone = {} /\ unsettled = FALSE
-----------------------------------------------------------------------------
(* ForgetViewerUncounted, ShowOneMore, WriteRowUncompared, JoinGroupLate   *)
(* and ViewerCleanupOne are faulty variants of the definition that follows *)
(* each; no action uses them.                                              *)
-----------------------------------------------------------------------------
Address(q) == work[q].address
Larger(m, n) == IF m > n THEN m ELSE n

Counting == {"count", "show", "read_row", "write_row"}
Inside == {"group", "track", "ungroup", "untrack"} \cup Counting

(* A request comes in for address a. *)
Call(q, a, first) ==
    /\ pc[q] = "idle"
    /\ calls < MaxCalls
    /\ calls' = calls + 1
    /\ pc' = [pc EXCEPT ![q] = first]
    /\ work' = [work EXCEPT ![q].address = a]
    /\ crossed' = IF \E p \in Requests : Address(p) = a
                  THEN crossed \cup {a} ELSE crossed
    /\ UNCHANGED <<most, lapped, alone, unsettled>>

Go(q, from, to) ==
    /\ pc[q] = from
    /\ pc' = [pc EXCEPT ![q] = to]
    /\ UNCHANGED <<calls, lifecycle>>

(* The request ends, done or not.  What an unfinished one leaves behind    *)
(* stays.                                                                  *)
End(q, from) ==
    /\ pc[q] \in from
    /\ pc' = [pc EXCEPT ![q] = "idle"]
    /\ work' = [work EXCEPT ![q] = NoWork]
    /\ UNCHANGED <<calls, lifecycle>>

(* Two requests on their way through the tables may count in either order. *)
EnterTables(q) ==
    LET overlaps == \E p \in Requests \ {q} : pc[p] \in Inside
    IN  /\ alone' = IF overlaps THEN {} ELSE {q}
        /\ unsettled' = (unsettled \/ overlaps)

Unsettle == alone' = {} /\ unsettled' = TRUE
-----------------------------------------------------------------------------
(* join_stream and add_viewer.                                             *)

JoinStream(q, a) ==
    /\ Call(q, a, "find")
    /\ UNCHANGED <<tables, lifecycle>>

FindLive(q) ==
    /\ row.exists /\ row.live
    /\ Go(q, "find", "url")
    /\ UNCHANGED <<tables, work, history>>

(* The stream is gone or offline, or the connection type is unknown.       *)
RefuseJoin(q) ==
    /\ End(q, {"find"})
    /\ UNCHANGED <<tables, history>>

(* The URL is asked for first, and fails unless the stream is active (and  *)
(* known to the server of the connection type: UrlFails).                  *)
GetStreamUrl(q) ==
    /\ shown.listed
    /\ Go(q, "url", "key")
    /\ UNCHANGED <<tables, work, history>>

UrlFails(q) ==
    /\ End(q, {"url"})
    /\ UNCHANGED <<tables, history>>

ReadKey(q) ==
    /\ shown.listed
    /\ Go(q, "key", "group")
    /\ UNCHANGED <<tables, work, history>>

NotActive(q) ==
    /\ ~shown.listed
    /\ End(q, {"key"})
    /\ UNCHANGED <<tables, history>>

JoinGroupLate(q) ==
    /\ group.listed
    /\ Go(q, "group", "track")
    /\ EnterTables(q)
    /\ UNCHANGED <<row, shown, group, tracked, inactive, work, most, lapped,
                   crossed>>

JoinGroup(q) ==
    /\ group.listed
    /\ Go(q, "group", "track")
    /\ group' = [group EXCEPT !.viewers = @ \cup {Address(q)}]
    /\ EnterTables(q)
    /\ UNCHANGED <<row, shown, tracked, inactive, work, most, lapped, crossed>>

NoGroupToJoin(q) ==
    /\ ~group.listed
    /\ End(q, {"group"})
    /\ UNCHANGED <<tables, history>>

Watching(viewers) ==
    [listed |-> TRUE, viewers |-> viewers,
     peak |-> Larger(tracked.peak, Cardinality(viewers))]

(* Under the write lock; a known address is taken in as if it were new.    *)
(* total_join_count is only ever incremented and is left out.              *)
TrackViewer(q) ==
    /\ Go(q, "track", "count")
    /\ tracked' = IF tracked.listed
                  THEN Watching(tracked.viewers \cup {Address(q)})
                  ELSE tracked
    /\ inactive' = inactive \ {Address(q)}
    /\ most' = Larger(most, Cardinality(tracked'.viewers))
    /\ UNCHANGED <<row, shown, group, work, lapped, crossed, alone, unsettled>>
-----------------------------------------------------------------------------
(* leave_stream and remove_viewer.                                         *)

LeaveStream(q, a) ==
    /\ Call(q, a, "find_leave")
    /\ UNCHANGED <<tables, lifecycle>>

FindToLeave(q) ==
    /\ row.exists
    /\ Go(q, "find_leave", "key_leave")
    /\ UNCHANGED <<tables, work, history>>

(* The row is gone or the database does not answer. *)
RefuseLeave(q) ==
    /\ End(q, {"find_leave"})
    /\ UNCHANGED <<tables, history>>

ReadKeyToLeave(q) ==
    /\ shown.listed
    /\ Go(q, "key_leave", "ungroup")
    /\ UNCHANGED <<tables, work, history>>

(* Reported as a success. *)
NothingToLeave(q) ==
    /\ ~shown.listed
    /\ End(q, {"key_leave"})
    /\ UNCHANGED <<tables, history>>

(* No error if the group is gone. *)
LeaveGroup(q) ==
    /\ Go(q, "ungroup", "untrack")
    /\ group' = [group EXCEPT !.viewers = @ \ {Address(q)}]
    /\ EnterTables(q)
    /\ UNCHANGED <<row, shown, tracked, inactive, work, most, lapped, crossed>>

ForgetViewerUncounted(q) ==
    /\ End(q, {"untrack"})
    /\ tracked' = [tracked EXCEPT !.viewers = @ \ {Address(q)}]
    /\ inactive' = inactive \ {Address(q)}
    /\ UNCHANGED <<row, shown, group, history>>

ForgetViewer(q) ==
    /\ Go(q, "untrack", "count")
    /\ tracked' = [tracked EXCEPT !.viewers = @ \ {Address(q)}]
    /\ inactive' = inactive \ {Address(q)}
    /\ UNCHANGED <<row, shown, group, work, history>>
-----------------------------------------------------------------------------
(* update_viewer_count, at the end of both.                                *)

(* Zero if the stream is not tracked. *)
CountViewers(q) ==
    /\ Go(q, "count", "show")
    /\ work' = [work EXCEPT ![q].count = Audience]
    /\ UNCHANGED <<tables, history>>

ShowOneMore(q) ==
    /\ Go(q, "show", "read_row")
    /\ shown' = IF shown.listed THEN [shown EXCEPT !.count = @ + 1] ELSE shown
    /\ UNCHANGED <<row, group, tracked, inactive, work, history>>

ShowCount(q) ==
    /\ Go(q, "show", "read_row")
    /\ shown' = IF shown.listed THEN [shown EXCEPT !.count = work[q].count] ELSE shown
    /\ UNCHANGED <<row, group, tracked, inactive, work, history>>

ReadRow(q) ==
    /\ row.exists
    /\ Go(q, "read_row", "write_row")
    /\ work' = [work EXCEPT ![q].max = row.max]
    /\ UNCHANGED <<tables, history>>

WriteRowUncompared(q) ==
    /\ End(q, {"write_row"})
    /\ row' = IF row.exists THEN [row EXCEPT !.count = work[q].count, !.max = work[q].count]
              ELSE row
    /\ lapped' = (lapped \cup {p \in Requests : pc[p] = "write_row"}) \ {q}
    /\ unsettled' = (unsettled /\ q \notin alone)
    /\ alone' = alone \ {q}
    /\ UNCHANGED <<shown, group, tracked, inactive, most, crossed>>

(* Both counts are written from the copy of the row read before, in which  *)
(* another request may be missing.                                         *)
WriteRow(q) ==
    /\ End(q, {"write_row"})
    /\ row' = IF row.exists
              THEN [row EXCEPT !.count = work[q].count, !.max = Larger(work[q].max, work[q].count)]
              ELSE row
    /\ lapped' = (lapped \cup {p \in Requests : pc[p] = "write_row"}) \ {q}
    /\ unsettled' = (unsettled /\ q \notin alone)
    /\ alone' = alone \ {q}
    /\ UNCHANGED <<shown, group, tracked, inactive, most, crossed>>

(* The row is gone or the database does not answer: the viewer is in (or   *)
(* out) and not counted.  A join reports an error, a leave does not.       *)
CountFails(q) ==
    /\ End(q, {"read_row", "write_row"})
    /\ Unsettle
    /\ lapped' = lapped \ {q}
    /\ UNCHANGED <<tables, most, crossed>>
-----------------------------------------------------------------------------
(* Time and the cleanup tasks.                                             *)

(* Nothing renews last_activity. *)
GoesInactive(a) ==
    /\ a \in tracked.viewers \ inactive
    /\ inactive' = inactive \cup {a}
    /\ UNCHANGED <<row, shown, group, tracked, lifecycle, requests,
                   history>>

ViewerCleanupOne ==
    /\ Cardinality(inactive) > 1
    /\ \E a \in inactive : /\ tracked' = [tracked EXCEPT !.viewers = @ \ {a}]
                           /\ inactive' = inactive \ {a}
    /\ Unsettle
    /\ UNCHANGED <<row, shown, group, lifecycle, requests, most, lapped,
                   crossed>>

(* viewer_cleanup_task: tracking alone; the counts are not updated.        *)
ViewerCleanup ==
    /\ inactive # {}
    /\ tracked' = [tracked EXCEPT !.viewers = @ \ inactive]
    /\ inactive' = {}
    /\ Unsettle
    /\ UNCHANGED <<row, shown, group, lifecycle, requests, most, lapped,
                   crossed>>

(* cleanup_task of the multicast manager: viewers not seen for long, and   *)
(* the group once it has none.                                             *)
GroupCleanup(gone) ==
    /\ group.listed
    /\ gone \subseteq group.viewers
    /\ \/ gone # {} /\ group' = [group EXCEPT !.viewers = @ \ gone]
       \/ gone = group.viewers /\ group' = NoGroup
    /\ crossed' = crossed \cup gone
    /\ UNCHANGED <<row, shown, tracked, inactive, lifecycle, requests,
                   most, lapped, alone, unsettled>>
-----------------------------------------------------------------------------
(* The stream goes live and offline.                                       *)

Takes(o, from, to) ==
    /\ stage[o] = from
    /\ stage' = [stage EXCEPT ![o] = to]
    /\ UNCHANGED <<unhealthy, requests, most, lapped>>

(* Counts that begin at zero are right if all of them are zero and no      *)
(* request is at work on them.  The row keeps the count of the run before  *)
(* until somebody joins or leaves.                                         *)
BeginCounts ==
    /\ alone' = {}
    /\ unsettled' = ~(/\ row.count = 0 /\ shown'.count = 0 /\ tracked'.viewers = {}
                     /\ \A q \in Requests : pc[q] \notin Inside)

(* Who leaves the group behind the back of tracking with the whole group.  *)
LoseGroup ==
    crossed' = crossed \cup group.viewers
                       \cup {Address(q) : q \in {p \in Requests : pc[p] = "track"}}

BeginTracking ==
    crossed' = crossed \cap {Address(q) : q \in {p \in Requests : pc[p] # "idle"}}

StartIfOffline(o) ==
    /\ row.exists /\ ~row.live
    /\ starts < MaxStarts
    /\ starts' = starts + 1
    /\ Takes(o, "idle", "create_group")
    /\ UNCHANGED <<tables, crossed, alone, unsettled>>

(* A group under the key of the stream is replaced, with its viewers.      *)
CreateGroup(o) ==
    /\ Takes(o, "create_group", "set_live")
    /\ group' = [NoGroup EXCEPT !.listed = TRUE]
    /\ LoseGroup
    /\ UNCHANGED <<row, shown, tracked, inactive, starts, alone, unsettled>>

(* An UPDATE: no error, and no effect, if the row is gone.                 *)
SetLive(o) ==
    /\ Takes(o, "set_live", "insert_active")
    /\ row' = [row EXCEPT !.live = row.exists]
    /\ UNCHANGED <<shown, group, tracked, inactive, starts, crossed, alone,
                   unsettled>>

(* An entry that is there is replaced, whatever it counts.                 *)
InsertActive(o) ==
    /\ Takes(o, "insert_active", "insert_tracking")
    /\ shown' = [Unlisted EXCEPT !.listed = TRUE]
    /\ UNCHANGED <<row, group, tracked, inactive, starts, crossed>>
    /\ BeginCounts

InsertTracking(o) ==
    /\ Takes(o, "insert_tracking", "idle")
    /\ tracked' = [NoEntry EXCEPT !.listed = TRUE]
    /\ inactive' = {}
    /\ UNCHANGED <<row, shown, group, starts>>
    /\ BeginCounts /\ BeginTracking

(* The row says live; delete_stream asks it too.                           *)
StopIfLive(o) ==
    /\ row.exists /\ row.live
    /\ Takes(o, "idle", "take_active")
    /\ UNCHANGED <<tables, starts, crossed, alone, unsettled>>

TakeActive(o) ==
    /\ Takes(o, "take_active", IF shown.listed THEN "set_offline" ELSE "idle")
    /\ shown' = Unlisted
    /\ UNCHANGED <<row, group, tracked, inactive, starts, crossed, alone,
                   unsettled>>

SetOffline(o) ==
    /\ Takes(o, "set_offline", "remove_group")
    /\ row.exists
    /\ row' = [row EXCEPT !.live = FALSE]
    /\ UNCHANGED <<shown, group, tracked, inactive, starts, crossed, alone,
                   unsettled>>

RemoveGroup(o) ==
    /\ Takes(o, "remove_group", "drop_tracking")
    /\ group' = NoGroup
    /\ LoseGroup
    /\ UNCHANGED <<row, shown, tracked, inactive, starts, alone, unsettled>>

DropTracking(o) ==
    /\ Takes(o, "drop_tracking", "idle")
    /\ tracked' = NoEntry
    /\ inactive' = {}
    /\ UNCHANGED <<row, shown, group, starts>>
    /\ BeginCounts /\ BeginTracking

(* The next step fails (no port, no database, no such profile, no job to   *)
(* stop, ...), or the caller of it goes away.  What is done stays done.    *)
GiveUp(o) ==
    /\ stage[o] # "idle"
    /\ stage' = [stage EXCEPT ![o] = "idle"]
    /\ UNCHANGED <<tables, unhealthy, starts, requests, history>>

(* delete_stream decides from a row read before, and whatever its stop     *)
(* came to.                                                                *)
DeleteRow ==
    /\ row.exists
    /\ row' = [row EXCEPT !.exists = FALSE]
    /\ UNCHANGED <<shown, group, tracked, inactive, lifecycle, requests, history>>

(* stream_health_monitor: a stream active for more than a minute is put on *)
(* the list (nothing renews last_frame_at), ...                            *)
MonitorTick ==
    /\ shown.listed /\ ~unhealthy
    /\ unhealthy' = TRUE
    /\ UNCHANGED <<tables, stage, starts, requests, history>>

(* ... and its row is marked when its turn comes, if the database answers. *)
MonitorMark ==
    /\ unhealthy /\ unhealthy' = FALSE
    /\ \/ row.exists /\ row' = [row EXCEPT !.live = FALSE]
       \/ UNCHANGED row
    /\ UNCHANGED <<shown, group, tracked, inactive, stage, starts, requests,
                   history>>
-----------------------------------------------------------------------------
JoinStep(q) ==
    \/ FindLive(q) \/ RefuseJoin(q) \/ GetStreamUrl(q) \/ UrlFails(q) \/ ReadKey(q)
    \/ NotActive(q) \/ JoinGroup(q) \/ NoGroupToJoin(q) \/ TrackViewer(q)

LeaveStep(q) ==
    \/ FindToLeave(q) \/ RefuseLeave(q) \/ ReadKeyToLeave(q) \/ NothingToLeave(q)
    \/ LeaveGroup(q) \/ ForgetViewer(q)

CountStep(q) ==
    \/ CountViewers(q) \/ ShowCount(q) \/ ReadRow(q) \/ WriteRow(q) \/ CountFails(q)

StartStep(o) ==
    \/ StartIfOffline(o) \/ CreateGroup(o) \/ SetLive(o) \/ InsertActive(o) \/ InsertTracking(o)

StopStep(o) ==
    \/ StopIfLive(o) \/ TakeActive(o) \/ SetOffline(o) \/ RemoveGroup(o) \/ DropTracking(o)

StreamStep ==
    \/ \E o \in Operators : StartStep(o) \/ StopStep(o) \/ GiveUp(o)
    \/ DeleteRow \/ MonitorTick \/ MonitorMark

Next ==
    \/ \E q \in Requests :
         \/ \E a \in Addresses : JoinStream(q, a) \/ LeaveStream(q, a)
         \/ JoinStep(q) \/ LeaveStep(q) \/ CountStep(q)
    \/ \E a \in Addresses : GoesInactive(a)
    \/ ViewerCleanup
    \/ \E gone \in SUBSET Addresses : GroupCleanup(gone)
    \/ StreamStep

Spec == Init /\ [][Next]_vars

(* Time passes and the cleanup task keeps ticking. *)
Fairness == /\ \A a \in Addresses : WF_vars(GoesInactive(a))
            /\ WF_vars(ViewerCleanup)
FairSpec == Spec /\ Fairness
-----------------------------------------------------------------------------
(* Properties.                                                             *)

TypeOK ==
    /\ row \in [exists : BOOLEAN, live : BOOLEAN, count : Nat, max : Nat]
    /\ shown \in [listed : BOOLEAN, count : Nat]
    /\ group \in [listed : BOOLEAN, viewers : SUBSET Addresses]
    /\ tracked \in [listed : BOOLEAN, viewers : SUBSET Addresses, peak : Nat]
    /\ inactive \subseteq tracked.viewers
    /\ stage \in [Operators -> {"idle", "create_group", "set_live", "insert_active",
                               "insert_tracking", "take_active", "set_offline",
                               "remove_group", "drop_tracking"}]
    /\ unhealthy \in BOOLEAN
    /\ pc \in [Requests -> Inside \cup {"idle", "find", "url", "key", "find_leave", "key_leave"}]
    /\ work \in [Requests -> [address : Addresses \cup {NoAddress}, count : Nat, max : Nat]]
    /\ calls \in 0..MaxCalls /\ starts \in 0..MaxStarts
    /\ most \in Nat /\ lapped \subseteq Requests /\ crossed \subseteq Addresses
    /\ alone \subseteq Requests /\ unsettled \in BOOLEAN

(* With nobody at work, what active_streams and the row say is the number  *)
(* of viewers tracked, however many joins and leaves there were: unless    *)
(* two of them overlapped, one failed, the cleanup task came in, or the    *)
(* stream was started or stopped, in full or in part, with one of the      *)
(* counts not at zero, and no request on its own has counted since.        *)
CountsAgree ==
    shown.listed /\ tracked.listed /\ ~unsettled /\ (\A q \in Requests : pc[q] \notin Inside)
        => /\ shown.count = Audience
           /\ row.exists => row.count = Audience

(* No count is invented: late, lost or repeated as updates may be, every   *)
(* number shown, saved or about to be was once exceeded or met by a real   *)
(* audience, and the row's count never passes its maximum.                 *)
CountsReal ==
    /\ row.count <= row.max /\ row.max <= most
    /\ shown.count <= most
    /\ Audience <= tracked.peak /\ tracked.peak <= most
    /\ \A q \in Requests : work[q].count <= most /\ work[q].max <= most

(* max_viewers goes down only when the request that writes it had read the *)
(* row before another one wrote it.                                        *)
MaximumKept ==
    [][\/ row'.max >= row.max
       \/ \E q \in lapped : pc[q] = "write_row" /\ pc'[q] = "idle"]_vars

(* Whoever is tracked is sent packets: it is in the group, or on its way   *)
(* out.  Three exceptions: requests for the one address overlapped; the    *)
(* group's own cleanup dropped it; or a start replaced the group, or a     *)
(* stop removed it, and the operation ended (or has yet to go on) before   *)
(* tracking began anew, as a failed start or stop leaves it.               *)
TrackedInGroup ==
    \A a \in tracked.viewers \ crossed :
        \/ a \in group.viewers
        \/ \E q \in Requests : pc[q] = "untrack" /\ Address(q) = a

(* A viewer that never leaves is not tracked for ever, unless requests for *)
(* its address keep coming.                                                *)
GhostsExpire ==
    \A a \in Addresses :
        a \in tracked.viewers ~>
            (a \notin tracked.viewers \/ \E q \in Requests : Address(q) = a)
=============================================================================
