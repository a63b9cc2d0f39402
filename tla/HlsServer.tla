------------------------------ MODULE HlsServer ------------------------------
(***************************************************************************)
(* src/hls_server.rs: the segments and the playlist of one stream key.     *)
(*                                                                         *)
(* Every start of the key is a run, with a stream entry, a segment writer  *)
(* behind a lock, and a receiver that nothing stops and that looks the     *)
(* writer up for each packet.  All runs write into one directory, a        *)
(* segment's file being named after its number.  The playlist is composed  *)
(* from a copy of the entry and written after the lock is given back.      *)
(*                                                                         *)
(* start_stream, stop_stream and the playlist task each go step by step    *)
(* (doing); a start and a stop may overlap, as StreamManager lets them.    *)
(* The hands are those who work on a writer: the receivers, by run, and    *)
(* stop_stream.  HlsServer::start, which spawns the two tasks, is called   *)
(* by nothing in this repository: tasks says whether they run, and both    *)
(* cases are explored.  Packets come from outside.                         *)
(***************************************************************************)
EXTENDS Naturals, Sequences

CONSTANTS
    PlaylistLength,     \* config.playlist_length
    MaxRuns,            \* bound: starts of the stream, the tasks not running
    MaxTendedRuns,      \* bound: starts of the stream, the tasks running
    MaxNumber           \* bound: past this number receivers close no segment

ASSUME HlsAssumption == /\ PlaylistLength \in Nat /\ MaxNumber \in Nat
                        /\ MaxRuns \in Nat /\ MaxTendedRuns \in 0..MaxRuns

VARIABLES
    stream,     \* active_streams: the entry (its run, segments, current_sequence)
    registered, \* segment_writers: the run whose writer is there
    segment,    \* each run's writer: the number of its open segment
    receivers,  \* runs whose receiver was started
    hand,       \* receivers and stop_stream: next step, writer, number
    files,      \* segment files on disk: number -> the run that created it
    playlist,   \* playlist.m3u8: run, media sequence, segments
    doing, copy,   \* start, stop and playlist task: next step, entry copied
    tasks,      \* the background tasks are running
    runs,       \* starts so far
    overlapped  \* history: a start found a stream entry, a stop or a write
                \* of an older writer under way, or a stop found a start

hlsVars == <<stream, registered, segment, receivers, hand, files, playlist,
             doing, copy, tasks, runs, overlapped>>

None == 0
Open == 1..MaxRuns
Stopper == 0
Hands == {Stopper} \cup Open
NoSegment == MaxNumber + 3
Updaters == {"start", "stop", "task"}
NoStream == [run |-> None, segments |-> <<>>, next |-> 0]
NoPlaylist == [run |-> None, first |-> 0, segments |-> <<>>]
Free == [at |-> "idle", writer |-> None, number |-> NoSegment]

HlsInit ==
    /\ stream = NoStream /\ registered = None
    /\ segment = [r \in Open |-> NoSegment]
    /\ receivers = {} /\ hand = [h \in Hands |-> Free]
    /\ files = [n \in {} |-> None]
    /\ playlist = NoPlaylist
    /\ doing = [u \in Updaters |-> "idle"]
    /\ copy = [u \in Updaters |-> NoPlaylist]
    /\ tasks \in BOOLEAN /\ runs = 0 /\ overlapped = FALSE
-----------------------------------------------------------------------------
(* PublishUnnumbered and DropKeepingListed are faulty variants of the      *)
(* definition that follows each; no action uses them.                      *)
-----------------------------------------------------------------------------
Listed == stream.run # None
Locked(w) == \E h \in Hands : hand[h].writer = w /\ hand[h].at \notin {"idle", "lock"}

(* The hand gives the lock back. *)
LetGo(h) == hand' = [hand EXCEPT ![h] = Free]

Advance(u, from, to) ==
    /\ doing[u] = from
    /\ doing' = [doing EXCEPT ![u] = to]
-----------------------------------------------------------------------------
(* start_stream.                                                           *)

(* The directory is there already from the second run on.                  *)
InsertStream ==
    /\ runs < IF tasks THEN MaxTendedRuns ELSE MaxRuns
    /\ Advance("start", "idle", "writer")
    /\ runs' = runs + 1
    /\ stream' = [NoStream EXCEPT !.run = runs + 1]
    /\ overlapped' = (overlapped \/ Listed \/ doing["stop"] # "idle"
                      \/ \E h \in Hands : hand[h].at # "idle")
    /\ UNCHANGED <<registered, segment, receivers, hand, files, playlist, copy,
                   tasks>>

InsertWriter ==
    /\ Advance("start", "writer", "bind")
    /\ registered' = runs
    /\ UNCHANGED <<stream, segment, receivers, hand, files, playlist, copy,
                   tasks, runs, overlapped>>

(* The receiver listens from now on: packets find it in ReceivePacket.     *)
StartReceiver ==
    /\ Advance("start", "bind", "read")
    /\ receivers' = receivers \cup {runs}
    /\ UNCHANGED <<stream, registered, segment, hand, files, playlist, copy,
                   tasks, runs, overlapped>>

(* The port is in use: the stream stays listed, without a receiver and     *)
(* without a playlist.                                                     *)
BindFails ==
    /\ Advance("start", "bind", "idle")
    /\ UNCHANGED <<stream, registered, segment, receivers, hand, files,
                   playlist, copy, tasks, runs, overlapped>>
-----------------------------------------------------------------------------
(* write_data, by the receiver of run h.                                   *)

(* The packet is dropped when no writer is registered.  After an overlap   *)
(* nothing more is claimed, and the packets taken are those under way.     *)
ReceivePacket(h) ==
    /\ h \in receivers /\ registered # None /\ ~overlapped
    /\ hand[h] = Free
    /\ hand' = [hand EXCEPT ![h].at = "lock", ![h].writer = registered]
    /\ UNCHANGED <<stream, registered, segment, receivers, files, playlist,
                   doing, copy, tasks, runs, overlapped>>

LockWriter(h) ==
    LET w == hand[h].writer
    IN  /\ hand[h].at = "lock" /\ ~Locked(w)
        /\ hand' = [hand EXCEPT ![h].at = IF segment[w] # NoSegment THEN "flush" ELSE "new"]
        /\ UNCHANGED <<stream, registered, segment, receivers, files, playlist,
                       doing, copy, tasks, runs, overlapped>>

(* The segment's duration is not over, or the write fails. *)
AppendData(h) ==
    /\ h # Stopper /\ hand[h].at = "flush"
    /\ LetGo(h)
    /\ UNCHANGED <<stream, registered, segment, receivers, files, playlist,
                   doing, copy, tasks, runs, overlapped>>

(* finalize_current_segment takes the segment out of the writer first.     *)
FlushSegment(h) ==
    LET w == hand[h].writer
    IN  /\ hand[h].at = "flush"
        /\ h = Stopper \/ stream.next < MaxNumber
        /\ hand' = [hand EXCEPT ![h].at = "publish", ![h].number = segment[w]]
        /\ segment' = [segment EXCEPT ![w] = NoSegment]
        /\ UNCHANGED <<stream, registered, receivers, files, playlist, doing,
                       copy, tasks, runs, overlapped>>

(* The flush fails: the segment is lost, and the stop ends there.          *)
FlushFails(h) ==
    /\ hand[h].at = "flush"
    /\ segment' = [segment EXCEPT ![hand[h].writer] = NoSegment]
    /\ LetGo(h)
    /\ doing' = IF h = Stopper THEN [doing EXCEPT !["stop"] = "idle"] ELSE doing
    /\ UNCHANGED <<stream, registered, receivers, files, playlist, copy, tasks,
                   runs, overlapped>>

PublishUnnumbered(h) ==
    /\ hand[h].at = "publish"
    /\ stream' = IF Listed THEN [stream EXCEPT !.segments = Append(@, hand[h].number)]
                 ELSE stream
    /\ hand' = [hand EXCEPT ![h].at = "new", ![h].number = NoSegment]
    /\ UNCHANGED <<registered, segment, receivers, files, playlist, doing,
                   copy, tasks, runs, overlapped>>

(* Into whatever entry the key has now, if any. *)
PublishSegment(h) ==
    /\ hand[h].at = "publish"
    /\ stream' = IF Listed THEN [stream EXCEPT !.segments = Append(@, hand[h].number),
                                               !.next = @ + 1]
                 ELSE stream
    /\ hand' = [hand EXCEPT ![h].at = "new", ![h].number = NoSegment]
    /\ UNCHANGED <<registered, segment, receivers, files, playlist, doing,
                   copy, tasks, runs, overlapped>>

(* start_new_segment reads the number and then the directory, which is     *)
(* where the file is created, truncating one of that name.                 *)
ReadNumber(h) ==
    /\ h # Stopper /\ hand[h].at = "new"
    /\ hand' = [hand EXCEPT ![h].at = "create", ![h].number = stream.next]
    /\ UNCHANGED <<stream, registered, segment, receivers, files, playlist,
                   doing, copy, tasks, runs, overlapped>>

(* The stream is gone, or the disk refuses the file. *)
NoNewSegment(h) ==
    /\ hand[h].at = "create"
    /\ LetGo(h)
    /\ UNCHANGED <<stream, registered, segment, receivers, files, playlist,
                   doing, copy, tasks, runs, overlapped>>

CreateFile(h) ==
    LET w == hand[h].writer
        n == hand[h].number
    IN  /\ Listed /\ hand[h].at = "create"
        /\ files' = [m \in DOMAIN files \cup {n} |-> IF m = n THEN w ELSE files[m]]
        /\ segment' = [segment EXCEPT ![w] = n]
        /\ LetGo(h)
        /\ UNCHANGED <<stream, registered, receivers, playlist, doing, copy,
                       tasks, runs, overlapped>>

-----------------------------------------------------------------------------
(* stop_stream: the current segment first, then the tables, then the       *)
(* playlist of an entry that is gone.  For a key in neither table nothing  *)
(* happens.                                                                *)

StopHls ==
    /\ Advance("stop", "idle", IF registered = None THEN "remove" ELSE "finalize")
    /\ hand' = IF registered = None THEN hand
               ELSE [hand EXCEPT ![Stopper].at = "lock", ![Stopper].writer = registered]
    /\ Listed \/ registered # None
    /\ overlapped' = (overlapped \/ doing["start"] # "idle")
    /\ UNCHANGED <<stream, registered, segment, receivers, files, playlist,
                   copy, tasks, runs>>

Finalized ==
    /\ Advance("stop", "finalize", "remove")
    /\ hand[Stopper].at = "new"
    /\ LetGo(Stopper)
    /\ UNCHANGED <<stream, registered, segment, receivers, files, playlist,
                   copy, tasks, runs, overlapped>>

RemoveEntry ==
    /\ Advance("stop", "remove", "remove_writer")
    /\ stream' = NoStream
    /\ UNCHANGED <<registered, segment, receivers, hand, files, playlist, copy,
                   tasks, runs, overlapped>>

RemoveWriter ==
    /\ Advance("stop", "remove_writer", "read")
    /\ registered' = None
    /\ UNCHANGED <<stream, segment, receivers, hand, files, playlist, copy,
                   tasks, runs, overlapped>>
-----------------------------------------------------------------------------
(* update_playlist and playlist_update_task.                               *)

(* saturating_sub *)
MediaSequence ==
    IF stream.next > Len(stream.segments) THEN stream.next - Len(stream.segments) ELSE 0

(* Only complete segments are ever in the entry. *)
CopyStream(u) ==
    /\ Listed
    /\ Advance(u, "read", "write")
    /\ copy' = [copy EXCEPT ![u] = [run |-> stream.run, first |-> MediaSequence,
                                    segments |-> stream.segments]]
    /\ UNCHANGED <<stream, registered, segment, receivers, hand, files,
                   playlist, tasks, runs, overlapped>>

NothingToUpdate(u) ==
    /\ ~Listed
    /\ Advance(u, "read", "idle")
    /\ UNCHANGED <<stream, registered, segment, receivers, hand, files,
                   playlist, copy, tasks, runs, overlapped>>

WritePlaylist(u) ==
    /\ Advance(u, "write", "idle")
    /\ playlist' = copy[u]
    /\ copy' = [copy EXCEPT ![u] = NoPlaylist]
    /\ UNCHANGED <<stream, registered, segment, receivers, hand, files, tasks,
                   runs, overlapped>>

(* The disk refuses the playlist: an error of the start or the stop; the   *)
(* task goes on.                                                           *)
WriteFails(u) ==
    /\ Advance(u, "write", "idle")
    /\ copy' = [copy EXCEPT ![u] = NoPlaylist]
    /\ UNCHANGED <<stream, registered, segment, receivers, hand, files,
                   playlist, tasks, runs, overlapped>>

PlaylistTick ==
    /\ tasks /\ Listed
    /\ Advance("task", "idle", "read")
    /\ UNCHANGED <<stream, registered, segment, receivers, hand, files,
                   playlist, copy, tasks, runs, overlapped>>
-----------------------------------------------------------------------------
(* cleanup_task: beyond PlaylistLength, and by age, oldest first; files    *)
(* and entry under one write lock.                                         *)

DropKeepingListed(k) ==
    /\ tasks /\ k \in 1..Len(stream.segments)
    /\ Len(stream.segments) - k <= PlaylistLength
    /\ files' = [n \in DOMAIN files \ {stream.segments[i] : i \in 1..k} |-> files[n]]
    /\ UNCHANGED <<stream, registered, segment, receivers, hand, playlist,
                   doing, copy, tasks, runs, overlapped>>

DropOldest(k) ==
    /\ tasks /\ k \in 1..Len(stream.segments)
    /\ Len(stream.segments) - k <= PlaylistLength
    /\ files' = [n \in DOMAIN files \ {stream.segments[i] : i \in 1..k} |-> files[n]]
    /\ stream' = [stream EXCEPT !.segments = SubSeq(@, k + 1, Len(@))]
    /\ UNCHANGED <<registered, segment, receivers, hand, playlist, doing, copy,
                   tasks, runs, overlapped>>
-----------------------------------------------------------------------------
HandStep(h) ==
    \/ ReceivePacket(h) \/ LockWriter(h) \/ AppendData(h) \/ FlushSegment(h) \/ FlushFails(h)
    \/ PublishSegment(h) \/ ReadNumber(h) \/ NoNewSegment(h) \/ CreateFile(h)

UpdateStep(u) == CopyStream(u) \/ NothingToUpdate(u) \/ WritePlaylist(u) \/ WriteFails(u)

HlsNext ==
    \/ InsertStream \/ InsertWriter \/ StartReceiver \/ BindFails
    \/ \E h \in Hands : HandStep(h)
    \/ StopHls \/ Finalized \/ RemoveEntry \/ RemoveWriter
    \/ \E u \in Updaters : UpdateStep(u)
    \/ PlaylistTick
    \/ \E k \in 1..(MaxNumber + 3) : DropOldest(k)

HlsSpec == HlsInit /\ [][HlsNext]_hlsVars
-----------------------------------------------------------------------------
(* Properties.                                                             *)

Numbers == 0..(MaxNumber + 2)

HlsTypeOK ==
    /\ stream \in [run : {None} \cup Open, segments : Seq(Numbers), next : Nat]
    /\ registered \in {None} \cup Open /\ receivers \subseteq Open
    /\ segment \in [Open -> Numbers \cup {NoSegment}]
    /\ hand \in [Hands -> [at : {"idle", "lock", "flush", "publish", "new", "create"},
                           writer : {None} \cup Open, number : Numbers \cup {NoSegment}]]
    /\ DOMAIN files \subseteq Numbers /\ \A n \in DOMAIN files : files[n] \in Open
    /\ playlist \in [run : {None} \cup Open, first : Nat, segments : Seq(Numbers)]
    /\ doing \in [Updaters -> {"idle", "writer", "bind", "read", "write", "finalize",
                            "remove", "remove_writer"}]
    /\ copy \in [Updaters -> [run : {None} \cup Open, first : Nat, segments : Seq(Numbers)]]
    /\ tasks \in BOOLEAN /\ overlapped \in BOOLEAN /\ runs \in 0..MaxRuns

(* A client that follows the playlist counts right: EXT-X-MEDIA-SEQUENCE   *)
(* is the number of the first segment listed and the others follow it      *)
(* without a gap, although it is computed from a counter and a length that *)
(* the writer and the cleanup change; unless a start ran into the run      *)
(* before.                                                                 *)
PlaylistNumbered ==
    ~overlapped =>
        \A i \in DOMAIN playlist.segments : playlist.segments[i] = playlist.first + i - 1

(* Every segment of the stream's entry is on disk, in the file its own     *)
(* run's writer made, and not one that another writer or a later segment   *)
(* of that name overwrote; unless a start ran into the run before.         *)
ListedOnDisk ==
    ~overlapped =>
        \A i \in DOMAIN stream.segments :
            /\ stream.segments[i] \in DOMAIN files
            /\ files[stream.segments[i]] = stream.run
=============================================================================
