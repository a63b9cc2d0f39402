# OxideCast in TLA+

OxideCast (`src/`) is a live streaming server in async Rust: broadcasters publish
over RTMP, FFmpeg transcodes, every stream is sent to a multicast group of its
own, and viewers receive it over HLS or WebRTC.  What is hard in it is not the
data it moves but the bookkeeping around it: one stream is an entry in about ten
tables of six components, each with a lock of its own, written by handlers that
can be suspended, fail, be abandoned or be restarted at every `await`.  The
modules here model that bookkeeping, one step per await.

The code is read for what it says.  In a few places it would not compile or run
as written; there the models follow the evident intent.  `socket2::Socket::from`
on a raw descriptor (multicast.rs:358): the socket stays open.  Three borrows of
`child` in one `select!` (transcoder.rs:232-257): the branches are polled in a
random order.  Values used after a move (`payload`, rtmp_server.rs:408-414;
`connection_type`, api/viewers.rs:136-140): they are copied.

## 1. Inventory

| Component | State | Operations | Modelled by |
|---|---|---|---|
| Multicast manager (`multicast.rs`) | allocator (leased addresses, ports in use, cursor), sockets, groups with their viewers, cleanup interval | create_group, remove_group, send_packet, add/remove_viewer, cleanup_task | `MulticastManager`, abstractly `StreamDirectory`; its use beside it in `MulticastUse` |
| Transcoder manager (`transcoder.rs`) | table of jobs, semaphore, FFmpeg processes | start_transcoding, stop_transcoding, the task of a job, get_stats | `TranscoderManager` |
| Stream manager (`stream_manager.rs`) | active_streams, viewer_tracking, stream_sessions | start_stream, stop_stream, health monitor | `StreamManager`, abstractly `RunLife` |
| - its viewers | viewer_tracking, the counts in active_streams and in the row | add/remove_viewer, update_viewer_count, viewer_cleanup_task | `Viewers` |
| HLS server (`hls_server.rs`) | streams, segment writers, receivers, files, playlists | start/stop_stream, the receiver, write_data, update_playlist, cleanup_task, playlist_update_task | `HlsServer`; its port in `StreamManager` |
| WebRTC server (`webrtc_server.rs`) | streams, peer connections, receivers | start/stop_stream, create_peer_connection, the state callback, connection_cleanup_task | `WebRtcServer`; its port in `StreamManager` |
| RTMP server (`rtmp_server.rs`) | connections, its own active streams, channels | connection, handshake, publish, media, session timeout | `RtmpServer`; as a caller in `StreamManager` |
| - its codec | none | decode, encode | `RtmpCodec` |
| Database (`database.rs`, `migrations/`) | streams, stream_sessions, users | single statements, unique keys | `StreamManager`, `Viewers`, `Catalog`, `Accounts` |
| API (`api/`) | none | streams, viewers, accounts, pages | `StreamManager`, `Viewers`, `Accounts`, `Catalog` |
| Tokens (`auth.rs`) | none (tokens are with their owners) | generate_tokens, verify_token, the guard | `Accounts` |
| Statistics, configuration, startup, static player, deployment files | none that changes | - | not modelled |

How they interact.  An RTMP publish or a request to the API calls
`start_stream`, which calls, in order: the database (look at `is_live`), the
multicast manager (create a group), the database (set live), the transcoder
(start a job), its own three tables, the HLS server, the WebRTC server.
`stop_stream` takes the entry out of `active_streams` and goes through the same
list.  Nothing is undone when a step fails.  A viewer's join goes through the
row, the servers (for a URL), the group, the tracking, and the two counts.
Beside them run the health monitor, the cleanup tasks of groups, viewers,
segments and peers, the task of every job and the receivers, each on its own
clock.

What makes each component correct:

* *Multicast manager.* No two streams are sent to one address; a listed group
  can be sent to; the tables of the allocator agree; a socket is not lost to a
  late removal; idle groups and silent viewers, and only they, go.
* *Transcoder.* Permits are neither lost nor made; every job gets its turn; the
  table tells the truth about jobs that ended; stopped encoders die and no more
  than `max_concurrent` run (the last two do not hold).
* *Stream manager.* A run is torn down once; a stop that reports success has set
  the row offline and taken the stream out of the tables it is served from; a live
  row advertises a leased address; a stream without frames does not stay live; what
  the API answers is so (it is not always).
* *Viewers.* The two counts agree with the viewers tracked; no count is invented;
  the maximum does not go down unnoticed; whoever is tracked is sent packets;
  who fell silent goes.
* *HLS.* A playlist numbers its segments right; a segment listed is on disk, in
  the file of its own run.
* *WebRTC.* A stop leaves no peer that it could have known of; none stays for ever.
* *RTMP.* The decoder gives back what was sent, however TCP cuts it, up to the
  first message that one chunk does not hold or describe; one publisher to a stream;
  media only from who was told that it publishes; the key of a stream is good for
  publishing (it is not).
* *Accounts and rows.* One account to a name and to an address; an account
  switched off is out after one token's life; an update changes what it was asked
  to; the pages of a list have every stream once.

The hazards behind these, each with its line, are in `PROJECT.json`.

## 2. Modules

### StreamDirectory and MulticastManager

`StreamDirectory` is what the rest of the server relies on: which streams are
published, at which endpoint, and who watches them.  Endpoints of two streams
never coincide, and an audience changes only by a join, a leave or silence.

`MulticastManager` is the code.  A *task* is a caller; `pc[t]` is the await it is
suspended at and `lease[t]` the stream, address and port it carries over it.

| TLA+ | code |
|---|---|
| `CreateGroup`, `BindSocket`, `InsertSocket`, `InsertGroup` | the four parts of `create_group`, each under its own lock; `BindFails` is its `?`, `AbandonCreate` the session timeout that drops the call |
| `RemoveGroup`, then `RemoveResources` | `remove_group`: table, then socket, then lease |
| `SendPacket`, `Transmit` | `send_packet`: clone under the lock, send after it |
| `AddViewer`, `RemoveViewer` | one step each under the lock of the groups |
| `Tick`, `Cleanup` | the clock and one iteration of `cleanup_task` |
| `AddressAt`, `FreeOffsets`, `FreePorts` | the search of `allocate_address`, with the carry between octets |

Only two octets of an address vary (`OctetSize` stands for 256).  Ages saturate
one tick past two timeouts, after which nothing distinguishes them.  `MaxOffset`
is the one bound of the model: no allocation starts once the cursor is past it.

`MulticastUse` writes the use of the groups down beside it: `used` is the ticks since
the group of a stream was created or sent to, `joined` those since each viewer
joined.  Both are kept from the calls alone (`UsePacket`, `UseGroup`, `UseJoin`,
`UseLeave`, `UseTick`) and never look at the ages in the groups, which are what the
cleanup decides by.  `DroppedOnlyIdle` compares what the cleanup drops with this
history, so an age that a call forgets to renew shows.

### TranscoderManager

`pc[j]` is the await the task of job `j` is at, `process[j]` its FFmpeg process,
`stop[j]` the `stop_transcoding` call for it.  `waiters` is the fair queue of
tokio's semaphore: a permit given back goes to its head (`MoveAndRelease`).  The
actions from `Acquire` to `ReturnPermit` are `run_transcoding_job` line by line.
`FeederReturns` is the `select!` branch that the code always offers:
`feed_input_data` returns at its first poll.  A process is external: it ends when
it wants, and dropping its handle does not end it.  An encoder that never ends is
allowed.

### RunLife and StreamManager

`RunLife` is what the stream manager promises of every run, a start of a stream
that finds it offline: it is begun, leased a port, shown in the row, given its job,
served, and taken down by one caller, in that order and once; nothing is done for it
before its time; and it does not come back, whoever overlaps with it, wherever a
call fails and whenever the server restarts.  It says as well what is *not* promised:
only a caller taking down a run of the same stream gives leases back, so a run that
ends otherwise leaves its lease, and the row can go offline at any time.

`StreamManager` is the code.  A *caller* is an API request or an RTMP session.  The n-th start of stream `s`
that finds it offline is run `<<s, n>>`; its lease, job and session carry that
name, so that a table can be asked *whose* entry it holds.  `Starting` and
`TearingDown` are the awaits of `start_stream` and `stop_stream` in order.
`StartFails` and `StopFails` are the `?` of those awaits that can fail,
`AbandonStart` the RTMP timeout, `GroupCutShort` either of them inside
`create_group`, once the port is leased, and `Crash` a restart, which keeps the
database only.  `Phase` reads the phase of a run off the callers and
`active_streams`, and `Life` is `RunLife` under it.  The layers below appear as what they promise: groups and leases by
stream and run (the subject of `MulticastManager`; that they change only as
`StreamDirectory` allows is proved), jobs as the table a job leaves
by itself (`JobLeaves`, the subject of `TranscoderManager`), a group dropped with
its lease kept (`GroupExpires`), and the UDP ports of the receivers (`bound`),
which nothing but an error of the receiver frees.

Two facts of the code shape it.  The HLS and the WebRTC receiver of a stream bind
the same port, so `WebrtcBind` succeeds only if the first has ended meanwhile; an
ordinary start ends in `StartFails` with everything in place.  And
`handle_media_data` has no caller, so every active stream `Stalls` after a minute.

`disturbed` is a history variable: the streams on which two calls overlapped, or
that a restart left marked live.  The code gives no guarantee of cleanliness for
those (a stop that set the row offline lets a start in and then removes the new
run's group; nothing repairs rows after a restart), so `CleanStop` and
`LiveRowLeased` are about the others; `OneTeardown` is about all.  The overlaps
themselves are explored.

`CleanStop` says what `Delisted` lists: the row is offline, and the stream is in none
of `active_streams`, `viewer_tracking`, the groups and the HLS and WebRTC tables.  It
says nothing of what a successful stop does leave behind: the session stays in the
sessions map, the lease stays if the cleanup dropped the group before, the job leaves
by itself later, and a receiver keeps its port.

The bounds are `MaxRuns` and `MaxCrashes`.

### Viewers

The viewers of one stream, kept four times: in the group, in `viewer_tracking`,
in the count of `active_streams` and in those of the row.  `pc[q]` is the await
that request `q` is at; `JoinStream` to `TrackViewer` are `join_stream` and
`add_viewer`, `LeaveStream` to `ForgetViewer` `leave_stream` and `remove_viewer`,
`CountViewers` to `WriteRow` the `update_viewer_count` at the end of both, which
reads the number under one lock, shows it under another, and writes the row from
a copy.  A refused or failed request ends where it is.  `ViewerCleanup` and
`GroupCleanup` are the two tasks that remove viewers, each from its own table;
nothing renews `last_activity`.

An *operator* starts and stops the stream: `stage[o]` walks through the steps of
`start_stream` and `stop_stream` that touch these tables, and `GiveUp` ends a start
or stop at any of them, as its `?` and the RTMP timeout do, with everything done so
far left in place.  Any number of operators overlap; the guards are those of the
code, the row's `is_live` (`StartIfOffline`, `StopIfLive`) and the entry in
`active_streams` (`TakeActive`).  `MonitorTick` and `MonitorMark` are the health
monitor, which marks the row offline with the stream still active, so that a start
comes in on top of it and resets the counts; `DeleteRow` is `delete_stream`.

The history variables say which disturbances the code knows no answer to:
`unsettled` (counts and viewers came apart, and no request on its own has counted
since: requests overlapped or failed, the cleanup came in, or a start or stop met
counts that were not zero), `crossed` (addresses on which two requests met, all
viewers of the API sharing one; that the group's cleanup dropped; or whose group a
start replaced or a stop removed, until tracking begins anew, which after a failed
stop it does not), `lapped` (requests whose copy of the row is outdated).

### HlsServer

One stream key.  Each start is a run, with an entry, a segment writer and a
receiver that nothing stops.  A *hand* works on a writer, under its lock: the
receiver of a run (`ReceivePacket`, `LockWriter`, `FlushSegment`, `PublishSegment`,
`ReadNumber`, `CreateFile` are `write_data` with the two functions it calls) or
`stop_stream`.  `doing[u]` is the step of the start, the stop and the playlist task;
`CopyStream` and `WritePlaylist` are `update_playlist`, and its copy in the task.
`DropOldest` is the cleanup task, which deletes under the write lock.  Nothing in
the repository calls `HlsServer::start`, which spawns the two tasks: `tasks` says
whether they run, and the run explores both.  No fairness is assumed of them, and
that a segment is ever published is not claimed.  `overlapped` tells of a start that
met the run before: files are named by number alone, and two runs then write the
same ones.

### WebRtcServer

A *peer* is one offer.  `making[p]` is the await of `create_peer_connection`,
`actual[p]` the connection as the library knows it, `callback[p]` the step of the
state callback, `table[p]` the entry.  The library is external: a connection
fails when it wants, and can connect once its client has the answer.  Three
places close peers: `stop_stream` (`RemoveStream`, `ListPeers`, `CloseListed`), the
callback (`UpdateState`, `ClosePeer`, `RemovePeer`) and the cleanup task
(`ListInactive`, `RemoveInactive`).  No route leads to `create_peer_connection`
yet; the module is about what it does when called.

### RtmpCodec and RtmpServer

`RtmpCodec` works on bytes.  `Decode` is the decoder, as a function of the buffer
(the codec keeps nothing else that it looks at), `Encode` the encoder.  A message is
sent in one of three forms: *headed*, in a chunk that says its length and type (fmt
0 or 1); *bare*, in one that does not (fmt 2 or 3, after the first message), where the
decoder reads length 0 and type 0 and fails; or *encoded*, as this code's own encoder
sends it, with any payload and timestamp.  The rest of a payload longer than the chunk
size follows in a chunk of fmt 3, but for the encoder's, where it follows bare.  TCP
delivers the bytes one by one, which is every way to cut them, since the decoder is
asked after any read.

A message is `Astray` when the encoder sends what this decoder reads as something
else: a payload past the chunk size, or a timestamp whose lower 24 bits are 0xFFFFFF,
which the encoder writes and the decoder takes for the announcement of four more
bytes.  `Framing` claims nothing about what is decoded from there on.

`RtmpServer` is a connection's life: `Accept`, `Handshake`, the message loop
(`Publish` to `Respond` is `handle_command`, await by await; `Media` and `Queue` the
channel, of which nothing is ever taken out), `Timeout`, `Fails` and `Closes`, of
which only the last removes the entry.

`Publish` is what a broadcaster sends.  `handle_command` parses the name of the
command from the second byte of the payload on; the first is the AMF0 marker of the
name, so `parse_amf0_string` fails and the session ends without an answer.  `connect`
ends the same way (`Fails`), and the handshake before it waits for a message of the
codec, which the bytes of a real C0 and C1 are not.  `PublishAfterByte` is the
command with a stray byte before its marker, the only one to reach
`parse_stream_key_from_publish`; `ParseStreamKey` is that parser as it is, and its
result is the command's own name.  A publish can therefore succeed only after such a
byte and for a stream whose row has the key `publish`, which the program never makes;
in the run `service` `StreamKeys` has that one key, so that what the code does after
authentication is explored at all, and `rtmp_publish` has an ordinary one.
`start_stream` is reduced to reading and setting `is_live`.

### Accounts

Registration (`CheckName`, `CheckEmail`, `Insert`, the last refused by the unique
keys of the migration), login, refresh, `GenerateTokens`.  Tokens are given out and
never stored by the server; `LetIn` is the guard of the other routes, which does
not read the row.  `Disable` is the operator's.  A second (`Tick`) is taken to be
longer than the way from reading the row to signing the tokens.

### Catalog

The rows of streams as the API edits them: `ReadForUpdate` and `WriteUpdate` are
`update_stream`, which writes all editable fields back from its copy; the stream
manager's columns change beside it by statements of their own.  `Page`, `Order`,
`Limit` and `Offset` are `list_streams` on u32 (`Word` is 2^32), walked through by
a reader (`StartWalk`, `NextPage`).  A walk is given up when a row changes.

### ServiceMC

The seven modules above, from `Viewers` on, share no variable with each other:
what each needs of the life of a stream is in it, and the composition of the
tables that do depend on each other is `StreamManager`.  `ServiceMC` checks them
together, a behaviour being one of one part (`subject`) with the others at rest;
no interleaving is lost, because steps of two parts commute.  The properties are
those of the modules under their own names.

### Faulty variants

A definition followed by one with a longer name in front of it (`TakeActiveCloned`
before `TakeActive`) is a plausible mistake in that piece of code.  No action
uses the variants.  Putting one in the place of the original must break the
property it is paired with under `mutants` in `PROJECT.json`: a property none of
them breaks would say nothing of the code.

## 3. Runs

| Run | Instance | Shows |
|---|---|---|
| `multicast` | 2 tasks, 2 keys, 1 viewer, 2 ports, 4 addresses, cursor to 5 | type; `LeasesConsistent`, `OneOwner`, `GroupsReady`, `SocketsLeased`, `StaleCloneFar`; the manager implements `StreamDirectory` |
| `multicast_time` | `MulticastUse`: 1 task, 2 keys, timeout of 2 ticks | `ViewersExpire`; `DroppedOnlyIdle`, by the history of use; `IdleReclaimed` (liveness) |
| `transcoder` | 3 jobs, 1 permit | type; `PermitsConserved`, `NoGhostJobs`, `ExitReported`; `EveryJobEnds` (liveness) |
| `transcoder_capacity` | 2 jobs, 1 permit | violated: two encoders run |
| `transcoder_stop` | 2 jobs, 1 permit | violated: a stopped job's encoder is left alone |
| `streams` | 1 stream, 2 callers, 2 ports, 2 runs | type; `OneTeardown` under every overlap; `CleanStop` of the stops that nothing overlapped |
| `streams_restart` | 1 stream, 1 caller, 1 restart | `LiveRowLeased`; the manager implements `RunLife`; `StalledGoesOffline` (liveness) |
| `streams_stop` | 1 stream, 1 caller | violated: a successful stop leaves the row live |
| `streams_refused` | 1 stream, 1 caller | violated: "not live" is said of a stream at work |
| `service` | see below | viewers: `CountsAgree`, `CountsReal`, `TrackedInGroup`, `MaximumKept`; HLS: `PlaylistNumbered`, `ListedOnDisk`; WebRTC: `StopClearsPeers`; RTMP: `OnePublisher`, `MediaAfterPublish`, `Framing`; accounts: `NamesUnique`, `DisabledLockedOut`; rows: `UpdatesKept`, `PagesTile`; the types of all |
| `service_live` | viewers and WebRTC, smaller | liveness: `GhostsExpire`, `PeersLeave` |
| `rtmp_publish` | 2 sessions, 1 connection, an ordinary key | violated: publishing with the key of a stream fails |

Why these are enough to find something.  Two tasks on two keys reach a creation
inside a removal of the other key and of the same; two ports and four addresses
with a cursor to 5 run out, leak and come round again.  Three jobs on one permit
make a queue of two, so that a permit passes between waiting tasks while others
come and go.  Two keys in `multicast_time` let a packet or a join for the one be
taken for the other's.  Two callers with two runs reach a start inside a stop inside a
start; two ports make the second run take the port the first one's receiver still
holds.  A single stream is enough because streams share only ports, which runs of
one stream share as well.  The implementation of `RunLife` is checked with the one caller of
`streams_restart`, who fails and is restarted at every step; with two callers it
takes TLC too long for a routine run, and the proof covers any number.
`transcoder` turns the deadlock check off: once every
job is over, nothing is left to do.  `multicast` and `streams` use symmetry (of
tasks, keys, callers), and `service` that of requests and addresses, only where no liveness is checked; `streams` also views
states without `told`, which no guard reads and `CleanStop` reads in the step that
returns.

In `service`: two requests on two addresses, with two calls in two runs of the
stream, overlap in every table, land in the next run, and count in either order,
beside an operator whose starts and stops give up at every step, after which the
next one meets what is left (operators that overlap are left to the proof, which is
for any number);
two HLS runs (one with the tasks) and more segments than a playlist of
one holds make the cleanup run ahead of the writer and the old receiver feed the new
writer; two peers and two lives of a stream make a creation outlast a stop and a
close fail before another; two sessions and three connections make an address
come back to its old entry, and a queue of one fills at once; two messages with a
chunk size of 2, headed, bare and encoded, in every fmt and size of basic header,
with and without an extended timestamp, empty, short and cut, reach every branch of
the decoder, the encoder's two ways of going astray, and a cut payload whose rest
looks like headers; two registrations of
two names and addresses, two tokens and a clock of 2 outlast an access token
(1 second) and meet a refresh token (2); three row writes by two editors on two
streams, with page sizes from 0 (raised to 1) to 3 (cut to 2).  `Word` is 8: an
offset wraps only past that, which a walk over two rows does not reach, as one
over fewer than 2^32 - 100 rows does not in u32.  The deadlock check is off: within the
bounds a part comes to rest.

Fairness.  Tokio polls every ready task again and again: `WF` on the steps of a
job (`RunJob`), on the suspended callers of the multicast manager, on the ticks
and steps of the cleanup and monitor tasks that the program starts, and on time
(silence is noticed).  Nothing is assumed of FFmpeg, of clients, of the WebRTC
library, of requests coming, of a start or stop going on, or of the HLS tasks, which
nothing starts.  `StalledGoesOffline` assumes `SF` of the row update: the database may
refuse any number of times, not for ever.

## 4. What the violated runs show

* `transcoder_capacity`: the README's `max_concurrent = 20  # Based on CPU/GPU
  capacity` bounds tasks, not encoders.  The input feeder ends the `select!` at
  once, the permit is given back and the encoder runs on.
* `transcoder_stop`: a job stopped before its pid is registered is marked
  cancelled, spawned (or registered) all the same and set to running.
* `streams_stop`: a start that fails between setting the row live and entering
  `active_streams` (an unknown profile does) leaves a row that every later stop
  reports stopped and none sets offline.
* `streams_refused`: the health monitor marks the row of a stream offline and
  leaves the stream at work; the API then refuses to stop it, and a new start
  orphans its lease and job.
* `rtmp_publish`: the name of a command is parsed from the second byte of the
  payload on, behind its AMF0 marker, so a standard publish fails with "Not an AMF0
  string" and the session ends without an answer.  A command with a stray byte before
  the marker gets further: there the parser looks for "the next string parameter
  (stream key)" from the start of the command and finds the command's own name.  The
  key is `publish` whatever was given, keys are UUIDs, and the answer is
  onPublishError.

Met on the way, and not runs of their own: the answers onPublishStart and
onPublishError carry the lengths 15 and 13 of names 14 long (rtmp_server.rs:540,
542); the handshake waits for a message and sends nothing, without a timeout; the
decoder neither joins chunks nor keeps fields of earlier ones, so a payload past 128
bytes ends the session at its second chunk, and so does a new message in fmt 2 or 3
at its first (`Framing` states exactly that); the encoder sends longer payloads in
one piece, which this decoder would read as headers, and never extends a timestamp;
the HLS tasks are never started; the
last segment of a stream is never in its playlist, which is updated after the
entry is gone; a peer that streams without a state change is dropped after five
minutes; `delete_stream` decides from an old row whether to stop the stream, goes on
when the stop fails, and so can leave a run without a row.

## 5. What is proved

The theorems hold for every value of the constants, under the named assumptions of
the modules (finite sets of jobs, viewers and addresses, positive capacity and
timeouts, natural bounds, fields of the width the code gives them).  Every safety
invariant, action property and implemented specification of the passing runs is the
subject of one; what stays with TLC is named at the end of this section.

`MulticastManager_proofs`.  None of the properties is inductive by itself: that a
removal does not take a new group's socket depends on the lease being held until
after the socket is gone, which depends on who holds which lease.  `IInv`
(`Ownership`) says it: every leased address is owned by one listed group, one
task on its way in, one on its way out, or nobody ever again.  From it follow
`LeasesStayConsistent`, `AddressesHaveOneOwner`, `ListedGroupsAreReady` and
`SocketsStayLeased`; and `DirectoryImplemented`, where a step that lists a group
is a `Publish` because no other listed group can have its endpoint.
`EndpointsStayApart` is proved of `StreamDirectory` and handed down.
`StaleClonesStayFar` adds `CloneInv`: allocations are numbered in order, a number
stands for its address, and so an address comes round again `OctetSize^2` numbers
later at the earliest.  It needs `IInv` too, since a group that is listed while
the clone is under way must not have been leased before it.  `ViewersDoExpire`
rests on `AgesBounded`: a viewer's age and the ticks until the cleanup add up to
two timeouts at most.  `OnlyIdleDropped` rests on
`AgesTrue`: the ages in the table are those of the history, so that every call renews
the ages it should and no others.

`TranscoderManager_proofs`.  `JobsTracked`: the queue lists the waiting tasks once
each (else a permit could be handed to a task that has one), permits held and
free add up, and where a task is tells what its process and its entry can be.
From it `TypeCorrect` (the bound on free permits needs the sum),
`PermitsAreConserved`, `NoGhosts` and `ExitsAreReported`, and `StatsAreConsistent`,
which no run checks.

`StreamManager_proofs`.  `TypeCorrect`; `TornDownOnce` from `Owners`: a run not
given up is owned by one caller or by `active_streams`, and numbers not yet given
out are owned by nobody; `LiveRowsAreLeased` from `Quiet`: alone on its stream, a
caller finds the row offline until the address is freed, and the address leased
when it sets the row live.  `StopsDelist` adds `Swept` to it, which says for
each await of a stop which tables it has emptied by then.

In the same module `RunLifeImplemented`.  `Owners` makes the phase of a run
unambiguous (`PhaseInHand`, `PhaseUnowned`): a run has one caller at work on it, or is
served, or neither.  Then a step of a caller moves the run in its hand and no other
(`StaysWith`, `SamePhase`), and each action is one step of `RunLife` or none.  There
the invariant `LifeSafe` is inductive by itself, which gives `RunsLiveApart` (no port
shared, nothing before its time) and `RunsGoOnward` (no run goes back) for any overlap,
where `LiveRowsAreLeased` and `StopsDelist` must leave overlaps out.
`GroupsAreDirectory` ties the levels: what this module does to groups and leases is a
step of `StreamDirectory`, the specification `MulticastManager` implements, and so what
is proved of that (`EndpointsApart`) holds up here too.  It is not the converse, that
the lower layer offers every step the upper takes.  It needs
`GroupsKeepLeases`, a lease behind every listed group, and from `RunsLiveApart` that a
run about to lease a port has none.

`Viewers_proofs`.  `TypeCorrect` from `TInv`, and three arguments on top of it that
do not need each other.  `CountsAreReal` is inductive with the type: a count is
only ever copied from the tracked audience.  `TrackedAreInGroup` from `Joined`: who
is about to be tracked is in the group by then, and two requests at work for an
address have crossed.  `CountsDoAgree` from `Settled`: one request at a time is
`alone`, what it carries is the audience until it has written it, and when nobody
counts the tables hold it.  Neither relies on starts and stops going through, or
coming one at a time: whatever a step of theirs does to the tables, it either leaves
what the invariants say as it is, or is written into `crossed` (`LoseGroup`) or
`unsettled` (`BeginCounts`).  `MaximumIsKept` from `MaximumKnown`: a request not `lapped` has the
maximum of the row in its copy.

`Servers_proofs`, on `HlsServer`.  Even the type is not inductive: that a segment's
number stays in bounds needs that two hands never publish the same number, hence
`HlsInv`: a writer has one holder (`Locks`), the receivers at work share one writer even after an overlap
(`Alike`), everybody is on the registered writer until then (`Tidy`), and a stop can
publish once past the end (`Bounded`).  On top of it, `ListedAreOnDisk` and
`PlaylistIsNumbered` from `Fresh`, `Numbered` and `CopiesCount`: the segments of the
entry count without a gap up to the next number, the open one is that next one,
and so are those of every copy the playlist is written from.

The same module, on `WebRtcServer`.  `StopsAreClean` from `StopInv`: without a stream,
a stored peer is late, on the list of the stop, or still to be listed, and a creation
that can yet store one is late.

`RtmpServer_proofs`.  `MediaFollowPublish` from what the entry of a connection says
at each step (`EntryTold`).  `PublishersAreAlone` from `PInv`: two sessions between
check and update have marked each other (`SettingRaced`), so who finds the row live
at its own update has overlapped with everybody who has the run (`LateRaced`), and a
stream that goes live anew has a number that nobody has (`RunsBegun`).

The same module proves the codec, for every chunk size and any set of payloads and
timestamps whose fields fit u24 and u32 (`CodecAssumption`).  `FrameAt` says that a
stretch of bytes is what was sent for a message: a chunk in fmt 2 or 3 for a bare one,
`ChunkAt` for the others that are not astray.  Lemmas show it of `Encode` and of the
protocol's chunks, that it survives bytes put behind it and taken away in front, and
that `Decode` takes exactly the message out of it, or fails on a bare one.  `CodecInv`
then says that, while no message decoded was `Strayed`, the bytes received and under
way divide into the messages not decoded yet (`Framed`), or begin with the rest of a
payload that was cut, whose type no decoder knows.  From it `FramesAreKept`: no way to
cut up the bytes lets the decoder take payload for a header, or break anywhere but
there.

`Api_proofs`.  `NamesStayUnique` is inductive by itself, because the unique keys
are looked at with the insertion.  `DisabledAreLockedOut` from `SeenActive` (a request
about to sign was let through within this second) and `SignedWhileActive`.
`UpdatesAreKept`, of `Catalog`, from `CopyIsRow`: an editor nobody overtook has in its
copy what the row has, so writing it back takes nothing back.  `ListingIsSorted`: the
sorted listing, a CHOOSE, always exists.  That no two live rows were started by the
same write (`RowsWritten`) makes its order strict and total, and then the place of a
row is one more than the number of rows before it, which needs no induction.
`PagesDoTile` from `WalkInv`: a walk is never a page or more past the last row, so
the offset of its next page is below `Word` as long as the rows and one page are
(`CatalogAssumption`: fewer than 2^32 - 100 streams).

`Service_proofs`.  The run `service` checks `MCSpec`, where the parts stand side by
side, and the theorems above are of each part's specification.  `PartsLiveAlone` says
that a behaviour of `MCSpec` is one of every part; from it `TypesHold` and
`ServiceIsSafe`, the properties of the run for every value of the constants.

Only model-checked:

* All liveness (`IdleReclaimed`, `EveryJobEnds`, `StalledGoesOffline`, `GhostsExpire`,
  `PeersLeave`), which needs fairness and ENABLED.
* What the code violates (section 4): a counterexample is its proof.

## 6. Plan

Written, in the order of what depends on what: `StreamDirectory`,
`MulticastManager` (leases and groups, on which streams rest), `TranscoderManager`,
`StreamManager` (which composes what the first two promise with the tables of the
others) and `RunLife`, then the parts beside it: `Viewers`, `HlsServer`, `WebRtcServer`,
`RtmpCodec`, `RtmpServer`, `Accounts`, `Catalog`, and `ServiceMC` over these.  None of
the modules declares a RECURSIVE operator, so all of them can be proved about.

Left: an abstract specification of a viewer's stay, which `Viewers` implements where
requests do not cross, and shorter proofs where two tell the same steps (those of a
stop in `Quiet` and in `Swept`).

## 7. Not modelled

* What the media is: packets, segments and frames are numbers or nothing; FFmpeg's
  command line and the progress it prints; RTP and SRTP.
* Hashing of passwords and signing of tokens: a token is the claims in it.
* Statistics: `get_stats` of the managers (but for the transcoder's, whose counts
  `StatsAreConsistent` is about), the queries of `api/stats.rs`, the metrics collector,
  the viewer count, the quality reports and the ICE candidates of WebRTC, byte and
  packet counters.  They read, or write what nothing decides by.
* Code without a caller: `disconnect_stream`, `track_viewer`,
  `update_viewer_last_seen`, the forwarding of media to peers.  That
  `handle_media_data` has none is in the model: it is why every stream stalls.
* `get_playlist` and `get_segment`, which copy a file to the client.
* The answers to connect and createStream, which change no state.
* Configuration, startup, static pages and deployment files: read once, or not
  part of the program.
* Starts and stops of one stream that overlap, inside `WebRtcServer`: they are the
  subject of `StreamManager`, where they do leave things behind.
* Arithmetic on counters that would need 2^32 events.  The offset of a page is the
  exception: it comes from the request, and `Catalog` computes it on `Word`.
