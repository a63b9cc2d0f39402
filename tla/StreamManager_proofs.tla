-------------------------- MODULE StreamManager_proofs --------------------------
(***************************************************************************)
(* The safety of StreamManager for any streams, callers and ports, any     *)
(* number of starts and of restarts.                                       *)
(*                                                                         *)
(* The proofs follow what each await changes: TInv adds to the type that a *)
(* caller past its first steps has a run and a port, Owners that a run     *)
(* belongs to one caller or to active_streams, Quiet that a caller alone   *)
(* on its stream finds the row as it left it, and Swept which tables a     *)
(* stop has emptied.  That StreamManager implements RunLife rests on       *)
(* Owners.                                                                 *)
(***************************************************************************)
EXTENDS StreamManager, TLAPS

(* The awaits at which a caller has a run, and a port.                     *)
HasRun == (Starting \ {"find"}) \cup TearingDown
HasPort == Starting \ {"find", "create_group"}

(* What the variables of the callers keep.                                 *)
CallersTyped ==
    /\ pc \in [Callers -> {"idle", "check", "take"} \cup Starting \cup TearingDown]
    /\ work \in [Callers -> [stream : Streams, run : RunNumbers \cup {NoRun},
                             port : Ports \cup {NoPort}]]
    /\ told \in [Callers -> Results]
    /\ next_run \in [Streams -> 1..(MaxRuns + 1)]
    /\ crashes \in 0..MaxCrashes
    /\ disturbed \subseteq Streams
    /\ \A c \in Callers : pc[c] \in HasRun => work[c].run \in RunNumbers
    /\ \A c \in Callers : pc[c] \in HasPort => work[c].port \in Ports

DataTyped ==
    /\ db \in [Streams -> [is_live : BOOLEAN, run : RunNumbers \cup {NoRun}]]
    /\ saved \subseteq Runs /\ sessions \subseteq Runs /\ jobs \subseteq Runs
    /\ Active \subseteq Streams
    /\ active \in [Active -> [run : RunNumbers, stalled : BOOLEAN]]
    /\ tracking \subseteq Streams /\ monitored \subseteq Streams
    /\ DOMAIN groups \subseteq Streams /\ groups \in [DOMAIN groups -> RunNumbers]
    /\ DOMAIN leases \subseteq Runs /\ leases \in [DOMAIN leases -> Ports]
    /\ hls \subseteq Streams /\ webrtc \subseteq Streams /\ bound \subseteq Ports

(* The type, and what a caller past its first steps has in hand.           *)
TInv == CallersTyped /\ DataTyped

LEMMA TInvTypes == TInv => TypeOK
  BY DEF TInv, TypeOK, CallersTyped, DataTyped

LEMMA InitTInv == Init => TInv
  BY BoundsAssumption
     DEF Init, TInv, CallersTyped, DataTyped, EmptyTable, Active, Runs, RunNumbers, NoRun, NoPort, HasRun, HasPort,
         Starting, TearingDown, Results

LEMMA ReturnIdles ==
    ASSUME CallersTyped, NEW c \in Callers, NEW from, NEW result \in Results,
           Return(c, from, result)
    PROVE  /\ CallersTyped'
           /\ pc'[c] = "idle" /\ work'[c].stream = work[c].stream /\ told'[c] = result
           /\ \A d \in Callers \ {c} : pc'[d] = pc[d] /\ work'[d] = work[d]
<1> DEFINE idle == [work[c] EXCEPT !.run = NoRun, !.port = NoPort]
<1>1. idle \in [stream : Streams, run : RunNumbers \cup {NoRun}, port : Ports \cup {NoPort}]
      /\ idle.stream = work[c].stream
  BY DEF CallersTyped
<1>2. work' = [work EXCEPT ![c] = idle] /\ pc' = [pc EXCEPT ![c] = "idle"]
      /\ told' = [told EXCEPT ![c] = result] /\ UNCHANGED <<next_run, crashes, disturbed>>
  BY DEF Return, history
<1> HIDE DEF idle
<1>3. "idle" \notin HasRun \cup HasPort
  BY DEF HasRun, HasPort, Starting, TearingDown
<1> QED BY <1>1, <1>2, <1>3 DEF CallersTyped

LEMMA GoMoves ==
    ASSUME CallersTyped, NEW c \in Callers, NEW from, NEW to,
           to \in {"idle", "check", "take"} \cup Starting \cup TearingDown,
           Go(c, from, to), work' = work,
           to \in HasRun => from \in HasRun, to \in HasPort => from \in HasPort
    PROVE  /\ CallersTyped'
           /\ pc[c] = from /\ pc'[c] = to
           /\ \A d \in Callers \ {c} : pc'[d] = pc[d]
  BY DEF Go, CallersTyped, history

LEMMA StartType ==
    ASSUME TInv, NEW c \in Callers, StartStep(c)
    PROVE  TInv'
<1>0. CallersTyped /\ DataTyped
  BY DEF TInv
<1>r. ASSUME UNCHANGED <<database, manager, multicast, jobs, servers>> PROVE DataTyped'
  BY <1>0, <1>r DEF DataTyped, Active, database, manager, multicast, servers
<1>1. CASE RefuseLive(c) \/ StartFails(c) \/ AbandonStart(c)
  <2>1. CASE RefuseLive(c)
    BY <1>0, <1>r, <2>1, ReturnIdles DEF RefuseLive, Results, TInv
  <2>2. CASE StartFails(c)
    BY <1>0, <1>r, <2>2, ReturnIdles DEF StartFails, Results, TInv
  <2>3. CASE AbandonStart(c)
    BY <1>0, <1>r, <2>3, ReturnIdles DEF AbandonStart, Results, TInv
  <2> QED BY <1>1, <2>1, <2>2, <2>3
<1>2. CASE WebrtcBind(c)
  <2>1. CallersTyped'
    BY <1>0, <1>2, ReturnIdles DEF WebrtcBind, Results
  <2>2. work[c].port \in Ports
    BY <1>0, <1>2 DEF WebrtcBind, Return, CallersTyped, HasPort, Starting
  <2>3. DataTyped'
    BY <1>0, <1>2, <2>2 DEF WebrtcBind, DataTyped, Active, database, manager, multicast
  <2> QED BY <2>1, <2>3 DEF TInv
<1>3. CASE GroupCutShort(c)
  <2>1. CallersTyped'
    BY <1>0, <1>3, ReturnIdles DEF GroupCutShort, Results
  <2>2. Run(c) \in Runs
    BY <1>0, <1>3 DEF GroupCutShort, Return, CallersTyped, HasRun, Starting, Run, Runs
  <2>3. DataTyped'
    BY <1>0, <1>3, <2>2
       DEF GroupCutShort, FirstFree, FreePorts, Set, DataTyped, Active, database, manager, servers
  <2> QED BY <2>1, <2>3 DEF TInv
<1>4. ASSUME FindStream(c) \/ CreateGroup(c) \/ SetLive(c) \/ StartTranscoding(c)
             \/ InsertActive(c) \/ InsertTracking(c) \/ InsertSession(c)
             \/ HlsInsert(c) \/ HlsBind(c) \/ WebrtcInsert(c)
      PROVE  TInv'
  <2> USE DEF TInv, CallersTyped, DataTyped, HasRun, HasPort, Starting, TearingDown, Go, Set,
              Stream, Run, Active, history, database, manager, multicast, servers
  <2>1. CASE FindStream(c)
    BY <2>1, BoundsAssumption DEF FindStream, RunNumbers
  <2>2. CASE CreateGroup(c)
    BY <2>2 DEF CreateGroup, FirstFree, FreePorts, Runs
  <2>3. CASE SetLive(c)
    BY <2>3 DEF SetLive
  <2>4. CASE StartTranscoding(c)
    BY <2>4 DEF StartTranscoding, Runs
  <2>5. CASE InsertActive(c)
    BY <2>5 DEF InsertActive
  <2>6. CASE InsertTracking(c)
    BY <2>6 DEF InsertTracking
  <2>7. CASE InsertSession(c)
    BY <2>7 DEF InsertSession, Runs
  <2>8. CASE HlsInsert(c)
    BY <2>8 DEF HlsInsert
  <2>9. CASE HlsBind(c)
    BY <2>9 DEF HlsBind
  <2>10. CASE WebrtcInsert(c)
    BY <2>10 DEF WebrtcInsert
  <2> QED BY <1>4, <2>1, <2>2, <2>3, <2>4, <2>5, <2>6, <2>7, <2>8, <2>9, <2>10
<1> QED BY <1>1, <1>2, <1>3, <1>4 DEF StartStep

LEMMA StopType ==
    ASSUME TInv, NEW c \in Callers, StopStep(c)
    PROVE  TInv'
<1>0. CallersTyped /\ DataTyped
  BY DEF TInv
<1>r. ASSUME UNCHANGED <<database, manager, multicast, jobs, servers>> PROVE DataTyped'
  BY <1>0, <1>r DEF DataTyped, Active, database, manager, multicast, servers
<1>1. CASE RefuseOffline(c) \/ NothingToStop(c) \/ StopFails(c)
  <2>1. CASE RefuseOffline(c)
    BY <1>0, <1>r, <2>1, ReturnIdles DEF RefuseOffline, Results, TInv
  <2>2. CASE NothingToStop(c)
    BY <1>0, <1>r, <2>2, ReturnIdles DEF NothingToStop, Results, TInv
  <2>3. CASE StopFails(c)
    BY <1>0, <1>r, <2>3, ReturnIdles DEF StopFails, Results, TInv
  <2> QED BY <1>1, <2>1, <2>2, <2>3
<1>2. CASE FinalizeSession(c)
  <2>1. CallersTyped'
    BY <1>0, <1>2, ReturnIdles DEF FinalizeSession, Results
  <2>2. DataTyped'
    BY <1>0, <1>2 DEF FinalizeSession, SessionsOf, DataTyped, Active, manager, multicast, servers
  <2> QED BY <2>1, <2>2 DEF TInv
<1>3. CASE TakeActive(c)
  <2>1. active[Stream(c)].run \in RunNumbers
    BY <1>0, <1>3 DEF TakeActive, DataTyped
  <2>2. CallersTyped'
    <3>1. /\ pc' = [pc EXCEPT ![c] = "set_offline"]
          /\ work' = [work EXCEPT ![c].run = active[Stream(c)].run]
          /\ UNCHANGED <<told, next_run, crashes, disturbed>>
      BY <1>3 DEF TakeActive, Go, history
    <3>2. "set_offline" \in HasRun /\ "set_offline" \notin HasPort /\ "set_offline" \in TearingDown
      BY DEF HasRun, HasPort, Starting, TearingDown
    <3> QED BY <1>0, <2>1, <3>1, <3>2 DEF CallersTyped
  <2>3. DataTyped'
    BY <1>0, <1>3 DEF TakeActive, Without, DataTyped, Active, database, multicast, servers
  <2> QED BY <2>2, <2>3 DEF TInv
<1>4. ASSUME CheckLive(c) \/ SetOffline(c) \/ StopJob(c) \/ RemoveGroup(c)
             \/ HlsStop(c) \/ WebrtcStop(c) \/ DropTracking(c)
      PROVE  TInv'
  <2> USE DEF TInv, CallersTyped, DataTyped, HasRun, HasPort, Starting, TearingDown, Go, Without,
              Stream, Run, Active, history, database, manager, multicast, servers
  <2>1. CASE CheckLive(c)
    BY <2>1 DEF CheckLive
  <2>2. CASE SetOffline(c)
    BY <2>2 DEF SetOffline
  <2>3. CASE StopJob(c)
    BY <2>3 DEF StopJob
  <2>4. CASE RemoveGroup(c)
    BY <2>4 DEF RemoveGroup
  <2>5. CASE HlsStop(c)
    BY <2>5 DEF HlsStop
  <2>6. CASE WebrtcStop(c)
    BY <2>6 DEF WebrtcStop
  <2>7. CASE DropTracking(c)
    BY <2>7 DEF DropTracking
  <2> QED BY <1>4, <2>1, <2>2, <2>3, <2>4, <2>5, <2>6, <2>7
<1> QED BY <1>1, <1>2, <1>3, <1>4 DEF StopStep

(* The steps that no caller takes. *)
Beside ==
    \/ \E r \in Runs : JobLeaves(r)
    \/ \E s \in Streams : GroupExpires(s) \/ Stalls(s) \/ MonitorMark(s) \/ MonitorSkip(s)
    \/ \E p \in Ports : ReceiverEnds(p)
    \/ MonitorTick

LEMMA CallType ==
    ASSUME TInv, NEW c \in Callers, NEW s \in Streams, StartStream(c, s) \/ StopStream(c, s)
    PROVE  TInv'
<1>0. CallersTyped /\ DataTyped
  BY DEF TInv
<1>1. DataTyped'
  BY <1>0 DEF StartStream, StopStream, DataTyped, Active, database, manager, multicast, servers
<1>2. PICK first \in {"find", "check"} : Call(c, s, first)
  BY DEF StartStream, StopStream
<1>3. first \notin HasRun \cup HasPort
  BY DEF HasRun, HasPort, Starting, TearingDown
<1>4. CallersTyped'
  BY <1>0, <1>2, <1>3 DEF Call, CallersTyped, Starting, Results
<1> QED BY <1>1, <1>4 DEF TInv

LEMMA BesideType ==
    ASSUME TInv, Beside
    PROVE  TInv' /\ UNCHANGED <<pc, work, told, history>>
<1>0. CallersTyped /\ DataTyped
  BY DEF TInv
<1>1. UNCHANGED <<pc, work, told, history>>
  BY DEF Beside, JobLeaves, GroupExpires, Stalls, MonitorMark, MonitorSkip, ReceiverEnds, MonitorTick
<1>2. CallersTyped'
  BY <1>0, <1>1 DEF CallersTyped, history
<1> USE DEF DataTyped, Active, database, manager, multicast, servers
<1>3. ASSUME NEW r \in Runs, JobLeaves(r) PROVE DataTyped'
  BY <1>0, <1>3 DEF JobLeaves
<1>4. ASSUME NEW s \in Streams, GroupExpires(s) PROVE DataTyped'
  BY <1>0, <1>4 DEF GroupExpires, Without
<1>5. ASSUME NEW s \in Streams, Stalls(s) PROVE DataTyped'
  BY <1>0, <1>5 DEF Stalls
<1>6. ASSUME NEW s \in Streams, MonitorMark(s) \/ MonitorSkip(s) PROVE DataTyped'
  BY <1>0, <1>6 DEF MonitorMark, MonitorSkip
<1>7. ASSUME NEW p \in Ports, ReceiverEnds(p) PROVE DataTyped'
  BY <1>0, <1>7 DEF ReceiverEnds
<1>8. ASSUME MonitorTick PROVE DataTyped'
  BY <1>0, <1>8 DEF MonitorTick, Stalled
<1> HIDE DEF DataTyped, Active, database, manager, multicast, servers
<1>9. DataTyped'
  BY <1>3, <1>4, <1>5, <1>6, <1>7, <1>8 DEF Beside
<1> QED BY <1>1, <1>2, <1>9 DEF TInv

LEMMA CrashType ==
    ASSUME TInv, Crash
    PROVE  TInv' /\ (\A c \in Callers : pc'[c] = "idle" /\ work'[c].stream = work[c].stream)
<1>0. CallersTyped /\ DataTyped
  BY DEF TInv
<1>1. \A c \in Callers :
        /\ [work[c] EXCEPT !.run = NoRun, !.port = NoPort] \in
              [stream : Streams, run : RunNumbers \cup {NoRun}, port : Ports \cup {NoPort}]
        /\ [work[c] EXCEPT !.run = NoRun, !.port = NoPort].stream = work[c].stream
  BY <1>0 DEF CallersTyped
<1>2. work' \in [Callers -> [stream : Streams, run : RunNumbers \cup {NoRun},
                             port : Ports \cup {NoPort}]]
      /\ \A c \in Callers : work'[c].stream = work[c].stream
  BY <1>1 DEF Crash
<1>3. CallersTyped' /\ \A c \in Callers : pc'[c] = "idle"
  <2>1. /\ pc' = [c \in Callers |-> "idle"] /\ told' = [c \in Callers |-> "nothing"]
        /\ next_run' = next_run
    BY DEF Crash
  <2>2. crashes' \in 0..MaxCrashes
    <3>1. crashes \in 0..MaxCrashes /\ crashes < MaxCrashes /\ crashes' = crashes + 1
      BY <1>0 DEF Crash, CallersTyped
    <3>2. MaxCrashes \in Nat
      BY BoundsAssumption
    <3> QED BY <3>1, <3>2
  <2>3. disturbed' \subseteq Streams
    BY <1>0 DEF Crash, CallersTyped
  <2>4. "idle" \notin HasRun \cup HasPort /\ "nothing" \in Results
    BY DEF HasRun, HasPort, Starting, TearingDown, Results
  <2> QED BY <1>0, <1>2, <2>1, <2>2, <2>3, <2>4 DEF CallersTyped
<1>4. DataTyped'
  BY <1>0 DEF Crash, DataTyped, Active, EmptyTable, database
<1> QED BY <1>2, <1>3, <1>4 DEF TInv

LEMMA NextTInv == TInv /\ [Next]_vars => TInv'
<1> SUFFICES ASSUME TInv, [Next]_vars PROVE TInv'
  OBVIOUS
<1>1. CASE UNCHANGED vars
  BY <1>1 DEF vars, TInv, CallersTyped, DataTyped, Active, history, database, manager, multicast, servers
<1> QED BY <1>1, StartType, StopType, CallType, BesideType, CrashType DEF Next, Beside

(* Every variable keeps its type, so a group is only listed for a run that *)
(* was started and a lease is only of a configured port.                   *)
THEOREM TypeCorrect == Spec => []TypeOK
<1>1. TInv /\ [Next]_vars => TInv'
  BY NextTInv
<1> QED BY <1>1, InitTInv, TInvTypes, PTL DEF Spec
-----------------------------------------------------------------------------
(* A run that is neither torn down nor given up has one owner: the caller  *)
(* that has not put it in active_streams yet, or took it out, or           *)
(* active_streams itself.  Runs not started yet have none.                 *)
Owning == {"create_group", "set_live", "transcode", "insert_active"} \cup TearingDown

Owners ==
    /\ \A c \in Callers : pc[c] \in Owning => work[c].run < next_run[Stream(c)]
    /\ \A s \in Active : active[s].run < next_run[s]
    /\ \A c \in Callers : pc[c] \in Owning => Run(c) \notin RunsOf(active)
    /\ \A c, d \in Callers : pc[c] \in Owning /\ pc[d] \in Owning /\ c # d => Run(c) # Run(d)

LEMMA OwningHasRun == Owning \subseteq HasRun /\ TearingDown \subseteq Owning
  BY DEF Owning, HasRun, Starting, TearingDown

(* Most steps give no caller a run and put none in active_streams.         *)
LEMMA NoNewOwner ==
    ASSUME TInv, Owners, UNCHANGED next_run,
           \A c \in Callers : pc'[c] \in Owning =>
              pc[c] \in Owning /\ work'[c].run = work[c].run /\ work'[c].stream = work[c].stream,
           \A s \in Active' : s \in Active /\ active'[s].run = active[s].run
    PROVE  Owners'
<1>1. \A c \in Callers : pc'[c] \in Owning => Run(c)' = Run(c) /\ Stream(c)' = Stream(c)
  BY DEF Run, Stream
<1>2. RunsOf(active)' \subseteq RunsOf(active)
  BY DEF RunsOf, Active
<1>3. \A c \in Callers : pc'[c] \in Owning => work'[c].run < next_run'[Stream(c)']
  BY <1>1 DEF Owners
<1>4. \A s \in Active' : active'[s].run < next_run'[s]
  BY DEF Owners
<1>5. \A c \in Callers : pc'[c] \in Owning => Run(c)' \notin RunsOf(active)'
  BY <1>1, <1>2 DEF Owners
<1>6. \A c, d \in Callers :
        pc'[c] \in Owning /\ pc'[d] \in Owning /\ c # d => Run(c)' # Run(d)'
  BY <1>1 DEF Owners
<1> QED BY <1>3, <1>4, <1>5, <1>6 DEF Owners

(* A caller that returns owns nothing any more; others stay as they are.   *)
LEMMA ReturnDisowns ==
    ASSUME TInv, Owners, NEW c \in Callers, NEW from, NEW result \in Results,
           Return(c, from, result), UNCHANGED active
    PROVE  Owners'
<1>1. /\ pc'[c] = "idle" /\ UNCHANGED next_run
      /\ \A d \in Callers \ {c} : pc'[d] = pc[d] /\ work'[d] = work[d]
  BY ReturnIdles DEF TInv, Return, history
<1>2. "idle" \notin Owning
  BY DEF Owning, TearingDown
<1> QED BY <1>1, <1>2, NoNewOwner DEF Active

(* A caller that moves on with the run it has.                             *)
LEMMA GoKeepsOwners ==
    ASSUME TInv, Owners, NEW c \in Callers, NEW from, NEW to, Go(c, from, to),
           to \in Owning => from \in Owning,
           \A d \in Callers : work'[d].run = work[d].run /\ work'[d].stream = work[d].stream,
           UNCHANGED active
    PROVE  Owners'
<1>1. /\ pc[c] = from /\ pc'[c] = to /\ UNCHANGED next_run
      /\ \A d \in Callers \ {c} : pc'[d] = pc[d]
  BY DEF Go, TInv, CallersTyped, history
<1> QED BY <1>1, NoNewOwner DEF Active

LEMMA StartOwners ==
    ASSUME TInv, Owners, NEW c \in Callers, StartStep(c)
    PROVE  Owners'
<1> USE DEF manager
<1>1. CASE FindStream(c)
  <2> DEFINE s == Stream(c)
  <2>1. /\ pc[c] = "find" /\ pc'[c] = "create_group" /\ UNCHANGED active
        /\ next_run' = [next_run EXCEPT ![s] = @ + 1]
        /\ next_run \in [Streams -> 1..(MaxRuns + 1)] /\ s \in Streams
        /\ work'[c].run = next_run[s] /\ work'[c].stream = s
        /\ \A d \in Callers \ {c} : pc'[d] = pc[d] /\ work'[d] = work[d]
    BY <1>1 DEF FindStream, TInv, CallersTyped, Stream
  <2>2. /\ \A r \in Streams : next_run[r] \in Int /\ next_run'[r] \in Int /\ next_run'[r] >= next_run[r]
        /\ next_run'[s] = next_run[s] + 1
    BY <2>1
  <2>3. /\ \A d \in Callers : Stream(d) \in Streams
        /\ \A d \in Callers : pc[d] \in Owning => work[d].run \in Int
        /\ \A r \in Active : r \in Streams /\ active[r].run \in Int
    BY OwningHasRun DEF TInv, CallersTyped, DataTyped, Stream, RunNumbers
  <2>4. /\ Run(c)' = <<s, next_run[s]>> /\ Stream(c)' = s
        /\ \A d \in Callers \ {c} : Run(d)' = Run(d) /\ Stream(d)' = Stream(d)
    BY <2>1 DEF Run, Stream
  <2>5. \A d \in Callers : pc'[d] \in Owning => work'[d].run < next_run'[Stream(d)']
    BY <2>1, <2>2, <2>3, <2>4 DEF Owners
  <2>6. \A r \in Active' : active'[r].run < next_run'[r]
    BY <2>1, <2>2, <2>3 DEF Owners, Active
  <2>7. \A d \in Callers \ {c} : pc[d] \in Owning => Run(d) # Run(c)'
    BY <2>2, <2>3, <2>4 DEF Owners, Run, Stream
  <2>8. Run(c)' \notin RunsOf(active)
    BY <2>2, <2>3, <2>4 DEF Owners, RunsOf, Active
  <2>9. \A d \in Callers : pc'[d] \in Owning => Run(d)' \notin RunsOf(active)'
    BY <2>1, <2>4, <2>8 DEF Owners, RunsOf
  <2>10. \A d, e \in Callers :
           pc'[d] \in Owning /\ pc'[e] \in Owning /\ d # e => Run(d)' # Run(e)'
    BY <2>1, <2>4, <2>7 DEF Owners
  <2> QED BY <2>5, <2>6, <2>9, <2>10 DEF Owners
<1>2. CASE InsertActive(c)
  <2> DEFINE s == Stream(c)
  <2>1. /\ pc[c] = "insert_active" /\ pc'[c] = "insert_tracking" /\ UNCHANGED <<work, next_run>>
        /\ active' = Set(active, s, [run |-> work[c].run, stalled |-> FALSE])
        /\ \A d \in Callers \ {c} : pc'[d] = pc[d]
    BY <1>2 DEF InsertActive, Go, TInv, CallersTyped, history
  <2>2. /\ Active' = Active \cup {s} /\ active'[s].run = work[c].run
        /\ \A r \in Active \ {s} : active'[r] = active[r]
    BY <2>1 DEF Set, Active
  <2>3. pc[c] \in Owning /\ pc'[c] \notin Owning
    BY <2>1 DEF Owning, TearingDown
  <2>4. RunsOf(active)' \subseteq RunsOf(active) \cup {Run(c)}
    BY <2>2 DEF RunsOf, Run, Stream, Active
  <2>5. \A d \in Callers : Run(d)' = Run(d) /\ Stream(d)' = Stream(d) /\ work'[d] = work[d]
    BY <2>1 DEF Run, Stream
  <2>6. \A r \in Active' : active'[r].run < next_run'[r]
    BY <2>1, <2>2, <2>3 DEF Owners
  <2>7. \A d \in Callers : pc'[d] \in Owning => Run(d)' \notin RunsOf(active)'
    BY <2>1, <2>3, <2>4, <2>5 DEF Owners
  <2> QED BY <2>1, <2>3, <2>5, <2>6, <2>7 DEF Owners
<1>3. CASE CreateGroup(c)
  <2>1. /\ Go(c, "create_group", "set_live") /\ UNCHANGED active
        /\ \A d \in Callers : work'[d].run = work[d].run /\ work'[d].stream = work[d].stream
    BY <1>3 DEF CreateGroup, TInv, CallersTyped
  <2> QED BY <2>1, GoKeepsOwners DEF Owning
<1>4. CASE SetLive(c)
  BY <1>4, GoKeepsOwners DEF SetLive, Owning
<1>5. CASE StartTranscoding(c)
  BY <1>5, GoKeepsOwners DEF StartTranscoding, Owning
<1>6. CASE InsertTracking(c)
  BY <1>6, GoKeepsOwners DEF InsertTracking, Owning, TearingDown
<1>7. CASE InsertSession(c)
  BY <1>7, GoKeepsOwners DEF InsertSession, Owning, TearingDown
<1>8. CASE HlsInsert(c)
  BY <1>8, GoKeepsOwners DEF HlsInsert, Owning, TearingDown
<1>9. CASE HlsBind(c)
  BY <1>9, GoKeepsOwners DEF HlsBind, Owning, TearingDown
<1>10. CASE WebrtcInsert(c)
  BY <1>10, GoKeepsOwners DEF WebrtcInsert, Owning, TearingDown
<1>11. CASE WebrtcBind(c)
  BY <1>11, ReturnDisowns DEF WebrtcBind, Results
<1>12. CASE GroupCutShort(c)
  BY <1>12, ReturnDisowns DEF GroupCutShort, Results
<1>13. CASE RefuseLive(c)
  BY <1>13, ReturnDisowns DEF RefuseLive, Results
<1>14. CASE StartFails(c)
  BY <1>14, ReturnDisowns DEF StartFails, Results
<1>15. CASE AbandonStart(c)
  BY <1>15, ReturnDisowns DEF AbandonStart, Results
<1> QED BY <1>1, <1>2, <1>3, <1>4, <1>5, <1>6, <1>7, <1>8, <1>9, <1>10, <1>11, <1>12, <1>13,
           <1>14, <1>15 DEF StartStep

LEMMA StopOwners ==
    ASSUME TInv, Owners, NEW c \in Callers, StopStep(c)
    PROVE  Owners'
<1> USE DEF manager
<1>1. CASE TakeActive(c)
  <2> DEFINE s == Stream(c)
  <2>1. /\ pc'[c] = "set_offline" /\ s \in Active /\ UNCHANGED next_run
        /\ active' = Without(active, {s})
        /\ work'[c].run = active[s].run /\ work'[c].stream = s
        /\ \A d \in Callers \ {c} : pc'[d] = pc[d] /\ work'[d] = work[d]
    BY <1>1 DEF TakeActive, Go, TInv, CallersTyped, history, Stream
  <2>2. Active' = Active \ {s} /\ \A r \in Active' : active'[r] = active[r]
    BY <2>1 DEF Without, Active
  <2>3. /\ Run(c)' = <<s, active[s].run>> /\ Stream(c)' = s
        /\ \A d \in Callers \ {c} : Run(d)' = Run(d) /\ Stream(d)' = Stream(d)
    BY <2>1 DEF Run, Stream
  <2>4. /\ Run(c)' \in RunsOf(active) /\ Run(c)' \notin RunsOf(active)'
        /\ RunsOf(active)' \subseteq RunsOf(active)
    BY <2>1, <2>2, <2>3 DEF RunsOf, Active
  <2>5. \A d \in Callers : pc'[d] \in Owning => work'[d].run < next_run'[Stream(d)']
    BY <2>1, <2>3 DEF Owners
  <2>6. \A r \in Active' : active'[r].run < next_run'[r]
    BY <2>1, <2>2 DEF Owners
  <2>7. \A d \in Callers : pc'[d] \in Owning => Run(d)' \notin RunsOf(active)'
    BY <2>1, <2>3, <2>4 DEF Owners
  <2>8. \A d, e \in Callers :
          pc'[d] \in Owning /\ pc'[e] \in Owning /\ d # e => Run(d)' # Run(e)'
    BY <2>1, <2>3, <2>4 DEF Owners
  <2> QED BY <2>5, <2>6, <2>7, <2>8 DEF Owners
<1>2. CASE CheckLive(c)
  BY <1>2, GoKeepsOwners DEF CheckLive, Owning, TearingDown
<1>3. CASE SetOffline(c)
  BY <1>3, GoKeepsOwners DEF SetOffline, Owning, TearingDown
<1>4. CASE StopJob(c)
  BY <1>4, GoKeepsOwners DEF StopJob, Owning, TearingDown
<1>5. CASE RemoveGroup(c)
  BY <1>5, GoKeepsOwners DEF RemoveGroup, Owning, TearingDown
<1>6. CASE HlsStop(c)
  BY <1>6, GoKeepsOwners DEF HlsStop, Owning, TearingDown
<1>7. CASE WebrtcStop(c)
  BY <1>7, GoKeepsOwners DEF WebrtcStop, Owning, TearingDown
<1>8. CASE DropTracking(c)
  BY <1>8, GoKeepsOwners DEF DropTracking, Owning, TearingDown
<1>9. CASE RefuseOffline(c)
  BY <1>9, ReturnDisowns DEF RefuseOffline, Results
<1>10. CASE NothingToStop(c)
  BY <1>10, ReturnDisowns DEF NothingToStop, Results
<1>11. CASE FinalizeSession(c)
  BY <1>11, ReturnDisowns DEF FinalizeSession, Results
<1>12. CASE StopFails(c)
  BY <1>12, ReturnDisowns DEF StopFails, Results
<1> QED BY <1>1, <1>2, <1>3, <1>4, <1>5, <1>6, <1>7, <1>8, <1>9, <1>10, <1>11, <1>12 DEF StopStep

LEMMA CallOwners ==
    ASSUME TInv, Owners, NEW c \in Callers, NEW s \in Streams, StartStream(c, s) \/ StopStream(c, s)
    PROVE  Owners'
<1>1. PICK first \in {"find", "check"} : Call(c, s, first)
  BY DEF StartStream, StopStream
<1>2. /\ pc'[c] = first /\ first \notin Owning /\ UNCHANGED <<next_run, active>>
      /\ \A d \in Callers \ {c} : pc'[d] = pc[d] /\ work'[d] = work[d]
  BY <1>1 DEF Call, TInv, CallersTyped, Owning, TearingDown, StartStream, StopStream, manager
<1> QED BY <1>2, NoNewOwner DEF Active

LEMMA BesideOwners ==
    ASSUME TInv, Owners, Beside
    PROVE  Owners'
<1>1. UNCHANGED <<pc, work, next_run>>
  BY BesideType DEF history
<1>2. \A s \in Active' : s \in Active /\ active'[s].run = active[s].run
  <2>1. CASE \E s \in Streams : Stalls(s)
    BY <2>1 DEF Stalls, Active, TInv, DataTyped
  <2>2. CASE UNCHANGED active
    BY <2>2 DEF Active
  <2> QED BY <2>1, <2>2 DEF Beside, JobLeaves, GroupExpires, MonitorMark, MonitorSkip, ReceiverEnds,
                            MonitorTick, manager
<1> QED BY <1>1, <1>2, NoNewOwner

LEMMA NextOwners == TInv /\ Owners /\ [Next]_vars => Owners'
<1> SUFFICES ASSUME TInv, Owners, [Next]_vars PROVE Owners'
  OBVIOUS
<1>1. CASE Crash
  <2>1. (\A c \in Callers : pc'[c] = "idle") /\ Active' = {}
    BY <1>1, CrashType DEF Crash, EmptyTable, Active
  <2>2. RunsOf(active)' = {} /\ "idle" \notin Owning
    BY <2>1 DEF RunsOf, Active, Owning, TearingDown
  <2> QED BY <2>1, <2>2 DEF Owners
<1>2. CASE UNCHANGED vars
  BY <1>2, NoNewOwner DEF vars, manager, history, Active
<1> QED BY <1>1, <1>2, StartOwners, StopOwners, CallOwners, BesideOwners DEF Next, Beside

LEMMA InitOwners == Init => Owners
  BY DEF Init, Owners, Owning, TearingDown, RunsOf, Active, EmptyTable

(* However the starts and stops of a stream overlap, a run is torn down by *)
(* the one caller that took it out of active_streams.                      *)
THEOREM TornDownOnce == Spec => []OneTeardown
<1>1. TInv /\ Owners /\ [Next]_vars => (TInv /\ Owners)'
  BY NextTInv, NextOwners
<1>2. TInv /\ Owners => OneTeardown
  BY OwningHasRun DEF Owners, OneTeardown, Stoppers
<1> QED BY <1>1, <1>2, InitTInv, InitOwners, PTL DEF Spec
-----------------------------------------------------------------------------
(* The life of every run: StreamManager implements RunLife.  Owners is what *)
(* makes the phase of a run unambiguous, and every step of a caller a step  *)
(* of one run.                                                             *)

(* The awaits of a caller with a run in hand, by the phase of the run.     *)
LEMMA AwaitsOwn ==
    /\ {"create_group"} \subseteq Owning /\ {"set_live"} \subseteq Owning
    /\ {"transcode"} \subseteq Owning /\ {"insert_active"} \subseteq Owning
    /\ TearingDown \subseteq Owning
  BY DEF Owning

(* What the owners of the runs say about the phase of each.                *)
InHandPhases ==
    \A c \in Callers : pc[c] \in Owning =>
        /\ Run(c) \in Runs
        /\ pc[c] = "create_group" => Phase(Run(c)) = "begun"
        /\ pc[c] = "set_live" => Phase(Run(c)) = "leased"
        /\ pc[c] = "transcode" => Phase(Run(c)) = "shown"
        /\ pc[c] = "insert_active" => Phase(Run(c)) = "encoding"
        /\ pc[c] \in TearingDown => Phase(Run(c)) = "stopping"

UnownedPhases ==
    \A r \in Runs :
        /\ Phase(r) = "unborn" <=> r[2] >= next_run[r[1]]
        /\ Phase(r) = "serving" <=> r \in RunsOf(active)
        /\ Phase(r) = "over" <=>
              /\ ~(r[2] >= next_run[r[1]])
              /\ r \notin RunsOf(active)
              /\ \A c \in Callers : pc[c] \in Owning => Run(c) # r

LEMMA PhaseInHand ==
    TInv /\ Owners => InHandPhases
<1> SUFFICES ASSUME TInv, Owners, NEW c \in Callers, pc[c] \in Owning
             PROVE  /\ Run(c) \in Runs
                    /\ pc[c] = "create_group" => Phase(Run(c)) = "begun"
                    /\ pc[c] = "set_live" => Phase(Run(c)) = "leased"
                    /\ pc[c] = "transcode" => Phase(Run(c)) = "shown"
                    /\ pc[c] = "insert_active" => Phase(Run(c)) = "encoding"
                    /\ pc[c] \in TearingDown => Phase(Run(c)) = "stopping"
  BY DEF InHandPhases
<1> DEFINE r == Run(c)
<1>1. /\ r \in Runs /\ r[1] = Stream(c) /\ r[2] = work[c].run
      /\ r[2] \in Int /\ next_run[r[1]] \in Int
  BY OwningHasRun DEF TInv, CallersTyped, Run, Stream, Runs, RunNumbers
<1>2. ~(r[2] >= next_run[r[1]]) /\ r \notin RunsOf(active)
  BY <1>1 DEF Owners
<1>3. ASSUME NEW awaits, awaits \subseteq Owning
      PROVE  At(r, awaits) <=> pc[c] \in awaits
  BY <1>3 DEF Owners, At
<1>5. /\ At(r, {"create_group"}) <=> pc[c] = "create_group"
      /\ At(r, {"set_live"}) <=> pc[c] = "set_live"
      /\ At(r, {"transcode"}) <=> pc[c] = "transcode"
      /\ At(r, {"insert_active"}) <=> pc[c] = "insert_active"
      /\ At(r, TearingDown) <=> pc[c] \in TearingDown
  BY <1>3, AwaitsOwn
<1> HIDE DEF r
<1>6. /\ pc[c] = "create_group" => Phase(r) = "begun"
      /\ pc[c] = "set_live" => Phase(r) = "leased"
      /\ pc[c] = "transcode" => Phase(r) = "shown"
      /\ pc[c] = "insert_active" => Phase(r) = "encoding"
      /\ pc[c] \in TearingDown => Phase(r) = "stopping"
  BY <1>2, <1>5 DEF Phase, TearingDown
<1> QED BY <1>1, <1>6 DEF r

LEMMA PhaseUnowned ==
    TInv /\ Owners => UnownedPhases
<1> SUFFICES ASSUME TInv, Owners, NEW r \in Runs
             PROVE  /\ Phase(r) = "unborn" <=> r[2] >= next_run[r[1]]
                    /\ Phase(r) = "serving" <=> r \in RunsOf(active)
                    /\ Phase(r) = "over" <=>
                          /\ ~(r[2] >= next_run[r[1]])
                          /\ r \notin RunsOf(active)
                          /\ \A c \in Callers : pc[c] \in Owning => Run(c) # r
  BY DEF UnownedPhases
<1>1. CASE \E c \in Callers : pc[c] \in Owning /\ Run(c) = r
  <2>1. PICK c \in Callers : pc[c] \in Owning /\ Run(c) = r
    BY <1>1
  <2>2. r \notin RunsOf(active) /\ ~(r[2] >= next_run[r[1]])
    <3>1. /\ r[1] = Stream(c) /\ r[2] = work[c].run
          /\ r[2] \in Int /\ next_run[r[1]] \in Int
      BY <2>1, OwningHasRun DEF TInv, CallersTyped, Run, Stream, Runs, RunNumbers
    <3> QED BY <2>1, <3>1 DEF Owners
  <2>3. Phase(r) \in {"begun", "leased", "shown", "encoding", "stopping"}
    BY <2>1, PhaseInHand DEF InHandPhases, Owning
  <2> QED BY <2>1, <2>2, <2>3
<1>2. CASE \A c \in Callers : pc[c] \in Owning => Run(c) # r
  <2>1. \A awaits : awaits \subseteq Owning => ~At(r, awaits)
    BY <1>2 DEF At
  <2>2. /\ ~At(r, {"create_group"}) /\ ~At(r, {"set_live"}) /\ ~At(r, {"transcode"})
        /\ ~At(r, {"insert_active"}) /\ ~At(r, TearingDown)
    BY <2>1, AwaitsOwn
  <2>3. r \in RunsOf(active) => ~(r[2] >= next_run[r[1]])
    BY DEF Owners, RunsOf, TInv, DataTyped, CallersTyped, Active, RunNumbers
  <2>4. CASE r[2] >= next_run[r[1]]
    <3>1. Phase(r) = "unborn"
      BY <2>2, <2>3, <2>4 DEF Phase
    <3> QED BY <2>3, <2>4, <3>1
  <2>5. CASE r \in RunsOf(active)
    <3>1. Phase(r) = "serving"
      BY <2>2, <2>3, <2>5 DEF Phase
    <3> QED BY <2>3, <2>5, <3>1
  <2>6. CASE ~(r[2] >= next_run[r[1]]) /\ r \notin RunsOf(active)
    <3>1. Phase(r) = "over"
      BY <2>2, <2>6 DEF Phase
    <3> QED BY <1>2, <2>6, <3>1
  <2> QED BY <2>4, <2>5, <2>6
<1> QED BY <1>1, <1>2

LEMMA PhasesAfter == TInv' /\ Owners' => InHandPhases' /\ UnownedPhases'
  BY PhaseInHand, PhaseUnowned, PTL

(* A run whose owner, if any, stays where the phases do not tell apart, and *)
(* that is neither begun nor served anew nor lost, stays in its phase.      *)
StaysWith(c, r) ==
    \/ (pc[c] \in Owning => Run(c) # r) /\ (pc'[c] \in Owning => Run(c)' # r)
    \/ Run(c)' = Run(c) /\ pc'[c] = pc[c]
    \/ Run(c)' = Run(c) /\ pc[c] \in TearingDown /\ pc'[c] \in TearingDown

LEMMA SamePhase ==
    ASSUME TInv, Owners, TInv', Owners', NEW r \in Runs,
           (r[2] >= next_run'[r[1]]) <=> (r[2] >= next_run[r[1]]),
           r \in RunsOf(active)' <=> r \in RunsOf(active),
           \A c \in Callers : StaysWith(c, r)
    PROVE  Phase(r)' = Phase(r)
<1>0. InHandPhases /\ UnownedPhases /\ InHandPhases' /\ UnownedPhases'
  BY PhaseInHand, PhaseUnowned, PhasesAfter
<1>1. CASE \E c \in Callers : pc[c] \in Owning /\ Run(c) = r
  <2>1. PICK c \in Callers : pc[c] \in Owning /\ Run(c) = r
    BY <1>1
  <2>2. /\ pc'[c] \in Owning /\ Run(c)' = r
        /\ (pc'[c] = pc[c] \/ (pc[c] \in TearingDown /\ pc'[c] \in TearingDown))
    BY <2>1, AwaitsOwn DEF StaysWith
  <2> QED BY <1>0, <2>1, <2>2 DEF InHandPhases, Owning
<1>2. CASE \A c \in Callers : pc[c] \in Owning => Run(c) # r
  <2>1. \A c \in Callers : pc'[c] \in Owning => Run(c)' # r
    BY <1>2, AwaitsOwn DEF StaysWith
  <2>2. Phase(r) = "unborn" <=> Phase(r)' = "unborn"
    BY <1>0 DEF UnownedPhases
  <2>3. Phase(r) = "serving" <=> Phase(r)' = "serving"
    BY <1>0 DEF UnownedPhases
  <2>4. Phase(r) = "over" <=> Phase(r)' = "over"
    BY <1>0, <1>2, <2>1 DEF UnownedPhases
  <2>5. Phase(r) \in {"unborn", "serving", "over"}
    BY <1>0, <1>2 DEF UnownedPhases
  <2> QED BY <2>2, <2>3, <2>4, <2>5
<1> QED BY <1>1, <1>2


(* Most steps leave every run in its phase. *)
LEMMA SamePhases ==
    ASSUME TInv, Owners, TInv', Owners', UNCHANGED next_run, RunsOf(active)' = RunsOf(active),
           \A c \in Callers, r \in Runs : StaysWith(c, r)
    PROVE  UNCHANGED phases
<1>1. \A r \in Runs : Phase(r)' = Phase(r)
  BY SamePhase
<1> QED BY <1>1 DEF phases

(* A step of one run. *)
LEMMA OnePhase ==
    ASSUME NEW r \in Runs, NEW p, Phase(r)' = p, \A q \in Runs \ {r} : Phase(q)' = Phase(q)
    PROVE  phases' = [phases EXCEPT ![r] = p]
<1>1. phases' = [q \in Runs |-> Phase(q)']
  BY DEF phases
<1>2. \A q \in Runs : phases'[q] = IF q = r THEN p ELSE phases[q]
  BY <1>1 DEF phases
<1> QED BY <1>1, <1>2 DEF phases

LEMMA StutterStep ==
    ASSUME UNCHANGED <<phases, leases, jobs, db>>
    PROVE  [Life!LifeNext]_(Life!lifeVars)
BY DEF Life!lifeVars

LEMMA BeginStep ==
    ASSUME NEW r \in Runs, Phase(r) = "unborn", Phase(r)' = "begun",
           \A q \in Runs \ {r} : Phase(q)' = Phase(q), UNCHANGED <<leases, jobs, db>>,
           \A q \in Runs : q[1] = r[1] /\ Phase(q) = "unborn" => r[2] <= q[2]
    PROVE  [Life!LifeNext]_(Life!lifeVars)
<1>1. phases' = [phases EXCEPT ![r] = "begun"]
  BY OnePhase
<1>2. phases[r] = "unborn" /\ \A q \in Runs : phases[q] = Phase(q)
  BY DEF phases
<1>3. Life!Begin(r)
  BY <1>1, <1>2 DEF Life!Begin, Life!Becomes, Life!Runs, Runs
<1> QED BY <1>3 DEF Life!LifeNext, Life!Runs, Runs

LEMMA LeaseStep ==
    ASSUME NEW r \in Runs, NEW p \in Ports, Phase(r) = "begun", Phase(r)' \in {"leased", "over"},
           \A q \in Runs \ {r} : Phase(q)' = Phase(q), UNCHANGED <<jobs, db>>,
           \A q \in DOMAIN leases : leases[q] # p, leases' = Set(leases, r, p)
    PROVE  [Life!LifeNext]_(Life!lifeVars)
<1>1. phases' = [phases EXCEPT ![r] = "leased"] \/ phases' = [phases EXCEPT ![r] = "over"]
  BY OnePhase
<1>2. phases[r] = "begun"
  BY DEF phases
<1>3. Life!Lease(r, p)
  BY <1>1, <1>2 DEF Life!Lease, Life!Becomes, Set
<1> QED BY <1>3 DEF Life!LifeNext, Life!Runs, Runs

LEMMA ShowStep ==
    ASSUME NEW r \in Runs, Phase(r) = "leased", Phase(r)' = "shown",
           \A q \in Runs \ {r} : Phase(q)' = Phase(q), UNCHANGED <<leases, jobs>>,
           db' = [db EXCEPT ![r[1]] = [is_live |-> TRUE, run |-> r[2]]]
    PROVE  [Life!LifeNext]_(Life!lifeVars)
<1>1. phases' = [phases EXCEPT ![r] = "shown"] /\ phases[r] = "leased"
  BY OnePhase DEF phases
<1>2. Life!Show(r)
  BY <1>1 DEF Life!Show, Life!Becomes
<1> QED BY <1>2 DEF Life!LifeNext, Life!Runs, Runs

LEMMA EncodeStep ==
    ASSUME NEW r \in Runs, Phase(r) = "shown", Phase(r)' = "encoding",
           \A q \in Runs \ {r} : Phase(q)' = Phase(q), UNCHANGED <<leases, db>>,
           jobs' = jobs \cup {r}
    PROVE  [Life!LifeNext]_(Life!lifeVars)
<1>1. phases' = [phases EXCEPT ![r] = "encoding"] /\ phases[r] = "shown"
  BY OnePhase DEF phases
<1>2. Life!Encode(r)
  BY <1>1 DEF Life!Encode, Life!Becomes
<1> QED BY <1>2 DEF Life!LifeNext, Life!Runs, Runs

LEMMA ServeStep ==
    ASSUME NEW r \in Runs, Phase(r) = "encoding", Phase(r)' = "serving",
           \A q \in Runs \ {r} :
              Phase(q)' = IF q[1] = r[1] /\ Phase(q) = "serving" THEN "over" ELSE Phase(q),
           UNCHANGED <<leases, jobs, db>>
    PROVE  [Life!LifeNext]_(Life!lifeVars)
<1>1. phases' = [q \in Runs |-> Phase(q)'] /\ \A q \in Runs : phases[q] = Phase(q)
  BY DEF phases
<1>2. phases' = [q \in Runs |->
                   IF q = r THEN "serving"
                   ELSE IF q[1] = r[1] /\ phases[q] = "serving" THEN "over" ELSE phases[q]]
  BY <1>1
<1>3. Life!Serve(r)
  BY <1>1, <1>2 DEF Life!Serve, Life!Runs, Runs
<1> QED BY <1>3 DEF Life!LifeNext, Life!Runs, Runs

LEMMA TakeDownStep ==
    ASSUME NEW r \in Runs, Phase(r) = "serving", Phase(r)' = "stopping",
           \A q \in Runs \ {r} : Phase(q)' = Phase(q), UNCHANGED <<leases, jobs, db>>
    PROVE  [Life!LifeNext]_(Life!lifeVars)
<1>1. phases' = [phases EXCEPT ![r] = "stopping"] /\ phases[r] = "serving"
  BY OnePhase DEF phases
<1>2. Life!TakeDown(r)
  BY <1>1 DEF Life!TakeDown, Life!Becomes
<1> QED BY <1>2 DEF Life!LifeNext, Life!Runs, Runs

LEMMA FreeStep ==
    ASSUME NEW r \in Runs, NEW q \in Runs, Phase(r) = "stopping", q[1] = r[1],
           leases' = Without(leases, {q}), UNCHANGED <<phases, jobs, db>>
    PROVE  [Life!LifeNext]_(Life!lifeVars)
<1>1. phases[r] = "stopping"
  BY DEF phases
<1>2. Life!Free(r, q)
  BY <1>1 DEF Life!Free, Without
<1> QED BY <1>2 DEF Life!LifeNext, Life!Runs, Runs

LEMMA HideStep ==
    ASSUME NEW s \in Streams, db' = [db EXCEPT ![s].is_live = FALSE],
           UNCHANGED <<phases, leases, jobs>>
    PROVE  [Life!LifeNext]_(Life!lifeVars)
<1>1. Life!Hide(s)
  BY DEF Life!Hide
<1> QED BY <1>1 DEF Life!LifeNext

LEMMA EndStep ==
    ASSUME NEW r \in Runs, Phase(r) \in Life!InHand, Phase(r)' = "over",
           \A q \in Runs \ {r} : Phase(q)' = Phase(q), UNCHANGED <<leases, jobs, db>>
    PROVE  [Life!LifeNext]_(Life!lifeVars)
<1>1. phases' = [phases EXCEPT ![r] = "over"] /\ phases[r] = Phase(r)
  BY OnePhase DEF phases
<1>2. Life!End(r)
  BY <1>1 DEF Life!End
<1> QED BY <1>2 DEF Life!LifeNext, Life!Runs, Runs

LEMMA LoseJobStep ==
    ASSUME NEW r \in Runs, jobs' = jobs \ {r}, UNCHANGED <<phases, leases, db>>
    PROVE  [Life!LifeNext]_(Life!lifeVars)
<1>1. Life!LoseJob(r)
  BY DEF Life!LoseJob
<1> QED BY <1>1 DEF Life!LifeNext, Life!Runs, Runs

LEMMA RestartStep ==
    ASSUME \A r \in Runs : Phase(r)' = IF Phase(r) = "unborn" THEN "unborn" ELSE "over",
           leases' = EmptyTable, jobs' = {}, UNCHANGED db
    PROVE  [Life!LifeNext]_(Life!lifeVars)
<1>1. phases' = [r \in Runs |-> Phase(r)'] /\ \A r \in Runs : phases[r] = Phase(r)
  BY DEF phases
<1>2. phases' = [r \in Runs |-> IF phases[r] = "unborn" THEN "unborn" ELSE "over"]
  BY <1>1
<1>3. leases' = [r \in {} |-> 0]
  BY DEF EmptyTable
<1>4. Life!Restart
  BY <1>2, <1>3 DEF Life!Restart, Life!Runs, Runs
<1> QED BY <1>4 DEF Life!LifeNext

(* Runs other than the moving caller's keep their phase.                   *)
LEMMA OtherRuns ==
    ASSUME TInv, Owners, TInv', Owners', NEW c \in Callers,
           \A d \in Callers \ {c} : pc'[d] = pc[d] /\ work'[d] = work[d],
           pc'[c] \in Owning => Run(c)' = Run(c),
           NEW q \in Runs, q # Run(c),
           (q[2] >= next_run'[q[1]]) <=> (q[2] >= next_run[q[1]]),
           q \in RunsOf(active)' <=> q \in RunsOf(active)
    PROVE  Phase(q)' = Phase(q)
<1>1. \A d \in Callers : StaysWith(d, q)
  BY DEF StaysWith, Run
<1> QED BY <1>1, SamePhase

LEMMA GoStutters ==
    ASSUME TInv, Owners, TInv', Owners', NEW c \in Callers, NEW from, NEW to, Go(c, from, to),
           UNCHANGED <<work, active>>,
           \/ from \notin Owning /\ to \notin Owning
           \/ from \in TearingDown /\ to \in TearingDown
    PROVE  UNCHANGED phases
<1>1. /\ pc[c] = from /\ pc'[c] = to /\ UNCHANGED next_run
      /\ \A d \in Callers \ {c} : pc'[d] = pc[d]
  BY DEF Go, TInv, CallersTyped, history
<1>2. \A d \in Callers : Run(d)' = Run(d)
  BY DEF Run
<1>3. \A d \in Callers, r \in Runs : StaysWith(d, r)
  BY <1>1, <1>2 DEF StaysWith
<1>4. RunsOf(active)' = RunsOf(active)
  BY DEF RunsOf
<1> QED BY <1>1, <1>3, <1>4, SamePhases

(* A caller that returns ends the run it has in hand, if it has one.       *)
LEMMA ReturnEnds ==
    ASSUME TInv, Owners, TInv', Owners', NEW c \in Callers, NEW from, NEW result \in Results,
           Return(c, from, result), UNCHANGED active
    PROVE  /\ pc[c] \notin Owning => UNCHANGED phases
           /\ pc[c] \in Owning =>
                \E r \in Runs : /\ r = Run(c)
                               /\ Phase(r) \in Life!InHand /\ Phase(r)' = "over"
                               /\ \A q \in Runs \ {r} : Phase(q)' = Phase(q)
<1>1. /\ pc'[c] = "idle" /\ UNCHANGED next_run
      /\ \A d \in Callers \ {c} : pc'[d] = pc[d] /\ work'[d] = work[d]
  BY ReturnIdles DEF TInv, Return, history
<1>2. pc'[c] \notin Owning
  BY <1>1 DEF Owning, TearingDown
<1>3. RunsOf(active)' = RunsOf(active)
  BY DEF RunsOf
<1>4. CASE pc[c] \notin Owning
  <2>1. \A d \in Callers, r \in Runs : StaysWith(d, r)
    BY <1>1, <1>2, <1>4 DEF StaysWith, Run
  <2> QED BY <1>1, <1>3, <1>4, <2>1, SamePhases
<1>5. CASE pc[c] \in Owning
  <2>1. Run(c) \in Runs /\ Phase(Run(c)) \in Life!InHand
    BY <1>5, PhaseInHand DEF InHandPhases, Owning, Life!InHand
  <2>2. \A q \in Runs \ {Run(c)} : Phase(q)' = Phase(q)
    BY <1>1, <1>2, <1>3, OtherRuns
  <2>3. PICK r \in Runs : r = Run(c)
    BY <2>1
  <2>4. /\ ~(r[2] >= next_run'[r[1]]) /\ r \notin RunsOf(active)'
        /\ \A d \in Callers : pc'[d] \in Owning => Run(d)' # r
    <3>1. \A d \in Callers : pc'[d] \in Owning => d # c /\ Run(d)' = Run(d) /\ pc[d] \in Owning
      BY <1>1, <1>2 DEF Run
    <3>2. /\ r[1] = Stream(c) /\ r[2] = work[c].run
          /\ work[c].run \in Int /\ next_run[Stream(c)] \in Int
      BY <1>5, <2>3, OwningHasRun DEF TInv, CallersTyped, Run, Stream, RunNumbers
    <3> QED BY <1>1, <1>3, <1>5, <2>3, <3>1, <3>2 DEF Owners
  <2>5. Phase(r)' = "over"
    BY <2>4, PhasesAfter DEF UnownedPhases
  <2> QED BY <1>5, <2>1, <2>2, <2>3, <2>5
<1> QED BY <1>4, <1>5

(* A return that touches nothing ends a run or is no step of any.          *)
LEMMA ReturnStep ==
    ASSUME TInv, Owners, TInv', Owners', NEW c \in Callers, NEW from, NEW result \in Results,
           Return(c, from, result), UNCHANGED <<active, leases, jobs, db>>
    PROVE  [Life!LifeNext]_(Life!lifeVars)
<1>1. CASE pc[c] \notin Owning
  BY <1>1, ReturnEnds, StutterStep
<1>2. CASE pc[c] \in Owning
  <2>1. PICK r \in Runs : /\ Phase(r) \in Life!InHand /\ Phase(r)' = "over"
                          /\ \A q \in Runs \ {r} : Phase(q)' = Phase(q)
    BY <1>2, ReturnEnds
  <2> QED BY <2>1, EndStep
<1> QED BY <1>1, <1>2

(* A caller that moves on with its run in hand. *)
LEMMA GoMovesRun ==
    ASSUME TInv, Owners, TInv', Owners', NEW c \in Callers, NEW from, NEW to, Go(c, from, to),
           \A d \in Callers : work'[d].run = work[d].run /\ work'[d].stream = work[d].stream,
           \A d \in Callers \ {c} : work'[d] = work[d],
           UNCHANGED active, from \in Owning, to \in Owning
    PROVE  \E r \in Runs : /\ r = Run(c) /\ r = Run(c)'
                           /\ \A q \in Runs \ {r} : Phase(q)' = Phase(q)
<1>1. /\ pc[c] = from /\ pc'[c] = to /\ UNCHANGED next_run
      /\ \A d \in Callers \ {c} : pc'[d] = pc[d]
  BY DEF Go, TInv, CallersTyped, history
<1>2. Run(c) \in Runs /\ Run(c)' = Run(c)
  BY <1>1, PhaseInHand DEF InHandPhases, Run
<1>3. RunsOf(active)' = RunsOf(active)
  BY DEF RunsOf
<1>4. \A q \in Runs : q # Run(c) => Phase(q)' = Phase(q)
  BY <1>1, <1>2, <1>3, OtherRuns
<1> QED BY <1>2, <1>4

LEMMA StartLife ==
    ASSUME TInv, Owners, TInv', Owners', NEW c \in Callers, StartStep(c)
    PROVE  [Life!LifeNext]_(Life!lifeVars)
<1> USE DEF manager, multicast, database
<1>n. InHandPhases /\ UnownedPhases /\ InHandPhases' /\ UnownedPhases'
  BY PhaseInHand, PhaseUnowned, PhasesAfter
<1>1. CASE FindStream(c)
  <2> DEFINE s == Stream(c)
  <2>1. /\ pc[c] = "find" /\ pc'[c] = "create_group"
        /\ s \in Streams /\ next_run[s] \in RunNumbers
        /\ next_run' = [next_run EXCEPT ![s] = @ + 1]
        /\ Run(c)' = <<s, next_run[s]>>
        /\ \A d \in Callers \ {c} : pc'[d] = pc[d] /\ work'[d] = work[d]
        /\ UNCHANGED <<active, leases, jobs, db>>
    BY <1>1 DEF FindStream, TInv, CallersTyped, Stream, Run
  <2>2. PICK r \in Runs : r = <<s, next_run[s]>>
    BY <2>1 DEF Runs
  <2>3. r[1] = s /\ r[2] = next_run[s] /\ \A q \in Runs : q[2] \in Int
    BY <2>2 DEF Runs, RunNumbers
  <2>4. \A t \in Streams : next_run[t] \in Int /\ next_run'[t] = IF t = s THEN next_run[t] + 1 ELSE next_run[t]
    BY <2>1 DEF TInv, CallersTyped
  <2>5. Phase(r) = "unborn"
    BY <1>n, <2>3, <2>4, <2>1 DEF UnownedPhases
  <2>6. Phase(r)' = "begun"
    BY <1>n, <2>1, <2>2 DEF InHandPhases, Owning
  <2>7. pc[c] \notin Owning
    BY <2>1 DEF Owning, TearingDown
  <2>8. ASSUME NEW q \in Runs \ {r} PROVE Phase(q)' = Phase(q)
    <3>1. (q[2] >= next_run'[q[1]]) <=> (q[2] >= next_run[q[1]])
      <4>1. q = <<q[1], q[2]>> /\ q[1] \in Streams /\ q[2] \in Int
        BY DEF Runs, RunNumbers
      <4>2. q[1] = s => q[2] # next_run[s]
        BY <2>2, <4>1
      <4> QED BY <2>4, <4>1, <4>2
    <3>2. \A d \in Callers : StaysWith(d, q)
      BY <2>1, <2>2, <2>7 DEF StaysWith, Run
    <3>3. RunsOf(active)' = RunsOf(active)
      BY <2>1 DEF RunsOf
    <3> QED BY <3>1, <3>2, <3>3, SamePhase
  <2>9. \A q \in Runs : q[1] = r[1] /\ Phase(q) = "unborn" => r[2] <= q[2]
    BY <1>n, <2>1, <2>3, <2>4 DEF UnownedPhases
  <2> QED BY <2>1, <2>5, <2>6, <2>8, <2>9, BeginStep
<1>2. CASE CreateGroup(c)
  <2>1. /\ Go(c, "create_group", "set_live") /\ UNCHANGED <<active, jobs, db>>
        /\ \A d \in Callers : work'[d].run = work[d].run /\ work'[d].stream = work[d].stream
        /\ \A d \in Callers \ {c} : work'[d] = work[d]
    BY <1>2 DEF CreateGroup, TInv, CallersTyped
  <2>2. PICK r \in Runs : /\ r = Run(c) /\ r = Run(c)'
                          /\ \A q \in Runs \ {r} : Phase(q)' = Phase(q)
    BY <2>1, GoMovesRun DEF Owning
  <2>3. Phase(r) = "begun" /\ Phase(r)' = "leased"
    BY <1>n, <2>1, <2>2 DEF InHandPhases, Go, Owning, TInv, CallersTyped
  <2>4. PICK p \in FirstFree : leases' = Set(leases, r, p)
    BY <1>2, <2>2 DEF CreateGroup
  <2>5. p \in Ports /\ \A q \in DOMAIN leases : leases[q] # p
    BY <2>4 DEF FirstFree, FreePorts
  <2> QED BY <2>1, <2>2, <2>3, <2>4, <2>5, LeaseStep
<1>3. CASE GroupCutShort(c)
  <2>1. PICK result \in Results : Return(c, {"create_group"}, result)
    BY <1>3 DEF GroupCutShort, Results
  <2>2. pc[c] = "create_group" /\ pc[c] \in Owning /\ UNCHANGED <<active, jobs, db>>
    BY <1>3, <2>1 DEF Return, Owning, GroupCutShort
  <2>3. PICK r \in Runs : r = Run(c)
    BY <1>n, <2>2 DEF InHandPhases
  <2>4. /\ Phase(r) = "begun" /\ Phase(r)' = "over"
        /\ \A q \in Runs \ {r} : Phase(q)' = Phase(q)
    BY <1>n, <2>1, <2>2, <2>3, ReturnEnds DEF InHandPhases
  <2>5. PICK p \in FirstFree : leases' = Set(leases, r, p)
    BY <1>3, <2>3 DEF GroupCutShort
  <2>6. p \in Ports /\ \A q \in DOMAIN leases : leases[q] # p
    BY <2>5 DEF FirstFree, FreePorts
  <2> QED BY <2>2, <2>4, <2>5, <2>6, LeaseStep
<1>4. CASE SetLive(c)
  <2>1. Go(c, "set_live", "transcode") /\ UNCHANGED <<work, active, leases, jobs>>
    BY <1>4 DEF SetLive
  <2>2. PICK r \in Runs : /\ r = Run(c) /\ r = Run(c)'
                          /\ \A q \in Runs \ {r} : Phase(q)' = Phase(q)
    BY <2>1, GoMovesRun DEF Owning
  <2>3. Phase(r) = "leased" /\ Phase(r)' = "shown"
    BY <1>n, <2>1, <2>2 DEF InHandPhases, Go, Owning, TInv, CallersTyped
  <2>4. db' = [db EXCEPT ![r[1]] = [is_live |-> TRUE, run |-> r[2]]]
    BY <1>4, <2>2 DEF SetLive, Run, Stream
  <2> QED BY <2>1, <2>2, <2>3, <2>4, ShowStep
<1>5. CASE StartTranscoding(c)
  <2>1. Go(c, "transcode", "insert_active") /\ UNCHANGED <<work, active, leases, db>>
    BY <1>5 DEF StartTranscoding
  <2>2. PICK r \in Runs : /\ r = Run(c) /\ r = Run(c)'
                          /\ \A q \in Runs \ {r} : Phase(q)' = Phase(q)
    BY <2>1, GoMovesRun DEF Owning
  <2>3. Phase(r) = "shown" /\ Phase(r)' = "encoding"
    BY <1>n, <2>1, <2>2 DEF InHandPhases, Go, Owning, TInv, CallersTyped
  <2>4. jobs' = jobs \cup {r}
    BY <1>5, <2>2 DEF StartTranscoding
  <2> QED BY <2>1, <2>2, <2>3, <2>4, EncodeStep
<1>6. CASE InsertActive(c)
  <2> DEFINE s == Stream(c)
  <2>1. /\ pc[c] = "insert_active" /\ pc'[c] = "insert_tracking" /\ UNCHANGED <<work, next_run>>
        /\ active' = Set(active, s, [run |-> work[c].run, stalled |-> FALSE])
        /\ \A d \in Callers \ {c} : pc'[d] = pc[d]
        /\ UNCHANGED <<leases, jobs, db>>
    BY <1>6 DEF InsertActive, Go, TInv, CallersTyped, history
  <2>2. pc[c] \in Owning /\ pc'[c] \notin Owning
    BY <2>1 DEF Owning, TearingDown
  <2>3. PICK r \in Runs : r = Run(c)
    BY <1>n, <2>2 DEF InHandPhases
  <2>4. RunsOf(active)' = {q \in RunsOf(active) : q[1] # s} \cup {r}
    BY <2>1, <2>3 DEF RunsOf, Set, Run, Stream
  <2>5. r[1] = s /\ Phase(r) = "encoding" /\ Phase(r)' = "serving"
    BY <1>n, <2>1, <2>2, <2>3, <2>4 DEF InHandPhases, UnownedPhases, Run, Stream
  <2>6. \A d \in Callers, q \in Runs \ {r} : StaysWith(d, q)
    BY <2>1, <2>2, <2>3 DEF StaysWith, Run
  <2>7. ASSUME NEW q \in Runs \ {r}
        PROVE  Phase(q)' = IF q[1] = r[1] /\ Phase(q) = "serving" THEN "over" ELSE Phase(q)
    <3>1. CASE q[1] = s /\ q \in RunsOf(active)
      <4>1. Phase(q) = "serving" /\ q \notin RunsOf(active)' /\ ~(q[2] >= next_run'[q[1]])
        BY <1>n, <2>1, <2>4, <3>1 DEF UnownedPhases
      <4>2. \A d \in Callers : pc'[d] \in Owning => Run(d)' # q
        BY <2>1, <2>2, <3>1 DEF Owners, Run
      <4>3. Phase(q)' = "over"
        BY <1>n, <4>1, <4>2 DEF UnownedPhases
      <4> QED BY <2>5, <3>1, <4>1, <4>3
    <3>2. CASE ~(q[1] = s /\ q \in RunsOf(active))
      <4>1. q \in RunsOf(active)' <=> q \in RunsOf(active)
        BY <2>4, <3>2
      <4>2. Phase(q)' = Phase(q)
        BY <2>1, <2>6, <4>1, SamePhase
      <4> QED BY <1>n, <2>5, <3>2, <4>2 DEF UnownedPhases
    <3> QED BY <3>1, <3>2
  <2> QED BY <2>1, <2>5, <2>7, ServeStep
<1>7. CASE InsertTracking(c) \/ InsertSession(c) \/ HlsInsert(c) \/ HlsBind(c) \/ WebrtcInsert(c)
  <2>1. PICK from, to \in Starting \ Owning : Go(c, from, to)
    BY <1>7 DEF InsertTracking, InsertSession, HlsInsert, HlsBind, WebrtcInsert, Starting, Owning,
                TearingDown
  <2>2. UNCHANGED <<work, active, leases, jobs, db>>
    BY <1>7 DEF InsertTracking, InsertSession, HlsInsert, HlsBind, WebrtcInsert
  <2> QED BY <2>1, <2>2, GoStutters, StutterStep
<1>8. CASE RefuseLive(c) \/ WebrtcBind(c) \/ StartFails(c) \/ AbandonStart(c)
  <2>1. UNCHANGED <<active, leases, jobs, db>>
    BY <1>8 DEF RefuseLive, WebrtcBind, StartFails, AbandonStart
  <2>2. CASE RefuseLive(c)
    BY <2>1, <2>2, ReturnStep DEF RefuseLive, Results
  <2>3. CASE WebrtcBind(c)
    BY <2>1, <2>3, ReturnStep DEF WebrtcBind, Results
  <2>4. CASE StartFails(c)
    BY <2>1, <2>4, ReturnStep DEF StartFails, Results
  <2>5. CASE AbandonStart(c)
    BY <2>1, <2>5, ReturnStep DEF AbandonStart, Results
  <2> QED BY <1>8, <2>2, <2>3, <2>4, <2>5
<1> QED BY <1>1, <1>2, <1>3, <1>4, <1>5, <1>6, <1>7, <1>8 DEF StartStep

LEMMA StopLife ==
    ASSUME TInv, Owners, TInv', Owners', NEW c \in Callers, StopStep(c)
    PROVE  [Life!LifeNext]_(Life!lifeVars)
<1> USE DEF manager, multicast, database
<1>n. InHandPhases /\ UnownedPhases /\ InHandPhases' /\ UnownedPhases'
  BY PhaseInHand, PhaseUnowned, PhasesAfter
<1>1. CASE TakeActive(c)
  <2> DEFINE s == Stream(c)
  <2>1. /\ pc[c] = "take" /\ pc'[c] = "set_offline" /\ s \in Active /\ UNCHANGED next_run
        /\ active' = Without(active, {s})
        /\ Run(c)' = <<s, active[s].run>>
        /\ \A d \in Callers \ {c} : pc'[d] = pc[d] /\ work'[d] = work[d]
        /\ UNCHANGED <<leases, jobs, db>>
    BY <1>1 DEF TakeActive, Go, TInv, CallersTyped, history, Stream, Run
  <2>2. PICK r \in Runs : r = <<s, active[s].run>>
    BY <2>1 DEF Runs, TInv, DataTyped
  <2>3. pc[c] \notin Owning /\ pc'[c] \in Owning /\ pc'[c] \in TearingDown
    BY <2>1 DEF Owning, TearingDown
  <2>4. r \in RunsOf(active) /\ RunsOf(active)' = RunsOf(active) \ {r}
    BY <2>1, <2>2 DEF RunsOf, Without, Active
  <2>5. Phase(r) = "serving" /\ Phase(r)' = "stopping"
    BY <1>n, <2>1, <2>2, <2>3, <2>4 DEF InHandPhases, UnownedPhases
  <2>6. \A d \in Callers, q \in Runs \ {r} : StaysWith(d, q)
    BY <2>1, <2>2, <2>3 DEF StaysWith, Run
  <2>7. \A q \in Runs \ {r} : Phase(q)' = Phase(q)
    BY <2>1, <2>4, <2>6, SamePhase
  <2> QED BY <2>1, <2>5, <2>7, TakeDownStep
<1>2. CASE SetOffline(c)
  <2>1. Go(c, "set_offline", "stop_job") /\ UNCHANGED <<work, active, leases, jobs>>
    BY <1>2 DEF SetOffline
  <2>2. UNCHANGED phases
    BY <2>1, GoStutters DEF TearingDown
  <2>3. Stream(c) \in Streams /\ db' = [db EXCEPT ![Stream(c)].is_live = FALSE]
    BY <1>2 DEF SetOffline, TInv, CallersTyped, Stream
  <2> QED BY <2>1, <2>2, <2>3, HideStep
<1>3. CASE RemoveGroup(c)
  <2> DEFINE s == Stream(c)
  <2>1. Go(c, "remove_group", "hls_stop") /\ UNCHANGED <<work, active, jobs, db>>
    BY <1>3 DEF RemoveGroup
  <2>2. UNCHANGED phases
    BY <2>1, GoStutters DEF TearingDown
  <2>3. CASE s \notin DOMAIN groups
    BY <1>3, <2>1, <2>2, <2>3, StutterStep DEF RemoveGroup
  <2>4. CASE s \in DOMAIN groups
    <3>1. pc[c] \in Owning /\ pc[c] \in TearingDown
      BY <2>1 DEF Go, Owning, TearingDown
    <3>2. PICK r \in Runs : r = Run(c)
      BY <1>n, <3>1 DEF InHandPhases
    <3>3. r[1] = s /\ Phase(r) = "stopping"
      BY <1>n, <3>1, <3>2 DEF InHandPhases, Run, Stream
    <3>4. PICK q \in Runs : q = <<s, groups[s]>>
      BY <2>4 DEF Runs, TInv, DataTyped
    <3>5. q[1] = r[1] /\ leases' = Without(leases, {q})
      BY <1>3, <2>4, <3>3, <3>4 DEF RemoveGroup
    <3> QED BY <2>1, <2>2, <3>3, <3>5, FreeStep
  <2> QED BY <2>3, <2>4
<1>4. CASE StopJob(c) \/ HlsStop(c) \/ WebrtcStop(c) \/ DropTracking(c)
  <2>1. PICK from, to \in TearingDown : Go(c, from, to)
    BY <1>4 DEF StopJob, HlsStop, WebrtcStop, DropTracking, TearingDown
  <2>2. UNCHANGED <<work, active, leases, jobs, db>>
    BY <1>4 DEF StopJob, HlsStop, WebrtcStop, DropTracking
  <2> QED BY <2>1, <2>2, GoStutters, StutterStep
<1>5. CASE CheckLive(c)
  <2>1. "check" \notin Owning /\ "take" \notin Owning
    BY DEF Owning, TearingDown
  <2> QED BY <1>5, <2>1, GoStutters, StutterStep DEF CheckLive
<1>6. CASE RefuseOffline(c) \/ NothingToStop(c) \/ FinalizeSession(c) \/ StopFails(c)
  <2>1. UNCHANGED <<active, leases, jobs, db>>
    BY <1>6 DEF RefuseOffline, NothingToStop, FinalizeSession, StopFails
  <2>2. CASE RefuseOffline(c)
    BY <2>1, <2>2, ReturnStep DEF RefuseOffline, Results
  <2>3. CASE NothingToStop(c)
    BY <2>1, <2>3, ReturnStep DEF NothingToStop, Results
  <2>4. CASE FinalizeSession(c)
    BY <2>1, <2>4, ReturnStep DEF FinalizeSession, Results
  <2>5. CASE StopFails(c)
    BY <2>1, <2>5, ReturnStep DEF StopFails, Results
  <2> QED BY <1>6, <2>2, <2>3, <2>4, <2>5
<1> QED BY <1>1, <1>2, <1>3, <1>4, <1>5, <1>6 DEF StopStep

LEMMA BesideLife ==
    ASSUME TInv, Owners, TInv', Owners', Beside
    PROVE  [Life!LifeNext]_(Life!lifeVars)
<1>1. UNCHANGED <<pc, work, next_run>>
  BY BesideType DEF history
<1>2. RunsOf(active)' = RunsOf(active)
  <2>1. CASE \E s \in Streams : Stalls(s)
    BY <2>1 DEF Stalls, Active, RunsOf, TInv, DataTyped
  <2>2. CASE UNCHANGED active
    BY <2>2 DEF RunsOf
  <2> QED BY <2>1, <2>2 DEF Beside, JobLeaves, GroupExpires, MonitorMark, MonitorSkip, ReceiverEnds,
                            MonitorTick, manager
<1>3. UNCHANGED phases
  <2>1. \A c \in Callers, r \in Runs : StaysWith(c, r)
    BY <1>1 DEF StaysWith, Run
  <2> QED BY <1>1, <1>2, <2>1, SamePhases
<1>4. ASSUME NEW r \in Runs, JobLeaves(r) PROVE [Life!LifeNext]_(Life!lifeVars)
  BY <1>3, <1>4, LoseJobStep DEF JobLeaves, multicast, database
<1>5. ASSUME NEW s \in Streams, MonitorMark(s) PROVE [Life!LifeNext]_(Life!lifeVars)
  BY <1>3, <1>5, HideStep DEF MonitorMark, multicast
<1>6. CASE \/ \E s \in Streams : GroupExpires(s) \/ Stalls(s) \/ MonitorSkip(s)
           \/ \E p \in Ports : ReceiverEnds(p)
           \/ MonitorTick
  <2>1. UNCHANGED <<leases, jobs, db>>
    BY <1>6 DEF GroupExpires, Stalls, MonitorSkip, ReceiverEnds, MonitorTick, multicast, database
  <2> QED BY <1>3, <2>1, StutterStep
<1> QED BY <1>4, <1>5, <1>6 DEF Beside

LEMMA NextLife ==
    ASSUME TInv, Owners, TInv', Owners', [Next]_vars
    PROVE  [Life!LifeNext]_(Life!lifeVars)
<1>1. CASE UNCHANGED vars
  <2>1. UNCHANGED <<pc, work, next_run, active, leases, jobs, db>>
    BY <1>1 DEF vars, history, manager, multicast, database
  <2>2. RunsOf(active)' = RunsOf(active) /\ \A c \in Callers, r \in Runs : StaysWith(c, r)
    BY <2>1 DEF RunsOf, StaysWith, Run
  <2> QED BY <2>1, <2>2, SamePhases, StutterStep
<1>2. ASSUME NEW c \in Callers, NEW s \in Streams, StartStream(c, s) \/ StopStream(c, s)
      PROVE  [Life!LifeNext]_(Life!lifeVars)
  <2>1. PICK first \in {"find", "check"} : Call(c, s, first)
    BY <1>2 DEF StartStream, StopStream
  <2>2. UNCHANGED <<next_run, active, leases, jobs, db>>
    BY <1>2, <2>1 DEF StartStream, StopStream, Call, manager, multicast, database
  <2>3. /\ pc[c] \notin Owning /\ pc'[c] \notin Owning
        /\ \A d \in Callers \ {c} : pc'[d] = pc[d] /\ work'[d] = work[d]
    BY <2>1 DEF Call, TInv, CallersTyped, Owning, TearingDown
  <2>4. RunsOf(active)' = RunsOf(active) /\ \A d \in Callers, r \in Runs : StaysWith(d, r)
    BY <2>2, <2>3 DEF RunsOf, StaysWith, Run
  <2> QED BY <2>2, <2>4, SamePhases, StutterStep
<1>3. CASE Crash
  <2>1. /\ \A c \in Callers : pc'[c] = "idle"
        /\ active' = EmptyTable /\ leases' = EmptyTable /\ jobs' = {}
        /\ UNCHANGED <<db, next_run>>
    BY <1>3, CrashType DEF Crash, database
  <2>2. RunsOf(active)' = {} /\ \A c \in Callers : pc'[c] \notin Owning
    BY <2>1 DEF RunsOf, EmptyTable, Owning, TearingDown
  <2>3. UnownedPhases /\ UnownedPhases'
    BY PhaseUnowned, PhasesAfter
  <2>4. \A r \in Runs : Phase(r)' = IF Phase(r) = "unborn" THEN "unborn" ELSE "over"
    BY <2>1, <2>2, <2>3 DEF UnownedPhases
  <2> QED BY <2>1, <2>4, RestartStep
<1> QED BY <1>1, <1>2, <1>3, StartLife, StopLife, BesideLife DEF Next, Beside

LEMMA InitLife == Init => Life!LifeInit
<1> SUFFICES ASSUME Init PROVE Life!LifeInit
  OBVIOUS
<1>1. TInv /\ Owners
  BY InitTInv, InitOwners
<1>2. \A r \in Runs : Phase(r) = "unborn"
  <2>1. \A r \in Runs : r[1] \in Streams /\ r[2] \in Int /\ r[2] >= 1
    BY DEF Runs, RunNumbers
  <2> QED BY <1>1, <2>1, PhaseUnowned DEF UnownedPhases, Init
<1>3. phases = [r \in Runs |-> "unborn"]
  BY <1>2 DEF phases
<1> QED BY <1>3 DEF Init, Life!LifeInit, Life!Runs, Runs, EmptyTable, NoRun

(* start_stream and stop_stream, whoever overlaps and wherever they fail,  *)
(* take every run through its life once and in order: see RunLife.         *)
THEOREM RunLifeImplemented == Spec => ImplementsRunLife
<1>1. TInv /\ Owners /\ [Next]_vars => (TInv /\ Owners)'
  BY NextTInv, NextOwners
<1>2. TInv /\ Owners /\ (TInv /\ Owners)' /\ [Next]_vars => [Life!LifeNext]_(Life!lifeVars)
  BY NextLife
<1> QED BY <1>1, <1>2, InitTInv, InitOwners, InitLife, PTL
        DEF Spec, ImplementsRunLife, Life!LifeSpec

(* The abstract steps keep what RunLife says of ports, phases and rows.    *)
LEMMA LifeStepSafe ==
    ASSUME Life!LifeSafe, [Life!LifeNext]_(Life!lifeVars)
    PROVE  /\ Life!LifeSafe'
           /\ \A r \in Life!Runs : Life!Order[phases[r]] <= Life!Order[phases'[r]]
<1> USE DEF Life!LifeTypeOK, Life!Apart, Life!InItsTime, Life!Runs, Life!Phases, Life!Becomes
<1> DEFINE Good == /\ Life!LifeSafe'
                   /\ \A r \in Life!Runs : Life!Order[phases[r]] <= Life!Order[phases'[r]]
<1>1. CASE UNCHANGED Life!lifeVars
  BY <1>1 DEF Life!LifeSafe, Life!lifeVars, Life!Order
<1>2. ASSUME NEW r \in Life!Runs, Life!Begin(r) PROVE Good
  BY <1>2 DEF Life!LifeSafe, Life!Begin, Life!Order
<1>3. ASSUME NEW r \in Life!Runs, Life!Show(r) PROVE Good
  BY <1>3 DEF Life!LifeSafe, Life!Show, Life!Order
<1>4. ASSUME NEW r \in Life!Runs, Life!Encode(r) PROVE Good
  BY <1>4 DEF Life!LifeSafe, Life!Encode, Life!Order
<1>5. ASSUME NEW r \in Life!Runs, Life!Serve(r) PROVE Good
  BY <1>5 DEF Life!LifeSafe, Life!Serve, Life!Order
<1>6. ASSUME NEW r \in Life!Runs, Life!TakeDown(r) PROVE Good
  BY <1>6 DEF Life!LifeSafe, Life!TakeDown, Life!Order
<1>7. ASSUME NEW r \in Life!Runs, Life!End(r) PROVE Good
  BY <1>7 DEF Life!LifeSafe, Life!End, Life!InHand, Life!Order
<1>8. ASSUME NEW r \in Life!Runs, Life!LoseJob(r) PROVE Good
  BY <1>8 DEF Life!LifeSafe, Life!LoseJob, Life!Order
<1>9. ASSUME NEW r \in Life!Runs, NEW p \in Ports, Life!Lease(r, p) PROVE Good
  BY <1>9 DEF Life!LifeSafe, Life!Lease, Life!Order
<1>10. ASSUME NEW r \in Life!Runs, NEW q \in Life!Runs, Life!Free(r, q) PROVE Good
  BY <1>10 DEF Life!LifeSafe, Life!Free, Life!Order
<1>11. ASSUME NEW s \in Streams, Life!Hide(s) PROVE Good
  <2>1. /\ db \in [Streams -> [is_live : BOOLEAN, run : RunNumbers \cup {0}]]
        /\ db' = [db EXCEPT ![s].is_live = FALSE] /\ UNCHANGED <<phases, leases, jobs>>
    BY <1>11 DEF Life!LifeSafe, Life!Hide
  <2>2. /\ db' \in [Streams -> [is_live : BOOLEAN, run : RunNumbers \cup {0}]]
        /\ \A t \in Streams : db'[t].is_live => db[t].is_live /\ db'[t].run = db[t].run
    BY <2>1
  <2> QED BY <2>1, <2>2 DEF Life!LifeSafe, Life!Order
<1>12. CASE Life!Restart
  BY <1>12 DEF Life!LifeSafe, Life!Restart, Life!Order
<1> QED BY <1>1, <1>2, <1>3, <1>4, <1>5, <1>6, <1>7, <1>8, <1>9, <1>10, <1>11, <1>12
        DEF Life!LifeNext

LEMMA LifeInitSafe == Life!LifeInit => Life!LifeSafe
BY DEF Life!LifeInit, Life!LifeSafe, Life!LifeTypeOK, Life!Apart, Life!InItsTime, Life!Phases

(* Ports are never shared and nothing is done for a run before its time,   *)
(* by the abstract specification and so by the code, for any overlap,      *)
(* failure or restart.                                                     *)
THEOREM RunsLiveApart ==
    /\ Life!LifeSpec => []Life!LifeSafe
    /\ Spec => []Life!LifeSafe
<1>1. Life!LifeSafe /\ [Life!LifeNext]_(Life!lifeVars) => Life!LifeSafe'
  BY LifeStepSafe
<1>2. Life!LifeSpec => []Life!LifeSafe
  BY <1>1, LifeInitSafe, PTL DEF Life!LifeSpec
<1> QED BY <1>2, RunLifeImplemented, PTL DEF ImplementsRunLife

(* No run goes back to an earlier phase: one that was torn down, given up  *)
(* or lost to a restart is over for good.                                  *)
THEOREM RunsGoOnward == Spec => Life!Onward
<1> DEFINE Ahead == \A r \in Life!Runs : Life!Order[phases[r]] <= Life!Order[phases'[r]]
<1>1. Life!LifeSafe /\ [Life!LifeNext]_(Life!lifeVars) => [Ahead]_(Life!lifeVars)
  BY LifeStepSafe
<1>2. Life!LifeSpec /\ []Life!LifeSafe => [][Ahead]_(Life!lifeVars)
  BY <1>1, PTL DEF Life!LifeSpec
<1> QED BY <1>2, RunsLiveApart, RunLifeImplemented, PTL DEF ImplementsRunLife, Life!Onward
-----------------------------------------------------------------------------
(* The groups are a StreamDirectory.  RunsLiveApart says that a run that   *)
(* is about to lease a port has none, so that no listed group changes its  *)
(* endpoint behind the back of its stream.                                 *)

(* Every step but four leaves the groups and the leases alone.             *)
LEMMA GroupSteps ==
    ASSUME TInv, [Next]_vars
    PROVE  \/ \E c \in Callers : CreateGroup(c) \/ GroupCutShort(c) \/ RemoveGroup(c)
           \/ \E s \in Streams : GroupExpires(s)
           \/ Crash
           \/ UNCHANGED <<groups, leases>>
<1>1. ASSUME NEW c \in Callers, StartStep(c),
             ~CreateGroup(c), ~GroupCutShort(c)
      PROVE  UNCHANGED <<groups, leases>>
  BY <1>1 DEF StartStep, FindStream, RefuseLive, SetLive, StartTranscoding, InsertActive,
              InsertTracking, InsertSession, HlsInsert, HlsBind, WebrtcInsert, WebrtcBind,
              StartFails, AbandonStart, multicast
<1>2. ASSUME NEW c \in Callers, StopStep(c), ~RemoveGroup(c)
      PROVE  UNCHANGED <<groups, leases>>
  BY <1>2 DEF StopStep, CheckLive, RefuseOffline, TakeActive, NothingToStop, SetOffline, StopJob,
              HlsStop, WebrtcStop, DropTracking, FinalizeSession, StopFails, multicast
<1>3. ASSUME NEW c \in Callers, NEW s \in Streams, StartStream(c, s) \/ StopStream(c, s)
      PROVE  UNCHANGED <<groups, leases>>
  BY <1>3 DEF StartStream, StopStream, multicast
<1>4. ASSUME Beside, \A s \in Streams : ~GroupExpires(s)
      PROVE  UNCHANGED <<groups, leases>>
  BY <1>4 DEF Beside, JobLeaves, Stalls, MonitorMark, MonitorSkip, ReceiverEnds, MonitorTick,
              multicast
<1>5. CASE UNCHANGED vars
  BY <1>5 DEF vars, multicast
<1> QED BY <1>1, <1>2, <1>3, <1>4, <1>5 DEF Next, Beside

LEMMA NextGroupsLeased ==
    ASSUME TInv, TInv', GroupsLeased, [Next]_vars
    PROVE  GroupsLeased'
<1>1. ASSUME NEW c \in Callers, CreateGroup(c) PROVE GroupsLeased'
  BY <1>1 DEF CreateGroup, GroupsLeased, Set, Run, Stream
<1>2. ASSUME NEW c \in Callers, GroupCutShort(c) PROVE GroupsLeased'
  BY <1>2 DEF GroupCutShort, GroupsLeased, Set
<1>3. ASSUME NEW c \in Callers, RemoveGroup(c) PROVE GroupsLeased'
  BY <1>3 DEF RemoveGroup, GroupsLeased, Without
<1>4. ASSUME NEW s \in Streams, GroupExpires(s) PROVE GroupsLeased'
  BY <1>4 DEF GroupExpires, GroupsLeased, Without
<1>5. CASE Crash
  BY <1>5 DEF Crash, GroupsLeased, EmptyTable
<1>6. CASE UNCHANGED <<groups, leases>>
  BY <1>6 DEF GroupsLeased
<1> QED BY <1>1, <1>2, <1>3, <1>4, <1>5, <1>6, GroupSteps

(* Every listed group has a lease of its own.                              *)
THEOREM GroupsKeepLeases == Spec => []GroupsLeased
<1>1. TInv /\ TInv' /\ GroupsLeased /\ [Next]_vars => GroupsLeased'
  BY NextGroupsLeased
<1>2. TInv /\ [Next]_vars => TInv'
  BY NextTInv
<1>3. Init => GroupsLeased
  BY DEF Init, GroupsLeased, EmptyTable
<1> QED BY <1>1, <1>2, <1>3, InitTInv, PTL DEF Spec

Endpoint(s) == <<<<s, groups[s]>>, leases[<<s, groups[s]>>]>>

LEMMA InitDirectory == Init => Directory!DirInit
BY DEF Init, Directory!DirInit, EmptyTable

(* Streams that keep their group and its lease keep their endpoint.        *)
LEMMA SameEndpoints ==
    ASSUME NEW K, DOMAIN groups' = DOMAIN groups \ K, DOMAIN groups \subseteq Streams,
           \A s \in DOMAIN groups' : Endpoint(s)' = Endpoint(s)
    PROVE  [Directory!DirNext]_(Directory!dirVars)
<1>1. PICK L \in SUBSET Streams : L = DOMAIN groups \cap K
  OBVIOUS
<1>2. PICK gone \in [DOMAIN groups -> SUBSET {}] : \A s \in DOMAIN groups : gone[s] = {}
  <2>1. [s \in DOMAIN groups |-> {}] \in [DOMAIN groups -> SUBSET {}]
    OBVIOUS
  <2> QED BY <2>1
<1>3. DOMAIN groups' = DOMAIN groups \ L
  BY <1>1
<1>4. [s \in DOMAIN groups |-> Endpoint(s)]' = [s \in DOMAIN groups \ L |-> Endpoint(s)]
  BY <1>3
<1>5. [s \in DOMAIN groups |-> {}]' = [s \in DOMAIN groups \ L |-> {} \ gone[s]]
  BY <1>2, <1>3
<1>6. L \subseteq DOMAIN groups
  BY <1>1
<1>7. Directory!Expire(gone, L)
  BY <1>4, <1>5, <1>6 DEF Directory!Expire, Directory!Listed, Endpoint
<1>8. gone \in [Directory!Listed -> SUBSET {}]
  BY <1>2 DEF Directory!Listed
<1> QED BY <1>7, <1>8 DEF Directory!DirNext

(* The new group takes a lease that no other has.                          *)
LEMMA CreateGroupPublishes ==
    ASSUME TInv, GroupsLeased, NEW c \in Callers, CreateGroup(c)
    PROVE  Directory!DirNext
<1>1. PICK p \in FirstFree : leases' = Set(leases, Run(c), p)
  BY DEF CreateGroup
<1>2. PICK k \in Streams, n \in RunNumbers : k = Stream(c) /\ n = work[c].run
  BY OwningHasRun DEF CreateGroup, Go, TInv, CallersTyped, Stream, HasRun, Starting
<1>3. PICK r \in Runs : r = <<k, n>>
  BY DEF Runs
<1>4. p \in Ports /\ \A q \in DOMAIN leases : leases[q] # p
  BY DEF FirstFree, FreePorts
<1>5. groups' = [s \in DOMAIN groups \cup {k} |-> IF s = k THEN n ELSE groups[s]]
  BY <1>2 DEF CreateGroup, Set
<1>6. leases' = [q \in DOMAIN leases \cup {r} |-> IF q = r THEN p ELSE leases[q]]
  BY <1>1, <1>2, <1>3 DEF Set, Run, Stream
<1>7. ASSUME NEW s \in DOMAIN groups \ {k}
      PROVE  /\ Endpoint(s)' = Endpoint(s)
             /\ Endpoint(s)[1] # r /\ Endpoint(s)[2] # p
  <2>1. <<s, groups[s]>> \in DOMAIN leases /\ <<s, groups[s]>> # r
    BY <1>3 DEF GroupsLeased
  <2>2. groups'[s] = groups[s]
    BY <1>5
  <2>3. leases'[<<s, groups[s]>>] = leases[<<s, groups[s]>>]
    BY <1>6, <2>1
  <2>4. leases[<<s, groups[s]>>] # p
    BY <1>4, <2>1
  <2> QED BY <2>1, <2>2, <2>3, <2>4 DEF Endpoint
<1>8. Endpoint(k)' = <<r, p>>
  BY <1>3, <1>5, <1>6 DEF Endpoint
<1>9. DOMAIN groups' = DOMAIN groups \cup {k}
  BY <1>5
<1>10. [s \in DOMAIN groups |-> Endpoint(s)]'
         = [s \in DOMAIN groups \cup {k} |-> IF s = k THEN <<r, p>> ELSE Endpoint(s)]
  BY <1>7, <1>8, <1>9
<1>11. [s \in DOMAIN groups |-> {}]'
         = [s \in DOMAIN groups \cup {k} |-> IF s = k THEN {} ELSE {}]
  BY <1>9
<1>12. Directory!Vacant(k, r, p)
  BY <1>7 DEF Directory!Vacant, Directory!Listed, Endpoint
<1>13. [s \in DOMAIN groups |-> Endpoint(s)]'
         = [s \in DOMAIN groups \cup {k} |->
              IF s = k THEN <<r, p>> ELSE [x \in DOMAIN groups |-> Endpoint(x)][s]]
  BY <1>10
<1>14. [s \in DOMAIN groups |-> {}]'
         = [s \in DOMAIN groups \cup {k} |-> IF s = k THEN {} ELSE [x \in DOMAIN groups |-> {}][s]]
  BY <1>11
<1>15. Directory!Publish(k, r, p)
  BY <1>12, <1>13, <1>14 DEF Directory!Publish, Directory!Listed, Endpoint
<1> QED BY <1>4, <1>15 DEF Directory!DirNext

LEMMA NextDirectory ==
    ASSUME TInv, Owners, GroupsLeased, Life!LifeSafe, [Next]_vars
    PROVE  [Directory!DirNext]_(Directory!dirVars)
<1>0. DOMAIN groups \subseteq Streams
  BY DEF TInv, DataTyped
<1>1. ASSUME NEW c \in Callers, CreateGroup(c) PROVE Directory!DirNext
  BY <1>1, CreateGroupPublishes
<1>2. ASSUME NEW c \in Callers, GroupCutShort(c)
      PROVE  [Directory!DirNext]_(Directory!dirVars)
  <2>1. pc[c] = "create_group" /\ pc[c] \in Owning
    BY <1>2 DEF GroupCutShort, Return, Owning
  <2>2. Run(c) \in Runs /\ Phase(Run(c)) = "begun"
    BY <2>1, PhaseInHand DEF InHandPhases
  <2>3. Run(c) \notin DOMAIN leases
    BY <2>2 DEF Life!LifeSafe, Life!InItsTime, phases
  <2>4. /\ groups' = groups
        /\ \A q \in DOMAIN leases : leases'[q] = leases[q]
    BY <1>2, <2>3 DEF GroupCutShort, Set
  <2>5. \A s \in DOMAIN groups' : Endpoint(s)' = Endpoint(s)
    BY <2>4 DEF GroupsLeased, Endpoint
  <2>6. DOMAIN groups' = DOMAIN groups \ {}
    BY <2>4
  <2> QED BY <1>0, <2>5, <2>6, SameEndpoints
<1>3. ASSUME NEW c \in Callers, RemoveGroup(c)
      PROVE  [Directory!DirNext]_(Directory!dirVars)
  <2>1. PICK t \in Streams : t = Stream(c)
    BY DEF TInv, CallersTyped, Stream
  <2>2. /\ groups' = [s \in DOMAIN groups \ {t} |-> groups[s]]
        /\ \A s \in DOMAIN groups \ {t} :
             leases'[<<s, groups[s]>>] = leases[<<s, groups[s]>>]
    BY <1>3, <2>1 DEF RemoveGroup, Without, GroupsLeased
  <2>3. \A s \in DOMAIN groups' : Endpoint(s)' = Endpoint(s)
    BY <2>2 DEF Endpoint
  <2>4. DOMAIN groups' = DOMAIN groups \ {t}
    BY <2>2
  <2> QED BY <1>0, <2>3, <2>4, SameEndpoints
<1>4. ASSUME NEW t \in Streams, GroupExpires(t)
      PROVE  [Directory!DirNext]_(Directory!dirVars)
  <2>1. groups' = [s \in DOMAIN groups \ {t} |-> groups[s]] /\ leases' = leases
    BY <1>4 DEF GroupExpires, Without
  <2>2. \A s \in DOMAIN groups' : Endpoint(s)' = Endpoint(s)
    BY <2>1 DEF Endpoint
  <2>3. DOMAIN groups' = DOMAIN groups \ {t}
    BY <2>1
  <2> QED BY <1>0, <2>2, <2>3, SameEndpoints
<1>5. CASE Crash
  <2>1. DOMAIN groups' = {}
    BY <1>5 DEF Crash, EmptyTable
  <2>2. DOMAIN groups' = DOMAIN groups \ Streams
    BY <1>0, <2>1
  <2>3. \A s \in DOMAIN groups' : Endpoint(s)' = Endpoint(s)
    BY <2>1
  <2> QED BY <1>0, <2>2, <2>3, SameEndpoints
<1>6. CASE UNCHANGED <<groups, leases>>
  BY <1>6 DEF Directory!dirVars
<1> QED BY <1>1, <1>2, <1>3, <1>4, <1>5, <1>6, GroupSteps

(* Starts, stops, expiry and restarts change the groups as a               *)
(* StreamDirectory changes its own, and no two streams are ever listed at  *)
(* one address or one port, however their calls overlap.                   *)
THEOREM GroupsAreDirectory == Spec => ImplementsDirectory /\ []Directory!EndpointsApart
<1>1. TInv /\ Owners /\ [Next]_vars => (TInv /\ Owners)'
  BY NextTInv, NextOwners
<1>2. TInv /\ Owners /\ GroupsLeased /\ Life!LifeSafe /\ [Next]_vars
        => [Directory!DirNext]_(Directory!dirVars)
  BY NextDirectory
<1>3. Spec => ImplementsDirectory
  BY <1>1, <1>2, InitTInv, InitOwners, InitDirectory, GroupsKeepLeases, RunsLiveApart, PTL
     DEF Spec, ImplementsDirectory, Directory!DirSpec
<1>4. GroupsLeased /\ Life!LifeSafe => Directory!EndpointsApart
  BY DEF GroupsLeased, Life!LifeSafe, Life!Apart, Directory!EndpointsApart, Directory!Listed
<1> QED BY <1>3, <1>4, GroupsKeepLeases, RunsLiveApart, PTL
-----------------------------------------------------------------------------
(* On a stream whose calls do not overlap, a caller finds the row and the  *)
(* lease as it left them: the row stays offline from the moment it is set  *)
(* so until the address is given back, and the address is there when the   *)
(* row is set live.                                                        *)
Offline == {"stop_job", "remove_group"}

Quiet ==
    /\ \A c, d \in Callers :
         pc[c] # "idle" /\ pc[d] # "idle" /\ Stream(c) = Stream(d) /\ Stream(c) \notin disturbed
            => c = d
    /\ LiveRowLeased
    /\ \A c \in Callers :
         Stream(c) \notin disturbed /\ pc[c] = "set_live" => Run(c) \in DOMAIN leases
    /\ \A c \in Callers :
         Stream(c) \notin disturbed /\ pc[c] \in Offline => ~db[Stream(c)].is_live

(* A step that sets no row live, frees no lease, and moves no caller to    *)
(* where something is asked of the row.                                    *)
LEMMA KeepsQuiet ==
    ASSUME TInv, Quiet, UNCHANGED disturbed,
           \A s \in Streams : db'[s].is_live => db[s].is_live /\ db'[s].run = db[s].run,
           DOMAIN leases \subseteq DOMAIN leases',
           \A c \in Callers :
              /\ pc'[c] # "idle" =>
                    pc[c] # "idle" /\ work'[c].stream = work[c].stream
              /\ pc'[c] = "set_live" => pc[c] = "set_live" /\ work'[c].run = work[c].run
              /\ pc'[c] \in Offline => pc[c] \in Offline
    PROVE  Quiet'
<1>1. \A c \in Callers : pc'[c] # "idle" => Stream(c)' = Stream(c) /\ Stream(c) \in Streams
  BY DEF Stream, TInv, CallersTyped
<1>2. \A c, d \in Callers :
        pc'[c] # "idle" /\ pc'[d] # "idle" /\ Stream(c)' = Stream(d)' /\ Stream(c)' \notin disturbed'
            => c = d
  BY <1>1 DEF Quiet
<1>3. LiveRowLeased'
  BY DEF Quiet, LiveRowLeased
<1>4. \A c \in Callers :
        Stream(c)' \notin disturbed' /\ pc'[c] = "set_live" => Run(c)' \in DOMAIN leases'
  BY DEF Quiet, Run, Stream
<1>5. \A c \in Callers :
        Stream(c)' \notin disturbed' /\ pc'[c] \in Offline => ~db'[Stream(c)'].is_live
  BY <1>1 DEF Quiet, Offline
<1> QED BY <1>2, <1>3, <1>4, <1>5 DEF Quiet

LEMMA ReturnKeepsQuiet ==
    ASSUME TInv, Quiet, NEW c \in Callers, NEW from, NEW result \in Results,
           Return(c, from, result), UNCHANGED db, DOMAIN leases \subseteq DOMAIN leases'
    PROVE  Quiet'
<1>1. /\ pc'[c] = "idle" /\ UNCHANGED disturbed
      /\ \A d \in Callers \ {c} : pc'[d] = pc[d] /\ work'[d] = work[d]
  BY ReturnIdles DEF TInv, Return, history
<1> QED BY <1>1, KeepsQuiet DEF Offline

LEMMA GoKeepsQuiet ==
    ASSUME TInv, Quiet, NEW c \in Callers, NEW from, NEW to, Go(c, from, to),
           from # "idle", to # "set_live", to \in Offline => from \in Offline,
           \A d \in Callers : work'[d].stream = work[d].stream,
           \A d \in Callers \ {c} : work'[d] = work[d],
           UNCHANGED db, DOMAIN leases \subseteq DOMAIN leases'
    PROVE  Quiet'
<1>1. /\ pc[c] = from /\ pc'[c] = to /\ UNCHANGED disturbed
      /\ \A d \in Callers \ {c} : pc'[d] = pc[d]
  BY DEF Go, TInv, CallersTyped, history
<1> QED BY <1>1, KeepsQuiet

LEMMA StartQuiet ==
    ASSUME TInv, Quiet, NEW c \in Callers, StartStep(c)
    PROVE  Quiet'
<1> USE DEF database, multicast
<1>1. CASE CreateGroup(c)
  <2>1. /\ pc[c] = "create_group" /\ pc' = [pc EXCEPT ![c] = "set_live"]
        /\ UNCHANGED <<db, disturbed>>
        /\ DOMAIN leases' = DOMAIN leases \cup {Run(c)}
        /\ \A d \in Callers : work'[d].run = work[d].run /\ work'[d].stream = work[d].stream
    BY <1>1 DEF CreateGroup, Go, Set, history, TInv, CallersTyped
  <2>2. \A d \in Callers : Stream(d)' = Stream(d) /\ Run(d)' = Run(d)
    BY <2>1 DEF Stream, Run
  <2>3. /\ pc'[c] = "set_live" /\ \A d \in Callers \ {c} : pc'[d] = pc[d]
    BY <2>1 DEF TInv, CallersTyped
  <2>4. LiveRowLeased'
    BY <2>1 DEF Quiet, LiveRowLeased
  <2> QED BY <2>1, <2>2, <2>3, <2>4 DEF Quiet, Offline
<1>2. CASE SetLive(c)
  <2> DEFINE s == Stream(c)
  <2>1. /\ pc[c] = "set_live" /\ pc'[c] = "transcode" /\ UNCHANGED <<work, disturbed, leases>>
        /\ \A d \in Callers \ {c} : pc'[d] = pc[d]
        /\ s \in Streams
        /\ db'[s] = [is_live |-> TRUE, run |-> work[c].run]
        /\ \A r \in Streams \ {s} : db'[r] = db[r]
    BY <1>2 DEF SetLive, Go, history, TInv, CallersTyped, DataTyped, Stream
  <2>2. \A d \in Callers : Stream(d)' = Stream(d) /\ Run(d)' = Run(d) /\ Stream(d) \in Streams
    BY <2>1 DEF Stream, Run, TInv, CallersTyped
  <2>3. LiveRowLeased'
    BY <2>1 DEF Quiet, LiveRowLeased, Run, Stream
  <2>4. \A d \in Callers :
          Stream(d)' \notin disturbed' /\ pc'[d] \in Offline => ~db'[Stream(d)'].is_live
    BY <2>1, <2>2 DEF Quiet, Offline
  <2> QED BY <2>1, <2>2, <2>3, <2>4 DEF Quiet
<1>3. CASE FindStream(c)
  <2>1. /\ pc[c] = "find" /\ pc'[c] = "create_group" /\ UNCHANGED <<db, leases, disturbed>>
        /\ work'[c].stream = work[c].stream
        /\ \A d \in Callers \ {c} : pc'[d] = pc[d] /\ work'[d] = work[d]
    BY <1>3 DEF FindStream, TInv, CallersTyped
  <2> QED BY <2>1, KeepsQuiet DEF Offline
<1>4. CASE StartTranscoding(c)
  BY <1>4, GoKeepsQuiet DEF StartTranscoding, Offline
<1>5. CASE InsertActive(c)
  BY <1>5, GoKeepsQuiet DEF InsertActive, Offline
<1>6. CASE InsertTracking(c)
  BY <1>6, GoKeepsQuiet DEF InsertTracking, Offline
<1>7. CASE InsertSession(c)
  BY <1>7, GoKeepsQuiet DEF InsertSession, Offline
<1>8. CASE HlsInsert(c)
  BY <1>8, GoKeepsQuiet DEF HlsInsert, Offline
<1>9. CASE HlsBind(c)
  BY <1>9, GoKeepsQuiet DEF HlsBind, Offline
<1>10. CASE WebrtcInsert(c)
  BY <1>10, GoKeepsQuiet DEF WebrtcInsert, Offline
<1>11. CASE WebrtcBind(c)
  BY <1>11, ReturnKeepsQuiet DEF WebrtcBind, Results
<1>12. CASE GroupCutShort(c)
  <2>1. DOMAIN leases \subseteq DOMAIN leases'
    BY <1>12 DEF GroupCutShort, Set
  <2> QED BY <1>12, <2>1, ReturnKeepsQuiet DEF GroupCutShort, Results
<1>13. CASE RefuseLive(c)
  BY <1>13, ReturnKeepsQuiet DEF RefuseLive, Results
<1>14. CASE StartFails(c)
  BY <1>14, ReturnKeepsQuiet DEF StartFails, Results
<1>15. CASE AbandonStart(c)
  BY <1>15, ReturnKeepsQuiet DEF AbandonStart, Results
<1> QED BY <1>1, <1>2, <1>3, <1>4, <1>5, <1>6, <1>7, <1>8, <1>9, <1>10, <1>11, <1>12, <1>13,
           <1>14, <1>15 DEF StartStep

LEMMA StopQuiet ==
    ASSUME TInv, Quiet, NEW c \in Callers, StopStep(c)
    PROVE  Quiet'
<1> USE DEF database, multicast
<1>1. CASE SetOffline(c)
  <2> DEFINE s == Stream(c)
  <2>1. /\ pc[c] = "set_offline" /\ pc'[c] = "stop_job" /\ UNCHANGED <<work, disturbed, leases>>
        /\ \A d \in Callers \ {c} : pc'[d] = pc[d]
        /\ s \in Streams
        /\ ~db'[s].is_live
        /\ \A r \in Streams \ {s} : db'[r] = db[r]
    BY <1>1 DEF SetOffline, Go, history, TInv, CallersTyped, DataTyped, Stream
  <2>2. \A d \in Callers : Stream(d)' = Stream(d) /\ Run(d)' = Run(d) /\ Stream(d) \in Streams
    BY <2>1 DEF Stream, Run, TInv, CallersTyped
  <2>3. LiveRowLeased'
    BY <2>1 DEF Quiet, LiveRowLeased
  <2>4. \A d \in Callers :
          Stream(d)' \notin disturbed' /\ pc'[d] \in Offline => ~db'[Stream(d)'].is_live
    BY <2>1, <2>2 DEF Quiet, Offline
  <2> QED BY <2>1, <2>2, <2>3, <2>4 DEF Quiet
<1>2. CASE RemoveGroup(c)
  <2> DEFINE s == Stream(c)
  <2>1. /\ pc[c] = "remove_group" /\ pc'[c] = "hls_stop" /\ UNCHANGED <<work, disturbed, db>>
        /\ \A d \in Callers \ {c} : pc'[d] = pc[d]
        /\ \A r \in DOMAIN leases : r \in DOMAIN leases' \/ r[1] = s
    BY <1>2 DEF RemoveGroup, Go, Without, history, TInv, CallersTyped
  <2>2. \A d \in Callers : Stream(d)' = Stream(d) /\ Run(d)' = Run(d)
    BY <2>1 DEF Stream, Run
  <2>3. LiveRowLeased'
    BY <2>1 DEF Quiet, LiveRowLeased, Offline
  <2>4. \A d \in Callers :
          Stream(d)' \notin disturbed' /\ pc'[d] = "set_live" => Run(d)' \in DOMAIN leases'
    <3> SUFFICES ASSUME NEW d \in Callers, Stream(d) \notin disturbed, pc'[d] = "set_live"
                 PROVE  Run(d) \in DOMAIN leases'
      BY <2>1, <2>2
    <3>1. d # c /\ pc[d] = "set_live" /\ Run(d) \in DOMAIN leases
      BY <2>1 DEF Quiet
    <3>2. Stream(d) # s
      BY <2>1, <3>1 DEF Quiet
    <3> QED BY <2>1, <3>1, <3>2 DEF Run, Stream
  <2> QED BY <2>1, <2>2, <2>3, <2>4 DEF Quiet, Offline
<1>3. CASE TakeActive(c)
  <2>1. /\ pc[c] = "take" /\ pc'[c] = "set_offline" /\ UNCHANGED <<db, leases, disturbed>>
        /\ work'[c].stream = work[c].stream
        /\ \A d \in Callers \ {c} : pc'[d] = pc[d] /\ work'[d] = work[d]
    BY <1>3 DEF TakeActive, Go, TInv, CallersTyped, history
  <2> QED BY <2>1, KeepsQuiet DEF Offline
<1>4. CASE CheckLive(c)
  BY <1>4, GoKeepsQuiet DEF CheckLive, Offline
<1>5. CASE StopJob(c)
  BY <1>5, GoKeepsQuiet DEF StopJob, Offline
<1>6. CASE HlsStop(c)
  BY <1>6, GoKeepsQuiet DEF HlsStop, Offline
<1>7. CASE WebrtcStop(c)
  BY <1>7, GoKeepsQuiet DEF WebrtcStop, Offline
<1>8. CASE DropTracking(c)
  BY <1>8, GoKeepsQuiet DEF DropTracking, Offline
<1>9. CASE RefuseOffline(c)
  BY <1>9, ReturnKeepsQuiet DEF RefuseOffline, Results
<1>10. CASE NothingToStop(c)
  BY <1>10, ReturnKeepsQuiet DEF NothingToStop, Results
<1>11. CASE FinalizeSession(c)
  BY <1>11, ReturnKeepsQuiet DEF FinalizeSession, Results
<1>12. CASE StopFails(c)
  BY <1>12, ReturnKeepsQuiet DEF StopFails, Results
<1> QED BY <1>1, <1>2, <1>3, <1>4, <1>5, <1>6, <1>7, <1>8, <1>9, <1>10, <1>11, <1>12 DEF StopStep

LEMMA CallQuiet ==
    ASSUME TInv, Quiet, NEW c \in Callers, NEW s \in Streams, StartStream(c, s) \/ StopStream(c, s)
    PROVE  Quiet'
<1>1. PICK first \in {"find", "check"} : Call(c, s, first)
  BY DEF StartStream, StopStream
<1>2. /\ pc[c] = "idle" /\ pc'[c] = first /\ work'[c].stream = s
      /\ \A d \in Callers \ {c} : pc'[d] = pc[d] /\ work'[d] = work[d]
      /\ UNCHANGED <<db, leases>>
      /\ disturbed \subseteq disturbed'
      /\ \A d \in Callers : pc[d] # "idle" /\ Stream(d) = s => s \in disturbed'
  BY <1>1 DEF Call, TInv, CallersTyped, StartStream, StopStream, database, multicast
<1>3. Stream(c)' = s /\ \A d \in Callers \ {c} : Stream(d)' = Stream(d) /\ Run(d)' = Run(d)
  BY <1>2 DEF Stream, Run
<1>4. LiveRowLeased'
  BY <1>2 DEF Quiet, LiveRowLeased
<1>5. first # "idle" /\ first # "set_live" /\ first \notin Offline
  BY DEF Offline
<1>6. \A d, e \in Callers :
        pc'[d] # "idle" /\ pc'[e] # "idle" /\ Stream(d)' = Stream(e)' /\ Stream(d)' \notin disturbed'
           => d = e
  BY <1>2, <1>3 DEF Quiet
<1> QED BY <1>2, <1>3, <1>4, <1>5, <1>6 DEF Quiet

LEMMA BesideQuiet ==
    ASSUME TInv, Quiet, Beside
    PROVE  Quiet'
<1>1. UNCHANGED <<pc, work, disturbed>>
  BY BesideType DEF history
<1>2. UNCHANGED leases
  BY DEF Beside, JobLeaves, GroupExpires, Stalls, MonitorMark, MonitorSkip, ReceiverEnds, MonitorTick,
         multicast
<1>3. \A s \in Streams : db'[s].is_live => db[s].is_live /\ db'[s].run = db[s].run
  <2>1. CASE \E s \in Streams : MonitorMark(s)
    BY <2>1 DEF MonitorMark, TInv, DataTyped
  <2>2. CASE UNCHANGED db
    BY <2>2
  <2> QED BY <2>1, <2>2 DEF Beside, JobLeaves, GroupExpires, Stalls, MonitorSkip, ReceiverEnds,
                            MonitorTick, database
<1> QED BY <1>1, <1>2, <1>3, KeepsQuiet

LEMMA NextQuiet == TInv /\ Quiet /\ [Next]_vars => Quiet'
<1> SUFFICES ASSUME TInv, Quiet, [Next]_vars PROVE Quiet'
  OBVIOUS
<1>1. CASE Crash
  <2>1. /\ \A c \in Callers : pc'[c] = "idle"
        /\ UNCHANGED db /\ \A s \in Streams \ disturbed' : ~db[s].is_live
    BY <1>1, CrashType DEF Crash, database
  <2> QED BY <2>1 DEF Quiet, LiveRowLeased, Offline
<1>2. CASE UNCHANGED vars
  BY <1>2, KeepsQuiet DEF vars, database, multicast, history
<1> QED BY <1>1, <1>2, StartQuiet, StopQuiet, CallQuiet, BesideQuiet DEF Next, Beside

LEMMA InitQuiet == Init => Quiet
  BY DEF Init, Quiet, LiveRowLeased, Offline, Stream

(* A live row advertises an address leased to its own stream, whatever     *)
(* start or stop was cut short.                                            *)
THEOREM LiveRowsAreLeased == Spec => []LiveRowLeased
<1>1. TInv /\ Quiet /\ [Next]_vars => (TInv /\ Quiet)'
  BY NextTInv, NextQuiet
<1>2. Quiet => LiveRowLeased
  BY DEF Quiet
<1> QED BY <1>1, <1>2, InitTInv, InitQuiet, PTL DEF Spec
-----------------------------------------------------------------------------
(* What a stop has emptied by the time it returns.                         *)

(* What a stop has left behind at each of its awaits.                      *)
SweptBy(c) ==
    /\ pc[c] \in TearingDown => Stream(c) \notin Active
    /\ pc[c] \in TearingDown \ {"set_offline"} => ~db[Stream(c)].is_live
    /\ pc[c] \in {"hls_stop", "webrtc_stop", "close_peers", "finalize"} =>
         Stream(c) \notin DOMAIN groups
    /\ pc[c] \in {"webrtc_stop", "close_peers", "finalize"} => Stream(c) \notin hls
    /\ pc[c] \in {"close_peers", "finalize"} => Stream(c) \notin webrtc
    /\ pc[c] = "finalize" => Stream(c) \notin tracking

Swept == \A c \in Callers : Stream(c) \notin disturbed => SweptBy(c)

(* The step lists stream s nowhere and does not set its row live.          *)
ListsNot(s) ==
    /\ db'[s].is_live => db[s].is_live
    /\ s \in Active' => s \in Active
    /\ s \in DOMAIN groups' => s \in DOMAIN groups
    /\ s \in hls' => s \in hls
    /\ s \in webrtc' => s \in webrtc
    /\ s \in tracking' => s \in tracking

LEMMA StaysSwept ==
    ASSUME NEW c \in Callers, SweptBy(c), ListsNot(Stream(c)),
           pc'[c] = pc[c], work'[c].stream = work[c].stream
    PROVE  SweptBy(c)'
<1>1. Stream(c)' = Stream(c)
  BY DEF Stream
<1> QED BY <1>1 DEF SweptBy, ListsNot

LEMMA NotStoppingSwept ==
    ASSUME NEW c \in Callers, pc'[c] \notin TearingDown
    PROVE  SweptBy(c)'
BY DEF SweptBy, TearingDown

(* A start lists its own stream only, which no other caller works on.      *)
LEMMA StartSwept ==
    ASSUME TInv, Quiet, Swept, NEW c \in Callers, StartStep(c)
    PROVE  Swept'
<1>1. /\ pc[c] \in Starting /\ pc'[c] \in Starting \cup {"idle"} /\ UNCHANGED disturbed
      /\ \A d \in Callers \ {c} : pc'[d] = pc[d] /\ work'[d] = work[d]
      /\ work'[c].stream = work[c].stream
  <2>1. ASSUME NEW from, NEW result \in Results, Return(c, from, result)
        PROVE  pc'[c] = "idle" /\ work'[c].stream = work[c].stream
               /\ \A d \in Callers \ {c} : pc'[d] = pc[d] /\ work'[d] = work[d]
    BY <2>1, ReturnIdles DEF TInv
  <2>2. CASE \/ RefuseLive(c) \/ GroupCutShort(c) \/ WebrtcBind(c) \/ StartFails(c) \/ AbandonStart(c)
    BY <2>1, <2>2 DEF RefuseLive, GroupCutShort, WebrtcBind, StartFails, AbandonStart, Return,
                      Starting, Results, history
  <2>3. CASE FindStream(c) \/ CreateGroup(c)
    BY <2>3 DEF FindStream, CreateGroup, Go, Starting, history, TInv, CallersTyped
  <2>4. CASE \/ SetLive(c) \/ StartTranscoding(c) \/ InsertActive(c) \/ InsertTracking(c)
             \/ InsertSession(c) \/ HlsInsert(c) \/ HlsBind(c) \/ WebrtcInsert(c)
    BY <2>4 DEF SetLive, StartTranscoding, InsertActive, InsertTracking, InsertSession, HlsInsert,
                HlsBind, WebrtcInsert, Go, Starting, history, TInv, CallersTyped
  <2> QED BY <2>2, <2>3, <2>4 DEF StartStep
<1>2. \A s \in Streams \ {Stream(c)} : ListsNot(s)
  <2> USE DEF database, manager, multicast, servers, Active, ListsNot
  <2>0. \A s \in Streams : db[s].is_live \in BOOLEAN /\ Stream(c) \in Streams
    BY DEF TInv, DataTyped, CallersTyped, Stream
  <2>1. CASE SetLive(c)
    BY <2>0, <2>1 DEF SetLive, TInv, DataTyped
  <2>2. CASE CreateGroup(c)
    BY <2>2 DEF CreateGroup, Set
  <2>3. CASE InsertActive(c)
    BY <2>3 DEF InsertActive, Set
  <2>4. CASE \/ FindStream(c) \/ RefuseLive(c) \/ GroupCutShort(c) \/ StartTranscoding(c)
             \/ InsertTracking(c) \/ InsertSession(c) \/ HlsInsert(c) \/ HlsBind(c)
             \/ WebrtcInsert(c) \/ WebrtcBind(c) \/ StartFails(c) \/ AbandonStart(c)
    BY <2>4 DEF FindStream, RefuseLive, GroupCutShort, StartTranscoding, InsertTracking,
                InsertSession, HlsInsert, HlsBind, WebrtcInsert, WebrtcBind, StartFails, AbandonStart
  <2> QED BY <2>1, <2>2, <2>3, <2>4 DEF StartStep
<1>3. ASSUME NEW d \in Callers, Stream(d)' \notin disturbed'
      PROVE  SweptBy(d)'
  <2>1. CASE pc'[d] \notin TearingDown
    BY <2>1, NotStoppingSwept
  <2>2. CASE pc'[d] \in TearingDown
    <3>1. d # c /\ pc[d] # "idle" /\ pc[c] # "idle"
      BY <1>1, <2>2 DEF Starting, TearingDown
    <3>2. Stream(d)' = Stream(d) /\ Stream(d) \notin disturbed /\ Stream(d) \in Streams
      BY <1>1, <1>3, <3>1 DEF Stream, TInv, CallersTyped
    <3>3. Stream(d) # Stream(c)
      BY <3>1, <3>2 DEF Quiet
    <3> QED BY <1>1, <1>2, <3>1, <3>2, <3>3, StaysSwept DEF Swept
  <2> QED BY <2>1, <2>2
<1> QED BY <1>3 DEF Swept

(* A stop empties one more table at each of its steps.                     *)
LEMMA StopSwept ==
    ASSUME TInv, Quiet, Swept, NEW c \in Callers, StopStep(c)
    PROVE  Swept'
<1>0. Stream(c) \in Streams /\ \A s \in Streams : db[s].is_live \in BOOLEAN
  BY DEF TInv, DataTyped, CallersTyped, Stream
<1>1. \A s \in Streams : ListsNot(s)
  <2> USE DEF database, manager, multicast, servers, Active, ListsNot
  <2>1. CASE TakeActive(c)
    BY <2>1 DEF TakeActive, Without
  <2>2. CASE SetOffline(c)
    BY <1>0, <2>2 DEF SetOffline, TInv, DataTyped
  <2>3. CASE RemoveGroup(c)
    BY <2>3 DEF RemoveGroup, Without
  <2>4. CASE \/ CheckLive(c) \/ RefuseOffline(c) \/ NothingToStop(c) \/ StopJob(c) \/ HlsStop(c)
             \/ WebrtcStop(c) \/ DropTracking(c) \/ FinalizeSession(c) \/ StopFails(c)
    BY <2>4 DEF CheckLive, RefuseOffline, NothingToStop, StopJob, HlsStop, WebrtcStop,
                DropTracking, FinalizeSession, StopFails
  <2> QED BY <2>1, <2>2, <2>3, <2>4 DEF StopStep
<1>2. /\ UNCHANGED disturbed
      /\ \A d \in Callers \ {c} : pc'[d] = pc[d] /\ work'[d] = work[d]
      /\ Stream(c)' = Stream(c)
  <2>1. ASSUME NEW from, NEW result \in Results, Return(c, from, result)
        PROVE  work'[c].stream = work[c].stream /\ UNCHANGED disturbed
               /\ \A d \in Callers \ {c} : pc'[d] = pc[d] /\ work'[d] = work[d]
    BY <2>1, ReturnIdles DEF TInv, Return, history
  <2>2. CASE RefuseOffline(c) \/ NothingToStop(c) \/ FinalizeSession(c) \/ StopFails(c)
    BY <2>1, <2>2 DEF RefuseOffline, NothingToStop, FinalizeSession, StopFails, Results, Stream
  <2>3. CASE TakeActive(c)
    BY <2>3 DEF TakeActive, Go, history, TInv, CallersTyped, Stream
  <2>4. CASE \/ CheckLive(c) \/ SetOffline(c) \/ StopJob(c) \/ RemoveGroup(c) \/ HlsStop(c)
             \/ WebrtcStop(c) \/ DropTracking(c)
    BY <2>4 DEF CheckLive, SetOffline, StopJob, RemoveGroup, HlsStop, WebrtcStop, DropTracking,
                Go, history, TInv, CallersTyped, Stream
  <2> QED BY <2>2, <2>3, <2>4 DEF StopStep
<1>3. ASSUME Stream(c) \notin disturbed
      PROVE  SweptBy(c)'
  <2>0. SweptBy(c)
    BY <1>3 DEF Swept
  <2> USE DEF TearingDown
  <2>1. CASE TakeActive(c)
    BY <1>2, <2>1 DEF TakeActive, Go, Without, Active, SweptBy, TInv, CallersTyped
  <2>2. CASE SetOffline(c)
    BY <1>0, <1>2, <2>0, <2>2 DEF SetOffline, Go, SweptBy, TInv, CallersTyped, DataTyped, manager, Active
  <2>3. CASE StopJob(c)
    BY <1>2, <2>0, <2>3 DEF StopJob, Go, SweptBy, TInv, CallersTyped, manager, database, Active
  <2>4. CASE RemoveGroup(c)
    BY <1>2, <2>0, <2>4 DEF RemoveGroup, Go, Without, SweptBy, TInv, CallersTyped, manager, database, Active
  <2>5. CASE HlsStop(c)
    BY <1>2, <2>0, <2>5 DEF HlsStop, Go, SweptBy, TInv, CallersTyped, manager, database, multicast, Active
  <2>6. CASE WebrtcStop(c)
    BY <1>2, <2>0, <2>6 DEF WebrtcStop, Go, SweptBy, TInv, CallersTyped, manager, database, multicast, Active
  <2>7. CASE DropTracking(c)
    BY <1>2, <2>0, <2>7 DEF DropTracking, Go, SweptBy, TInv, CallersTyped, database, multicast, servers, Active
  <2>8. CASE CheckLive(c)
    <3>1. pc'[c] \notin TearingDown
      BY <2>8 DEF CheckLive, Go, TInv, CallersTyped
    <3> QED BY <3>1, NotStoppingSwept
  <2>9. CASE RefuseOffline(c) \/ NothingToStop(c) \/ FinalizeSession(c) \/ StopFails(c)
    <3>1. pc'[c] \notin TearingDown
      BY <2>9 DEF RefuseOffline, NothingToStop, FinalizeSession, StopFails, Return, TInv, CallersTyped
    <3> QED BY <3>1, NotStoppingSwept
  <2> QED BY <2>1, <2>2, <2>3, <2>4, <2>5, <2>6, <2>7, <2>8, <2>9 DEF StopStep
<1>4. ASSUME NEW d \in Callers \ {c}, Stream(d)' \notin disturbed'
      PROVE  SweptBy(d)'
  <2>1. Stream(d)' = Stream(d) /\ Stream(d) \in Streams
    BY <1>2 DEF Stream, TInv, CallersTyped
  <2> QED BY <1>1, <1>2, <1>4, <2>1, StaysSwept DEF Swept
<1> QED BY <1>2, <1>3, <1>4 DEF Swept

LEMMA NextSwept == TInv /\ Quiet /\ Swept /\ [Next]_vars => Swept'
<1> SUFFICES ASSUME TInv, Quiet, Swept, [Next]_vars PROVE Swept'
  OBVIOUS
<1>1. CASE Crash
  BY <1>1, CrashType, NotStoppingSwept DEF Swept, TearingDown
<1>2. CASE Beside \/ UNCHANGED vars
  <2>1. UNCHANGED <<pc, work, disturbed>>
    BY <1>2, BesideType DEF vars, history
  <2>2. \A s \in Streams : ListsNot(s)
    <3> USE DEF database, manager, multicast, servers, Active, ListsNot
    <3>1. ASSUME NEW s \in Streams, MonitorMark(s) PROVE \A r \in Streams : ListsNot(r)
      BY <3>1 DEF MonitorMark, TInv, DataTyped
    <3>2. ASSUME NEW s \in Streams, GroupExpires(s) \/ Stalls(s) PROVE \A r \in Streams : ListsNot(r)
      BY <3>2 DEF GroupExpires, Stalls, Without
    <3>3. CASE \/ \E r \in Runs : JobLeaves(r)
               \/ \E s \in Streams : MonitorSkip(s)
               \/ \E p \in Ports : ReceiverEnds(p)
               \/ MonitorTick \/ UNCHANGED vars
      BY <3>3 DEF JobLeaves, MonitorSkip, ReceiverEnds, MonitorTick, vars
    <3> QED BY <1>2, <3>1, <3>2, <3>3 DEF Beside
  <2>3. \A c \in Callers : Stream(c)' = Stream(c) /\ Stream(c) \in Streams
    BY <2>1 DEF Stream, TInv, CallersTyped
  <2> QED BY <2>1, <2>2, <2>3, StaysSwept DEF Swept
<1>3. ASSUME NEW c \in Callers, NEW s \in Streams, StartStream(c, s) \/ StopStream(c, s)
      PROVE  Swept'
  <2>1. PICK first \in {"find", "check"} : Call(c, s, first)
    BY <1>3 DEF StartStream, StopStream
  <2>2. /\ pc'[c] \notin TearingDown
        /\ \A d \in Callers \ {c} : pc'[d] = pc[d] /\ work'[d] = work[d]
        /\ disturbed \subseteq disturbed'
    BY <2>1 DEF Call, TInv, CallersTyped, TearingDown
  <2>3. \A r \in Streams : ListsNot(r)
    BY <1>3 DEF StartStream, StopStream, database, manager, multicast, servers, Active, ListsNot
  <2>4. ASSUME NEW d \in Callers \ {c}, Stream(d)' \notin disturbed'
        PROVE  SweptBy(d)'
    <3>1. Stream(d)' = Stream(d) /\ Stream(d) \in Streams
      BY <2>2 DEF Stream, TInv, CallersTyped
    <3> QED BY <2>2, <2>3, <2>4, <3>1, StaysSwept DEF Swept
  <2> QED BY <2>2, <2>4, NotStoppingSwept DEF Swept
<1> QED BY <1>1, <1>2, <1>3, StartSwept, StopSwept DEF Next, Beside

(* When a stop returns a success the row of its stream is offline, and the *)
(* stream is in none of active_streams, viewer_tracking, the group table   *)
(* and the tables of the HLS and WebRTC servers, whatever else went on,    *)
(* unless calls overlapped on it.                                          *)
THEOREM StopsDelist == Spec => CleanStop
<1> DEFINE Clean(c) ==
      told'[c] = "stopped" /\ told[c] # "stopped" /\ Stream(c) \notin disturbed
         => Delisted(Stream(c))'
<1>1. Init => Swept
  BY DEF Init, Swept, SweptBy, TearingDown
<1>2. ASSUME TInv, Swept, [Next]_vars, NEW c \in Callers
      PROVE  Clean(c)
  <2>1. SUFFICES ASSUME told'[c] = "stopped", told[c] # "stopped", Stream(c) \notin disturbed
                 PROVE  Delisted(Stream(c))'
    OBVIOUS
  <2>2. FinalizeSession(c)
    <3>1. ASSUME NEW d \in Callers, NEW s \in Streams, StartStream(d, s) \/ StopStream(d, s)
          PROVE  FALSE
      BY <1>2, <2>1, <3>1 DEF StartStream, StopStream, Call, TInv, CallersTyped
    <3>2. ASSUME NEW d \in Callers, StartStep(d)
          PROVE  FALSE
      BY <1>2, <2>1, <3>2 DEF StartStep, FindStream, RefuseLive, CreateGroup, GroupCutShort, SetLive,
           StartTranscoding, InsertActive, InsertTracking, InsertSession, HlsInsert, HlsBind,
           WebrtcInsert, WebrtcBind, StartFails, AbandonStart, Go, Return, TInv, CallersTyped
    <3>3. ASSUME NEW d \in Callers, StopStep(d)
          PROVE  d = c /\ FinalizeSession(d)
      BY <1>2, <2>1, <3>3 DEF StopStep, CheckLive, RefuseOffline, TakeActive, NothingToStop, SetOffline,
           StopJob, RemoveGroup, HlsStop, WebrtcStop, DropTracking, StopFails, FinalizeSession,
           Go, Return, TInv, CallersTyped
    <3>4. CASE Crash
      BY <2>1, <3>4 DEF Crash
    <3>5. CASE Beside \/ UNCHANGED vars
      BY <1>2, <2>1, <3>5, BesideType DEF vars
    <3> QED BY <1>2, <3>1, <3>2, <3>3, <3>4, <3>5 DEF Next, Beside
  <2>3. pc[c] = "finalize" /\ SweptBy(c)
    BY <1>2, <2>1, <2>2 DEF FinalizeSession, Return, Swept
  <2>4. UNCHANGED <<db, active, tracking, groups, hls, webrtc>>
    BY <2>2 DEF FinalizeSession, manager, multicast, servers
  <2>5. Stream(c)' = Stream(c)
    BY <1>2, <2>2, ReturnIdles DEF FinalizeSession, Results, TInv, Stream
  <2> QED BY <2>3, <2>4, <2>5 DEF SweptBy, Delisted, TearingDown, Active
<1>3. TInv /\ Swept /\ [Next]_vars => [\A c \in Callers : Clean(c)]_vars
  BY <1>2
<1>4. TInv /\ Quiet /\ Swept /\ [Next]_vars => (TInv /\ Quiet /\ Swept)'
  BY NextTInv, NextQuiet, NextSwept
<1> QED BY <1>1, <1>3, <1>4, InitTInv, InitQuiet, PTL DEF Spec, CleanStop
=============================================================================
