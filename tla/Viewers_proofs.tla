---------------------------- MODULE Viewers_proofs ----------------------------
(***************************************************************************)
(* What holds of the viewers of a stream for any requests and addresses.   *)
(*                                                                         *)
(* TInv adds to the type that a request at work has an address; on it rest *)
(* three arguments that do not need each other: what was counted was once  *)
(* there (CountsReal), who is tracked is in the group (Joined), and what   *)
(* one request alone has counted is right (Settled).  None of them says in *)
(* which order the tables are filled and emptied, so starts and stops may  *)
(* overlap and end where they like.                                        *)
(***************************************************************************)
EXTENDS Viewers, FiniteSetTheorems, TLAPS

Steps == Inside \cup {"idle", "find", "url", "key", "find_leave", "key_leave"}
Stages == {"idle", "create_group", "set_live", "insert_active", "insert_tracking",
           "take_active", "set_offline", "remove_group", "drop_tracking"}
Works == [address : Addresses \cup {NoAddress}, count : Nat, max : Nat]

RequestsTyped ==
    /\ pc \in [Requests -> Steps]
    /\ work \in [Requests -> Works]
    /\ calls \in 0..MaxCalls
    /\ lapped \subseteq Requests /\ crossed \subseteq Addresses /\ alone \subseteq Requests
    /\ \A q \in Requests : pc[q] # "idle" => work[q].address \in Addresses

TablesTyped ==
    /\ row \in [exists : BOOLEAN, live : BOOLEAN, count : Nat, max : Nat]
    /\ shown \in [listed : BOOLEAN, count : Nat]
    /\ group \in [listed : BOOLEAN, viewers : SUBSET Addresses]
    /\ tracked \in [listed : BOOLEAN, viewers : SUBSET Addresses, peak : Nat]
    /\ inactive \subseteq tracked.viewers
    /\ stage \in [Operators -> Stages] /\ unhealthy \in BOOLEAN
    /\ starts \in 0..MaxStarts
    /\ most \in Nat /\ unsettled \in BOOLEAN

TInv == RequestsTyped /\ TablesTyped

-----------------------------------------------------------------------------
(* Facts about the operators.                                              *)

LEMMA LargerType ==
    ASSUME NEW m \in Nat, NEW n \in Nat
    PROVE  Larger(m, n) \in Nat /\ Larger(m, n) >= m /\ Larger(m, n) >= n
BY DEF Larger

LEMMA Countable ==
    ASSUME NEW V \in SUBSET Addresses
    PROVE  IsFiniteSet(V) /\ Cardinality(V) \in Nat
BY ViewersAssumption, FS_Subset, FS_CardinalityType

(* What a step of one request leaves of the others.                        *)
LEMMA GoMoves ==
    ASSUME RequestsTyped, NEW q \in Requests, NEW from, NEW to \in Steps \ {"idle"},
           Go(q, from, to), from # "idle",
           work' = work \/ \E w \in Works : w.address = work[q].address /\ work' = [work EXCEPT ![q] = w],
           lapped' \subseteq Requests, crossed' \subseteq Addresses, alone' \subseteq Requests
    PROVE  /\ RequestsTyped'
           /\ pc[q] = from /\ pc'[q] = to
           /\ \A p \in Requests \ {q} : pc'[p] = pc[p] /\ work'[p] = work[p]
           /\ work'[q].address = work[q].address
           /\ UNCHANGED lifecycle
<1>1. CASE work' = work
  BY <1>1 DEF Go, RequestsTyped
<1>2. ASSUME NEW w \in Works, w.address = work[q].address, work' = [work EXCEPT ![q] = w]
      PROVE  work' \in [Requests -> Works] /\ work'[q].address = work[q].address
             /\ \A p \in Requests \ {q} : work'[p] = work[p]
  BY <1>2 DEF RequestsTyped
<1> QED BY <1>1, <1>2 DEF Go, RequestsTyped

LEMMA EndMoves ==
    ASSUME RequestsTyped, NEW q \in Requests, NEW from, End(q, from), "idle" \notin from,
           lapped' \subseteq Requests, crossed' \subseteq Addresses, alone' \subseteq Requests
    PROVE  /\ RequestsTyped'
           /\ pc[q] \in from /\ pc'[q] = "idle"
           /\ \A p \in Requests \ {q} : pc'[p] = pc[p] /\ work'[p] = work[p]
           /\ work'[q] = NoWork
           /\ UNCHANGED lifecycle
<1>1. NoWork \in Works
  BY DEF NoWork, Works
<1> QED BY <1>1 DEF End, RequestsTyped, Steps
-----------------------------------------------------------------------------
(* The type.                                                               *)

LEMMA TypedAtFirst == Init => TInv
<1> SUFFICES ASSUME Init PROVE TInv
  OBVIOUS
<1>1. NoWork \in Works
  BY DEF NoWork, Works
<1>2. RequestsTyped
  BY <1>1, ViewersAssumption DEF Init, RequestsTyped, Steps
<1>3. TablesTyped
  <2>1. starts \in 0..MaxStarts
    BY ViewersAssumption DEF Init
  <2>2. /\ row \in [exists : BOOLEAN, live : BOOLEAN, count : Nat, max : Nat]
        /\ shown \in [listed : BOOLEAN, count : Nat]
    BY DEF Init, Unlisted
  <2>3. /\ group \in [listed : BOOLEAN, viewers : SUBSET Addresses]
        /\ tracked \in [listed : BOOLEAN, viewers : SUBSET Addresses, peak : Nat]
    BY DEF Init, NoGroup, NoEntry
  <2>4. stage \in [Operators -> Stages] /\ unhealthy \in BOOLEAN
    BY DEF Init, Stages
  <2>5. inactive \subseteq tracked.viewers /\ most \in Nat /\ unsettled \in BOOLEAN
    BY DEF Init
  <2> QED BY <2>1, <2>2, <2>3, <2>4, <2>5 DEF TablesTyped
<1> QED BY <1>2, <1>3 DEF TInv

LEMMA TypedCall ==
    ASSUME TInv, NEW q \in Requests, NEW a \in Addresses, NEW to \in Steps,
           Call(q, a, to), UNCHANGED <<tables, lifecycle>>
    PROVE  TInv'
<1>1. [work[q] EXCEPT !.address = a] \in Works
  BY DEF TInv, RequestsTyped, Works
<1>2. work' = [work EXCEPT ![q] = [work[q] EXCEPT !.address = a]]
  BY DEF TInv, RequestsTyped, Call
<1>3. RequestsTyped'
  BY <1>1, <1>2, ViewersAssumption DEF TInv, RequestsTyped, Call, Works
<1> QED BY <1>3 DEF TInv, TablesTyped, lifecycle, Call, tables

LEMMA TypedJoin ==
    ASSUME TInv, NEW q \in Requests, JoinStep(q)
    PROVE  TInv'
<1>a. RequestsTyped /\ TablesTyped
  BY DEF TInv
<1> DEFINE a == Address(q)
<1>1. CASE FindLive(q) \/ GetStreamUrl(q) \/ ReadKey(q)
  <2>1. RequestsTyped'
    BY <1>a, <1>1, GoMoves DEF RequestsTyped, Steps, Inside, Counting, FindLive, GetStreamUrl, ReadKey, history
  <2> QED BY <1>a, <1>1, <2>1 DEF TInv, TablesTyped, lifecycle, Go, FindLive, GetStreamUrl, ReadKey, history, tables
<1>2. CASE RefuseJoin(q) \/ UrlFails(q) \/ NotActive(q) \/ NoGroupToJoin(q)
  <2>1. RequestsTyped'
    BY <1>a, <1>2, EndMoves DEF RequestsTyped, RefuseJoin, UrlFails, NotActive, NoGroupToJoin, history
  <2> QED BY <1>a, <1>2, <2>1 DEF TInv, TablesTyped, lifecycle, End, RefuseJoin, UrlFails, NotActive, NoGroupToJoin, history, tables
<1>3. CASE JoinGroup(q)
  <2>1. RequestsTyped'
    BY <1>a, <1>3, GoMoves DEF RequestsTyped, Steps, Inside, Counting, JoinGroup, EnterTables
  <2>2. Address(q) \in Addresses
    BY <1>a, <1>3 DEF RequestsTyped, JoinGroup, Go, Address
  <2> QED BY <1>a, <1>3, <2>1, <2>2 DEF TInv, TablesTyped, lifecycle, Go, JoinGroup, EnterTables
<1>4. CASE TrackViewer(q)
  <2>1. RequestsTyped'
    BY <1>a, <1>4, GoMoves DEF RequestsTyped, Steps, Inside, Counting, TrackViewer
  <2>2. Address(q) \in Addresses
    BY <1>a, <1>4 DEF RequestsTyped, TrackViewer, Go, Address
  <2>3. tracked' \in [listed : BOOLEAN, viewers : SUBSET Addresses, peak : Nat]
    <3>1. CASE ~tracked.listed
      BY <1>a, <1>4, <3>1 DEF TablesTyped, TrackViewer
    <3>2. CASE tracked.listed
      <4> DEFINE V == tracked.viewers \cup {Address(q)}
      <4>1. V \in SUBSET Addresses /\ tracked.peak \in Nat
        BY <1>a, <2>2 DEF TablesTyped
      <4>2. Larger(tracked.peak, Cardinality(V)) \in Nat
        BY <4>1, Countable, LargerType
      <4> QED BY <1>4, <3>2, <4>1, <4>2 DEF TrackViewer, Watching
    <3> QED BY <3>1, <3>2
  <2>4. most' \in Nat
    BY <1>a, <1>4, <2>3, Countable, LargerType DEF TablesTyped, TrackViewer
  <2>5. inactive' \subseteq tracked'.viewers
    BY <1>a, <1>4 DEF TablesTyped, TrackViewer, Watching
  <2> QED BY <1>a, <1>4, <2>1, <2>3, <2>4, <2>5 DEF TInv, TablesTyped, lifecycle, Go, TrackViewer
<1> QED BY <1>1, <1>2, <1>3, <1>4 DEF JoinStep

LEMMA TypedLeave ==
    ASSUME TInv, NEW q \in Requests, LeaveStep(q)
    PROVE  TInv'
<1>a. RequestsTyped /\ TablesTyped
  BY DEF TInv
<1>1. CASE FindToLeave(q) \/ ReadKeyToLeave(q)
  <2>1. RequestsTyped'
    BY <1>a, <1>1, GoMoves DEF RequestsTyped, Steps, Inside, Counting, FindToLeave, ReadKeyToLeave, history
  <2> QED BY <1>a, <1>1, <2>1 DEF TInv, TablesTyped, lifecycle, Go, FindToLeave, ReadKeyToLeave, history, tables
<1>2. CASE RefuseLeave(q) \/ NothingToLeave(q)
  <2>1. RequestsTyped'
    BY <1>a, <1>2, EndMoves DEF RequestsTyped, RefuseLeave, NothingToLeave, history
  <2> QED BY <1>a, <1>2, <2>1 DEF TInv, TablesTyped, lifecycle, End, RefuseLeave, NothingToLeave, history, tables
<1>3. CASE LeaveGroup(q)
  <2>1. RequestsTyped'
    BY <1>a, <1>3, GoMoves DEF RequestsTyped, Steps, Inside, Counting, LeaveGroup, EnterTables
  <2> QED BY <1>a, <1>3, <2>1 DEF TInv, TablesTyped, lifecycle, Go, LeaveGroup, EnterTables
<1>4. CASE ForgetViewer(q)
  <2>1. RequestsTyped'
    BY <1>a, <1>4, GoMoves DEF RequestsTyped, Steps, Inside, Counting, ForgetViewer, history
  <2> QED BY <1>a, <1>4, <2>1 DEF TInv, TablesTyped, lifecycle, Go, ForgetViewer, history
<1> QED BY <1>1, <1>2, <1>3, <1>4 DEF LeaveStep

LEMMA TypedCount ==
    ASSUME TInv, NEW q \in Requests, CountStep(q)
    PROVE  TInv'
<1>a. RequestsTyped /\ TablesTyped
  BY DEF TInv
<1>b. Audience \in Nat
  BY <1>a, Countable DEF TablesTyped, Audience
<1>1. CASE CountViewers(q)
  <2> DEFINE w == [work[q] EXCEPT !.count = Audience]
  <2>1. w \in Works /\ w.address = work[q].address /\ work' = [work EXCEPT ![q] = w]
    BY <1>a, <1>b, <1>1 DEF RequestsTyped, Works, CountViewers
  <2>2. RequestsTyped'
    BY <1>a, <1>1, <2>1, GoMoves DEF RequestsTyped, Steps, Inside, Counting, CountViewers, history
  <2> QED BY <1>a, <1>1, <2>2 DEF TInv, TablesTyped, lifecycle, Go, CountViewers, history, tables
<1>2. CASE ShowCount(q)
  <2>1. RequestsTyped'
    BY <1>a, <1>2, GoMoves DEF RequestsTyped, Steps, Inside, Counting, ShowCount, history
  <2>2. work[q].count \in Nat
    BY <1>a DEF RequestsTyped, Works
  <2> QED BY <1>a, <1>2, <2>1, <2>2 DEF TInv, TablesTyped, lifecycle, Go, ShowCount, history
<1>3. CASE ReadRow(q)
  <2> DEFINE w == [work[q] EXCEPT !.max = row.max]
  <2>1. w \in Works /\ w.address = work[q].address /\ work' = [work EXCEPT ![q] = w]
    BY <1>a, <1>3 DEF RequestsTyped, TablesTyped, Works, ReadRow
  <2>2. RequestsTyped'
    BY <1>a, <1>3, <2>1, GoMoves DEF RequestsTyped, Steps, Inside, Counting, ReadRow, history
  <2> QED BY <1>a, <1>3, <2>2 DEF TInv, TablesTyped, lifecycle, Go, ReadRow, history, tables
<1>4. CASE WriteRow(q)
  <2>1. RequestsTyped'
    BY <1>a, <1>4, EndMoves DEF RequestsTyped, WriteRow
  <2>2. work[q].count \in Nat /\ Larger(work[q].max, work[q].count) \in Nat
    BY <1>a, LargerType DEF RequestsTyped, Works
  <2> QED BY <1>a, <1>4, <2>1, <2>2 DEF TInv, TablesTyped, lifecycle, End, WriteRow
<1>5. CASE CountFails(q)
  <2>1. RequestsTyped'
    BY <1>a, <1>5, EndMoves DEF RequestsTyped, CountFails, Unsettle
  <2> QED BY <1>a, <1>5, <2>1 DEF TInv, TablesTyped, lifecycle, End, CountFails, Unsettle, tables
<1> QED BY <1>1, <1>2, <1>3, <1>4, <1>5 DEF CountStep

LEMMA TypedOtherwise ==
    ASSUME TInv, \/ \E a \in Addresses : GoesInactive(a)
                 \/ ViewerCleanup
                 \/ \E gone \in SUBSET Addresses : GroupCleanup(gone)
    PROVE  TInv'
<1>a. RequestsTyped /\ TablesTyped
  BY DEF TInv
<1>1. ASSUME NEW a \in Addresses, GoesInactive(a)
      PROVE  TInv'
  BY <1>a, <1>1 DEF TInv, RequestsTyped, TablesTyped, lifecycle, GoesInactive, requests, history
<1>2. CASE ViewerCleanup
  BY <1>a, <1>2 DEF TInv, RequestsTyped, TablesTyped, lifecycle, ViewerCleanup, Unsettle, requests
<1>3. ASSUME NEW gone \in SUBSET Addresses, GroupCleanup(gone)
      PROVE  TInv'
  <2>1. group' \in [listed : BOOLEAN, viewers : SUBSET Addresses]
    <3>1. CASE group' = NoGroup
      BY <3>1 DEF NoGroup
    <3>2. CASE group' = [group EXCEPT !.viewers = @ \ gone]
      BY <1>a, <3>2 DEF TablesTyped
    <3> QED BY <1>3, <3>1, <3>2 DEF GroupCleanup
  <2>2. crossed' \subseteq Addresses
    BY <1>a, <1>3 DEF RequestsTyped, GroupCleanup
  <2> QED BY <1>a, <1>3, <2>1, <2>2 DEF TInv, RequestsTyped, TablesTyped, lifecycle, GroupCleanup, requests
<1> QED BY <1>1, <1>2, <1>3

(* A step of an operator leaves a known stage, and the requests alone.     *)
LEMMA TakesMoves ==
    ASSUME TInv, NEW o \in Operators, NEW from, NEW to \in Stages, Takes(o, from, to)
    PROVE  stage' \in [Operators -> Stages] /\ UNCHANGED <<unhealthy, pc, work, calls, most, lapped>>
BY DEF TInv, TablesTyped, Takes, requests

LEMMA LostTyped ==
    ASSUME TInv, LoseGroup \/ BeginTracking
    PROVE  crossed' \subseteq Addresses
<1>1. \A q \in Requests : pc[q] = "track" => Address(q) \in Addresses
  BY DEF TInv, RequestsTyped, Address
<1> QED BY <1>1 DEF TInv, TablesTyped, RequestsTyped, LoseGroup, BeginTracking

LEMMA EntriesTyped ==
    /\ NoGroup \in [listed : BOOLEAN, viewers : SUBSET Addresses]
    /\ [NoGroup EXCEPT !.listed = TRUE] \in [listed : BOOLEAN, viewers : SUBSET Addresses]
    /\ Unlisted \in [listed : BOOLEAN, count : Nat]
    /\ [Unlisted EXCEPT !.listed = TRUE] \in [listed : BOOLEAN, count : Nat]
    /\ NoEntry \in [listed : BOOLEAN, viewers : SUBSET Addresses, peak : Nat]
    /\ [NoEntry EXCEPT !.listed = TRUE] \in [listed : BOOLEAN, viewers : SUBSET Addresses, peak : Nat]
BY DEF NoGroup, Unlisted, NoEntry

LEMMA TypedOperator ==
    ASSUME TInv, NEW o \in Operators, StartStep(o) \/ StopStep(o) \/ GiveUp(o)
    PROVE  TInv'
<1>a. RequestsTyped /\ TablesTyped
  BY DEF TInv
<1> USE DEF TInv, RequestsTyped, TablesTyped, BeginCounts
<1>1. CASE StartIfOffline(o)
  <2>1. starts' \in 0..MaxStarts
    BY <1>a, <1>1, ViewersAssumption DEF StartIfOffline
  <2>2. stage' \in [Operators -> Stages] /\ UNCHANGED <<unhealthy, pc, work, calls, most, lapped>>
    BY <1>1, TakesMoves DEF StartIfOffline, Stages
  <2> QED BY <1>a, <1>1, <2>1, <2>2 DEF StartIfOffline, tables
<1>2. CASE CreateGroup(o) \/ RemoveGroup(o)
  <2>1. stage' \in [Operators -> Stages] /\ UNCHANGED <<unhealthy, pc, work, calls, most, lapped>>
    BY <1>2, TakesMoves DEF CreateGroup, RemoveGroup, Stages
  <2>2. group' \in [listed : BOOLEAN, viewers : SUBSET Addresses]
    BY <1>2, EntriesTyped DEF CreateGroup, RemoveGroup
  <2>3. crossed' \subseteq Addresses
    BY <1>2, LostTyped DEF CreateGroup, RemoveGroup
  <2> QED BY <1>a, <1>2, <2>1, <2>2, <2>3 DEF CreateGroup, RemoveGroup
<1>3. CASE SetLive(o) \/ SetOffline(o)
  <2>1. stage' \in [Operators -> Stages] /\ UNCHANGED <<unhealthy, pc, work, calls, most, lapped>>
    BY <1>3, TakesMoves DEF SetLive, SetOffline, Stages
  <2>2. row' \in [exists : BOOLEAN, live : BOOLEAN, count : Nat, max : Nat]
    BY <1>a, <1>3 DEF SetLive, SetOffline
  <2> QED BY <1>a, <1>3, <2>1, <2>2 DEF SetLive, SetOffline
<1>4. CASE InsertActive(o) \/ TakeActive(o)
  <2>1. stage' \in [Operators -> Stages] /\ UNCHANGED <<unhealthy, pc, work, calls, most, lapped>>
    <3>1. "idle" \in Stages /\ "set_offline" \in Stages /\ "insert_tracking" \in Stages
      BY DEF Stages
    <3> QED BY <1>4, <3>1, TakesMoves DEF InsertActive, TakeActive
  <2>2. shown' \in [listed : BOOLEAN, count : Nat]
    BY <1>4, EntriesTyped DEF InsertActive, TakeActive
  <2>3. alone' \subseteq Requests /\ unsettled' \in BOOLEAN
    BY <1>a, <1>4 DEF InsertActive, TakeActive
  <2> QED BY <1>a, <1>4, <2>1, <2>2, <2>3 DEF InsertActive, TakeActive
<1>5. CASE InsertTracking(o) \/ DropTracking(o)
  <2>1. stage' \in [Operators -> Stages] /\ UNCHANGED <<unhealthy, pc, work, calls, most, lapped>>
    BY <1>5, TakesMoves DEF InsertTracking, DropTracking, Stages
  <2>2. tracked' \in [listed : BOOLEAN, viewers : SUBSET Addresses, peak : Nat] /\ inactive' = {}
    BY <1>5, EntriesTyped DEF InsertTracking, DropTracking
  <2>3. crossed' \subseteq Addresses
    BY <1>5, LostTyped DEF InsertTracking, DropTracking
  <2>4. alone' \subseteq Requests /\ unsettled' \in BOOLEAN
    BY <1>5 DEF InsertTracking, DropTracking
  <2> QED BY <1>a, <1>5, <2>1, <2>2, <2>3, <2>4 DEF InsertTracking, DropTracking
<1>6. CASE StopIfLive(o) \/ GiveUp(o)
  <2>1. stage' \in [Operators -> Stages] /\ UNCHANGED <<unhealthy, pc, work, calls, most, lapped>>
    <3>1. CASE StopIfLive(o)
      BY <3>1, TakesMoves DEF StopIfLive, Stages
    <3>2. CASE GiveUp(o)
      BY <1>a, <3>2 DEF GiveUp, Stages, requests, history
    <3> QED BY <1>6, <3>1, <3>2
  <2> QED BY <1>a, <1>6, <2>1 DEF StopIfLive, GiveUp, tables, history
<1> QED BY <1>1, <1>2, <1>3, <1>4, <1>5, <1>6 DEF StartStep, StopStep

LEMMA TypedStream ==
    ASSUME TInv, StreamStep
    PROVE  TInv'
<1>a. RequestsTyped /\ TablesTyped
  BY DEF TInv
<1>1. CASE DeleteRow
  BY <1>a, <1>1 DEF TInv, RequestsTyped, TablesTyped, DeleteRow, lifecycle, requests, history
<1>2. CASE MonitorTick
  BY <1>a, <1>2 DEF TInv, RequestsTyped, TablesTyped, MonitorTick, tables, requests, history
<1>3. CASE MonitorMark
  <2>1. row' \in [exists : BOOLEAN, live : BOOLEAN, count : Nat, max : Nat]
    BY <1>a, <1>3 DEF TablesTyped, MonitorMark
  <2> QED BY <1>a, <1>3, <2>1 DEF TInv, RequestsTyped, TablesTyped, MonitorMark, requests, history
<1> QED BY <1>1, <1>2, <1>3, TypedOperator DEF StreamStep

LEMMA TypedStep == TInv /\ [Next]_vars => TInv'
<1> SUFFICES ASSUME TInv, [Next]_vars PROVE TInv'
  OBVIOUS
<1>1. ASSUME NEW q \in Requests, NEW a \in Addresses, JoinStream(q, a) \/ LeaveStream(q, a)
      PROVE  TInv'
  BY <1>1, TypedCall DEF JoinStream, LeaveStream, Steps
<1>2. CASE UNCHANGED vars
  BY <1>2 DEF TInv, RequestsTyped, TablesTyped, vars, tables, lifecycle, requests, history
<1> QED BY <1>1, <1>2, TypedJoin, TypedLeave, TypedCount, TypedOtherwise, TypedStream DEF Next

(* The variables keep their types: what a request holds, what the tables   *)
(* list, and that only tracked viewers can be inactive.                    *)
THEOREM TypeCorrect == Spec => []TypeOK
<1>1. Spec => []TInv
  BY TypedAtFirst, TypedStep, PTL DEF Spec
<1>2. TInv => TypeOK
  BY DEF TInv, RequestsTyped, TablesTyped, TypeOK, Steps, Works, Stages
<1> QED BY <1>1, <1>2, PTL
-----------------------------------------------------------------------------
-----------------------------------------------------------------------------
(* The counts.                                                             *)

RealCounts == TInv /\ CountsReal

LEMMA FewerViewers ==
    ASSUME NEW V \in SUBSET Addresses, NEW W \in SUBSET V
    PROVE  Cardinality(W) <= Cardinality(V)
BY ViewersAssumption, FS_Subset

(* Nothing that is kept as a number grows beyond the largest audience.     *)
LEMMA StillReal ==
    ASSUME RealCounts, TInv',
           row'.count = row.count /\ row'.max = row.max,
           shown'.count = shown.count \/ shown'.count = 0,
           tracked'.viewers \subseteq tracked.viewers /\ tracked'.peak = tracked.peak,
           UNCHANGED most,
           \A q \in Requests : /\ work'[q].count \in {work[q].count, 0, Audience}
                               /\ work'[q].max \in {work[q].max, 0, row.max}
    PROVE  CountsReal'
<1>1. Audience' <= Audience /\ Audience' \in Nat /\ Audience \in Nat
  BY FewerViewers, Countable DEF RealCounts, TInv, TablesTyped, Audience
<1>2. /\ most \in Nat /\ row.count \in Nat /\ row.max \in Nat /\ shown.count \in Nat
      /\ tracked.peak \in Nat
      /\ \A q \in Requests : work[q].count \in Nat /\ work[q].max \in Nat
  BY DEF RealCounts, TInv, TablesTyped, RequestsTyped, Works
<1>3. row'.count <= row'.max /\ row'.max <= most' /\ shown'.count <= most'
  BY <1>2 DEF RealCounts, CountsReal
<1>4. Audience' <= tracked'.peak /\ tracked'.peak <= most'
  BY <1>1, <1>2 DEF RealCounts, CountsReal
<1>5. ASSUME NEW q \in Requests PROVE work'[q].count <= most' /\ work'[q].max <= most'
  <2>1. /\ work'[q].count \in {work[q].count, 0, Audience}
        /\ work'[q].max \in {work[q].max, 0, row.max}
    OBVIOUS
  <2>2. work[q].count <= most /\ work[q].max <= most /\ Audience <= most /\ row.max <= most
    BY <1>1, <1>2 DEF RealCounts, CountsReal
  <2> QED BY <1>2, <2>1, <2>2
<1> QED BY <1>3, <1>4, <1>5 DEF CountsReal

LEMMA RealRequests ==
    ASSUME RealCounts, TInv', NEW q \in Requests,
           \/ \E a \in Addresses : JoinStream(q, a) \/ LeaveStream(q, a)
           \/ JoinStep(q) \/ LeaveStep(q) \/ CountStep(q)
    PROVE  CountsReal'
<1>a. RequestsTyped /\ TablesTyped
  BY DEF RealCounts, TInv
<1>0. ASSUME UNCHANGED work \/ work' = [work EXCEPT ![q] = NoWork]
      PROVE  \A p \in Requests : /\ work'[p].count \in {work[p].count, 0, Audience}
                                 /\ work'[p].max \in {work[p].max, 0, row.max}
  BY <1>a, <1>0 DEF RequestsTyped, NoWork
<1>1. ASSUME NEW a \in Addresses, JoinStream(q, a) \/ LeaveStream(q, a)
      PROVE  CountsReal'
  <2>1. \A p \in Requests : work'[p].count = work[p].count /\ work'[p].max = work[p].max
    BY <1>a, <1>1 DEF RequestsTyped, Works, JoinStream, LeaveStream, Call
  <2> QED BY <1>1, <2>1, StillReal DEF JoinStream, LeaveStream, Call, tables
<1>2. CASE JoinStep(q) /\ ~TrackViewer(q)
  <2>1. UNCHANGED <<row, shown, tracked, most>> /\ (UNCHANGED work \/ work' = [work EXCEPT ![q] = NoWork])
    BY <1>2 DEF JoinStep, FindLive, RefuseJoin, GetStreamUrl, UrlFails, ReadKey, NotActive, JoinGroup,
                NoGroupToJoin, End, tables, history
  <2> QED BY <1>0, <2>1, StillReal
<1>3. CASE TrackViewer(q)
  <2>1. UNCHANGED <<row, shown, work>>
    BY <1>3 DEF TrackViewer
  <2>2. /\ most' \in Nat /\ most \in Nat /\ Audience' \in Nat /\ Audience \in Nat
        /\ tracked.peak \in Nat /\ tracked'.peak \in Nat /\ Cardinality(tracked'.viewers) \in Nat
    BY <1>a, Countable DEF TInv, TablesTyped, Audience
  <2>3. most' >= most /\ most' >= Audience'
    BY <1>3, <2>2, LargerType DEF TrackViewer, Audience
  <2>4. Audience' <= tracked'.peak /\ tracked'.peak <= most'
    <3>1. CASE ~tracked.listed
      BY <1>3, <2>2, <2>3, <3>1 DEF RealCounts, CountsReal, TrackViewer, Audience
    <3>2. CASE tracked.listed
      <4> DEFINE V == tracked.viewers \cup {Address(q)}
      <4>1. tracked' = Watching(V)
        BY <1>3, <3>2 DEF TrackViewer
      <4>2. tracked'.viewers = V /\ tracked'.peak = Larger(tracked.peak, Cardinality(V))
        BY <4>1 DEF Watching
      <4>3. tracked.peak <= most /\ Audience' = Cardinality(V)
        BY <4>2 DEF RealCounts, CountsReal, Audience
      <4> HIDE DEF V
      <4>4. Audience' <= tracked'.peak
        BY <2>2, <4>2, <4>3, LargerType
      <4>5. tracked'.peak <= most'
        BY <2>2, <2>3, <4>2, <4>3 DEF Larger
      <4> QED BY <4>4, <4>5
    <3> QED BY <3>1, <3>2
  <2>5. /\ row.count \in Nat /\ row.max \in Nat /\ shown.count \in Nat
        /\ \A p \in Requests : work[p].count \in Nat /\ work[p].max \in Nat
    BY <1>a DEF TablesTyped, RequestsTyped, Works
  <2> QED BY <2>1, <2>2, <2>3, <2>4, <2>5 DEF RealCounts, CountsReal
<1>4. CASE LeaveStep(q)
  <2>1. /\ UNCHANGED <<row, shown, most>>
        /\ tracked'.viewers \subseteq tracked.viewers /\ tracked'.peak = tracked.peak
        /\ UNCHANGED work \/ work' = [work EXCEPT ![q] = NoWork]
    BY <1>a, <1>4 DEF LeaveStep, FindToLeave, RefuseLeave, ReadKeyToLeave, NothingToLeave, LeaveGroup,
                ForgetViewer, End, tables, history, TablesTyped
  <2> QED BY <1>0, <2>1, StillReal
<1>5. CASE CountViewers(q) \/ ReadRow(q)
  <2>1. \A p \in Requests : /\ work'[p].count \in {work[p].count, 0, Audience}
                            /\ work'[p].max \in {work[p].max, 0, row.max}
    BY <1>a, <1>5 DEF RequestsTyped, Works, CountViewers, ReadRow
  <2> QED BY <1>5, <2>1, StillReal DEF CountViewers, ReadRow, tables, history
<1>6. CASE CountFails(q)
  BY <1>0, <1>6, StillReal DEF CountFails, End, tables
<1>7. CASE ShowCount(q)
  <2>1. shown'.count = shown.count \/ shown'.count = work[q].count
    BY <1>a, <1>7 DEF ShowCount, TablesTyped
  <2> QED BY <1>7, <2>1 DEF ShowCount, RealCounts, CountsReal, history, Audience
<1>8. CASE WriteRow(q)
  <2>1. /\ most \in Nat /\ row.count \in Nat /\ row.max \in Nat
        /\ work[q].count \in Nat /\ work[q].max \in Nat
        /\ work[q].count <= most /\ work[q].max <= most
    BY <1>a DEF TablesTyped, RequestsTyped, Works, RealCounts, CountsReal
  <2>2. row'.count <= row'.max /\ row'.max <= most
    <3>1. CASE ~row.exists
      BY <1>8, <3>1 DEF WriteRow, RealCounts, CountsReal
    <3>2. CASE row.exists
      <4>1. row'.count = work[q].count /\ row'.max = Larger(work[q].max, work[q].count)
        BY <1>a, <1>8, <3>2 DEF WriteRow, TablesTyped
      <4> QED BY <2>1, <4>1 DEF Larger
    <3> QED BY <3>1, <3>2
  <2>3. \A p \in Requests : work'[p].count <= most /\ work'[p].max <= most
    BY <1>a, <1>8, <2>1 DEF WriteRow, End, NoWork, RequestsTyped, RealCounts, CountsReal
  <2> QED BY <1>8, <2>2, <2>3 DEF WriteRow, RealCounts, CountsReal, Audience
<1> QED BY <1>1, <1>2, <1>3, <1>4, <1>5, <1>6, <1>7, <1>8 DEF CountStep

LEMMA RealOtherwise ==
    ASSUME RealCounts, TInv',
           \/ \E a \in Addresses : GoesInactive(a)
           \/ ViewerCleanup
           \/ \E gone \in SUBSET Addresses : GroupCleanup(gone)
           \/ StreamStep
    PROVE  CountsReal'
<1>a. TablesTyped
  BY DEF RealCounts, TInv
<1>0. ASSUME UNCHANGED work
      PROVE  \A p \in Requests : /\ work'[p].count \in {work[p].count, 0, Audience}
                                 /\ work'[p].max \in {work[p].max, 0, row.max}
  BY <1>0
<1>1. ASSUME NEW a \in Addresses, GoesInactive(a) PROVE CountsReal'
  BY <1>0, <1>1, StillReal DEF GoesInactive, requests, history
<1>2. CASE ViewerCleanup
  <2>1. tracked'.viewers \subseteq tracked.viewers /\ tracked'.peak = tracked.peak
    BY <1>a, <1>2 DEF ViewerCleanup, TablesTyped
  <2> QED BY <1>0, <1>2, <2>1, StillReal DEF ViewerCleanup, requests
<1>3. ASSUME NEW gone \in SUBSET Addresses, GroupCleanup(gone) PROVE CountsReal'
  BY <1>0, <1>3, StillReal DEF GroupCleanup, requests
<1>4. ASSUME NEW o \in Operators, InsertTracking(o) \/ DropTracking(o) PROVE CountsReal'
  <2>1. tracked'.peak = 0 /\ tracked'.viewers = {} /\ Audience' = 0
    BY <1>4, FS_EmptySet DEF InsertTracking, DropTracking, NoEntry, Audience
  <2>2. most \in Nat
    BY <1>a DEF TablesTyped
  <2> QED BY <1>4, <2>1, <2>2 DEF InsertTracking, DropTracking, Takes, requests, RealCounts, CountsReal
<1>5. ASSUME \/ DeleteRow \/ MonitorTick \/ MonitorMark
             \/ \E o \in Operators : \/ StartIfOffline(o) \/ CreateGroup(o) \/ SetLive(o) \/ InsertActive(o)
                                     \/ StopIfLive(o) \/ TakeActive(o) \/ SetOffline(o) \/ RemoveGroup(o)
                                     \/ GiveUp(o)
      PROVE  CountsReal'
  <2>1. /\ row'.count = row.count /\ row'.max = row.max
        /\ shown'.count = shown.count \/ shown'.count = 0
    BY <1>a, <1>5 DEF TablesTyped, StartIfOffline, CreateGroup, SetLive, InsertActive, StopIfLive, TakeActive,
                      SetOffline, RemoveGroup, GiveUp, DeleteRow, MonitorTick, MonitorMark, Unlisted, tables
  <2>2. UNCHANGED <<tracked, work, most>>
    BY <1>5 DEF StartIfOffline, CreateGroup, SetLive, InsertActive, StopIfLive, TakeActive, SetOffline,
                RemoveGroup, GiveUp, DeleteRow, MonitorTick, MonitorMark, Takes, tables, requests, history
  <2> QED BY <1>0, <2>1, <2>2, StillReal
<1> QED BY <1>1, <1>2, <1>3, <1>4, <1>5 DEF StreamStep, StartStep, StopStep

(* However late, lost or repeated its updates are, no count shown, saved   *)
(* or about to be is larger than an audience the stream really had.        *)
THEOREM CountsAreReal == Spec => []CountsReal
<1>1. Init => CountsReal
  BY FS_EmptySet DEF Init, CountsReal, Unlisted, NoEntry, NoWork, Audience
<1>2. TInv /\ CountsReal /\ [Next]_vars => CountsReal'
  <2> SUFFICES ASSUME TInv, CountsReal, [Next]_vars PROVE CountsReal'
    OBVIOUS
  <2>1. RealCounts /\ TInv'
    BY TypedStep DEF RealCounts
  <2>2. CASE UNCHANGED vars
    BY <2>2 DEF CountsReal, Audience, vars, tables, lifecycle, requests, history
  <2> QED BY <2>1, <2>2, RealRequests, RealOtherwise DEF Next
<1>3. Spec => []TInv
  BY TypedAtFirst, TypedStep, PTL DEF Spec
<1> QED BY <1>1, <1>2, <1>3, PTL DEF Spec
-----------------------------------------------------------------------------
(* Starts, stops and the monitor leave the requests and the row's counts.  *)
LEMMA StreamLeaves ==
    ASSUME TInv, StreamStep
    PROVE  /\ UNCHANGED <<pc, work, lapped, most>>
           /\ row'.count = row.count /\ row'.max = row.max
<1>1. ASSUME NEW o \in Operators, StartStep(o) \/ StopStep(o)
      PROVE  /\ UNCHANGED <<pc, work, lapped, most>>
             /\ row'.count = row.count /\ row'.max = row.max
  BY <1>1 DEF TInv, TablesTyped, StartStep, StopStep, StartIfOffline, CreateGroup, SetLive, InsertActive,
              InsertTracking, StopIfLive, TakeActive, SetOffline, RemoveGroup, DropTracking, Takes, tables, requests
<1>2. CASE DeleteRow \/ MonitorTick \/ MonitorMark \/ \E o \in Operators : GiveUp(o)
  BY <1>2 DEF TInv, TablesTyped, DeleteRow, MonitorTick, MonitorMark, GiveUp, tables, requests, history
<1> QED BY <1>1, <1>2 DEF StreamStep

(* The maximum.                                                            *)

(* A request that is about to write the row, and that no other has         *)
(* outdated, knows the maximum.                                            *)
MaximumKnown ==
    \A q \in Requests : pc[q] = "write_row" /\ q \notin lapped => work[q].max = row.max

LEMMA KnownKept ==
    ASSUME TInv, MaximumKnown, TInv', row'.max = row.max,
           \A q \in Requests : pc'[q] = "write_row" =>
                \/ pc[q] = "write_row" /\ work'[q].max = work[q].max /\ (q \in lapped => q \in lapped')
                \/ work'[q].max = row.max
    PROVE  MaximumKnown'
BY DEF MaximumKnown

LEMMA KnownStep == TInv /\ MaximumKnown /\ [Next]_vars => MaximumKnown'
<1> SUFFICES ASSUME TInv, MaximumKnown, [Next]_vars PROVE MaximumKnown'
  OBVIOUS
<1>a. RequestsTyped /\ TablesTyped /\ TInv'
  BY TypedStep DEF TInv
<1>1. ASSUME NEW q \in Requests, WriteRow(q) PROVE MaximumKnown'
  BY <1>a, <1>1 DEF MaximumKnown, RequestsTyped, WriteRow, End
<1>2. ASSUME NEW q \in Requests,
             \/ JoinStep(q) \/ LeaveStep(q) \/ CountViewers(q) \/ ShowCount(q) \/ ReadRow(q) \/ CountFails(q)
             \/ \E a \in Addresses : JoinStream(q, a) \/ LeaveStream(q, a)
      PROVE  MaximumKnown'
  <2>1. row' = row
    BY <1>2 DEF JoinStep, FindLive, RefuseJoin, GetStreamUrl, UrlFails, ReadKey, NotActive, JoinGroup,
                NoGroupToJoin, TrackViewer, LeaveStep, FindToLeave, RefuseLeave, ReadKeyToLeave,
                NothingToLeave, LeaveGroup, ForgetViewer, CountViewers, ShowCount, ReadRow, CountFails,
                JoinStream, LeaveStream, tables
  <2>2. \A p \in Requests \ {q} : pc'[p] = pc[p] /\ work'[p] = work[p] /\ (p \in lapped => p \in lapped')
    BY <1>a, <1>2 DEF RequestsTyped, JoinStep, FindLive, RefuseJoin, GetStreamUrl, UrlFails, ReadKey,
                NotActive, JoinGroup,
                NoGroupToJoin, TrackViewer, LeaveStep, FindToLeave, RefuseLeave, ReadKeyToLeave,
                NothingToLeave, LeaveGroup, ForgetViewer, CountViewers, ShowCount, ReadRow, CountFails,
                JoinStream, LeaveStream, Call, Go, End, history
  <2>3. pc'[q] = "write_row" => work'[q].max = row.max
    BY <1>a, <1>2 DEF RequestsTyped, Works, JoinStep, FindLive, RefuseJoin, GetStreamUrl, UrlFails, ReadKey,
                NotActive, JoinGroup,
                NoGroupToJoin, TrackViewer, LeaveStep, FindToLeave, RefuseLeave, ReadKeyToLeave,
                NothingToLeave, LeaveGroup, ForgetViewer, CountViewers, ShowCount, ReadRow, CountFails,
                JoinStream, LeaveStream, Call, Go, End
  <2> QED BY <1>a, <2>1, <2>2, <2>3, KnownKept
<1>3. CASE \/ \E a \in Addresses : GoesInactive(a)
           \/ ViewerCleanup
           \/ \E gone \in SUBSET Addresses : GroupCleanup(gone)
           \/ StreamStep \/ UNCHANGED vars
  <2>1. UNCHANGED <<pc, work, lapped>>
    BY <1>3, StreamLeaves DEF GoesInactive, ViewerCleanup, GroupCleanup, requests, history, vars
  <2>2. row'.max = row.max
    BY <1>a, <1>3, StreamLeaves DEF GoesInactive, ViewerCleanup, GroupCleanup, vars, tables
  <2> QED BY <2>1, <2>2 DEF MaximumKnown
<1> QED BY <1>1, <1>2, <1>3 DEF Next, CountStep

(* max_viewers goes down only by the hand of a request that had read the   *)
(* row before another one wrote it.                                        *)
THEOREM MaximumIsKept == Spec => MaximumKept
<1>1. Init => MaximumKnown
  BY DEF Init, MaximumKnown
<1>2. TInv /\ MaximumKnown /\ [Next]_vars =>
        [\/ row'.max >= row.max
         \/ \E q \in lapped : pc[q] = "write_row" /\ pc'[q] = "idle"]_vars
  <2> SUFFICES ASSUME TInv, MaximumKnown, Next
               PROVE  \/ row'.max >= row.max
                      \/ \E q \in lapped : pc[q] = "write_row" /\ pc'[q] = "idle"
    OBVIOUS
  <2>a. RequestsTyped /\ TablesTyped /\ row.max \in Nat
    BY DEF TInv, TablesTyped
  <2>1. ASSUME NEW q \in Requests, WriteRow(q)
        PROVE  \/ row'.max >= row.max
               \/ \E p \in lapped : pc[p] = "write_row" /\ pc'[p] = "idle"
    <3>1. pc[q] = "write_row" /\ pc'[q] = "idle"
      BY <2>a, <2>1 DEF RequestsTyped, WriteRow, End
    <3>2. CASE q \notin lapped /\ row.exists
      <4>1. row'.max = Larger(work[q].max, work[q].count) /\ work[q].max = row.max
        BY <2>a, <2>1, <3>1, <3>2 DEF WriteRow, MaximumKnown, TablesTyped
      <4>2. work[q].count \in Nat
        BY <2>a DEF RequestsTyped, Works
      <4> QED BY <2>a, <4>1, <4>2, LargerType
    <3>3. CASE ~row.exists
      BY <2>a, <2>1, <3>3 DEF WriteRow
    <3> QED BY <3>1, <3>2, <3>3
  <2>2. CASE \E q \in Requests :
             \/ JoinStep(q) \/ LeaveStep(q) \/ CountViewers(q) \/ ShowCount(q) \/ ReadRow(q) \/ CountFails(q)
             \/ \E a \in Addresses : JoinStream(q, a) \/ LeaveStream(q, a)
    BY <2>a, <2>2 DEF JoinStep, FindLive, RefuseJoin, GetStreamUrl, UrlFails, ReadKey, NotActive, JoinGroup,
                NoGroupToJoin, TrackViewer, LeaveStep, FindToLeave, RefuseLeave, ReadKeyToLeave,
                NothingToLeave, LeaveGroup, ForgetViewer, CountViewers, ShowCount, ReadRow, CountFails,
                JoinStream, LeaveStream, tables
  <2>3. CASE \/ \E a \in Addresses : GoesInactive(a)
             \/ ViewerCleanup
             \/ \E gone \in SUBSET Addresses : GroupCleanup(gone)
             \/ StreamStep
    BY <2>a, <2>3, StreamLeaves DEF GoesInactive, ViewerCleanup, GroupCleanup
  <2> QED BY <2>1, <2>2, <2>3 DEF Next, CountStep
<1>3. Spec => []TInv
  BY TypedAtFirst, TypedStep, PTL DEF Spec
<1> QED BY <1>1, <1>2, <1>3, KnownStep, PTL DEF Spec, MaximumKept
-----------------------------------------------------------------------------
-----------------------------------------------------------------------------
(* Who is tracked is in the group.                                         *)

(* A viewer about to be tracked is in the group already, and an address    *)
(* two requests are at work for is crossed.                                *)
JoinersInGroup ==
    \A q \in Requests : pc[q] = "track" /\ Address(q) \notin crossed => Address(q) \in group.viewers

OneEach ==
    \A p, q \in Requests :
        p # q /\ pc[p] # "idle" /\ pc[q] # "idle" /\ Address(p) = Address(q) => Address(q) \in crossed

Joined == TrackedInGroup /\ JoinersInGroup /\ OneEach

(* Steps that take no viewer out of the group or into tracking.            *)
LEMMA JoinedKept ==
    ASSUME TInv, TInv', Joined,
           crossed \subseteq crossed', group.viewers \ crossed' \subseteq group'.viewers,
           tracked'.viewers \subseteq tracked.viewers,
           \A q \in Requests : /\ pc[q] = "untrack" => pc'[q] = "untrack" /\ Address(q)' = Address(q)
                               /\ pc'[q] # "idle" => pc[q] # "idle" /\ Address(q)' = Address(q)
                               /\ pc'[q] = "track" => pc[q] = "track" \/ Address(q)' \in group'.viewers
    PROVE  Joined'
<1>1. TrackedInGroup'
  BY DEF Joined, TrackedInGroup
<1>2. JoinersInGroup'
  BY DEF Joined, JoinersInGroup
<1>3. OneEach'
  BY DEF Joined, OneEach
<1> QED BY <1>1, <1>2, <1>3 DEF Joined

LEMMA JoinedRequests ==
    ASSUME TInv, TInv', Joined, NEW q \in Requests,
           JoinStep(q) \/ LeaveStep(q) \/ CountStep(q)
    PROVE  Joined'
<1>a. RequestsTyped /\ TablesTyped
  BY DEF TInv
<1>1. CASE TrackViewer(q)
  <2>1. /\ pc[q] = "track" /\ pc'[q] = "count" /\ \A p \in Requests : Address(p)' = Address(p)
        /\ \A p \in Requests \ {q} : pc'[p] = pc[p]
        /\ UNCHANGED <<group, crossed>>
    BY <1>a, <1>1 DEF RequestsTyped, TrackViewer, Go, Address
  <2>2. tracked'.viewers \subseteq tracked.viewers \cup {Address(q)}
    BY <1>a, <1>1 DEF TablesTyped, TrackViewer, Watching
  <2>3. TrackedInGroup'
    BY <2>1, <2>2 DEF Joined, TrackedInGroup, JoinersInGroup
  <2>4. JoinersInGroup' /\ OneEach'
    BY <2>1 DEF Joined, JoinersInGroup, OneEach
  <2> QED BY <2>3, <2>4 DEF Joined
<1>2. CASE LeaveGroup(q)
  <2>1. /\ pc[q] = "ungroup" /\ pc'[q] = "untrack" /\ \A p \in Requests : Address(p)' = Address(p)
        /\ \A p \in Requests \ {q} : pc'[p] = pc[p]
        /\ UNCHANGED <<tracked, crossed>>
        /\ group'.viewers = group.viewers \ {Address(q)}
    BY <1>a, <1>2 DEF RequestsTyped, TablesTyped, LeaveGroup, Go, Address
  <2>2. TrackedInGroup'
    BY <2>1 DEF Joined, TrackedInGroup
  <2>3. JoinersInGroup'
    BY <2>1 DEF Joined, JoinersInGroup, OneEach
  <2>4. OneEach'
    BY <2>1 DEF Joined, OneEach
  <2> QED BY <2>2, <2>3, <2>4 DEF Joined
<1>3. CASE ForgetViewer(q)
  <2>1. /\ pc[q] = "untrack" /\ pc'[q] = "count" /\ \A p \in Requests : Address(p)' = Address(p)
        /\ \A p \in Requests \ {q} : pc'[p] = pc[p]
        /\ UNCHANGED <<group, crossed>>
        /\ tracked'.viewers = tracked.viewers \ {Address(q)}
    BY <1>a, <1>3 DEF RequestsTyped, TablesTyped, ForgetViewer, Go, Address, history
  <2>2. TrackedInGroup'
    BY <2>1 DEF Joined, TrackedInGroup
  <2>3. JoinersInGroup' /\ OneEach'
    BY <2>1 DEF Joined, JoinersInGroup, OneEach
  <2> QED BY <2>2, <2>3 DEF Joined
<1>4. CASE (JoinStep(q) /\ ~TrackViewer(q)) \/ (LeaveStep(q) /\ ~LeaveGroup(q) /\ ~ForgetViewer(q)) \/ CountStep(q)
  <2> USE DEF JoinStep, LeaveStep, CountStep, FindLive, RefuseJoin, GetStreamUrl, UrlFails, ReadKey,
              NotActive, JoinGroup, NoGroupToJoin, FindToLeave, RefuseLeave, ReadKeyToLeave,
              NothingToLeave, CountViewers, ShowCount, ReadRow, WriteRow, CountFails, history, tables
  <2>1. UNCHANGED <<tracked, crossed>>
    BY <1>4 DEF Go, End
  <2>2. group.viewers \subseteq group'.viewers
    BY <1>a, <1>4 DEF TablesTyped
  <2>3. ASSUME NEW p \in Requests
        PROVE  /\ pc[p] = "untrack" => pc'[p] = "untrack" /\ Address(p)' = Address(p)
               /\ pc'[p] # "idle" => pc[p] # "idle" /\ Address(p)' = Address(p)
               /\ pc'[p] = "track" => pc[p] = "track" \/ Address(p)' \in group'.viewers
    <3>1. CASE p # q
      BY <1>a, <1>4, <3>1 DEF RequestsTyped, Go, End, Address
    <3>2. CASE p = q /\ JoinGroup(q)
      BY <1>a, <3>2 DEF RequestsTyped, TablesTyped, lifecycle, Go, Address
    <3>3. CASE p = q /\ ~JoinGroup(q)
      BY <1>a, <1>4, <3>3 DEF RequestsTyped, Works, Go, End, Address
    <3> QED BY <3>1, <3>2, <3>3
  <2> QED BY <2>1, <2>2, <2>3, JoinedKept
<1> QED BY <1>1, <1>2, <1>3, <1>4

LEMMA JoinedCall ==
    ASSUME TInv, TInv', Joined, NEW q \in Requests, NEW a \in Addresses,
           JoinStream(q, a) \/ LeaveStream(q, a)
    PROVE  Joined'
<1>1. /\ pc[q] = "idle" /\ pc'[q] \in {"find", "find_leave"} /\ Address(q)' = a
      /\ \A p \in Requests \ {q} : pc'[p] = pc[p] /\ Address(p)' = Address(p)
      /\ UNCHANGED <<tracked, group>>
      /\ crossed \subseteq crossed'
      /\ (\E p \in Requests : Address(p) = a) => a \in crossed'
  BY DEF TInv, RequestsTyped, Works, JoinStream, LeaveStream, Call, Address, tables
<1>2. TrackedInGroup'
  BY <1>1 DEF Joined, TrackedInGroup
<1>3. JoinersInGroup'
  BY <1>1 DEF Joined, JoinersInGroup
<1>4. OneEach'
  BY <1>1 DEF Joined, OneEach
<1> QED BY <1>2, <1>3, <1>4 DEF Joined

LEMMA JoinedStream ==
    ASSUME TInv, TInv', Joined, StreamStep
    PROVE  Joined'
<1>a. TablesTyped
  BY DEF TInv
<1>b. UNCHANGED <<pc, work>> /\ \A q \in Requests : Address(q)' = Address(q)
  BY StreamLeaves DEF Address
<1>1. ASSUME \/ DeleteRow \/ MonitorTick \/ MonitorMark
             \/ \E o \in Operators : \/ StartIfOffline(o) \/ SetLive(o) \/ InsertActive(o)
                                     \/ StopIfLive(o) \/ TakeActive(o) \/ SetOffline(o) \/ GiveUp(o)
      PROVE  Joined'
  <2>1. UNCHANGED <<group, tracked, crossed>>
    BY <1>1 DEF DeleteRow, MonitorTick, MonitorMark, StartIfOffline, SetLive, InsertActive, StopIfLive,
                TakeActive, SetOffline, GiveUp, tables, history
  <2> QED BY <1>b, <2>1, JoinedKept
<1>2. ASSUME NEW o \in Operators, CreateGroup(o) \/ RemoveGroup(o) PROVE Joined'
  <2>1. /\ group.viewers \subseteq crossed' /\ crossed \subseteq crossed' /\ UNCHANGED tracked
        /\ \A q \in Requests : pc[q] = "track" => Address(q) \in crossed'
    BY <1>2 DEF CreateGroup, RemoveGroup, LoseGroup
  <2> QED BY <1>b, <2>1 DEF Joined, TrackedInGroup, JoinersInGroup, OneEach
<1>3. ASSUME NEW o \in Operators, InsertTracking(o) \/ DropTracking(o) PROVE Joined'
  <2>1. tracked'.viewers = {} /\ UNCHANGED group
    BY <1>3 DEF InsertTracking, DropTracking, NoEntry
  <2>2. \A q \in Requests : pc[q] # "idle" /\ Address(q) \in crossed => Address(q) \in crossed'
    BY <1>3 DEF InsertTracking, DropTracking, BeginTracking
  <2> QED BY <1>b, <2>1, <2>2 DEF Joined, TrackedInGroup, JoinersInGroup, OneEach
<1> QED BY <1>1, <1>2, <1>3 DEF StreamStep, StartStep, StopStep

LEMMA JoinedOtherwise ==
    ASSUME TInv, TInv', Joined,
           \/ \E a \in Addresses : GoesInactive(a)
           \/ ViewerCleanup
           \/ \E gone \in SUBSET Addresses : GroupCleanup(gone)
    PROVE  Joined'
<1>a. TablesTyped
  BY DEF TInv
<1>b. UNCHANGED <<pc, work>> /\ \A q \in Requests : Address(q)' = Address(q)
  BY DEF GoesInactive, ViewerCleanup, GroupCleanup, requests, Address
<1>1. CASE (\E a \in Addresses : GoesInactive(a)) \/ ViewerCleanup
  <2>1. UNCHANGED <<group, crossed>> /\ tracked'.viewers \subseteq tracked.viewers
    BY <1>a, <1>1 DEF TablesTyped, GoesInactive, ViewerCleanup, history
  <2> QED BY <1>b, <2>1, JoinedKept
<1>2. ASSUME NEW gone \in SUBSET Addresses, GroupCleanup(gone)
      PROVE  Joined'
  <2>1. crossed' = crossed \cup gone /\ UNCHANGED tracked
    BY <1>2 DEF GroupCleanup
  <2>2. group.viewers \ gone \subseteq group'.viewers
    BY <1>a, <1>2 DEF TablesTyped, GroupCleanup
  <2> QED BY <1>b, <2>1, <2>2, JoinedKept
<1> QED BY <1>1, <1>2

(* Whoever is tracked is sent packets, but for addresses on which requests *)
(* overlapped, that the group's own cleanup dropped, or whose group a      *)
(* start or a stop took away without (or before) tracking beginning anew.  *)
THEOREM TrackedAreInGroup == Spec => []TrackedInGroup
<1>1. Init => Joined
  BY DEF Init, Joined, TrackedInGroup, JoinersInGroup, OneEach, NoEntry
<1>2. TInv /\ Joined /\ [Next]_vars => Joined'
  <2> SUFFICES ASSUME TInv, Joined, [Next]_vars PROVE Joined'
    OBVIOUS
  <2>1. TInv'
    BY TypedStep
  <2>2. CASE UNCHANGED vars
    BY <2>2 DEF Joined, TrackedInGroup, JoinersInGroup, OneEach, Address, vars, tables, requests, history
  <2> QED BY <2>1, <2>2, JoinedRequests, JoinedCall, JoinedOtherwise, JoinedStream DEF Next
<1>3. Joined => TrackedInGroup
  BY DEF Joined
<1>4. Spec => []TInv
  BY TypedAtFirst, TypedStep, PTL DEF Spec
<1> QED BY <1>1, <1>2, <1>3, <1>4, PTL DEF Spec
-----------------------------------------------------------------------------
-----------------------------------------------------------------------------
(* What one request alone has counted is right.                            *)

Entered == {"track", "untrack"} \cup Counting

AloneIsAlone ==
    \A q \in alone : pc[q] \in Entered /\ \A p \in Requests \ {q} : pc[p] \notin Entered

EnteredAreAlone == ~unsettled => \A q \in Requests : pc[q] \in Entered => q \in alone

(* What the request alone at work has counted is still the audience, and   *)
(* once it has shown it, active_streams agrees.                            *)
AloneIsRight ==
    \A q \in alone :
        /\ pc[q] \in {"show", "read_row", "write_row"} => work[q].count = Audience
        /\ pc[q] \in {"read_row", "write_row"} /\ shown.listed => shown.count = Audience

QuietIsRight ==
    ~unsettled /\ shown.listed /\ tracked.listed /\ (\A q \in Requests : pc[q] \notin Entered)
        => shown.count = Audience /\ (row.exists => row.count = Audience)

Settled == AloneIsAlone /\ EnteredAreAlone /\ AloneIsRight /\ QuietIsRight

(* Steps of requests that are not counting, and of the stream.             *)
LEMMA SettledKept ==
    ASSUME TInv, TInv', Settled,
           UNCHANGED <<alone, unsettled>>, Audience' = Audience,
           row'.count = row.count, row'.exists => row.exists,
           shown'.listed => shown.listed /\ shown'.count = shown.count,
           tracked'.listed => tracked.listed,
           \A q \in Requests : pc[q] \in Entered \/ pc'[q] \in Entered =>
                                   pc'[q] = pc[q] /\ work'[q].count = work[q].count
    PROVE  Settled'
<1>1. alone \subseteq Requests
  BY DEF TInv, RequestsTyped
<1>2. AloneIsAlone' /\ EnteredAreAlone'
  BY <1>1 DEF Settled, AloneIsAlone, EnteredAreAlone
<1>3. AloneIsRight'
  BY <1>1 DEF Settled, AloneIsAlone, AloneIsRight
<1>4. QuietIsRight'
  BY <1>1 DEF Settled, QuietIsRight
<1> QED BY <1>2, <1>3, <1>4 DEF Settled

(* Something comes between the counts and the viewers.                     *)
LEMMA SettledLost ==
    ASSUME Unsettle
    PROVE  Settled'
BY DEF Unsettle, Settled, AloneIsAlone, EnteredAreAlone, AloneIsRight, QuietIsRight

LEMMA SettledEntering ==
    ASSUME TInv, TInv', Settled, NEW q \in Requests, JoinGroup(q) \/ LeaveGroup(q)
    PROVE  Settled'
<1>1. /\ pc[q] \notin Entered /\ pc'[q] \in {"track", "untrack"}
      /\ \A p \in Requests \ {q} : pc'[p] = pc[p]
      /\ EnterTables(q)
  BY DEF TInv, RequestsTyped, JoinGroup, LeaveGroup, Go, Entered, Counting
<1>2. CASE \E p \in Requests \ {q} : pc[p] \in Inside
  <2>1. Unsettle
    BY <1>1, <1>2 DEF EnterTables, Unsettle
  <2> QED BY <2>1, SettledLost
<1>3. CASE \A p \in Requests \ {q} : pc[p] \notin Inside
  <2>1. alone' = {q} /\ \A p \in Requests \ {q} : pc'[p] \notin Entered
    BY <1>1, <1>3 DEF EnterTables, Inside, Entered
  <2>2. pc'[q] \in Entered /\ pc'[q] \notin {"show", "read_row", "write_row"}
    BY <1>1 DEF Entered
  <2> QED BY <2>1, <2>2 DEF Settled, AloneIsAlone, EnteredAreAlone, AloneIsRight, QuietIsRight
<1> QED BY <1>2, <1>3

(* A request that is counting takes a step and is counting still.          *)
LEMMA SettledCounting ==
    ASSUME TInv, TInv', Settled, NEW q \in Requests,
           TrackViewer(q) \/ ForgetViewer(q) \/ CountViewers(q) \/ ShowCount(q) \/ ReadRow(q)
    PROVE  Settled'
<1>1. /\ pc[q] \in Entered /\ pc'[q] \in Entered
      /\ \A p \in Requests \ {q} : pc'[p] = pc[p] /\ work'[p] = work[p]
      /\ UNCHANGED <<alone, unsettled>>
  BY DEF TInv, RequestsTyped, TrackViewer, ForgetViewer, CountViewers, ShowCount, ReadRow, Go, Entered,
         Counting, history
<1>2. AloneIsAlone' /\ EnteredAreAlone' /\ QuietIsRight'
  BY <1>1 DEF TInv, RequestsTyped, Settled, AloneIsAlone, EnteredAreAlone, QuietIsRight
<1>3. ASSUME q \in alone
      PROVE  /\ pc'[q] \in {"show", "read_row", "write_row"} => work'[q].count = Audience'
             /\ pc'[q] \in {"read_row", "write_row"} /\ shown'.listed => shown'.count = Audience'
  <2>a. RequestsTyped /\ TablesTyped
    BY DEF TInv
  <2>1. CASE TrackViewer(q) \/ ForgetViewer(q)
    BY <2>a, <2>1 DEF RequestsTyped, TrackViewer, ForgetViewer, Go
  <2>2. CASE CountViewers(q)
    <3>1. pc'[q] = "show" /\ work'[q].count = Audience /\ UNCHANGED tracked
      BY <2>a, <2>2 DEF RequestsTyped, Works, CountViewers, Go, tables
    <3> QED BY <3>1 DEF Audience
  <2>3. CASE ShowCount(q)
    <3>1. /\ pc[q] = "show" /\ pc'[q] = "read_row" /\ UNCHANGED <<tracked, work>>
          /\ shown'.listed => shown'.count = work[q].count
      BY <2>a, <2>3 DEF RequestsTyped, TablesTyped, ShowCount, Go
    <3> QED BY <1>3, <3>1 DEF Settled, AloneIsRight, Audience
  <2>4. CASE ReadRow(q)
    <3>1. /\ pc[q] = "read_row" /\ pc'[q] = "write_row" /\ UNCHANGED <<tracked, shown>>
          /\ work'[q].count = work[q].count
      BY <2>a, <2>4 DEF RequestsTyped, Works, ReadRow, Go, tables
    <3> QED BY <1>3, <3>1 DEF Settled, AloneIsRight, Audience
  <2> QED BY <2>1, <2>2, <2>3, <2>4
<1>4. AloneIsRight'
  <2> SUFFICES ASSUME NEW p \in alone'
               PROVE  /\ pc'[p] \in {"show", "read_row", "write_row"} => work'[p].count = Audience'
                      /\ pc'[p] \in {"read_row", "write_row"} /\ shown'.listed => shown'.count = Audience'
    BY DEF AloneIsRight
  <2>1. p \in Requests /\ p \in alone
    BY <1>1 DEF TInv, RequestsTyped
  <2>2. p = q
    BY <1>1, <2>1 DEF Settled, AloneIsAlone
  <2> QED BY <1>3, <2>1, <2>2
<1> QED BY <1>2, <1>4 DEF Settled

LEMMA SettledWriting ==
    ASSUME TInv, TInv', Settled, NEW q \in Requests, WriteRow(q)
    PROVE  Settled'
<1>a. RequestsTyped /\ TablesTyped
  BY DEF TInv
<1>1. /\ pc[q] = "write_row" /\ pc[q] \in Entered /\ pc'[q] = "idle" /\ "idle" \notin Entered
      /\ \A p \in Requests \ {q} : pc'[p] = pc[p] /\ work'[p] = work[p]
      /\ UNCHANGED <<tracked, shown>> /\ Audience' = Audience
      /\ alone' = alone \ {q} /\ unsettled' = (unsettled /\ q \notin alone)
      /\ row'.exists => row'.count = work[q].count
  BY <1>a DEF RequestsTyped, TablesTyped, WriteRow, End, Entered, Counting, Audience
<1>2. AloneIsAlone'
  BY <1>a, <1>1 DEF RequestsTyped, Settled, AloneIsAlone
<1>3. AloneIsRight'
  BY <1>a, <1>1 DEF RequestsTyped, Settled, AloneIsRight
<1>4. CASE q \notin alone
  <2>1. unsettled'
    BY <1>a, <1>1, <1>4 DEF Settled, EnteredAreAlone, TablesTyped
  <2> QED BY <1>2, <1>3, <2>1 DEF Settled, EnteredAreAlone, QuietIsRight
<1>5. CASE q \in alone
  <2>1. \A p \in Requests : pc'[p] \notin Entered
    BY <1>1, <1>5 DEF Settled, AloneIsAlone
  <2>2. work[q].count = Audience /\ (shown.listed => shown.count = Audience)
    BY <1>1, <1>5 DEF Settled, AloneIsRight
  <2>3. QuietIsRight'
    BY <1>1, <2>2 DEF QuietIsRight
  <2> QED BY <1>2, <1>3, <2>1, <2>3 DEF Settled, EnteredAreAlone
<1> QED BY <1>4, <1>5

LEMMA SettledRequests ==
    ASSUME TInv, TInv', Settled, NEW q \in Requests,
           \/ \E a \in Addresses : JoinStream(q, a) \/ LeaveStream(q, a)
           \/ JoinStep(q) \/ LeaveStep(q) \/ CountStep(q)
    PROVE  Settled'
<1>a. RequestsTyped /\ TablesTyped
  BY DEF TInv
<1>1. CASE CountFails(q)
  BY <1>1, SettledLost DEF CountFails
<1>2. CASE \/ \E a \in Addresses : JoinStream(q, a) \/ LeaveStream(q, a)
           \/ FindLive(q) \/ RefuseJoin(q) \/ GetStreamUrl(q) \/ UrlFails(q) \/ ReadKey(q)
           \/ NotActive(q) \/ NoGroupToJoin(q)
           \/ FindToLeave(q) \/ RefuseLeave(q) \/ ReadKeyToLeave(q) \/ NothingToLeave(q)
  <2>1. UNCHANGED <<alone, unsettled, tracked, row, shown>>
    BY <1>2 DEF JoinStream, LeaveStream, FindLive, RefuseJoin, GetStreamUrl, UrlFails, ReadKey, NotActive,
                NoGroupToJoin, FindToLeave, RefuseLeave, ReadKeyToLeave, NothingToLeave, Call, tables, history
  <2>2. /\ pc[q] \notin Entered /\ pc'[q] \notin Entered
        /\ \A p \in Requests \ {q} : pc'[p] = pc[p] /\ work'[p] = work[p]
    BY <1>a, <1>2 DEF RequestsTyped, JoinStream, LeaveStream, FindLive, RefuseJoin, GetStreamUrl, UrlFails,
                ReadKey, NotActive, NoGroupToJoin, FindToLeave, RefuseLeave, ReadKeyToLeave, NothingToLeave,
                Call, Go, End, Entered, Counting
  <2>3. \A p \in Requests : pc[p] \in Entered \/ pc'[p] \in Entered =>
                                 pc'[p] = pc[p] /\ work'[p].count = work[p].count
    BY <2>2
  <2>4. Audience' = Audience /\ UNCHANGED <<alone, unsettled, row, shown, tracked>>
    BY <2>1 DEF Audience
  <2> QED BY <2>3, <2>4, SettledKept
<1> QED BY <1>1, <1>2, SettledEntering, SettledCounting, SettledWriting DEF JoinStep, LeaveStep, CountStep

(* The counts begin anew: right if all are zero and nobody is at work.     *)
LEMMA SettledAnew ==
    ASSUME TInv, TInv', UNCHANGED <<pc, row>>, BeginCounts
    PROVE  Settled'
<1>1. ~unsettled' => /\ row'.count = 0 /\ shown'.count = 0 /\ Audience' = 0
                     /\ \A q \in Requests : pc'[q] \notin Inside
  BY FS_EmptySet DEF BeginCounts, Audience
<1>2. Entered \subseteq Inside
  BY DEF Entered, Inside
<1> QED BY <1>1, <1>2 DEF BeginCounts, Settled, AloneIsAlone, EnteredAreAlone, AloneIsRight, QuietIsRight

LEMMA SettledStream ==
    ASSUME TInv, TInv', Settled, StreamStep
    PROVE  Settled'
<1>a. TablesTyped
  BY DEF TInv
<1>b. UNCHANGED <<pc, work>> /\ row'.count = row.count
  BY StreamLeaves
<1>1. ASSUME NEW o \in Operators, InsertActive(o) \/ InsertTracking(o) \/ DropTracking(o)
      PROVE  Settled'
  BY <1>b, <1>1, SettledAnew DEF InsertActive, InsertTracking, DropTracking
<1>2. ASSUME \/ DeleteRow \/ MonitorTick \/ MonitorMark
             \/ \E o \in Operators : \/ StartIfOffline(o) \/ CreateGroup(o) \/ SetLive(o)
                                     \/ StopIfLive(o) \/ TakeActive(o) \/ SetOffline(o) \/ RemoveGroup(o)
                                     \/ GiveUp(o)
      PROVE  Settled'
  <2>1. /\ UNCHANGED <<alone, unsettled, tracked>>
        /\ row'.exists => row.exists
        /\ shown'.listed => shown.listed /\ shown'.count = shown.count
    BY <1>a, <1>2 DEF TablesTyped, DeleteRow, MonitorTick, MonitorMark, StartIfOffline, CreateGroup, SetLive,
                      StopIfLive, TakeActive, SetOffline, RemoveGroup, GiveUp, Unlisted, tables, history
  <2>2. Audience' = Audience
    BY <2>1 DEF Audience
  <2> QED BY <1>b, <2>1, <2>2, SettledKept
<1> QED BY <1>1, <1>2 DEF StreamStep, StartStep, StopStep

LEMMA SettledOtherwise ==
    ASSUME TInv, TInv', Settled,
           \/ \E a \in Addresses : GoesInactive(a)
           \/ ViewerCleanup
           \/ \E gone \in SUBSET Addresses : GroupCleanup(gone)
    PROVE  Settled'
<1>a. TablesTyped
  BY DEF TInv
<1>1. CASE ViewerCleanup
  BY <1>1, SettledLost DEF ViewerCleanup
<1>2. CASE \/ \E a \in Addresses : GoesInactive(a)
           \/ \E gone \in SUBSET Addresses : GroupCleanup(gone)
  <2>1. UNCHANGED <<alone, unsettled, tracked, shown, row, pc, work>>
    BY <1>a, <1>2 DEF TablesTyped, GoesInactive, GroupCleanup, requests, history
  <2>2. Audience' = Audience
    BY <2>1 DEF Audience
  <2> QED BY <2>1, <2>2, SettledKept
<1> QED BY <1>1, <1>2

(* With nobody at work, active_streams and the row say how many viewers    *)
(* are tracked, unless something came in between since the last request    *)
(* that counted on its own.                                                *)
THEOREM CountsDoAgree == Spec => []CountsAgree
<1>1. Init => Settled
  BY DEF Init, Settled, AloneIsAlone, EnteredAreAlone, AloneIsRight, QuietIsRight, Entered, Counting, NoEntry
<1>2. TInv /\ Settled /\ [Next]_vars => Settled'
  <2> SUFFICES ASSUME TInv, Settled, [Next]_vars PROVE Settled'
    OBVIOUS
  <2>1. TInv'
    BY TypedStep
  <2>2. CASE UNCHANGED vars
    BY <2>2 DEF Settled, AloneIsAlone, EnteredAreAlone, AloneIsRight, QuietIsRight, Audience, vars, tables,
                requests, history
  <2> QED BY <2>1, <2>2, SettledRequests, SettledOtherwise, SettledStream DEF Next
<1>3. Settled => CountsAgree
  BY DEF Settled, QuietIsRight, CountsAgree, Entered, Inside
<1>4. Spec => []TInv
  BY TypedAtFirst, TypedStep, PTL DEF Spec
<1> QED BY <1>1, <1>2, <1>3, <1>4, PTL DEF Spec
=============================================================================
