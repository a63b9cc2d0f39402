----------------------- MODULE TranscoderManager_proofs -----------------------
(***************************************************************************)
(* The safety properties of TranscoderManager, for any finite set of jobs  *)
(* and any number of permits.                                              *)
(*                                                                         *)
(* None of them is inductive by itself.  That a permit is free or held     *)
(* needs the queue to list exactly the waiting tasks, once each: a permit  *)
(* handed to a task that already holds one would be lost.  That statuses   *)
(* tell the truth needs to know at which awaits a job may have a process.  *)
(***************************************************************************)
EXTENDS TranscoderManager, TLAPS, FiniteSetTheorems

(* TypeOK without the bound on the free permits, which follows from their  *)
(* conservation.                                                           *)
Shape ==
    /\ Listed \subseteq Jobs
    /\ active_jobs \in [Listed -> [status : Statuses, child_process : BOOLEAN]]
    /\ available_permits \in Nat
    /\ waiters \in Seq(Jobs)
    /\ pc \in [Jobs -> PCs]
    /\ process \in [Jobs -> {"none", "running", "succeeded", "failed"}]
    /\ signalled \subseteq Jobs
    /\ stop \in [Jobs -> {"none", "kill", "stopped", "not_found"}]

(* The queue lists the waiting tasks, once each, and only while no permit  *)
(* is free.                                                                *)
QueueSound ==
    /\ \A i \in 1..Len(waiters) : pc[waiters[i]] = "waiting"
    /\ \A j \in Jobs : pc[j] = "waiting" => \E i \in 1..Len(waiters) : waiters[i] = j
    /\ \A i, k \in 1..Len(waiters) : waiters[i] = waiters[k] => i = k
    /\ available_permits > 0 => waiters = <<>>

PermitsHeld == Cardinality(Holders) + available_permits = MaxConcurrent

NoProcessYet == {"new", "acquire", "waiting", "starting", "build", "mark_failed"}

(* Where a task is tells what its process and its entry may be.            *)
ProcessKnown ==
    \A j \in Jobs :
        /\ pc[j] \in NoProcessYet => process[j] = "none"
        /\ pc[j] \in {"register", "select", "mark_exit", "mark_error"} => process[j] # "none"
        /\ pc[j] = "mark_exit" => process[j] # "running"

EntryKnown ==
    \A j \in Listed :
        /\ pc[j] \notin {"new", "return"}
        /\ active_jobs[j].status = "Running" =>
              pc[j] \in {"select", "mark_exit", "mark_error", "cleanup"}
        /\ active_jobs[j].status = "Completed" => pc[j] = "cleanup" /\ process[j] = "succeeded"
        /\ active_jobs[j].status = "Failed" =>
              \/ pc[j] = "cleanup" /\ process[j] = "failed"
              \/ pc[j] = "cleanup_error"
              \/ pc[j] = "done" /\ process[j] = "none"
        /\ pc[j] = "done" => active_jobs[j].status \in {"Failed", "Cancelled"}

IInv == Shape /\ QueueSound /\ PermitsHeld /\ ProcessKnown /\ EntryKnown
-----------------------------------------------------------------------------
LEMMA HoldersFinite ==
    IsFiniteSet(Holders) /\ Cardinality(Holders) \in Nat
  BY JobsFinite, FS_Subset, FS_CardinalityType DEF Holders

(* The table is a function on its domain, whatever is done to one entry.   *)
LEMMA UpdateKeepsShape ==
    ASSUME Shape, NEW j \in Jobs, NEW status \in Statuses, UpdateStatus(j, status)
    PROVE  /\ Listed' = Listed
           /\ active_jobs' \in [Listed -> [status : Statuses, child_process : BOOLEAN]]
           /\ \A i \in Listed \ {j} : active_jobs'[i] = active_jobs[i]
           /\ j \in Listed => active_jobs'[j].status = status
  BY DEF Shape, UpdateStatus, Listed

(* A permit given back is free, or goes to the first task of the queue.    *)
LEMMA ReleaseKeepsPermits ==
    ASSUME Shape, QueueSound, PermitsHeld, NEW j \in Jobs,
           NEW from \in {"build", "return"}, NEW to \in {"mark_failed", "done"},
           MoveAndRelease(j, from, to)
    PROVE  /\ available_permits' \in Nat
           /\ waiters' \in Seq(Jobs)
           /\ pc' \in [Jobs -> PCs]
           /\ pc'[j] = to
           /\ \A i \in Jobs \ {j} : pc'[i] = pc[i] \/ (pc[i] = "waiting" /\ pc'[i] = "starting")
           /\ QueueSound' /\ PermitsHeld'
<1>1. j \in Holders /\ pc[j] = from /\ pc[j] # "waiting"
  BY DEF MoveAndRelease, Holders, HoldsPermit, Shape
<1>2. CASE waiters = <<>>
  <2>1. /\ available_permits' = available_permits + 1
        /\ pc' = [pc EXCEPT ![j] = to]
        /\ waiters' = <<>>
    BY <1>2 DEF MoveAndRelease
  <2>2. Holders' = Holders \ {j}
    BY <2>1 DEF Holders, HoldsPermit, Shape
  <2>3. Cardinality(Holders') = Cardinality(Holders) - 1
    BY <1>1, <2>2, HoldersFinite, FS_RemoveElement
  <2>4. PermitsHeld'
    BY <2>1, <2>3, HoldersFinite, MaxConcurrentAssumption DEF PermitsHeld, Shape
  <2>5. pc' \in [Jobs -> PCs] /\ available_permits' \in Nat
    BY <2>1 DEF Shape, PCs
  <2>6. QueueSound'
    BY <1>2, <2>1 DEF QueueSound, Shape
  <2> QED BY <1>2, <2>1, <2>4, <2>5, <2>6 DEF Shape
<1>3. CASE waiters # <<>>
  <2> DEFINE w == Head(waiters)
  <2>1. /\ available_permits' = available_permits
        /\ pc' = [pc EXCEPT ![j] = to, ![w] = "starting"]
        /\ waiters' = Tail(waiters)
    BY <1>3 DEF MoveAndRelease
  <2>2. /\ Len(waiters) \in Nat /\ Len(waiters) >= 1
        /\ w = waiters[1] /\ w \in Jobs
        /\ waiters' \in Seq(Jobs)
        /\ Len(waiters') = Len(waiters) - 1
        /\ \A i \in 1..Len(waiters') : waiters'[i] = waiters[i + 1]
    BY <1>3, <2>1 DEF Shape
  <2>3. pc[w] = "waiting" /\ w # j
    BY <1>1, <2>2 DEF QueueSound
  <2>4. /\ pc' \in [Jobs -> PCs] /\ pc'[j] = to /\ pc'[w] = "starting"
        /\ \A i \in Jobs \ {j, w} : pc'[i] = pc[i]
    BY <2>1, <2>2, <2>3 DEF Shape, PCs
  <2>5. Holders' = (Holders \ {j}) \cup {w} /\ w \notin Holders \ {j}
    BY <1>1, <2>2, <2>3, <2>4 DEF Holders, HoldsPermit
  <2>6. Cardinality(Holders') = Cardinality(Holders)
    <3>1. /\ IsFiniteSet(Holders \ {j})
          /\ Cardinality(Holders \ {j}) = Cardinality(Holders) - 1
      BY <1>1, HoldersFinite, FS_RemoveElement
    <3>2. Cardinality((Holders \ {j}) \cup {w}) = Cardinality(Holders \ {j}) + 1
      BY <2>5, <3>1, FS_AddElement
    <3> QED BY <2>5, <3>1, <3>2, HoldersFinite
  <2>7. PermitsHeld'
    BY <2>1, <2>6 DEF PermitsHeld
  <2>8. QueueSound'
    <3>1. available_permits' > 0 => waiters' = <<>>
      BY <1>3, <2>1 DEF QueueSound
    <3>2. \A i \in 1..Len(waiters') : i + 1 \in 1..Len(waiters) /\ i + 1 # 1
      BY <2>2
    <3>3. ASSUME NEW i \in 1..Len(waiters') PROVE pc'[waiters'[i]] = "waiting"
      <4>1. waiters'[i] = waiters[i + 1] /\ waiters[i + 1] # w
        BY <2>2, <3>2 DEF QueueSound
      <4>2. pc[waiters[i + 1]] = "waiting" /\ waiters[i + 1] \in Jobs
        BY <3>2 DEF QueueSound, Shape
      <4> QED BY <1>1, <2>4, <4>1, <4>2
    <3>4. ASSUME NEW k \in Jobs, pc'[k] = "waiting"
          PROVE  \E i \in 1..Len(waiters') : waiters'[i] = k
      <4>1. k # w /\ pc[k] = "waiting"
        BY <2>3, <2>4, <3>4
      <4>2. PICK i \in 1..Len(waiters) : waiters[i] = k
        BY <4>1 DEF QueueSound
      <4>3. i # 1 /\ i - 1 \in 1..Len(waiters') /\ waiters'[i - 1] = waiters[i]
        BY <2>2, <4>1, <4>2
      <4> QED BY <4>2, <4>3
    <3>5. ASSUME NEW i \in 1..Len(waiters'), NEW k \in 1..Len(waiters'), waiters'[i] = waiters'[k]
          PROVE  i = k
      <4>1. waiters[i + 1] = waiters[k + 1]
        BY <2>2, <3>5
      <4>2. i + 1 = k + 1
        BY <3>2, <4>1 DEF QueueSound
      <4> QED BY <4>2
    <3> QED BY <3>1, <3>3, <3>4, <3>5 DEF QueueSound
  <2> QED BY <2>1, <2>2, <2>3, <2>4, <2>7, <2>8 DEF Shape
<1> QED BY <1>2, <1>3

(* A task that moves without touching the semaphore, between two awaits at *)
(* which it holds a permit or at neither.                                  *)
LEMMA MoveKeepsPermits ==
    ASSUME Shape, QueueSound, PermitsHeld, NEW j \in Jobs, NEW from, NEW to \in PCs,
           Move(j, from, to), UNCHANGED semaphore,
           from # "waiting", to # "waiting",
           HoldsPermit(j) <=> HoldsPermit(j)'
    PROVE  /\ pc' \in [Jobs -> PCs] /\ pc'[j] = to
           /\ \A i \in Jobs \ {j} : pc'[i] = pc[i]
           /\ available_permits' \in Nat /\ waiters' \in Seq(Jobs)
           /\ QueueSound' /\ PermitsHeld'
<1>1. /\ pc' \in [Jobs -> PCs] /\ pc'[j] = to
      /\ \A i \in Jobs \ {j} : pc'[i] = pc[i]
  BY DEF Move, Shape
<1>2. Holders' = Holders
  BY <1>1 DEF Holders, HoldsPermit
<1>3. QueueSound'
  <2>1. waiters' = waiters /\ available_permits' = available_permits
    BY DEF semaphore
  <2>2. \A i \in Jobs : pc'[i] = "waiting" <=> pc[i] = "waiting"
    BY <1>1 DEF Move
  <2>3. \A i \in 1..Len(waiters) : waiters[i] \in Jobs
    BY DEF Shape
  <2> QED BY <2>1, <2>2, <2>3 DEF QueueSound
<1> QED BY <1>1, <1>2, <1>3 DEF PermitsHeld, semaphore, Shape

(* Acquiring takes a free permit, or a place at the end of the queue.      *)
LEMMA AcquireKeepsPermits ==
    ASSUME Shape, QueueSound, PermitsHeld, NEW j \in Jobs, Acquire(j)
    PROVE  /\ pc' \in [Jobs -> PCs] /\ pc[j] = "acquire" /\ pc'[j] \in {"starting", "waiting"}
           /\ \A i \in Jobs \ {j} : pc'[i] = pc[i]
           /\ available_permits' \in Nat /\ waiters' \in Seq(Jobs)
           /\ QueueSound' /\ PermitsHeld'
<1>1. CASE available_permits > 0
  <2>1. /\ available_permits' = available_permits - 1 /\ available_permits' \in Nat
        /\ waiters' = waiters /\ waiters = <<>>
        /\ pc[j] = "acquire" /\ pc' = [pc EXCEPT ![j] = "starting"]
    BY <1>1 DEF Acquire, Move, Shape, QueueSound
  <2>2. pc' \in [Jobs -> PCs] /\ pc'[j] = "starting" /\ \A i \in Jobs \ {j} : pc'[i] = pc[i]
    BY <2>1 DEF Shape, PCs
  <2>3. Holders' = Holders \cup {j} /\ j \notin Holders
    BY <2>1, <2>2 DEF Holders, HoldsPermit
  <2>4. Cardinality(Holders') = Cardinality(Holders) + 1
    BY <2>3, HoldersFinite, FS_AddElement
  <2>5. PermitsHeld'
    BY <2>1, <2>4, HoldersFinite, MaxConcurrentAssumption DEF PermitsHeld, Shape
  <2>6. QueueSound'
    BY <2>1, <2>2 DEF QueueSound
  <2> QED BY <2>1, <2>2, <2>5, <2>6 DEF Shape
<1>2. CASE available_permits = 0
  <2>1. /\ available_permits' = 0 /\ waiters' = Append(waiters, j)
        /\ pc[j] = "acquire" /\ pc' = [pc EXCEPT ![j] = "waiting"]
    BY <1>2 DEF Acquire, Move, Shape
  <2>2. pc' \in [Jobs -> PCs] /\ pc'[j] = "waiting" /\ \A i \in Jobs \ {j} : pc'[i] = pc[i]
    BY <2>1 DEF Shape, PCs
  <2>3. /\ waiters' \in Seq(Jobs) /\ Len(waiters) \in Nat
        /\ Len(waiters') = Len(waiters) + 1 /\ waiters'[Len(waiters')] = j
        /\ \A i \in 1..Len(waiters) : waiters'[i] = waiters[i] /\ waiters[i] \in Jobs
    BY <2>1 DEF Shape
  <2>4. Holders' = Holders
    BY <2>1, <2>2 DEF Holders, HoldsPermit
  <2>5. \A i \in 1..Len(waiters') : i \in 1..Len(waiters) \/ i = Len(waiters')
    BY <2>3
  <2>6. \A i \in 1..Len(waiters) : pc[waiters[i]] = "waiting" /\ waiters[i] # j
    BY <2>1 DEF QueueSound
  <2>7. \A i \in 1..Len(waiters') : pc'[waiters'[i]] = "waiting"
    BY <2>2, <2>3, <2>5, <2>6
  <2>8. \A i, k \in 1..Len(waiters') : waiters'[i] = waiters'[k] => i = k
    <3> SUFFICES ASSUME NEW i \in 1..Len(waiters'), NEW k \in 1..Len(waiters'),
                        waiters'[i] = waiters'[k]
                 PROVE  i = k
      OBVIOUS
    <3>1. CASE i = Len(waiters') \/ k = Len(waiters')
      BY <2>3, <2>5, <2>6, <3>1
    <3>2. CASE i \in 1..Len(waiters) /\ k \in 1..Len(waiters)
      BY <2>3, <3>2 DEF QueueSound
    <3> QED BY <2>5, <3>1, <3>2
  <2>9. \A k \in Jobs : pc'[k] = "waiting" => \E i \in 1..Len(waiters') : waiters'[i] = k
    <3> SUFFICES ASSUME NEW k \in Jobs, pc'[k] = "waiting"
                 PROVE  \E i \in 1..Len(waiters') : waiters'[i] = k
      OBVIOUS
    <3>1. CASE k = j
      BY <2>3, <3>1
    <3>2. CASE k # j
      <4>1. PICK i \in 1..Len(waiters) : waiters[i] = k
        BY <2>2, <3>2 DEF QueueSound
      <4>2. i \in 1..Len(waiters') /\ waiters'[i] = k
        BY <2>3, <4>1
      <4> QED BY <4>2
    <3> QED BY <3>1, <3>2
  <2>10. QueueSound'
    BY <2>1, <2>7, <2>8, <2>9 DEF QueueSound
  <2> QED BY <1>2, <2>1, <2>2, <2>3, <2>4, <2>10 DEF PermitsHeld, Shape
<1> QED BY <1>1, <1>2 DEF Shape, Acquire
-----------------------------------------------------------------------------
LEMMA InitIInv == Init => IInv
<1> SUFFICES ASSUME Init PROVE IInv
  OBVIOUS
<1>1. Shape /\ QueueSound /\ ProcessKnown /\ EntryKnown
  BY MaxConcurrentAssumption
     DEF Init, Shape, QueueSound, ProcessKnown, EntryKnown, Listed, PCs, NoProcessYet
<1>2. Holders = {}
  BY DEF Init, Holders, HoldsPermit
<1>3. PermitsHeld
  BY <1>2, FS_EmptySet, MaxConcurrentAssumption DEF PermitsHeld, Init
<1> QED BY <1>1, <1>3 DEF IInv

(* What a step must show once the queue and the permits are dealt with.    *)
LEMMA StepsOfTheTable ==
    ASSUME IInv, NEW j \in Jobs,
           StartTranscoding(j) \/ RunJob(j) \/ StopTranscoding(j) \/ Kill(j) \/ ProcessExits(j)
    PROVE  QueueSound' /\ PermitsHeld' /\ pc' \in [Jobs -> PCs]
           /\ available_permits' \in Nat /\ waiters' \in Seq(Jobs)
           /\ (\A i \in Jobs \ {j} : pc'[i] = pc[i] \/ (pc[i] = "waiting" /\ pc'[i] = "starting"))
<1> USE DEF IInv
<1>1. CASE GiveUp(j)
  <2>1. MoveAndRelease(j, "build", "mark_failed")
    BY <1>1 DEF GiveUp
  <2> QED BY <2>1, ReleaseKeepsPermits
<1>2. CASE ReturnPermit(j)
  <2>1. MoveAndRelease(j, "return", "done")
    BY <1>2 DEF ReturnPermit
  <2> QED BY <2>1, ReleaseKeepsPermits
<1>3. CASE Acquire(j)
  BY <1>3, AcquireKeepsPermits
<1>4. CASE StopTranscoding(j) \/ Kill(j) \/ ProcessExits(j)
  <2>1. UNCHANGED <<available_permits, waiters, pc>>
    BY <1>4 DEF StopTranscoding, Kill, ProcessExits, semaphore
  <2> QED BY <2>1 DEF QueueSound, PermitsHeld, Holders, HoldsPermit, Shape
<1>5. CASE \E from \in PCs, to \in PCs :
             /\ Move(j, from, to) /\ UNCHANGED semaphore
             /\ from # "waiting" /\ to # "waiting" /\ (HoldsPermit(j) <=> HoldsPermit(j)')
  <2>1. PICK from \in PCs, to \in PCs :
             /\ Move(j, from, to) /\ UNCHANGED semaphore
             /\ from # "waiting" /\ to # "waiting" /\ (HoldsPermit(j) <=> HoldsPermit(j)')
    BY <1>5
  <2> QED BY <2>1, MoveKeepsPermits
<1>6. ASSUME StartTranscoding(j) \/ MarkStarting(j) \/ MarkFailed(j) \/ SpawnProcess(j)
             \/ Register(j) \/ FeederReturns(j) \/ WaitReturns(j) \/ MarkExit(j)
             \/ WaitFails(j) \/ MarkError(j) \/ CleanupJob(j)
      PROVE  \E from \in PCs, to \in PCs :
             /\ Move(j, from, to) /\ UNCHANGED semaphore
             /\ from # "waiting" /\ to # "waiting" /\ (HoldsPermit(j) <=> HoldsPermit(j)')
  <2>1. \E from \in PCs, to \in PCs :
             /\ Move(j, from, to) /\ UNCHANGED semaphore
             /\ <<from, to>> \in {<<"new", "acquire">>, <<"starting", "build">>,
                  <<"mark_failed", "done">>, <<"build", "register">>, <<"register", "select">>,
                  <<"select", "cleanup">>, <<"select", "mark_exit">>,
                  <<"select", "mark_error">>, <<"mark_error", "cleanup_error">>,
                  <<"cleanup_error", "return">>,
                  <<"mark_exit", "cleanup">>, <<"cleanup", "return">>}
    BY <1>6 DEF StartTranscoding, MarkStarting, MarkFailed, SpawnProcess, Register,
                FeederReturns, WaitReturns, MarkExit, WaitFails, MarkError, CleanupJob, PCs
  <2> QED BY <2>1 DEF Move, HoldsPermit, Shape
<1> QED BY <1>1, <1>2, <1>3, <1>4, <1>5, <1>6 DEF RunJob

(* The other half of the invariant: what each step does to the entry and   *)
(* the process of its job.  A task that a permit is handed to goes on to   *)
(* starting, where nothing is asked of it that was not asked before.       *)
LEMMA TablePreserved ==
    ASSUME IInv, NEW j \in Jobs,
           StartTranscoding(j) \/ RunJob(j) \/ StopTranscoding(j) \/ Kill(j) \/ ProcessExits(j)
    PROVE  Shape' /\ ProcessKnown' /\ EntryKnown'
<1>0. /\ pc' \in [Jobs -> PCs]
      /\ available_permits' \in Nat /\ waiters' \in Seq(Jobs)
      /\ \A i \in Jobs \ {j} : pc'[i] = pc[i] \/ (pc[i] = "waiting" /\ pc'[i] = "starting")
  BY StepsOfTheTable
<1>a. Shape /\ ProcessKnown /\ EntryKnown
  BY DEF IInv
<1>1. CASE StartTranscoding(j)
  <2>1. /\ pc[j] = "new" /\ pc'[j] = "acquire" /\ j \notin Listed
        /\ Listed' = Listed \cup {j}
        /\ active_jobs' \in [Listed' -> [status : Statuses, child_process : BOOLEAN]]
        /\ active_jobs'[j].status = "Pending"
        /\ \A i \in Listed : active_jobs'[i] = active_jobs[i]
        /\ UNCHANGED <<process, signalled, stop>>
    BY <1>1, <1>a DEF StartTranscoding, Move, Listed, Shape, Statuses, EntryKnown
  <2>2. Shape'
    BY <1>0, <1>a, <2>1 DEF Shape
  <2>3. ProcessKnown'
    BY <1>0, <1>a, <2>1 DEF ProcessKnown, NoProcessYet, Shape
  <2>4. EntryKnown'
    BY <1>0, <1>a, <2>1 DEF EntryKnown, Shape
  <2> QED BY <2>2, <2>3, <2>4
<1>2. CASE Acquire(j) \/ GiveUp(j) \/ ReturnPermit(j) \/ SpawnProcess(j) \/ FeederReturns(j)
           \/ WaitReturns(j) \/ WaitFails(j)
  <2>1. UNCHANGED <<active_jobs, signalled, stop>> /\ Listed' = Listed
    BY <1>2 DEF Acquire, GiveUp, ReturnPermit, SpawnProcess, FeederReturns, WaitReturns,
                WaitFails, Listed
  <2>2. /\ process' \in [Jobs -> {"none", "running", "succeeded", "failed"}]
        /\ \A i \in Jobs \ {j} : process'[i] = process[i]
        /\ \/ pc[j] = "acquire" /\ pc'[j] \in {"starting", "waiting"} /\ process'[j] = process[j]
           \/ pc[j] = "build" /\ pc'[j] = "mark_failed" /\ process'[j] = process[j]
           \/ pc[j] = "return" /\ pc'[j] = "done" /\ process'[j] = process[j]
           \/ pc[j] = "build" /\ pc'[j] = "register" /\ process'[j] = "running"
           \/ pc[j] = "select" /\ pc'[j] = "cleanup" /\ process'[j] = process[j]
           \/ pc[j] = "select" /\ pc'[j] = "mark_error" /\ process'[j] = process[j]
           \/ pc[j] = "select" /\ pc'[j] = "mark_exit" /\ process'[j] = process[j] /\ process[j] # "running"
    <3>1. CASE Acquire(j)
      BY <1>a, <3>1, AcquireKeepsPermits DEF IInv, Acquire, Shape
    <3>2. CASE GiveUp(j)
      <4>1. MoveAndRelease(j, "build", "mark_failed") /\ process' = process
        BY <3>2 DEF GiveUp
      <4>2. pc[j] = "build" /\ pc'[j] = "mark_failed"
        BY <4>1, ReleaseKeepsPermits DEF IInv, MoveAndRelease
      <4> QED BY <1>a, <4>1, <4>2 DEF Shape
    <3>3. CASE ReturnPermit(j)
      <4>1. MoveAndRelease(j, "return", "done") /\ process' = process
        BY <3>3 DEF ReturnPermit
      <4>2. pc[j] = "return" /\ pc'[j] = "done"
        BY <4>1, ReleaseKeepsPermits DEF IInv, MoveAndRelease
      <4> QED BY <1>a, <4>1, <4>2 DEF Shape
    <3>4. CASE SpawnProcess(j) \/ FeederReturns(j) \/ WaitReturns(j) \/ WaitFails(j)
      BY <1>a, <3>4 DEF SpawnProcess, FeederReturns, WaitReturns, WaitFails, Move, Shape
    <3> QED BY <1>2, <3>1, <3>2, <3>3, <3>4
  <2>3. Shape'
    BY <1>0, <1>a, <2>1, <2>2 DEF Shape
  <2>4. ProcessKnown'
    BY <1>0, <1>a, <2>2 DEF ProcessKnown, NoProcessYet, Shape
  <2>5. EntryKnown'
    BY <1>0, <1>a, <2>1, <2>2 DEF EntryKnown, ProcessKnown, NoProcessYet, Shape
  <2> QED BY <2>3, <2>4, <2>5
<1>3. CASE MarkStarting(j) \/ MarkFailed(j) \/ MarkExit(j) \/ MarkError(j) \/ Register(j)
  <2>1. /\ Listed' = Listed
        /\ active_jobs' \in [Listed -> [status : Statuses, child_process : BOOLEAN]]
        /\ \A i \in Listed \ {j} : active_jobs'[i] = active_jobs[i]
        /\ UNCHANGED <<process, signalled, stop>>
        /\ \/ /\ pc[j] = "starting" /\ pc'[j] = "build"
              /\ j \in Listed => active_jobs'[j].status = "Starting"
           \/ /\ pc[j] = "mark_failed" /\ pc'[j] = "done"
              /\ j \in Listed => active_jobs'[j].status = "Failed"
           \/ /\ pc[j] = "mark_exit" /\ pc'[j] = "cleanup"
              /\ j \in Listed => active_jobs'[j].status =
                                   IF process[j] = "succeeded" THEN "Completed" ELSE "Failed"
           \/ /\ pc[j] = "mark_error" /\ pc'[j] = "cleanup_error"
              /\ j \in Listed => active_jobs'[j].status = "Failed"
           \/ /\ pc[j] = "register" /\ pc'[j] = "select"
              /\ j \in Listed => active_jobs'[j].status = "Running"
    <3>1. CASE MarkStarting(j)
      <4>1. "Starting" \in Statuses /\ UpdateStatus(j, "Starting")
        BY <3>1 DEF MarkStarting, Statuses
      <4> QED BY <1>a, <3>1, <4>1, UpdateKeepsShape DEF MarkStarting, Move, Shape
    <3>2. CASE MarkFailed(j)
      <4>1. "Failed" \in Statuses /\ UpdateStatus(j, "Failed")
        BY <3>2 DEF MarkFailed, Statuses
      <4> QED BY <1>a, <3>2, <4>1, UpdateKeepsShape DEF MarkFailed, Move, Shape
    <3>3. CASE MarkExit(j)
      <4> DEFINE status == IF process[j] = "succeeded" THEN "Completed" ELSE "Failed"
      <4>1. status \in Statuses /\ UpdateStatus(j, status)
        BY <3>3 DEF MarkExit, Statuses
      <4>2. pc[j] = "mark_exit" /\ pc'[j] = "cleanup" /\ UNCHANGED <<process, signalled, stop>>
        BY <1>a, <3>3 DEF MarkExit, Move, Shape
      <4> HIDE DEF status
      <4>3. /\ Listed' = Listed
            /\ active_jobs' \in [Listed -> [status : Statuses, child_process : BOOLEAN]]
            /\ \A i \in Listed \ {j} : active_jobs'[i] = active_jobs[i]
            /\ j \in Listed => active_jobs'[j].status = status
        BY <1>a, <4>1, UpdateKeepsShape
      <4> QED BY <4>2, <4>3 DEF status
    <3>4. CASE Register(j)
      BY <1>a, <3>4 DEF Register, Move, Shape, Statuses, Listed
    <3>5. CASE MarkError(j)
      <4>1. "Failed" \in Statuses /\ UpdateStatus(j, "Failed")
        BY <3>5 DEF MarkError, Statuses
      <4> QED BY <1>a, <3>5, <4>1, UpdateKeepsShape DEF MarkError, Move, Shape
    <3> QED BY <1>3, <3>1, <3>2, <3>3, <3>4, <3>5
  <2>2. Shape'
    BY <1>0, <1>a, <2>1 DEF Shape
  <2>3. ProcessKnown'
    BY <1>0, <1>a, <2>1 DEF ProcessKnown, NoProcessYet, Shape
  <2>4. EntryKnown'
    BY <1>0, <1>a, <2>1 DEF EntryKnown, ProcessKnown, NoProcessYet, Shape
  <2> QED BY <2>2, <2>3, <2>4
<1>4. CASE CleanupJob(j)
  <2>1. /\ pc[j] \in {"cleanup", "cleanup_error"} /\ pc'[j] = "return"
        /\ Listed' = Listed \ {j}
        /\ active_jobs' \in [Listed' -> [status : Statuses, child_process : BOOLEAN]]
        /\ \A i \in Listed' : active_jobs'[i] = active_jobs[i]
        /\ UNCHANGED <<process, signalled, stop>>
    BY <1>4, <1>a DEF CleanupJob, Move, Listed, Shape
  <2>2. Shape'
    BY <1>0, <1>a, <2>1 DEF Shape
  <2>3. ProcessKnown'
    BY <1>0, <1>a, <2>1 DEF ProcessKnown, NoProcessYet, Shape
  <2>4. EntryKnown'
    BY <1>0, <1>a, <2>1 DEF EntryKnown, Shape
  <2> QED BY <2>2, <2>3, <2>4
<1>5. CASE StopTranscoding(j)
  <2>1. /\ pc' = pc /\ pc[j] # "new" /\ UNCHANGED <<process, signalled>>
        /\ stop' \in [Jobs -> {"none", "kill", "stopped", "not_found"}]
    BY <1>5, <1>a DEF StopTranscoding, Shape
  <2>2. /\ Listed' = Listed
        /\ active_jobs' \in [Listed -> [status : Statuses, child_process : BOOLEAN]]
        /\ \A i \in Listed \ {j} : active_jobs'[i] = active_jobs[i]
        /\ j \in Listed => active_jobs'[j].status = "Cancelled"
    <3>1. CASE j \notin Listed
      BY <1>5, <1>a, <3>1 DEF StopTranscoding, Shape, Listed
    <3>2. CASE j \in Listed
      <4>1. "Cancelled" \in Statuses /\ UpdateStatus(j, "Cancelled")
        BY <1>5, <3>2 DEF StopTranscoding, Statuses
      <4> QED BY <1>a, <4>1, UpdateKeepsShape
    <3> QED BY <3>1, <3>2
  <2>3. Shape'
    BY <1>0, <1>a, <2>1, <2>2 DEF Shape
  <2>4. ProcessKnown'
    BY <1>a, <2>1 DEF ProcessKnown
  <2>5. EntryKnown'
    BY <1>a, <2>1, <2>2 DEF EntryKnown, Shape
  <2> QED BY <2>3, <2>4, <2>5
<1>6. CASE Kill(j) \/ ProcessExits(j)
  <2>1. /\ UNCHANGED <<active_jobs, pc>> /\ Listed' = Listed
        /\ signalled' \subseteq Jobs
        /\ stop' \in [Jobs -> {"none", "kill", "stopped", "not_found"}]
        /\ process' \in [Jobs -> {"none", "running", "succeeded", "failed"}]
        /\ \A i \in Jobs : process'[i] # process[i] =>
              process[i] = "running" /\ process'[i] \in {"succeeded", "failed"}
    BY <1>6, <1>a DEF Kill, ProcessExits, Shape, Listed
  <2>2. Shape'
    BY <1>0, <1>a, <2>1 DEF Shape
  <2>3. ProcessKnown'
    BY <1>a, <2>1 DEF ProcessKnown
  <2>4. EntryKnown'
    BY <1>a, <2>1 DEF EntryKnown, Shape
  <2> QED BY <2>2, <2>3, <2>4
<1> QED BY <1>1, <1>2, <1>3, <1>4, <1>5, <1>6 DEF RunJob

LEMMA NextIInv == IInv /\ [Next]_vars => IInv'
<1> SUFFICES ASSUME IInv, [Next]_vars PROVE IInv'
  OBVIOUS
<1>1. CASE Next
  <2>1. PICK j \in Jobs :
          StartTranscoding(j) \/ RunJob(j) \/ StopTranscoding(j) \/ Kill(j) \/ ProcessExits(j)
    BY <1>1 DEF Next
  <2> QED BY <2>1, StepsOfTheTable, TablePreserved DEF IInv
<1>2. CASE UNCHANGED vars
  BY <1>2 DEF IInv, vars, semaphore, Shape, QueueSound, PermitsHeld, ProcessKnown, EntryKnown,
              Listed, Holders, HoldsPermit
<1> QED BY <1>1, <1>2

(* The inductive invariant: the queue, the permits, the processes and the  *)
(* entries agree with where every task is.                                 *)
THEOREM JobsTracked == Spec => []IInv
  BY InitIInv, NextIInv, PTL DEF Spec
-----------------------------------------------------------------------------
(* Every variable keeps its type, and there are never more free permits    *)
(* than max_concurrent.                                                    *)
THEOREM TypeCorrect == Spec => []TypeOK
<1>1. IInv => TypeOK
  <2> SUFFICES ASSUME IInv PROVE TypeOK
    OBVIOUS
  <2>1. available_permits \in 0..MaxConcurrent
    BY HoldersFinite, MaxConcurrentAssumption DEF IInv, PermitsHeld, Shape
  <2> QED BY <2>1 DEF IInv, Shape, TypeOK
<1> QED BY <1>1, JobsTracked, PTL

(* On every way out of a job its permit comes back once: permits are       *)
(* neither lost nor made, and nobody waits while one is free.              *)
THEOREM PermitsAreConserved == Spec => []PermitsConserved
<1>1. IInv => PermitsConserved
  <2> SUFFICES ASSUME IInv PROVE PermitsConserved
    OBVIOUS
  <2>1. available_permits > 0 => Waiting = {}
    BY DEF IInv, Shape, QueueSound, Waiting
  <2> QED BY <2>1 DEF IInv, PermitsHeld, PermitsConserved
<1> QED BY <1>1, JobsTracked, PTL

(* The figures of get_stats never exceed the configured capacity.          *)
THEOREM StatsAreConsistent == Spec => []StatsConsistent
<1>1. IInv => StatsConsistent
  <2> SUFFICES ASSUME IInv PROVE StatsConsistent
    OBVIOUS
  <2> DEFINE R == {j \in Listed : active_jobs[j].status = "Running"}
  <2>1. R \subseteq Holders
    BY DEF IInv, Shape, EntryKnown, Holders, HoldsPermit
  <2>2. Cardinality(R) <= Cardinality(Holders) /\ Cardinality(R) \in Nat
    BY <2>1, HoldersFinite, FS_Subset, FS_CardinalityType
  <2> QED BY <2>2, HoldersFinite, MaxConcurrentAssumption
          DEF IInv, Shape, PermitsHeld, StatsConsistent
<1> QED BY <1>1, JobsTracked, PTL

(* A job whose task is over is never shown as alive.                       *)
THEOREM NoGhosts == Spec => []NoGhostJobs
<1>1. IInv => NoGhostJobs
  BY DEF IInv, EntryKnown, NoGhostJobs
<1> QED BY <1>1, JobsTracked, PTL

(* Completed means that the process succeeded; Failed that it failed or    *)
(* never was, unless wait() itself gave an error.                          *)
THEOREM ExitsAreReported == Spec => []ExitReported
<1>1. IInv => ExitReported
  BY DEF IInv, EntryKnown, ExitReported
<1> QED BY <1>1, JobsTracked, PTL
=============================================================================
