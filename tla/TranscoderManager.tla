-------------------------- MODULE TranscoderManager --------------------------
(***************************************************************************)
(* src/transcoder.rs: the table of jobs, the semaphore that admits them,   *)
(* the task that runs each job, and the FFmpeg processes.                  *)
(*                                                                         *)
(* start_transcoding puts a job in the table and spawns a task; pc[j] is   *)
(* the await the task of j is suspended at.  stop[j] is the caller of      *)
(* stop_transcoding for j, and what it was told.  The processes belong to  *)
(* the operating system: one exits when it wants, or some time after a     *)
(* SIGTERM.  Dropping the handle of a process leaves it running.           *)
(*                                                                         *)
(* Abstracted: the FFmpeg command line, the progress figures and the       *)
(* output files (output_paths is never filled in).                         *)
(***************************************************************************)
EXTENDS Integers, Sequences, FiniteSets

CONSTANTS
    Jobs,           \* identities of the jobs that are ever requested
    MaxConcurrent   \* config.max_concurrent

ASSUME MaxConcurrentAssumption == MaxConcurrent \in Nat \ {0}
ASSUME JobsFinite == IsFiniteSet(Jobs)

Statuses == {"Pending", "Starting", "Running", "Completed", "Failed", "Cancelled"}

VARIABLES
    active_jobs,        \* job -> its entry, for the jobs in the table
    available_permits,  \* of job_semaphore
    waiters,            \* tasks queued on job_semaphore, first come first served
    pc,                 \* where the task of each job is
    process,            \* the FFmpeg process of each job
    signalled,          \* jobs whose process was sent SIGTERM
    stop                \* the stop_transcoding call for each job

semaphore == <<available_permits, waiters>>
vars == <<active_jobs, semaphore, pc, process, signalled, stop>>

Listed == DOMAIN active_jobs

Init ==
    /\ active_jobs = [j \in {} |-> 0]
    /\ available_permits = MaxConcurrent
    /\ waiters = <<>>
    /\ pc = [j \in Jobs |-> "new"]
    /\ process = [j \in Jobs |-> "none"]
    /\ signalled = {}
    /\ stop = [j \in Jobs |-> "none"]
-----------------------------------------------------------------------------
(* Definitions named Leaking, Silent, Releasing, Unhonest and Forgotten    *)
(* are faulty variants of the definition that follows them.  Next uses     *)
(* none of them: they are put in its place to see which property catches   *)
(* the fault.                                                              *)
-----------------------------------------------------------------------------
Move(j, from, to) == pc[j] = from /\ pc' = [pc EXCEPT ![j] = to]

(* update_job_status: nothing happens when the job has left the table.     *)
UpdateStatus(j, status) ==
    active_jobs' = IF j \in Listed THEN [active_jobs EXCEPT ![j].status = status]
                                   ELSE active_jobs

(* The permit goes straight to the task that has waited longest.           *)
MoveAndRelease(j, from, to) ==
    /\ pc[j] = from
    /\ \/ /\ waiters = <<>>
          /\ available_permits' = available_permits + 1
          /\ pc' = [pc EXCEPT ![j] = to]
          /\ UNCHANGED waiters
       \/ /\ waiters # <<>>
          /\ pc' = [pc EXCEPT ![j] = to, ![Head(waiters)] = "starting"]
          /\ waiters' = Tail(waiters)
          /\ UNCHANGED available_permits

(* start_transcoding; an unknown profile is refused before any change.     *)
StartTranscoding(j) ==
    /\ Move(j, "new", "acquire")
    /\ active_jobs' = [i \in Listed \cup {j} |->
                         IF i = j THEN [status |-> "Pending", child_process |-> FALSE]
                                  ELSE active_jobs[i]]
    /\ UNCHANGED <<semaphore, process, signalled, stop>>

(* run_transcoding_job, await by await. *)
Acquire(j) ==
    /\ \/ /\ available_permits > 0
          /\ available_permits' = available_permits - 1
          /\ Move(j, "acquire", "starting")
          /\ UNCHANGED waiters
       \/ /\ available_permits = 0
          /\ waiters' = Append(waiters, j)
          /\ Move(j, "acquire", "waiting")
          /\ UNCHANGED available_permits
    /\ UNCHANGED <<active_jobs, process, signalled, stop>>

MarkStarting(j) ==
    /\ Move(j, "starting", "build")
    /\ UpdateStatus(j, "Starting")
    /\ UNCHANGED <<semaphore, process, signalled, stop>>

GiveUpLeaking(j) ==
    /\ Move(j, "build", "mark_failed")
    /\ UNCHANGED <<active_jobs, semaphore, process, signalled, stop>>

(* The output directory cannot be made, or FFmpeg cannot be started: the   *)
(* function returns, dropping its permit, and its caller marks the job.    *)
GiveUp(j) ==
    /\ MoveAndRelease(j, "build", "mark_failed")
    /\ UNCHANGED <<active_jobs, process, signalled, stop>>

MarkFailedSilent(j) ==
    /\ Move(j, "mark_failed", "done")
    /\ UNCHANGED <<active_jobs, semaphore, process, signalled, stop>>

MarkFailedReleasing(j) ==
    /\ MoveAndRelease(j, "mark_failed", "done")
    /\ UpdateStatus(j, "Failed")
    /\ UNCHANGED <<process, signalled, stop>>

MarkFailed(j) ==
    /\ Move(j, "mark_failed", "done")
    /\ UpdateStatus(j, "Failed")
    /\ UNCHANGED <<semaphore, process, signalled, stop>>

SpawnProcess(j) ==
    /\ Move(j, "build", "register")
    /\ process' = [process EXCEPT ![j] = "running"]
    /\ UNCHANGED <<active_jobs, semaphore, signalled, stop>>

(* The pid and the status are written whatever the status was.             *)
Register(j) ==
    /\ Move(j, "register", "select")
    /\ active_jobs' = IF j \in Listed
                      THEN [active_jobs EXCEPT ![j] = [status |-> "Running", child_process |-> TRUE]]
                      ELSE active_jobs
    /\ UNCHANGED <<semaphore, process, signalled, stop>>

(* select!: feed_input_data is ready at its first poll, so the branch of   *)
(* the process is taken only if the process is gone by then and comes      *)
(* first in the random order of the branches.                              *)
FeederReturns(j) ==
    /\ Move(j, "select", "cleanup")
    /\ UNCHANGED <<active_jobs, semaphore, process, signalled, stop>>

WaitReturns(j) ==
    /\ process[j] # "running"
    /\ Move(j, "select", "mark_exit")
    /\ UNCHANGED <<active_jobs, semaphore, process, signalled, stop>>

(* wait() may fail, whatever the process is doing.                         *)
WaitFails(j) ==
    /\ Move(j, "select", "mark_error")
    /\ UNCHANGED <<active_jobs, semaphore, process, signalled, stop>>

MarkExitUnhonest(j) ==
    /\ Move(j, "mark_exit", "cleanup")
    /\ UpdateStatus(j, "Completed")
    /\ UNCHANGED <<semaphore, process, signalled, stop>>

MarkExit(j) ==
    /\ Move(j, "mark_exit", "cleanup")
    /\ UpdateStatus(j, IF process[j] = "succeeded" THEN "Completed" ELSE "Failed")
    /\ UNCHANGED <<semaphore, process, signalled, stop>>

(* The job is marked failed without a look at how its process is.          *)
MarkError(j) ==
    /\ Move(j, "mark_error", "cleanup_error")
    /\ UpdateStatus(j, "Failed")
    /\ UNCHANGED <<semaphore, process, signalled, stop>>

CleanupJobForgotten(j) ==
    /\ MoveAndRelease(j, "cleanup", "done")
    /\ UNCHANGED <<active_jobs, process, signalled, stop>>

(* cleanup_job takes the job out of the table; the two places it is called *)
(* from are one in the code, and tell here whether wait() had failed ...   *)
CleanupJob(j) ==
    /\ Move(j, "cleanup", "return") \/ Move(j, "cleanup_error", "return")
    /\ active_jobs' = [i \in Listed \ {j} |-> active_jobs[i]]
    /\ UNCHANGED <<semaphore, process, signalled, stop>>

(* ... and the function returns: the handle of the process is dropped,     *)
(* which does not end the process, then the permit.                        *)
ReturnPermit(j) ==
    /\ MoveAndRelease(j, "return", "done")
    /\ UNCHANGED <<active_jobs, process, signalled, stop>>
-----------------------------------------------------------------------------
(* stop_transcoding: mark the job and read its pid under the lock ...      *)
StopTranscoding(j) ==
    /\ stop[j] = "none"
    /\ pc[j] # "new"
    /\ \/ /\ j \notin Listed
          /\ stop' = [stop EXCEPT ![j] = "not_found"]
          /\ UNCHANGED active_jobs
       \/ /\ j \in Listed
          /\ UpdateStatus(j, "Cancelled")
          /\ stop' = [stop EXCEPT ![j] = IF active_jobs[j].child_process THEN "kill" ELSE "stopped"]
    /\ UNCHANGED <<semaphore, pc, process, signalled>>

(* ... then signal the process, if it is still there.                      *)
Kill(j) ==
    /\ stop[j] = "kill"
    /\ stop' = [stop EXCEPT ![j] = "stopped"]
    /\ signalled' = IF process[j] = "running" THEN signalled \cup {j} ELSE signalled
    /\ UNCHANGED <<active_jobs, semaphore, pc, process>>

(* The operating system. *)
ProcessExits(j) ==
    /\ process[j] = "running"
    /\ \E outcome \in {"succeeded", "failed"} : process' = [process EXCEPT ![j] = outcome]
    /\ UNCHANGED <<active_jobs, semaphore, pc, signalled, stop>>
-----------------------------------------------------------------------------
RunJob(j) ==
    \/ Acquire(j)
    \/ MarkStarting(j)
    \/ GiveUp(j)
    \/ MarkFailed(j)
    \/ SpawnProcess(j)
    \/ Register(j)
    \/ FeederReturns(j)
    \/ WaitReturns(j)
    \/ MarkExit(j)
    \/ WaitFails(j)
    \/ MarkError(j)
    \/ CleanupJob(j)
    \/ ReturnPermit(j)

Next ==
    \E j \in Jobs :
        \/ StartTranscoding(j)
        \/ RunJob(j)
        \/ StopTranscoding(j)
        \/ Kill(j)
        \/ ProcessExits(j)

(* The runtime keeps polling every task.  Nothing is assumed of the        *)
(* processes: an encoder may run for ever.                                 *)
Spec == Init /\ [][Next]_vars
FairSpec == Spec /\ \A j \in Jobs : WF_vars(RunJob(j))
-----------------------------------------------------------------------------
(* Properties.                                                             *)

PCs == {"new", "acquire", "waiting", "starting", "build", "register", "select",
        "mark_exit", "mark_error", "cleanup", "cleanup_error", "return", "mark_failed", "done"}
HoldsPermit(j) == pc[j] \in {"starting", "build", "register", "select", "mark_exit",
                             "mark_error", "cleanup", "cleanup_error", "return"}
Holders == {j \in Jobs : HoldsPermit(j)}
Waiting == {j \in Jobs : pc[j] = "waiting"}

TypeOK ==
    /\ Listed \subseteq Jobs
    /\ active_jobs \in [Listed -> [status : Statuses, child_process : BOOLEAN]]
    /\ available_permits \in 0..MaxConcurrent
    /\ waiters \in Seq(Jobs)
    /\ pc \in [Jobs -> PCs]
    /\ process \in [Jobs -> {"none", "running", "succeeded", "failed"}]
    /\ signalled \subseteq Jobs
    /\ stop \in [Jobs -> {"none", "kill", "stopped", "not_found"}]

(* A permit is free or held by one task, on every way out of a job, and a  *)
(* task waits only while none is free.                                     *)
PermitsConserved ==
    /\ Cardinality(Holders) + available_permits = MaxConcurrent
    /\ available_permits > 0 => Waiting = {}

(* get_stats never reports more running jobs than max_concurrent, nor more *)
(* of them than its free slots leave room for.                             *)
StatsConsistent ==
    Cardinality({j \in Listed : active_jobs[j].status = "Running"}) + available_permits
        <= MaxConcurrent

(* When the task of a job is over, the table does not show the job as      *)
(* alive: it is gone, or it failed, or somebody cancelled it.              *)
NoGhostJobs ==
    \A j \in Listed : pc[j] = "done" => active_jobs[j].status \in {"Failed", "Cancelled"}

(* A job is shown completed only when its process succeeded, and failed    *)
(* only when its process failed or never was, with one exception: after an *)
(* error of wait() a job is shown failed, until the cleanup that follows,  *)
(* whatever its process does.                                              *)
ExitReported ==
    \A j \in Listed :
        /\ active_jobs[j].status = "Completed" => process[j] = "succeeded"
        /\ active_jobs[j].status = "Failed" =>
              process[j] \in {"none", "failed"} \/ pc[j] = "cleanup_error"

(* Every requested job is served and ends, whatever the encoders do: the   *)
(* queue moves on because every way out of a job gives its permit back.    *)
EveryJobEnds == \A j \in Jobs : pc[j] = "acquire" ~> pc[j] = "done"

(* What max_concurrent is documented to bound: the encoders at work.       *)
ProcessesBounded == Cardinality({j \in Jobs : process[j] = "running"}) <= MaxConcurrent

(* What stop_transcoding says it does: once it has returned without an     *)
(* error, the job has no encoder that was left alone.                      *)
StopKillsProcess ==
    \A j \in Jobs : stop[j] = "stopped" /\ process[j] = "running" => j \in signalled
=============================================================================
