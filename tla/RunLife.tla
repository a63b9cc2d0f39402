------------------------------- MODULE RunLife -------------------------------
(***************************************************************************)
(* What the stream manager promises about every start of a stream that it  *)
(* begins, a run: it goes through its life once and in order, whatever     *)
(* callers overlap on the stream, wherever they fail or are dropped, and   *)
(* whenever the server restarts.                                           *)
(*                                                                         *)
(* A run is begun, leases a port, is shown in the row of its stream, gets  *)
(* its job and is served; then one caller at most takes it down.  Until    *)
(* the server restarts, only a caller taking down a run of the same stream *)
(* gives a lease back: a run that ends in any other way keeps it, and      *)
(* keeps its job until that leaves by itself.                              *)
(* StreamManager is shown to implement this specification.                 *)
(***************************************************************************)
EXTENDS Integers

CONSTANTS Streams, RunNumbers, Ports

Runs == Streams \X RunNumbers

VARIABLES
    phase,      \* run -> where it is in its life
    lease,      \* run -> the port leased for it
    job,        \* runs with a transcoding job
    row         \* stream -> is_live, and the run it advertises

lifeVars == <<phase, lease, job, row>>

Phases == {"unborn", "begun", "leased", "shown", "encoding", "serving", "stopping", "over"}

(* Phases in which some caller works on the run. *)
InHand == {"begun", "leased", "shown", "encoding", "stopping"}

LifeInit ==
    /\ phase = [r \in Runs |-> "unborn"]
    /\ lease = [r \in {} |-> 0]
    /\ job = {}
    /\ row = [s \in Streams |-> [is_live |-> FALSE, run |-> 0]]

Becomes(r, from, to) ==
    /\ phase[r] = from
    /\ phase' = [phase EXCEPT ![r] = to]

(* The runs of a stream begin in the order of their numbers. *)
Begin(r) ==
    /\ \A q \in Runs : q[1] = r[1] /\ phase[q] = "unborn" => r[2] <= q[2]
    /\ Becomes(r, "unborn", "begun")
    /\ UNCHANGED <<lease, job, row>>

(* The port is leased to no other run; the run may come to nothing at once.*)
Lease(r, p) ==
    /\ \A q \in DOMAIN lease : lease[q] # p
    /\ lease' = [q \in DOMAIN lease \cup {r} |-> IF q = r THEN p ELSE lease[q]]
    /\ Becomes(r, "begun", "leased") \/ Becomes(r, "begun", "over")
    /\ UNCHANGED <<job, row>>

Show(r) ==
    /\ Becomes(r, "leased", "shown")
    /\ row' = [row EXCEPT ![r[1]] = [is_live |-> TRUE, run |-> r[2]]]
    /\ UNCHANGED <<lease, job>>

Encode(r) ==
    /\ Becomes(r, "shown", "encoding")
    /\ job' = job \cup {r}
    /\ UNCHANGED <<lease, row>>

(* A run of the stream that is served already is lost sight of. *)
Serve(r) ==
    /\ phase[r] = "encoding"
    /\ phase' = [q \in Runs |->
                   IF q = r THEN "serving"
                   ELSE IF q[1] = r[1] /\ phase[q] = "serving" THEN "over" ELSE phase[q]]
    /\ UNCHANGED <<lease, job, row>>

TakeDown(r) ==
    /\ Becomes(r, "serving", "stopping")
    /\ UNCHANGED <<lease, job, row>>

(* A caller taking down r frees the lease of whichever run of the stream   *)
(* is listed, not always r.                                                *)
Free(r, q) ==
    /\ phase[r] = "stopping"
    /\ q[1] = r[1]
    /\ lease' = [x \in DOMAIN lease \ {q} |-> lease[x]]
    /\ UNCHANGED <<phase, job, row>>

(* The row of a stream can go offline at any time: a caller taking down a  *)
(* run writes it, and so does the monitor, from a list of stalled streams  *)
(* that may be outdated.                                                   *)
Hide(s) ==
    /\ row' = [row EXCEPT ![s].is_live = FALSE]
    /\ UNCHANGED <<phase, lease, job>>

End(r) ==
    /\ phase[r] \in InHand
    /\ phase' = [phase EXCEPT ![r] = "over"]
    /\ UNCHANGED <<lease, job, row>>

LoseJob(r) ==
    /\ job' = job \ {r}
    /\ UNCHANGED <<phase, lease, row>>

(* Only the rows remain, and no run is begun twice. *)
Restart ==
    /\ phase' = [r \in Runs |-> IF phase[r] = "unborn" THEN "unborn" ELSE "over"]
    /\ lease' = [r \in {} |-> 0]
    /\ job' = {}
    /\ UNCHANGED row

LifeNext ==
    \/ \E r \in Runs :
         \/ Begin(r) \/ Show(r) \/ Encode(r) \/ Serve(r) \/ TakeDown(r) \/ End(r) \/ LoseJob(r)
         \/ \E p \in Ports : Lease(r, p)
         \/ \E q \in Runs : Free(r, q)
    \/ \E s \in Streams : Hide(s)
    \/ Restart

LifeSpec == LifeInit /\ [][LifeNext]_lifeVars
-----------------------------------------------------------------------------
(* Phases, leases, jobs and rows are of the runs there are.                *)
LifeTypeOK ==
    /\ phase \in [Runs -> Phases]
    /\ DOMAIN lease \subseteq Runs /\ lease \in [DOMAIN lease -> Ports]
    /\ job \subseteq Runs
    /\ row \in [Streams -> [is_live : BOOLEAN, run : RunNumbers \cup {0}]]

(* Two runs never lease the same port, and one run of a stream is served.  *)
Apart ==
    /\ \A q, r \in DOMAIN lease : lease[q] = lease[r] => q = r
    /\ \A q, r \in Runs : q[1] = r[1] /\ phase[q] = "serving" /\ phase[r] = "serving" => q = r

(* Nothing is done for a run before its time: it has no lease before it is *)
(* begun, no job before it is shown, and no live row advertises it before  *)
(* it had a lease.                                                         *)
InItsTime ==
    /\ \A r \in DOMAIN lease : phase[r] \notin {"unborn", "begun"}
    /\ \A r \in job : phase[r] \notin {"unborn", "begun", "leased", "shown"}
    /\ \A s \in Streams : row[s].is_live =>
         /\ <<s, row[s].run>> \in Runs
         /\ phase[<<s, row[s].run>>] \notin {"unborn", "begun", "leased"}

(* What the abstract steps keep of a run's tables.                         *)
LifeSafe == LifeTypeOK /\ Apart /\ InItsTime

Order == [unborn |-> 0, begun |-> 1, leased |-> 2, shown |-> 3, encoding |-> 4,
          serving |-> 5, stopping |-> 6, over |-> 7]

(* A run never goes back to an earlier phase, and none begins again. *)
Onward == [][\A r \in Runs : Order[phase[r]] <= Order[phase'[r]]]_lifeVars
=============================================================================
