--------------------------- MODULE StreamManagerMC ---------------------------
(* Small instances of StreamManager: one stream started and stopped by     *)
(* callers that overlap, over fewer ports than runs.                       *)
EXTENDS StreamManager, TLC

CONSTANTS s1, c1, c2

OneStream == {s1}
OneCaller == {c1}
TwoCallers == {c1, c2}
TwoPorts == 1..2
Symmetry == Permutations(TwoCallers)

(* Nothing in the code looks at what a call returned, so states that only  *)
(* differ in it have the same future; a step that returns has its answer   *)
(* checked all the same.                                                   *)
ButTold == <<database, manager, multicast, jobs, servers, pc, work, history>>
=============================================================================
