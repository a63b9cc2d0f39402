------------------------- MODULE MulticastManagerMC -------------------------
(* A small instance of MulticastManager.  With OctetSize 2 there are four  *)
(* addresses, so the cursor and both octets wrap within a few allocations. *)
EXTENDS MulticastManager, TLC

CONSTANTS t1, t2, s1, s2, v1

TwoTasks == {t1, t2}
TwoKeys == {s1, s2}
OneViewer == {v1}

Symmetry == Permutations(TwoTasks) \cup Permutations(TwoKeys)
=============================================================================
