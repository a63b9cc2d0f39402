---------------------------- MODULE MulticastUseMC ----------------------------
(* A small instance of MulticastUse, with a timeout of two ticks, so that  *)
(* a group or a viewer can be old without being expired.                   *)
EXTENDS MulticastUse, TLC

CONSTANTS t1, s1, s2, v1

OneTask == {t1}
TwoKeys == {s1, s2}
OneViewer == {v1}
=============================================================================
