------------------------- MODULE TranscoderManagerMC -------------------------
(* Small instances of TranscoderManager: more jobs than permits, so that   *)
(* jobs queue, pass permits on, and are stopped at every point.            *)
EXTENDS TranscoderManager, TLC

CONSTANTS j1, j2, j3

ThreeJobs == {j1, j2, j3}
TwoJobs == {j1, j2}
=============================================================================
