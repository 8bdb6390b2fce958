------------------------- MODULE MCExecutionTracker -------------------------
(***************************************************************************)
(* Instances of ExecutionTracker for TLC.                                  *)
(***************************************************************************)
EXTENDS ExecutionTracker, TLC

CONSTANTS r1, r2

RunSymmetry == Permutations(Runs)
=============================================================================
