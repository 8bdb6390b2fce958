---------------------------- MODULE MCRunControl ----------------------------
(***************************************************************************)
(* Instances of RunControl for TLC.                                        *)
(***************************************************************************)
EXTENDS RunControl, TLC

CONSTANTS c1, c2

CallerSymmetry == Permutations(Callers)
=============================================================================
