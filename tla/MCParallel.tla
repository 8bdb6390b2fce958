----------------------------- MODULE MCParallel -----------------------------
(* Parallel for TLC: up to three items, from a source that may fail after them. *)
EXTENDS Parallel

ShortSources == [items : {0, 2, 3}, fails : BOOLEAN]
=============================================================================
