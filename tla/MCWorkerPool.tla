---------------------------- MODULE MCWorkerPool ----------------------------
(***************************************************************************)
(* Instances of WorkerPool for TLC.                                        *)
(***************************************************************************)
EXTENDS WorkerPool, TLC

CONSTANTS p1, p2, p3, a, b, r1, r2, q1, internal

\* p2 is p1's restart under the same Config.ExecutorID.
RestartIDs == p1 :> a @@ p2 :> a @@ p3 :> b
PairIDs == p1 :> a @@ p2 :> b

OneQueued == r1 :> q1
OneDirect == r1 :> NoQueue
TwoQueued == r1 :> q1 @@ r2 :> q1

\* q1 has WithConcurrency(1); the internal queue has no limit.
Limits == q1 :> 1 @@ internal :> Cardinality(Runs)

\* p1 and p2 are alike, and so are the runs.
Symmetry == Permutations({p1, p2}) \cup Permutations(Runs)
=============================================================================
