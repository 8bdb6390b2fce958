--------------------------- MODULE WorkerPoolProofs ---------------------------
(***************************************************************************)
(* Proofs about WorkerPool: for every fleet, every assignment of executor  *)
(* IDs to processes (restarts included) and every set of runs, the safety  *)
(* properties that the runs check on small instances.                      *)
(*                                                                         *)
(* TypeOK and UntrackedMeansHeld need no assumption on the environment,    *)
(* PoisonRunIsParked only that nobody resumes the run.  The others are     *)
(* about fleets without the hazards of WorkerPool: no executor misses its  *)
(* beats for a stale threshold, no Close times out over a stage, no caller *)
(* starts an existing ID again, nobody resumes a run inside its dequeue    *)
(* window, no executor ID is shared.                                       *)
(*                                                                         *)
(* IInv is inductive.  It is proved in parts, one lemma for each group of  *)
(* conjuncts that support one another, with one step for each action.      *)
(***************************************************************************)
EXTENDS WorkerPool, FiniteSetTheorems, TLAPS

\* Every action keeps the variables in their types.
LEMMA TypePreserved ==
    ASSUME TypeOK, [Next]_vars
    PROVE  TypeOK'
<1> USE ConstantsAssumption DEF TypeOK, Phases, Duties, Ages, Statuses,
        RowStates, Places, procVars, leaseVars, runVars, history
<1>1. ASSUME NEW p \in Procs, Claim(p)
      PROVE  TypeOK'
  BY <1>1 DEF Claim
<1>2. ASSUME NEW p \in Procs, CloseOrphaned(p)
      PROVE  TypeOK'
  BY <1>2 DEF CloseOrphaned, Open
<1>3. ASSUME NEW p \in Procs, FirstBeatFails(p)
      PROVE  TypeOK'
  BY <1>3 DEF FirstBeatFails
<1>4. ASSUME NEW p \in Procs, Launch(p)
      PROVE  TypeOK'
  BY <1>4 DEF Launch
<1>5. ASSUME NEW p \in Procs, LaunchFails(p)
      PROVE  TypeOK'
  BY <1>5 DEF LaunchFails
<1>6. ASSUME NEW p \in Procs, CloseBegins(p)
      PROVE  TypeOK'
  BY <1>6 DEF CloseBegins
<1>7. ASSUME NEW p \in Procs, ShutdownReturns(p)
      PROVE  TypeOK'
  BY <1>7 DEF ShutdownReturns
<1>8. ASSUME NEW p \in Procs, Tombstone(p)
      PROVE  TypeOK'
  BY <1>8 DEF Tombstone
<1>9. ASSUME NEW p \in Procs, TombstoneFails(p)
      PROVE  TypeOK'
  BY <1>9 DEF TombstoneFails
<1>10. ASSUME NEW p \in Procs, Exit(p)
      PROVE  TypeOK'
  BY <1>10 DEF Exit, Ends
<1>11. ASSUME NEW p \in Procs, Crash(p)
      PROVE  TypeOK'
  BY <1>11 DEF Crash, Ends
<1>12. ASSUME NEW p \in Procs, Beat(p)
      PROVE  TypeOK'
  BY <1>12 DEF Beat
<1>13. ASSUME NEW p \in Procs, Takeover(p)
      PROVE  TypeOK'
  BY <1>13 DEF Takeover, Adoptable, LeaseDead, ReturnQueue
<1>14. ASSUME NEW p \in Procs, SweepSkips(p)
      PROVE  TypeOK'
  BY <1>14 DEF SweepSkips
<1>15. ASSUME NEW p \in Procs, PruneRows(p)
      PROVE  TypeOK'
  BY <1>15 DEF PruneRows
<1>16. ASSUME NEW p \in Procs, PruneLeases(p)
      PROVE  TypeOK'
  BY <1>16 DEF PruneLeases, Prunable
<1>17. ASSUME NEW p \in Procs, MaintenanceFails(p)
      PROVE  TypeOK'
  BY <1>17 DEF MaintenanceFails
<1>18. ASSUME NEW p \in Procs, NEW r \in Runs, StartDirect(p, r)
      PROVE  TypeOK'
  BY <1>18 DEF StartDirect
<1>19. ASSUME NEW p \in Procs, NEW r \in Runs, StartExisting(p, r)
      PROVE  TypeOK'
  BY <1>19 DEF StartExisting
<1>20. ASSUME NEW p \in Procs, NEW r \in Runs, Dequeue(p, r)
      PROVE  TypeOK'
  BY <1>20 DEF Dequeue
<1>21. ASSUME NEW p \in Procs, NEW r \in Runs, Enter(p, r)
      PROVE  TypeOK'
  <2>1. Counted(attempts[r]) \in Nat
    BY DEF Counted, AttemptsCap
  <2> QED BY <2>1, <1>21 DEF Enter
<1>22. ASSUME NEW p \in Procs, NEW r \in Runs, BeginExecution(p, r)
      PROVE  TypeOK'
  BY <1>22 DEF BeginExecution
<1>23. ASSUME NEW p \in Procs, NEW r \in Runs, StageStart(p, r)
      PROVE  TypeOK'
  BY <1>23 DEF StageStart
<1>24. ASSUME NEW p \in Procs, NEW r \in Runs, StageEnd(p, r)
      PROVE  TypeOK'
  BY <1>24 DEF StageEnd
<1>25. ASSUME NEW p \in Procs, NEW r \in Runs, EndExecution(p, r)
      PROVE  TypeOK'
  BY <1>25 DEF EndExecution, CloseRow
<1>26. ASSUME NEW p \in Procs, NEW r \in Runs, RecordOutcome(p, r)
      PROVE  TypeOK'
  BY <1>26 DEF RecordOutcome
<1>27. ASSUME NEW p \in Procs, NEW r \in Runs, Interrupt(p, r)
      PROVE  TypeOK'
  BY <1>27 DEF Interrupt, CloseRow
<1>28. ASSUME NEW i \in Ids, LeaseAges(i)
      PROVE  TypeOK'
  BY <1>28 DEF LeaseAges
<1>29. ASSUME NEW r \in Runs, Enqueue(r)
      PROVE  TypeOK'
  BY <1>29 DEF Enqueue
<1>30. ASSUME NEW r \in Runs, Cancel(r)
      PROVE  TypeOK'
  BY <1>30 DEF Cancel
<1>31. ASSUME NEW r \in Runs, Resume(r)
      PROVE  TypeOK'
  BY <1>31 DEF Resume, Resumable, ReturnQueue
<1>32. CASE UNCHANGED vars
  BY <1>32 DEF vars
<1> QED
  BY <1>1, <1>2, <1>3, <1>4, <1>5, <1>6, <1>7, <1>8, <1>9, <1>10, 
     <1>11, <1>12, <1>13, <1>14, <1>15, <1>16, <1>17, <1>18, <1>19, 
     <1>20, <1>21, <1>22, <1>23, <1>24, <1>25, <1>26, <1>27, <1>28, 
     <1>29, <1>30, <1>31, <1>32
     DEF Next, ProcStep, ExecutionStep

\* A beating process keeps a fresh lease of its own, and executor IDs are not
\* shared: staleness never speaks of a live process.
LEMMA LeasesPreserved ==
    ASSUME Env \cap Hazards = {}, TypeOK, LiveDistinct, LeaseHeld, [Next]_vars
    PROVE  LiveDistinct' /\ LeaseHeld'
<1> USE ConstantsAssumption DEF TypeOK, LiveDistinct, LeaseHeld, Alive, Beating,
        Hazards, procVars, leaseVars, runVars, history
<1>1. ASSUME NEW p \in Procs, Claim(p)
      PROVE  LiveDistinct' /\ LeaseHeld'
  BY <1>1 DEF Claim
<1>2. ASSUME NEW p \in Procs, CloseOrphaned(p)
      PROVE  LiveDistinct' /\ LeaseHeld'
  BY <1>2 DEF CloseOrphaned, Open
<1>3. ASSUME NEW p \in Procs, FirstBeatFails(p)
      PROVE  LiveDistinct' /\ LeaseHeld'
  BY <1>3 DEF FirstBeatFails
<1>4. ASSUME NEW p \in Procs, Launch(p)
      PROVE  LiveDistinct' /\ LeaseHeld'
  BY <1>4 DEF Launch
<1>5. ASSUME NEW p \in Procs, LaunchFails(p)
      PROVE  LiveDistinct' /\ LeaseHeld'
  BY <1>5 DEF LaunchFails
<1>6. ASSUME NEW p \in Procs, CloseBegins(p)
      PROVE  LiveDistinct' /\ LeaseHeld'
  BY <1>6 DEF CloseBegins
<1>7. ASSUME NEW p \in Procs, ShutdownReturns(p)
      PROVE  LiveDistinct' /\ LeaseHeld'
  BY <1>7 DEF ShutdownReturns
<1>8. ASSUME NEW p \in Procs, Tombstone(p)
      PROVE  LiveDistinct' /\ LeaseHeld'
  BY <1>8 DEF Tombstone
<1>9. ASSUME NEW p \in Procs, TombstoneFails(p)
      PROVE  LiveDistinct' /\ LeaseHeld'
  BY <1>9 DEF TombstoneFails
<1>10. ASSUME NEW p \in Procs, Exit(p)
      PROVE  LiveDistinct' /\ LeaseHeld'
  BY <1>10 DEF Exit, Ends
<1>11. ASSUME NEW p \in Procs, Crash(p)
      PROVE  LiveDistinct' /\ LeaseHeld'
  BY <1>11 DEF Crash, Ends
<1>12. ASSUME NEW p \in Procs, Beat(p)
      PROVE  LiveDistinct' /\ LeaseHeld'
  BY <1>12 DEF Beat
<1>13. ASSUME NEW p \in Procs, Takeover(p)
      PROVE  LiveDistinct' /\ LeaseHeld'
  BY <1>13 DEF Takeover, Adoptable, LeaseDead, ReturnQueue
<1>14. ASSUME NEW p \in Procs, SweepSkips(p)
      PROVE  LiveDistinct' /\ LeaseHeld'
  BY <1>14 DEF SweepSkips
<1>15. ASSUME NEW p \in Procs, PruneRows(p)
      PROVE  LiveDistinct' /\ LeaseHeld'
  BY <1>15 DEF PruneRows
<1>16. ASSUME NEW p \in Procs, PruneLeases(p)
      PROVE  LiveDistinct' /\ LeaseHeld'
  BY <1>16 DEF PruneLeases, Prunable
<1>17. ASSUME NEW p \in Procs, MaintenanceFails(p)
      PROVE  LiveDistinct' /\ LeaseHeld'
  BY <1>17 DEF MaintenanceFails
<1>18. ASSUME NEW p \in Procs, NEW r \in Runs, StartDirect(p, r)
      PROVE  LiveDistinct' /\ LeaseHeld'
  BY <1>18 DEF StartDirect
<1>19. ASSUME NEW p \in Procs, NEW r \in Runs, StartExisting(p, r)
      PROVE  LiveDistinct' /\ LeaseHeld'
  BY <1>19 DEF StartExisting
<1>20. ASSUME NEW p \in Procs, NEW r \in Runs, Dequeue(p, r)
      PROVE  LiveDistinct' /\ LeaseHeld'
  BY <1>20 DEF Dequeue
<1>21. ASSUME NEW p \in Procs, NEW r \in Runs, Enter(p, r)
      PROVE  LiveDistinct' /\ LeaseHeld'
  BY <1>21 DEF Enter
<1>22. ASSUME NEW p \in Procs, NEW r \in Runs, BeginExecution(p, r)
      PROVE  LiveDistinct' /\ LeaseHeld'
  BY <1>22 DEF BeginExecution
<1>23. ASSUME NEW p \in Procs, NEW r \in Runs, StageStart(p, r)
      PROVE  LiveDistinct' /\ LeaseHeld'
  BY <1>23 DEF StageStart
<1>24. ASSUME NEW p \in Procs, NEW r \in Runs, StageEnd(p, r)
      PROVE  LiveDistinct' /\ LeaseHeld'
  BY <1>24 DEF StageEnd
<1>25. ASSUME NEW p \in Procs, NEW r \in Runs, EndExecution(p, r)
      PROVE  LiveDistinct' /\ LeaseHeld'
  BY <1>25 DEF EndExecution, CloseRow
<1>26. ASSUME NEW p \in Procs, NEW r \in Runs, RecordOutcome(p, r)
      PROVE  LiveDistinct' /\ LeaseHeld'
  BY <1>26 DEF RecordOutcome
<1>27. ASSUME NEW p \in Procs, NEW r \in Runs, Interrupt(p, r)
      PROVE  LiveDistinct' /\ LeaseHeld'
  BY <1>27 DEF Interrupt, CloseRow
<1>28. ASSUME NEW i \in Ids, LeaseAges(i)
      PROVE  LiveDistinct' /\ LeaseHeld'
  BY <1>28 DEF LeaseAges
<1>29. ASSUME NEW r \in Runs, Enqueue(r)
      PROVE  LiveDistinct' /\ LeaseHeld'
  BY <1>29 DEF Enqueue
<1>30. ASSUME NEW r \in Runs, Cancel(r)
      PROVE  LiveDistinct' /\ LeaseHeld'
  BY <1>30 DEF Cancel
<1>31. ASSUME NEW r \in Runs, Resume(r)
      PROVE  LiveDistinct' /\ LeaseHeld'
  BY <1>31 DEF Resume, Resumable, ReturnQueue
<1>32. CASE UNCHANGED vars
  BY <1>32 DEF vars
<1> QED
  BY <1>1, <1>2, <1>3, <1>4, <1>5, <1>6, <1>7, <1>8, <1>9, <1>10, 
     <1>11, <1>12, <1>13, <1>14, <1>15, <1>16, <1>17, <1>18, <1>19, 
     <1>20, <1>21, <1>22, <1>23, <1>24, <1>25, <1>26, <1>27, <1>28, 
     <1>29, <1>30, <1>31, <1>32
     DEF Next, ProcStep, ExecutionStep

\* A run has at most one holder, which is up and which its row names while it
\* is PENDING: neither a sweep nor a restart's recovery can reach a held run.
LEMMA HoldersPreserved ==
    ASSUME Env \cap Hazards = {}, TypeOK, LiveDistinct, LeaseHeld, HoldersUp, HolderOwns, 
           OneHolder, [Next]_vars
    PROVE  HoldersUp' /\ HolderOwns' /\ OneHolder'
<1> USE ConstantsAssumption DEF TypeOK, LiveDistinct, LeaseHeld, HoldersUp,
        HolderOwns, OneHolder, Holds, Alive, Beating,
        Hazards, procVars, leaseVars, runVars, history
<1>1. ASSUME NEW p \in Procs, Claim(p)
      PROVE  HoldersUp' /\ HolderOwns' /\ OneHolder'
  BY <1>1 DEF Claim
<1>2. ASSUME NEW p \in Procs, CloseOrphaned(p)
      PROVE  HoldersUp' /\ HolderOwns' /\ OneHolder'
  BY <1>2 DEF CloseOrphaned, Open
<1>3. ASSUME NEW p \in Procs, FirstBeatFails(p)
      PROVE  HoldersUp' /\ HolderOwns' /\ OneHolder'
  BY <1>3 DEF FirstBeatFails
<1>4. ASSUME NEW p \in Procs, Launch(p)
      PROVE  HoldersUp' /\ HolderOwns' /\ OneHolder'
  <2> DEFINE Left(s) == status[s] = "PENDING" /\ owner[s] = ExecutorID[p]
  <2>1. \A s \in Runs : ~Holds(p, s)
    BY <1>4 DEF Launch
  <2>2. ASSUME NEW q \in Procs, NEW s \in Runs, Holds(q, s), Left(s)
        PROVE  FALSE
    <3>1. ExecutorID[q] = ExecutorID[p]
      BY <2>2
    <3>2. Alive(q)
      BY <2>2
    <3>3. Alive(p)
      BY <1>4 DEF Launch
    <3>4. q = p
      BY <3>1, <3>2, <3>3
    <3> QED BY <2>1, <2>2, <3>4
  <2>3. \A s \in Runs : /\ status'[s] # status[s] => Left(s)
                        /\ at'[p][s] # "idle" =>
                             Left(s) /\ status'[s] = "PENDING"
    BY <1>4 DEF Launch
  <2>4. \A q \in Procs \ {p} : at'[q] = at[q] /\ phase'[q] = phase[q]
    BY <1>4 DEF Launch
  <2>5. phase'[p] = "up" /\ owner' = owner
    BY <1>4 DEF Launch
  <2>6. ASSUME NEW q \in Procs, NEW s \in Runs, Holds(q, s)'
        PROVE  phase'[q] \in {"up", "draining"}
    <3>1. CASE q = p
      BY <2>5, <3>1
    <3>2. CASE q # p
      BY <2>4, <2>6, <3>2
    <3> QED BY <3>1, <3>2
  <2>7. ASSUME NEW q \in Procs, NEW s \in Runs, Holds(q, s)'
        PROVE  /\ status'[s] \notin {"absent", "ENQUEUED"}
               /\ status'[s] = "PENDING" => owner'[s] = ExecutorID[q]
    <3>1. CASE q = p
      BY <2>3, <2>5, <2>7, <3>1
    <3>2. CASE q # p
      <4>1. Holds(q, s)
        BY <2>4, <2>7, <3>2
      <4>2. status'[s] = status[s]
        BY <2>2, <2>3, <4>1
      <4> QED BY <2>5, <4>1, <4>2
    <3> QED BY <3>1, <3>2
  <2>8. ASSUME NEW q \in Procs \ {p}, NEW s \in Runs, Holds(q, s)'
        PROVE  ~Holds(p, s)'
    <3>1. Holds(q, s)
      BY <2>4, <2>8
    <3> QED BY <2>2, <2>3, <3>1
  <2>9. OneHolder'
    BY <2>4, <2>8
  <2> QED BY <2>6, <2>7, <2>9
<1>5. ASSUME NEW p \in Procs, LaunchFails(p)
      PROVE  HoldersUp' /\ HolderOwns' /\ OneHolder'
  BY <1>5 DEF LaunchFails
<1>6. ASSUME NEW p \in Procs, CloseBegins(p)
      PROVE  HoldersUp' /\ HolderOwns' /\ OneHolder'
  BY <1>6 DEF CloseBegins
<1>7. ASSUME NEW p \in Procs, ShutdownReturns(p)
      PROVE  HoldersUp' /\ HolderOwns' /\ OneHolder'
  BY <1>7 DEF ShutdownReturns
<1>8. ASSUME NEW p \in Procs, Tombstone(p)
      PROVE  HoldersUp' /\ HolderOwns' /\ OneHolder'
  BY <1>8 DEF Tombstone
<1>9. ASSUME NEW p \in Procs, TombstoneFails(p)
      PROVE  HoldersUp' /\ HolderOwns' /\ OneHolder'
  BY <1>9 DEF TombstoneFails
<1>10. ASSUME NEW p \in Procs, Exit(p)
      PROVE  HoldersUp' /\ HolderOwns' /\ OneHolder'
  BY <1>10 DEF Exit, Ends
<1>11. ASSUME NEW p \in Procs, Crash(p)
      PROVE  HoldersUp' /\ HolderOwns' /\ OneHolder'
  BY <1>11 DEF Crash, Ends
<1>12. ASSUME NEW p \in Procs, Beat(p)
      PROVE  HoldersUp' /\ HolderOwns' /\ OneHolder'
  BY <1>12 DEF Beat
<1>13. ASSUME NEW p \in Procs, Takeover(p)
      PROVE  HoldersUp' /\ HolderOwns' /\ OneHolder'
  <2>1. \A q \in Procs, s \in Runs : Holds(q, s) => ~Adoptable(s)
    <3> SUFFICES ASSUME NEW q \in Procs, NEW s \in Runs,
                        Holds(q, s), Adoptable(s)
                 PROVE  FALSE
      OBVIOUS
    <3>1. owner[s] = ExecutorID[q]
      BY DEF Adoptable
    <3>2. age[ExecutorID[q]] = "fresh"
      OBVIOUS
    <3> QED BY <3>1, <3>2 DEF Adoptable, LeaseDead
  <2>2. \A s \in Runs : ~Adoptable(s) => status'[s] = status[s]
    BY <1>13 DEF Takeover
  <2>3. UNCHANGED <<phase, owner, at>>
    BY <1>13 DEF Takeover
  <2> QED BY <2>1, <2>2, <2>3
<1>14. ASSUME NEW p \in Procs, SweepSkips(p)
      PROVE  HoldersUp' /\ HolderOwns' /\ OneHolder'
  BY <1>14 DEF SweepSkips
<1>15. ASSUME NEW p \in Procs, PruneRows(p)
      PROVE  HoldersUp' /\ HolderOwns' /\ OneHolder'
  BY <1>15 DEF PruneRows
<1>16. ASSUME NEW p \in Procs, PruneLeases(p)
      PROVE  HoldersUp' /\ HolderOwns' /\ OneHolder'
  BY <1>16 DEF PruneLeases, Prunable
<1>17. ASSUME NEW p \in Procs, MaintenanceFails(p)
      PROVE  HoldersUp' /\ HolderOwns' /\ OneHolder'
  BY <1>17 DEF MaintenanceFails
<1>18. ASSUME NEW p \in Procs, NEW r \in Runs, StartDirect(p, r)
      PROVE  HoldersUp' /\ HolderOwns' /\ OneHolder'
  BY <1>18 DEF StartDirect
<1>19. ASSUME NEW p \in Procs, NEW r \in Runs, StartExisting(p, r)
      PROVE  HoldersUp' /\ HolderOwns' /\ OneHolder'
  BY <1>19 DEF StartExisting
<1>20. ASSUME NEW p \in Procs, NEW r \in Runs, Dequeue(p, r)
      PROVE  HoldersUp' /\ HolderOwns' /\ OneHolder'
  BY <1>20 DEF Dequeue
<1>21. ASSUME NEW p \in Procs, NEW r \in Runs, Enter(p, r)
      PROVE  HoldersUp' /\ HolderOwns' /\ OneHolder'
  BY <1>21 DEF Enter
<1>22. ASSUME NEW p \in Procs, NEW r \in Runs, BeginExecution(p, r)
      PROVE  HoldersUp' /\ HolderOwns' /\ OneHolder'
  BY <1>22 DEF BeginExecution
<1>23. ASSUME NEW p \in Procs, NEW r \in Runs, StageStart(p, r)
      PROVE  HoldersUp' /\ HolderOwns' /\ OneHolder'
  BY <1>23 DEF StageStart
<1>24. ASSUME NEW p \in Procs, NEW r \in Runs, StageEnd(p, r)
      PROVE  HoldersUp' /\ HolderOwns' /\ OneHolder'
  BY <1>24 DEF StageEnd
<1>25. ASSUME NEW p \in Procs, NEW r \in Runs, EndExecution(p, r)
      PROVE  HoldersUp' /\ HolderOwns' /\ OneHolder'
  BY <1>25 DEF EndExecution, CloseRow
<1>26. ASSUME NEW p \in Procs, NEW r \in Runs, RecordOutcome(p, r)
      PROVE  HoldersUp' /\ HolderOwns' /\ OneHolder'
  BY <1>26 DEF RecordOutcome
<1>27. ASSUME NEW p \in Procs, NEW r \in Runs, Interrupt(p, r)
      PROVE  HoldersUp' /\ HolderOwns' /\ OneHolder'
  BY <1>27 DEF Interrupt, CloseRow
<1>28. ASSUME NEW i \in Ids, LeaseAges(i)
      PROVE  HoldersUp' /\ HolderOwns' /\ OneHolder'
  BY <1>28 DEF LeaseAges
<1>29. ASSUME NEW r \in Runs, Enqueue(r)
      PROVE  HoldersUp' /\ HolderOwns' /\ OneHolder'
  BY <1>29 DEF Enqueue
<1>30. ASSUME NEW r \in Runs, Cancel(r)
      PROVE  HoldersUp' /\ HolderOwns' /\ OneHolder'
  BY <1>30 DEF Cancel
<1>31. ASSUME NEW r \in Runs, Resume(r)
      PROVE  HoldersUp' /\ HolderOwns' /\ OneHolder'
  BY <1>31 DEF Resume, Resumable, ReturnQueue
<1>32. CASE UNCHANGED vars
  BY <1>32 DEF vars
<1> QED
  BY <1>1, <1>2, <1>3, <1>4, <1>5, <1>6, <1>7, <1>8, <1>9, <1>10, 
     <1>11, <1>12, <1>13, <1>14, <1>15, <1>16, <1>17, <1>18, <1>19, 
     <1>20, <1>21, <1>22, <1>23, <1>24, <1>25, <1>26, <1>27, <1>28, 
     <1>29, <1>30, <1>31, <1>32
     DEF Next, ProcStep, ExecutionStep

\* The open rows of a live executor ID are the executions inside a body there.
LEMMA RowsPreserved ==
    ASSUME Env \cap Hazards = {}, TypeOK, LiveDistinct, LeaseHeld, HoldersUp, HolderOwns, 
           RowsMatch, [Next]_vars
    PROVE  RowsMatch'
<1> USE ConstantsAssumption DEF TypeOK, LiveDistinct, LeaseHeld, HoldersUp,
        HolderOwns, RowsMatch, InBody, Open, Holds,
        Alive, Beating, Hazards, procVars, leaseVars,
        runVars, history
<1>1. ASSUME NEW p \in Procs, Claim(p)
      PROVE  RowsMatch'
  BY <1>1 DEF Claim
<1>2. ASSUME NEW p \in Procs, CloseOrphaned(p)
      PROVE  RowsMatch'
  <2> SUFFICES ASSUME NEW q \in Procs, NEW s \in Runs,
                      phase'[q] \in {"ready", "up", "draining"}
               PROVE  /\ InBody(q, s)' => rows'[ExecutorID[q]][s] = q
                      /\ Open(ExecutorID[q], s)' => InBody(q, s)'
    OBVIOUS
  <2>1. ExecutorID[q] = ExecutorID[p] => q = p
    BY <1>2 DEF CloseOrphaned
  <2>2. CASE q = p
    <3>1. ~InBody(q, s)'
      BY <2>2, <1>2 DEF CloseOrphaned
    <3>2. ~Open(ExecutorID[q], s)'
      BY <2>2, <1>2 DEF CloseOrphaned
    <3> QED BY <3>1, <3>2
  <2>3. CASE q # p
    BY <2>1, <2>3, <1>2 DEF CloseOrphaned
  <2> QED BY <2>2, <2>3
<1>3. ASSUME NEW p \in Procs, FirstBeatFails(p)
      PROVE  RowsMatch'
  BY <1>3 DEF FirstBeatFails
<1>4. ASSUME NEW p \in Procs, Launch(p)
      PROVE  RowsMatch'
  BY <1>4 DEF Launch
<1>5. ASSUME NEW p \in Procs, LaunchFails(p)
      PROVE  RowsMatch'
  BY <1>5 DEF LaunchFails
<1>6. ASSUME NEW p \in Procs, CloseBegins(p)
      PROVE  RowsMatch'
  BY <1>6 DEF CloseBegins
<1>7. ASSUME NEW p \in Procs, ShutdownReturns(p)
      PROVE  RowsMatch'
  BY <1>7 DEF ShutdownReturns
<1>8. ASSUME NEW p \in Procs, Tombstone(p)
      PROVE  RowsMatch'
  BY <1>8 DEF Tombstone
<1>9. ASSUME NEW p \in Procs, TombstoneFails(p)
      PROVE  RowsMatch'
  BY <1>9 DEF TombstoneFails
<1>10. ASSUME NEW p \in Procs, Exit(p)
      PROVE  RowsMatch'
  BY <1>10 DEF Exit, Ends
<1>11. ASSUME NEW p \in Procs, Crash(p)
      PROVE  RowsMatch'
  BY <1>11 DEF Crash, Ends
<1>12. ASSUME NEW p \in Procs, Beat(p)
      PROVE  RowsMatch'
  BY <1>12 DEF Beat
<1>13. ASSUME NEW p \in Procs, Takeover(p)
      PROVE  RowsMatch'
  BY <1>13 DEF Takeover, Adoptable, LeaseDead, ReturnQueue
<1>14. ASSUME NEW p \in Procs, SweepSkips(p)
      PROVE  RowsMatch'
  BY <1>14 DEF SweepSkips
<1>15. ASSUME NEW p \in Procs, PruneRows(p)
      PROVE  RowsMatch'
  <2> SUFFICES ASSUME NEW q \in Procs, NEW s \in Runs,
                      phase'[q] \in {"ready", "up", "draining"}
               PROVE  /\ InBody(q, s)' => rows'[ExecutorID[q]][s] = q
                      /\ Open(ExecutorID[q], s)' => InBody(q, s)'
    OBVIOUS
  <2>1. age[ExecutorID[q]] = "fresh"
    BY <1>15 DEF PruneRows
  <2>2. rows'[ExecutorID[q]] = rows[ExecutorID[q]]
    BY <2>1, <1>15 DEF PruneRows
  <2> QED BY <2>2, <1>15 DEF PruneRows
<1>16. ASSUME NEW p \in Procs, PruneLeases(p)
      PROVE  RowsMatch'
  BY <1>16 DEF PruneLeases, Prunable
<1>17. ASSUME NEW p \in Procs, MaintenanceFails(p)
      PROVE  RowsMatch'
  BY <1>17 DEF MaintenanceFails
<1>18. ASSUME NEW p \in Procs, NEW r \in Runs, StartDirect(p, r)
      PROVE  RowsMatch'
  BY <1>18 DEF StartDirect
<1>19. ASSUME NEW p \in Procs, NEW r \in Runs, StartExisting(p, r)
      PROVE  RowsMatch'
  BY <1>19 DEF StartExisting
<1>20. ASSUME NEW p \in Procs, NEW r \in Runs, Dequeue(p, r)
      PROVE  RowsMatch'
  BY <1>20 DEF Dequeue
<1>21. ASSUME NEW p \in Procs, NEW r \in Runs, Enter(p, r)
      PROVE  RowsMatch'
  BY <1>21 DEF Enter
<1>22. ASSUME NEW p \in Procs, NEW r \in Runs, BeginExecution(p, r)
      PROVE  RowsMatch'
  <2> SUFFICES ASSUME NEW q \in Procs, NEW s \in Runs,
                      phase'[q] \in {"ready", "up", "draining"}
               PROVE  /\ InBody(q, s)' => rows'[ExecutorID[q]][s] = q
                      /\ Open(ExecutorID[q], s)' => InBody(q, s)'
    OBVIOUS
  <2>1. ExecutorID[q] = ExecutorID[p] => q = p
    BY <1>22 DEF BeginExecution
  <2>2. CASE q = p /\ s = r
    BY <2>2, <1>22 DEF BeginExecution
  <2>3. CASE q # p \/ s # r
    BY <2>1, <2>3, <1>22 DEF BeginExecution
  <2> QED BY <2>2, <2>3
<1>23. ASSUME NEW p \in Procs, NEW r \in Runs, StageStart(p, r)
      PROVE  RowsMatch'
  BY <1>23 DEF StageStart
<1>24. ASSUME NEW p \in Procs, NEW r \in Runs, StageEnd(p, r)
      PROVE  RowsMatch'
  BY <1>24 DEF StageEnd
<1>25. ASSUME NEW p \in Procs, NEW r \in Runs, EndExecution(p, r)
      PROVE  RowsMatch'
  <2> SUFFICES ASSUME NEW q \in Procs, NEW s \in Runs,
                      phase'[q] \in {"ready", "up", "draining"}
               PROVE  /\ InBody(q, s)' => rows'[ExecutorID[q]][s] = q
                      /\ Open(ExecutorID[q], s)' => InBody(q, s)'
    OBVIOUS
  <2>1. ExecutorID[q] = ExecutorID[p] => q = p
    BY <1>25 DEF EndExecution
  <2>2. CASE q = p /\ s = r
    BY <2>2, <1>25 DEF EndExecution, CloseRow
  <2>3. CASE q # p \/ s # r
    BY <2>1, <2>3, <1>25 DEF EndExecution, CloseRow
  <2> QED BY <2>2, <2>3
<1>26. ASSUME NEW p \in Procs, NEW r \in Runs, RecordOutcome(p, r)
      PROVE  RowsMatch'
  BY <1>26 DEF RecordOutcome
<1>27. ASSUME NEW p \in Procs, NEW r \in Runs, Interrupt(p, r)
      PROVE  RowsMatch'
  <2> SUFFICES ASSUME NEW q \in Procs, NEW s \in Runs,
                      phase'[q] \in {"ready", "up", "draining"}
               PROVE  /\ InBody(q, s)' => rows'[ExecutorID[q]][s] = q
                      /\ Open(ExecutorID[q], s)' => InBody(q, s)'
    OBVIOUS
  <2>1. ExecutorID[q] = ExecutorID[p] => q = p
    BY <1>27 DEF Interrupt
  <2>2. CASE q = p /\ s = r
    BY <2>2, <1>27 DEF Interrupt, CloseRow
  <2>3. CASE q # p \/ s # r
    BY <2>1, <2>3, <1>27 DEF Interrupt, CloseRow
  <2> QED BY <2>2, <2>3
<1>28. ASSUME NEW i \in Ids, LeaseAges(i)
      PROVE  RowsMatch'
  BY <1>28 DEF LeaseAges
<1>29. ASSUME NEW r \in Runs, Enqueue(r)
      PROVE  RowsMatch'
  BY <1>29 DEF Enqueue
<1>30. ASSUME NEW r \in Runs, Cancel(r)
      PROVE  RowsMatch'
  BY <1>30 DEF Cancel
<1>31. ASSUME NEW r \in Runs, Resume(r)
      PROVE  RowsMatch'
  BY <1>31 DEF Resume, Resumable, ReturnQueue
<1>32. CASE UNCHANGED vars
  BY <1>32 DEF vars
<1> QED
  BY <1>1, <1>2, <1>3, <1>4, <1>5, <1>6, <1>7, <1>8, <1>9, <1>10, 
     <1>11, <1>12, <1>13, <1>14, <1>15, <1>16, <1>17, <1>18, <1>19, 
     <1>20, <1>21, <1>22, <1>23, <1>24, <1>25, <1>26, <1>27, <1>28, 
     <1>29, <1>30, <1>31, <1>32
     DEF Next, ProcStep, ExecutionStep

\* No PENDING run loses its executor's lease row.
LEMMA AdoptablePreserved ==
    ASSUME Env \cap Hazards = {}, TypeOK, LeaseHeld, PendingHasLease, [Next]_vars
    PROVE  PendingHasLease'
<1> USE ConstantsAssumption DEF TypeOK, LeaseHeld, PendingHasLease, Beating,
        Hazards, Ages, procVars, leaseVars, runVars, history
<1>1. ASSUME NEW p \in Procs, Claim(p)
      PROVE  PendingHasLease'
  BY <1>1 DEF Claim
<1>2. ASSUME NEW p \in Procs, CloseOrphaned(p)
      PROVE  PendingHasLease'
  BY <1>2 DEF CloseOrphaned, Open
<1>3. ASSUME NEW p \in Procs, FirstBeatFails(p)
      PROVE  PendingHasLease'
  BY <1>3 DEF FirstBeatFails
<1>4. ASSUME NEW p \in Procs, Launch(p)
      PROVE  PendingHasLease'
  BY <1>4 DEF Launch
<1>5. ASSUME NEW p \in Procs, LaunchFails(p)
      PROVE  PendingHasLease'
  BY <1>5 DEF LaunchFails
<1>6. ASSUME NEW p \in Procs, CloseBegins(p)
      PROVE  PendingHasLease'
  BY <1>6 DEF CloseBegins
<1>7. ASSUME NEW p \in Procs, ShutdownReturns(p)
      PROVE  PendingHasLease'
  BY <1>7 DEF ShutdownReturns
<1>8. ASSUME NEW p \in Procs, Tombstone(p)
      PROVE  PendingHasLease'
  BY <1>8 DEF Tombstone
<1>9. ASSUME NEW p \in Procs, TombstoneFails(p)
      PROVE  PendingHasLease'
  BY <1>9 DEF TombstoneFails
<1>10. ASSUME NEW p \in Procs, Exit(p)
      PROVE  PendingHasLease'
  BY <1>10 DEF Exit, Ends
<1>11. ASSUME NEW p \in Procs, Crash(p)
      PROVE  PendingHasLease'
  BY <1>11 DEF Crash, Ends
<1>12. ASSUME NEW p \in Procs, Beat(p)
      PROVE  PendingHasLease'
  BY <1>12 DEF Beat
<1>13. ASSUME NEW p \in Procs, Takeover(p)
      PROVE  PendingHasLease'
  BY <1>13 DEF Takeover, Adoptable, LeaseDead, ReturnQueue
<1>14. ASSUME NEW p \in Procs, SweepSkips(p)
      PROVE  PendingHasLease'
  BY <1>14 DEF SweepSkips
<1>15. ASSUME NEW p \in Procs, PruneRows(p)
      PROVE  PendingHasLease'
  BY <1>15 DEF PruneRows
<1>16. ASSUME NEW p \in Procs, PruneLeases(p)
      PROVE  PendingHasLease'
  BY <1>16 DEF PruneLeases, Prunable
<1>17. ASSUME NEW p \in Procs, MaintenanceFails(p)
      PROVE  PendingHasLease'
  BY <1>17 DEF MaintenanceFails
<1>18. ASSUME NEW p \in Procs, NEW r \in Runs, StartDirect(p, r)
      PROVE  PendingHasLease'
  BY <1>18 DEF StartDirect
<1>19. ASSUME NEW p \in Procs, NEW r \in Runs, StartExisting(p, r)
      PROVE  PendingHasLease'
  BY <1>19 DEF StartExisting
<1>20. ASSUME NEW p \in Procs, NEW r \in Runs, Dequeue(p, r)
      PROVE  PendingHasLease'
  BY <1>20 DEF Dequeue
<1>21. ASSUME NEW p \in Procs, NEW r \in Runs, Enter(p, r)
      PROVE  PendingHasLease'
  <2>1. \A s \in Runs : status'[s] = "PENDING" => status[s] = "PENDING"
    BY <1>21 DEF Enter
  <2>2. owner'[r] = ExecutorID[p] /\ age[ExecutorID[p]] = "fresh"
    BY <1>21 DEF Enter
  <2>3. \A s \in Runs \ {r} : owner'[s] = owner[s]
    BY <1>21 DEF Enter
  <2>4. age' = age
    BY <1>21 DEF Enter
  <2> SUFFICES ASSUME NEW s \in Runs, status'[s] = "PENDING"
               PROVE  owner'[s] \in Ids /\ age'[owner'[s]] # "absent"
    OBVIOUS
  <2>5. CASE s = r
    BY <2>2, <2>4, <2>5
  <2>6. CASE s # r
    BY <2>1, <2>3, <2>4, <2>6
  <2> QED BY <2>5, <2>6
<1>22. ASSUME NEW p \in Procs, NEW r \in Runs, BeginExecution(p, r)
      PROVE  PendingHasLease'
  BY <1>22 DEF BeginExecution
<1>23. ASSUME NEW p \in Procs, NEW r \in Runs, StageStart(p, r)
      PROVE  PendingHasLease'
  BY <1>23 DEF StageStart
<1>24. ASSUME NEW p \in Procs, NEW r \in Runs, StageEnd(p, r)
      PROVE  PendingHasLease'
  BY <1>24 DEF StageEnd
<1>25. ASSUME NEW p \in Procs, NEW r \in Runs, EndExecution(p, r)
      PROVE  PendingHasLease'
  BY <1>25 DEF EndExecution, CloseRow
<1>26. ASSUME NEW p \in Procs, NEW r \in Runs, RecordOutcome(p, r)
      PROVE  PendingHasLease'
  BY <1>26 DEF RecordOutcome
<1>27. ASSUME NEW p \in Procs, NEW r \in Runs, Interrupt(p, r)
      PROVE  PendingHasLease'
  BY <1>27 DEF Interrupt, CloseRow
<1>28. ASSUME NEW i \in Ids, LeaseAges(i)
      PROVE  PendingHasLease'
  BY <1>28 DEF LeaseAges
<1>29. ASSUME NEW r \in Runs, Enqueue(r)
      PROVE  PendingHasLease'
  BY <1>29 DEF Enqueue
<1>30. ASSUME NEW r \in Runs, Cancel(r)
      PROVE  PendingHasLease'
  BY <1>30 DEF Cancel
<1>31. ASSUME NEW r \in Runs, Resume(r)
      PROVE  PendingHasLease'
  BY <1>31 DEF Resume, Resumable, ReturnQueue
<1>32. CASE UNCHANGED vars
  BY <1>32 DEF vars
<1> QED
  BY <1>1, <1>2, <1>3, <1>4, <1>5, <1>6, <1>7, <1>8, <1>9, <1>10, 
     <1>11, <1>12, <1>13, <1>14, <1>15, <1>16, <1>17, <1>18, <1>19, 
     <1>20, <1>21, <1>22, <1>23, <1>24, <1>25, <1>26, <1>27, <1>28, 
     <1>29, <1>30, <1>31, <1>32
     DEF Next, ProcStep, ExecutionStep

-----------------------------------------------------------------------------

\* The empty fleet satisfies the inductive invariant.
LEMMA InitEstablishes == Init => IInv
  BY ConstantsAssumption
     DEF Init, IInv, TypeOK, Phases, Duties, Ages, Statuses, RowStates, Places,
         LiveDistinct, LeaseHeld, HoldersUp, HolderOwns, OneHolder, RowsMatch,
         InBody, Open, Holds, Alive, Beating, PendingHasLease

\* IInv is inductive in a fleet without hazards.
LEMMA Inductive ==
    ASSUME Env \cap Hazards = {}, IInv, [Next]_vars
    PROVE  IInv'
<1> USE DEF IInv
<1>1. TypeOK'
  BY TypePreserved
<1>2. LiveDistinct' /\ LeaseHeld'
  BY LeasesPreserved
<1>3. HoldersUp' /\ HolderOwns' /\ OneHolder'
  BY HoldersPreserved
<1>4. RowsMatch'
  BY RowsPreserved
<1>5. PendingHasLease'
  BY AdoptablePreserved
<1> QED BY <1>1, <1>2, <1>3, <1>4, <1>5

\* The variables keep their types, in any environment: the state of a fleet
\* as workerpool.go and executions.go keep it in Postgres and in memory.
THEOREM TypeCorrect == Spec => []TypeOK
<1>1. Init => TypeOK
  BY InitEstablishes DEF IInv
<1>2. TypeOK /\ [Next]_vars => TypeOK'
  BY TypePreserved
<1> QED BY <1>1, <1>2, PTL DEF Spec

\* The inductive invariant holds in every state of a fleet without hazards.
THEOREM InductiveInvariant ==
    ASSUME Env \cap Hazards = {}
    PROVE  Spec => []IInv
<1>1. Init => IInv
  BY InitEstablishes
<1>2. IInv /\ [Next]_vars => IInv'
  BY Inductive
<1> QED BY <1>1, <1>2, PTL DEF Spec

\* Takeover, recovery and Resume never have two processes execute stages of
\* one run at once (takeoverSQL, resumeSQL).
THEOREM Exclusive ==
    ASSUME Env \cap Hazards = {}
    PROVE  Spec => []ExclusiveExecution
<1>1. IInv => ExclusiveExecution
  BY DEF IInv, OneHolder, Holds, ExclusiveExecution, Running
<1> QED BY <1>1, InductiveInvariant, PTL

\* A run Unsettled does not report has no stage running anywhere: a running
\* stage's row is open under a fresh lease (unsettledSQL, first disjunct).
THEOREM SettledIsIdle ==
    ASSUME Env \cap Hazards = {}
    PROVE  Spec => []SettledMeansIdle
<1>1. ASSUME IInv, NEW p \in Procs, NEW r \in Runs, Running(p, r)
      PROVE  OpenExecution(r)
  <2>1. phase[p] \in {"up", "draining"}
    BY <1>1 DEF IInv, HoldersUp, Holds, Running
  <2>2. age[ExecutorID[p]] = "fresh"
    BY <1>1, <2>1 DEF IInv, LeaseHeld, Beating
  <2>3. rows[ExecutorID[p]][r] = p
    BY <1>1, <2>1 DEF IInv, RowsMatch, InBody, Running
  <2> QED BY <2>2, <2>3, ConstantsAssumption DEF OpenExecution, Open
<1>2. IInv => SettledMeansIdle
  BY <1>1 DEF SettledMeansIdle, Settled, Executing
<1> QED BY <1>2, InductiveInvariant, PTL

\* Under a live lease, an open row is an execution of the process that holds
\* the lease, restarts under the executor ID of a crashed process included
\* (closeOrphanedSQL).
THEOREM OpenRowIsHeld ==
    ASSUME Env \cap Hazards = {}
    PROVE  Spec => []OpenRowMeansHeld
<1>1. IInv => OpenRowMeansHeld
  BY DEF IInv, RowsMatch, InBody, OpenRowMeansHeld
<1> QED BY <1>1, InductiveInvariant, PTL

\* A PENDING run's executor always has a lease row, so the run stays
\* adoptable however long ago its executor died (pruneLeasesSQL).
THEOREM PendingStaysAdoptable ==
    ASSUME Env \cap Hazards = {}
    PROVE  Spec => []PendingHasLease
<1>1. IInv => PendingHasLease
  BY DEF IInv
<1> QED BY <1>1, InductiveInvariant, PTL

-----------------------------------------------------------------------------
(* The lease of a process that beats.                                      *)

\* Only a process whose beats do not land loses the lease that names it.
LEMMA FreshPreserved ==
    ASSUME "pause" \notin Env, TypeOK, HolderStaysFresh, [Next]_vars
    PROVE  HolderStaysFresh'
<1> USE ConstantsAssumption DEF TypeOK, HolderStaysFresh, Beating, procVars,
        leaseVars, runVars, history
<1>1. ASSUME NEW p \in Procs, Claim(p)
      PROVE  HolderStaysFresh'
  BY <1>1 DEF Claim
<1>2. ASSUME NEW p \in Procs, CloseOrphaned(p)
      PROVE  HolderStaysFresh'
  BY <1>2 DEF CloseOrphaned
<1>3. ASSUME NEW p \in Procs, FirstBeatFails(p)
      PROVE  HolderStaysFresh'
  BY <1>3 DEF FirstBeatFails
<1>4. ASSUME NEW p \in Procs, Launch(p)
      PROVE  HolderStaysFresh'
  BY <1>4 DEF Launch
<1>5. ASSUME NEW p \in Procs, LaunchFails(p)
      PROVE  HolderStaysFresh'
  BY <1>5 DEF LaunchFails
<1>6. ASSUME NEW p \in Procs, CloseBegins(p)
      PROVE  HolderStaysFresh'
  BY <1>6 DEF CloseBegins
<1>7. ASSUME NEW p \in Procs, ShutdownReturns(p)
      PROVE  HolderStaysFresh'
  BY <1>7 DEF ShutdownReturns
<1>8. ASSUME NEW p \in Procs, Tombstone(p)
      PROVE  HolderStaysFresh'
  BY <1>8 DEF Tombstone
<1>9. ASSUME NEW p \in Procs, TombstoneFails(p)
      PROVE  HolderStaysFresh'
  BY <1>9 DEF TombstoneFails
<1>10. ASSUME NEW p \in Procs, Exit(p)
      PROVE  HolderStaysFresh'
  BY <1>10 DEF Exit, Ends
<1>11. ASSUME NEW p \in Procs, Crash(p)
      PROVE  HolderStaysFresh'
  BY <1>11 DEF Crash, Ends
<1>12. ASSUME NEW p \in Procs, Beat(p)
      PROVE  HolderStaysFresh'
  BY <1>12 DEF Beat
<1>13. ASSUME NEW p \in Procs, Takeover(p)
      PROVE  HolderStaysFresh'
  BY <1>13 DEF Takeover, Adoptable
<1>14. ASSUME NEW p \in Procs, SweepSkips(p)
      PROVE  HolderStaysFresh'
  BY <1>14 DEF SweepSkips
<1>15. ASSUME NEW p \in Procs, PruneRows(p)
      PROVE  HolderStaysFresh'
  BY <1>15 DEF PruneRows
<1>16. ASSUME NEW p \in Procs, PruneLeases(p)
      PROVE  HolderStaysFresh'
  BY <1>16 DEF PruneLeases, Prunable
<1>17. ASSUME NEW p \in Procs, MaintenanceFails(p)
      PROVE  HolderStaysFresh'
  BY <1>17 DEF MaintenanceFails
<1>18. ASSUME NEW p \in Procs, NEW r \in Runs, StartDirect(p, r)
      PROVE  HolderStaysFresh'
  BY <1>18 DEF StartDirect
<1>19. ASSUME NEW p \in Procs, NEW r \in Runs, StartExisting(p, r)
      PROVE  HolderStaysFresh'
  BY <1>19 DEF StartExisting
<1>20. ASSUME NEW p \in Procs, NEW r \in Runs, Dequeue(p, r)
      PROVE  HolderStaysFresh'
  BY <1>20 DEF Dequeue
<1>21. ASSUME NEW p \in Procs, NEW r \in Runs, Enter(p, r)
      PROVE  HolderStaysFresh'
  BY <1>21 DEF Enter
<1>22. ASSUME NEW p \in Procs, NEW r \in Runs, BeginExecution(p, r)
      PROVE  HolderStaysFresh'
  BY <1>22 DEF BeginExecution
<1>23. ASSUME NEW p \in Procs, NEW r \in Runs, StageStart(p, r)
      PROVE  HolderStaysFresh'
  BY <1>23 DEF StageStart
<1>24. ASSUME NEW p \in Procs, NEW r \in Runs, StageEnd(p, r)
      PROVE  HolderStaysFresh'
  BY <1>24 DEF StageEnd
<1>25. ASSUME NEW p \in Procs, NEW r \in Runs, EndExecution(p, r)
      PROVE  HolderStaysFresh'
  BY <1>25 DEF EndExecution, CloseRow
<1>26. ASSUME NEW p \in Procs, NEW r \in Runs, RecordOutcome(p, r)
      PROVE  HolderStaysFresh'
  BY <1>26 DEF RecordOutcome
<1>27. ASSUME NEW p \in Procs, NEW r \in Runs, Interrupt(p, r)
      PROVE  HolderStaysFresh'
  BY <1>27 DEF Interrupt, CloseRow
<1>28. ASSUME NEW i \in Ids, LeaseAges(i)
      PROVE  HolderStaysFresh'
  BY <1>28 DEF LeaseAges
<1>29. ASSUME NEW r \in Runs, Enqueue(r)
      PROVE  HolderStaysFresh'
  BY <1>29 DEF Enqueue
<1>30. ASSUME NEW r \in Runs, Cancel(r)
      PROVE  HolderStaysFresh'
  BY <1>30 DEF Cancel
<1>31. ASSUME NEW r \in Runs, Resume(r)
      PROVE  HolderStaysFresh'
  BY <1>31 DEF Resume
<1>32. CASE UNCHANGED vars
  BY <1>32 DEF vars
<1> QED
  BY <1>1, <1>2, <1>3, <1>4, <1>5, <1>6, <1>7, <1>8, <1>9, <1>10, <1>11,
     <1>12, <1>13, <1>14, <1>15, <1>16, <1>17, <1>18, <1>19, <1>20, <1>21,
     <1>22, <1>23, <1>24, <1>25, <1>26, <1>27, <1>28, <1>29, <1>30, <1>31,
     <1>32
     DEF Next, ProcStep, ExecutionStep

\* A beating process whose lease row names it reads as live, whatever its
\* predecessors or successors on the executor ID do to the row, as long as its
\* own beats land (claimLease, beatOnce, tombstoneSQL).
THEOREM HolderIsFresh ==
    ASSUME "pause" \notin Env
    PROVE  Spec => []HolderStaysFresh
<1>1. Init => HolderStaysFresh
  BY DEF Init, HolderStaysFresh, Beating
<1>2. TypeOK /\ HolderStaysFresh /\ [Next]_vars => HolderStaysFresh'
  BY FreshPreserved
<1> QED BY <1>1, <1>2, TypeCorrect, PTL DEF Spec

-----------------------------------------------------------------------------
(* The recovery budget.                                                    *)

\* The executions of a run that were counted and have not come to their end,
\* and those inside a stage.
Started(r) == {p \in Procs : at[p][r] \in {"entered", "between", "stage"}}
Staged(r) == {p \in Procs : at[p][r] = "stage"}

\* A run nobody has started has a fresh budget and no execution.
AbsentIsUntouched ==
    \A r \in Runs : status[r] = "absent" =>
        attempts[r] = 0 /\ killed[r] = 0 /\ \A p \in Procs : at[p][r] = "idle"

\* Every process that died inside a stage, and every execution that still may,
\* was counted as a start, within the budget.
Budgeted ==
    \A r \in Runs :
        /\ status[r] # "CANCELLED" =>
             /\ killed[r] + Cardinality(Started(r)) <= attempts[r]
             /\ killed[r] + Cardinality(Started(r)) <= MaxAttempts + 1
        /\ killed[r] + Cardinality(Staged(r)) <= MaxAttempts + 1

\* What one step may do to a run's budget: nothing that raises the sum, a
\* counted start within the budget, a start of a cancelled run, whose stages
\* are refused, or a death inside a stage.
Quiet(s) ==
    /\ killed'[s] = killed[s] /\ attempts'[s] >= attempts[s]
    /\ Started(s)' \subseteq Started(s)
    /\ status[s] = "CANCELLED" => Staged(s)' \subseteq Staged(s)
CountedStart(s) ==
    /\ killed'[s] = killed[s]
    /\ status[s] # "CANCELLED"
    /\ attempts[s] <= MaxAttempts /\ attempts'[s] = attempts[s] + 1
    /\ \E q \in Procs : Started(s)' = Started(s) \cup {q}
CancelledStart(s) ==
    /\ killed'[s] = killed[s]
    /\ status[s] = "CANCELLED" /\ Staged(s)' = Staged(s)
Death(s) ==
    /\ killed'[s] = killed[s] + 1 /\ attempts'[s] = attempts[s]
    /\ \E q \in Staged(s) : /\ Started(s)' = Started(s) \ {q}
                            /\ Staged(s)' = Staged(s) \ {q}
BudgetStep(s) ==
    /\ status[s] = "CANCELLED" => status'[s] = "CANCELLED"
    /\ Quiet(s) \/ CountedStart(s) \/ CancelledStart(s) \/ Death(s)

\* Every step of the fleet is one of these for every run, unless it resumes.
LEMMA StepBudget ==
    ASSUME "resume" \notin Env, TypeOK, AbsentIsUntouched, [Next]_vars, NEW s \in Runs
    PROVE  BudgetStep(s)
<1> USE ConstantsAssumption DEF TypeOK, AbsentIsUntouched, BudgetStep, Quiet,
        Started, Staged, Places, procVars, leaseVars, runVars, history
<1>1. ASSUME NEW p \in Procs, Claim(p)
      PROVE  BudgetStep(s)
  BY <1>1 DEF Claim
<1>2. ASSUME NEW p \in Procs, CloseOrphaned(p)
      PROVE  BudgetStep(s)
  BY <1>2 DEF CloseOrphaned
<1>3. ASSUME NEW p \in Procs, FirstBeatFails(p)
      PROVE  BudgetStep(s)
  BY <1>3 DEF FirstBeatFails
<1>4. ASSUME NEW p \in Procs, Launch(p)
      PROVE  BudgetStep(s)
  BY <1>4 DEF Launch
<1>5. ASSUME NEW p \in Procs, LaunchFails(p)
      PROVE  BudgetStep(s)
  BY <1>5 DEF LaunchFails
<1>6. ASSUME NEW p \in Procs, CloseBegins(p)
      PROVE  BudgetStep(s)
  BY <1>6 DEF CloseBegins
<1>7. ASSUME NEW p \in Procs, ShutdownReturns(p)
      PROVE  BudgetStep(s)
  BY <1>7 DEF ShutdownReturns
<1>8. ASSUME NEW p \in Procs, Tombstone(p)
      PROVE  BudgetStep(s)
  BY <1>8 DEF Tombstone
<1>9. ASSUME NEW p \in Procs, TombstoneFails(p)
      PROVE  BudgetStep(s)
  BY <1>9 DEF TombstoneFails
<1>10. ASSUME NEW p \in Procs, Exit(p)
      PROVE  BudgetStep(s)
  BY <1>10 DEF Exit, Ends
<1>11. ASSUME NEW p \in Procs, Crash(p)
      PROVE  BudgetStep(s)
  <2>1. at' = [at EXCEPT ![p] = [r \in Runs |-> "idle"]] /\ UNCHANGED runVars
    BY <1>11 DEF Crash, Ends
  <2>2. \A q \in Procs : at'[q][s] = IF q = p THEN "idle" ELSE at[q][s]
    BY <2>1
  <2>3. CASE at[p][s] = "stage"
    <3>1. killed'[s] = killed[s] + 1
      BY <1>11, <2>3 DEF Crash
    <3>2. p \in Staged(s)
      BY <2>3
    <3>3. Started(s)' = Started(s) \ {p}
      BY <2>2
    <3>4. Staged(s)' = Staged(s) \ {p}
      BY <2>2
    <3>5. Death(s)
      BY <2>1, <3>1, <3>2, <3>3, <3>4 DEF Death
    <3> QED BY <2>1, <3>5
  <2>4. CASE at[p][s] # "stage"
    <3>1. killed'[s] = killed[s]
      BY <1>11, <2>4 DEF Crash
    <3> QED BY <2>1, <2>2, <3>1
  <2> QED BY <2>3, <2>4
<1>12. ASSUME NEW p \in Procs, Beat(p)
      PROVE  BudgetStep(s)
  BY <1>12 DEF Beat
<1>13. ASSUME NEW p \in Procs, Takeover(p)
      PROVE  BudgetStep(s)
  BY <1>13 DEF Takeover, Adoptable
<1>14. ASSUME NEW p \in Procs, SweepSkips(p)
      PROVE  BudgetStep(s)
  BY <1>14 DEF SweepSkips
<1>15. ASSUME NEW p \in Procs, PruneRows(p)
      PROVE  BudgetStep(s)
  BY <1>15 DEF PruneRows
<1>16. ASSUME NEW p \in Procs, PruneLeases(p)
      PROVE  BudgetStep(s)
  BY <1>16 DEF PruneLeases, Prunable
<1>17. ASSUME NEW p \in Procs, MaintenanceFails(p)
      PROVE  BudgetStep(s)
  BY <1>17 DEF MaintenanceFails
<1>18. ASSUME NEW p \in Procs, NEW r \in Runs, StartDirect(p, r)
      PROVE  BudgetStep(s)
  <2>1. CASE s = r
    <3>1. Started(s)' = Started(s) \cup {p}
      BY <1>18, <2>1 DEF StartDirect
    <3>2. /\ attempts[s] = 0 /\ attempts'[s] = 1 /\ killed' = killed
          /\ status[s] = "absent"
      <4>1. status[s] = "absent" /\ killed' = killed
        BY <1>18, <2>1 DEF StartDirect
      <4>2. attempts[s] = 0
        BY <4>1
      <4>3. attempts'[s] = 1
        BY <1>18, <2>1 DEF StartDirect
      <4> QED BY <4>1, <4>2, <4>3
    <3>3. CountedStart(s)
      <4>1. attempts[s] <= MaxAttempts /\ attempts'[s] = attempts[s] + 1
        BY <3>2
      <4>2. killed'[s] = killed[s] /\ status[s] # "CANCELLED"
        BY <3>2
      <4> HIDE DEF Started
      <4> QED BY <3>1, <4>1, <4>2 DEF CountedStart
    <3> QED BY <3>2, <3>3
  <2>2. CASE s # r
    BY <1>18, <2>2 DEF StartDirect
  <2> QED BY <2>1, <2>2
<1>19. ASSUME NEW p \in Procs, NEW r \in Runs, StartExisting(p, r)
      PROVE  BudgetStep(s)
  BY <1>19 DEF StartExisting
<1>20. ASSUME NEW p \in Procs, NEW r \in Runs, Dequeue(p, r)
      PROVE  BudgetStep(s)
  BY <1>20 DEF Dequeue
<1>21. ASSUME NEW p \in Procs, NEW r \in Runs, Enter(p, r)
      PROVE  BudgetStep(s)
  <2>1. attempts'[s] >= attempts[s] /\ killed' = killed
    <3>1. Counted(attempts[r]) >= attempts[r]
      BY DEF Counted
    <3> QED BY <1>21, <3>1 DEF Enter
  <2>2. status[s] = "CANCELLED" => status'[s] = "CANCELLED"
    BY <1>21 DEF Enter
  <2>3. \A q \in Procs : q # p \/ s # r => at'[q][s] = at[q][s]
    BY <1>21 DEF Enter
  <2>4. CASE s # r
    BY <2>1, <2>2, <2>3, <2>4
  <2>5. CASE s = r /\ at'[p][r] = "idle"
    BY <2>1, <2>2, <2>3, <2>5
  <2>6. CASE s = r /\ at'[p][r] # "idle" /\ status[r] = "CANCELLED"
    <3>1. at'[p][r] = "entered" /\ at[p][r] = "taken"
      BY <1>21, <2>6 DEF Enter
    <3>2. Staged(s)' = Staged(s)
      BY <2>3, <2>6, <3>1
    <3> QED BY <2>1, <2>2, <2>6, <3>2 DEF CancelledStart
  <2>7. CASE s = r /\ at'[p][r] # "idle" /\ status[r] # "CANCELLED"
    <3>1. at'[p][r] = "entered" /\ ~OverBudget(r)
      BY <1>21, <2>7 DEF Enter
    <3>2. attempts[r] <= MaxAttempts /\ attempts'[r] = attempts[r] + 1
      BY <1>21, <3>1 DEF Enter, OverBudget, Counted, AttemptsCap
    <3>3. Started(s)' = Started(s) \cup {p}
      BY <2>3, <2>7, <3>1
    <3> QED BY <2>1, <2>7, <3>2, <3>3 DEF CountedStart
  <2> QED BY <2>4, <2>5, <2>6, <2>7
<1>22. ASSUME NEW p \in Procs, NEW r \in Runs, BeginExecution(p, r)
      PROVE  BudgetStep(s)
  BY <1>22 DEF BeginExecution
<1>23. ASSUME NEW p \in Procs, NEW r \in Runs, StageStart(p, r)
      PROVE  BudgetStep(s)
  BY <1>23 DEF StageStart
<1>24. ASSUME NEW p \in Procs, NEW r \in Runs, StageEnd(p, r)
      PROVE  BudgetStep(s)
  BY <1>24 DEF StageEnd
<1>25. ASSUME NEW p \in Procs, NEW r \in Runs, EndExecution(p, r)
      PROVE  BudgetStep(s)
  BY <1>25 DEF EndExecution, CloseRow
<1>26. ASSUME NEW p \in Procs, NEW r \in Runs, RecordOutcome(p, r)
      PROVE  BudgetStep(s)
  BY <1>26 DEF RecordOutcome
<1>27. ASSUME NEW p \in Procs, NEW r \in Runs, Interrupt(p, r)
      PROVE  BudgetStep(s)
  BY <1>27 DEF Interrupt, CloseRow
<1>28. ASSUME NEW i \in Ids, LeaseAges(i)
      PROVE  BudgetStep(s)
  BY <1>28 DEF LeaseAges
<1>29. ASSUME NEW r \in Runs, Enqueue(r)
      PROVE  BudgetStep(s)
  BY <1>29 DEF Enqueue
<1>30. ASSUME NEW r \in Runs, Cancel(r)
      PROVE  BudgetStep(s)
  BY <1>30 DEF Cancel
<1>31. ASSUME NEW r \in Runs, Resume(r)
      PROVE  BudgetStep(s)
  BY <1>31 DEF Resume
<1>32. CASE UNCHANGED vars
  BY <1>32 DEF vars
<1> QED
  BY <1>1, <1>2, <1>3, <1>4, <1>5, <1>6, <1>7, <1>8, <1>9, <1>10, <1>11,
     <1>12, <1>13, <1>14, <1>15, <1>16, <1>17, <1>18, <1>19, <1>20, <1>21,
     <1>22, <1>23, <1>24, <1>25, <1>26, <1>27, <1>28, <1>29, <1>30, <1>31,
     <1>32
     DEF Next, ProcStep, ExecutionStep

\* A run nobody has started stays untouched.
LEMMA AbsentPreserved ==
    ASSUME TypeOK, AbsentIsUntouched, [Next]_vars
    PROVE  AbsentIsUntouched'
<1> USE ConstantsAssumption DEF TypeOK, AbsentIsUntouched, Places, procVars,
        leaseVars, runVars, history
<1>1. ASSUME NEW p \in Procs, Claim(p)
      PROVE  AbsentIsUntouched'
  BY <1>1 DEF Claim
<1>2. ASSUME NEW p \in Procs, CloseOrphaned(p)
      PROVE  AbsentIsUntouched'
  BY <1>2 DEF CloseOrphaned
<1>3. ASSUME NEW p \in Procs, FirstBeatFails(p)
      PROVE  AbsentIsUntouched'
  BY <1>3 DEF FirstBeatFails
<1>4. ASSUME NEW p \in Procs, Launch(p)
      PROVE  AbsentIsUntouched'
  BY <1>4 DEF Launch
<1>5. ASSUME NEW p \in Procs, LaunchFails(p)
      PROVE  AbsentIsUntouched'
  BY <1>5 DEF LaunchFails
<1>6. ASSUME NEW p \in Procs, CloseBegins(p)
      PROVE  AbsentIsUntouched'
  BY <1>6 DEF CloseBegins
<1>7. ASSUME NEW p \in Procs, ShutdownReturns(p)
      PROVE  AbsentIsUntouched'
  BY <1>7 DEF ShutdownReturns
<1>8. ASSUME NEW p \in Procs, Tombstone(p)
      PROVE  AbsentIsUntouched'
  BY <1>8 DEF Tombstone
<1>9. ASSUME NEW p \in Procs, TombstoneFails(p)
      PROVE  AbsentIsUntouched'
  BY <1>9 DEF TombstoneFails
<1>10. ASSUME NEW p \in Procs, Exit(p)
      PROVE  AbsentIsUntouched'
  BY <1>10 DEF Exit, Ends
<1>11. ASSUME NEW p \in Procs, Crash(p)
      PROVE  AbsentIsUntouched'
  BY <1>11 DEF Crash, Ends
<1>12. ASSUME NEW p \in Procs, Beat(p)
      PROVE  AbsentIsUntouched'
  BY <1>12 DEF Beat
<1>13. ASSUME NEW p \in Procs, Takeover(p)
      PROVE  AbsentIsUntouched'
  BY <1>13 DEF Takeover, Adoptable
<1>14. ASSUME NEW p \in Procs, SweepSkips(p)
      PROVE  AbsentIsUntouched'
  BY <1>14 DEF SweepSkips
<1>15. ASSUME NEW p \in Procs, PruneRows(p)
      PROVE  AbsentIsUntouched'
  BY <1>15 DEF PruneRows
<1>16. ASSUME NEW p \in Procs, PruneLeases(p)
      PROVE  AbsentIsUntouched'
  BY <1>16 DEF PruneLeases, Prunable
<1>17. ASSUME NEW p \in Procs, MaintenanceFails(p)
      PROVE  AbsentIsUntouched'
  BY <1>17 DEF MaintenanceFails
<1>18. ASSUME NEW p \in Procs, NEW r \in Runs, StartDirect(p, r)
      PROVE  AbsentIsUntouched'
  BY <1>18 DEF StartDirect
<1>19. ASSUME NEW p \in Procs, NEW r \in Runs, StartExisting(p, r)
      PROVE  AbsentIsUntouched'
  BY <1>19 DEF StartExisting
<1>20. ASSUME NEW p \in Procs, NEW r \in Runs, Dequeue(p, r)
      PROVE  AbsentIsUntouched'
  BY <1>20 DEF Dequeue
<1>21. ASSUME NEW p \in Procs, NEW r \in Runs, Enter(p, r)
      PROVE  AbsentIsUntouched'
  BY <1>21 DEF Enter
<1>22. ASSUME NEW p \in Procs, NEW r \in Runs, BeginExecution(p, r)
      PROVE  AbsentIsUntouched'
  BY <1>22 DEF BeginExecution
<1>23. ASSUME NEW p \in Procs, NEW r \in Runs, StageStart(p, r)
      PROVE  AbsentIsUntouched'
  BY <1>23 DEF StageStart
<1>24. ASSUME NEW p \in Procs, NEW r \in Runs, StageEnd(p, r)
      PROVE  AbsentIsUntouched'
  BY <1>24 DEF StageEnd
<1>25. ASSUME NEW p \in Procs, NEW r \in Runs, EndExecution(p, r)
      PROVE  AbsentIsUntouched'
  BY <1>25 DEF EndExecution, CloseRow
<1>26. ASSUME NEW p \in Procs, NEW r \in Runs, RecordOutcome(p, r)
      PROVE  AbsentIsUntouched'
  BY <1>26 DEF RecordOutcome
<1>27. ASSUME NEW p \in Procs, NEW r \in Runs, Interrupt(p, r)
      PROVE  AbsentIsUntouched'
  BY <1>27 DEF Interrupt, CloseRow
<1>28. ASSUME NEW i \in Ids, LeaseAges(i)
      PROVE  AbsentIsUntouched'
  BY <1>28 DEF LeaseAges
<1>29. ASSUME NEW r \in Runs, Enqueue(r)
      PROVE  AbsentIsUntouched'
  BY <1>29 DEF Enqueue
<1>30. ASSUME NEW r \in Runs, Cancel(r)
      PROVE  AbsentIsUntouched'
  BY <1>30 DEF Cancel
<1>31. ASSUME NEW r \in Runs, Resume(r)
      PROVE  AbsentIsUntouched'
  BY <1>31 DEF Resume
<1>32. CASE UNCHANGED vars
  BY <1>32 DEF vars
<1> QED
  BY <1>1, <1>2, <1>3, <1>4, <1>5, <1>6, <1>7, <1>8, <1>9, <1>10, <1>11,
     <1>12, <1>13, <1>14, <1>15, <1>16, <1>17, <1>18, <1>19, <1>20, <1>21,
     <1>22, <1>23, <1>24, <1>25, <1>26, <1>27, <1>28, <1>29, <1>30, <1>31,
     <1>32
     DEF Next, ProcStep, ExecutionStep

\* An element more or less.
LEMMA OneMore ==
    ASSUME NEW S, IsFiniteSet(S), NEW x
    PROVE  Cardinality(S \cup {x}) <= Cardinality(S) + 1
<1>1. Cardinality(S) \in Nat
  BY FS_CardinalityType
<1>2. Cardinality(S \cup {x}) =
        IF x \in S THEN Cardinality(S) ELSE Cardinality(S) + 1
  BY FS_AddElement
<1> DEFINE c == Cardinality(S)
<1> HIDE DEF c
<1>3. c \in Nat /\ Cardinality(S \cup {x}) = IF x \in S THEN c ELSE c + 1
  BY <1>1, <1>2 DEF c
<1>4. Cardinality(S \cup {x}) <= c + 1
  BY <1>3
<1> QED BY <1>4 DEF c

\* The budget is kept.
LEMMA BudgetPreserved ==
    ASSUME IsFiniteSet(Procs), "resume" \notin Env, TypeOK, AbsentIsUntouched,
           Budgeted, [Next]_vars
    PROVE  Budgeted'
<1>1. ASSUME NEW s \in Runs
      PROVE  /\ status'[s] # "CANCELLED" =>
                  /\ killed'[s] + Cardinality(Started(s)') <= attempts'[s]
                  /\ killed'[s] + Cardinality(Started(s)') <= MaxAttempts + 1
             /\ killed'[s] + Cardinality(Staged(s)') <= MaxAttempts + 1
  <2> DEFINE n == Cardinality(Started(s))
             m == Cardinality(Staged(s))
             n2 == Cardinality(Started(s)')
             m2 == Cardinality(Staged(s)')
  <2>1. BudgetStep(s)
    BY StepBudget
  <2>2. /\ Staged(s) \subseteq Started(s) /\ Staged(s)' \subseteq Started(s)'
        /\ Started(s) \subseteq Procs /\ Started(s)' \subseteq Procs
    BY DEF Staged, Started
  <2>3. /\ IsFiniteSet(Started(s)) /\ IsFiniteSet(Started(s)')
        /\ IsFiniteSet(Staged(s)) /\ IsFiniteSet(Staged(s)')
    BY <2>2, FS_Subset
  <2>4. n \in Nat /\ m \in Nat /\ n2 \in Nat /\ m2 \in Nat
    BY <2>3, FS_CardinalityType
  <2>5. m <= n /\ m2 <= n2
    BY <2>2, <2>3, FS_Subset
  <2>6. /\ MaxAttempts \in Nat /\ killed[s] \in Nat /\ attempts[s] \in Nat
        /\ killed'[s] \in Nat /\ attempts'[s] \in Nat
    BY ConstantsAssumption, TypePreserved DEF TypeOK
  <2>7. /\ status[s] # "CANCELLED" =>
             killed[s] + n <= attempts[s] /\ killed[s] + n <= MaxAttempts + 1
        /\ killed[s] + m <= MaxAttempts + 1
    BY DEF Budgeted
  <2>8. status[s] = "CANCELLED" => status'[s] = "CANCELLED"
    BY <2>1 DEF BudgetStep
  <2>9. \/ /\ n2 <= n /\ (status[s] = "CANCELLED" => m2 <= m)
           /\ killed'[s] = killed[s] /\ attempts'[s] >= attempts[s]
        \/ /\ n2 <= n + 1 /\ killed'[s] = killed[s] /\ status[s] # "CANCELLED"
           /\ attempts[s] <= MaxAttempts /\ attempts'[s] = attempts[s] + 1
        \/ m2 = m /\ killed'[s] = killed[s] /\ status[s] = "CANCELLED"
        \/ /\ n2 = n - 1 /\ m2 = m - 1
           /\ killed'[s] = killed[s] + 1 /\ attempts'[s] = attempts[s]
    <3>1. CASE Quiet(s)
      <4>1. n2 <= n
        BY <2>3, <3>1, FS_Subset DEF Quiet
      <4>2. status[s] = "CANCELLED" => m2 <= m
        BY <2>3, <3>1, FS_Subset DEF Quiet
      <4> QED BY <3>1, <4>1, <4>2 DEF Quiet
    <3>2. CASE CountedStart(s)
      <4>1. PICK q \in Procs : Started(s)' = Started(s) \cup {q}
        BY <3>2 DEF CountedStart
      <4>2. n2 <= n + 1
        BY <2>3, <4>1, OneMore
      <4> QED BY <3>2, <4>2 DEF CountedStart
    <3>3. CASE CancelledStart(s)
      BY <3>3 DEF CancelledStart
    <3>4. CASE Death(s)
      <4>1. PICK q \in Staged(s) : /\ Started(s)' = Started(s) \ {q}
                                   /\ Staged(s)' = Staged(s) \ {q}
        BY <3>4 DEF Death
      <4>2. n2 = n - 1 /\ m2 = m - 1
        BY <2>2, <2>3, <4>1, FS_RemoveElement
      <4> QED BY <3>4, <4>2 DEF Death
    <3> QED BY <2>1, <3>1, <3>2, <3>3, <3>4 DEF BudgetStep
  <2> HIDE DEF n, m, n2, m2
  <2>10. /\ status'[s] # "CANCELLED" =>
              killed'[s] + n2 <= attempts'[s] /\ killed'[s] + n2 <= MaxAttempts + 1
         /\ killed'[s] + m2 <= MaxAttempts + 1
    BY <2>4, <2>5, <2>6, <2>7, <2>8, <2>9
  <2> QED BY <2>10 DEF n2, m2
<1> QED BY <1>1 DEF Budgeted, Started, Staged

\* Until somebody resumes it, a run that kills every process that executes it
\* ends at most MaxAttempts + 1 of them, in any environment: takeover and
\* recovery leave recovery_attempts alone (takeoverSQL).
THEOREM PoisonRunParked ==
    ASSUME IsFiniteSet(Procs), "resume" \notin Env
    PROVE  Spec => []PoisonRunIsParked
<1>1. Init => AbsentIsUntouched /\ Budgeted
  <2> SUFFICES ASSUME Init
               PROVE  AbsentIsUntouched /\ Budgeted
    OBVIOUS
  <2>1. \A r \in Runs : Started(r) = {} /\ Staged(r) = {}
    BY DEF Init, Started, Staged
  <2>2. \A r \in Runs : Cardinality(Started(r)) = 0 /\ Cardinality(Staged(r)) = 0
    BY <2>1, FS_EmptySet
  <2>3. \A r \in Runs : attempts[r] = 0 /\ killed[r] = 0
    BY DEF Init
  <2>4. Budgeted
    BY <2>2, <2>3, ConstantsAssumption DEF Budgeted
  <2> QED BY <2>4 DEF Init, AbsentIsUntouched
<1>2. TypeOK /\ AbsentIsUntouched /\ Budgeted /\ [Next]_vars
      => AbsentIsUntouched' /\ Budgeted'
  BY AbsentPreserved, BudgetPreserved
<1>3. TypeOK /\ Budgeted => PoisonRunIsParked
  <2> SUFFICES ASSUME TypeOK, Budgeted, NEW r \in Runs
               PROVE  killed[r] <= MaxAttempts + 1
    BY DEF PoisonRunIsParked
  <2>1. IsFiniteSet(Staged(r))
    BY FS_Subset DEF Staged
  <2>2. Cardinality(Staged(r)) \in Nat
    BY <2>1, FS_CardinalityType
  <2>3. killed[r] + Cardinality(Staged(r)) <= MaxAttempts + 1 /\ killed[r] \in Nat
    BY DEF Budgeted, TypeOK
  <2> QED BY <2>2, <2>3, ConstantsAssumption
<1> QED BY <1>1, <1>2, <1>3, TypeCorrect, PTL DEF Spec

-----------------------------------------------------------------------------
(* The runs that are held.                                                 *)

\* A run that is held is PENDING or was cancelled under its holder.
HeldIsOpen ==
    \A p \in Procs, r \in Runs : Holds(p, r) => status[r] \in {"PENDING", "CANCELLED"}

\* Nothing ends a run under its holder but a cancel.
LEMMA HeldPreserved ==
    ASSUME Env \cap Hazards = {}, IInv, HeldIsOpen, [Next]_vars
    PROVE  HeldIsOpen'
<1> USE ConstantsAssumption DEF IInv, TypeOK, HeldIsOpen, Holds,
        LeaseHeld, HoldersUp, HolderOwns, OneHolder, Beating, Places, Hazards,
        procVars, leaseVars, runVars, history
<1>1. ASSUME NEW p \in Procs, Claim(p)
      PROVE  HeldIsOpen'
  BY <1>1 DEF Claim
<1>2. ASSUME NEW p \in Procs, CloseOrphaned(p)
      PROVE  HeldIsOpen'
  BY <1>2 DEF CloseOrphaned
<1>3. ASSUME NEW p \in Procs, FirstBeatFails(p)
      PROVE  HeldIsOpen'
  BY <1>3 DEF FirstBeatFails
<1>4. ASSUME NEW p \in Procs, Launch(p)
      PROVE  HeldIsOpen'
  <2> SUFFICES ASSUME NEW q \in Procs, NEW s \in Runs, at'[q][s] # "idle"
               PROVE  status'[s] \in {"PENDING", "CANCELLED"}
    OBVIOUS
  <2>1. phase[p] = "ready"
    BY <1>4 DEF Launch
  <2>2. \A u \in Runs : at[p][u] = "idle"
    BY <2>1
  <2>3. CASE q = p
    BY <1>4, <2>3 DEF Launch
  <2>4. CASE q # p
    <3>1. at[q][s] # "idle" /\ status[s] \in {"PENDING", "CANCELLED"}
      BY <1>4, <2>4 DEF Launch
    <3>2. phase[q] \in {"up", "draining"}
      BY <3>1
    <3>3. ExecutorID[q] # ExecutorID[p]
      BY <2>1, <2>4, <3>2 DEF LiveDistinct, Alive
    <3>4. CASE status[s] = "PENDING"
      <4>1. owner[s] = ExecutorID[q]
        BY <3>1, <3>4
      <4> QED BY <1>4, <3>1, <3>3, <4>1 DEF Launch
    <3>5. CASE status[s] = "CANCELLED"
      BY <1>4, <3>5 DEF Launch
    <3> QED BY <3>1, <3>4, <3>5
  <2> QED BY <2>3, <2>4
<1>5. ASSUME NEW p \in Procs, LaunchFails(p)
      PROVE  HeldIsOpen'
  BY <1>5 DEF LaunchFails
<1>6. ASSUME NEW p \in Procs, CloseBegins(p)
      PROVE  HeldIsOpen'
  BY <1>6 DEF CloseBegins
<1>7. ASSUME NEW p \in Procs, ShutdownReturns(p)
      PROVE  HeldIsOpen'
  BY <1>7 DEF ShutdownReturns
<1>8. ASSUME NEW p \in Procs, Tombstone(p)
      PROVE  HeldIsOpen'
  BY <1>8 DEF Tombstone
<1>9. ASSUME NEW p \in Procs, TombstoneFails(p)
      PROVE  HeldIsOpen'
  BY <1>9 DEF TombstoneFails
<1>10. ASSUME NEW p \in Procs, Exit(p)
      PROVE  HeldIsOpen'
  BY <1>10 DEF Exit, Ends
<1>11. ASSUME NEW p \in Procs, Crash(p)
      PROVE  HeldIsOpen'
  BY <1>11 DEF Crash, Ends
<1>12. ASSUME NEW p \in Procs, Beat(p)
      PROVE  HeldIsOpen'
  BY <1>12 DEF Beat
<1>13. ASSUME NEW p \in Procs, Takeover(p)
      PROVE  HeldIsOpen'
  <2> SUFFICES ASSUME NEW q \in Procs, NEW s \in Runs, at'[q][s] # "idle"
               PROVE  status'[s] \in {"PENDING", "CANCELLED"}
    OBVIOUS
  <2>1. at[q][s] # "idle" /\ status[s] \in {"PENDING", "CANCELLED"}
    BY <1>13 DEF Takeover
  <2>2. status[s] = "PENDING" => ~Adoptable(s)
    <3> SUFFICES ASSUME status[s] = "PENDING"
                 PROVE  ~Adoptable(s)
      OBVIOUS
    <3>1. owner[s] = ExecutorID[q] /\ age[ExecutorID[q]] = "fresh"
      BY <2>1
    <3> QED BY <3>1 DEF Adoptable, LeaseDead
  <2>3. ~Adoptable(s)
    BY <2>1, <2>2 DEF Adoptable
  <2> QED BY <1>13, <2>1, <2>3 DEF Takeover
<1>14. ASSUME NEW p \in Procs, SweepSkips(p)
      PROVE  HeldIsOpen'
  BY <1>14 DEF SweepSkips
<1>15. ASSUME NEW p \in Procs, PruneRows(p)
      PROVE  HeldIsOpen'
  BY <1>15 DEF PruneRows
<1>16. ASSUME NEW p \in Procs, PruneLeases(p)
      PROVE  HeldIsOpen'
  BY <1>16 DEF PruneLeases, Prunable
<1>17. ASSUME NEW p \in Procs, MaintenanceFails(p)
      PROVE  HeldIsOpen'
  BY <1>17 DEF MaintenanceFails
<1>18. ASSUME NEW p \in Procs, NEW r \in Runs, StartDirect(p, r)
      PROVE  HeldIsOpen'
  BY <1>18 DEF StartDirect
<1>19. ASSUME NEW p \in Procs, NEW r \in Runs, StartExisting(p, r)
      PROVE  HeldIsOpen'
  BY <1>19 DEF StartExisting
<1>20. ASSUME NEW p \in Procs, NEW r \in Runs, Dequeue(p, r)
      PROVE  HeldIsOpen'
  BY <1>20 DEF Dequeue
<1>21. ASSUME NEW p \in Procs, NEW r \in Runs, Enter(p, r)
      PROVE  HeldIsOpen'
  BY <1>21 DEF Enter
<1>22. ASSUME NEW p \in Procs, NEW r \in Runs, BeginExecution(p, r)
      PROVE  HeldIsOpen'
  BY <1>22 DEF BeginExecution
<1>23. ASSUME NEW p \in Procs, NEW r \in Runs, StageStart(p, r)
      PROVE  HeldIsOpen'
  BY <1>23 DEF StageStart
<1>24. ASSUME NEW p \in Procs, NEW r \in Runs, StageEnd(p, r)
      PROVE  HeldIsOpen'
  BY <1>24 DEF StageEnd
<1>25. ASSUME NEW p \in Procs, NEW r \in Runs, EndExecution(p, r)
      PROVE  HeldIsOpen'
  BY <1>25 DEF EndExecution, CloseRow
<1>26. ASSUME NEW p \in Procs, NEW r \in Runs, RecordOutcome(p, r)
      PROVE  HeldIsOpen'
  BY <1>26 DEF RecordOutcome
<1>27. ASSUME NEW p \in Procs, NEW r \in Runs, Interrupt(p, r)
      PROVE  HeldIsOpen'
  BY <1>27 DEF Interrupt, CloseRow
<1>28. ASSUME NEW i \in Ids, LeaseAges(i)
      PROVE  HeldIsOpen'
  BY <1>28 DEF LeaseAges
<1>29. ASSUME NEW r \in Runs, Enqueue(r)
      PROVE  HeldIsOpen'
  BY <1>29 DEF Enqueue
<1>30. ASSUME NEW r \in Runs, Cancel(r)
      PROVE  HeldIsOpen'
  BY <1>30 DEF Cancel
<1>31. ASSUME NEW r \in Runs, Resume(r)
      PROVE  HeldIsOpen'
  BY <1>31 DEF Resume
<1>32. CASE UNCHANGED vars
  BY <1>32 DEF vars
<1> QED
  BY <1>1, <1>2, <1>3, <1>4, <1>5, <1>6, <1>7, <1>8, <1>9, <1>10, <1>11,
     <1>12, <1>13, <1>14, <1>15, <1>16, <1>17, <1>18, <1>19, <1>20, <1>21,
     <1>22, <1>23, <1>24, <1>25, <1>26, <1>27, <1>28, <1>29, <1>30, <1>31,
     <1>32
     DEF Next, ProcStep, ExecutionStep
-----------------------------------------------------------------------------
(* The limit of a queue.                                                   *)

\* Crashes and closes, at any point, and none of the rest.
CalmEnv == Env \cap (Hazards \cup {"cancel", "resume"}) = {}

NoneCancelled == \A r \in Runs : status[r] # "CANCELLED"

\* A run that waits or executes is on its own queue, whoever re-enqueued it.
QueueKept ==
    \A r \in Runs :
        /\ status[r] = "absent" => queue[r] = NoQueue
        /\ status[r] \in {"ENQUEUED", "PENDING"} /\ HomeQueue[r] # NoQueue
             => queue[r] = HomeQueue[r]

\* What DBOS counts against the queue's concurrency.
PendingOn(q) == {s \in Runs : status[s] = "PENDING" /\ queue[s] = q}
WithinLimits == \A q \in Queues : Cardinality(PendingOn(q)) <= QueueLimit[q]

\* Every way back to a queue is the way to the run's own.
LEMMA QueuePreserved ==
    ASSUME CalmEnv, IInv, HeldIsOpen, NoneCancelled, QueueKept, [Next]_vars
    PROVE  NoneCancelled' /\ QueueKept'
<1> USE ConstantsAssumption DEF CalmEnv, IInv, TypeOK, HeldIsOpen, NoneCancelled,
        QueueKept, Holds, HolderOwns, Statuses, Places, Hazards, procVars,
        leaseVars, runVars, history
<1>1. ASSUME NEW p \in Procs, Claim(p)
      PROVE  NoneCancelled' /\ QueueKept'
  BY <1>1 DEF Claim
<1>2. ASSUME NEW p \in Procs, CloseOrphaned(p)
      PROVE  NoneCancelled' /\ QueueKept'
  BY <1>2 DEF CloseOrphaned
<1>3. ASSUME NEW p \in Procs, FirstBeatFails(p)
      PROVE  NoneCancelled' /\ QueueKept'
  BY <1>3 DEF FirstBeatFails
<1>4. ASSUME NEW p \in Procs, Launch(p)
      PROVE  NoneCancelled' /\ QueueKept'
  BY <1>4 DEF Launch
<1>5. ASSUME NEW p \in Procs, LaunchFails(p)
      PROVE  NoneCancelled' /\ QueueKept'
  BY <1>5 DEF LaunchFails
<1>6. ASSUME NEW p \in Procs, CloseBegins(p)
      PROVE  NoneCancelled' /\ QueueKept'
  BY <1>6 DEF CloseBegins
<1>7. ASSUME NEW p \in Procs, ShutdownReturns(p)
      PROVE  NoneCancelled' /\ QueueKept'
  BY <1>7 DEF ShutdownReturns
<1>8. ASSUME NEW p \in Procs, Tombstone(p)
      PROVE  NoneCancelled' /\ QueueKept'
  BY <1>8 DEF Tombstone
<1>9. ASSUME NEW p \in Procs, TombstoneFails(p)
      PROVE  NoneCancelled' /\ QueueKept'
  BY <1>9 DEF TombstoneFails
<1>10. ASSUME NEW p \in Procs, Exit(p)
      PROVE  NoneCancelled' /\ QueueKept'
  BY <1>10 DEF Exit, Ends
<1>11. ASSUME NEW p \in Procs, Crash(p)
      PROVE  NoneCancelled' /\ QueueKept'
  BY <1>11 DEF Crash, Ends
<1>12. ASSUME NEW p \in Procs, Beat(p)
      PROVE  NoneCancelled' /\ QueueKept'
  BY <1>12 DEF Beat
<1>13. ASSUME NEW p \in Procs, Takeover(p)
      PROVE  NoneCancelled' /\ QueueKept'
  BY <1>13 DEF Takeover, Adoptable, ReturnQueue
<1>14. ASSUME NEW p \in Procs, SweepSkips(p)
      PROVE  NoneCancelled' /\ QueueKept'
  BY <1>14 DEF SweepSkips
<1>15. ASSUME NEW p \in Procs, PruneRows(p)
      PROVE  NoneCancelled' /\ QueueKept'
  BY <1>15 DEF PruneRows
<1>16. ASSUME NEW p \in Procs, PruneLeases(p)
      PROVE  NoneCancelled' /\ QueueKept'
  BY <1>16 DEF PruneLeases, Prunable
<1>17. ASSUME NEW p \in Procs, MaintenanceFails(p)
      PROVE  NoneCancelled' /\ QueueKept'
  BY <1>17 DEF MaintenanceFails
<1>18. ASSUME NEW p \in Procs, NEW r \in Runs, StartDirect(p, r)
      PROVE  NoneCancelled' /\ QueueKept'
  BY <1>18 DEF StartDirect
<1>19. ASSUME NEW p \in Procs, NEW r \in Runs, StartExisting(p, r)
      PROVE  NoneCancelled' /\ QueueKept'
  BY <1>19 DEF StartExisting
<1>20. ASSUME NEW p \in Procs, NEW r \in Runs, Dequeue(p, r)
      PROVE  NoneCancelled' /\ QueueKept'
  BY <1>20 DEF Dequeue
<1>21. ASSUME NEW p \in Procs, NEW r \in Runs, Enter(p, r)
      PROVE  NoneCancelled' /\ QueueKept'
  <2>1. \A s \in Runs : \/ status'[s] = status[s] /\ queue'[s] = queue[s]
                        \/ status'[s] = "DEAD"
    BY <1>21 DEF Enter
  <2> QED BY <2>1
<1>22. ASSUME NEW p \in Procs, NEW r \in Runs, BeginExecution(p, r)
      PROVE  NoneCancelled' /\ QueueKept'
  BY <1>22 DEF BeginExecution
<1>23. ASSUME NEW p \in Procs, NEW r \in Runs, StageStart(p, r)
      PROVE  NoneCancelled' /\ QueueKept'
  BY <1>23 DEF StageStart
<1>24. ASSUME NEW p \in Procs, NEW r \in Runs, StageEnd(p, r)
      PROVE  NoneCancelled' /\ QueueKept'
  BY <1>24 DEF StageEnd
<1>25. ASSUME NEW p \in Procs, NEW r \in Runs, EndExecution(p, r)
      PROVE  NoneCancelled' /\ QueueKept'
  BY <1>25 DEF EndExecution, CloseRow
<1>26. ASSUME NEW p \in Procs, NEW r \in Runs, RecordOutcome(p, r)
      PROVE  NoneCancelled' /\ QueueKept'
  BY <1>26 DEF RecordOutcome
<1>27. ASSUME NEW p \in Procs, NEW r \in Runs, Interrupt(p, r)
      PROVE  NoneCancelled' /\ QueueKept'
  BY <1>27 DEF Interrupt, CloseRow
<1>28. ASSUME NEW i \in Ids, LeaseAges(i)
      PROVE  NoneCancelled' /\ QueueKept'
  BY <1>28 DEF LeaseAges
<1>29. ASSUME NEW r \in Runs, Enqueue(r)
      PROVE  NoneCancelled' /\ QueueKept'
  BY <1>29 DEF Enqueue
<1>30. ASSUME NEW r \in Runs, Cancel(r)
      PROVE  NoneCancelled' /\ QueueKept'
  BY <1>30 DEF Cancel
<1>31. ASSUME NEW r \in Runs, Resume(r)
      PROVE  NoneCancelled' /\ QueueKept'
  BY <1>31 DEF Resume
<1>32. CASE UNCHANGED vars
  BY <1>32 DEF vars
<1> QED
  BY <1>1, <1>2, <1>3, <1>4, <1>5, <1>6, <1>7, <1>8, <1>9, <1>10, <1>11,
     <1>12, <1>13, <1>14, <1>15, <1>16, <1>17, <1>18, <1>19, <1>20, <1>21,
     <1>22, <1>23, <1>24, <1>25, <1>26, <1>27, <1>28, <1>29, <1>30, <1>31,
     <1>32
     DEF Next, ProcStep, ExecutionStep

\* What one step adds to the runs that are PENDING on a queue: one at most, and
\* that by a dequeue that counted them.
LEMMA StepPending ==
    ASSUME CalmEnv, IInv, HeldIsOpen, NoneCancelled, QueueKept, [Next]_vars,
           NEW k \in Queues
    PROVE  \/ PendingOn(k)' \subseteq PendingOn(k)
           \/ /\ Cardinality(PendingOn(k)) < QueueLimit[k]
              /\ \E s \in Runs : PendingOn(k)' = PendingOn(k) \cup {s}
<1> DEFINE Goal == \/ PendingOn(k)' \subseteq PendingOn(k)
                   \/ /\ Cardinality(PendingOn(k)) < QueueLimit[k]
                      /\ \E s \in Runs : PendingOn(k)' = PendingOn(k) \cup {s}
<1> USE ConstantsAssumption DEF CalmEnv, IInv, TypeOK, HeldIsOpen, NoneCancelled,
        QueueKept, Holds, Hazards, PendingOn, Places, procVars, leaseVars, runVars, history
<1>1. ASSUME NEW p \in Procs, Claim(p)
      PROVE  Goal
  BY <1>1 DEF Claim
<1>2. ASSUME NEW p \in Procs, CloseOrphaned(p)
      PROVE  Goal
  BY <1>2 DEF CloseOrphaned
<1>3. ASSUME NEW p \in Procs, FirstBeatFails(p)
      PROVE  Goal
  BY <1>3 DEF FirstBeatFails
<1>4. ASSUME NEW p \in Procs, Launch(p)
      PROVE  Goal
  BY <1>4 DEF Launch
<1>5. ASSUME NEW p \in Procs, LaunchFails(p)
      PROVE  Goal
  BY <1>5 DEF LaunchFails
<1>6. ASSUME NEW p \in Procs, CloseBegins(p)
      PROVE  Goal
  BY <1>6 DEF CloseBegins
<1>7. ASSUME NEW p \in Procs, ShutdownReturns(p)
      PROVE  Goal
  BY <1>7 DEF ShutdownReturns
<1>8. ASSUME NEW p \in Procs, Tombstone(p)
      PROVE  Goal
  BY <1>8 DEF Tombstone
<1>9. ASSUME NEW p \in Procs, TombstoneFails(p)
      PROVE  Goal
  BY <1>9 DEF TombstoneFails
<1>10. ASSUME NEW p \in Procs, Exit(p)
      PROVE  Goal
  BY <1>10 DEF Exit, Ends
<1>11. ASSUME NEW p \in Procs, Crash(p)
      PROVE  Goal
  BY <1>11 DEF Crash, Ends
<1>12. ASSUME NEW p \in Procs, Beat(p)
      PROVE  Goal
  BY <1>12 DEF Beat
<1>13. ASSUME NEW p \in Procs, Takeover(p)
      PROVE  Goal
  BY <1>13 DEF Takeover, Adoptable, ReturnQueue
<1>14. ASSUME NEW p \in Procs, SweepSkips(p)
      PROVE  Goal
  BY <1>14 DEF SweepSkips
<1>15. ASSUME NEW p \in Procs, PruneRows(p)
      PROVE  Goal
  BY <1>15 DEF PruneRows
<1>16. ASSUME NEW p \in Procs, PruneLeases(p)
      PROVE  Goal
  BY <1>16 DEF PruneLeases, Prunable
<1>17. ASSUME NEW p \in Procs, MaintenanceFails(p)
      PROVE  Goal
  BY <1>17 DEF MaintenanceFails
<1>18. ASSUME NEW p \in Procs, NEW r \in Runs, StartDirect(p, r)
      PROVE  Goal
  BY <1>18 DEF StartDirect
<1>19. ASSUME NEW p \in Procs, NEW r \in Runs, StartExisting(p, r)
      PROVE  Goal
  BY <1>19 DEF StartExisting
<1>20. ASSUME NEW p \in Procs, NEW r \in Runs, Dequeue(p, r)
      PROVE  Goal
  <2>1. CASE queue[r] = k
    <3>1. Cardinality(PendingOn(k)) < QueueLimit[k]
      BY <1>20, <2>1 DEF Dequeue
    <3>2. PendingOn(k)' = PendingOn(k) \cup {r}
      BY <1>20, <2>1 DEF Dequeue
    <3> QED BY <3>1, <3>2
  <2>2. CASE queue[r] # k
    BY <1>20, <2>2 DEF Dequeue
  <2> QED BY <2>1, <2>2
<1>21. ASSUME NEW p \in Procs, NEW r \in Runs, Enter(p, r)
      PROVE  Goal
  BY <1>21 DEF Enter
<1>22. ASSUME NEW p \in Procs, NEW r \in Runs, BeginExecution(p, r)
      PROVE  Goal
  BY <1>22 DEF BeginExecution
<1>23. ASSUME NEW p \in Procs, NEW r \in Runs, StageStart(p, r)
      PROVE  Goal
  BY <1>23 DEF StageStart
<1>24. ASSUME NEW p \in Procs, NEW r \in Runs, StageEnd(p, r)
      PROVE  Goal
  BY <1>24 DEF StageEnd
<1>25. ASSUME NEW p \in Procs, NEW r \in Runs, EndExecution(p, r)
      PROVE  Goal
  BY <1>25 DEF EndExecution, CloseRow
<1>26. ASSUME NEW p \in Procs, NEW r \in Runs, RecordOutcome(p, r)
      PROVE  Goal
  BY <1>26 DEF RecordOutcome
<1>27. ASSUME NEW p \in Procs, NEW r \in Runs, Interrupt(p, r)
      PROVE  Goal
  BY <1>27 DEF Interrupt, CloseRow
<1>28. ASSUME NEW i \in Ids, LeaseAges(i)
      PROVE  Goal
  BY <1>28 DEF LeaseAges
<1>29. ASSUME NEW r \in Runs, Enqueue(r)
      PROVE  Goal
  BY <1>29 DEF Enqueue
<1>30. ASSUME NEW r \in Runs, Cancel(r)
      PROVE  Goal
  BY <1>30 DEF Cancel
<1>31. ASSUME NEW r \in Runs, Resume(r)
      PROVE  Goal
  BY <1>31 DEF Resume
<1>32. CASE UNCHANGED vars
  BY <1>32 DEF vars
<1> QED
  BY <1>1, <1>2, <1>3, <1>4, <1>5, <1>6, <1>7, <1>8, <1>9, <1>10, <1>11,
     <1>12, <1>13, <1>14, <1>15, <1>16, <1>17, <1>18, <1>19, <1>20, <1>21,
     <1>22, <1>23, <1>24, <1>25, <1>26, <1>27, <1>28, <1>29, <1>30, <1>31,
     <1>32
     DEF Next, ProcStep, ExecutionStep

\* The limits are kept.
LEMMA LimitsPreserved ==
    ASSUME IsFiniteSet(Runs), CalmEnv, IInv, HeldIsOpen, NoneCancelled,
           QueueKept, WithinLimits, [Next]_vars
    PROVE  WithinLimits'
<1>1. ASSUME NEW k \in Queues
      PROVE  Cardinality(PendingOn(k)') <= QueueLimit[k]
  <2>1. /\ PendingOn(k) \subseteq Runs /\ PendingOn(k)' \subseteq Runs
        /\ IsFiniteSet(PendingOn(k)) /\ IsFiniteSet(PendingOn(k)')
    BY FS_Subset DEF PendingOn
  <2>2. /\ Cardinality(PendingOn(k)) \in Nat /\ Cardinality(PendingOn(k)') \in Nat
        /\ QueueLimit[k] \in Nat /\ Cardinality(PendingOn(k)) <= QueueLimit[k]
    BY <2>1, FS_CardinalityType, ConstantsAssumption DEF WithinLimits
  <2>3. CASE PendingOn(k)' \subseteq PendingOn(k)
    <3>1. Cardinality(PendingOn(k)') <= Cardinality(PendingOn(k))
      BY <2>1, <2>3, FS_Subset
    <3> QED BY <2>2, <3>1
  <2>4. CASE /\ Cardinality(PendingOn(k)) < QueueLimit[k]
             /\ \E s \in Runs : PendingOn(k)' = PendingOn(k) \cup {s}
    <3>1. Cardinality(PendingOn(k)') <= Cardinality(PendingOn(k)) + 1
      BY <2>1, <2>4, OneMore
    <3> QED BY <2>2, <2>4, <3>1
  <2> QED BY <2>3, <2>4, StepPending
<1> QED BY <1>1 DEF WithinLimits, PendingOn

\* However runs are taken over and recovered, those of a queue that execute
\* stages never exceed its concurrency (takeoverSQL's queue_name), as long as
\* nobody cancels: a cancelled run leaves its queue with its stage still running.
THEOREM QueueLimits ==
    ASSUME IsFiniteSet(Runs), CalmEnv
    PROVE  Spec => []QueueLimitHolds
<1>1. Env \cap Hazards = {}
  BY DEF CalmEnv
<1>2. Init => HeldIsOpen /\ NoneCancelled /\ QueueKept /\ WithinLimits
  <2> SUFFICES ASSUME Init
               PROVE  HeldIsOpen /\ NoneCancelled /\ QueueKept /\ WithinLimits
    OBVIOUS
  <2>1. \A q \in Queues : PendingOn(q) = {}
    BY DEF Init, PendingOn
  <2>2. \A q \in Queues : Cardinality(PendingOn(q)) = 0 /\ QueueLimit[q] \in Nat
    BY <2>1, FS_EmptySet, ConstantsAssumption
  <2>3. WithinLimits
    BY <2>2 DEF WithinLimits
  <2> QED BY <2>3 DEF Init, HeldIsOpen, NoneCancelled, Holds, QueueKept
<1>3. IInv /\ HeldIsOpen /\ NoneCancelled /\ QueueKept /\ WithinLimits /\ [Next]_vars
      => HeldIsOpen' /\ NoneCancelled' /\ QueueKept' /\ WithinLimits'
  BY <1>1, HeldPreserved, QueuePreserved, LimitsPreserved
<1>4. HeldIsOpen /\ NoneCancelled /\ QueueKept /\ WithinLimits => QueueLimitHolds
  <2> SUFFICES ASSUME HeldIsOpen, NoneCancelled, QueueKept, WithinLimits, NEW q \in Queues
               PROVE  Cardinality({r \in Runs : HomeQueue[r] = q
                                     /\ \E p \in Procs : Running(p, r)}) <= QueueLimit[q]
    BY DEF QueueLimitHolds
  <2> DEFINE active == {r \in Runs : HomeQueue[r] = q /\ \E p \in Procs : Running(p, r)}
  <2>1. active \subseteq PendingOn(q) /\ PendingOn(q) \subseteq Runs
    BY ConstantsAssumption DEF PendingOn, HeldIsOpen, NoneCancelled, QueueKept, Holds, Running
  <2>2. IsFiniteSet(PendingOn(q)) /\ IsFiniteSet(active)
    BY <2>1, FS_Subset
  <2>3. Cardinality(active) <= Cardinality(PendingOn(q))
    BY <2>1, <2>2, FS_Subset
  <2>4. /\ Cardinality(active) \in Nat /\ Cardinality(PendingOn(q)) \in Nat
        /\ QueueLimit[q] \in Nat
    BY <2>2, FS_CardinalityType, ConstantsAssumption
  <2> HIDE DEF active
  <2>5. Cardinality(active) <= QueueLimit[q]
    BY <2>3, <2>4 DEF WithinLimits
  <2> QED BY <2>5 DEF active
<1>5. Spec => []IInv
  BY <1>1, InductiveInvariant
<1> QED BY <1>2, <1>3, <1>4, <1>5, PTL DEF Spec

-----------------------------------------------------------------------------
(* The refinement of RunLifecycle.                                         *)

\* A run's holder is its one process, or nobody.
LEMMA HolderIs ==
    ASSUME OneHolder, OneHolder', NEW r \in Runs
    PROVE  /\ \A p \in Procs : at[p][r] # "idle" => HolderOf(r) = p
           /\ (\A p \in Procs : at[p][r] = "idle") => HolderOf(r) = NoProc
           /\ \A p \in Procs : at'[p][r] # "idle" => HolderOf(r)' = p
           /\ (\A p \in Procs : at'[p][r] = "idle") => HolderOf(r)' = NoProc
           /\ HolderOf(r) \in Procs \cup {NoProc}
  BY DEF OneHolder, HolderOf, Holds

\* A step that leaves the goroutines of a run where they were keeps its holder.
LEMMA SameHolder ==
    ASSUME OneHolder, OneHolder', NEW r \in Runs,
           \A p \in Procs : at'[p][r] # "idle" <=> at[p][r] # "idle"
    PROVE  HolderOf(r)' = HolderOf(r)
<1>1. CASE \E p \in Procs : at[p][r] # "idle"
  BY <1>1, HolderIs
<1>2. CASE \A p \in Procs : at[p][r] = "idle"
  BY <1>2, HolderIs
<1> QED BY <1>1, <1>2

\* A step that does not touch a run is a stutter of its life.
LEMMA Untouched ==
    ASSUME OneHolder, OneHolder', NEW r \in Runs,
           status'[r] = status[r], attempts'[r] = attempts[r],
           \A p \in Procs : at'[p][r] # "idle" <=> at[p][r] # "idle"
    PROVE  [Lifecycle(r)!Next]_(Lifecycle(r)!vars)
<1>1. HolderOf(r)' = HolderOf(r)
  BY SameHolder
<1> QED BY <1>1 DEF Lifecycle!vars

\* A process that lets go of a run leaves it as it was.
LEMMA Released ==
    ASSUME OneHolder, OneHolder', NEW r \in Runs, NEW p \in Procs,
           at[p][r] # "idle", status'[r] = status[r], attempts'[r] = attempts[r],
           \A q \in Procs : at'[q][r] = IF q = p THEN "idle" ELSE at[q][r]
    PROVE  [Lifecycle(r)!Next]_(Lifecycle(r)!vars)
<1>1. HolderOf(r) = p /\ p # NoProc
  BY HolderIs, ConstantsAssumption
<1>2. \A q \in Procs : at'[q][r] = "idle"
  BY DEF OneHolder, Holds
<1>3. HolderOf(r)' = NoProc
  BY <1>2, HolderIs
<1> QED BY <1>1, <1>3 DEF Lifecycle!Next, Lifecycle!LetGo

\* The same when the process may not hold the run at all.
LEMMA MayRelease ==
    ASSUME OneHolder, OneHolder', NEW r \in Runs, NEW p \in Procs,
           status'[r] = status[r], attempts'[r] = attempts[r],
           \A q \in Procs : at'[q][r] = IF q = p THEN "idle" ELSE at[q][r]
    PROVE  [Lifecycle(r)!Next]_(Lifecycle(r)!vars)
<1>1. CASE at[p][r] # "idle"
  BY <1>1, Released
<1>2. CASE at[p][r] = "idle"
  <2>1. \A q \in Procs : at'[q][r] # "idle" <=> at[q][r] # "idle"
    BY <1>2
  <2> QED BY <2>1, Untouched
<1> QED BY <1>1, <1>2

\* A process that recovers its own ID's runs is the only live one on it.
LEMMA OneLive ==
    ASSUME LiveDistinct, NEW p \in Procs, NEW q \in Procs, phase[p] = "ready",
           phase[q] \in {"up", "draining"}, ExecutorID[q] = ExecutorID[p]
    PROVE  q = p
  BY DEF LiveDistinct, Alive

\* Every step of the fleet is a step of the run's life, or leaves it alone.
LEMMA StepLifecycle ==
    ASSUME Env \cap Hazards = {}, IInv, IInv', HeldIsOpen, [Next]_vars, NEW s \in Runs
    PROVE  [Lifecycle(s)!Next]_(Lifecycle(s)!vars)
<1> USE ConstantsAssumption DEF IInv, TypeOK, HoldersUp, HolderOwns, Holds,
        Hazards, Places, procVars, leaseVars, runVars, history
<1>1. ASSUME NEW p \in Procs, Claim(p)
      PROVE  [Lifecycle(s)!Next]_(Lifecycle(s)!vars)
  BY <1>1, Untouched DEF Claim
<1>2. ASSUME NEW p \in Procs, CloseOrphaned(p)
      PROVE  [Lifecycle(s)!Next]_(Lifecycle(s)!vars)
  BY <1>2, Untouched DEF CloseOrphaned
<1>3. ASSUME NEW p \in Procs, FirstBeatFails(p)
      PROVE  [Lifecycle(s)!Next]_(Lifecycle(s)!vars)
  BY <1>3, Untouched DEF FirstBeatFails
<1>4. ASSUME NEW p \in Procs, Launch(p)
      PROVE  [Lifecycle(s)!Next]_(Lifecycle(s)!vars)
  <2>1. /\ phase[p] = "ready" /\ attempts' = attempts
        /\ \A q \in Procs \ {p} : at'[q] = at[q]
    BY <1>4 DEF Launch
  <2>2. at[p][s] = "idle"
    BY <2>1
  <2>3. CASE status[s] = "PENDING" /\ owner[s] = ExecutorID[p]
    <3>1. \A q \in Procs : at[q][s] = "idle"
      <4> SUFFICES ASSUME NEW q \in Procs, at[q][s] # "idle"
                   PROVE  FALSE
        OBVIOUS
      <4>1. phase[q] \in {"up", "draining"} /\ ExecutorID[q] = ExecutorID[p]
        BY <2>3
      <4>2. q = p
        BY <2>1, <4>1, OneLive
      <4> QED BY <2>2, <4>2
    <3>2. HolderOf(s) = NoProc
      BY <3>1, HolderIs
    <3>3. CASE queue[s] # NoQueue
      <4>1. status'[s] = "ENQUEUED" /\ at'[p][s] = "idle"
        BY <1>4, <2>3, <3>3 DEF Launch
      <4>2. \A q \in Procs : at'[q][s] = "idle"
        BY <2>1, <3>1, <4>1
      <4>3. HolderOf(s)' = NoProc
        BY <4>2, HolderIs
      <4> QED BY <2>1, <2>3, <3>2, <4>1, <4>3 DEF Lifecycle!Next, Lifecycle!Readmit
    <3>4. CASE queue[s] = NoQueue
      <4>1. status'[s] = "PENDING" /\ at'[p][s] = "taken"
        BY <1>4, <2>3, <3>4 DEF Launch
      <4>2. HolderOf(s)' = p
        BY <4>1, HolderIs
      <4> QED BY <2>1, <2>3, <3>2, <4>1, <4>2 DEF Lifecycle!Next, Lifecycle!Take
    <3> QED BY <3>3, <3>4
  <2>4. CASE ~(status[s] = "PENDING" /\ owner[s] = ExecutorID[p])
    <3>1. status'[s] = status[s] /\ at'[p][s] = "idle"
      BY <1>4, <2>4 DEF Launch
    <3>2. \A q \in Procs : at'[q][s] # "idle" <=> at[q][s] # "idle"
      BY <2>1, <2>2, <3>1
    <3>3. status'[s] = status[s] /\ attempts'[s] = attempts[s]
      BY <2>1, <3>1
    <3> QED BY <3>2, <3>3, Untouched
  <2> QED BY <2>3, <2>4
<1>5. ASSUME NEW p \in Procs, LaunchFails(p)
      PROVE  [Lifecycle(s)!Next]_(Lifecycle(s)!vars)
  BY <1>5, Untouched DEF LaunchFails
<1>6. ASSUME NEW p \in Procs, CloseBegins(p)
      PROVE  [Lifecycle(s)!Next]_(Lifecycle(s)!vars)
  BY <1>6, Untouched DEF CloseBegins
<1>7. ASSUME NEW p \in Procs, ShutdownReturns(p)
      PROVE  [Lifecycle(s)!Next]_(Lifecycle(s)!vars)
  BY <1>7, Untouched DEF ShutdownReturns
<1>8. ASSUME NEW p \in Procs, Tombstone(p)
      PROVE  [Lifecycle(s)!Next]_(Lifecycle(s)!vars)
  BY <1>8, Untouched DEF Tombstone
<1>9. ASSUME NEW p \in Procs, TombstoneFails(p)
      PROVE  [Lifecycle(s)!Next]_(Lifecycle(s)!vars)
  BY <1>9, Untouched DEF TombstoneFails
<1>10. ASSUME NEW p \in Procs, Exit(p)
      PROVE  [Lifecycle(s)!Next]_(Lifecycle(s)!vars)
  <2>1. /\ UNCHANGED <<status, attempts>>
        /\ \A q \in Procs : at'[q][s] = IF q = p THEN "idle" ELSE at[q][s]
    BY <1>10 DEF Exit, Ends
  <2> QED BY <2>1, MayRelease
<1>11. ASSUME NEW p \in Procs, Crash(p)
      PROVE  [Lifecycle(s)!Next]_(Lifecycle(s)!vars)
  <2>1. /\ UNCHANGED <<status, attempts>>
        /\ \A q \in Procs : at'[q][s] = IF q = p THEN "idle" ELSE at[q][s]
    BY <1>11 DEF Crash, Ends
  <2> QED BY <2>1, MayRelease
<1>12. ASSUME NEW p \in Procs, Beat(p)
      PROVE  [Lifecycle(s)!Next]_(Lifecycle(s)!vars)
  BY <1>12, Untouched DEF Beat
<1>13. ASSUME NEW p \in Procs, Takeover(p)
      PROVE  [Lifecycle(s)!Next]_(Lifecycle(s)!vars)
  <2>1. UNCHANGED <<at, attempts>>
    BY <1>13 DEF Takeover
  <2>2. CASE Adoptable(s)
    <3>1. \A q \in Procs : at[q][s] = "idle"
      <4> SUFFICES ASSUME NEW q \in Procs, at[q][s] # "idle"
                   PROVE  FALSE
        OBVIOUS
      <4>1. phase[q] \in {"up", "draining"} /\ owner[s] = ExecutorID[q]
        BY <2>2 DEF Adoptable
      <4>2. age[ExecutorID[q]] = "fresh"
        BY <4>1 DEF LeaseHeld, Beating
      <4> QED BY <2>2, <4>1, <4>2 DEF Adoptable, LeaseDead
    <3>2. HolderOf(s) = NoProc /\ HolderOf(s)' = NoProc
      BY <2>1, <3>1, HolderIs
    <3>3. status[s] = "PENDING" /\ status'[s] = "ENQUEUED"
      BY <1>13, <2>2 DEF Takeover, Adoptable
    <3> QED BY <2>1, <3>2, <3>3 DEF Lifecycle!Next, Lifecycle!Readmit
  <2>3. CASE ~Adoptable(s)
    <3>1. status'[s] = status[s]
      BY <1>13, <2>3 DEF Takeover
    <3> QED BY <2>1, <3>1, Untouched
  <2> QED BY <2>2, <2>3
<1>14. ASSUME NEW p \in Procs, SweepSkips(p)
      PROVE  [Lifecycle(s)!Next]_(Lifecycle(s)!vars)
  BY <1>14, Untouched DEF SweepSkips
<1>15. ASSUME NEW p \in Procs, PruneRows(p)
      PROVE  [Lifecycle(s)!Next]_(Lifecycle(s)!vars)
  BY <1>15, Untouched DEF PruneRows
<1>16. ASSUME NEW p \in Procs, PruneLeases(p)
      PROVE  [Lifecycle(s)!Next]_(Lifecycle(s)!vars)
  BY <1>16, Untouched DEF PruneLeases, Prunable
<1>17. ASSUME NEW p \in Procs, MaintenanceFails(p)
      PROVE  [Lifecycle(s)!Next]_(Lifecycle(s)!vars)
  BY <1>17, Untouched DEF MaintenanceFails
<1>18. ASSUME NEW p \in Procs, NEW r \in Runs, StartDirect(p, r)
      PROVE  [Lifecycle(s)!Next]_(Lifecycle(s)!vars)
  <2>1. CASE s # r
    <3>1. /\ status'[s] = status[s] /\ attempts'[s] = attempts[s]
          /\ \A q \in Procs : at'[q][s] = at[q][s]
      BY <1>18, <2>1 DEF StartDirect
    <3> QED BY <3>1, Untouched
  <2>2. CASE s = r
    <3>1. status[s] = "absent" /\ status'[s] = "PENDING" /\ attempts'[s] = 1
      BY <1>18, <2>2 DEF StartDirect
    <3>2. at'[p][s] = "entered"
      BY <1>18, <2>2 DEF StartDirect
    <3>3. HolderOf(s)' = p
      BY <3>2, HolderIs
    <3>4. attempts'[s] > 0
      BY <3>1
    <3> QED BY <3>1, <3>3, <3>4 DEF Lifecycle!Next, Lifecycle!StartDirectly
  <2> QED BY <2>1, <2>2
<1>19. ASSUME NEW p \in Procs, NEW r \in Runs, StartExisting(p, r)
      PROVE  [Lifecycle(s)!Next]_(Lifecycle(s)!vars)
  BY <1>19 DEF StartExisting
<1>20. ASSUME NEW p \in Procs, NEW r \in Runs, Dequeue(p, r)
      PROVE  [Lifecycle(s)!Next]_(Lifecycle(s)!vars)
  <2>1. CASE s # r
    <3>1. /\ status'[s] = status[s] /\ attempts'[s] = attempts[s]
          /\ \A q \in Procs : at'[q][s] = at[q][s]
      BY <1>20, <2>1 DEF Dequeue
    <3> QED BY <3>1, Untouched
  <2>2. CASE s = r
    <3>1. status[s] = "ENQUEUED" /\ status'[s] = "PENDING" /\ attempts' = attempts
      BY <1>20, <2>2 DEF Dequeue
    <3>2. HolderOf(s) = NoProc
      BY <3>1, HolderIs
    <3>3. at'[p][s] = "taken"
      BY <1>20, <2>2 DEF Dequeue
    <3>4. HolderOf(s)' = p
      BY <3>3, HolderIs
    <3> QED BY <3>1, <3>2, <3>4 DEF Lifecycle!Next, Lifecycle!Take
  <2> QED BY <2>1, <2>2
<1>21. ASSUME NEW p \in Procs, NEW r \in Runs, Enter(p, r)
      PROVE  [Lifecycle(s)!Next]_(Lifecycle(s)!vars)
  <2>1. CASE s # r
    <3>1. /\ status'[s] = status[s] /\ attempts'[s] = attempts[s]
          /\ \A q \in Procs : at'[q][s] = at[q][s]
      BY <1>21, <2>1 DEF Enter
    <3> QED BY <3>1, Untouched
  <2>2. CASE s = r
    <3>1. at[p][s] = "taken" /\ attempts'[s] = Counted(attempts[s])
      BY <1>21, <2>2 DEF Enter
    <3>2. attempts'[s] > 0
      BY <3>1 DEF Counted, AttemptsCap
    <3>3. HolderOf(s) = p /\ p # NoProc
      BY <3>1, HolderIs
    <3>4. status[s] \in {"PENDING", "CANCELLED"}
      BY <3>1 DEF HeldIsOpen
    <3>5. CASE at'[p][s] # "idle"
      <4>1. status'[s] = status[s]
        BY <1>21, <2>2, <3>4, <3>5 DEF Enter
      <4>2. HolderOf(s)' = p
        BY <3>5, HolderIs
      <4> QED BY <3>2, <3>3, <4>1, <4>2 DEF Lifecycle!Next, Lifecycle!Start
    <3>6. CASE at'[p][s] = "idle"
      <4>1. status[s] = "PENDING" /\ status'[s] = "DEAD"
        BY <1>21, <2>2, <3>4, <3>6 DEF Enter
      <4>2. \A q \in Procs : at'[q][s] = IF q = p THEN "idle" ELSE at[q][s]
        BY <1>21, <2>2, <3>6 DEF Enter
      <4>3. HolderOf(s)' = NoProc
        BY <3>1, <4>2, HolderIs
      <4> QED BY <3>2, <3>3, <4>1, <4>3 DEF Lifecycle!Next, Lifecycle!Park
    <3> QED BY <3>5, <3>6
  <2> QED BY <2>1, <2>2
<1>22. ASSUME NEW p \in Procs, NEW r \in Runs, BeginExecution(p, r)
      PROVE  [Lifecycle(s)!Next]_(Lifecycle(s)!vars)
  <2>1. /\ UNCHANGED <<status, attempts>>
        /\ \A q \in Procs : at'[q][s] # "idle" <=> at[q][s] # "idle"
    BY <1>22 DEF BeginExecution
  <2> QED BY <2>1, Untouched
<1>23. ASSUME NEW p \in Procs, NEW r \in Runs, StageStart(p, r)
      PROVE  [Lifecycle(s)!Next]_(Lifecycle(s)!vars)
  <2>1. /\ UNCHANGED <<status, attempts>>
        /\ \A q \in Procs : at'[q][s] # "idle" <=> at[q][s] # "idle"
    BY <1>23 DEF StageStart
  <2> QED BY <2>1, Untouched
<1>24. ASSUME NEW p \in Procs, NEW r \in Runs, StageEnd(p, r)
      PROVE  [Lifecycle(s)!Next]_(Lifecycle(s)!vars)
  <2>1. /\ UNCHANGED <<status, attempts>>
        /\ \A q \in Procs : at'[q][s] # "idle" <=> at[q][s] # "idle"
    BY <1>24 DEF StageEnd
  <2> QED BY <2>1, Untouched
<1>25. ASSUME NEW p \in Procs, NEW r \in Runs, EndExecution(p, r)
      PROVE  [Lifecycle(s)!Next]_(Lifecycle(s)!vars)
  <2>1. /\ UNCHANGED <<status, attempts>>
        /\ \A q \in Procs : at'[q][s] # "idle" <=> at[q][s] # "idle"
    BY <1>25 DEF EndExecution
  <2> QED BY <2>1, Untouched
<1>26. ASSUME NEW p \in Procs, NEW r \in Runs, RecordOutcome(p, r)
      PROVE  [Lifecycle(s)!Next]_(Lifecycle(s)!vars)
  <2>1. CASE s # r
    <3>1. /\ status'[s] = status[s] /\ attempts'[s] = attempts[s]
          /\ \A q \in Procs : at'[q][s] = at[q][s]
      BY <1>26, <2>1 DEF RecordOutcome
    <3> QED BY <3>1, Untouched
  <2>2. CASE s = r
    <3>1. at[p][s] = "ended" /\ attempts' = attempts
      BY <1>26, <2>2 DEF RecordOutcome
    <3>2. \A q \in Procs : at'[q][s] = IF q = p THEN "idle" ELSE at[q][s]
      BY <1>26, <2>2 DEF RecordOutcome
    <3>3. status[s] \in {"PENDING", "CANCELLED"}
      BY <3>1 DEF HeldIsOpen
    <3>4. CASE status[s] = "CANCELLED"
      <4>1. status'[s] = status[s]
        BY <1>26, <2>2, <3>4 DEF RecordOutcome
      <4> QED BY <3>1, <3>2, <4>1, MayRelease
    <3>5. CASE status[s] = "PENDING"
      <4>1. status'[s] = "SUCCESS"
        BY <1>26, <2>2, <3>5 DEF RecordOutcome
      <4>2. HolderOf(s) = p /\ p # NoProc
        BY <3>1, HolderIs
      <4>3. HolderOf(s)' = NoProc
        BY <3>1, <3>2, HolderIs
      <4> QED BY <3>1, <3>5, <4>1, <4>2, <4>3 DEF Lifecycle!Next, Lifecycle!Finish
    <3> QED BY <3>3, <3>4, <3>5
  <2> QED BY <2>1, <2>2
<1>27. ASSUME NEW p \in Procs, NEW r \in Runs, Interrupt(p, r)
      PROVE  [Lifecycle(s)!Next]_(Lifecycle(s)!vars)
  <2>1. UNCHANGED <<status, attempts>>
    BY <1>27 DEF Interrupt
  <2>2. \A q \in Procs : at'[q][s] = IF q = p /\ s = r THEN "idle" ELSE at[q][s]
    BY <1>27 DEF Interrupt
  <2>3. CASE s = r
    <3>1. \A q \in Procs : at'[q][s] = IF q = p THEN "idle" ELSE at[q][s]
      BY <2>2, <2>3
    <3> QED BY <2>1, <3>1, MayRelease
  <2>4. CASE s # r
    BY <2>1, <2>2, <2>4, Untouched
  <2> QED BY <2>3, <2>4
<1>28. ASSUME NEW i \in Ids, LeaseAges(i)
      PROVE  [Lifecycle(s)!Next]_(Lifecycle(s)!vars)
  BY <1>28, Untouched DEF LeaseAges
<1>29. ASSUME NEW r \in Runs, Enqueue(r)
      PROVE  [Lifecycle(s)!Next]_(Lifecycle(s)!vars)
  <2>1. CASE s # r
    <3>1. /\ status'[s] = status[s] /\ attempts'[s] = attempts[s]
          /\ \A q \in Procs : at'[q][s] = at[q][s]
      BY <1>29, <2>1 DEF Enqueue
    <3> QED BY <3>1, Untouched
  <2>2. CASE s = r
    <3>1. status[s] = "absent" /\ status'[s] = "ENQUEUED" /\ UNCHANGED <<at, attempts>>
      BY <1>29, <2>2 DEF Enqueue
    <3>2. HolderOf(s)' = HolderOf(s)
      BY <3>1, SameHolder
    <3> QED BY <3>1, <3>2 DEF Lifecycle!Next, Lifecycle!Submit
  <2> QED BY <2>1, <2>2
<1>30. ASSUME NEW r \in Runs, Cancel(r)
      PROVE  [Lifecycle(s)!Next]_(Lifecycle(s)!vars)
  <2>1. CASE s # r
    <3>1. /\ status'[s] = status[s] /\ attempts'[s] = attempts[s]
          /\ \A q \in Procs : at'[q][s] = at[q][s]
      BY <1>30, <2>1 DEF Cancel
    <3> QED BY <3>1, Untouched
  <2>2. CASE s = r
    <3>1. /\ status[s] \in {"ENQUEUED", "PENDING"} /\ status'[s] = "CANCELLED"
          /\ UNCHANGED <<at, attempts>>
      BY <1>30, <2>2 DEF Cancel
    <3>2. HolderOf(s)' = HolderOf(s)
      BY <3>1, SameHolder
    <3> QED BY <3>1, <3>2 DEF Lifecycle!Next, Lifecycle!Cancel
  <2> QED BY <2>1, <2>2
<1>31. ASSUME NEW r \in Runs, Resume(r)
      PROVE  [Lifecycle(s)!Next]_(Lifecycle(s)!vars)
  <2>1. CASE s # r
    <3>1. /\ status'[s] = status[s] /\ attempts'[s] = attempts[s]
          /\ \A q \in Procs : at'[q][s] = at[q][s]
      BY <1>31, <2>1 DEF Resume
    <3> QED BY <3>1, Untouched
  <2>2. CASE s = r
    <3>1. /\ \A q \in Procs : at[q][s] = "idle"
          /\ at' = at /\ status'[s] = "ENQUEUED" /\ attempts'[s] = 0
      BY <1>31, <2>2 DEF Resume
    <3>2. HolderOf(s) = NoProc /\ HolderOf(s)' = NoProc
      BY <3>1, HolderIs
    <3>3. status[s] = "DEAD" \/ (status[s] = "CANCELLED" /\ ~(attempts[s] > 0))
      BY <1>31, <2>2 DEF Resume, Resumable
    <3>4. ~(attempts'[s] > 0)
      BY <3>1
    <3> QED BY <3>1, <3>2, <3>3, <3>4 DEF Lifecycle!Next, Lifecycle!Resume
  <2> QED BY <2>1, <2>2
<1>32. CASE UNCHANGED vars
  BY <1>32, Untouched DEF vars
<1> QED
  BY <1>1, <1>2, <1>3, <1>4, <1>5, <1>6, <1>7, <1>8, <1>9, <1>10, <1>11,
     <1>12, <1>13, <1>14, <1>15, <1>16, <1>17, <1>18, <1>19, <1>20, <1>21,
     <1>22, <1>23, <1>24, <1>25, <1>26, <1>27, <1>28, <1>29, <1>30, <1>31,
     <1>32
     DEF Next, ProcStep, ExecutionStep

\* A fleet starts with runs that nobody submitted or holds.
LEMMA InitLifecycle ==
    ASSUME Init, NEW r \in Runs
    PROVE  Lifecycle(r)!Init
<1>1. HolderOf(r) = NoProc
  BY DEF Init, HolderOf, Holds
<1>2. status[r] = "absent" /\ ~(attempts[r] > 0)
  BY DEF Init
<1> QED BY <1>1, <1>2 DEF Lifecycle!Init

\* The fleet implements, for every run, the life that RunLifecycle promises:
\* leases, dequeues, takeovers, recoveries, closes and crashes hand it from one
\* holder to another, never to two, and it leaves a final state only by Resume,
\* unheld (workerpool.go 25-27, control.go 68-80).
THEOREM FleetImplementsLifecycle ==
    ASSUME Env \cap Hazards = {}
    PROVE  Spec => ImplementsLifecycle
<1> DEFINE LInv == IInv /\ HeldIsOpen
           LStep == \A r \in Runs : [Lifecycle(r)!Next]_(Lifecycle(r)!vars)
           LInit == \A r \in Runs : Lifecycle(r)!Init
<1>1. Init => LInv /\ LInit
  BY InitEstablishes, InitLifecycle DEF Init, HeldIsOpen, Holds
<1>2. LInv /\ [Next]_vars => LInv'
  BY Inductive, HeldPreserved
<1>3. LInv /\ LInv' /\ [Next]_vars => LStep
  BY StepLifecycle
<1>4. LInit /\ [][LStep]_vars => ImplementsLifecycle
  BY DEF ImplementsLifecycle
<1> HIDE DEF LInv, LStep, LInit
<1> QED BY <1>1, <1>2, <1>3, <1>4, PTL DEF Spec

\* Takeover and recovery never yank a run from under a running stage
\* (workerpool.go 683-687).
THEOREM LiveRunsStay ==
    ASSUME Env \cap Hazards = {}
    PROVE  Spec => TakeoverSparesLive
<1> DEFINE LInv == IInv /\ HeldIsOpen
           Spares == \A r \in Runs : status[r] = "PENDING" /\ status'[r] = "ENQUEUED"
                         => \A p \in Procs : ~Running(p, r)
<1>1. Init => LInv
  BY InitEstablishes DEF Init, HeldIsOpen, Holds
<1>2. LInv /\ [Next]_vars => LInv'
  BY Inductive, HeldPreserved
<1>3. ASSUME LInv, LInv', [Next]_vars, NEW r \in Runs,
             status[r] = "PENDING", status'[r] = "ENQUEUED"
      PROVE  \A p \in Procs : ~Running(p, r)
  <2>1. [Lifecycle(r)!Next]_(Lifecycle(r)!vars)
    BY <1>3, StepLifecycle
  <2>2. HolderOf(r) = NoProc
    BY <1>3, <2>1 DEF Lifecycle!Next, Lifecycle!vars, Lifecycle!Submit,
       Lifecycle!Start, Lifecycle!Readmit, Lifecycle!LetGo, Lifecycle!Finish,
       Lifecycle!Park, Lifecycle!Cancel, Lifecycle!Resume,
       Lifecycle!StartDirectly, Lifecycle!Take
  <2>3. \A p \in Procs : at[p][r] = "idle"
    BY <1>3, <2>2, HolderIs, ConstantsAssumption DEF IInv
  <2> QED BY <2>3 DEF Running
<1>4. LInv /\ LInv' /\ [Next]_vars => Spares
  BY <1>3
<1>5. [][Spares]_vars => TakeoverSparesLive
  BY DEF TakeoverSparesLive
<1> HIDE DEF LInv, Spares
<1> QED BY <1>1, <1>2, <1>4, <1>5, PTL DEF Spec
-----------------------------------------------------------------------------
(* Untracked executions, in any environment.                               *)

\* A process that has not launched executes nothing.
LaunchIdle ==
    \A p \in Procs, r \in Runs :
        phase[p] \in {"new", "claimed", "ready"} => at[p][r] = "idle"
\* A start that was counted and may still count is between its count and its
\* row, or has a row somewhere, or is one that no row tells of any more.
Traced(r) ==
    attempts[r] > 0 /\ status[r] \in {"ENQUEUED", "PENDING", "CANCELLED"} =>
        (\E p \in Procs : at[p][r] = "entered") \/ Recorded(r) \/ r \in lost
StartsTraced == \A r \in Runs : Traced(r)

\* No step gives an execution to a process that has not launched.
LEMMA LaunchIdlePreserved ==
    ASSUME TypeOK, LaunchIdle, [Next]_vars
    PROVE  LaunchIdle'
<1> USE ConstantsAssumption DEF TypeOK, LaunchIdle, Phases, Places, procVars,
        leaseVars, runVars, history
<1>1. ASSUME NEW p \in Procs, Claim(p)
      PROVE  LaunchIdle'
  BY <1>1 DEF Claim
<1>2. ASSUME NEW p \in Procs, CloseOrphaned(p)
      PROVE  LaunchIdle'
  BY <1>2 DEF CloseOrphaned, Open
<1>3. ASSUME NEW p \in Procs, FirstBeatFails(p)
      PROVE  LaunchIdle'
  BY <1>3 DEF FirstBeatFails
<1>4. ASSUME NEW p \in Procs, Launch(p)
      PROVE  LaunchIdle'
  BY <1>4 DEF Launch
<1>5. ASSUME NEW p \in Procs, LaunchFails(p)
      PROVE  LaunchIdle'
  BY <1>5 DEF LaunchFails
<1>6. ASSUME NEW p \in Procs, CloseBegins(p)
      PROVE  LaunchIdle'
  BY <1>6 DEF CloseBegins
<1>7. ASSUME NEW p \in Procs, ShutdownReturns(p)
      PROVE  LaunchIdle'
  BY <1>7 DEF ShutdownReturns
<1>8. ASSUME NEW p \in Procs, Tombstone(p)
      PROVE  LaunchIdle'
  BY <1>8 DEF Tombstone
<1>9. ASSUME NEW p \in Procs, TombstoneFails(p)
      PROVE  LaunchIdle'
  BY <1>9 DEF TombstoneFails
<1>10. ASSUME NEW p \in Procs, Exit(p)
      PROVE  LaunchIdle'
  BY <1>10 DEF Exit, Ends
<1>11. ASSUME NEW p \in Procs, Crash(p)
      PROVE  LaunchIdle'
  BY <1>11 DEF Crash, Ends
<1>12. ASSUME NEW p \in Procs, Beat(p)
      PROVE  LaunchIdle'
  BY <1>12 DEF Beat
<1>13. ASSUME NEW p \in Procs, Takeover(p)
      PROVE  LaunchIdle'
  BY <1>13 DEF Takeover, Adoptable
<1>14. ASSUME NEW p \in Procs, SweepSkips(p)
      PROVE  LaunchIdle'
  BY <1>14 DEF SweepSkips
<1>15. ASSUME NEW p \in Procs, PruneRows(p)
      PROVE  LaunchIdle'
  BY <1>15 DEF PruneRows
<1>16. ASSUME NEW p \in Procs, PruneLeases(p)
      PROVE  LaunchIdle'
  BY <1>16 DEF PruneLeases
<1>17. ASSUME NEW p \in Procs, MaintenanceFails(p)
      PROVE  LaunchIdle'
  BY <1>17 DEF MaintenanceFails
<1>18. ASSUME NEW p \in Procs, NEW r \in Runs, StartDirect(p, r)
      PROVE  LaunchIdle'
  BY <1>18 DEF StartDirect
<1>19. ASSUME NEW p \in Procs, NEW r \in Runs, StartExisting(p, r)
      PROVE  LaunchIdle'
  BY <1>19 DEF StartExisting
<1>20. ASSUME NEW p \in Procs, NEW r \in Runs, Dequeue(p, r)
      PROVE  LaunchIdle'
  BY <1>20 DEF Dequeue
<1>21. ASSUME NEW p \in Procs, NEW r \in Runs, Enter(p, r)
      PROVE  LaunchIdle'
  BY <1>21 DEF Enter
<1>22. ASSUME NEW p \in Procs, NEW r \in Runs, BeginExecution(p, r)
      PROVE  LaunchIdle'
  BY <1>22 DEF BeginExecution
<1>23. ASSUME NEW p \in Procs, NEW r \in Runs, StageStart(p, r)
      PROVE  LaunchIdle'
  BY <1>23 DEF StageStart
<1>24. ASSUME NEW p \in Procs, NEW r \in Runs, StageEnd(p, r)
      PROVE  LaunchIdle'
  BY <1>24 DEF StageEnd
<1>25. ASSUME NEW p \in Procs, NEW r \in Runs, EndExecution(p, r)
      PROVE  LaunchIdle'
  BY <1>25 DEF EndExecution, CloseRow
<1>26. ASSUME NEW p \in Procs, NEW r \in Runs, RecordOutcome(p, r)
      PROVE  LaunchIdle'
  BY <1>26 DEF RecordOutcome
<1>27. ASSUME NEW p \in Procs, NEW r \in Runs, Interrupt(p, r)
      PROVE  LaunchIdle'
  BY <1>27 DEF Interrupt, CloseRow
<1>28. ASSUME NEW i \in Ids, LeaseAges(i)
      PROVE  LaunchIdle'
  BY <1>28 DEF LeaseAges
<1>29. ASSUME NEW r \in Runs, Enqueue(r)
      PROVE  LaunchIdle'
  BY <1>29 DEF Enqueue
<1>30. ASSUME NEW r \in Runs, Cancel(r)
      PROVE  LaunchIdle'
  BY <1>30 DEF Cancel
<1>31. ASSUME NEW r \in Runs, Resume(r)
      PROVE  LaunchIdle'
  BY <1>31 DEF Resume
<1>32. CASE UNCHANGED vars
  BY <1>32 DEF vars
<1> QED
  BY <1>1, <1>2, <1>3, <1>4, <1>5, <1>6, <1>7, <1>8, <1>9, <1>10,
     <1>11, <1>12, <1>13, <1>14, <1>15, <1>16, <1>17, <1>18, <1>19, <1>20,
     <1>21, <1>22, <1>23, <1>24, <1>25, <1>26, <1>27, <1>28, <1>29, <1>30,
     <1>31, <1>32
     DEF Next, ProcStep, ExecutionStep

\* Every step leaves the trace of a start, or moves the run to lost.
LEMMA TracePreserved ==
    ASSUME TypeOK, LaunchIdle, AbsentIsUntouched, [Next]_vars,
           NEW s \in Runs, Traced(s)
    PROVE  Traced(s)'
<1> USE ConstantsAssumption DEF TypeOK, LaunchIdle, AbsentIsUntouched, Traced,
        Recorded, RowStates, Statuses, Phases, Places, procVars, leaseVars, runVars, history
<1>1. ASSUME NEW p \in Procs, Claim(p)
      PROVE  Traced(s)'
  BY <1>1 DEF Claim
<1>2. ASSUME NEW p \in Procs, CloseOrphaned(p)
      PROVE  Traced(s)'
  BY <1>2 DEF CloseOrphaned, Open
<1>3. ASSUME NEW p \in Procs, FirstBeatFails(p)
      PROVE  Traced(s)'
  BY <1>3 DEF FirstBeatFails
<1>4. ASSUME NEW p \in Procs, Launch(p)
      PROVE  Traced(s)'
  BY <1>4 DEF Launch
<1>5. ASSUME NEW p \in Procs, LaunchFails(p)
      PROVE  Traced(s)'
  BY <1>5 DEF LaunchFails
<1>6. ASSUME NEW p \in Procs, CloseBegins(p)
      PROVE  Traced(s)'
  BY <1>6 DEF CloseBegins
<1>7. ASSUME NEW p \in Procs, ShutdownReturns(p)
      PROVE  Traced(s)'
  BY <1>7 DEF ShutdownReturns
<1>8. ASSUME NEW p \in Procs, Tombstone(p)
      PROVE  Traced(s)'
  BY <1>8 DEF Tombstone
<1>9. ASSUME NEW p \in Procs, TombstoneFails(p)
      PROVE  Traced(s)'
  BY <1>9 DEF TombstoneFails
<1>10. ASSUME NEW p \in Procs, Exit(p)
      PROVE  Traced(s)'
  BY <1>10 DEF Exit, Ends
<1>11. ASSUME NEW p \in Procs, Crash(p)
      PROVE  Traced(s)'
  BY <1>11 DEF Crash, Ends
<1>12. ASSUME NEW p \in Procs, Beat(p)
      PROVE  Traced(s)'
  BY <1>12 DEF Beat
<1>13. ASSUME NEW p \in Procs, Takeover(p)
      PROVE  Traced(s)'
  BY <1>13 DEF Takeover, Adoptable
<1>14. ASSUME NEW p \in Procs, SweepSkips(p)
      PROVE  Traced(s)'
  BY <1>14 DEF SweepSkips
<1>15. ASSUME NEW p \in Procs, PruneRows(p)
      PROVE  Traced(s)'
  BY <1>15 DEF PruneRows
<1>16. ASSUME NEW p \in Procs, PruneLeases(p)
      PROVE  Traced(s)'
  BY <1>16 DEF PruneLeases
<1>17. ASSUME NEW p \in Procs, MaintenanceFails(p)
      PROVE  Traced(s)'
  BY <1>17 DEF MaintenanceFails
<1>18. ASSUME NEW p \in Procs, NEW r \in Runs, StartDirect(p, r)
      PROVE  Traced(s)'
  BY <1>18 DEF StartDirect
<1>19. ASSUME NEW p \in Procs, NEW r \in Runs, StartExisting(p, r)
      PROVE  Traced(s)'
  BY <1>19 DEF StartExisting
<1>20. ASSUME NEW p \in Procs, NEW r \in Runs, Dequeue(p, r)
      PROVE  Traced(s)'
  BY <1>20 DEF Dequeue
<1>21. ASSUME NEW p \in Procs, NEW r \in Runs, Enter(p, r)
      PROVE  Traced(s)'
  <2>1. CASE s # r
    BY <1>21, <2>1 DEF Enter
  <2>2. CASE s = r /\ at'[p][r] = "entered"
    BY <2>2
  <2>3. CASE s = r /\ at'[p][r] # "entered"
    <3>1. \/ status'[r] \in {"SUCCESS", "DEAD"}
          \/ (status'[r] = status[r] /\ status[r] # "CANCELLED" /\ OverBudget(r))
      BY <1>21, <2>3 DEF Enter
    <3>2. OverBudget(r) => attempts[r] > 0
      BY DEF OverBudget
    <3>3. /\ rows' = rows /\ lost' = lost
          /\ \A q \in Procs : at[q][r] = "entered" => at'[q][r] = "entered"
      BY <1>21, <2>3 DEF Enter
    <3> QED BY <2>3, <3>1, <3>2, <3>3
  <2> QED BY <2>1, <2>2, <2>3
<1>22. ASSUME NEW p \in Procs, NEW r \in Runs, BeginExecution(p, r)
      PROVE  Traced(s)'
  BY <1>22 DEF BeginExecution
<1>23. ASSUME NEW p \in Procs, NEW r \in Runs, StageStart(p, r)
      PROVE  Traced(s)'
  BY <1>23 DEF StageStart
<1>24. ASSUME NEW p \in Procs, NEW r \in Runs, StageEnd(p, r)
      PROVE  Traced(s)'
  BY <1>24 DEF StageEnd
<1>25. ASSUME NEW p \in Procs, NEW r \in Runs, EndExecution(p, r)
      PROVE  Traced(s)'
  BY <1>25 DEF EndExecution, CloseRow
<1>26. ASSUME NEW p \in Procs, NEW r \in Runs, RecordOutcome(p, r)
      PROVE  Traced(s)'
  BY <1>26 DEF RecordOutcome
<1>27. ASSUME NEW p \in Procs, NEW r \in Runs, Interrupt(p, r)
      PROVE  Traced(s)'
  BY <1>27 DEF Interrupt, CloseRow
<1>28. ASSUME NEW i \in Ids, LeaseAges(i)
      PROVE  Traced(s)'
  BY <1>28 DEF LeaseAges
<1>29. ASSUME NEW r \in Runs, Enqueue(r)
      PROVE  Traced(s)'
  BY <1>29 DEF Enqueue
<1>30. ASSUME NEW r \in Runs, Cancel(r)
      PROVE  Traced(s)'
  BY <1>30 DEF Cancel
<1>31. ASSUME NEW r \in Runs, Resume(r)
      PROVE  Traced(s)'
  BY <1>31 DEF Resume
<1>32. CASE UNCHANGED vars
  BY <1>32 DEF vars
<1> QED
  BY <1>1, <1>2, <1>3, <1>4, <1>5, <1>6, <1>7, <1>8, <1>9, <1>10,
     <1>11, <1>12, <1>13, <1>14, <1>15, <1>16, <1>17, <1>18, <1>19, <1>20,
     <1>21, <1>22, <1>23, <1>24, <1>25, <1>26, <1>27, <1>28, <1>29, <1>30,
     <1>31, <1>32
     DEF Next, ProcStep, ExecutionStep

\* The disjunct of Unsettled for untracked executions reports a run only while
\* a start has been counted and its row is not written, or when no row tells of
\* its last start any more (executions.go 372-377): in every environment, the
\* callers that start an existing ID again included.
THEOREM TrackedSettles == Spec => []UntrackedMeansHeld
<1> DEFINE UInv == TypeOK /\ LaunchIdle /\ AbsentIsUntouched /\ StartsTraced
<1>1. Init => UInv
  <2> SUFFICES ASSUME Init PROVE UInv
    OBVIOUS
  <2>1. TypeOK
    BY InitEstablishes DEF IInv
  <2>2. LaunchIdle /\ AbsentIsUntouched /\ StartsTraced
    BY ConstantsAssumption DEF Init, LaunchIdle, AbsentIsUntouched, StartsTraced, Traced
  <2> QED BY <2>1, <2>2
<1>2. UInv /\ [Next]_vars => UInv'
  <2> SUFFICES ASSUME UInv, [Next]_vars PROVE UInv'
    OBVIOUS
  <2>1. TypeOK' /\ LaunchIdle' /\ AbsentIsUntouched'
    BY TypePreserved, LaunchIdlePreserved, AbsentPreserved
  <2>2. ASSUME NEW s \in Runs PROVE Traced(s)'
    <3>1. Traced(s)
      BY DEF StartsTraced
    <3> QED BY <3>1, TracePreserved
  <2>3. StartsTraced'
    BY <2>2 DEF StartsTraced
  <2> QED BY <2>1, <2>3
<1>3. UInv => UntrackedMeansHeld
  BY DEF UntrackedMeansHeld, UntrackedExecution, StartsTraced, Traced
<1> HIDE DEF UInv
<1> QED BY <1>1, <1>2, <1>3, PTL DEF Spec
=============================================================================
