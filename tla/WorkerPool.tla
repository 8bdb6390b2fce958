------------------------------ MODULE WorkerPool ------------------------------
(***************************************************************************)
(* Worker-pool mode of duro (workerpool.go, executions.go): a fleet of     *)
(* processes shares one Postgres.  Each process holds a lease on its       *)
(* executor ID, records every execution of a run it starts, takes over the *)
(* runs of executors whose lease went stale, prunes long-dead leases, and  *)
(* tombstones its own lease when it closes.                                *)
(*                                                                         *)
(* An action is one SQL statement (or one in-memory step) of one process.  *)
(* DBOS itself (dequeue, start, stage check, outcome) is external and      *)
(* modelled from how duro uses it and what duro's comments and tests say.  *)
(***************************************************************************)
EXTENDS Integers, FiniteSets

CONSTANTS
    Procs,          \* process incarnations; a process is its own lease nonce
    Ids,            \* executor IDs
    ExecutorID,     \* [Procs -> Ids]; two processes on one ID: a restart
    Runs,           \* workflow IDs
    Queues,         \* queue names, DBOS's internal queue among them
    Internal,       \* DBOS's internal queue
    NoQueue,        \* queue_name IS NULL
    NoId,           \* executor_id of a run no process has started
    NoProc,         \* nonce of a lease row that does not exist
    HomeQueue,      \* [Runs -> Queues \cup {NoQueue}]; NoQueue: run directly
    QueueLimit,     \* [Queues -> Nat], the queue's concurrency
    MaxAttempts,    \* DBOS's recovery-attempt limit
    Survivors,      \* processes that neither crash nor close
    Env             \* what the environment may do, see Environment

(* "crash", "close", "cancel" and "resume" are ordinary life.  The others  *)
(* are hazards of their own: a process whose beats do not land ("pause"), *)
(* a Close that times out with a stage still running ("slow_drain"), a    *)
(* caller that starts an existing workflow ID again ("restart"), a Resume *)
(* between a run's dequeue and its first start ("window"), and two live   *)
(* processes on one executor ID ("overlap").                               *)
Hazards == {"pause", "slow_drain", "restart", "window", "overlap"}
Environment == {"crash", "close", "cancel", "resume"} \cup Hazards

ASSUME ConstantsAssumption ==
    /\ ExecutorID \in [Procs -> Ids]
    /\ HomeQueue \in [Runs -> Queues \cup {NoQueue}]
    /\ QueueLimit \in [Queues -> Nat]
    /\ Internal \in Queues /\ NoQueue \notin Queues
    /\ NoProc \notin Procs /\ NoId \notin Ids
    /\ MaxAttempts \in Nat
    /\ Survivors \subseteq Procs
    /\ Env \subseteq Environment
    /\ Procs \cap {"none", "closed"} = {}

VARIABLES
    phase,      \* phase[p]: where p is between New and its exit
    maint,      \* maint[p]: the next statement of p's maintenance cycle
    age,        \* age[i]: how old the last heartbeat of i's lease row is
    nonce,      \* nonce[i]: the process the lease row of i names
    status,     \* workflow_status.status
    owner,      \* workflow_status.executor_id
    attempts,   \* workflow_status.recovery_attempts
    queue,      \* workflow_status.queue_name
    rows,       \* rows[i][r]: the execution row of run r on executor i
    at,         \* at[p][r]: where p's execution of r is
    killed,     \* history: how many processes died inside a stage of r
    lost        \* history: the runs whose last start no row tells of any more

procVars  == <<phase, maint>>
leaseVars == <<age, nonce>>
runVars   == <<status, owner, attempts, queue>>
vars == <<phase, maint, age, nonce, status, owner, attempts, queue, rows, at,
          killed, lost>>
history == <<killed, lost>>

Phases == {"new", "claimed", "ready", "up", "draining", "beatless", "closed",
           "gone"}
Duties == {"sweep", "rows", "leases"}
\* "stale" is past the stale threshold, "expired" past the prune age as well.
\* A tombstone stamps the epoch, so it is "expired" at once.
Ages == {"absent", "fresh", "stale", "expired"}
Statuses == {"absent", "ENQUEUED", "PENDING", "SUCCESS", "CANCELLED", "DEAD"}
\* A row's token is the process that opened it.
RowStates == {"none", "closed"} \cup Procs
\* taken: dequeued or recovered, not started.  entered: DBOS counted the
\* start, the row is not written.  between: row written, no stage running.
\* ended: the body returned and the row is closed, the outcome unwritten.
Places == {"idle", "taken", "entered", "between", "stage", "ended"}

\* The type invariant.
TypeOK ==
    /\ phase \in [Procs -> Phases]
    /\ maint \in [Procs -> Duties]
    /\ age \in [Ids -> Ages]
    /\ nonce \in [Ids -> Procs \cup {NoProc}]
    /\ status \in [Runs -> Statuses]
    /\ owner \in [Runs -> Ids \cup {NoId}]
    /\ attempts \in [Runs -> Nat]
    /\ queue \in [Runs -> Queues \cup {NoQueue}]
    /\ rows \in [Ids -> [Runs -> RowStates]]
    /\ at \in [Procs -> [Runs -> Places]]
    /\ killed \in [Runs -> Nat]
    /\ lost \subseteq Runs

Init ==
    /\ phase = [p \in Procs |-> "new"]
    /\ maint = [p \in Procs |-> "sweep"]
    /\ age = [i \in Ids |-> "absent"]
    /\ nonce = [i \in Ids |-> NoProc]
    /\ status = [r \in Runs |-> "absent"]
    /\ owner = [r \in Runs |-> NoId]
    /\ attempts = [r \in Runs |-> 0]
    /\ queue = [r \in Runs |-> NoQueue]
    /\ rows = [i \in Ids |-> [r \in Runs |-> "none"]]
    /\ at = [p \in Procs |-> [r \in Runs |-> "idle"]]
    /\ killed = [r \in Runs |-> 0]
    /\ lost = {}

-----------------------------------------------------------------------------
(* Reading the tables.                                                     *)

Alive(p) == phase[p] \notin {"new", "gone"}
\* The phases in which the heartbeat lands: the first beat is written before
\* DBOS launches and the ticker stops only after DBOS has shut down.
Beating(p) == phase[p] \in {"claimed", "ready", "up", "draining"}
\* Mutant: the staleness predicate is dropped.
LeaseKnown(i) == age[i] # "absent"
LeaseDead(i) == age[i] \in {"stale", "expired"}
Open(i, r) == rows[i][r] \notin {"none", "closed"}
Recorded(r) == \E i \in Ids : rows[i][r] # "none"
Terminal(r) == status[r] \in {"SUCCESS", "CANCELLED", "DEAD"}

\* The two disjuncts of unsettledSQL.
OpenExecution(r) == \E i \in Ids : Open(i, r) /\ age[i] = "fresh"
\* Mutant: no row on that executor, where the code asks for no row anywhere.
UntrackedThere(r) ==
    /\ status[r] = "CANCELLED"
    /\ attempts[r] > 0
    /\ owner[r] \in Ids /\ age[owner[r]] = "fresh"
    /\ rows[owner[r]][r] = "none"
UntrackedExecution(r) ==
    /\ status[r] = "CANCELLED"
    /\ attempts[r] > 0
    /\ owner[r] \in Ids /\ age[owner[r]] = "fresh"
    /\ ~Recorded(r)
Executing(r) == OpenExecution(r) \/ UntrackedExecution(r)
\* Unsettled does not return r.
Settled(r) == Terminal(r) /\ ~Executing(r)

-----------------------------------------------------------------------------
(* A process's life.                                                       *)

\* firstBeat, first half: the unconditional upsert of claimLease.
Claim(p) ==
    LET i == ExecutorID[p] IN
    /\ phase[p] = "new"
    /\ \/ "overlap" \in Env
       \/ \A q \in Procs \ {p} : ExecutorID[q] = i => ~Alive(q)
    /\ phase' = [phase EXCEPT ![p] = "claimed"]
    /\ age' = [age EXCEPT ![i] = "fresh"]
    /\ nonce' = [nonce EXCEPT ![i] = p]
    /\ UNCHANGED <<maint, runVars, rows, at, history>>

\* firstBeat, second half: closeOrphanedSQL, before DBOS launches.
CloseOrphaned(p) ==
    LET i == ExecutorID[p] IN
    /\ phase[p] = "claimed"
    /\ phase' = [phase EXCEPT ![p] = "ready"]
    /\ rows' = [rows EXCEPT ![i] =
           [r \in Runs |-> IF Open(i, r) THEN "closed" ELSE rows[i][r]]]
    /\ UNCHANGED <<maint, leaseVars, runVars, at, history>>

\* The statement failed: Launch returns the error and may be called again.
FirstBeatFails(p) ==
    /\ phase[p] = "claimed"
    /\ phase' = [phase EXCEPT ![p] = "new"]
    /\ UNCHANGED <<maint, leaseVars, runVars, rows, at, history>>

\* dbos.Launch, whose recovery restarts what this executor ID left PENDING
\* (a queued run goes back on its queue, a direct one starts here), then the
\* worker pool's own loops.
Launch(p) ==
    LET Left(r) == status[r] = "PENDING" /\ owner[r] = ExecutorID[p] IN
    /\ phase[p] = "ready"
    /\ phase' = [phase EXCEPT ![p] = "up"]
    /\ status' = [r \in Runs |->
           IF Left(r) /\ queue[r] # NoQueue THEN "ENQUEUED" ELSE status[r]]
    /\ at' = [at EXCEPT ![p] = [r \in Runs |->
           IF Left(r) /\ queue[r] = NoQueue THEN "taken" ELSE "idle"]]
    /\ UNCHANGED <<maint, leaseVars, owner, attempts, queue, rows, history>>

\* dbos.Launch failed and shut DBOS down: Launch closes the app, tombstone
\* included; the ticker never ran.  (Schedules that fail to apply close an app
\* that has launched: Launch, then CloseBegins.)
LaunchFails(p) ==
    /\ phase[p] = "ready" /\ p \notin Survivors
    /\ phase' = [phase EXCEPT ![p] = "beatless"]
    /\ UNCHANGED <<maint, leaseVars, runVars, rows, at, history>>

\* Close: stopMaintenance, then dbos.Shutdown stops the queue runners and
\* cancels the workflows' contexts.
CloseBegins(p) ==
    /\ "close" \in Env /\ p \notin Survivors
    /\ phase[p] = "up"
    /\ phase' = [phase EXCEPT ![p] = "draining"]
    /\ maint' = [maint EXCEPT ![p] = "sweep"]
    /\ UNCHANGED <<leaseVars, runVars, rows, at, history>>

\* dbos.Shutdown returned, in time or not, and stopBeat ran.
ShutdownReturns(p) ==
    /\ phase[p] = "draining"
    /\ "slow_drain" \in Env \/ \A r \in Runs : at[p][r] = "idle"
    /\ phase' = [phase EXCEPT ![p] = "beatless"]
    /\ UNCHANGED <<maint, leaseVars, runVars, rows, at, history>>

\* Mutant: the tombstone ignores the nonce.
TombstoneAnyway(p) ==
    LET i == ExecutorID[p] IN
    /\ phase[p] = "beatless"
    /\ phase' = [phase EXCEPT ![p] = "closed"]
    /\ age' = IF age[i] # "absent" THEN [age EXCEPT ![i] = "expired"] ELSE age
    /\ UNCHANGED <<maint, nonce, runVars, rows, at, history>>

\* The tombstone, conditional on the nonce, and the pools' close.
Tombstone(p) ==
    LET i == ExecutorID[p] IN
    /\ phase[p] = "beatless"
    /\ phase' = [phase EXCEPT ![p] = "closed"]
    /\ age' = IF age[i] # "absent" /\ nonce[i] = p
              THEN [age EXCEPT ![i] = "expired"] ELSE age
    /\ UNCHANGED <<maint, nonce, runVars, rows, at, history>>

\* The tombstone's statement failed: it is only logged.
TombstoneFails(p) ==
    /\ phase[p] = "beatless"
    /\ phase' = [phase EXCEPT ![p] = "closed"]
    /\ UNCHANGED <<maint, leaseVars, runVars, rows, at, history>>

\* A process ends: its goroutines are gone, its rows in the database stay.  A
\* start that was counted and has no row yet leaves none.
Ends(p) ==
    /\ phase' = [phase EXCEPT ![p] = "gone"]
    /\ maint' = [maint EXCEPT ![p] = "sweep"]
    /\ at' = [at EXCEPT ![p] = [r \in Runs |-> "idle"]]
    /\ lost' = lost \cup {r \in Runs : at[p][r] = "entered"}
    /\ UNCHANGED <<leaseVars, runVars, rows>>

Exit(p) == phase[p] = "closed" /\ Ends(p) /\ UNCHANGED killed

Crash(p) ==
    /\ "crash" \in Env /\ p \notin Survivors
    /\ Alive(p)
    /\ killed' = [r \in Runs |->
           IF at[p][r] = "stage" THEN killed[r] + 1 ELSE killed[r]]
    /\ Ends(p)

-----------------------------------------------------------------------------
(* Leases and maintenance.                                                 *)

\* The ticker's beat: refreshes or re-inserts the row while it is p's own.
Beat(p) ==
    LET i == ExecutorID[p] IN
    /\ phase[p] \in {"up", "draining"}
    /\ age[i] # "fresh"
    /\ age[i] = "absent" \/ nonce[i] = p
    /\ age' = [age EXCEPT ![i] = "fresh"]
    /\ nonce' = [nonce EXCEPT ![i] = p]
    /\ UNCHANGED <<procVars, runVars, rows, at, history>>

\* Time passes without a beat.
LeaseAges(i) ==
    /\ age[i] \in {"fresh", "stale"}
    /\ "pause" \in Env \/ nonce[i] = NoProc \/ ~Beating(nonce[i])
    /\ age' = [age EXCEPT ![i] = IF @ = "fresh" THEN "stale" ELSE "expired"]
    /\ UNCHANGED <<procVars, nonce, runVars, rows, at, history>>

Adoptable(r) ==
    status[r] = "PENDING" /\ owner[r] \in Ids /\ LeaseDead(owner[r])

\* Mutants: DBOS's resume moves every run to the internal queue; no fallback.
InternalAlways(r) == Internal
QueueAsIs(r) == queue[r]
\* A re-enqueued run returns to its queue, or to the internal one.
ReturnQueue(r) == IF queue[r] = NoQueue THEN Internal ELSE queue[r]

\* Mutant: takeover grants a fresh budget, as DBOS's resume does.
TakeoverResets(p) ==
    /\ phase[p] = "up" /\ maint[p] = "sweep"
    /\ maint' = [maint EXCEPT ![p] = "rows"]
    /\ status' = [r \in Runs |->
           IF Adoptable(r) THEN "ENQUEUED" ELSE status[r]]
    /\ attempts' = [r \in Runs |-> IF Adoptable(r) THEN 0 ELSE attempts[r]]
    /\ UNCHANGED <<phase, leaseVars, owner, queue, rows, at, history>>

\* takeoverSQL: one UPDATE for all adoptable runs; recovery_attempts is left
\* alone.
Takeover(p) ==
    /\ phase[p] = "up" /\ maint[p] = "sweep"
    /\ maint' = [maint EXCEPT ![p] = "rows"]
    /\ status' = [r \in Runs |->
           IF Adoptable(r) THEN "ENQUEUED" ELSE status[r]]
    /\ queue' = [r \in Runs |->
           IF Adoptable(r) THEN ReturnQueue(r) ELSE queue[r]]
    /\ UNCHANGED <<phase, leaseVars, owner, attempts, rows, at, history>>

\* Another process has the sweeper's lock, or the sweep failed and rolled back:
\* the pruning of the same cycle goes on.
SweepSkips(p) ==
    /\ phase[p] = "up" /\ maint[p] = "sweep"
    /\ maint' = [maint EXCEPT ![p] = "rows"]
    /\ UNCHANGED <<phase, leaseVars, runVars, rows, at, history>>

\* pruneExecutionsSQL: the rows of the executors whose lease expired.
PruneRows(p) ==
    /\ phase[p] = "up" /\ maint[p] = "rows"
    /\ maint' = [maint EXCEPT ![p] = "leases"]
    /\ rows' = [i \in Ids |->
           IF age[i] = "expired" THEN [r \in Runs |-> "none"] ELSE rows[i]]
    /\ lost' = lost \cup {r \in Runs : Recorded(r) /\ ~Recorded(r)'}
    /\ UNCHANGED <<phase, leaseVars, runVars, at, killed>>

\* Mutant: without the NOT EXISTS guard.
PrunableAnyway(i) == age[i] = "expired"

Prunable(i) ==
    age[i] = "expired"
    /\ ~ \E r \in Runs : status[r] = "PENDING" /\ owner[r] = i

\* pruneLeasesSQL.
PruneLeases(p) ==
    /\ phase[p] = "up" /\ maint[p] = "leases"
    /\ maint' = [maint EXCEPT ![p] = "sweep"]
    /\ age' = [i \in Ids |-> IF Prunable(i) THEN "absent" ELSE age[i]]
    /\ nonce' = [i \in Ids |-> IF Prunable(i) THEN NoProc ELSE nonce[i]]
    /\ UNCHANGED <<phase, runVars, rows, at, history>>

\* A pruning statement failed: the rest of it waits for the next tick.
MaintenanceFails(p) ==
    /\ phase[p] = "up" /\ maint[p] # "sweep"
    /\ maint' = [maint EXCEPT ![p] = "sweep"]
    /\ UNCHANGED <<phase, leaseVars, runVars, rows, at, history>>

-----------------------------------------------------------------------------
(* Runs: DBOS's part.                                                      *)

Enqueue(r) ==
    /\ status[r] = "absent" /\ HomeQueue[r] # NoQueue
    /\ status' = [status EXCEPT ![r] = "ENQUEUED"]
    /\ queue' = [queue EXCEPT ![r] = HomeQueue[r]]
    /\ UNCHANGED <<procVars, leaseVars, owner, attempts, rows, at, history>>

StartDirect(p, r) ==
    /\ phase[p] = "up"
    /\ status[r] = "absent" /\ HomeQueue[r] = NoQueue
    /\ status' = [status EXCEPT ![r] = "PENDING"]
    /\ owner' = [owner EXCEPT ![r] = ExecutorID[p]]
    /\ attempts' = [attempts EXCEPT ![r] = 1]
    /\ at' = [at EXCEPT ![p][r] = "entered"]
    /\ UNCHANGED <<procVars, leaseVars, queue, rows, history>>

\* A caller starts an ID that exists: DBOS rewrites executor_id and hands
\* back a handle; nothing runs here.
StartExisting(p, r) ==
    /\ "restart" \in Env
    /\ phase[p] = "up"
    /\ status[r] \in {"PENDING", "CANCELLED"}
    /\ owner[r] # ExecutorID[p]
    /\ owner' = [owner EXCEPT ![r] = ExecutorID[p]]
    /\ UNCHANGED <<procVars, leaseVars, status, attempts, queue, rows, at,
                   history>>

\* A queue runner takes an enqueued run within its queue's concurrency and
\* stamps its own executor ID.
Dequeue(p, r) ==
    /\ phase[p] = "up"
    /\ status[r] = "ENQUEUED" /\ queue[r] # NoQueue
    /\ at[p][r] = "idle"
    /\ Cardinality({s \in Runs : status[s] = "PENDING" /\ queue[s] = queue[r]})
         < QueueLimit[queue[r]]
    /\ status' = [status EXCEPT ![r] = "PENDING"]
    /\ owner' = [owner EXCEPT ![r] = ExecutorID[p]]
    /\ at' = [at EXCEPT ![p][r] = "taken"]
    /\ UNCHANGED <<procVars, leaseVars, attempts, queue, rows, history>>

OverBudget(r) == attempts[r] > MaxAttempts
\* The count only ever matters up to one past the budget; it stops there.
AttemptsCap == MaxAttempts + 2
Counted(n) == IF n < AttemptsCap THEN n + 1 ELSE n

\* DBOS counts the start.  A run past its budget is dead-lettered, and a
\* finished one is not started; a cancelled one is (its first stage fails).
Enter(p, r) ==
    LET refused == status[r] \in {"SUCCESS", "DEAD"}
                   \/ (status[r] # "CANCELLED" /\ OverBudget(r)) IN
    /\ phase[p] = "up" /\ at[p][r] = "taken"
    /\ attempts' = [attempts EXCEPT ![r] = Counted(@)]
    /\ owner' = [owner EXCEPT ![r] = ExecutorID[p]]
    /\ at' = [at EXCEPT ![p][r] = IF refused THEN "idle" ELSE "entered"]
    /\ IF status[r] = "PENDING" /\ refused
       THEN /\ status' = [status EXCEPT ![r] = "DEAD"]
            /\ queue' = [queue EXCEPT ![r] = NoQueue]
       ELSE UNCHANGED <<status, queue>>
    /\ lost' = IF refused THEN lost ELSE lost \ {r}
    /\ UNCHANGED <<procVars, leaseVars, rows, killed>>

\* Mutant: ON CONFLICT DO NOTHING, a finished execution's row stays closed.
BeginUnlessRow(p, r) ==
    /\ phase[p] = "up" /\ at[p][r] = "entered"
    /\ rows' = [rows EXCEPT ![ExecutorID[p]][r] = IF @ = "none" THEN p ELSE @]
    /\ at' = [at EXCEPT ![p][r] = "between"]
    /\ UNCHANGED <<procVars, leaseVars, runVars, history>>

\* executeTracked: the row is written, under a new token, before the body.
BeginExecution(p, r) ==
    /\ phase[p] = "up" /\ at[p][r] = "entered"
    /\ rows' = [rows EXCEPT ![ExecutorID[p]][r] = p]
    /\ at' = [at EXCEPT ![p][r] = "between"]
    /\ UNCHANGED <<procVars, leaseVars, runVars, history>>

\* DBOS refuses a stage of a cancelled run, and any once it shuts down.
StageStart(p, r) ==
    /\ phase[p] = "up" /\ at[p][r] = "between"
    /\ status[r] # "CANCELLED"
    /\ at' = [at EXCEPT ![p][r] = "stage"]
    /\ UNCHANGED <<procVars, leaseVars, runVars, rows, history>>

StageEnd(p, r) ==
    /\ at[p][r] = "stage"
    /\ at' = [at EXCEPT ![p][r] = "between"]
    /\ UNCHANGED <<procVars, leaseVars, runVars, rows, history>>

\* Mutant: the close is never written.
LeaveRow(p, r) == rows' = rows
\* endExecutionSQL, which the tracker's closed pool no longer runs.
CloseRow(p, r) ==
    LET i == ExecutorID[p] IN
    rows' = IF rows[i][r] = p /\ phase[p] # "closed"
            THEN [rows EXCEPT ![i][r] = "closed"] ELSE rows

\* The body returned, with its result or with the refused stage's error.
EndExecution(p, r) ==
    /\ phase[p] \in {"up", "draining"} /\ at[p][r] = "between"
    /\ CloseRow(p, r)
    /\ at' = [at EXCEPT ![p][r] = "ended"]
    /\ UNCHANGED <<procVars, leaseVars, runVars, history>>

\* DBOS writes the outcome, after the row is closed; CANCELLED stays.
RecordOutcome(p, r) ==
    /\ phase[p] \in {"up", "draining"} /\ at[p][r] = "ended"
    /\ status' = [status EXCEPT ![r] =
           IF @ = "CANCELLED" THEN @ ELSE "SUCCESS"]
    /\ at' = [at EXCEPT ![p][r] = "idle"]
    /\ UNCHANGED <<procVars, leaseVars, owner, attempts, queue, rows, history>>

\* Shutdown interrupts an execution outside a stage: the run stays PENDING.
Interrupt(p, r) ==
    /\ phase[p] \in {"draining", "beatless", "closed"}
    /\ at[p][r] \in {"taken", "entered", "between", "ended"}
    /\ CloseRow(p, r)
    /\ at' = [at EXCEPT ![p][r] = "idle"]
    /\ lost' = IF at[p][r] = "entered" THEN lost \cup {r} ELSE lost
    /\ UNCHANGED <<procVars, leaseVars, runVars, killed>>

-----------------------------------------------------------------------------
(* Operators.                                                              *)

Cancel(r) ==
    /\ "cancel" \in Env
    /\ status[r] \in {"ENQUEUED", "PENDING"}
    /\ status' = [status EXCEPT ![r] = "CANCELLED"]
    /\ queue' = [queue EXCEPT ![r] = NoQueue]
    /\ UNCHANGED <<procVars, leaseVars, owner, attempts, rows, at, history>>

\* Mutant: any cancelled run resumes, started or not.
ResumableCancelled(r) == status[r] \in {"DEAD", "CANCELLED"}
\* resumeSQL.
Resumable(r) ==
    \/ status[r] = "DEAD"
    \/ status[r] = "CANCELLED" /\ attempts[r] = 0

\* control.go's Resume.  The statement looks at no process; only where the
\* environment leaves "window" out does it wait for a dequeued run's start.
Resume(r) ==
    /\ "resume" \in Env
    /\ "window" \in Env \/ \A p \in Procs : at[p][r] = "idle"
    /\ Resumable(r)
    /\ status' = [status EXCEPT ![r] = "ENQUEUED"]
    /\ queue' = [queue EXCEPT ![r] = ReturnQueue(r)]
    /\ attempts' = [attempts EXCEPT ![r] = 0]
    /\ UNCHANGED <<procVars, leaseVars, owner, rows, at, history>>

-----------------------------------------------------------------------------

ProcStep(p) ==
    \/ Claim(p) \/ CloseOrphaned(p) \/ FirstBeatFails(p)
    \/ Launch(p) \/ LaunchFails(p)
    \/ CloseBegins(p) \/ ShutdownReturns(p)
    \/ Tombstone(p) \/ TombstoneFails(p) \/ Exit(p) \/ Crash(p)
    \/ Beat(p)
    \/ Takeover(p) \/ SweepSkips(p)
    \/ PruneRows(p) \/ PruneLeases(p) \/ MaintenanceFails(p)

ExecutionStep(p, r) ==
    \/ StartDirect(p, r) \/ StartExisting(p, r)
    \/ Dequeue(p, r) \/ Enter(p, r)
    \/ BeginExecution(p, r) \/ StageStart(p, r) \/ StageEnd(p, r)
    \/ EndExecution(p, r) \/ RecordOutcome(p, r) \/ Interrupt(p, r)

Next ==
    \/ \E p \in Procs : ProcStep(p)
    \/ \E p \in Procs, r \in Runs : ExecutionStep(p, r)
    \/ \E i \in Ids : LeaseAges(i)
    \/ \E r \in Runs : Enqueue(r) \/ Cancel(r) \/ Resume(r)

Spec == Init /\ [][Next]_vars

\* The heartbeat and maintenance tickers run for as long as their process is
\* up and win the sweeper's lock again and again; a failed first beat is
\* transient; a pipeline has finitely many stages,
\* each of which returns; an enqueued run that queue runners keep finding
\* within its queue's limit is dequeued (the queue is first in, first out).
\* Crash, close, cancel, resume and the callers that start runs are not fair.
Maintenance(p) ==
    \/ Takeover(p) \/ SweepSkips(p)
    \/ PruneRows(p) \/ PruneLeases(p) \/ MaintenanceFails(p)

Fairness ==
    /\ \A p \in Procs :
        /\ WF_vars(Claim(p)) /\ SF_vars(CloseOrphaned(p)) /\ WF_vars(Launch(p))
        /\ WF_vars(ShutdownReturns(p))
        /\ WF_vars(Tombstone(p) \/ TombstoneFails(p))
        /\ WF_vars(Exit(p)) /\ WF_vars(Beat(p))
        /\ WF_vars(Maintenance(p)) /\ SF_vars(Takeover(p))
    /\ \A p \in Procs, r \in Runs :
        /\ WF_vars(Enter(p, r)) /\ WF_vars(BeginExecution(p, r))
        /\ WF_vars(StageStart(p, r)) /\ WF_vars(StageEnd(p, r))
        /\ SF_vars(EndExecution(p, r)) /\ WF_vars(RecordOutcome(p, r))
        /\ WF_vars(Interrupt(p, r))
    /\ \A r \in Runs : SF_vars(\E p \in Procs : Dequeue(p, r))
    /\ \A i \in Ids : WF_vars(LeaseAges(i))

FairSpec == Spec /\ Fairness

-----------------------------------------------------------------------------
(* Properties.                                                             *)

Running(p, r) == at[p][r] = "stage"

\* Takeover, recovery and Resume never have a run's stages executed by two
\* processes at once (workerpool.go 25-27 and 678-689, control.go 68-80).
ExclusiveExecution ==
    \A r \in Runs, p, q \in Procs :
        Running(p, r) /\ Running(q, r) => p = q

\* Unsettled is exact: a run it does not report has no stage running anywhere
\* (executions.go 352-381, 470-489).
SettledMeansIdle ==
    \A r \in Runs : Settled(r) => \A p \in Procs : ~Running(p, r)

\* An open row under a live lease is an execution of the process that holds
\* the lease, also when a restart took the executor ID over from a crashed
\* process (closeOrphanedSQL, executions.go 81-88).
OpenRowMeansHeld ==
    \A p \in Procs, r \in Runs :
        phase[p] = "up" /\ nonce[ExecutorID[p]] = p /\ Open(ExecutorID[p], r)
            => at[p][r] # "idle"

\* In a fleet that tracks executions, the disjunct of Unsettled for untracked
\* ones reports a cancelled run only between the count of its start and the
\* start's row, whichever executor the run names: "DBOS rewrites executor_id
\* when a caller starts an existing workflow ID again, and a tracked run must
\* not turn unsettled because of it" (executions.go 372-377).  The exception is
\* a run whose last start no row tells of any more: its process ended before
\* it wrote the row, or the last row was pruned.  When a caller starts such a
\* run's ID again, or a process restarts under the executor ID it names, the
\* settled run reads as executing until that process stops, although its rows
\* "can always go" (workerpool.go 785-786).
UntrackedMeansHeld ==
    \A r \in Runs : UntrackedExecution(r) =>
        (\E p \in Procs : at[p][r] = "entered") \/ r \in lost

\* Pruning never deletes the lease a sweep needs: every PENDING run's executor
\* has a lease row, so the run stays adoptable (pruneLeasesSQL).
PendingHasLease ==
    \A r \in Runs :
        status[r] = "PENDING" => owner[r] \in Ids /\ age[owner[r]] # "absent"

\* Taking over keeps runs within their queue's concurrency: the runs of a
\* queue that hold a process never exceed it (takeoverSQL's queue_name).
QueueLimitHolds ==
    \A q \in Queues :
        Cardinality({r \in Runs :
            HomeQueue[r] = q /\ \E p \in Procs : Running(p, r)})
        <= QueueLimit[q]

\* A run that kills whichever process executes it is parked: until somebody
\* resumes it, it ends at most MaxAttempts + 1 processes (takeoverSQL's
\* recovery_attempts), whatever else goes wrong in the fleet.
PoisonRunIsParked == \A r \in Runs : killed[r] <= MaxAttempts + 1

\* A process that is beating on a lease row naming it is never read as dead,
\* whatever a process that shares its executor ID does (tombstone and beat
\* are conditional on the nonce).
HolderStaysFresh ==
    \A p \in Procs :
        Beating(p) /\ nonce[ExecutorID[p]] = p => age[ExecutorID[p]] = "fresh"

-----------------------------------------------------------------------------
(* The inductive invariant behind the safety properties, for an environment *)
(* without hazards.                                                         *)

Holds(p, r) == at[p][r] # "idle"

\* Two processes on one executor ID do not live at the same time.
LiveDistinct ==
    \A p, q \in Procs :
        Alive(p) /\ Alive(q) /\ ExecutorID[p] = ExecutorID[q] => p = q
\* A beating process has the lease of its ID, and the lease is fresh.
LeaseHeld ==
    \A p \in Procs : Beating(p) =>
        age[ExecutorID[p]] = "fresh" /\ nonce[ExecutorID[p]] = p
\* Only a process whose heartbeat lands executes anything.
HoldersUp ==
    \A p \in Procs, r \in Runs : Holds(p, r) => phase[p] \in {"up", "draining"}
\* While the run is PENDING its holder is the executor its row names.
HolderOwns ==
    \A p \in Procs, r \in Runs : Holds(p, r) =>
        /\ status[r] \notin {"absent", "ENQUEUED"}
        /\ status[r] = "PENDING" => owner[r] = ExecutorID[p]
OneHolder ==
    \A r \in Runs, p, q \in Procs : Holds(p, r) /\ Holds(q, r) => p = q
\* Once a process is past its first beat, an open row of its executor ID is
\* its own, and open exactly while it is inside the body.
InBody(p, r) == at[p][r] \in {"between", "stage"}
RowsMatch ==
    \A p \in Procs, r \in Runs : phase[p] \in {"ready", "up", "draining"} =>
        /\ InBody(p, r) => rows[ExecutorID[p]][r] = p
        /\ Open(ExecutorID[p], r) => InBody(p, r)

\* What the proofs carry: types, leases, holders, rows and adoptability.
IInv ==
    /\ TypeOK
    /\ LiveDistinct /\ LeaseHeld
    /\ HoldersUp /\ HolderOwns /\ OneHolder
    /\ RowsMatch
    /\ PendingHasLease

-----------------------------------------------------------------------------
(* The holder of a run, as RunLifecycle, the promise about one run, has it. *)

HolderOf(r) == IF \E p \in Procs : Holds(p, r)
               THEN CHOOSE p \in Procs : Holds(p, r) ELSE NoProc

Lifecycle(r) == INSTANCE RunLifecycle WITH
    Nobody <- NoProc,
    state <- status[r],
    started <- attempts[r] > 0,
    holder <- HolderOf(r)

\* Leases, dequeues, takeovers, recoveries and closes implement a run that at
\* most one process holds and that leaves a final state only by Resume, and
\* then unheld (RunLifecycle).
ImplementsLifecycle ==
    /\ \A r \in Runs : Lifecycle(r)!Init
    /\ [][\A r \in Runs : [Lifecycle(r)!Next]_(Lifecycle(r)!vars)]_vars

-----------------------------------------------------------------------------
\* A run that a live executor holds is never yanked back to its queue by the
\* sweep of another (takeoverSQL, workerpool.go 683-687).
TakeoverSparesLive ==
    [][\A r \in Runs : status[r] = "PENDING" /\ status'[r] = "ENQUEUED"
         => \A p \in Procs : ~Running(p, r)]_vars

\* While one process of the fleet stays up, every run that was enqueued or
\* started reaches a final state, through crashes, closes and lost
\* tombstones of the others.
RunsFinish ==
    \A r \in Runs : status[r] \in {"ENQUEUED", "PENDING"} ~> Terminal(r)

\* A run in a final state is settled some day: neither a crashed execution's
\* open row nor the executor it names keeps it reading as executing.
TerminalSettles == \A r \in Runs : Terminal(r) ~> Settled(r)
===============================================================================
