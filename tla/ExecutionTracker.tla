--------------------------- MODULE ExecutionTracker ---------------------------
(***************************************************************************)
(* The execution tracker of one process (executions.go): the goroutines    *)
(* that execute runs, the poll goroutine, and the execution rows of this   *)
(* executor in Postgres.  Any write may fail, and a write that reports an  *)
(* error may have committed.  A statement whose client gave up has         *)
(* committed by then or never does.                                        *)
(*                                                                         *)
(* The process stays up throughout: WorkerPool models what a dead process  *)
(* leaves behind.                                                          *)
(***************************************************************************)
EXTENDS Integers

CONSTANTS
    Runs,           \* workflow IDs
    MaxTokens       \* bound on the executions of the whole behaviour

ASSUME TrackerAssumption == MaxTokens \in Nat

Tokens == 1 .. MaxTokens
None == 0           \* no entry in a map, no row

VARIABLES
    issued,         \* tokens handed out so far
    rowToken,       \* rowToken[r]: token of this executor's row of r
    rowOpen,        \* rowOpen[r]: ended_at IS NULL
    isCancelled,    \* isCancelled[r]: the run's status is CANCELLED
    place,          \* place[r]: where the goroutine executing r is
    token,          \* token[r]: the token of r's current execution
    running,        \* the tracker's map of executions in progress
    unended,        \* the tracker's map of closes that failed to write
    interrupted,    \* interrupted[r]: the tracker cancelled r's run context
    sawCancel,      \* history: r was CANCELLED at some time since its
                    \* current execution registered
    replaced,       \* history: a queued close of r was replaced by that of a
                    \* start that gave up, and r has not started since
    poll,           \* where the poll goroutine is
    snapshot,       \* the tokens or closes the poll copied under the lock
    observed        \* the runs the poll's query found CANCELLED

rowVars  == <<rowToken, rowOpen>>
mapVars  == <<running, unended>>
pollVars == <<poll, snapshot, observed>>
vars == <<issued, rowToken, rowOpen, isCancelled, place, token, running,
          unended, interrupted, sawCancel, replaced, poll,
          snapshot, observed>>

\* starting: recordStart retries.  recorded: the row is written, the maps are
\* not.  ending: the body returned and left running, the close is unwritten.
\* failed: the close reported an error that end has yet to queue.
Places == {"idle", "starting", "recorded", "body", "ending", "failed"}
PollPlaces == {"wait", "query", "apply", "copy", "retry", "drop"}
Map == [Runs -> 0 .. MaxTokens]
Empty == [r \in Runs |-> None]

\* The type invariant.
TypeOK ==
    /\ issued \in 0 .. MaxTokens
    /\ rowToken \in Map /\ rowOpen \in [Runs -> BOOLEAN]
    /\ isCancelled \in [Runs -> BOOLEAN]
    /\ place \in [Runs -> Places] /\ token \in Map
    /\ running \in Map /\ unended \in Map
    /\ interrupted \in [Runs -> BOOLEAN] /\ sawCancel \in [Runs -> BOOLEAN]
    /\ replaced \in [Runs -> BOOLEAN]
    /\ poll \in PollPlaces /\ snapshot \in Map /\ observed \in SUBSET Runs

Init ==
    /\ issued = 0
    /\ rowToken = Empty /\ rowOpen = [r \in Runs |-> FALSE]
    /\ isCancelled = [r \in Runs |-> FALSE]
    /\ place = [r \in Runs |-> "idle"] /\ token = Empty
    /\ running = Empty /\ unended = Empty
    /\ interrupted = [r \in Runs |-> FALSE]
    /\ sawCancel = [r \in Runs |-> FALSE]
    /\ replaced = [r \in Runs |-> FALSE]
    /\ poll = "wait" /\ snapshot = Empty /\ observed = {}

-----------------------------------------------------------------------------
(* The goroutine executing a run.  DBOS refuses a second concurrent start  *)
(* on one executor, so a run has one such goroutine at a time.             *)

\* begin mints a token.
Begin(r) ==
    /\ place[r] = "idle" /\ issued < MaxTokens
    /\ issued' = issued + 1
    /\ token' = [token EXCEPT ![r] = issued + 1]
    /\ place' = [place EXCEPT ![r] = "starting"]
    /\ UNCHANGED <<rowVars, isCancelled, mapVars, interrupted, sawCancel,
                   pollVars, replaced>>

\* startExecutionSQL: opens the row, or reopens it under the new token.
OpenRow(r) ==
    /\ rowToken' = [rowToken EXCEPT ![r] = token[r]]
    /\ rowOpen' = [rowOpen EXCEPT ![r] = TRUE]
    /\ replaced' = [replaced EXCEPT ![r] = FALSE]

StartWritten(r) ==
    /\ place[r] = "starting"
    /\ OpenRow(r)
    /\ place' = [place EXCEPT ![r] = "recorded"]
    /\ UNCHANGED <<issued, isCancelled, token, mapVars, interrupted, sawCancel,
                   pollVars>>

\* The write committed and the client saw an error: recordStart retries.
StartLost(r) ==
    /\ place[r] = "starting"
    /\ OpenRow(r)
    /\ UNCHANGED <<issued, isCancelled, place, token, mapVars, interrupted,
                   sawCancel, pollVars>>

\* The run's context ended first: begin queues the close and the body never
\* runs.
StartGivesUp(r) ==
    /\ place[r] = "starting"
    /\ unended' = [unended EXCEPT ![r] = token[r]]
    /\ replaced' = [replaced EXCEPT ![r] = @ \/ unended[r] # None]
    /\ place' = [place EXCEPT ![r] = "idle"]
    /\ UNCHANGED <<issued, rowVars, isCancelled, token, running, interrupted,
                   sawCancel, pollVars>>

\* begin's second half, under the lock: the new execution is running, on a
\* fresh context, and an earlier close of the run is moot.
Register(r) ==
    /\ place[r] = "recorded"
    /\ running' = [running EXCEPT ![r] = token[r]]
    /\ unended' = [unended EXCEPT ![r] = None]
    /\ interrupted' = [interrupted EXCEPT ![r] = FALSE]
    /\ sawCancel' = [sawCancel EXCEPT ![r] = isCancelled[r]]
    /\ place' = [place EXCEPT ![r] = "body"]
    /\ UNCHANGED <<issued, rowVars, isCancelled, token, pollVars, replaced>>

\* The body returned; end takes the execution out of running.
BodyReturns(r) ==
    /\ place[r] = "body"
    /\ running' = [running EXCEPT ![r] = IF @ = token[r] THEN None ELSE @]
    /\ place' = [place EXCEPT ![r] = "ending"]
    /\ UNCHANGED <<issued, rowVars, isCancelled, token, unended, interrupted,
                   sawCancel, pollVars, replaced>>

\* Mutant: without the token predicate.
ClosesAny(r, t) == rowOpen[r]
\* endExecutionSQL and endExecutionsSQL for one run.
Closes(r, t) == rowToken[r] = t /\ rowOpen[r]

EndWritten(r) ==
    /\ place[r] = "ending"
    /\ rowOpen' = [rowOpen EXCEPT ![r] = @ /\ ~Closes(r, token[r])]
    /\ place' = [place EXCEPT ![r] = "idle"]
    /\ UNCHANGED <<issued, rowToken, isCancelled, token, mapVars, interrupted,
                   sawCancel, pollVars, replaced>>

\* The close reported an error, whether it committed or not.
EndFails(r) ==
    /\ place[r] = "ending"
    /\ \/ rowOpen' = [rowOpen EXCEPT ![r] = @ /\ ~Closes(r, token[r])]
       \/ UNCHANGED rowOpen
    /\ place' = [place EXCEPT ![r] = "failed"]
    /\ UNCHANGED <<issued, rowToken, isCancelled, token, mapVars, interrupted,
                   sawCancel, pollVars, replaced>>

\* Mutant: the failure is only logged.
ForgetClose(r) ==
    /\ place[r] = "failed"
    /\ place' = [place EXCEPT ![r] = "idle"]
    /\ UNCHANGED <<issued, rowVars, isCancelled, token, mapVars, interrupted,
                   sawCancel, pollVars, replaced>>

\* end's failure path, under the lock.
QueueClose(r) ==
    /\ place[r] = "failed"
    /\ unended' = [unended EXCEPT ![r] =
           IF running[r] = None THEN token[r] ELSE @]
    /\ place' = [place EXCEPT ![r] = "idle"]
    /\ UNCHANGED <<issued, rowVars, isCancelled, token, running, interrupted,
                   sawCancel, pollVars, replaced>>

-----------------------------------------------------------------------------
(* The poll goroutine.                                                     *)

\* cancelObserved copies the running tokens.
PollTick ==
    /\ poll = "wait"
    /\ snapshot' = running
    /\ poll' = IF running = Empty THEN "copy" ELSE "query"
    /\ UNCHANGED <<issued, rowVars, isCancelled, place, token, mapVars,
                   interrupted, sawCancel, observed, replaced>>

\* cancelledRunsSQL.
PollQuery ==
    /\ poll = "query"
    /\ observed' = {r \in Runs : snapshot[r] # None /\ isCancelled[r]}
    /\ poll' = "apply"
    /\ UNCHANGED <<issued, rowVars, isCancelled, place, token, mapVars,
                   interrupted, sawCancel, snapshot, replaced>>

PollQueryFails ==
    /\ poll = "query"
    /\ poll' = "copy"
    /\ UNCHANGED <<issued, rowVars, isCancelled, place, token, mapVars,
                   interrupted, sawCancel, snapshot, observed, replaced>>

\* Mutants: whichever execution of the run is in progress; the wrong way.
IsRunning(r) == running[r] # None
IsNewer(r) == running[r] > snapshot[r]
\* Under the lock: cancel the executions the poll looked at, if they still run.
IsSame(r) == running[r] # None /\ running[r] = snapshot[r]

PollApply ==
    /\ poll = "apply"
    /\ interrupted' = [r \in Runs |->
           interrupted[r] \/ (r \in observed /\ IsSame(r))]
    /\ observed' = {}
    /\ poll' = "copy"
    /\ UNCHANGED <<issued, rowVars, isCancelled, place, token, mapVars,
                   sawCancel, snapshot, replaced>>

\* retryEnds copies the failed closes.
CopyUnended ==
    /\ poll = "copy"
    /\ snapshot' = unended
    /\ poll' = IF unended = Empty THEN "wait" ELSE "retry"
    /\ UNCHANGED <<issued, rowVars, isCancelled, place, token, mapVars,
                   interrupted, sawCancel, observed, replaced>>

\* endExecutionsSQL.
CloseSnapshot ==
    rowOpen' = [r \in Runs |->
        rowOpen[r] /\ ~(snapshot[r] # None /\ Closes(r, snapshot[r]))]

RetryWritten ==
    /\ poll = "retry"
    /\ CloseSnapshot
    /\ poll' = "drop"
    /\ UNCHANGED <<issued, rowToken, isCancelled, place, token, mapVars,
                   interrupted, sawCancel, snapshot, observed, replaced>>

RetryFails ==
    /\ poll = "retry"
    /\ CloseSnapshot \/ UNCHANGED rowOpen
    /\ poll' = "wait"
    /\ UNCHANGED <<issued, rowToken, isCancelled, place, token, mapVars,
                   interrupted, sawCancel, snapshot, observed, replaced>>

\* Mutant: forgets by run, whatever close is queued by now.
DropRuns ==
    /\ poll = "drop"
    /\ unended' = [r \in Runs |->
           IF snapshot[r] # None THEN None ELSE unended[r]]
    /\ snapshot' = Empty
    /\ poll' = "wait"
    /\ UNCHANGED <<issued, rowVars, isCancelled, place, token, running,
                   interrupted, sawCancel, observed, replaced>>

\* Under the lock: forget the closes that landed, unless replaced meanwhile.
DropLanded ==
    /\ poll = "drop"
    /\ unended' = [r \in Runs |->
           IF snapshot[r] # None /\ unended[r] = snapshot[r]
           THEN None ELSE unended[r]]
    /\ snapshot' = Empty
    /\ poll' = "wait"
    /\ UNCHANGED <<issued, rowVars, isCancelled, place, token, running,
                   interrupted, sawCancel, observed, replaced>>

-----------------------------------------------------------------------------
(* The run's status, as others change it.                                  *)

Cancel(r) ==
    /\ ~isCancelled[r]
    /\ isCancelled' = [isCancelled EXCEPT ![r] = TRUE]
    /\ sawCancel' = [sawCancel EXCEPT ![r] = TRUE]
    /\ UNCHANGED <<issued, rowVars, place, token, mapVars, interrupted,
                   pollVars, replaced>>

\* DBOS's own resume paths revive a cancelled run that started (executions.go
\* 150-160); duro's Resume does not.
Revive(r) ==
    /\ isCancelled[r]
    /\ isCancelled' = [isCancelled EXCEPT ![r] = FALSE]
    /\ UNCHANGED <<issued, rowVars, place, token, mapVars, interrupted,
                   sawCancel, pollVars, replaced>>

-----------------------------------------------------------------------------

Execution(r) ==
    \/ Begin(r) \/ StartWritten(r) \/ StartLost(r) \/ StartGivesUp(r)
    \/ Register(r) \/ BodyReturns(r)
    \/ EndWritten(r) \/ EndFails(r) \/ QueueClose(r)

Poll ==
    \/ PollTick \/ PollQuery \/ PollQueryFails \/ PollApply
    \/ CopyUnended \/ RetryWritten \/ RetryFails \/ DropLanded

Next == (\E r \in Runs : Execution(r) \/ Cancel(r) \/ Revive(r)) \/ Poll

Spec == Init /\ [][Next]_vars

\* The poll ticks for as long as the process is up, and the database answers
\* again and again: a statement that keeps being tried is not lost each time.
Fairness ==
    /\ WF_vars(Poll) /\ SF_vars(PollQuery) /\ SF_vars(RetryWritten)
    /\ \A r \in Runs :
        /\ SF_vars(StartWritten(r)) /\ WF_vars(Register(r))
        /\ WF_vars(EndWritten(r) \/ EndFails(r)) /\ WF_vars(QueueClose(r))

FairSpec == Spec /\ Fairness

-----------------------------------------------------------------------------
(* The inductive invariant behind the safety properties.                   *)

\* Tokens come from the counter, and only a body is in running.
TokensIssued ==
    \A r \in Runs :
        /\ token[r] <= issued /\ rowToken[r] <= issued
        /\ unended[r] <= issued /\ snapshot[r] <= issued
        /\ place[r] # "idle" => token[r] # None
        /\ running[r] = IF place[r] = "body" THEN token[r] ELSE None

\* No close of the current execution is queued, or copied, before it ended.
ClosesAreOld ==
    \A r \in Runs : place[r] # "idle" =>
        /\ unended[r] # token[r]
        /\ poll \in {"retry", "drop"} => snapshot[r] # token[r]

\* The row of an execution that registered is its own until it is closed, and
\* a close that landed stays landed.
RowsOfBodies ==
    \A r \in Runs :
        /\ place[r] \in {"recorded", "body"} => rowOpen[r]
        /\ place[r] \in {"recorded", "body", "ending", "failed"} =>
               rowToken[r] = token[r]
        /\ poll = "drop" /\ snapshot[r] # None /\ rowToken[r] = snapshot[r] =>
               ~rowOpen[r]

\* An open row has its execution, a queued close, or lost it to a replacement.
OpenHasClose ==
    \A r \in Runs : rowOpen[r] /\ place[r] \in {"idle", "starting"} =>
        \/ unended[r] # None /\ unended[r] = rowToken[r]
        \/ replaced[r]
        \/ place[r] = "starting" /\ rowToken[r] = token[r]

\* What the poll found cancelled was cancelled while its execution ran.
CancelsWereSeen ==
    /\ poll # "apply" => observed = {}
    /\ \A r \in Runs :
        /\ place[r] = "body" /\ (isCancelled[r] \/ interrupted[r]) => sawCancel[r]
        /\ /\ poll \in {"query", "apply"}
           /\ snapshot[r] # None /\ snapshot[r] = token[r]
           => /\ place[r] \notin {"starting", "recorded"}
              /\ place[r] = "body" /\ r \in observed => sawCancel[r]

IInv ==
    /\ TypeOK /\ TokensIssued /\ ClosesAreOld /\ RowsOfBodies
    /\ OpenHasClose /\ CancelsWereSeen

-----------------------------------------------------------------------------
(* Properties.                                                             *)

\* While the body runs its row is open under its own token: no late or retried
\* close of an earlier execution closes it (executions.go 76-90), and
\* Unsettled sees every stage.
BodyHasOpenRow ==
    \A r \in Runs : place[r] \in {"recorded", "body"} =>
        rowOpen[r] /\ rowToken[r] = token[r]

\* The tracker interrupts only executions of a run that was cancelled while
\* they ran, never a newer one that a resume started (executions.go 291-300).
InterruptsOnlyCancelled ==
    \A r \in Runs : place[r] = "body" /\ interrupted[r] => sawCancel[r]

Retried(r) == unended[r] # None /\ unended[r] = rowToken[r]
AccountedFor(r) == place[r] # "idle" \/ Retried(r)

\* A close is lost in one way only: a later start of the run gave up before its
\* write landed, and queued its own close in the place of the earlier one.  No
\* interleaving of failed closes, restarts and the poll's retries loses one.
OnlyReplacedClosesAreLost ==
    \A r \in Runs : rowOpen[r] => AccountedFor(r) \/ replaced[r]

\* An execution that returned reads as ended in the end, however its close
\* fails, unless the run starts again or the close is replaced.
EndedRowCloses ==
    \A r \in Runs : (rowOpen[r] /\ place[r] = "idle" /\ ~replaced[r])
        ~> (~rowOpen[r] \/ place[r] # "idle")

\* A cancelled run's execution is interrupted, or has returned, or the run is
\* revived: cancellation reaches a body that would otherwise never return.
CancelReachesBody ==
    \A r \in Runs : (place[r] = "body" /\ isCancelled[r])
        ~> (interrupted[r] \/ place[r] # "body" \/ ~isCancelled[r])
===============================================================================
