# duro, in TLA+

duro builds durable pipelines on DBOS and Postgres.  These modules model what
duro itself adds: a fleet of worker processes that share one database, adopt
each other's runs, record who executes what, cancel and resume runs, push items
through the stages of a pipeline and replay them from their checkpoints, and fan
out over concurrent steps and child workflows.  DBOS is a dependency; its part (dequeue, start,
recovery, outcome, cancellation) is modelled from how duro's code uses it and
what duro's comments and tests say of it, and is marked `external` in
`PROJECT.json`.

`tlc -config X.cfg M` checks a configuration, `tlapm MProofs.tla` the proofs about
module `M`.  The runs, with their modules, and the source lines of every definition
are listed in `PROJECT.json`.

## The system

| Component | Source | State it keeps | Operations | Interacts through |
| --- | --- | --- | --- | --- |
| Worker pool | `workerpool.go` | lease rows (`duro_executor_heartbeats`: executor ID, nonce, beat time) | first beat, ticker's beat, takeover sweep, pruning, tombstone | SQL on leases, execution rows and `workflow_status`; an advisory lock |
| Execution tracking | `executions.go` | execution rows (`duro_run_executions`), per process the maps `running` and `unended` | begin, end, poll (interrupt cancelled executions, retry closes), `Unsettled` | rows shared with pruning; one mutex per process |
| Run control | `control.go` | none of its own | `Cancel`, `Resume` | `workflow_status` |
| App lifecycle | `app.go`, `workerpool.go` | `launchStarted`, two `sync.Once`, the contexts and wait groups of the loops, connection pools | `New`, `Launch`, `Close`, `Resume`'s connection | starts and stops worker pool and DBOS |
| Maintenance | `workerpool.go` | none | retention, stale-run warning | advisory locks, `workflow_status` |
| Fan-out | `fanout.go` | children's rows, the stage's checkpoints, a watcher run | enqueue, await, watch and cancel | child runs, DBOS bulk reads and cancels |
| Parallel | `parallel.go` | channels, semaphore, failure signal | launch, drain, choose the error | goroutines of one process |
| Pipeline engine | `duro.go`, `run.go` | step counter, abort flag, checkpoints | stage, replay, shape guard | DBOS checkpoints |
| Flow stages | `flow.go` | checkpoints | Switch, Branch, Loop, Rescue, Sub, Via, Alongside | engine |
| Shapes | `pipe.go`, `run.go` | none | composition, fingerprint | engine |
| Status and lists | `status.go`, `list.go` | none | reads | `workflow_status` |
| Signals, channels, streams | `signals.go`, `channels.go` | DBOS's | one-step stages, ToStream's close, typed wrappers | engine, DBOS |
| Queues, registration, jobs | `queue.go`, `register.go`, `job.go` | handles, registrations | start-up code | DBOS |
| Forks | `fork.go` | none | the first step of a stage, a run replayed up to it | checkpoints |
| Client, handles | `client.go`, `handle.go` | none | the cores above from other contexts | DBOS |

What is hard here: every statement of every process interleaves with every
other's; processes crash, close, hang past their lease and restart on a reused
executor ID; writes commit and report an error; reads are old by the time they
are acted on.  What makes each part correct:

* worker pool: one process executes a run's stages; a dead process's runs are
  adopted, within their queue's limit and their recovery budget, and finish;
  pruning strands nothing;
* tracking: a run that reads as settled has no stage in flight, and a run that
  has none reads as settled some day; only cancelled executions are interrupted;
* run control and status: a stop is undone at most once and never under a stage; what
  a call returns was true of the run during the call;
* retention: it deletes final runs only, and no row of an execution;
* App lifecycle: a Close leaves nothing running or open, in whatever order and on
  however many goroutines it, Launch and Resume are called; DBOS never runs without a
  live lease; every call returns;
* pipeline engine: the Nth step of a replay is the Nth step of the original, so a
  step never reads another's record; executions of one run agree; a failure stops
  what is behind it, and a rescued one nothing else; the run ends;
* Parallel: no step outlives its stage; the error is a step's own failure, the
  same on replay; no goroutine waits in vain;
* fan-out: the stage's error is a child's own failure wherever there is one, the
  same one on replay; after a failure nothing keeps running; the stage ends.

`PROJECT.json` lists the single hazards, each at its line.

## The modules

* **`WorkerPool`**: the fleet.  A process is an incarnation (and its own lease
  nonce); two processes with one `ExecutorID` are a process and its restart.
  `phase` is the process's way through `Launch` and `Close`, `maint` the next
  statement of its maintenance cycle, `age`/`nonce` the lease rows, `status`,
  `owner`, `attempts`, `queue` the columns of `workflow_status`, `rows` the
  execution rows and `at` the goroutines that execute runs.  An action is one
  SQL statement or one step in memory: `Claim` and `CloseOrphaned` are the two
  statements of `firstBeat`, `Takeover` is `takeoverSQL`, `PruneRows` and
  `PruneLeases` the two statements of `pruneLeases`.  Time is the age of a lease:
  fresh, stale (past the threshold), expired (past the prune age as well; a
  tombstone is expired at once).  `Env` says what the environment may do; its
  `Hazards` are the things duro's guarantees are hedged against.  `Recorded(r)` is
  `tracked` of `unsettledSQL`, and `lost` is a history: the runs whose last start no
  row tells of any more.
* **`WorkerPoolProofs`**, **`AppLifecycleProofs`**, **`ExecutionTrackerProofs`**,
  **`RunControlProofs`**, **`ParallelProofs`**, **`FanOutProofs`**, **`ReplayProofs`**:
  theorems about the module each is named after, checked by TLAPS.  **`MinTheorems`**
  has the lemma on least elements that the last three share.
* **`AppLifecycle`**: one App in its process, where `WorkerPool` has a fleet whose
  processes launch and close once.  `pc[c]` is the statement at which goroutine `c` is
  in `Launch`, `Close` or `Resume`; `built` is how far `New` is.  `ctx` has `beatCtx`
  and `maintCtx` with their cancel functions (nil until `start` sets them), `loop` the
  goroutines of `heartbeatLoop`, `executionLoop` and `maintenanceLoop`, in their select
  or at work; `closeOnce` and `admin` are the two `sync.Once` with what they guard.
  `Mode` says which options `New` was given, since each leaves out part of `Close`.
  `overlapped` remembers that Launch claimed the lease or started loops beside a Close.
* **`RunLifecycle`**: the promise about one run: at most one holder, and out of a
  final state only by Resume, unheld.  `WorkerPool` maps the fleet to it
  (`Lifecycle(r)`), run by run (`holder` is the process whose `at[p][r]` is not idle, `started` is
  `recovery_attempts > 0`).
* **`ExecutionTracker`**: the tracker of one process in detail: the critical
  sections of its mutex, tokens, both maps, the poll between its copy, its query
  and its use of the answer, and failed writes that may have committed.
  `WorkerPool` uses its result (a row per execution).
* **`RunControl`**: `Status`, `Cancel` and `Resume` of one run, with each statement a
  step (`Reads` and `ReadsReason` are the two queries of `listRuns`, `CancelWrites` and
  `Revives` the writes), several callers at once, writes that fail before or after they
  committed, and a run that moves between them.  `RetentionLists`, `RetentionDeletes` and
  `RetentionDeletesRows` are the three statements of `sweepRetention`.  `seen[c]` is the
  history the answers are held against: how the run looked at any point of `c`'s call.
* **`FanOut`**: one stage in both modes.  The default awaits children in order,
  one checkpoint each.  With `WithCancelSiblings` the await step and the watcher
  run the same loop (`loop["parent"]`, `loop["watcher"]`): `Poll` is one read and
  the decision it leads to, `CancelBatch` the bulk cancel.  The parent then reads the
  children's results one by one (`ReadResult`, `ReadFails`), collects a verdict and
  records it.  A read that fails ends the step or counts as that item's failure, as
  the code has it, and may then stand for a genuine one: such a verdict is `"infra"`.
* **`Parallel`**: one stage.  `main` is the workflow goroutine, `step[i]` the
  goroutine DBOS starts for item `i`, `forwarder[i]` the one that fires the
  failure signal and frees the slot, `recorded[i]` the step's checkpoint.  After a
  crash the stage runs again from its first item and recorded steps answer at once
  (`"replayed"`).  `CutShort` is an error no step records: `dbos.Go` refusing, or
  an upstream that lost its database, behind the last item too.  The teardown's own firing of the signal
  (`parallel.go:166-168`) finds no step in flight and is left out.
* **`Stages`**: what one turn of a pipeline's goroutine does, as functions of the
  pipeline, the agenda and the next step ID.  `program` maps the name of each pipe to
  its stages.  ro's synchronous observables are a depth-first walk on one goroutine, and
  an agenda is what that goroutine has to do: an `item` or a completion (`done`) on its
  way into a stage, or the `end` of a pipe, with the pipe's outputs, its accumulators,
  its failure and its abort flag.  A handler takes the head and pushes in front of the
  rest.  `After`, `Stopped` and `Denied` say what a step's answer, a raised flag and a
  refusal leave of it.  That a replay repeats the original is a statement about these
  functions, which is why they have a module of their own.
* **`Replay`**: one run of a pipeline; `shape` is the fingerprint that was recorded.
  `PlainStage`, `Accumulate`, `Dispatch`, `Embed` and `Launch` take an item,
  `Complete` and `CloseStream` a completion, `EndArmOrVia`, `EndIteration`,
  `EndRescued`, `EndAlongside` and `EndRun` an end.  `RunStep` is `runStep` with what
  DBOS does in it: refuse, answer from `records`, or execute and record.  An item
  is where it came from (the step that made it and its place in the result), so
  that two steps with equal inputs are told apart exactly when their histories
  differ, and each record keeps what it was asked for: `misread` says that one was
  read by another step.  `flying` has the side steps of Alongside, which run
  beside the goroutine.  `Begin` is `RunAll` with `verifyShape`, `Fork` is
  `ForkFromStage`.
* **`MC*`**: instances for TLC.

Definitions commented `Mutant` are plausible slips in the code (a dropped
predicate, a lost reset).  No specification uses them; each breaks the property
it is named with in `PROJECT.json`, which shows that the property depends on the
code it is about.

## What the runs show

| Run | Instance | Shows |
| --- | --- | --- |
| `wp_core` | 3 processes on 2 executor IDs (one is a restart), 1 queued run, budget 1; crash, close, cancel, resume | exclusive execution, exact `Unsettled`, the inductive invariant (adoptability is a conjunct), and that the fleet implements `RunLifecycle` |
| `wp_queue` | 2 processes, 2 runs on a queue with concurrency 1; crash, close | takeover keeps the limit |
| `wp_hazards` | 3 processes, 2 of them possibly alive on one ID, 1 queued run, budget 0; crash, close, cancel, slow closes, repeated starts | the lease of its holder survives; a poison run is parked after its budget; an untracked run reads as executing only while it is entered, but for the runs in `lost` |
| `wp_live` | 2 processes, 1 direct run, one process stays up; crash, close, cancel, resume, also between a dequeue and its first start | runs finish, finished runs settle |
| `al_app` | 1 App in each of 3 modes, 2 goroutines; 2 calls of Launch, 2 of Close, 1 of Resume, in any order and at once; New fails at any step | a Close leaves nothing running or open; DBOS runs under a live lease; no beat undoes a tombstone; every call returns |
| `et_tracking` | 1 run, 4 executions | rows of bodies are open, interrupts hit only cancelled executions, closes are lost in one known way only, ended rows close, cancels reach the body |
| `rc_calls` | 2 callers, budget 1, 2 resumes, 2 submissions of the ID, retention | one resume per stop, none under a stage, true answers, retention deletes final runs only |
| `fo_batch` | no item, 1 item, 3 items on 2 children; both modes; failing enqueues, reads and cancels, cancels from outside, retention; parent and watcher each crash once | one verdict, never masked by a cancellation, unless a read failed; the batch stops; the stage ends |
| `pa_stage` | no item, 2 or 3 items; unbounded, 1 or 2 slots; with and without sibling cancellation; 2 crashes | no step outlives the stage, one genuine verdict, a serial stage stops at its failure, the stage ends |
| `rp_run` | 8 pipelines: with Rescue, nested Rescues, a Loop of 2 iterations, a Switch with a Via, Alongside, a stream, a bounded Loop behind a step, one inside a Via; pairs of items; 2 crashes or stops, cancels, 1 fork, redeploys of another pipeline | steps read their own records, executions agree, causes are genuine, failures stop what is behind them (but a Loop's that gave up), no side step outlives its stage, the run ends |

Why these bounds are enough.  The properties of the fleet relate at most two
processes and one run (two for the queue's limit), so three processes give every
pair with a third that sweeps; a second incarnation on one ID gives the restart.
`recovery_attempts` is capped one past where it is compared (`AttemptsCap`), and
lease ages beyond "expired" do not differ.  Four tokens let an old close, a
current one and a new execution of one run meet, with one more to replace a queued
close; the maps treat runs independently.  Two resumes let two callers race for one stop and then for
another; the second submission puts a new run behind retention's list.  Two goroutines give
each pair of an App's calls, a second Launch the retry behind a failed beat, and a second
Close the race for `closeOnce`; Launch calls Close itself, which gives a third.  Three items with two children give a shared child, an order among
failures and a survivor to cancel.  Three items on one or two slots give an item
that waits, one that runs and one that failed; two crashes let a replay be cut
short again.  In `Replay` a pair of items gives one that failed and one behind it;
each pipeline ends in a few steps, and the eight embed every flow stage, three of
them inside a Rescue, so that its two outcomes are taken; a second crash interrupts
a replay, and the fork then replays a prefix of what the replay left.  Two of the
eight let a Loop give up with an item behind it, which `FailFastButLoops` excepts;
`rp_loop_bound` runs one of them against the property without the exception.

`CHECK_DEADLOCK FALSE` stands where the system really stops: processes that
exited are not replaced, and a stage that ended has nothing left to do.

### Fairness

* `WorkerPool`: the tickers run while their process is up and win the sweeper's
  lock again and again; stages return (a pipeline is finite); DBOS's queue runners
  dequeue a run they keep finding.  Claiming, launching and a closing process's
  last steps are fair because they are straight-line code; a failed first beat is
  transient (`SF` on `CloseOrphaned`).  Crashes, closes, cancels, resumes and
  starts are not fair.  `RunsFinish` needs one process that neither crashes nor
  closes, as any fleet does.  `EndExecution` is strongly fair: a body of finitely
  many stages returns.
* `ExecutionTracker`: the poll ticks (`executionLoop`), and a statement that is
  tried again and again succeeds at some point.  `StartLost`, `RetryFails` and
  the like may happen any number of times before.
* `AppLifecycle`: a call in progress goes on (each of its statements has a timeout), the
  work of a tick ends (the maintenance contexts abort its query, a beat has a
  timeout), and a loop whose context is done leaves its select.  The last is strong: a
  select with a tick ready as well chooses at random.  Calls begin as they like, `New`
  need not go on and stages need not end: `ShutdownTimesOut` gets `Close` past them.
* `FanOut`: a process that executes the parent or the watcher makes progress,
  some executor dequeues the watcher, and a cancel that is retried gets through.
  Nothing is assumed of the children: `BackstopCancels` holds though they may run
  forever, and though nobody may ever recover the parent.
* `Parallel`: goroutines are scheduled, a step's function returns, and some process
  recovers the run.  `CutShort` and crashes are not fair.
* `Replay`: the workflow goroutine is scheduled, a step's function returns, and
  some process executes a pending run and records its outcome.  `Halt`, `Crash` and
  `Fork` are not fair.

## Where the code and its words differ

Each is a run that TLC finds violated.

* `wp_start_existing`: the sweep goes by `executor_id`, which a caller that starts
  an existing ID rewrites (`executions.go:376-377`).  When that caller dies, a run
  is taken from the live process that executes it, against `workerpool.go:667-669`.
* `rp_loop_bound`: a Loop that exceeds `WithMaxIterations` fails without setting the
  abort flag (`flow.go:189`), so a step before the Loop is executed and recorded for
  the next item, behind the failure; `duro.go:32-34` and `README.md:884-886` of the
  repository say that the flag stops it.  A Switch without a case for its key sets
  the flag (`flow.go:113-115`).  For the same reason a Via around such a Loop runs its
  pipe for the next item (`flow.go:326-331`: `FlatMap` has no guard on an earlier
  failure).  `FailFastButLoops`, in `rp_run`, says what holds of every pipeline.

More are in the models without a run of their own:

* `ShutdownReturns` under `"slow_drain"` (`WorkerPool`): a `Close` that times out with
  a stage in flight tombstones the lease all the same (`app.go:307`), so a survivor
  may adopt the run while the stage runs; `app.go:267-269` says such runs stay
  un-takeable "however long that takes", and asks for a prompt exit.
* `PruneRows` (`WorkerPool`): pruning a dead executor's rows removes the evidence
  that a cancelled run was tracked.  When a caller then starts its ID again, which
  moves `executor_id` to a live process, or a process restarts under the executor ID
  it names, the settled run reads as executing until that process stops, where
  `workerpool.go:785-786` says the rows "can always go" and `executions.go:376-377`
  that "a tracked run must not turn unsettled because of it".  The same happens to a
  run whose process died between DBOS's count of a start and the start's row.
  `UntrackedMeansHeld` names both (`lost`), in an environment with repeated starts and
  restarts, and holds of every other run.  `TerminalSettles` has no exception, and
  `wp_live` has no repeated starts: with them it fails for the runs in `lost`.
* `CloseStream` (`Replay`): a ToStream in a pipe that is embedded for each item
  closes its stream behind the first item, not "when the pipeline completes"
  (`signals.go:132-133`).
* `StartGivesUp` (`ExecutionTracker`): a start that gives up before its write lands
  stores its own close over the queued close of an earlier execution
  (`executions.go:194`); the earlier row stays open while the process lives, where
  `executions.go:116-117` says the poll retries the closes until one lands.
  `OnlyReplacedClosesAreLost` shows that this is the only way to lose one.
* `CancelWrites` (`RunControl`): a run that finishes between `Cancel`'s read and its
  write makes it return nil without an effect, where `control.go:44-45` says that "a
  cancel that changed nothing is never mistaken for one that did".  What nil does say,
  `AnswersAreTrue` checks: the run was final when it was returned.
* `ReadsReason` (`RunControl`): the State and the Err of a `RunStatus` come from two queries
  and may never have been true together: a dead-lettered run that is resumed and fails in
  between reads as `retries_exceeded` with the error of its last execution, and a failed run
  deleted in between has the placeholder for its Err.
* `RetentionDeletes` (`RunControl`): retention goes by the run's state and not by execution
  rows, so a cancelled run whose stage outlives the retention age is deleted under
  that stage; and it deletes by the IDs it listed, so a run resumed, or submitted again,
  since then goes too (`overtaken`).  `workerpool.go:1001` says of the deletion of the
  rows "The runs are gone, so nothing asks about their executions".
* `StartContexts` beside a Close (`AppLifecycle`): a Close while Launch is past
  `dbos.Launch` may find the cancel functions still nil.  It then waits on loops that
  nobody cancelled, against `app.go:282-284`, or closes the pools and returns with a
  heartbeat that `start` launches behind it.  `QuietAfterClose` and `CallsReturn` name
  the exception (`overlapped`).
* `Claim` beside a Close (`AppLifecycle`): the claim may land behind the tombstone of a
  Close, and the process then dies with a lease that has to go stale.
* `ShutdownTimesOut` (`AppLifecycle`): a second Close with a shorter timeout writes the
  tombstone while the first still waits for a stage.
* The hook of `WithStaleRunWarning` runs on the maintenance goroutine
  (`workerpool.go:846`): one that calls `Close` waits for itself.  It is the user's code
  and in no module.
* The environment `"window"` (`WorkerPool`): a run cancelled between its dequeue and
  its first start has `recovery_attempts = 0` and is resumable; whether two
  processes then start it rests on what DBOS does with the first dequeue, which is
  not in this repository (`executions.go:383-386` calls the window benign for
  settledness).  `Resume` has `resumeSQL`'s guard alone under `"window"`, which
  `wp_live` enables; elsewhere it asks as well that no process holds the run.
* `LeaseAges` between `PruneRows` and `PruneLeases` (`WorkerPool`): the two
  statements take their own `now()`, so a lease that crosses the horizon between
  them goes before its rows, which `workerpool.go:794-795` sets out to prevent.
  Such rows count for no answer.
* `CutShort` (`Parallel`): it fires the failure signal, so steps in flight may
  record the marker although no sibling failed.  If the process then dies before
  the run's outcome is recorded, the replay finds markers only and fails with one,
  where `duro.go:258-261` promises the first genuine failure.
  `OneGenuineVerdict` names the exception.  Whether such a marker is ever
  recorded depends on what still works when the execution was cut short.

One more exception is named in its property.  `BackstopCancels` excepts a
watcher that gave up: one failed read of the statuses ends it as a failed run
(`fanout.go:638`), and from then on only the parent cancels, which `StageEnds`
covers.

## What is proved

Each proof module has one inductive invariant, `IInv`, a conjunction of named links,
one lemma per link or per action that shows it is kept, and the properties as
consequences.  It is defined in the module it is about, and the passing run of that
module checks it on its instance; properties that are literally conjuncts of it
(`TypeOK`, `OpenRowMeansHeld`, `PendingHasLease`, `LeaseGuardsStages`,
`Parallel.NoStepOutlives`) are checked as part of it.  `Replay` is the exception: its
`IInv` and its `Truthful` are defined in `ReplayProofs`, and the run checks the properties
they imply.  `IInv` speaks of every history that the records allow, which TLC cannot
enumerate.
The second half of `WorkerPoolProofs` has an invariant for each of its theorems.

`WorkerPoolProofs`, for every set of processes, executor IDs, runs and queues and
every assignment of them:

* `TypeCorrect`: `Spec => []TypeOK`, in any environment;
* under `Env \cap Hazards = {}` (crashes, closes, cancels and resumes at any
  point, with no late beat, slow close, repeated start, resume in the window or
  two live processes on one ID): `InductiveInvariant`, `Exclusive`,
  `SettledIsIdle`, `OpenRowIsHeld` and `PendingStaysAdoptable`.

The assumption is what the code's own comments ask of a deployment, plus two
hazards described above: a slow close and a repeated start (`wp_start_existing`)
let a survivor adopt a run that is executing.

None of the safety properties is inductive.  That no two processes execute a run
depends on takeover only reaching runs nobody holds, which depends on every
holder being the run's `executor_id`, which depends on the holder's lease being
fresh, which depends on it being the only live process on its ID.  `IInv` names
those links: `LiveDistinct` and `LeaseHeld` (leases speak for live processes),
`HoldersUp` and `HolderOwns` (holders beat, and a PENDING run names its holder),
`OneHolder`, `RowsMatch` (an open row of a live executor is one of its bodies) and
`PendingHasLease`.  One lemma per link shows that every action keeps it given
those before it (`LeasesPreserved`, `HoldersPreserved`, `RowsPreserved`,
`AdoptablePreserved`), with one step per action.

The second half of `WorkerPoolProofs`, each theorem under as little as it needs:

* `HolderIsFresh`: no process whose beats do not land.  Overlapping processes on one
  executor ID are allowed: that is what the nonce is for.
* `PoisonRunParked`: finitely many processes and no Resume, any hazard allowed.
  `Budgeted` is the invariant: the deaths inside a stage and the executions that
  may still die were all counted in `recovery_attempts`, and counted within the
  budget.  `BudgetStep` lists the four things a step may do to the sum.
* `QueueLimits`: finitely many runs, crashes and closes only.  The runs with a stage
  running are among the PENDING ones of the queue (`HeldIsOpen`, `QueueKept`), which
  only a dequeue adds to, and it counts them first (`WithinLimits`).  A cancel breaks
  it, since DBOS stops counting a cancelled run whose stage still runs.
* `FleetImplementsLifecycle`: no hazards.  `StepLifecycle` takes each action to a step
  of `RunLifecycle` or a stutter of it, from `IInv` and `HeldIsOpen`: a run is in the
  hands of one process (`HolderIs`), a dequeue, a recovery and a takeover find it in
  nobody's.  `LiveRunsStay` is a corollary.
* `TrackedSettles`: any environment, repeated starts and restarts included.  A run
  whose start was counted has an execution that is entered, or a row, or is in `lost`
  (`StartsTraced`): between the count and the row it is entered, and each action that
  ends an entered execution or deletes rows puts the run into `lost`.

`AppLifecycleProofs`, for any number of goroutines, calls and modes:
`InductiveInvariant`, `CloseLeavesQuiet`, `StagesAreLeased`, `TombstoneIsLast`.  That
a Close leaves nothing behind rests on what each of its statements has made sure of
for the ones after it: `ShutdownFirst` (past `dbos.Shutdown`, DBOS has stopped for
good), `AdminOnceOnly` and `CloseOnceOnly` (one goroutine inside each Once, and what
it guards is shut when it is done), `LoopsStopped` (a loop that a Close waited for is
gone, unless a Launch beside it started it), and `ModeParts`, since each mode leaves
statements out.  `LeaseHeld` orders claim, launch, tombstone.  It rests on one assumption about
DBOS: `dbos.Launch` fails on a context that is being shut down.

`ExecutionTrackerProofs`, for any set of runs and any bound on tokens:
`TrackerInvariant`, `BodiesAreSeen`, `InterruptsAreMeant`, `ClosesAreKept`.  A body's
row stays open because closes go by token (`ClosesAreOld`: a queued or copied close
names an execution that ended), and an interrupt hits the execution the poll read
because tokens are never issued twice (`TokensIssued`, `CancelsWereSeen`).

`RunControlProofs`, for any number of callers and any bounds: `ControlInvariant`,
`StopsAreUndoneOnce`, `StagesAreSpared`, `LiveRunsAreSpared`, `CallsTellTheTruth`.
`StopsCounted` (a stopped run has a stop in hand) carries the first, `StagesCounted`
(a stage in flight has been counted, in a run that is pending or cancelled) the
second, `ListedStays` the third and `ReadsWereSeen` the last.

`ParallelProofs`, for every source, limit and number of crashes: `StageInvariant`,
`VerdictsAgree`, `SerialStops`.  The verdict is the failure of the least item that
has a genuine one; that replays agree on it rests on `VerdictStands` (the verdict was
chosen from records, which only grow where they cannot change it) and `SignalsMeant`
(nobody is interrupted without a failure that is recorded, or will be).  `MinIsLeast`
and `VerdictOfRecords` are about the choice itself.

`FanOutProofs`, for every batch and any number of crashes, whatever fails, is cancelled
from outside or deleted: `StageInvariant`, `VerdictIsGenuine`.  Executions agree because
a verdict is read from final children, one after the other, whose statuses then only go
to deleted (`VerdictsStand`, and what an unfinished collection has read still stands);
a deleted child and a failed read are no verdict but `"infra"`, of which nothing is
claimed.  A cancellation is genuine because every cancelled child traces back to one
from outside or to a failure, which a later read finds (`CancelHasCause`).
`StepStatuses`, `StepCancels` and `StepVerdicts` say what one step may do; the invariant
follows from these three.

`ReplayProofs`, for every set of pipelines (`WellFormed`: trees, with a stage in every
pipe and the arms its kind needs in every stage), any number of crashes and forks, and whatever is
halted, cancelled or redeployed:

* Replay is deterministic: `ReplayTypes`, `ReplaysItself`, `RecoversOutcome`,
  `SidesEndFirst`.  `Reaches(p, recs, limit, tasks, id)` says that an execution that takes
  its answers from `recs` comes to the agenda `tasks` before step `id`.  It asks for a
  history, one agenda per turn, in place of a recursive definition, whose induction the
  provers cannot do.  Two histories from one set of records agree turn for turn (at the
  first one where they did not, `Deterministic`), so they stop at one agenda (`Unique`), and
  more records do not divert one (`Carries`).  The links of `IInv` then say that an undisturbed
  execution is where the records lead (`Replayed`), and that every record and every outcome
  is one they lead to (`Explained`, `Concluded`).  A side step of Alongside takes its ID
  when it is launched and answers at any later time, and a crash may lose it while later
  steps have records: that is what `limit` is for.
* Failures: `TellsTheTruth`, `NamesTheCause`, `StepsCleanly`, `FailsFast`.  The agenda of
  an execution that runs is `Honest`.  It is `Neat`: pipes end in the order they nest
  (`OneEach`, `Sorted`, `Bracketed`), nothing is left for stages behind one that failed
  (`Stopping`; a Via that failed may still run its pipe, and what comes of it is dropped), failures have a stage (`Blamed`), and an item leaves its pipe only through
  the arm of a Switch (`Passing`).  And it is `Candid`: a raised flag and an aborted pipe
  have a failure that explains them (`AbortsMeant`, `AbortedBehind`), and a failure raises
  the flag (`FailuresAbort`) unless it is a Loop's that gave up.  So a handler of a Rescue
  is never told of an abort, and a step is taken behind no failure but such a Loop's.
  `FailsFast` has the hypothesis that no Loop is bounded: with one the property is
  false, as `rp_loop_bound` shows.  `StepsCleanly` (`FailFastButLoops`) has none.

Only model-checked: liveness, in every module (`RunsFinish`, `TerminalSettles`,
`EndedRowCloses`, `CancelReachesBody`, `CallsReturn`, `BackstopCancels`, `StageEnds`,
`RunEnds`): the prover has no `ENABLED`.

## What is left out

* Application versions and names: one application, one version.  Takeover's
  predicates on both only make it adopt less.
* A `Send` whose `fn` fails (`signals.go:48-52`): a pure function of the item, which
  records nothing and takes no step ID; the model has it fail as a recorded step.
* Thresholds that differ between processes of a fleet (`workerpool.go:720` judges
  every lease by the sweeper's own) and the stale-run warning, which counts and logs.
* In `RunControl`: the age of runs (a final run may be as old as retention asks), the
  batch of 100, and an execution that its run's deletion leaves behind.
* The filters and paging of `ListRuns`, `Steps`, `Attach`: single reads.
* A `Resume` of a child while its parent awaits it; grandchildren.
* `Pure` and `UnsafeOperator`, and with them the goroutine guard: only an operator
  of the user's can leave the goroutine.  The steps of `Parallel` and `FanOut` as
  stages of `Replay`: each has a module of its own.
* In `Replay`: a deployment that changes a function or a Loop's bound under the same
  shape (the guard compares kinds and names); a step that a cancellation interrupts
  is one that returned an error before it (`executions.go:152-160`).
* Construction-time code, typed wrappers of DBOS, reads: no state of their own.

## Plan

1. `WorkerPool`, `ExecutionTracker`, `RunControl` with `RunLifecycle` as the
   abstract specification of a run: done, with the safety core proved.
2. `FanOut`: done; it stands alone, its children are runs as `WorkerPool` has them.
3. `Parallel`: done; one stage by itself.
4. `Stages` and `Replay` over `duro.go`, `run.go`, `flow.go`, `signals.go`, `fork.go`:
   done.
5. `AppLifecycle`, and retention and status reads in `RunControl`: done.  Mixed
   thresholds in `WorkerPool` are next.
6. Theorems: every safety property of a passing run is a theorem, and so is the
   refinement of `RunLifecycle`.  Next: an abstract specification of a pipeline that never
   crashes, which `Replay` implements (`Reaches` is most of its refinement mapping); and
   what a fair `Replay` needs for its run to end, as far as it is a safety property.
