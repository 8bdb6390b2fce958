----------------------------- MODULE AppLifecycle -----------------------------
(***************************************************************************)
(* One App in its process (app.go, workerpool.go 476-604, 1012-1041):      *)
(* New, then goroutines that call Launch, Close and Resume in any order    *)
(* and at the same time, and the loops that Launch starts and Close stops. *)
(* A step is a statement that another goroutine can notice.                *)
(***************************************************************************)
EXTENDS Integers

CONSTANTS
    Callers,        \* goroutines that call the App's methods
    Modes,          \* see AllModes
    MaxCalls        \* bound: MaxCalls[k] calls of kind k in all

\* No option; WithRetention or WithStaleRunWarning alone; WithWorkerPool.
AllModes == {"plain", "housekeeping", "pool"}
Kinds == {"launch", "close", "resume"}

ASSUME LifecycleAssumption ==
    /\ Modes \subseteq AllModes
    /\ MaxCalls \in [Kinds -> Nat]

VARIABLES
    mode,
    built,          \* how far New is
    pc,             \* pc[c]: the next statement of c's call
    launchStarted,
    dbos,           \* the DBOS context
    stage,          \* a workflow executes in this process
    lease,          \* this process's lease row
    ctx,            \* beatCtx and maintCtx, with their cancel functions
    loop,           \* the goroutines start launches
    pool,           \* the worker pool's connection pools
    admin,          \* adminOnce and the admin pool
    closeOnce,
    calls,          \* how many calls of each kind began
    closed,         \* history: a Close returned
    timedOut,       \* history: dbos.Shutdown gave up on a workflow
    overlapped      \* history: Launch started loops, or claimed the lease,
                    \* beside a Close or behind one

newVars  == <<mode, built>>
dbosVars == <<dbos, stage, timedOut>>
beatVars == <<lease, ctx, loop>>
openVars == <<pool, admin, closeOnce>>
vars == <<newVars, pc, launchStarted, dbosVars, beatVars, openVars, calls,
          closed, overlapped>>

LaunchPlaces == {"claim", "orphans", "launch", "schedules", "contexts",
                 "goBeat", "goPoll", "goMaint"}
ClosePlaces == {"stopMaint", "waitMaint", "shutdown", "waitDBOS", "refuse",
                "closeAdmin", "once", "stopBeat", "waitBeat", "tombstone",
                "closePools"}
ResumePlaces == {"once.admin", "opening", "statement"}
Loops == {"beat", "poll", "maint"}
Scope(x) == IF x = "beat" THEN "beat" ELSE "maint"

\* The type invariant.
TypeOK ==
    /\ mode \in AllModes
    /\ built \in {"context", "watcher", "pool", "tables", "ready", "failed"}
    /\ pc \in [Callers -> {"idle"} \cup LaunchPlaces \cup ClosePlaces
                          \cup ResumePlaces]
    /\ launchStarted \in BOOLEAN
    /\ dbos \in {"none", "ready", "running", "stopping", "down"}
    /\ stage \in BOOLEAN
    /\ lease \in {"absent", "live", "tombstoned"}
    /\ ctx \in [{"beat", "maint"} -> {"nil", "live", "cancelled"}]
    /\ loop \in [Loops -> {"none", "waiting", "working"}]
    /\ pool \in {"none", "open", "closed"}
    /\ admin \in {"none", "opening", "open", "refused", "closed"}
    /\ closeOnce \in {"todo", "doing", "done"}
    /\ calls \in [Kinds -> Nat]
    /\ closed \in BOOLEAN /\ timedOut \in BOOLEAN /\ overlapped \in BOOLEAN

Init ==
    /\ mode \in Modes
    /\ built = "context"
    /\ pc = [c \in Callers |-> "idle"]
    /\ launchStarted = FALSE
    /\ dbos = "none" /\ stage = FALSE /\ lease = "absent"
    /\ ctx = [s \in {"beat", "maint"} |-> "nil"]
    /\ loop = [x \in Loops |-> "none"]
    /\ pool = "none" /\ admin = "none" /\ closeOnce = "todo"
    /\ calls = [k \in Kinds |-> 0]
    /\ closed = FALSE /\ timedOut = FALSE /\ overlapped = FALSE

At(c, place) == pc[c] = place
Goes(c, place) == pc' = [pc EXCEPT ![c] = place]

\* A call begins once New has returned the App.
Calls(c, k, first) ==
    /\ built = "ready" /\ At(c, "idle")
    /\ calls[k] < MaxCalls[k]
    /\ calls' = [calls EXCEPT ![k] = @ + 1]
    /\ Goes(c, first)

Closing == closed \/ \E c \in Callers : pc[c] \in ClosePlaces
\* Where Close begins: without a worker pool there is no maintenance to stop.
CloseEntry == IF mode = "plain" THEN "shutdown" ELSE "stopMaint"

-----------------------------------------------------------------------------
(* New.                                                                    *)

NewFrame ==
    UNCHANGED <<mode, pc, launchStarted, stage, timedOut, beatVars, admin,
                closeOnce, calls, closed, overlapped>>

ContextCreated ==
    /\ built = "context" /\ built' = "watcher"
    /\ dbos' = "ready"
    /\ UNCHANGED pool /\ NewFrame

WatcherRegistered ==
    /\ built = "watcher"
    /\ built' = IF mode = "plain" THEN "ready" ELSE "pool"
    /\ UNCHANGED <<dbos, pool>> /\ NewFrame

PoolOpened ==
    /\ built = "pool"
    /\ built' = IF mode = "pool" THEN "tables" ELSE "ready"
    /\ pool' = "open"
    /\ UNCHANGED dbos /\ NewFrame

TablesEnsured ==
    /\ built = "tables" /\ built' = "ready"
    /\ UNCHANGED <<dbos, pool>> /\ NewFrame

\* Mutant: a failing New leaves the pool to the garbage collector.
NewFailsOpen ==
    /\ built \notin {"ready", "failed"} /\ built' = "failed"
    /\ dbos' = IF dbos = "none" THEN "none" ELSE "down"
    /\ UNCHANGED pool /\ NewFrame

\* Each failure undoes what the earlier steps opened.
NewFails ==
    /\ built \notin {"ready", "failed"} /\ built' = "failed"
    /\ dbos' = IF dbos = "none" THEN "none" ELSE "down"
    /\ pool' = IF pool = "open" THEN "closed" ELSE pool
    /\ NewFrame

-----------------------------------------------------------------------------
(* Launch.                                                                 *)

LaunchFrame == UNCHANGED <<newVars, stage, timedOut, openVars, closed>>

\* Mutant: the first beat is left to the ticker.
LaunchUnbeaten(c) ==
    /\ Calls(c, "launch", IF launchStarted THEN "idle" ELSE "launch")
    /\ launchStarted' = TRUE
    /\ UNCHANGED <<dbos, beatVars, overlapped>> /\ LaunchFrame

\* The first call swaps launchStarted; any other returns an error.
LaunchCalled(c) ==
    /\ Calls(c, "launch",
             IF launchStarted THEN "idle"
             ELSE IF mode = "pool" THEN "claim" ELSE "launch")
    /\ launchStarted' = TRUE
    /\ UNCHANGED <<dbos, beatVars, overlapped>> /\ LaunchFrame

\* firstBeat: the claim, which needs an open pool.
Claim(c) ==
    /\ At(c, "claim") /\ Goes(c, "orphans")
    /\ pool = "open"
    /\ lease' = "live"
    /\ overlapped' = (overlapped \/ closeOnce # "todo")
    /\ UNCHANGED <<launchStarted, dbos, ctx, loop, calls>> /\ LaunchFrame

OrphansClosed(c) ==
    /\ At(c, "orphans") /\ Goes(c, "launch")
    /\ pool = "open"
    /\ UNCHANGED <<launchStarted, dbos, beatVars, calls, overlapped>>
    /\ LaunchFrame

\* Either statement failed: Launch returns, and may be called again.
FirstBeatFails(c) ==
    /\ pc[c] \in {"claim", "orphans"} /\ Goes(c, "idle")
    /\ launchStarted' = FALSE
    /\ UNCHANGED <<dbos, beatVars, calls, overlapped>> /\ LaunchFrame

\* dbos.Launch; a context that is being shut down does not launch.
DBOSLaunches(c) ==
    /\ At(c, "launch") /\ Goes(c, "schedules")
    /\ dbos = "ready" /\ dbos' = "running"
    /\ UNCHANGED <<launchStarted, beatVars, calls, overlapped>> /\ LaunchFrame

\* A failed launch has shut its own context down; the rest is Close's.
DBOSLaunchFails(c) ==
    /\ At(c, "launch") /\ Goes(c, CloseEntry)
    /\ dbos' = IF dbos = "ready" THEN "down" ELSE dbos
    /\ UNCHANGED <<launchStarted, beatVars, calls, overlapped>> /\ LaunchFrame

SchedulesApplied(c) ==
    /\ At(c, "schedules")
    /\ Goes(c, IF mode = "plain" THEN "idle" ELSE "contexts")
    /\ UNCHANGED <<launchStarted, dbos, beatVars, calls, overlapped>>
    /\ LaunchFrame

SchedulesFail(c) ==
    /\ At(c, "schedules") /\ Goes(c, CloseEntry)
    /\ UNCHANGED <<launchStarted, dbos, beatVars, calls, overlapped>>
    /\ LaunchFrame

\* workerPool.start: the contexts, then one goroutine after the other.
StartContexts(c) ==
    /\ At(c, "contexts")
    /\ Goes(c, IF mode = "pool" THEN "goBeat" ELSE "goMaint")
    /\ ctx' = [s \in {"beat", "maint"} |-> "live"]
    /\ overlapped' = (overlapped \/ Closing)
    /\ UNCHANGED <<launchStarted, dbos, lease, loop, calls>> /\ LaunchFrame

StartsLoop(c, x) ==
    /\ loop' = [loop EXCEPT ![x] = "waiting"]
    /\ overlapped' = (overlapped \/ Closing)
    /\ UNCHANGED <<launchStarted, dbos, lease, ctx, calls>> /\ LaunchFrame

StartBeat(c)  == At(c, "goBeat") /\ Goes(c, "goPoll") /\ StartsLoop(c, "beat")
StartPoll(c)  == At(c, "goPoll") /\ Goes(c, "goMaint") /\ StartsLoop(c, "poll")
StartMaint(c) == At(c, "goMaint") /\ Goes(c, "idle") /\ StartsLoop(c, "maint")

LaunchStep(c) ==
    \/ LaunchCalled(c) \/ Claim(c) \/ OrphansClosed(c) \/ FirstBeatFails(c)
    \/ DBOSLaunches(c) \/ DBOSLaunchFails(c)
    \/ SchedulesApplied(c) \/ SchedulesFail(c)
    \/ StartContexts(c) \/ StartBeat(c) \/ StartPoll(c) \/ StartMaint(c)

-----------------------------------------------------------------------------
(* The loops of start, and the workflows.                                  *)

LoopFrame ==
    UNCHANGED <<newVars, pc, launchStarted, dbosVars, ctx, openVars, calls,
                closed, overlapped>>

\* A tick; select may choose it over a context that is done.
Ticks(x) ==
    /\ loop[x] = "waiting" /\ loop' = [loop EXCEPT ![x] = "working"]
    /\ UNCHANGED lease /\ LoopFrame

\* The work of a tick ends; a beat has refreshed the lease, or failed.
WorkEnds(x) ==
    /\ loop[x] = "working" /\ loop' = [loop EXCEPT ![x] = "waiting"]
    /\ \/ x = "beat" /\ pool = "open" /\ lease' = "live"
       \/ UNCHANGED lease
    /\ LoopFrame

LoopEnds(x) ==
    /\ loop[x] = "waiting" /\ ctx[Scope(x)] = "cancelled"
    /\ loop' = [loop EXCEPT ![x] = "none"]
    /\ UNCHANGED lease /\ LoopFrame

StageFrame ==
    UNCHANGED <<newVars, pc, launchStarted, dbos, timedOut, beatVars, openVars,
                calls, closed, overlapped>>

StageStarts == dbos = "running" /\ ~stage /\ stage' = TRUE /\ StageFrame
StageEnds == stage /\ stage' = FALSE /\ StageFrame

-----------------------------------------------------------------------------
(* Close.                                                                  *)

CloseFrame ==
    UNCHANGED <<newVars, launchStarted, stage, loop, calls, overlapped>>

CloseCalled(c) ==
    /\ Calls(c, "close", CloseEntry)
    /\ UNCHANGED <<newVars, launchStarted, dbosVars, beatVars, openVars,
                   closed, overlapped>>

\* Mutant: the loops are not told to stop.
MaintenanceKept(c) ==
    /\ At(c, "stopMaint") /\ Goes(c, "waitMaint")
    /\ UNCHANGED <<ctx, dbos, timedOut, lease, openVars, closed>>
    /\ CloseFrame

Cancelled(s) == IF ctx[s] = "live" THEN [ctx EXCEPT ![s] = "cancelled"] ELSE ctx

\* stopMaintenance: cancel if start has set the functions, then wait.
StopMaintenance(c) ==
    /\ At(c, "stopMaint") /\ Goes(c, "waitMaint")
    /\ ctx' = Cancelled("maint")
    /\ UNCHANGED <<dbos, timedOut, lease, openVars, closed>> /\ CloseFrame

MaintenanceStopped(c) ==
    /\ At(c, "waitMaint") /\ Goes(c, "shutdown")
    /\ loop["poll"] = "none" /\ loop["maint"] = "none"
    /\ UNCHANGED <<dbos, timedOut, lease, ctx, openVars, closed>> /\ CloseFrame

\* dbos.Shutdown cancels the root context: no dequeue from here on.
ShutdownBegins(c) ==
    /\ At(c, "shutdown") /\ Goes(c, "waitDBOS")
    /\ dbos' = IF dbos \in {"ready", "running"} THEN "stopping" ELSE dbos
    /\ UNCHANGED <<timedOut, lease, ctx, openVars, closed>> /\ CloseFrame

ShutdownReturns(c) ==
    /\ At(c, "waitDBOS") /\ Goes(c, "refuse")
    /\ ~stage
    /\ dbos' = "down"
    /\ UNCHANGED <<timedOut, lease, ctx, openVars, closed>> /\ CloseFrame

\* The timeout passed in one of DBOS's stages.
ShutdownTimesOut(c) ==
    /\ At(c, "waitDBOS") /\ Goes(c, "refuse")
    /\ timedOut' = (timedOut \/ stage)
    /\ UNCHANGED <<dbos, lease, ctx, openVars, closed>> /\ CloseFrame

\* Mutant: Close does not use up adminOnce.
AdminLeftUsable(c) ==
    /\ At(c, "refuse") /\ Goes(c, "closeAdmin")
    /\ UNCHANGED <<dbos, timedOut, lease, ctx, openVars, closed>> /\ CloseFrame

\* adminOnce: Close's Do waits for one in progress.
RefuseAdmin(c) ==
    /\ At(c, "refuse") /\ Goes(c, "closeAdmin")
    /\ admin # "opening"
    /\ admin' = IF admin = "none" THEN "refused" ELSE admin
    /\ UNCHANGED <<dbos, timedOut, lease, ctx, pool, closeOnce, closed>>
    /\ CloseFrame

InStatement == \E c \in Callers : pc[c] = "statement"

\* Closing a pgx pool waits for the connections in use.  Without a worker
\* pool this is the end of Close.
CloseAdmin(c) ==
    /\ At(c, "closeAdmin")
    /\ Goes(c, IF mode = "plain" THEN "idle" ELSE "once")
    /\ admin = "open" => ~InStatement
    /\ admin' = IF admin = "open" THEN "closed" ELSE admin
    /\ closed' = (closed \/ mode = "plain")
    /\ UNCHANGED <<dbos, timedOut, lease, ctx, pool, closeOnce>> /\ CloseFrame

\* closeOnce: one Close does the rest, the others wait for it and return.
EnterOnce(c) ==
    /\ At(c, "once") /\ closeOnce = "todo" /\ Goes(c, "stopBeat")
    /\ closeOnce' = "doing"
    /\ UNCHANGED <<dbos, timedOut, lease, ctx, pool, admin, closed>>
    /\ CloseFrame

PassOnce(c) ==
    /\ At(c, "once") /\ closeOnce = "done" /\ Goes(c, "idle")
    /\ closed' = TRUE
    /\ UNCHANGED <<dbos, timedOut, lease, ctx, openVars>> /\ CloseFrame

StopBeat(c) ==
    /\ At(c, "stopBeat") /\ Goes(c, "waitBeat")
    /\ ctx' = Cancelled("beat")
    /\ UNCHANGED <<dbos, timedOut, lease, openVars, closed>> /\ CloseFrame

\* Mutant: the heartbeat is told to stop and not waited for.
BeatNotAwaited(c) ==
    /\ At(c, "waitBeat")
    /\ Goes(c, IF mode = "pool" THEN "tombstone" ELSE "closePools")
    /\ UNCHANGED <<dbos, timedOut, lease, ctx, openVars, closed>> /\ CloseFrame

BeatStopped(c) ==
    /\ At(c, "waitBeat")
    /\ Goes(c, IF mode = "pool" THEN "tombstone" ELSE "closePools")
    /\ loop["beat"] = "none"
    /\ UNCHANGED <<dbos, timedOut, lease, ctx, openVars, closed>> /\ CloseFrame

\* The tombstone marks the row there is; when it fails, that is only logged.
Tombstone(c) ==
    /\ At(c, "tombstone") /\ Goes(c, "closePools")
    /\ \/ lease' = IF lease = "live" THEN "tombstoned" ELSE lease
       \/ UNCHANGED lease
    /\ UNCHANGED <<dbos, timedOut, ctx, openVars, closed>> /\ CloseFrame

ClosePools(c) ==
    /\ At(c, "closePools") /\ Goes(c, "idle")
    /\ ~InStatement /\ \A x \in Loops : loop[x] # "working"
    /\ pool' = "closed" /\ closeOnce' = "done" /\ closed' = TRUE
    /\ UNCHANGED <<dbos, timedOut, lease, ctx, admin>> /\ CloseFrame

CloseStep(c) ==
    \/ CloseCalled(c) \/ StopMaintenance(c) \/ MaintenanceStopped(c)
    \/ ShutdownBegins(c) \/ ShutdownReturns(c) \/ ShutdownTimesOut(c)
    \/ RefuseAdmin(c) \/ CloseAdmin(c) \/ EnterOnce(c) \/ PassOnce(c)
    \/ StopBeat(c) \/ BeatStopped(c) \/ Tombstone(c) \/ ClosePools(c)

-----------------------------------------------------------------------------
(* Resume's connection (sqlExec).                                          *)

ResumeFrame ==
    UNCHANGED <<newVars, launchStarted, dbosVars, beatVars, pool, closeOnce,
                closed, overlapped>>

\* The worker pool's pool serves if there is one, and fails once closed.
ResumeCalled(c) ==
    /\ Calls(c, "resume", IF mode = "plain" THEN "once.admin"
                          ELSE IF pool = "open" THEN "statement" ELSE "idle")
    /\ UNCHANGED admin /\ ResumeFrame

\* adminOnce: the first caller opens the pool, the others wait for it.
AdminOnce(c) ==
    /\ At(c, "once.admin") /\ admin # "opening"
    /\ Goes(c, CASE admin = "none" -> "opening"
                 [] admin = "open" -> "statement"
                 [] OTHER          -> "idle")
    /\ admin' = IF admin = "none" THEN "opening" ELSE admin
    /\ UNCHANGED calls /\ ResumeFrame

AdminOpens(c) ==
    /\ At(c, "opening")
    /\ \/ admin' = "open" /\ Goes(c, "statement")
       \/ admin' = "refused" /\ Goes(c, "idle")
    /\ UNCHANGED calls /\ ResumeFrame

ResumeReturns(c) ==
    /\ At(c, "statement") /\ Goes(c, "idle")
    /\ UNCHANGED <<admin, calls>> /\ ResumeFrame

ResumeStep(c) ==
    ResumeCalled(c) \/ AdminOnce(c) \/ AdminOpens(c) \/ ResumeReturns(c)

-----------------------------------------------------------------------------

NewStep ==
    \/ ContextCreated \/ WatcherRegistered \/ PoolOpened \/ TablesEnsured
    \/ NewFails
LoopStep(x) == Ticks(x) \/ WorkEnds(x) \/ LoopEnds(x)

Next ==
    \/ NewStep
    \/ \E c \in Callers : LaunchStep(c) \/ CloseStep(c) \/ ResumeStep(c)
    \/ \E x \in Loops : LoopStep(x)
    \/ StageStarts \/ StageEnds

Spec == Init /\ [][Next]_vars

\* A call in progress goes on (every statement has a timeout), a tick's work
\* ends, and a loop whose context is done leaves its select (strongly fair:
\* select chooses at random, a tick now and then).  Calls begin, stages end
\* and New goes on as they like.
Proceeds(c) == ~At(c, "idle") /\ (LaunchStep(c) \/ CloseStep(c) \/ ResumeStep(c))
Fairness ==
    /\ \A c \in Callers : WF_vars(Proceeds(c))
    /\ \A x \in Loops : WF_vars(WorkEnds(x)) /\ SF_vars(LoopEnds(x))
FairSpec == Spec /\ Fairness

-----------------------------------------------------------------------------
(* The inductive invariant behind the safety properties.                   *)

OncePlaces == {"stopBeat", "waitBeat", "tombstone", "closePools"}
AfterRefuse == {"closeAdmin", "once"} \cup OncePlaces
AfterAdmin == {"once"} \cup OncePlaces
AfterDBOS == {"refuse"} \cup AfterRefuse
AfterMaint == {"shutdown", "waitDBOS"} \cup AfterDBOS
StartPlaces == {"contexts", "goBeat", "goPoll", "goMaint"}

\* Nothing happens before New has returned.
NewFirst ==
    built # "ready" =>
        /\ \A c \in Callers : At(c, "idle")
        /\ ~closed /\ ~stage /\ admin = "none" /\ closeOnce = "todo"
        /\ lease = "absent" /\ \A x \in Loops : loop[x] = "none"
        /\ built = "context" => dbos = "none"
        /\ built \in {"watcher", "pool", "tables"} => dbos = "ready"
        /\ built \in {"pool", "tables"} => mode # "plain"
        /\ built = "tables" => pool = "open"
        /\ built = "failed" => dbos \in {"none", "down"} /\ pool # "open"

\* Each mode has its part of the machinery.
ModeParts ==
    /\ mode = "plain" =>
           /\ pool = "none" /\ closeOnce = "todo"
           /\ \A x \in Loops : loop[x] = "none"
           /\ \A c \in Callers :
                  pc[c] \notin {"claim", "orphans", "stopMaint", "waitMaint",
                               "once"} \cup StartPlaces \cup OncePlaces
    /\ mode # "pool" =>
           \A c \in Callers :
               pc[c] \notin {"claim", "orphans", "goBeat", "goPoll", "tombstone"}
    /\ pool = "none" /\ built = "ready" => mode = "plain"

\* Whoever is past dbos.Shutdown's first step finds DBOS stopping for good,
\* and past its return nothing executing unless it ran into the timeout.
ShutdownFirst ==
    /\ built = "ready" => dbos # "none"
    /\ closed \/ (\E c \in Callers : pc[c] \in {"waitDBOS"} \cup AfterDBOS) =>
           dbos \in {"stopping", "down"}
    /\ stage => dbos \in {"running", "stopping"}
    /\ stage /\ (closed \/ \E c \in Callers : pc[c] \in AfterDBOS) => timedOut

\* One caller opens the admin pool, none after Close has used up adminOnce.
AdminOnceOnly ==
    /\ \A c \in Callers : At(c, "opening") => admin = "opening"
    /\ \A c, d \in Callers : At(c, "opening") /\ At(d, "opening") => c = d
    /\ (\E c \in Callers : pc[c] \in AfterRefuse) =>
           admin \notin {"none", "opening"}
    /\ closed \/ (\E c \in Callers : pc[c] \in AfterAdmin) =>
           admin \in {"refused", "closed"}

\* One caller is inside closeOnce while it is being done.
CloseOnceOnly ==
    /\ \A c \in Callers : pc[c] \in OncePlaces => closeOnce = "doing"
    /\ \A c, d \in Callers :
           pc[c] \in OncePlaces /\ pc[d] \in OncePlaces => c = d
    /\ closeOnce = "doing" => \E c \in Callers : pc[c] \in OncePlaces
    /\ closeOnce = "done" => closed /\ pool = "closed"
    /\ closed /\ mode # "plain" => closeOnce = "done"

\* A loop a Close has waited for is gone, unless it was started beside it.
LoopsStopped ==
    ~overlapped =>
        /\ closed \/ (\E c \in Callers : pc[c] \in AfterMaint) =>
               loop["poll"] = "none" /\ loop["maint"] = "none"
        /\ closed \/ (\E c \in Callers : pc[c] \in {"tombstone", "closePools"}) =>
               loop["beat"] = "none"

\* "An executor must never be dequeuing while observably dead", and a lease is
\* given up under a running stage only by a Close that ran into its timeout
\* (app.go 231-233, 266-270).
LeaseGuardsStages ==
    mode = "pool" =>
        /\ dbos = "running" => lease = "live"
        /\ stage => lease = "live" \/ timedOut

\* The lease is claimed before DBOS launches and given up after it stopped.
LeaseHeld ==
    /\ lease = "tombstoned" => closeOnce # "todo"
    /\ lease = "tombstoned" /\ ~overlapped => loop["beat"] = "none"
    /\ mode = "pool" /\ dbos = "ready" =>
           \A c \in Callers : pc[c] \in {"orphans", "launch"} => lease = "live"
    /\ LeaseGuardsStages

IInv ==
    /\ TypeOK /\ NewFirst /\ ModeParts /\ ShutdownFirst
    /\ AdminOnceOnly /\ CloseOnceOnly /\ LoopsStopped /\ LeaseHeld

-----------------------------------------------------------------------------
(* Properties.                                                             *)

\* A Close that returned, and a New that failed, leave nothing running and
\* nothing open, however many calls of Close, Launch and Resume raced
\* (app.go 286-289, 298-302) -- except the loops of a Launch beside it.
QuietAfterClose ==
    closed \/ built = "failed" =>
        /\ dbos # "running"
        /\ pool # "open" /\ admin \notin {"opening", "open"}
        /\ overlapped \/ \A x \in Loops : loop[x] = "none"

\* No beat, however late, refreshes a lease behind its tombstone: a survivor
\* would wait out the stale threshold (app.go 269-270, 304-306).
TombstoneStands ==
    [][lease = "tombstoned" => lease' = "tombstoned" \/ overlapped']_vars

\* Every call returns: no Close waits for a loop, a Once or a pool in vain
\* (app.go 273-284, 286-292), unless a Launch starts its loops beside it.
CallsReturn ==
    \A c \in Callers : ~At(c, "idle") ~> (At(c, "idle") \/ overlapped)
===============================================================================
