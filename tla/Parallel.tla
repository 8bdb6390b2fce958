------------------------------ MODULE Parallel ------------------------------
(***************************************************************************)
(* One Parallel stage (parallel.go).  The workflow goroutine launches a    *)
(* step per item, waiting for a slot when concurrency is bounded, and      *)
(* drains every outcome before anything leaves the stage.  Each step has a *)
(* goroutine and a forwarder that fires the failure signal and frees the   *)
(* slot.  The process may crash until the run's outcome is recorded: the   *)
(* stage runs again, and recorded steps answer from their record.          *)
(***************************************************************************)
EXTENDS Integers, FiniteSets, FiniteSetsExt

CONSTANTS
    Sources,        \* what may come from upstream: [items, fails]
    Limits,         \* values of maxConcurrent; 0: unbounded
    MaxCrashes      \* crashes of the process

ASSUME ParallelAssumption ==
    /\ Sources \subseteq [items : Nat, fails : BOOLEAN]
    /\ Limits \subseteq Nat
    /\ MaxCrashes \in Nat

VARIABLES
    cancelSiblings, maxConcurrent,  \* the stage's options
    source,         \* the items and how they end, the same on replay
    main,           \* where the workflow goroutine is
    next,           \* the item it launches next
    slots,          \* tokens in the semaphore
    fired,          \* the failure signal
    step,           \* step[i]: the goroutine that executes item i
    forwarder,      \* forwarder[i]: where the forwarder of item i is
    outcome,        \* what the stage came to
    recorded,       \* recorded[i]: the checkpoint of item i
    crashes,
    verdicts,       \* history: what the drained outcomes ever came to
    cut             \* history: some execution was cut short

plan == <<cancelSiblings, maxConcurrent, source>>
goroutines == <<step, forwarder, recorded>>
history == <<crashes, verdicts, cut>>
vars == <<plan, main, next, slots, fired, outcome, goroutines, history>>

Items == 1..source.items
Bounded == maxConcurrent > 0
HasForwarder == Bounded \/ cancelSiblings
NoneOf == [i \in Items |-> "none"]

StepOutcomes == {"ok", "error", "mark"}
Result(kind, i) == [kind |-> kind, item |-> i]
Nothing == Result("none", 0)
Outcomes == [kind : {"none", "cut", "upstream", "success", "error", "mark"},
             item : {0} \cup Items]

Init ==
    /\ cancelSiblings \in BOOLEAN /\ maxConcurrent \in Limits /\ source \in Sources
    /\ main = "launch" /\ next = 1 /\ slots = 0 /\ fired = FALSE
    /\ step = NoneOf /\ forwarder = NoneOf /\ recorded = NoneOf
    /\ outcome = Nothing
    /\ crashes = 0 /\ verdicts = {} /\ cut = FALSE

\* A step whose outcome is on its channel "ran" or was "replayed".
Finished(i) == step[i] \in {"ran", "replayed"}
Delivered(i) == IF HasForwarder THEN forwarder[i] = "done" ELSE Finished(i)
Launched == 1..(next - 1)
Drained == \A i \in Launched : Delivered(i)

-----------------------------------------------------------------------------
(* The workflow goroutine. *)

SlotFree == Bounded => slots < maxConcurrent

\* Takes a slot and has DBOS start the step, or answer from its record.
Launch ==
    /\ main = "launch" /\ next \in Items /\ SlotFree
    /\ step' = [step EXCEPT ![next] =
           IF recorded[next] = "none" THEN "launched" ELSE "replayed"]
    /\ forwarder' = [forwarder EXCEPT ![next] = IF HasForwarder THEN "wait" ELSE @]
    /\ slots' = IF Bounded THEN slots + 1 ELSE slots
    /\ next' = next + 1
    /\ UNCHANGED <<plan, main, fired, outcome, recorded, history>>

\* Mutant: the error leaves the stage with steps in flight.
LeaveWith(result) ==
    main' = "ended" /\ outcome' = result /\ fired' = (fired \/ cancelSiblings)

\* drainLaunched: the signal stops what can be stopped, then every launched
\* step is waited for.
DrainWith(result) ==
    main' = "drain" /\ outcome' = result /\ fired' = (fired \/ cancelSiblings)

\* dbos.Go or the upstream, also behind its last item, fails with an error that
\* no step records: the database is gone, or the process is shutting down.
CutShort ==
    /\ main = "launch"
    /\ DrainWith(Result("cut", 0))
    /\ cut' = TRUE
    /\ UNCHANGED <<plan, next, slots, goroutines, crashes, verdicts>>

\* The source completes, or fails with an error that replays.
SourceEnds ==
    /\ main = "launch" /\ next \notin Items
    /\ IF source.fails THEN DrainWith(Result("upstream", 0))
       ELSE main' = "drain" /\ UNCHANGED <<outcome, fired>>
    /\ UNCHANGED <<plan, next, slots, goroutines, history>>

\* Mutant: a flag in memory tells cancellations, and replay has lost it.
IsMarkLive(i) == recorded[i] = "mark" /\ step[i] = "ran"

\* The marker is part of the recorded message.
IsMark(i) == recorded[i] = "mark"

\* firstParallelError: the first error in input order; with sibling
\* cancellation, the first that is not a manufactured one, if there is one.
Verdict ==
    LET failed == {i \in Items : recorded[i] # "ok"}
        genuine == {i \in failed : ~cancelSiblings \/ ~IsMark(i)}
    IN  CASE failed = {}  -> Result("success", 0)
          [] genuine # {} -> Result("error", Min(genuine))
          [] OTHER        -> Result("mark", Min(failed))

\* All outcomes are in; an error that started the drain stands.
DrainEnds ==
    /\ main = "drain" /\ Drained
    /\ main' = "ended"
    /\ IF outcome = Nothing
       THEN outcome' = Verdict /\ verdicts' = verdicts \cup {Verdict}
       ELSE UNCHANGED <<outcome, verdicts>>
    /\ UNCHANGED <<plan, next, slots, fired, goroutines, crashes, cut>>

\* DBOS records what the run made of the stage's outcome.
RunRecorded ==
    /\ main = "ended" /\ main' = "recorded"
    /\ UNCHANGED <<plan, next, slots, fired, outcome, goroutines, history>>

-----------------------------------------------------------------------------
(* The steps' goroutines and the forwarders. *)

\* A body that has not started skips fn once the signal has fired; fn may
\* honour its context after that, or not.
Body(i) ==
    /\ \/ /\ step[i] = "launched" /\ ~fired
          /\ step' = [step EXCEPT ![i] = "running"]
          /\ UNCHANGED recorded
       \/ /\ step[i] = "launched" /\ fired
          /\ step' = [step EXCEPT ![i] = "ran"]
          /\ recorded' = [recorded EXCEPT ![i] = "mark"]
       \/ /\ step[i] = "running"
          /\ step' = [step EXCEPT ![i] = "ran"]
          /\ \E result \in {"ok", "error"} \cup {r \in {"mark"} : fired} :
                recorded' = [recorded EXCEPT ![i] = result]
    /\ UNCHANGED <<plan, main, next, slots, fired, outcome, forwarder, history>>

\* Mutant: only the drain fires the signal.
FiresNever(i) == FALSE

Fires(i) == cancelSiblings /\ recorded[i] # "ok" /\ ~IsMark(i)

Receive(i) ==
    /\ forwarder[i] = "wait" /\ Finished(i)
    /\ fired' = (fired \/ Fires(i))
    /\ forwarder' = [forwarder EXCEPT ![i] = "send"]
    /\ UNCHANGED <<plan, main, next, slots, outcome, step, recorded, history>>

\* Mutant: a channel without a buffer.
RoomWhenDraining(i) == main = "drain"

\* The channel has room for the one outcome it carries.
Room(i) == forwarder[i] = "send"

\* Hands the outcome over and frees the slot.
Deliver(i) ==
    /\ forwarder[i] = "send" /\ Room(i)
    /\ slots' = IF Bounded THEN slots - 1 ELSE slots
    /\ forwarder' = [forwarder EXCEPT ![i] = "done"]
    /\ UNCHANGED <<plan, main, next, fired, outcome, step, recorded, history>>

-----------------------------------------------------------------------------
(* The process. *)

\* Memory is gone, records stay.
Crash ==
    /\ main \notin {"recorded", "down"} /\ crashes < MaxCrashes
    /\ main' = "down" /\ next' = 1 /\ slots' = 0 /\ fired' = FALSE
    /\ step' = NoneOf /\ forwarder' = NoneOf
    /\ outcome' = Nothing
    /\ crashes' = crashes + 1
    /\ UNCHANGED <<plan, recorded, verdicts, cut>>

\* A process runs the stage again.
Recover ==
    /\ main = "down" /\ main' = "launch"
    /\ UNCHANGED <<plan, next, slots, fired, outcome, goroutines, history>>

-----------------------------------------------------------------------------
Main == Launch \/ SourceEnds \/ DrainEnds \/ RunRecorded
Forwarder(i) == Receive(i) \/ Deliver(i)

Next ==
    \/ Main \/ CutShort \/ Crash \/ Recover
    \/ \E i \in Items : Body(i) \/ Forwarder(i)

Spec == Init /\ [][Next]_vars

\* Goroutines are scheduled, fn returns, and some process recovers the run.
FairSpec ==
    /\ Spec
    /\ WF_vars(Main) /\ WF_vars(Recover)
    /\ WF_vars(\E i \in Items : Body(i)) /\ WF_vars(\E i \in Items : Forwarder(i))

-----------------------------------------------------------------------------
\* The state keeps its types, the semaphore its capacity (parallel.go 42-57).
TypeOK ==
    /\ cancelSiblings \in BOOLEAN /\ maxConcurrent \in Limits /\ source \in Sources
    /\ main \in {"launch", "drain", "ended", "recorded", "down"}
    /\ next \in 1..(source.items + 1)
    /\ slots \in 0..maxConcurrent
    /\ fired \in BOOLEAN
    /\ step \in [Items -> {"none", "launched", "running", "ran", "replayed"}]
    /\ forwarder \in [Items -> {"none", "wait", "send", "done"}]
    /\ recorded \in [Items -> {"none"} \cup StepOutcomes]
    /\ outcome \in Outcomes /\ verdicts \subseteq Outcomes
    /\ crashes \in 0..MaxCrashes /\ cut \in BOOLEAN

\* No step outlives the workflow, on any path out of the stage: it would be
\* invisible to Unsettled and would checkpoint into a finished run (parallel.go
\* 62-67, 138-141).
NoStepOutlives ==
    main \in {"ended", "recorded"} => \A i \in Items : step[i] \notin {"launched", "running"}

\* Items are launched in order, and their goroutines and forwarders know what
\* they carry; a stage that ended was drained, or never launched a step.
Orderly ==
    /\ \A i \in Items : step[i] = "none" <=> i >= next
    /\ \A i \in Items : forwarder[i] = "none" <=> step[i] = "none" \/ ~HasForwarder
    /\ \A i \in Items : forwarder[i] \in {"send", "done"} => Finished(i)
    /\ \A i \in Items : step[i] \in {"launched", "running"} => recorded[i] = "none"
    /\ \A i \in Items : Finished(i) => recorded[i] # "none"
    /\ main = "drain" /\ outcome = Nothing => next > source.items /\ ~source.fails
    /\ main = "launch" => outcome = Nothing
    /\ main = "down" => next = 1 /\ slots = 0 /\ ~fired /\ outcome = Nothing

\* A slot is taken from an item's launch to the delivery of its outcome.
Holding == {i \in Items : forwarder[i] \in {"wait", "send"}}
SlotsCounted == slots = IF Bounded THEN Cardinality(Holding) ELSE 0

\* Once drained outcomes came to a verdict, every item has its record.
VerdictStands ==
    verdicts # {} =>
        /\ verdicts = {Verdict} /\ ~source.fails
        /\ \A i \in Items : recorded[i] # "none"

\* The signal fires for a reason, and manufactures cancellations only then.
Reason == source.fails \/ cut \/ \E i \in Items : recorded[i] = "error"
SignalsMeant ==
    /\ fired => cancelSiblings /\ Reason
    /\ \A i \in Items : recorded[i] = "mark" => cancelSiblings /\ Reason
    /\ \A i \in Items :
           forwarder[i] \in {"send", "done"} /\ cancelSiblings /\ recorded[i] = "error" =>
               fired

\* With one slot an item is launched once the items before it are through.
OneAfterTheOther ==
    maxConcurrent = 1 =>
        \A i, j \in Items : i < j /\ step[j] # "none" => forwarder[i] = "done"

\* The inductive invariant behind the safety properties.
IInv ==
    /\ TypeOK /\ NoStepOutlives /\ Orderly /\ SlotsCounted /\ VerdictStands
    /\ SignalsMeant /\ OneAfterTheOther

\* The drained outcomes come to one verdict, on the live run and on every
\* replay.  It is a manufactured cancellation only if no step failed on its
\* own, in the replay of an execution that was cut short (duro.go 258-261,
\* firstParallelError).
OneGenuineVerdict ==
    /\ Cardinality(verdicts) <= 1
    /\ \A v \in verdicts : v.kind = "mark" =>
           cut /\ \A i \in Items : recorded[i] # "error"

\* With one slot and sibling cancellation, no item's function runs once an
\* earlier item has failed: the signal fires before the slot is freed, so "an
\* item blocked on the semaphore observes the signal at launch" (parallel.go
\* 112-115), on replay too.
SerialStopsAtFailure ==
    cancelSiblings /\ maxConcurrent = 1 =>
        \A i, j \in Items : i < j /\ step[j] = "running" => recorded[i] # "error"

\* The stage ends: neither a slot, nor a channel, nor the drain is ever waited
\* for in vain (parallel.go 68-76, 89-91, 116-126).
StageEnds == <>(main = "recorded")
=============================================================================
