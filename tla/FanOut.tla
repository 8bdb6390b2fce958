------------------------------- MODULE FanOut -------------------------------
(***************************************************************************)
(* One FanOut stage (fanout.go): the parent workflow enqueues a child for  *)
(* each item and awaits them, in one of two modes.                         *)
(*   - By default it awaits the children in input order, one checkpoint    *)
(*     each, and fails with the first that failed.                         *)
(*   - With WithCancelSiblings it enqueues a watcher and awaits all of     *)
(*     them in one step.  The step and the watcher run the same loop:      *)
(*     read the children's statuses, cancel the batch once one has failed, *)
(*     until all are final.                                                *)
(* The parent and the watcher crash and start over; children fail, are     *)
(* cancelled from outside, and are deleted by retention when they are      *)
(* final.  Final statuses stay: a Resume of a child is left out.           *)
(***************************************************************************)
EXTENDS Integers, Sequences, FiniteSets, FiniteSetsExt

CONSTANTS
    Children,       \* child workflow IDs
    Batches,        \* the child of each item, as a sequence: deduplicated
                    \* items share one
    MaxCrashes,     \* crashes of the parent and of the watcher, each
    Env             \* what may go wrong, a subset of Troubles

Troubles == {"outside", "read_fails", "cancel_fails", "enqueue_fails",
             "cancel_parent", "retention"}

ASSUME FanOutAssumption ==
    /\ IsFiniteSet(Children)
    /\ Batches \subseteq Seq(Children)
    /\ MaxCrashes \in Nat
    /\ Env \subseteq Troubles

VARIABLES
    cancelSiblings, \* the stage's mode
    childOf,        \* the child of each item
    status,         \* the children's rows in workflow_status
    stage,          \* where the parent is in the stage
    next,           \* the item the parent enqueues next
    awaited,        \* default mode: checkpoints of awaited results
    up,             \* whether a process executes the parent
    loop,           \* each watching loop: where it is, its cancelIssued, and
                    \* whether all children were final in its last read
    collected,      \* the results the await step's body has read, by item
    verdict,        \* what the await step's body came to, before its record
    outcome,        \* what the stage recorded
    crashes,
    verdicts,       \* history: every verdict a body came to, but for errors of
                    \* its own reads
    outside         \* history: the children cancelled from outside

vars == <<cancelSiblings, childOf, status, stage, next, awaited, up, loop,
          collected, verdict, outcome, crashes, verdicts, outside>>
plan == <<cancelSiblings, childOf>>
children == <<status, outside>>
place == <<stage, next, awaited, up>>
body == <<collected, verdict, verdicts>>
results == <<body, outcome>>

Items == Len(childOf)
Loops == {"parent", "watcher"}
Failed == {"ERROR", "CANCELLED", "DEAD"}
Final == {"SUCCESS"} \cup Failed
Statuses == {"absent", "live", "deleted"} \cup Final
Stages == {"enqueue", "watch", "await", "ended"}
LoopPlaces == {"off", "queued", "read", "sleep", "cancel", "collect", "done", "failed"}

LoopStates == [at : LoopPlaces, issued : BOOLEAN, drained : BOOLEAN]
Off == [at |-> "off", issued |-> FALSE, drained |-> FALSE]

Result(kind, i) == [kind |-> kind, item |-> i]
Nothing == Result("none", 0)
Infra == Result("infra", 0)
Success == Result("success", 0)
Outcomes == [kind : {"none", "infra", "interrupted", "success", "failure", "cancellation"},
             item : 0..Items]

Init ==
    /\ cancelSiblings \in BOOLEAN
    /\ childOf \in Batches
    /\ status = [c \in Children |-> "absent"]
    /\ stage = "enqueue" /\ next = 1 /\ awaited = 0
    /\ up = TRUE
    /\ loop = [w \in Loops |-> Off]
    /\ collected = <<>> /\ verdict = Nothing /\ outcome = Nothing
    /\ crashes = [w \in Loops |-> 0]
    /\ verdicts = {} /\ outside = {}

-----------------------------------------------------------------------------
(* What a read of the statuses tells. *)

Batch == {childOf[i] : i \in 1..Items}
AllPresent == \A c \in Batch : status[c] # "deleted"
\* Mutant: a child that succeeded counts with those that failed.
AnyTerminal == \E c \in Batch : status[c] \in Final

AnyFailed == \E c \in Batch : status[c] \in Failed

Terminal == {c \in Batch : status[c] \in Final}
\* Mutant: compares with the items, which may share a child.
DrainedByItem == Cardinality(Terminal) = Items

Drained == Cardinality(Terminal) = Cardinality(Batch)

\* What the results read say.  A read that failed counts with the failures.
ItemsWith(read, answers) == {i \in 1..Items : read[i] \in answers}

\* Mutant: the first error in input order, whatever its kind.
VerdictByOrder(read) ==
    LET errors == ItemsWith(read, Failed \cup {"unread"})
    IN  IF errors = {} THEN Success
        ELSE LET i == Min(errors)
             IN  Result(CASE read[i] = "unread" -> "infra"
                          [] read[i] = "CANCELLED" -> "cancellation"
                          [] OTHER -> "failure", i)

\* A failure before a cancellation, the first in input order of each.
VerdictOf(read) ==
    LET failures == ItemsWith(read, {"ERROR", "DEAD", "unread"})
        cancelled == ItemsWith(read, {"CANCELLED"})
    IN  IF failures # {}
        THEN Result(IF read[Min(failures)] = "unread" THEN "infra" ELSE "failure",
                    Min(failures))
        ELSE IF cancelled # {} THEN Result("cancellation", Min(cancelled))
        ELSE Success

\* The effect of CancelWorkflows: children in a final state are skipped.
BatchCancelled ==
    [c \in Children |-> IF c \in Batch /\ status[c] = "live" THEN "CANCELLED"
                        ELSE status[c]]

-----------------------------------------------------------------------------
(* The parent enqueues. *)

\* A child is enqueued, or on replay or a shared ID found again.
ChildEnqueued ==
    [status EXCEPT ![childOf[next]] = IF @ = "absent" THEN "live" ELSE @]

EnqueueChild ==
    /\ up /\ stage = "enqueue" /\ next <= Items
    /\ status' = ChildEnqueued
    /\ next' = next + 1
    /\ UNCHANGED <<plan, loop, results, outside, stage, awaited, up, crashes>>

Ends(result) ==
    /\ stage' = "ended"
    /\ outcome' = result

\* The source completes; without an item there is nothing to await.
AllEnqueued ==
    /\ up /\ stage = "enqueue" /\ next > Items
    /\ \/ Items = 0 /\ Ends(Success)
       \/ Items > 0 /\ stage' = (IF cancelSiblings THEN "watch" ELSE "await")
                    /\ UNCHANGED outcome
    /\ UNCHANGED <<plan, children, loop, next, awaited, up, body, crashes>>

\* A loop goes on to a place.
Moved(w, where) == [loop EXCEPT ![w] = [loop[w] EXCEPT !.at = where]]

\* The watcher is enqueued once: a replay finds it again.
WatcherEnqueued ==
    IF loop["watcher"].at = "off" THEN Moved("watcher", "queued") ELSE loop

EnqueueWatcher ==
    /\ up /\ stage = "watch"
    /\ stage' = "await"
    /\ loop' = [WatcherEnqueued EXCEPT !["parent"] = [Off EXCEPT !.at = "read"]]
    /\ collected' = <<>>
    /\ UNCHANGED <<plan, children, verdict, verdicts, outcome, next, awaited, up,
                   crashes>>

\* RunWorkflow reports an error, with or without a run to show for it; what is
\* enqueued stays.
EnqueueFails ==
    /\ "enqueue_fails" \in Env /\ up
    /\ \/ /\ stage = "enqueue" /\ next <= Items
          /\ status' \in {status, ChildEnqueued} /\ UNCHANGED loop
       \/ /\ stage = "watch"
          /\ loop' \in {loop, WatcherEnqueued} /\ UNCHANGED status
    /\ Ends(Infra)
    /\ UNCHANGED <<plan, outside, next, awaited, up, body, crashes>>

-----------------------------------------------------------------------------
(* The default mode: one awaited result after the other. *)

Awaiting == up /\ stage = "await" /\ ~cancelSiblings
AwaitedStatus == status[childOf[awaited + 1]]

\* A result is recorded, or the first that is an error ends the stage.
AwaitResult ==
    /\ Awaiting /\ awaited < Items
    /\ LET i == awaited + 1
       IN  \/ /\ AwaitedStatus = "SUCCESS"
              /\ awaited' = i /\ UNCHANGED <<stage, outcome>>
           \/ /\ \/ AwaitedStatus \in {"ERROR", "DEAD"} /\ Ends(Result("failure", i))
                 \/ AwaitedStatus = "CANCELLED" /\ Ends(Result("cancellation", i))
                 \/ AwaitedStatus = "deleted" /\ Ends(Infra)
              /\ UNCHANGED awaited
    /\ UNCHANGED <<plan, children, loop, next, up, body, crashes>>

AwaitCompletes ==
    /\ Awaiting /\ awaited = Items
    /\ Ends(Success)
    /\ UNCHANGED <<plan, children, loop, next, awaited, up, body, crashes>>

\* The parent was cancelled while it waited.
ResultInterrupted ==
    /\ "cancel_parent" \in Env
    /\ Awaiting /\ awaited < Items /\ AwaitedStatus = "live"
    /\ Ends(Result("interrupted", 0))
    /\ UNCHANGED <<plan, children, loop, next, awaited, up, body, crashes>>

\* The read of a result fails where the child's run did not.
AwaitFails ==
    /\ "read_fails" \in Env
    /\ Awaiting /\ awaited < Items
    /\ Ends(Infra)
    /\ UNCHANGED <<plan, children, loop, next, awaited, up, body, crashes>>

-----------------------------------------------------------------------------
(* watchAndCancel: the loop of the await step and of the watcher. *)

Runs(w) == w = "parent" => up

\* A loop that has all it waits for.
Through(w) == IF w = "parent" THEN "collect" ELSE "done"

\* One read of all statuses, and the decision it leads to.
Poll(w) ==
    /\ Runs(w) /\ loop[w].at = "read"
    /\ AllPresent
    /\ loop' = [loop EXCEPT ![w] =
                   [at |-> IF AnyFailed /\ ~loop[w].issued THEN "cancel"
                           ELSE IF Drained THEN Through(w) ELSE "sleep",
                    issued |-> loop[w].issued, drained |-> Drained]]
    /\ UNCHANGED <<plan, children, place, results, crashes>>

\* What a loop leaves when it cannot read: the step an error, the watcher a
\* failed run.
Abandons(w) ==
    /\ loop' = Moved(w, IF w = "parent" THEN "done" ELSE "failed")
    /\ verdict' = IF w = "parent" THEN Infra ELSE verdict
    /\ collected' = IF w = "parent" THEN <<>> ELSE collected
    /\ UNCHANGED <<plan, children, place, outcome, verdicts, crashes>>

\* The read fails, or finds a child gone.
PollFails(w) ==
    /\ Runs(w) /\ loop[w].at = "read"
    /\ "read_fails" \in Env \/ ~AllPresent
    /\ Abandons(w)

\* WatchInterval has passed.
Wake(w) ==
    /\ Runs(w) /\ loop[w].at = "sleep"
    /\ loop' = Moved(w, "read")
    /\ UNCHANGED <<plan, children, place, results, crashes>>

\* CancelWorkflows, once.
CancelBatch(w) ==
    /\ Runs(w) /\ loop[w].at = "cancel"
    /\ status' = BatchCancelled
    /\ loop' = [loop EXCEPT ![w] =
                   [at |-> "read", issued |-> TRUE, drained |-> loop[w].drained]]
    /\ UNCHANGED <<plan, place, results, outside, crashes>>

\* Mutant: a cancel that failed counts as issued.
IssuedAnyway(w) == TRUE

IssuedAfterFailure(w) == loop[w].issued

\* The cancel reports an error, whether it committed or not: the next poll
\* tries again, unless there is nothing left to cancel.
CancelFails(w) ==
    /\ "cancel_fails" \in Env
    /\ Runs(w) /\ loop[w].at = "cancel"
    /\ status' \in {status, BatchCancelled}
    /\ loop' = [loop EXCEPT ![w] =
                   [at |-> IF loop[w].drained THEN Through(w) ELSE "sleep",
                    issued |-> IssuedAfterFailure(w), drained |-> loop[w].drained]]
    /\ UNCHANGED <<plan, place, results, outside, crashes>>

\* The parent's context ends while it waits: the run was cancelled.
AwaitInterrupted ==
    /\ "cancel_parent" \in Env
    /\ up /\ loop["parent"].at = "sleep"
    /\ loop' = Moved("parent", "done")
    /\ verdict' = Result("interrupted", 0)
    /\ UNCHANGED <<plan, children, place, collected, outcome, verdicts, crashes>>

\* The body reads the results one by one, in input order.
Collecting == up /\ loop["parent"].at = "collect"
Unread == Collecting /\ Len(collected) < Items
ToRead == status[childOf[Len(collected) + 1]]

Reads(answer) ==
    /\ collected' = Append(collected, answer)
    /\ UNCHANGED <<plan, children, place, loop, verdict, verdicts, outcome, crashes>>

\* GetResult waits for the child and has its result, or its error.
ReadResult ==
    /\ Unread /\ ToRead \in Final
    /\ Reads(ToRead)

\* A read fails, or the child is gone: without a handle the step fails at
\* once, another error of GetResult is taken for the child's.
ReadFails ==
    /\ Unread
    /\ "read_fails" \in Env \/ ToRead = "deleted"
    /\ Abandons("parent") \/ Reads("unread")

\* All results are read.
Collect ==
    /\ Collecting /\ Len(collected) = Items
    /\ verdict' = VerdictOf(collected)
    /\ verdicts' = verdicts \cup {v \in {verdict'} : v.kind # "infra"}
    /\ collected' = <<>>
    /\ loop' = Moved("parent", "done")
    /\ UNCHANGED <<plan, children, place, outcome, crashes>>

\* The step's outcome is recorded and the body's variables are gone.
RecordAwait ==
    /\ up /\ stage = "await" /\ loop["parent"].at = "done"
    /\ Ends(verdict)
    /\ verdict' = Nothing
    /\ loop' = [loop EXCEPT !["parent"] = Off]
    /\ UNCHANGED <<plan, children, next, awaited, up, collected, verdicts, crashes>>

WatcherBegins ==
    /\ loop["watcher"].at = "queued"
    /\ loop' = Moved("watcher", "read")
    /\ UNCHANGED <<plan, children, place, results, crashes>>

-----------------------------------------------------------------------------
(* Crashes: rows and checkpoints stay, the loops' variables are lost. *)

Crashes(w) ==
    /\ crashes[w] < MaxCrashes
    /\ crashes' = [crashes EXCEPT ![w] = @ + 1]

ParentCrashes ==
    /\ up /\ stage # "ended" /\ Crashes("parent")
    /\ up' = FALSE
    /\ loop' = [loop EXCEPT !["parent"] = Off]
    /\ collected' = <<>> /\ verdict' = Nothing
    /\ UNCHANGED <<plan, children, stage, next, awaited, outcome, verdicts>>

\* Another process runs the parent from its start: the spawns are replayed.
ParentRecovers ==
    /\ ~up
    /\ up' = TRUE
    /\ stage' = "enqueue" /\ next' = 1
    /\ UNCHANGED <<plan, children, loop, results, awaited, crashes>>

WatcherCrashes ==
    /\ loop["watcher"].at \in {"read", "sleep", "cancel"} /\ Crashes("watcher")
    /\ loop' = [loop EXCEPT !["watcher"] = [Off EXCEPT !.at = "queued"]]
    /\ UNCHANGED <<plan, children, place, results>>

-----------------------------------------------------------------------------
(* The children: ordinary runs, dead-lettered ones included. *)

ChildEnds(c) ==
    /\ status[c] = "live"
    /\ \E s \in {"SUCCESS", "ERROR", "DEAD"} : status' = [status EXCEPT ![c] = s]
    /\ UNCHANGED <<plan, place, loop, results, outside, crashes>>

\* An operator's Cancel, or the deadline of WithChildTimeout.
CancelledFromOutside(c) ==
    /\ "outside" \in Env
    /\ status[c] = "live"
    /\ status' = [status EXCEPT ![c] = "CANCELLED"]
    /\ outside' = outside \cup {c}
    /\ UNCHANGED <<plan, place, loop, results, crashes>>

\* Retention deletes final runs, whoever still waits for their result.
Deleted(c) ==
    /\ "retention" \in Env
    /\ status[c] \in Final
    /\ status' = [status EXCEPT ![c] = "deleted"]
    /\ UNCHANGED <<plan, place, loop, results, outside, crashes>>

-----------------------------------------------------------------------------
ParentStep ==
    \/ EnqueueChild \/ AllEnqueued \/ EnqueueWatcher
    \/ AwaitResult \/ AwaitCompletes
    \/ ReadResult \/ ReadFails \/ Collect \/ RecordAwait

LoopStep(w) == Poll(w) \/ PollFails(w) \/ Wake(w)

Next ==
    \/ ParentStep
    \/ EnqueueFails \/ AwaitInterrupted \/ ResultInterrupted \/ AwaitFails
    \/ \E w \in Loops : LoopStep(w) \/ CancelBatch(w) \/ CancelFails(w)
    \/ WatcherBegins
    \/ ParentCrashes \/ ParentRecovers \/ WatcherCrashes
    \/ \E c \in Children : ChildEnds(c) \/ CancelledFromOutside(c) \/ Deleted(c)

Spec == Init /\ [][Next]_vars

\* A process that executes the parent or the watcher makes progress, the
\* watcher is dequeued by some executor, and a cancel that is tried again and
\* again gets through.  Nothing is assumed of the children, nor that anyone
\* recovers the parent.
FairSpec ==
    /\ Spec
    /\ WF_vars(ParentStep)
    /\ WF_vars(WatcherBegins)
    /\ \A w \in Loops : WF_vars(LoopStep(w)) /\ SF_vars(CancelBatch(w))

-----------------------------------------------------------------------------
\* The state keeps its types (the variables of awaitCancellingSiblings and
\* watchAndCancel, the statuses of the children).
TypeOK ==
    /\ cancelSiblings \in BOOLEAN
    /\ childOf \in Batches
    /\ status \in [Children -> Statuses]
    /\ stage \in Stages
    /\ next \in 1..(Items + 1)
    /\ awaited \in 0..Items
    /\ up \in BOOLEAN
    /\ loop \in [Loops -> LoopStates]
    /\ collected \in Seq(Final \cup {"unread"}) /\ Len(collected) <= Items
    /\ verdict \in Outcomes /\ outcome \in Outcomes
    /\ crashes \in [Loops -> 0..MaxCrashes]
    /\ verdicts \subseteq Outcomes
    /\ outside \subseteq Children

\* The executions of the await step come to one verdict, a crash before its
\* record notwithstanding: the stage fails with the same error "on the live run
\* and on recovery replay alike".  The exception is an error of the step's own
\* reads, which stands before a child's later failure (fanout.go 573-587).
\* And the stage ends in a cancellation only when no child failed outright and
\* somebody outside the batch cancelled one: a sibling that was cancelled for
\* another's failure never masks it (fanout.go 140-143, 591-599).
OneGenuineVerdict ==
    /\ \A u, v \in verdicts : u = v
    /\ cancelSiblings /\ outcome.kind = "cancellation" =>
           /\ \A c \in Batch : status[c] \notin {"ERROR", "DEAD"}
           /\ outside \cap Batch # {}

\* A failure among the children of the items, whose run may be deleted since
\* the body read it, or before it does.
FailureBehind ==
    \E i \in 1..Items :
        \/ status[childOf[i]] \in {"ERROR", "DEAD"}
        \/ /\ status[childOf[i]] = "deleted"
           /\ i <= Len(collected) => collected[i] \in {"ERROR", "DEAD", "unread"}

\* A cancelled child, now or when it was read, or a loop about to cancel, has
\* a cause: a cancellation from outside, or a failure.
CancelHasCause ==
    \/ \E c \in Batch : status[c] = "CANCELLED"
    \/ \E i \in 1..Len(collected) : collected[i] = "CANCELLED"
    \/ \E w \in Loops : loop[w].at = "cancel"
    => outside \cap Batch # {} \/ FailureBehind

\* What the items' children ended with accounts for all that was read of them.
Accounts(final) ==
    /\ verdicts \subseteq {VerdictOf(final)}
    /\ verdicts # {} \/ loop["parent"].drained =>
           \A i \in 1..Items : status[childOf[i]] \in {final[i], "deleted"}
    /\ \A i \in 1..Len(collected) : collected[i] \in {final[i], "unread"}

\* Results are read of children that are final, and reading them again gives
\* the same as long as none is deleted.
VerdictsStand ==
    /\ collected # <<>> => loop["parent"].at = "collect"
    /\ loop["parent"].at = "collect" => loop["parent"].drained
    /\ \E final \in [1..Items -> Final] : Accounts(final)

\* A cancellation that a body came to, or the stage with WithCancelSiblings.
CancellationIsGenuine ==
    (\/ verdict.kind = "cancellation"
     \/ cancelSiblings /\ outcome.kind = "cancellation")
    => /\ \A c \in Batch : status[c] \in {"SUCCESS", "CANCELLED", "deleted"}
       /\ outside \cap Batch # {}

\* What keeps OneGenuineVerdict true: an invariant that every step preserves.
IInv == TypeOK /\ CancelHasCause /\ VerdictsStand /\ CancellationIsGenuine

\* Once the watcher is enqueued, a failure stops the whole batch, whatever
\* becomes of the parent and whether or not the children end by themselves,
\* unless the watcher gave up on a failed read (fanout.go 179-188).
BackstopCancels ==
    (loop["watcher"].at # "off" /\ AnyFailed) ~>
        ((\A c \in Batch : status[c] # "live") \/ loop["watcher"].at = "failed")

\* While there is a process to execute the parent, a stage that awaits ends
\* once its children have, and with WithCancelSiblings once one of them has
\* failed (watchAndCancel, awaitCancellingSiblings).
StageEnds ==
    ([]<>up) =>
        ((stage = "await" /\ (Drained \/ (cancelSiblings /\ AnyFailed))) ~> (stage = "ended"))
=============================================================================
