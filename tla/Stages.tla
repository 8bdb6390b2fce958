------------------------------- MODULE Stages -------------------------------
(***************************************************************************)
(* The stages of one pipeline (duro.go, flow.go, pipe.go, signals.go): what *)
(* the workflow goroutine does at each turn, as functions of the pipeline  *)
(* p, its agenda and the next step ID.                                     *)
(*                                                                         *)
(* A pipeline is a function from the name of each pipe in it, its place in *)
(* the tree, to that pipe's stages: [kind, subs: the pipes it embeds, max: *)
(* a Loop's bound].  An item is what it came from: the ID of the step that *)
(* made it, and its place in that step's result.  An agenda holds          *)
(*   items   an item on its way into a stage, or out of its pipe           *)
(*   dones   the completion of the stream on its way into a stage          *)
(*   ends    the end of a pipe: the root's or one embedded in a stage      *)
(* Sub is its embedded stages, Branch a Switch, Collect a Reduce, and what *)
(* records one step for an item a Step: Tap, Delay, Send, Recv, SetEvent,  *)
(* GetEvent.  FromStream is an Expand.  What records nothing is left out:   *)
(* Pure, UnsafeOperator, and a Send whose fn fails before it asks DBOS for *)
(* a step.                                                                 *)
(***************************************************************************)
EXTENDS Integers, Sequences, SequencesExt

PlainKinds == {"step", "filter", "expand", "stream"}
SubKinds == {"switch", "loop", "rescue", "via", "alongside"}
Kinds == PlainKinds \cup {"reduce"} \cup SubKinds

Stage(p, at) == p[at[1]][at[2]]
Locations(p) == UNION {{<<pipe, k>> : k \in 1..Len(p[pipe])} : pipe \in DOMAIN p}
Embeds(p, at, pipe) == pipe \in Range(Stage(p, at).subs)
Owner(p, pipe) == CHOOSE at \in Locations(p) : Embeds(p, at, pipe)
OwnedBy(p, pipe, kinds) == pipe # "root" /\ Stage(p, Owner(p, pipe)).kind \in kinds

\* A tree (Pipe1 to Pipe8): a pipe has stages, and every pipe but the root is
\* embedded in one of them.
WellFormed(p) ==
    /\ "root" \in DOMAIN p
    /\ \A pipe \in DOMAIN p :
           p[pipe] \in Seq([kind : Kinds, subs : Seq(DOMAIN p \ {"root"}), max : Nat])
    /\ \A pipe \in DOMAIN p : p[pipe] # <<>>
    /\ \A at \in Locations(p) : Stage(p, at).kind \in SubKinds => Stage(p, at).subs # <<>>
    /\ \A pipe \in DOMAIN p \ {"root"} : \E at \in Locations(p) : Embeds(p, at, pipe)
    /\ \A pipe \in DOMAIN p : \A at, bt \in Locations(p) :
           Embeds(p, at, pipe) /\ Embeds(p, bt, pipe) => at = bt

Item(id, n) == [id |-> id, n |-> n]
Failure(kind, id) == [kind |-> kind, id |-> id]
None == Failure("none", 0)
Refused == Failure("refused", 0)
Aborted == Failure("aborted", 0)
MaxIterations == Failure("max_iterations", 0)

\* What the functions of steps may return, and what that of one step may.
Answers(p) ==
    {"error", "ok", "keep", "drop", "empty", "pair", "no_case", "done", "again"} \cup DOMAIN p
Results(p, at) ==
    {"error"} \cup
    CASE Stage(p, at).kind = "filter" -> {"keep", "drop"}
      [] Stage(p, at).kind = "expand" -> {"empty", "pair"}
      [] Stage(p, at).kind = "switch" -> Range(Stage(p, at).subs) \cup {"no_case"}
      [] Stage(p, at).kind = "loop"   -> {"done", "again"}
      [] OTHER -> {"ok"}

-----------------------------------------------------------------------------
(* Agendas. *)

Items == [id : Nat, n : Nat]
Causes == [kind : {"none", "step", "max_iterations", "refused", "aborted"}, id : Nat]
Ends(p) ==
    {end \in [op : {"end"}, pipe : DOMAIN p, item : Items, round : Nat, side : Nat,
              outs : Seq(Items), acc : Seq(Items), cause : Causes, failed : SUBSET Nat,
              aborted : BOOLEAN] :
        Len(end.acc) = Len(p[end.pipe])}
Places(p) == (DOMAIN p) \X (Nat \ {0})
Tasks(p) ==
    [op : {"item"}, at : Places(p), item : Items]
    \cup [op : {"done"}, at : Locations(p)] \cup Ends(p)

ItemInto(at, item) == [op |-> "item", at |-> at, item |-> item]
DoneInto(at) == [op |-> "done", at |-> at]
EndOfPipe(p, pipe, item, round, side) ==
    [op |-> "end", pipe |-> pipe, item |-> item, round |-> round, side |-> side,
     outs |-> <<>>, acc |-> [k \in 1..Len(p[pipe]) |-> Item(0, 0)], cause |-> None,
     failed |-> {}, aborted |-> FALSE]

Start(p, pipe, item, round, side) ==
    << ItemInto(<<pipe, 1>>, item), DoneInto(<<pipe, 1>>),
       EndOfPipe(p, pipe, item, round, side) >>

\* The end of a pipe, and the nearest one with an abort flag of its own.
EndOf(tasks, pipe) == SelectInSeq(tasks, LAMBDA t : t.op = "end" /\ t.pipe = pipe)

\* The pipe around a task: the one an item is in, or an embedded pipe ends in.
Around(p, task) == IF task.op = "end" THEN Owner(p, task.pipe)[1] ELSE task.at[1]
Nested(p, tasks) ==
    /\ tasks # <<>> /\ EndOf(tasks, "root") = Len(tasks)
    /\ \A i \in 1..Len(tasks) - 1 :
           \E j \in i+1..Len(tasks) : tasks[j].op = "end" /\ tasks[j].pipe = Around(p, tasks[i])

\* Mutant: a Rescue shares the flag of the pipe around it.
OnlyRoot(p, pipe) == pipe = "root"

OwnsFlag(p, pipe) == pipe = "root" \/ OwnedBy(p, pipe, {"rescue"})

Scope(p, tasks) == SelectInSeq(tasks, LAMBDA t : t.op = "end" /\ OwnsFlag(p, t.pipe))
IsAborted(p, tasks) == tasks[Scope(p, tasks)].aborted
HasFailed(tasks, at) == at[2] \in tasks[EndOf(tasks, at[1])].failed

\* Items leave a stage in order, each to go all the way before the next.
Emit(tasks, at, items) ==
    [i \in 1..Len(items) |-> ItemInto(<<at[1], at[2] + 1>>, items[i])] \o tasks

\* The stage fails and takes no more items; the abort flag is for the stages
\* before it.
Failing(end, stage, cause) ==
    [end EXCEPT !.cause = IF @ = None THEN cause ELSE @, !.failed = @ \cup {stage}]
Aborting(end, aborts) == [end EXCEPT !.aborted = @ \/ aborts]

Fail(p, tasks, at, cause, aborts) ==
    LET own == EndOf(tasks, at[1])
        scope == Scope(p, tasks)
        failed == [tasks EXCEPT ![own] = Failing(@, at[2], cause)]
    IN  [failed EXCEPT ![scope] = Aborting(@, aborts)]

Embedded(p, tasks, at, item, round, side) ==
    Start(p, Stage(p, at).subs[1], item, round, side) \o tasks

-----------------------------------------------------------------------------
(* Turns that take no step.  The head of the agenda is what the turn is about. *)

AtItem(tasks) == Head(tasks).op = "item"
AtDone(tasks) == Head(tasks).op = "done"
InPipe(p, at) == at[2] <= Len(p[at[1]])
\* A stage that has failed refuses what comes, but for a Via: FlatMap runs its pipe
\* for an item all the same, and only what comes of it is dropped.
Refuses(p, tasks) ==
    /\ HasFailed(tasks, Head(tasks).at)
    /\ AtItem(tasks) => Stage(p, Head(tasks).at).kind # "via"

Stops(p, tasks) ==
    /\ AtItem(tasks) \/ AtDone(tasks)
    /\ InPipe(p, Head(tasks).at) /\ Refuses(p, tasks)
Takes(p, tasks, kinds) ==
    /\ AtItem(tasks) /\ InPipe(p, Head(tasks).at) /\ ~Refuses(p, tasks)
    /\ Stage(p, Head(tasks).at).kind \in kinds
Leaves(p, tasks) == AtItem(tasks) /\ ~InPipe(p, Head(tasks).at)
Completes(p, tasks, kinds) ==
    /\ AtDone(tasks) /\ ~HasFailed(tasks, Head(tasks).at)
    /\ Stage(p, Head(tasks).at).kind \in kinds
EndsRoot(tasks) == Head(tasks).op = "end" /\ Head(tasks).pipe = "root"
EndsIn(p, tasks, kinds) == Head(tasks).op = "end" /\ OwnedBy(p, Head(tasks).pipe, kinds)

Collecting(end, item) == [end EXCEPT !.outs = Append(@, item)]

\* What comes out of a Switch's arm goes to the stage behind the Switch, what
\* comes out of another pipe is collected.
Left(p, tasks) ==
    LET pipe == Head(tasks).at[1]
        own == EndOf(Tail(tasks), pipe)
        item == Head(tasks).item
    IN  IF OwnedBy(p, pipe, {"switch"}) THEN Emit(Tail(tasks), Owner(p, pipe), <<item>>)
        ELSE [Tail(tasks) EXCEPT ![own] = Collecting(@, item)]

PassedOn(p, tasks) ==
    LET at == Head(tasks).at
    IN  IF at[2] = Len(p[at[1]]) THEN Tail(tasks)
        ELSE <<DoneInto(<<at[1], at[2] + 1>>)>> \o Tail(tasks)

\* The completion passes on; a Reduce lets its accumulator go first.
Completed(p, tasks) ==
    LET at == Head(tasks).at
    IN  IF Stage(p, at).kind # "reduce" THEN PassedOn(p, tasks)
        ELSE Emit(PassedOn(p, tasks), at, <<tasks[EndOf(tasks, at[1])].acc[at[2]]>>)

\* A Rescue asks for the abort flag before it begins, the others leave it to the
\* steps they embed.
Embarked(p, tasks) ==
    LET task == Head(tasks)
    IN  IF Stage(p, task.at).kind = "rescue" /\ IsAborted(p, Tail(tasks))
        THEN Fail(p, Tail(tasks), task.at, Aborted, FALSE)
        ELSE Embedded(p, Tail(tasks), task.at, task.item, 1, 0)

\* The end of a pipe: a failure fails the stage it is embedded in.
Ended(p, tasks, succeeded) ==
    LET end == Head(tasks)
    IN  IF end.cause # None
        THEN Fail(p, Tail(tasks), Owner(p, end.pipe), end.cause, FALSE)
        ELSE succeeded

Emitted(p, tasks, items) == Emit(Tail(tasks), Owner(p, Head(tasks).pipe), items)

\* A Via lets its item go, unless an earlier item failed it.
EndedArmOrVia(p, tasks) ==
    Ended(p, tasks,
          IF EndsIn(p, tasks, {"via"}) /\ ~HasFailed(Tail(tasks), Owner(p, Head(tasks).pipe))
          THEN Emitted(p, tasks, <<Head(tasks).item>>) ELSE Tail(tasks))

\* A body that made nothing of the item drops it.
Unjudged(tasks) == Head(tasks).cause # None \/ Head(tasks).outs = <<>>
EndedUnjudged(p, tasks) == Ended(p, tasks, Tail(tasks))

EndedUnrescued(p, tasks) == Emitted(p, tasks, Head(tasks).outs)

\* The embedded pipe's failure comes first.
EndedAwaited(p, tasks) ==
    Ended(p, tasks, Emitted(p, tasks, <<Head(tasks).item>>))

-----------------------------------------------------------------------------
(* Turns that take a step: what they ask for, and the agenda behind each    *)
(* success.                                                                *)

Turn(at, input, cause, next) ==
    [asks |-> [at |-> at, input |-> input, cause |-> cause], next |-> next]

\* Mutant: a step that fails leaves the abort flag alone.
LeavesFlag(cause) == FALSE

SetsFlag(cause) == TRUE

Stopped(p, tasks, turn) == Fail(p, Tail(tasks), turn.asks.at, Aborted, FALSE)
Denied(p, tasks, turn) == Fail(p, Tail(tasks), turn.asks.at, Refused, SetsFlag(Refused))
After(p, tasks, id, turn, result) ==
    IF result = "error"
    THEN LET failure == Failure("step", id)
         IN  Fail(p, Tail(tasks), turn.asks.at, failure, SetsFlag(failure))
    ELSE turn.next[result]

Emission(kind, item, result, id) ==
    CASE kind = "step"   -> <<Item(id, 1)>>
      [] kind = "stream" -> <<item>>
      [] kind = "filter" -> IF result = "keep" THEN <<item>> ELSE <<>>
      [] kind = "expand" -> IF result = "pair" THEN <<Item(id, 1), Item(id, 2)>> ELSE <<>>

PlainTurn(p, tasks, id) ==
    LET task == Head(tasks)
    IN  Turn(task.at, task.item, None, [result \in Answers(p) |->
             Emit(Tail(tasks), task.at,
                  Emission(Stage(p, task.at).kind, task.item, result, id))])

\* ToStream's completion closes the stream.
CloseTurn(p, tasks) ==
    Turn(Head(tasks).at, Item(0, 0), None, [result \in Answers(p) |-> PassedOn(p, tasks)])

Accumulating(end, stage, item) == [end EXCEPT !.acc = [@ EXCEPT ![stage] = item]]

ReduceTurn(p, tasks, id) ==
    LET at == Head(tasks).at
        own == EndOf(Tail(tasks), at[1])
    IN  Turn(at, Head(tasks).item, None, [result \in Answers(p) |->
             [Tail(tasks) EXCEPT ![own] = Accumulating(@, at[2], Item(id, 1))]])

\* The recorded key picks the arm, if there is one.
SwitchTurn(p, tasks, id) ==
    LET task == Head(tasks)
    IN  Turn(task.at, task.item, None, [key \in Answers(p) |->
             IF key \in Range(Stage(p, task.at).subs)
             THEN Start(p, key, task.item, 1, 0) \o Tail(tasks)
             ELSE Fail(p, Tail(tasks), task.at, Failure("step", id), TRUE)])

\* Alongside launches its side step and goes on with the pipe it embeds.
LaunchTurn(p, tasks, id) ==
    LET task == Head(tasks)
    IN  Turn(task.at, task.item, None, [result \in Answers(p) |->
             Embedded(p, Tail(tasks), task.at, task.item, 1, id)])

\* The predicate judges what the body made of the item.  max = 0: unbounded.
VerdictTurn(p, tasks) ==
    LET task == Head(tasks)
        at == Owner(p, task.pipe)
        made == Last(task.outs)
    IN  Turn(at, made, None, [verdict \in Answers(p) |->
             IF verdict = "done" THEN Emitted(p, tasks, <<made>>)
             ELSE IF Stage(p, at).max > 0 /\ task.round >= Stage(p, at).max
             THEN Fail(p, Tail(tasks), at, MaxIterations, FALSE)
             ELSE Embedded(p, Tail(tasks), at, made, task.round + 1, 0)])

\* Mutant: the handler sees the live error, which wraps what the step returned.
LiveCause(cause, live) == [kind |-> cause.kind, id |-> cause.id, wraps |-> cause.id \in live]

RescueCause(cause, live) == [kind |-> cause.kind, id |-> cause.id, wraps |-> FALSE]

RescueTurn(p, tasks, id, live) ==
    LET task == Head(tasks)
    IN  Turn(Owner(p, task.pipe), task.item, RescueCause(task.cause, live),
             [result \in Answers(p) |-> Emitted(p, tasks, <<Item(id, 1)>>)])

SideTurn(p, tasks, sideCause, live) ==
    LET task == Head(tasks)
    IN  Turn(Owner(p, task.pipe), task.item, RescueCause(sideCause, live),
             [result \in Answers(p) |-> Emitted(p, tasks, <<task.item>>)])

-----------------------------------------------------------------------------
\* Run returns the one value or an error, of which DBOS keeps the message.
Outcome(tasks) ==
    LET end == Head(tasks)
    IN  [kind |-> IF end.cause # None THEN "error"
                  ELSE CASE Len(end.outs) = 0 -> "no_value"
                         [] Len(end.outs) = 1 -> "value"
                         [] OTHER -> "multiple_values",
         items |-> IF end.cause = None THEN end.outs ELSE <<>>,
         cause |-> end.cause]
=============================================================================
