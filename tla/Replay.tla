------------------------------- MODULE Replay -------------------------------
(***************************************************************************)
(* One run of a pipeline (duro.go, run.go, fork.go).  The workflow         *)
(* goroutine pushes items through the stages depth first, turn by turn     *)
(* (module Stages); each step takes the next step ID and is recorded under *)
(* it.  An execution may crash, be stopped with its process or be          *)
(* cancelled; the next one starts from the first stage, and recorded steps *)
(* answer from their record.                                               *)
(***************************************************************************)
EXTENDS Stages

CONSTANTS
    Programs,       \* pipelines
    MaxCrashes,     \* executions that crash or are stopped
    MaxForks,       \* forks of the run
    Env             \* what else may happen, a subset of Events

Events == {"stop", "cancel", "deploy"}

ASSUME ReplayAssumption ==
    /\ \A p \in Programs : WellFormed(p)
    /\ MaxCrashes \in Nat /\ MaxForks \in Nat
    /\ Env \subseteq Events

VARIABLES
    program,        \* the pipeline the process constructs
    shape,          \* the recorded fingerprint
    phase,          \* of the run
    agenda,         \* what the goroutine has to do
    nextID,         \* the next step ID
    records,        \* the recorded steps by ID
    flying,         \* side steps in flight, by ID
    live,           \* steps whose failure this execution saw itself
    halt,           \* whether DBOS still lets the execution take steps
    outcome,        \* what the execution came to
    crashes, forks,
    misread,        \* history: a record was read for another step than its own
    outcomes        \* history: what undisturbed executions of the run came to

deployed == <<program, shape>>
database == <<records, misread>>
bounds == <<crashes, forks>>
results == <<outcome, outcomes>>
vars == <<program, shape, phase, agenda, nextID, records, misread, flying, live,
          halt, outcome, outcomes, crashes, forks>>

With(f, id, entry) == [n \in DOMAIN f \cup {id} |-> IF n = id THEN entry ELSE f[n]]

NoOutcome == [kind |-> "none", items |-> <<>>, cause |-> None]

Init ==
    /\ program \in Programs /\ shape = <<>>
    /\ phase = "pending" /\ agenda = <<>> /\ nextID = 1
    /\ records = <<>> /\ flying = <<>> /\ live = {} /\ halt = "no"
    /\ outcome = NoOutcome /\ outcomes = {}
    /\ crashes = 0 /\ forks = 0 /\ misread = FALSE

-----------------------------------------------------------------------------
(* Steps. *)

Barred == IsAborted(program, Tail(agenda))

\* Mutant: a recorded false is read back as if it were missing.
ReadsAsTrue(id) == IF records[id].result = "drop" THEN "keep" ELSE records[id].result

Recorded(id) == records[id].result

\* runStep: refused by the abort flag, refused by DBOS, replayed or executed.
RunStep(turn) ==
    \/ /\ Barred
       /\ agenda' = Stopped(program, agenda, turn)
       /\ UNCHANGED <<nextID, database, live>>
    \/ /\ ~Barred /\ halt # "no"
       /\ nextID' = nextID + 1
       /\ agenda' = Denied(program, agenda, turn)
       /\ UNCHANGED <<database, live>>
    \/ /\ ~Barred /\ halt = "no" /\ nextID \in DOMAIN records
       /\ nextID' = nextID + 1
       /\ agenda' = After(program, agenda, nextID, turn, Recorded(nextID))
       /\ misread' = (misread \/ records[nextID].asked # turn.asks)
       /\ UNCHANGED <<records, live>>
    \/ /\ ~Barred /\ halt = "no" /\ nextID \notin DOMAIN records
       /\ nextID' = nextID + 1
       /\ \E result \in Results(program, turn.asks.at) :
             /\ records' = With(records, nextID, [asked |-> turn.asks, result |-> result])
             /\ agenda' = After(program, agenda, nextID, turn, result)
             /\ live' = IF result = "error" THEN live \cup {nextID} ELSE live
       /\ UNCHANGED misread

-----------------------------------------------------------------------------
(* The workflow goroutine: items and completions. *)

Running == phase = "running"
Untouched == UNCHANGED <<deployed, phase, flying, halt, results, bounds>>
\* A turn without a step.
Quiet(tasks) == agenda' = tasks /\ UNCHANGED <<nextID, database, live>> /\ Untouched

\* A stage that has failed takes nothing, and a completion stops there.
Drop ==
    /\ Running /\ Stops(program, agenda)
    /\ Quiet(Tail(agenda))

Leave ==
    /\ Running /\ Leaves(program, agenda)
    /\ Quiet(Left(program, agenda))

Complete ==
    /\ Running /\ Completes(program, agenda, Kinds \ {"stream"})
    /\ Quiet(Completed(program, agenda))

CloseStream ==
    /\ Running /\ Completes(program, agenda, {"stream"})
    /\ RunStep(CloseTurn(program, agenda)) /\ Untouched

PlainStage ==
    /\ Running /\ Takes(program, agenda, PlainKinds)
    /\ RunStep(PlainTurn(program, agenda, nextID)) /\ Untouched

Accumulate ==
    /\ Running /\ Takes(program, agenda, {"reduce"})
    /\ RunStep(ReduceTurn(program, agenda, nextID)) /\ Untouched

Dispatch ==
    /\ Running /\ Takes(program, agenda, {"switch"})
    /\ RunStep(SwitchTurn(program, agenda, nextID)) /\ Untouched

Embed ==
    /\ Running /\ Takes(program, agenda, {"loop", "via", "rescue"})
    /\ Quiet(Embarked(program, agenda))

\* dbos.Go takes the step ID; the step is recorded when it returns.
Launch ==
    /\ Running /\ Takes(program, agenda, {"alongside"})
    /\ LET turn == LaunchTurn(program, agenda, nextID)
       IN  \/ /\ Barred
              /\ agenda' = Stopped(program, agenda, turn)
              /\ UNCHANGED <<nextID, misread, flying>>
           \/ /\ ~Barred /\ halt # "no"
              /\ nextID' = nextID + 1
              /\ agenda' = Denied(program, agenda, turn)
              /\ UNCHANGED <<misread, flying>>
           \/ /\ ~Barred /\ halt = "no"
              /\ nextID' = nextID + 1
              /\ agenda' = turn.next["ok"]
              /\ IF nextID \in DOMAIN records
                 THEN /\ misread' = (misread \/ records[nextID].asked # turn.asks)
                      /\ UNCHANGED flying
                 ELSE flying' = With(flying, nextID, turn.asks) /\ UNCHANGED misread
    /\ UNCHANGED <<deployed, phase, records, live, halt, results, bounds>>

-----------------------------------------------------------------------------
(* The workflow goroutine: the ends of pipes. *)

EndArmOrVia ==
    /\ Running /\ EndsIn(program, agenda, {"switch", "via"})
    /\ Quiet(EndedArmOrVia(program, agenda))

EndIteration ==
    /\ Running /\ EndsIn(program, agenda, {"loop"})
    /\ IF Unjudged(agenda) THEN Quiet(EndedUnjudged(program, agenda))
       ELSE RunStep(VerdictTurn(program, agenda)) /\ Untouched

\* A success is emitted, a failure given to the handler.
EndRescued ==
    /\ Running /\ EndsIn(program, agenda, {"rescue"})
    /\ IF Head(agenda).cause = None THEN Quiet(EndedUnrescued(program, agenda))
       ELSE RunStep(RescueTurn(program, agenda, nextID, live)) /\ Untouched

\* Mutant: only a success waits for the side step.
AwaitedOnSuccess(end) == end.cause # None \/ end.side \notin DOMAIN flying

\* Mutant: waits for the record of a step that was stopped.
AwaitedByRecord(end) == end.side \in DOMAIN records

Awaited(end) == end.side \notin DOMAIN flying

SideCause(recs, side) ==
    IF side \notin DOMAIN recs THEN Refused
    ELSE IF recs[side].result = "error" THEN Failure("step", side)
    ELSE None

\* The side step is awaited; a failure of it alone is given to the handler.
EndAlongside ==
    /\ Running /\ EndsIn(program, agenda, {"alongside"})
    /\ Awaited(Head(agenda))
    /\ LET sideCause == SideCause(records, Head(agenda).side)
       IN  IF Head(agenda).cause # None \/ sideCause = None
           THEN Quiet(EndedAwaited(program, agenda))
           ELSE RunStep(SideTurn(program, agenda, sideCause, live)) /\ Untouched

EndRun ==
    /\ Running /\ EndsRoot(agenda)
    /\ phase' = "ended" /\ agenda' = <<>> /\ live' = {}
    /\ outcome' = Outcome(agenda)
    /\ outcomes' = IF halt = "no" THEN outcomes \cup {Outcome(agenda)}
                   ELSE outcomes
    /\ UNCHANGED <<deployed, nextID, database, flying, halt, bounds>>

-----------------------------------------------------------------------------
(* The side step, the process and DBOS. *)

\* A side step returns; if its process is being stopped, perhaps unrecorded.
SideReturns ==
    /\ phase = "running"
    /\ \E id \in DOMAIN flying :
          /\ flying' = Restrict(flying, DOMAIN flying \ {id})
          /\ \/ \E result \in {"ok", "error"} :
                   records' = With(records, id, [asked |-> flying[id], result |-> result])
             \/ halt = "stop" /\ UNCHANGED records
    /\ UNCHANGED <<deployed, phase, agenda, nextID, misread, live, halt, results, bounds>>

ShapeAgrees(p) == shape \in {<<>>, p}

Initial(p) == Start(p, "root", Item(0, 1), 1, 0)

\* An execution begins with the shape: recorded, or compared with the record.
Begin ==
    /\ phase = "pending"
    /\ program' \in IF "deploy" \in Env /\ crashes + forks > 0 THEN Programs
                    ELSE {program}
    /\ nextID' = 1
    /\ IF ShapeAgrees(program')
       THEN /\ shape' = program'
            /\ phase' = "running" /\ agenda' = Initial(program')
            /\ UNCHANGED outcome
       ELSE /\ phase' = "ended" /\ agenda' = <<>>
            /\ outcome' = [NoOutcome EXCEPT !.kind = "shape"]
            /\ UNCHANGED shape
    /\ UNCHANGED <<database, flying, live, halt, outcomes, bounds>>

\* Close stops the process, or a Cancel reaches the run: DBOS lets the
\* execution take no further step.
Halt ==
    /\ phase = "running" /\ halt = "no"
    /\ \/ "stop" \in Env /\ crashes < MaxCrashes
          /\ halt' = "stop" /\ crashes' = crashes + 1
       \/ "cancel" \in Env /\ halt' = "cancel" /\ UNCHANGED crashes
    /\ UNCHANGED <<deployed, phase, agenda, nextID, database, flying, live, results, forks>>

PhaseAfter(ended) ==
    CASE halt = "cancel" -> "cancelled" [] halt = "stop" -> "pending" [] OTHER -> ended

RecordOutcome ==
    /\ phase = "ended"
    /\ phase' = PhaseAfter("recorded")
    /\ halt' = "no"
    /\ UNCHANGED <<deployed, agenda, nextID, database, flying, live, results, bounds>>

Crash ==
    /\ phase \in {"running", "ended"} /\ crashes < MaxCrashes
    /\ phase' = PhaseAfter("pending")
    /\ crashes' = crashes + 1
    /\ agenda' = <<>> /\ flying' = <<>> /\ live' = {} /\ halt' = "no"
    /\ outcome' = NoOutcome
    /\ UNCHANGED <<deployed, nextID, database, outcomes, forks>>

\* ForkFromStage: a new run with the steps recorded before the stage's first.
Fork ==
    /\ phase \in {"recorded", "cancelled"} /\ forks < MaxForks
    /\ \E at \in {records[id].asked.at : id \in DOMAIN records} :
          LET first == Min({id \in DOMAIN records : records[id].asked.at = at})
          IN  records' = Restrict(records, {id \in DOMAIN records : id < first})
    /\ phase' = "pending" /\ forks' = forks + 1
    /\ outcome' = NoOutcome /\ outcomes' = {}
    /\ UNCHANGED <<deployed, agenda, nextID, flying, live, halt, crashes, misread>>

-----------------------------------------------------------------------------
Goroutine ==
    \/ Drop \/ Leave \/ Complete \/ CloseStream \/ PlainStage \/ Accumulate \/ Dispatch \/ Embed \/ Launch
    \/ EndArmOrVia \/ EndIteration \/ EndRescued \/ EndAlongside \/ EndRun

Next == Goroutine \/ SideReturns \/ Begin \/ RecordOutcome \/ Halt \/ Crash \/ Fork

Spec == Init /\ [][Next]_vars

\* The goroutine runs, side steps return, and some process executes the run
\* until its outcome is recorded.
FairSpec ==
    /\ Spec
    /\ WF_vars(Goroutine) /\ WF_vars(SideReturns)
    /\ WF_vars(Begin) /\ WF_vars(RecordOutcome)

-----------------------------------------------------------------------------
\* The state keeps its types, every pipe on the agenda ends behind its items and
\* inside the pipe it is embedded in, and a step in flight has no record
\* (collectSub, forwardSub, Alongside).
TypeOK ==
    /\ program \in Programs /\ shape \in Programs \cup {<<>>}
    /\ phase \in {"pending", "running", "ended", "recorded", "cancelled"}
    /\ halt \in {"no", "stop", "cancel"}
    /\ nextID \in Nat /\ misread \in BOOLEAN
    /\ crashes \in 0..MaxCrashes /\ forks \in 0..MaxForks
    /\ DOMAIN records \cup DOMAIN flying \cup live \subseteq Nat
    /\ DOMAIN flying \cap DOMAIN records = {}
    /\ agenda \in Seq(Tasks(program))
    /\ phase = "running" => Nested(program, agenda)

\* A step reads the record of the same stage, with the same input and the same
\* cause, whatever crashed, was forked or redeployed before: "the Nth step call
\* on recovery is the same logical operation" (README.md 866-867, verifyShape).
NoMisread == ~misread

\* Executions that nobody disturbs come to one outcome: "recovery never flips a
\* swallowed failure into a propagated one or vice versa" (Rescue's comment).
OneOutcome == \A u, v \in outcomes : u = v

\* ErrAborted "never surfaces from Run" (duro.go 133-136), and no handler is
\* recorded for it or for an execution that was stopped or cancelled.
GenuineCauses ==
    /\ outcome.cause.kind # "aborted"
    /\ \A id \in DOMAIN records :
           records[id].asked.cause.kind \in {"none", "step", "max_iterations"}

\* No step is taken behind a failure that no Rescue has taken up: "once any stage
\* fails, a shared abort flag prevents items behind the failure from executing
\* further stages" (duro.go 32-35).
FailFast ==
    [][phase = "running" /\ nextID' > nextID =>
          \A i \in 2..Scope(program, Tail(agenda)) + 1 :
              agenda[i].op = "end" => agenda[i].cause = None]_vars

\* The same, but for a Loop that gave up, which raises no abort flag (flow.go 189):
\* the steps in front of it, and the pipe of a Via around it, go on with the items
\* behind it.
FailFastButLoops ==
    [][phase = "running" /\ nextID' > nextID =>
          \A i \in 2..Scope(program, Tail(agenda)) + 1 :
              agenda[i].op = "end" => agenda[i].cause \in {None, MaxIterations}]_vars

\* A side step never outlives its stage, whichever of the two fails: it would
\* checkpoint into a finished run (Alongside).
NoStepOutlives == phase # "running" => DOMAIN flying = {}

\* The run ends, however often it was executed, stopped or forked (Run).
RunEnds == []<>(phase \in {"recorded", "cancelled"})
=============================================================================
