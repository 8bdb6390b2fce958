------------------------------ MODULE RunControl ------------------------------
(***************************************************************************)
(* Status, Cancel and Resume of one run (control.go, status.go) and the    *)
(* retention sweep that deletes it (workerpool.go), statement by           *)
(* statement: callers on any process (the App's and the Client's calls run *)
(* the same core functions) against a run that executors dequeue, start,   *)
(* finish and restart meanwhile.  Any statement may fail, and a write that *)
(* reports an error may have committed.                                    *)
(***************************************************************************)
EXTENDS Integers

CONSTANTS
    Callers,        \* concurrent callers, each with one call in progress
    MaxAttempts,    \* DBOS's recovery-attempt limit
    MaxResumes,     \* bound: no Resume is called after so many applied
    MaxSubmits      \* bound on the submissions of the workflow ID

ASSUME ControlAssumption ==
    /\ MaxAttempts \in Nat /\ MaxResumes \in Nat /\ MaxSubmits \in Nat

VARIABLES
    status,         \* workflow_status.status, "absent" when there is no row
    attempts,       \* workflow_status.recovery_attempts
    executing,      \* an executor is inside a stage of this run
    row,            \* the run has execution rows
    op, at,         \* op[c], at[c]: c's call and the statement it is at
    read,           \* read[c]: what c's status read found, and its Err
    answer,         \* answer[c]: what c's last call returned
    retention,      \* where the fleet's one retention sweep is
    seen,           \* history: the views of the run during c's call
    revivals,       \* history: how often Resume applied
    stops,          \* history: how often the run was cancelled or parked
    submits,        \* how often the ID was submitted
    overtaken       \* history: the run was resumed, or its ID submitted
                    \* again, since retention listed it

runVars  == <<status, attempts, executing, row>>
callVars == <<op, at, read, answer>>
tally    == <<revivals, stops, submits>>
vars == <<runVars, callVars, retention, seen, tally, overtaken>>

Live == {"DELAYED", "ENQUEUED", "PENDING"}
Final == {"SUCCESS", "ERROR", "CANCELLED", "DEAD"}
Failed(s) == s \in Final /\ s # "SUCCESS"
\* A run as its status shows it.
ViewOf(s, n) ==
    CASE s \in Live                  -> "live"
      [] s = "CANCELLED" /\ n > 0    -> "CANCELLED after a start"
      [] OTHER                       -> s
Views == {"absent", "live", "CANCELLED after a start"} \cup Final
FinalViews == Views \ {"absent", "live"}
FailedViews == FinalViews \ {"SUCCESS"}
View == ViewOf(status, attempts)

Answers == {"none", "nil", "status", "error", "ErrRunNotFound",
            "ErrRunTerminal", "ErrRunInFlight", "ErrRunActive",
            "changed concurrently"}
Nothing == [view |-> "absent", err |-> "nil"]

\* The type invariant.
TypeOK ==
    /\ status \in {"absent"} \cup Live \cup Final /\ attempts \in Nat
    /\ executing \in BOOLEAN /\ row \in BOOLEAN
    /\ op \in [Callers -> {"none", "status", "cancel", "resume"}]
    /\ at \in [Callers -> {"idle", "read", "reason", "write"}]
    /\ read \in [Callers -> [view : Views,
                             err : {"nil", "synthesized", "recorded"}]]
    /\ answer \in [Callers -> Answers]
    /\ retention \in {"idle", "listed", "deleted"}
    /\ seen \in [Callers -> SUBSET Views]
    /\ revivals \in Nat /\ stops \in Nat /\ submits \in Nat
    /\ overtaken \in BOOLEAN

Init ==
    /\ status = "absent" /\ attempts = 0 /\ executing = FALSE /\ row = FALSE
    /\ op = [c \in Callers |-> "none"] /\ at = [c \in Callers |-> "idle"]
    /\ read = [c \in Callers |-> Nothing]
    /\ answer = [c \in Callers |-> "none"]
    /\ retention = "idle"
    /\ seen = [c \in Callers |-> {}]
    /\ revivals = 0 /\ stops = 0 /\ submits = 0 /\ overtaken = FALSE

-----------------------------------------------------------------------------

\* Every call in progress witnesses what the step makes of the run.
Witness ==
    seen' = [c \in Callers |->
        IF at'[c] = "idle" THEN {} ELSE seen[c] \cup {View, View'}]

Goes(c, place) == at' = [at EXCEPT ![c] = place]
Keeps(c) == UNCHANGED <<op, read, answer>>

Returns(c, a) ==
    /\ Goes(c, "idle")
    /\ answer' = [answer EXCEPT ![c] = a]
    /\ UNCHANGED op

\* A call forgets what the caller's last one read and returned.
CallBegins(c, what, first) ==
    /\ at[c] = "idle" /\ Goes(c, first)
    /\ op' = [op EXCEPT ![c] = what]
    /\ read' = [read EXCEPT ![c] = Nothing]
    /\ answer' = [answer EXCEPT ![c] = "none"]
    /\ UNCHANGED <<runVars, retention, tally, overtaken>> /\ Witness

StatusCalled(c) == CallBegins(c, "status", "read")
CancelCalled(c) == CallBegins(c, "cancel", "read")
ResumeCalled(c) == revivals < MaxResumes /\ CallBegins(c, "resume", "write")

\* Mutant: every cancelled run reads as in flight.
ExplanationByState(view) ==
    CASE view \in {"SUCCESS", "ERROR"}                         -> "ErrRunTerminal"
      [] view \in {"CANCELLED", "CANCELLED after a start"}     -> "ErrRunInFlight"
      [] view = "DEAD"                                         -> "changed concurrently"
      [] OTHER                                                 -> "ErrRunActive"

\* resumeRun's reading of the status, which only explains the refusal.
Explanation(view) ==
    CASE view \in {"SUCCESS", "ERROR"}        -> "ErrRunTerminal"
      [] view = "CANCELLED after a start"     -> "ErrRunInFlight"
      [] view \in {"CANCELLED", "DEAD"}       -> "changed concurrently"
      [] OTHER                                -> "ErrRunActive"

\* What the call makes of the status it read.
Concludes(c, view) ==
    \/ op[c] = "status" /\ Returns(c, "status")
    \/ op[c] = "cancel" /\ view \in FinalViews /\ Returns(c, "ErrRunTerminal")
    \/ /\ op[c] = "cancel" /\ view \notin FinalViews
       /\ Goes(c, "write") /\ UNCHANGED <<op, answer>>
    \/ op[c] = "resume" /\ Returns(c, Explanation(view))

\* listRuns' first query, which loads no error.
Reads(c) ==
    /\ at[c] = "read"
    /\ \/ /\ status = "absent" /\ Returns(c, "ErrRunNotFound")
          /\ UNCHANGED read
       \/ /\ status # "absent"
          /\ read' = [read EXCEPT ![c] =
                 [view |-> View,
                  err |-> IF Failed(status) THEN "synthesized" ELSE "nil"]]
          /\ IF Failed(status) THEN Goes(c, "reason") /\ UNCHANGED <<op, answer>>
                               ELSE Concludes(c, View)
    /\ UNCHANGED <<runVars, retention, tally, overtaken>> /\ Witness

\* Its second query, for the error the run has recorded by then.
ReadsReason(c) ==
    /\ at[c] = "reason"
    /\ read' = [read EXCEPT ![c] =
           [view |-> @.view,
            err |-> IF status = "ERROR" THEN "recorded" ELSE @.err]]
    /\ Concludes(c, read[c].view)
    /\ UNCHANGED <<runVars, retention, tally, overtaken>> /\ Witness

ReadFails(c) ==
    /\ at[c] \in {"read", "reason"} /\ Returns(c, "error")
    /\ UNCHANGED <<read, runVars, retention, tally, overtaken>> /\ Witness

\* dbos.CancelWorkflow, which skips a run that is in a final state by now.
CancelWrites(c) ==
    /\ op[c] = "cancel" /\ at[c] = "write"
    /\ Returns(c, IF status = "absent" THEN "ErrRunNotFound" ELSE "nil")
    /\ status' = IF status \in Live THEN "CANCELLED" ELSE status
    /\ stops' = IF status \in Live THEN stops + 1 ELSE stops
    /\ UNCHANGED <<attempts, executing, row, read, retention, revivals, submits,
                   overtaken>>
    /\ Witness

\* Mutant: DBOS's own resume admits a run that is waiting or executing.
ResumableByDBOS == status \notin {"absent", "SUCCESS", "ERROR"}
\* Mutant: any stopped run.
ResumableStopped == status \in {"DEAD", "CANCELLED"}
Resumable == status = "DEAD" \/ (status = "CANCELLED" /\ attempts = 0)

\* resumeSQL: the guard and the transition are one statement.
Revives ==
    /\ Resumable
    /\ status' = "ENQUEUED" /\ attempts' = 0
    /\ revivals' = revivals + 1
    /\ overtaken' = (overtaken \/ retention # "idle")
    /\ UNCHANGED <<executing, row, stops, submits, retention>>

ResumeApplies(c) ==
    /\ op[c] = "resume" /\ at[c] = "write"
    /\ Revives
    /\ Returns(c, "nil") /\ UNCHANGED read /\ Witness

ResumeMisses(c) ==
    /\ op[c] = "resume" /\ at[c] = "write"
    /\ ~Resumable
    /\ Goes(c, "read") /\ Keeps(c)
    /\ UNCHANGED <<runVars, retention, tally, overtaken>> /\ Witness

\* The write reported an error; ResumeLost is one that committed.
WriteFails(c) ==
    /\ at[c] = "write" /\ Returns(c, "error")
    /\ UNCHANGED <<read, runVars, retention, tally, overtaken>> /\ Witness

ResumeLost(c) ==
    /\ op[c] = "resume" /\ at[c] = "write"
    /\ Revives
    /\ Returns(c, "error") /\ UNCHANGED read /\ Witness

-----------------------------------------------------------------------------
(* Retention: one sweep at a time, under its advisory lock.  Time is not   *)
(* modelled: a final run may be as old as retention asks.                  *)

SweepFrame == UNCHANGED <<callVars, tally>> /\ Witness

\* Mutant: by age alone.
ExpiredByAge == status # "absent"
Expired == status \in Final

RetentionLists ==
    /\ retention = "idle" /\ Expired
    /\ retention' = "listed" /\ overtaken' = FALSE
    /\ UNCHANGED runVars /\ SweepFrame

\* DeleteWorkflows goes by the IDs of the list.  An execution that is left
\* behind is not followed any further.
DeletesRun ==
    /\ status' = "absent" /\ attempts' = 0 /\ executing' = FALSE
    /\ UNCHANGED row

RetentionDeletes ==
    /\ retention = "listed" /\ retention' = "deleted"
    /\ DeletesRun
    /\ UNCHANGED overtaken /\ SweepFrame

\* The execution rows, in a statement of their own.
RetentionDeletesRows ==
    /\ retention = "deleted" /\ retention' = "idle"
    /\ row' = FALSE
    /\ UNCHANGED <<status, attempts, executing, overtaken>> /\ SweepFrame

\* The sweep ends early, its process's or its statement's fault; the statement
\* may have committed.  Outside worker-pool mode no rows are deleted.
RetentionStops ==
    /\ retention # "idle" /\ retention' = "idle"
    /\ \/ UNCHANGED runVars
       \/ retention = "listed" /\ DeletesRun
    /\ UNCHANGED overtaken /\ SweepFrame

-----------------------------------------------------------------------------
(* The run itself, as DBOS and the executors move it.                      *)

RunMoves == UNCHANGED <<callVars, retention, revivals>> /\ Witness

Submitted ==
    /\ status = "absent" /\ submits < MaxSubmits
    /\ status' \in {"DELAYED", "ENQUEUED"}
    /\ submits' = submits + 1
    /\ overtaken' = (overtaken \/ retention # "idle")
    /\ UNCHANGED <<attempts, executing, row, stops>> /\ RunMoves

DelayPasses ==
    /\ status = "DELAYED" /\ status' = "ENQUEUED"
    /\ UNCHANGED <<attempts, executing, row, stops, submits, overtaken>>
    /\ RunMoves

Dequeued ==
    /\ status = "ENQUEUED" /\ status' = "PENDING"
    /\ UNCHANGED <<attempts, executing, row, stops, submits, overtaken>>
    /\ RunMoves

\* A start counts; past the budget the run is parked instead.
Started ==
    /\ status = "PENDING" /\ ~executing /\ attempts <= MaxAttempts
    /\ attempts' = attempts + 1 /\ executing' = TRUE /\ row' = TRUE
    /\ UNCHANGED <<status, stops, submits, overtaken>> /\ RunMoves

Parked ==
    /\ status = "PENDING" /\ ~executing /\ attempts > MaxAttempts
    /\ status' = "DEAD" /\ attempts' = attempts + 1 /\ stops' = stops + 1
    /\ UNCHANGED <<executing, row, submits, overtaken>> /\ RunMoves

\* The executor dies, or its stage returns after a cancel.
ExecutionGone ==
    /\ executing /\ executing' = FALSE
    /\ UNCHANGED <<status, attempts, row, stops, submits, overtaken>> /\ RunMoves

\* Takeover or recovery re-enqueues what a dead executor left.
Recovered ==
    /\ status = "PENDING" /\ ~executing /\ status' = "ENQUEUED"
    /\ UNCHANGED <<attempts, executing, row, stops, submits, overtaken>>
    /\ RunMoves

Finished ==
    /\ status = "PENDING" /\ executing /\ executing' = FALSE
    /\ status' \in {"SUCCESS", "ERROR"}
    /\ UNCHANGED <<attempts, row, stops, submits, overtaken>> /\ RunMoves

CallStep(c) ==
    \/ StatusCalled(c) \/ CancelCalled(c) \/ ResumeCalled(c)
    \/ Reads(c) \/ ReadsReason(c) \/ ReadFails(c)
    \/ CancelWrites(c) \/ ResumeApplies(c) \/ ResumeMisses(c)
    \/ WriteFails(c) \/ ResumeLost(c)

RetentionStep ==
    \/ RetentionLists \/ RetentionDeletes \/ RetentionDeletesRows
    \/ RetentionStops

RunStep ==
    \/ Submitted \/ DelayPasses \/ Dequeued \/ Started \/ Parked
    \/ ExecutionGone \/ Recovered \/ Finished

Next == RunStep \/ RetentionStep \/ \E c \in Callers : CallStep(c)

Spec == Init /\ [][Next]_vars

-----------------------------------------------------------------------------
(* The inductive invariant behind the safety properties.                   *)

\* A stage in flight has been counted, and holds its run against Resume.
StagesCounted ==
    executing => attempts > 0 /\ status \in {"PENDING", "CANCELLED"}

\* A stopped run has a stop that no Resume has undone.
StopsCounted ==
    /\ revivals <= stops
    /\ status \in {"CANCELLED", "DEAD"} => revivals < stops

\* What retention listed stays as it was unless it is overtaken.
ListedStays ==
    ~overtaken =>
        /\ retention = "listed" => status \in Final
        /\ retention = "deleted" => status = "absent" /\ ~executing

\* A call that read the run, or failed to resume it, saw the run that way.
ReadsWereSeen ==
    \A c \in Callers :
        /\ at[c] = "reason" =>
               /\ read[c].view \in seen[c] \cap FailedViews
               /\ read[c].err = "synthesized"
               /\ read[c].view = "ERROR" =>
                      status = "ERROR" \/ seen[c] \ {"SUCCESS", "ERROR"} # {}
        /\ op[c] = "resume" /\ at[c] \in {"read", "reason"} =>
               seen[c] \ {"CANCELLED", "DEAD"} # {}

IInv ==
    /\ TypeOK /\ StagesCounted /\ StopsCounted /\ ListedStays
    /\ ReadsWereSeen

-----------------------------------------------------------------------------
(* Properties.                                                             *)

\* Resume applies at most once per stop of the run, however many callers race
\* each other, the executors and the loss of their answers: "concurrent Resumes
\* cannot both apply" (control.go 68-72, 131-132).
OneResumePerStop == revivals <= stops

\* "The guard admits exactly the runs no executor can be executing": Resume
\* never applies under a stage in flight (control.go 74-79).
ResumeSparesStages == [][revivals' > revivals => ~executing]_vars

\* Was(c, V): the run was in V at some point of c's call.
Was(c, V) == (seen[c] \cup {View, View'}) \cap V # {}
TrueReport(c) ==
    LET r == read'[c] IN
    /\ Was(c, {r.view})
    /\ r.err = "nil" <=> r.view \notin FailedViews
    /\ r.err = "recorded" => Was(c, {"ERROR"})
    /\ r.err = "synthesized" => Was(c, Views \ {"SUCCESS", "ERROR"})
TrueAnswer(c, a) ==
    CASE a = "ErrRunNotFound" -> Was(c, {"absent"})
      [] a = "ErrRunTerminal" -> Was(c, FinalViews)
      [] a = "ErrRunInFlight" -> Was(c, {"CANCELLED after a start"})
      [] a = "ErrRunActive"   -> Was(c, {"live"})
      [] a = "changed concurrently" ->
             Was(c, {"CANCELLED", "DEAD"})
             /\ Was(c, Views \ {"CANCELLED", "DEAD"})
      [] a = "nil" -> Was(c, IF op[c] = "cancel" THEN FinalViews ELSE {"live"})
      [] a = "status" -> TrueReport(c)
      [] OTHER -> TRUE
\* Whatever a call returns was true of the run at some point of it, although it
\* reads the run in up to three statements and writes it in another: a Cancel
\* that returned nil left a final run, a refusal names a state the run was in,
\* a failed run's Err is its own (control.go 52-66, 139-182; status.go 215-240).
AnswersAreTrue ==
    [][\A c \in Callers :
           at[c] # "idle" /\ at'[c] = "idle" => TrueAnswer(c, answer'[c])]_vars

\* A run retention deletes is final, unless it was resumed, or its ID submitted
\* again, since it was listed; and no execution loses its row but to that
\* (workerpool.go 968-1005).
RetentionSparesLive ==
    [][/\ status # "absent" /\ status' = "absent" => status \in Final \/ overtaken
       /\ row /\ ~row' => ~executing \/ overtaken]_vars
===============================================================================
