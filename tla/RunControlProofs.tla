--------------------------- MODULE RunControlProofs ---------------------------
(***************************************************************************)
(* Theorems about RunControl, for every set of callers and every bound.    *)
(* IInv is inductive; each of its parts has a lemma of its own.            *)
(***************************************************************************)
EXTENDS RunControl, TLAPS

\* The actions by what they do to the run, for the parts that leave the calls
\* aside: calls that only read, calls that write, retention and the executors.
CallReads(c) ==
    \/ StatusCalled(c) \/ CancelCalled(c) \/ ResumeCalled(c)
    \/ Reads(c) \/ ReadsReason(c) \/ ReadFails(c)
    \/ ResumeMisses(c) \/ WriteFails(c)

\* A call's reading step leaves the run, retention and the tallies alone.
LEMMA ReadsOnly ==
    ASSUME NEW c \in Callers, CallReads(c)
    PROVE  UNCHANGED <<runVars, retention, tally, overtaken>>
BY DEF CallReads, StatusCalled, CancelCalled, ResumeCalled, CallBegins, Reads,
   ReadsReason, ReadFails, ResumeMisses, WriteFails

\* Every state of the run has its view.
LEMMA ViewTyped == TypeOK => View \in Views
BY DEF TypeOK, View, ViewOf, Views, Live, Final

\* TypeOK's halves: the run with retention and the tallies, and the calls.
RunTypes ==
    /\ status \in {"absent"} \cup Live \cup Final /\ attempts \in Nat
    /\ executing \in BOOLEAN /\ row \in BOOLEAN
    /\ retention \in {"idle", "listed", "deleted"}
    /\ revivals \in Nat /\ stops \in Nat /\ submits \in Nat
    /\ overtaken \in BOOLEAN
CallTypes ==
    /\ op \in [Callers -> {"none", "status", "cancel", "resume"}]
    /\ at \in [Callers -> {"idle", "read", "reason", "write"}]
    /\ read \in [Callers -> [view : Views,
                             err : {"nil", "synthesized", "recorded"}]]
    /\ answer \in [Callers -> Answers]

\* The run, retention and the tallies keep their types.
LEMMA RunTyped ==
    ASSUME RunTypes, [Next]_vars
    PROVE  RunTypes'
<1> USE DEF RunTypes, Live, Final, callVars, runVars, tally
<1>1. ASSUME NEW c \in Callers, CallReads(c)
      PROVE  RunTypes'
  BY <1>1, ReadsOnly
<1>2. ASSUME NEW c \in Callers, CancelWrites(c)
      PROVE  RunTypes'
  BY <1>2 DEF CancelWrites
<1>3. ASSUME Revives
      PROVE  RunTypes'
  BY <1>3 DEF Revives, Resumable
<1>4. CASE RetentionLists
  BY <1>4 DEF RetentionLists, Expired, SweepFrame
<1>5. CASE RetentionDeletes
  BY <1>5 DEF RetentionDeletes, DeletesRun, SweepFrame
<1>6. CASE RetentionDeletesRows
  BY <1>6 DEF RetentionDeletesRows, SweepFrame
<1>7. CASE RetentionStops
  <2>1. CASE UNCHANGED runVars
    BY <1>7, <2>1 DEF RetentionStops, SweepFrame
  <2>2. CASE DeletesRun
    BY <1>7, <2>2 DEF RetentionStops, DeletesRun, SweepFrame
  <2> QED BY <1>7, <2>1, <2>2 DEF RetentionStops
<1>8. CASE Submitted
  BY <1>8 DEF Submitted, RunMoves
<1>9. CASE DelayPasses
  BY <1>9 DEF DelayPasses, RunMoves
<1>10. CASE Dequeued
  BY <1>10 DEF Dequeued, RunMoves
<1>11. CASE Started
  BY <1>11 DEF Started, RunMoves
<1>12. CASE Parked
  BY <1>12 DEF Parked, RunMoves
<1>13. CASE ExecutionGone
  BY <1>13 DEF ExecutionGone, RunMoves
<1>14. CASE Recovered
  BY <1>14 DEF Recovered, RunMoves
<1>15. CASE Finished
  BY <1>15 DEF Finished, RunMoves
<1>16. CASE UNCHANGED vars
  BY <1>16 DEF vars
<1> QED
  BY <1>1, <1>2, <1>3, <1>4, <1>5, <1>6, <1>7, <1>8, <1>9, <1>10, <1>11,
     <1>12, <1>13, <1>14, <1>15, <1>16 DEF Next, CallStep, CallReads,
     ResumeApplies, ResumeLost, RetentionStep, RunStep

\* The calls keep their types.
LEMMA CallsTyped ==
    ASSUME RunTypes, CallTypes, View \in Views, [Next]_vars
    PROVE  CallTypes'
<1> USE DEF CallTypes, Goes, Returns, Keeps, runVars, tally
<1>1. ASSUME NEW c \in Callers,
             StatusCalled(c) \/ CancelCalled(c) \/ ResumeCalled(c)
      PROVE  CallTypes'
  <2>1. PICK what \in {"status", "cancel", "resume"},
             first \in {"read", "write"} : CallBegins(c, what, first)
    BY <1>1 DEF StatusCalled, CancelCalled, ResumeCalled
  <2>2. Nothing \in [view : Views, err : {"nil", "synthesized", "recorded"}]
    BY DEF Nothing, Views
  <2> QED BY <2>1, <2>2 DEF CallBegins, Answers
<1>2. ASSUME NEW c \in Callers, NEW view \in Views, Concludes(c, view)
      PROVE  /\ op' = op
             /\ at' \in [Callers -> {"idle", "read", "reason", "write"}]
             /\ answer' \in [Callers -> Answers]
  BY <1>2 DEF Concludes, Explanation, Answers
<1>3. ASSUME NEW c \in Callers, Reads(c)
      PROVE  CallTypes'
  <2>1. read' \in [Callers -> [view : Views,
                               err : {"nil", "synthesized", "recorded"}]]
    BY <1>3 DEF Reads
  <2>2. /\ op' \in [Callers -> {"none", "status", "cancel", "resume"}]
        /\ at' \in [Callers -> {"idle", "read", "reason", "write"}]
        /\ answer' \in [Callers -> Answers]
    BY <1>2, <1>3 DEF Reads, Answers
  <2> QED BY <2>1, <2>2
<1>4. ASSUME NEW c \in Callers, ReadsReason(c)
      PROVE  CallTypes'
  <2>1. read[c].view \in Views
    OBVIOUS
  <2>2. read' \in [Callers -> [view : Views,
                               err : {"nil", "synthesized", "recorded"}]]
    BY <1>4 DEF ReadsReason
  <2> QED BY <1>2, <1>4, <2>1, <2>2 DEF ReadsReason
<1>5. ASSUME NEW c \in Callers,
             \/ ReadFails(c) \/ CancelWrites(c) \/ ResumeApplies(c)
             \/ ResumeMisses(c) \/ WriteFails(c) \/ ResumeLost(c)
      PROVE  CallTypes'
  BY <1>5 DEF ReadFails, CancelWrites, ResumeApplies, ResumeMisses, WriteFails,
     ResumeLost, Answers
<1>6. CASE RetentionStep \/ UNCHANGED vars
  BY <1>6 DEF RetentionStep, RetentionLists, RetentionDeletes,
     RetentionDeletesRows, RetentionStops, SweepFrame, vars, callVars
<1>7. CASE RunStep
  BY <1>7 DEF RunStep, Submitted, DelayPasses, Dequeued, Started, Parked,
     ExecutionGone, Recovered, Finished, RunMoves, callVars
<1> QED
  BY <1>1, <1>3, <1>4, <1>5, <1>6, <1>7 DEF Next, CallStep

\* Every step that moves a call or the run is witnessed.
LEMMA Witnessed == Next => Witness
BY DEF Next, CallStep, StatusCalled, CancelCalled, ResumeCalled, CallBegins,
   Reads, ReadsReason, ReadFails, CancelWrites, ResumeApplies, ResumeMisses,
   WriteFails, ResumeLost, RetentionStep, RetentionLists, RetentionDeletes,
   RetentionDeletesRows, RetentionStops, SweepFrame, RunStep, Submitted,
   DelayPasses, Dequeued, Started, Parked, ExecutionGone, Recovered, Finished,
   RunMoves

\* The type invariant is inductive.
LEMMA TypePreserved == TypeOK /\ [Next]_vars => TypeOK'
<1> SUFFICES ASSUME TypeOK, [Next]_vars
             PROVE  TypeOK'
  OBVIOUS
<1>1. RunTypes /\ CallTypes
  BY DEF TypeOK, RunTypes, CallTypes
<1>2. RunTypes' /\ CallTypes'
  BY <1>1, RunTyped, CallsTyped, ViewTyped
<1>3. View' \in Views
  BY <1>2 DEF RunTypes, View, ViewOf, Views, Live, Final
<1>4. seen' \in [Callers -> SUBSET Views]
  <2>1. CASE Next
    BY <1>3, <2>1, ViewTyped, Witnessed DEF Witness, TypeOK
  <2>2. CASE UNCHANGED vars
    BY <2>2 DEF vars, TypeOK
  <2> QED BY <2>1, <2>2
<1> QED BY <1>2, <1>4 DEF TypeOK, RunTypes, CallTypes

\* A stage in flight stays counted, and its run out of Resume's reach.
LEMMA StagesPreserved ==
    TypeOK /\ StagesCounted /\ [Next]_vars => StagesCounted'
<1> SUFFICES ASSUME TypeOK, StagesCounted, [Next]_vars
             PROVE  StagesCounted'
  OBVIOUS
<1> USE DEF TypeOK, StagesCounted, Live, Final, callVars, runVars, tally
<1>1. ASSUME NEW c \in Callers, CallReads(c)
      PROVE  StagesCounted'
  BY <1>1, ReadsOnly
<1>2. ASSUME NEW c \in Callers, CancelWrites(c)
      PROVE  StagesCounted'
  BY <1>2 DEF CancelWrites
<1>3. ASSUME Revives
      PROVE  StagesCounted'
  BY <1>3 DEF Revives, Resumable
<1>4. CASE RetentionLists
  BY <1>4 DEF RetentionLists, Expired, SweepFrame
<1>5. CASE RetentionDeletes
  BY <1>5 DEF RetentionDeletes, DeletesRun, SweepFrame
<1>6. CASE RetentionDeletesRows
  BY <1>6 DEF RetentionDeletesRows, SweepFrame
<1>7. CASE RetentionStops
  <2>1. CASE UNCHANGED runVars
    BY <1>7, <2>1 DEF RetentionStops, SweepFrame
  <2>2. CASE DeletesRun
    BY <1>7, <2>2 DEF RetentionStops, DeletesRun, SweepFrame
  <2> QED BY <1>7, <2>1, <2>2 DEF RetentionStops
<1>8. CASE Submitted
  BY <1>8 DEF Submitted, RunMoves
<1>9. CASE DelayPasses
  BY <1>9 DEF DelayPasses, RunMoves
<1>10. CASE Dequeued
  BY <1>10 DEF Dequeued, RunMoves
<1>11. CASE Started
  BY <1>11 DEF Started, RunMoves
<1>12. CASE Parked
  BY <1>12 DEF Parked, RunMoves
<1>13. CASE ExecutionGone
  BY <1>13 DEF ExecutionGone, RunMoves
<1>14. CASE Recovered
  BY <1>14 DEF Recovered, RunMoves
<1>15. CASE Finished
  BY <1>15 DEF Finished, RunMoves
<1>16. CASE UNCHANGED vars
  BY <1>16 DEF vars
<1> QED
  BY <1>1, <1>2, <1>3, <1>4, <1>5, <1>6, <1>7, <1>8, <1>9, <1>10, <1>11,
     <1>12, <1>13, <1>14, <1>15, <1>16 DEF Next, CallStep, CallReads,
     ResumeApplies, ResumeLost, RetentionStep, RunStep

\* Every revival has its stop.
LEMMA StopsPreserved ==
    TypeOK /\ StopsCounted /\ [Next]_vars => StopsCounted'
<1> SUFFICES ASSUME TypeOK, StopsCounted, [Next]_vars
             PROVE  StopsCounted'
  OBVIOUS
<1> USE DEF TypeOK, StopsCounted, Live, Final, callVars, runVars, tally
<1>1. ASSUME NEW c \in Callers, CallReads(c)
      PROVE  StopsCounted'
  BY <1>1, ReadsOnly
<1>2. ASSUME NEW c \in Callers, CancelWrites(c)
      PROVE  StopsCounted'
  BY <1>2 DEF CancelWrites
<1>3. ASSUME Revives
      PROVE  StopsCounted'
  BY <1>3 DEF Revives, Resumable
<1>4. CASE RetentionLists
  BY <1>4 DEF RetentionLists, Expired, SweepFrame
<1>5. CASE RetentionDeletes
  BY <1>5 DEF RetentionDeletes, DeletesRun, SweepFrame
<1>6. CASE RetentionDeletesRows
  BY <1>6 DEF RetentionDeletesRows, SweepFrame
<1>7. CASE RetentionStops
  <2>1. CASE UNCHANGED runVars
    BY <1>7, <2>1 DEF RetentionStops, SweepFrame
  <2>2. CASE DeletesRun
    BY <1>7, <2>2 DEF RetentionStops, DeletesRun, SweepFrame
  <2> QED BY <1>7, <2>1, <2>2 DEF RetentionStops
<1>8. CASE Submitted
  BY <1>8 DEF Submitted, RunMoves
<1>9. CASE DelayPasses
  BY <1>9 DEF DelayPasses, RunMoves
<1>10. CASE Dequeued
  BY <1>10 DEF Dequeued, RunMoves
<1>11. CASE Started
  BY <1>11 DEF Started, RunMoves
<1>12. CASE Parked
  BY <1>12 DEF Parked, RunMoves
<1>13. CASE ExecutionGone
  BY <1>13 DEF ExecutionGone, RunMoves
<1>14. CASE Recovered
  BY <1>14 DEF Recovered, RunMoves
<1>15. CASE Finished
  BY <1>15 DEF Finished, RunMoves
<1>16. CASE UNCHANGED vars
  BY <1>16 DEF vars
<1> QED
  BY <1>1, <1>2, <1>3, <1>4, <1>5, <1>6, <1>7, <1>8, <1>9, <1>10, <1>11,
     <1>12, <1>13, <1>14, <1>15, <1>16 DEF Next, CallStep, CallReads,
     ResumeApplies, ResumeLost, RetentionStep, RunStep

\* A listed run that nobody resumed is still final when it is deleted.
LEMMA ListedPreserved ==
    TypeOK /\ ListedStays /\ [Next]_vars => ListedStays'
<1> SUFFICES ASSUME TypeOK, ListedStays, [Next]_vars
             PROVE  ListedStays'
  OBVIOUS
<1> USE DEF TypeOK, ListedStays, Live, Final, callVars, runVars, tally
<1>1. ASSUME NEW c \in Callers, CallReads(c)
      PROVE  ListedStays'
  BY <1>1, ReadsOnly
<1>2. ASSUME NEW c \in Callers, CancelWrites(c)
      PROVE  ListedStays'
  BY <1>2 DEF CancelWrites
<1>3. ASSUME Revives
      PROVE  ListedStays'
  BY <1>3 DEF Revives, Resumable
<1>4. CASE RetentionLists
  BY <1>4 DEF RetentionLists, Expired, SweepFrame
<1>5. CASE RetentionDeletes
  BY <1>5 DEF RetentionDeletes, DeletesRun, SweepFrame
<1>6. CASE RetentionDeletesRows
  BY <1>6 DEF RetentionDeletesRows, SweepFrame
<1>7. CASE RetentionStops
  <2>1. CASE UNCHANGED runVars
    BY <1>7, <2>1 DEF RetentionStops, SweepFrame
  <2>2. CASE DeletesRun
    BY <1>7, <2>2 DEF RetentionStops, DeletesRun, SweepFrame
  <2> QED BY <1>7, <2>1, <2>2 DEF RetentionStops
<1>8. CASE Submitted
  BY <1>8 DEF Submitted, RunMoves
<1>9. CASE DelayPasses
  BY <1>9 DEF DelayPasses, RunMoves
<1>10. CASE Dequeued
  BY <1>10 DEF Dequeued, RunMoves
<1>11. CASE Started
  BY <1>11 DEF Started, RunMoves
<1>12. CASE Parked
  BY <1>12 DEF Parked, RunMoves
<1>13. CASE ExecutionGone
  BY <1>13 DEF ExecutionGone, RunMoves
<1>14. CASE Recovered
  BY <1>14 DEF Recovered, RunMoves
<1>15. CASE Finished
  BY <1>15 DEF Finished, RunMoves
<1>16. CASE UNCHANGED vars
  BY <1>16 DEF vars
<1> QED
  BY <1>1, <1>2, <1>3, <1>4, <1>5, <1>6, <1>7, <1>8, <1>9, <1>10, <1>11,
     <1>12, <1>13, <1>14, <1>15, <1>16 DEF Next, CallStep, CallReads,
     ResumeApplies, ResumeLost, RetentionStep, RunStep

\* The step of a call is its caller's own.
LEMMA OwnStep ==
    ASSUME TypeOK, [Next]_vars, NEW d \in Callers, ~CallStep(d)
    PROVE  op'[d] = op[d] /\ at'[d] = at[d] /\ read'[d] = read[d]
<1>1. CASE RetentionStep \/ UNCHANGED vars
  BY <1>1 DEF RetentionStep, RetentionLists, RetentionDeletes,
     RetentionDeletesRows, RetentionStops, SweepFrame, vars, callVars
<1>2. CASE RunStep
  BY <1>2 DEF RunStep, Submitted, DelayPasses, Dequeued, Started, Parked,
     ExecutionGone, Recovered, Finished, RunMoves, callVars
<1>3. ASSUME NEW c \in Callers, c # d, CallStep(c)
      PROVE  op'[d] = op[d] /\ at'[d] = at[d] /\ read'[d] = read[d]
  <2> USE DEF TypeOK, Goes, Returns, Keeps
  <2>1. CASE StatusCalled(c) \/ CancelCalled(c) \/ ResumeCalled(c)
    BY <1>3, <2>1 DEF StatusCalled, CancelCalled, ResumeCalled, CallBegins
  <2>2. ASSUME NEW view, Concludes(c, view)
        PROVE  op'[d] = op[d] /\ at'[d] = at[d]
    BY <1>3, <2>2 DEF Concludes
  <2>3. CASE Reads(c)
    BY <1>3, <2>2, <2>3 DEF Reads
  <2>4. CASE ReadsReason(c)
    BY <1>3, <2>2, <2>4 DEF ReadsReason
  <2>5. CASE ReadFails(c) \/ CancelWrites(c) \/ ResumeApplies(c)
    BY <1>3, <2>5 DEF ReadFails, CancelWrites, ResumeApplies
  <2>6. CASE ResumeMisses(c) \/ WriteFails(c) \/ ResumeLost(c)
    BY <1>3, <2>6 DEF ResumeMisses, WriteFails, ResumeLost
  <2> QED BY <1>3, <2>1, <2>3, <2>4, <2>5, <2>6 DEF CallStep
<1> QED BY <1>1, <1>2, <1>3 DEF Next

\* A call in progress sees the run before and after each step.
LEMMA SeenGrows ==
    ASSUME TypeOK, Next, NEW d \in Callers, at'[d] # "idle"
    PROVE  seen'[d] = seen[d] \cup {View, View'}
BY Witnessed DEF Witness, TypeOK

\* A run that failed for good leaves that state only by being deleted.
LEMMA ErrorStays ==
    ASSUME TypeOK, [Next]_vars, status = "ERROR"
    PROVE  status' \in {"ERROR", "absent"}
<1>1. ASSUME NEW c \in Callers, CallReads(c)
      PROVE  status' = status
  BY <1>1, ReadsOnly DEF runVars
<1>2. ASSUME NEW c \in Callers, CancelWrites(c)
      PROVE  status' = status
  BY <1>2 DEF CancelWrites, Live
<1>3. ~Revives
  BY DEF Revives, Resumable
<1>4. CASE RetentionStep
  BY <1>4 DEF RetentionStep, RetentionLists, RetentionDeletes, DeletesRun,
     RetentionDeletesRows, RetentionStops, runVars
<1>5. CASE RunStep
  BY <1>5 DEF RunStep, Submitted, DelayPasses, Dequeued, Started, Parked,
     ExecutionGone, Recovered, Finished
<1>6. CASE UNCHANGED vars
  BY <1>6 DEF vars, runVars
<1> QED
  BY <1>1, <1>2, <1>3, <1>4, <1>5, <1>6
     DEF Next, CallStep, CallReads, ResumeApplies, ResumeLost

\* Calls saw what they read.
LEMMA SeenPreserved ==
    TypeOK /\ ReadsWereSeen /\ [Next]_vars => ReadsWereSeen'
<1> SUFFICES ASSUME TypeOK, ReadsWereSeen, [Next]_vars, NEW d \in Callers
             PROVE
        /\ at'[d] = "reason" =>
               /\ read'[d].view \in seen'[d] \cap FailedViews
               /\ read'[d].err = "synthesized"
               /\ read'[d].view = "ERROR" =>
                      status' = "ERROR" \/ seen'[d] \ {"SUCCESS", "ERROR"} # {}
        /\ op'[d] = "resume" /\ at'[d] \in {"read", "reason"} =>
               seen'[d] \ {"CANCELLED", "DEAD"} # {}
  BY DEF ReadsWereSeen
<1> DEFINE ReasonSeen ==
               at'[d] = "reason" =>
                   /\ read'[d].view \in seen'[d] \cap FailedViews
                   /\ read'[d].err = "synthesized"
                   /\ read'[d].view = "ERROR" =>
                          \/ status' = "ERROR"
                          \/ seen'[d] \ {"SUCCESS", "ERROR"} # {}
           MissSeen ==
               op'[d] = "resume" /\ at'[d] \in {"read", "reason"} =>
                   seen'[d] \ {"CANCELLED", "DEAD"} # {}
<1>1. CASE UNCHANGED vars
  BY <1>1 DEF vars, runVars, callVars, ReadsWereSeen
<1>2. CASE Next /\ ~CallStep(d)
  <2>1. op'[d] = op[d] /\ at'[d] = at[d] /\ read'[d] = read[d]
    BY <1>2, OwnStep
  <2>2. ASSUME at'[d] # "idle"
        PROVE  seen[d] \subseteq seen'[d] /\ View' \in seen'[d]
    BY <1>2, <2>2, SeenGrows
  <2>3. status = "ERROR" /\ status' # "ERROR" => View' = "absent"
    BY ErrorStays DEF View, ViewOf, Live
  <2>4. ReasonSeen
    BY <2>1, <2>2, <2>3 DEF ReadsWereSeen
  <2>5. MissSeen
    BY <2>1, <2>2 DEF ReadsWereSeen
  <2> QED BY <2>4, <2>5
<1>3. CASE Next /\ CallStep(d)
  <2> USE DEF TypeOK, Goes, Returns, Keeps
  <2>1. CASE StatusCalled(d) \/ CancelCalled(d) \/ ResumeCalled(d)
    BY <2>1 DEF StatusCalled, CancelCalled, ResumeCalled, CallBegins
  <2>2. ASSUME NEW view \in Views, Concludes(d, view)
        PROVE  op' = op /\ at'[d] \notin {"read", "reason"}
    BY <2>2 DEF Concludes
  <2>3. CASE Reads(d)
    <3>1. CASE Failed(status)
      <4>1. /\ at'[d] = "reason" /\ op' = op
            /\ read'[d] = [view |-> View, err |-> "synthesized"]
            /\ UNCHANGED runVars
        BY <2>3, <3>1 DEF Reads, Failed, Final
      <4>2. View \in seen'[d] /\ seen[d] \subseteq seen'[d]
        BY <1>3, <4>1, SeenGrows
      <4>3. View \in FailedViews /\ (View = "ERROR" => status = "ERROR")
        BY <3>1 DEF View, ViewOf, Failed, Final, FailedViews, FinalViews, Views,
           Live
      <4>4. ReasonSeen
        BY <4>1, <4>2, <4>3 DEF runVars
      <4>5. MissSeen
        BY <2>3, <4>1, <4>2 DEF Reads, ReadsWereSeen
      <4> QED BY <4>4, <4>5
    <3>2. CASE ~Failed(status)
      BY <2>2, <2>3, <3>2, ViewTyped DEF Reads
    <3> QED BY <3>1, <3>2
  <2>4. CASE ReadsReason(d)
    BY <2>2, <2>4 DEF ReadsReason
  <2>5. CASE ReadFails(d) \/ CancelWrites(d) \/ ResumeApplies(d)
    BY <2>5 DEF ReadFails, CancelWrites, ResumeApplies
  <2>6. CASE ResumeMisses(d)
    <3>1. at'[d] = "read" /\ View \in seen'[d]
      BY <1>3, <2>6, SeenGrows DEF ResumeMisses
    <3>2. View \notin {"CANCELLED", "DEAD"}
      BY <2>6 DEF ResumeMisses, Resumable, View, ViewOf, Live
    <3> QED BY <3>1, <3>2
  <2>7. CASE WriteFails(d) \/ ResumeLost(d)
    BY <2>7 DEF WriteFails, ResumeLost
  <2> QED BY <1>3, <2>1, <2>3, <2>4, <2>5, <2>6, <2>7 DEF CallStep
<1> QED BY <1>1, <1>2, <1>3

\* The inductive invariant holds in every state.
THEOREM ControlInvariant == Spec => []IInv
<1>1. ASSUME Init
      PROVE  IInv
  <2>1. Nothing \in [view : Views, err : {"nil", "synthesized", "recorded"}]
    BY DEF Nothing, Views
  <2>2. TypeOK
    BY <1>1, <2>1 DEF Init, TypeOK, Answers
  <2>3. StagesCounted /\ StopsCounted /\ ListedStays /\ ReadsWereSeen
    BY <1>1 DEF Init, StagesCounted, StopsCounted, ListedStays, ReadsWereSeen
  <2> QED BY <2>2, <2>3 DEF IInv
<1>2. IInv /\ [Next]_vars => IInv'
  BY TypePreserved, StagesPreserved, StopsPreserved, ListedPreserved,
     SeenPreserved DEF IInv
<1> QED BY <1>1, <1>2, PTL DEF Spec

\* No stop of a run is undone twice, whoever resumes it how often (resumeSQL).
THEOREM StopsAreUndoneOnce == Spec => []OneResumePerStop
<1>1. IInv => OneResumePerStop
  BY DEF IInv, StopsCounted, OneResumePerStop
<1> QED BY <1>1, ControlInvariant, PTL

\* Resume never applies while a stage of the run is in flight (resumeSQL).
THEOREM StagesAreSpared == Spec => ResumeSparesStages
<1>1. IInv /\ [Next]_vars => [revivals' > revivals => ~executing]_vars
  <2> SUFFICES ASSUME IInv, Next, revivals' > revivals
               PROVE  ~executing
    OBVIOUS
  <2> USE DEF IInv, TypeOK
  <2>1. revivals' # revivals
    OBVIOUS
  <2>2. ASSUME NEW c \in Callers, CallReads(c)
        PROVE  FALSE
    BY <2>1, <2>2, ReadsOnly DEF tally
  <2>3. ASSUME NEW c \in Callers, CancelWrites(c)
        PROVE  FALSE
    BY <2>1, <2>3 DEF CancelWrites
  <2>4. ~RetentionStep
    BY <2>1 DEF RetentionStep, RetentionLists, RetentionDeletes,
       RetentionDeletesRows, RetentionStops, SweepFrame, tally
  <2>5. ~RunStep
    BY <2>1 DEF RunStep, Submitted, DelayPasses, Dequeued, Started, Parked,
       ExecutionGone, Recovered, Finished, RunMoves
  <2>6. Revives => ~executing
    BY DEF Revives, Resumable, StagesCounted
  <2> QED
    BY <2>2, <2>3, <2>4, <2>5, <2>6
       DEF Next, CallStep, CallReads, ResumeApplies, ResumeLost
<1> QED BY <1>1, ControlInvariant, PTL DEF Spec, ResumeSparesStages

\* Retention deletes a live run, or the rows of an execution, only behind a
\* resume or a resubmission that overtook it (sweepRetention).
THEOREM LiveRunsAreSpared == Spec => RetentionSparesLive
<1> DEFINE Spares ==
        /\ status # "absent" /\ status' = "absent" => status \in Final \/ overtaken
        /\ row /\ ~row' => ~executing \/ overtaken
<1>1. IInv /\ [Next]_vars => [Spares]_vars
  <2> SUFFICES ASSUME IInv, Next
               PROVE  Spares
    OBVIOUS
  <2> USE DEF IInv, ListedStays
  <2>1. ASSUME NEW c \in Callers, CallReads(c)
        PROVE  Spares
    BY <2>1, ReadsOnly DEF runVars
  <2>2. ASSUME NEW c \in Callers, CancelWrites(c)
        PROVE  Spares
    BY <2>2 DEF CancelWrites
  <2>3. ASSUME Revives
        PROVE  Spares
    BY <2>3 DEF Revives
  <2>4. CASE RetentionStep
    BY <2>4 DEF RetentionStep, RetentionLists, RetentionDeletes, DeletesRun,
       RetentionDeletesRows, RetentionStops, runVars
  <2>5. CASE RunStep
    BY <2>5 DEF RunStep, Submitted, DelayPasses, Dequeued, Started, Parked,
       ExecutionGone, Recovered, Finished
  <2> QED
    BY <2>1, <2>2, <2>3, <2>4, <2>5
       DEF Next, CallStep, CallReads, ResumeApplies, ResumeLost
<1> QED BY <1>1, ControlInvariant, PTL DEF Spec, RetentionSparesLive

\* What a call concludes from a view it saw is true of its time.
LEMMA ConclusionTrue ==
    ASSUME TypeOK, NEW c \in Callers, NEW view \in Views \ {"absent"},
           Concludes(c, view), at'[c] = "idle",
           Was(c, {view}),
           op[c] = "resume" => Was(c, Views \ {"CANCELLED", "DEAD"}),
           op[c] = "status" => TrueReport(c)
    PROVE  TrueAnswer(c, answer'[c])
<1> USE DEF TypeOK, Returns, Goes
<1>1. CASE op[c] = "status"
  BY <1>1 DEF Concludes, TrueAnswer
<1>2. CASE op[c] = "cancel"
  BY <1>2 DEF Concludes, TrueAnswer, Was
<1>3. CASE op[c] = "resume"
  <2>1. answer'[c] = Explanation(view)
    BY <1>3 DEF Concludes
  <2>2. CASE view \in {"SUCCESS", "ERROR"}
    BY <2>1, <2>2 DEF Explanation, TrueAnswer, Was, FinalViews, Views, Final
  <2>3. CASE view = "CANCELLED after a start"
    BY <2>1, <2>3 DEF Explanation, TrueAnswer
  <2>4. CASE view \in {"CANCELLED", "DEAD"}
    BY <1>3, <2>1, <2>4 DEF Explanation, TrueAnswer, Was
  <2>5. CASE view = "live"
    BY <2>1, <2>5 DEF Explanation, TrueAnswer
  <2> QED BY <2>2, <2>3, <2>4, <2>5 DEF Views, Final
<1> QED BY <1>1, <1>2, <1>3 DEF Concludes

\* Whatever Status, Cancel or Resume answers was true of the run during the
\* call (cancelRun, resumeRun, listRuns).
THEOREM CallsTellTheTruth == Spec => AnswersAreTrue
<1> DEFINE True ==
        \A c \in Callers :
            at[c] # "idle" /\ at'[c] = "idle" => TrueAnswer(c, answer'[c])
<1>1. IInv /\ [Next]_vars => [True]_vars
  <2> SUFFICES ASSUME IInv, Next, NEW c \in Callers,
                      at[c] # "idle", at'[c] = "idle"
               PROVE  TrueAnswer(c, answer'[c])
    OBVIOUS
  <2> USE DEF Goes, Returns, Keeps
  <2>1. TypeOK /\ ReadsWereSeen
    BY DEF IInv
  <2>2. CallStep(c)
    BY <2>1, OwnStep
  <2>3. View \in Views
    BY <2>1, ViewTyped
  <2>4. CASE StatusCalled(c) \/ CancelCalled(c) \/ ResumeCalled(c)
    BY <2>4 DEF StatusCalled, CancelCalled, ResumeCalled, CallBegins
  <2>5. CASE Reads(c)
    <3> USE <2>1 DEF TypeOK
    <3>1. CASE status = "absent"
      <4>1. answer'[c] = "ErrRunNotFound" /\ View = "absent"
        BY <2>5, <3>1 DEF Reads, View, ViewOf, Live
      <4> QED BY <4>1 DEF TrueAnswer, Was
    <3>2. CASE status # "absent"
      <4>1. /\ ~Failed(status) /\ Concludes(c, View)
            /\ read'[c] = [view |-> View, err |-> "nil"]
        BY <2>5, <3>2 DEF Reads
      <4>2. View \in Views \ {"absent"} /\ View \notin FailedViews
        BY <2>3, <3>2, <4>1
           DEF View, ViewOf, Failed, FailedViews, FinalViews, Views, Final, Live
      <4>3. Was(c, {View})
        BY DEF Was
      <4>4. TrueReport(c)
        BY <4>1, <4>2, <4>3 DEF TrueReport
      <4>5. op[c] = "resume" => Was(c, Views \ {"CANCELLED", "DEAD"})
        <5>1. op[c] = "resume" => seen[c] \ {"CANCELLED", "DEAD"} # {}
          BY <2>5 DEF Reads, ReadsWereSeen
        <5>2. seen[c] \subseteq Views
          OBVIOUS
        <5> QED BY <5>1, <5>2 DEF Was
      <4> QED BY <4>1, <4>2, <4>3, <4>4, <4>5, ConclusionTrue
    <3> QED BY <3>1, <3>2
  <2>6. CASE ReadsReason(c)
    <3> USE <2>1 DEF TypeOK
    <3> DEFINE v == read[c].view
    <3>1. /\ at[c] = "reason" /\ Concludes(c, v)
          /\ read'[c] = [view |-> v, err |-> IF status = "ERROR"
                                             THEN "recorded"
                                             ELSE read[c].err]
          /\ UNCHANGED runVars
      BY <2>6 DEF ReadsReason
    <3>2. v \in seen[c] /\ v \in FailedViews /\ read[c].err = "synthesized"
      BY <3>1 DEF ReadsWereSeen
    <3>3. v \in Views \ {"absent"} /\ seen[c] \subseteq Views
      BY <3>2 DEF FailedViews, FinalViews
    <3>4. Was(c, {v})
      BY <3>2 DEF Was
    <3>5. status = "ERROR" => View = "ERROR"
      BY DEF View, ViewOf, Live
    <3>6. status # "ERROR" => Was(c, Views \ {"SUCCESS", "ERROR"})
      <4>1. CASE v # "ERROR"
        BY <3>2, <3>3, <3>4, <4>1 DEF Was, FailedViews
      <4>2. CASE v = "ERROR"
        BY <3>1, <3>3, <4>2 DEF Was, ReadsWereSeen
      <4> QED BY <4>1, <4>2
    <3>7. TrueReport(c)
      BY <3>1, <3>2, <3>4, <3>5, <3>6 DEF TrueReport, Was
    <3>8. op[c] = "resume" => Was(c, Views \ {"CANCELLED", "DEAD"})
      BY <3>1, <3>3 DEF Was, ReadsWereSeen
    <3> QED BY <3>1, <3>3, <3>4, <3>7, <3>8, ConclusionTrue
  <2>7. CASE ReadFails(c) \/ WriteFails(c) \/ ResumeLost(c)
    <3>1. answer'[c] = "error"
      BY <2>1, <2>7 DEF ReadFails, WriteFails, ResumeLost, TypeOK
    <3> QED BY <3>1 DEF TrueAnswer
  <2>8. CASE CancelWrites(c)
    <3>1. CASE status = "absent"
      <4>1. answer'[c] = "ErrRunNotFound" /\ View = "absent"
        BY <2>1, <2>8, <3>1 DEF CancelWrites, TypeOK, View, ViewOf, Live
      <4> QED BY <4>1 DEF TrueAnswer, Was
    <3>2. CASE status # "absent"
      <4>1. answer'[c] = "nil" /\ op[c] = "cancel" /\ status' \in Final
        BY <2>1, <2>8, <3>2 DEF CancelWrites, TypeOK, Live, Final
      <4>2. View' \in FinalViews
        BY <4>1 DEF View, ViewOf, FinalViews, Views, Final, Live
      <4> QED BY <4>1, <4>2 DEF TrueAnswer, Was
    <3> QED BY <3>1, <3>2
  <2>9. CASE ResumeApplies(c)
    <3>1. answer'[c] = "nil" /\ op[c] = "resume" /\ status' = "ENQUEUED"
      BY <2>1, <2>9 DEF ResumeApplies, Revives, TypeOK
    <3>2. View' = "live"
      BY <3>1 DEF View, ViewOf, Live
    <3> QED BY <3>1, <3>2 DEF TrueAnswer, Was
  <2>10. CASE ResumeMisses(c)
    BY <2>1, <2>10 DEF ResumeMisses, TypeOK
  <2> QED
    BY <2>2, <2>4, <2>5, <2>6, <2>7, <2>8, <2>9, <2>10 DEF CallStep
<1> QED BY <1>1, ControlInvariant, PTL DEF Spec, AnswersAreTrue
===============================================================================
