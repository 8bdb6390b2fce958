---------------------------- MODULE ParallelProofs ----------------------------
(***************************************************************************)
(* Theorems about Parallel, for every source, limit and number of crashes. *)
(* IInv is inductive; each of its parts has a lemma.                       *)
(***************************************************************************)
EXTENDS Parallel, FiniteSetTheorems, MinTheorems

\* Items are natural numbers, finitely many.
LEMMA ItemsFinite ==
    ASSUME TypeOK
    PROVE  /\ source.items \in Nat /\ Items \subseteq Nat
           /\ IsFiniteSet(Items) /\ IsFiniteSet(Holding)
<1>1. source.items \in Nat
  BY ParallelAssumption DEF TypeOK
<1>2. Items \subseteq Nat
  BY <1>1 DEF Items
<1>3. IsFiniteSet(Items)
  BY <1>1, FS_Interval DEF Items
<1>4. Holding \in SUBSET Items
  BY DEF Holding
<1>5. IsFiniteSet(Holding)
  BY <1>3, <1>4, FS_Subset
<1> QED BY <1>1, <1>2, <1>3, <1>5

\* The verdict depends on the plan and the records alone.
LEMMA VerdictOfRecords ==
    ASSUME UNCHANGED <<plan, recorded>>
    PROVE  Verdict' = Verdict
<1> DEFINE failed == {i \in Items : recorded[i] # "ok"}
           genuine == {i \in failed : ~cancelSiblings \/ ~IsMark(i)}
<1>1. cancelSiblings' = cancelSiblings /\ recorded' = recorded /\ Items' = Items
  BY DEF plan, Items
<1>2. failed' = failed
  BY <1>1
<1>3. genuine' = genuine
  BY <1>1, <1>2 DEF IsMark
<1> HIDE DEF failed, genuine
<1>4. Verdict = CASE failed = {}  -> Result("success", 0)
                  [] genuine # {} -> Result("error", Min(genuine))
                  [] OTHER        -> Result("mark", Min(failed))
  BY DEF Verdict, failed, genuine
<1>5. Verdict' = CASE failed' = {}  -> Result("success", 0)
                   [] genuine' # {} -> Result("error", Min(genuine'))
                   [] OTHER         -> Result("mark", Min(failed'))
  BY DEF Verdict, failed, genuine
<1> QED BY <1>2, <1>3, <1>4, <1>5

\* What drained outcomes come to is an outcome of the stage.
LEMMA VerdictIsOutcome ==
    ASSUME TypeOK
    PROVE  Verdict \in Outcomes
<1> DEFINE failed == {i \in Items : recorded[i] # "ok"}
           genuine == {i \in failed : ~cancelSiblings \/ ~IsMark(i)}
<1>1. failed \in SUBSET Nat /\ genuine \in SUBSET Nat
  BY ItemsFinite
<1>2. CASE failed = {}
  BY <1>2 DEF Verdict, Outcomes, Result
<1>3. CASE failed # {} /\ genuine # {}
  <2>1. Min(genuine) \in Items
    BY <1>1, <1>3, MinIsLeast
  <2> QED BY <1>3, <2>1 DEF Verdict, Outcomes, Result
<1>4. CASE failed # {} /\ genuine = {}
  <2>1. Min(failed) \in Items
    BY <1>1, <1>4, MinIsLeast
  <2> QED BY <1>4, <2>1 DEF Verdict, Outcomes, Result
<1> QED BY <1>2, <1>3, <1>4

\* The type invariant is inductive.
LEMMA TypePreserved ==
    TypeOK /\ SlotsCounted /\ [Next]_vars => TypeOK'
<1> SUFFICES ASSUME TypeOK, SlotsCounted, [Next]_vars
             PROVE  TypeOK'
  OBVIOUS
<1> USE ParallelAssumption DEF TypeOK, SlotsCounted, plan, goroutines,
        history, Items, Bounded, StepOutcomes, Outcomes, Result, Nothing
<1>1. CASE Launch
  <2>1. next' \in 1..(source.items + 1) /\ slots' \in 0..maxConcurrent
    BY <1>1, ItemsFinite DEF Launch, SlotFree
  <2>2. step' \in [Items -> {"none", "launched", "running", "ran", "replayed"}]
    BY <1>1 DEF Launch
  <2>3. forwarder' \in [Items -> {"none", "wait", "send", "done"}]
    BY <1>1 DEF Launch
  <2> QED BY <1>1, <2>1, <2>2, <2>3 DEF Launch
<1>2. CASE CutShort
  BY <1>2 DEF CutShort, DrainWith
<1>3. CASE SourceEnds
  BY <1>3 DEF SourceEnds, DrainWith
<1>4. CASE DrainEnds
  BY <1>4, VerdictIsOutcome DEF DrainEnds
<1>5. CASE RunRecorded
  BY <1>5 DEF RunRecorded
<1>6. CASE Crash
  <2>1. next' \in 1..(source.items + 1) /\ slots' \in 0..maxConcurrent
    BY <1>6, ItemsFinite DEF Crash
  <2>2. step' \in [Items -> {"none", "launched", "running", "ran", "replayed"}]
    BY <1>6 DEF Crash, NoneOf
  <2>3. forwarder' \in [Items -> {"none", "wait", "send", "done"}]
    BY <1>6 DEF Crash, NoneOf
  <2>4. outcome' \in Outcomes' /\ verdicts' \subseteq Outcomes'
    BY <1>6 DEF Crash
  <2>5. recorded' = recorded /\ crashes' \in 0..MaxCrashes /\ cut' = cut
    BY <1>6 DEF Crash
  <2>6. Items' = Items /\ source' = source
    BY <1>6 DEF Crash
  <2>7. UNCHANGED plan /\ main' = "down" /\ fired' = FALSE
    BY <1>6 DEF Crash
  <2> HIDE DEF Outcomes, Items
  <2> QED BY <2>1, <2>2, <2>3, <2>4, <2>5, <2>6, <2>7
<1>7. CASE Recover
  BY <1>7 DEF Recover
<1>8. ASSUME NEW i \in Items, Body(i)
      PROVE  TypeOK'
  BY <1>8 DEF Body
<1>9. ASSUME NEW i \in Items, Receive(i)
      PROVE  TypeOK'
  BY <1>9 DEF Receive, Fires, IsMark, Finished
<1>10. ASSUME NEW i \in Items, Deliver(i)
       PROVE  TypeOK'
  <2>1. IsFiniteSet(Holding) /\ i \in Holding
    BY <1>10, ItemsFinite DEF Deliver, Holding
  <2>2. Cardinality(Holding) \in Nat \ {0}
    BY <2>1, FS_CardinalityType, FS_EmptySet
  <2> QED BY <1>10, <2>2 DEF Deliver
<1>11. CASE UNCHANGED vars
  BY <1>11 DEF vars
<1> QED
  BY <1>1, <1>2, <1>3, <1>4, <1>5, <1>6, <1>7, <1>8, <1>9, <1>10, <1>11 DEF
     Next, Main, Forwarder

\* Order is kept.
LEMMA OrderPreserved ==
    TypeOK /\ Orderly /\ [Next]_vars => Orderly'
<1> SUFFICES ASSUME TypeOK, Orderly, [Next]_vars
             PROVE  Orderly'
  OBVIOUS
<1> USE ParallelAssumption DEF TypeOK, Orderly, plan, goroutines, history,
        Items, Bounded, HasForwarder, Finished, StepOutcomes, Outcomes,
        Result, Nothing
<1>1. CASE Launch
  BY <1>1 DEF Launch, SlotFree
<1>2. CASE CutShort
  BY <1>2 DEF CutShort, DrainWith
<1>3. CASE SourceEnds
  BY <1>3 DEF SourceEnds, DrainWith
<1>4. CASE DrainEnds
  BY <1>4 DEF DrainEnds
<1>5. CASE RunRecorded
  BY <1>5 DEF RunRecorded
<1>6. CASE Crash
  BY <1>6 DEF Crash, NoneOf
<1>7. CASE Recover
  BY <1>7 DEF Recover
<1>8. ASSUME NEW i \in Items, Body(i)
      PROVE  Orderly'
  BY <1>8, SMTT(30) DEF Body
<1>9. ASSUME NEW i \in Items, Receive(i)
      PROVE  Orderly'
  BY <1>9 DEF Receive, Fires, IsMark, Finished
<1>10. ASSUME NEW i \in Items, Deliver(i)
       PROVE  Orderly'
  BY <1>10 DEF Deliver, Room
<1>11. CASE UNCHANGED vars
  BY <1>11 DEF vars
<1> QED
  BY <1>1, <1>2, <1>3, <1>4, <1>5, <1>6, <1>7, <1>8, <1>9, <1>10, <1>11 DEF
     Next, Main, Forwarder

\* A stage that ends was drained.
LEMMA DrainPreserved ==
    TypeOK /\ Orderly /\ NoStepOutlives /\ [Next]_vars => NoStepOutlives'
<1> SUFFICES ASSUME TypeOK, Orderly, NoStepOutlives, [Next]_vars
             PROVE  NoStepOutlives'
  OBVIOUS
<1> USE ParallelAssumption DEF TypeOK, Orderly, NoStepOutlives, plan,
        goroutines, history, Items
<1>1. CASE Launch
  BY <1>1 DEF Launch, SlotFree
<1>2. CASE CutShort
  BY <1>2 DEF CutShort, DrainWith
<1>3. CASE SourceEnds
  BY <1>3 DEF SourceEnds, DrainWith
<1>4. CASE DrainEnds
  BY <1>4 DEF DrainEnds, Drained, Delivered, Launched, Finished, HasForwarder
<1>5. CASE RunRecorded
  BY <1>5 DEF RunRecorded
<1>6. CASE Crash
  BY <1>6 DEF Crash, NoneOf
<1>7. CASE Recover
  BY <1>7 DEF Recover
<1>8. ASSUME NEW i \in Items, Body(i)
      PROVE  NoStepOutlives'
  BY <1>8 DEF Body
<1>9. ASSUME NEW i \in Items, Receive(i)
      PROVE  NoStepOutlives'
  BY <1>9 DEF Receive, Fires, IsMark, Finished
<1>10. ASSUME NEW i \in Items, Deliver(i)
       PROVE  NoStepOutlives'
  BY <1>10 DEF Deliver, Room
<1>11. CASE UNCHANGED vars
  BY <1>11 DEF vars
<1> QED
  BY <1>1, <1>2, <1>3, <1>4, <1>5, <1>6, <1>7, <1>8, <1>9, <1>10, <1>11 DEF
     Next, Main, Forwarder

\* The semaphore counts the holders.
LEMMA SlotsPreserved ==
    TypeOK /\ Orderly /\ SlotsCounted /\ [Next]_vars => SlotsCounted'
<1> SUFFICES ASSUME TypeOK, Orderly, SlotsCounted, [Next]_vars
             PROVE  SlotsCounted'
  OBVIOUS
<1> USE ParallelAssumption DEF TypeOK, Orderly, SlotsCounted, plan,
        goroutines, history, Items, Bounded
<1>1. CASE Launch
  <2>1. IsFiniteSet(Holding)
    BY ItemsFinite
  <2>2. CASE ~Bounded
    BY <1>1, <2>2 DEF Launch
  <2>3. CASE Bounded
    <3>1. Holding' = Holding \cup {next} /\ next \notin Holding
      BY <1>1, <2>3 DEF Launch, Holding, HasForwarder
    <3>2. Cardinality(Holding') = Cardinality(Holding) + 1
      BY <2>1, <3>1, FS_AddElement
    <3> QED BY <1>1, <2>3, <3>2 DEF Launch
  <2> QED BY <2>2, <2>3
<1>2. CASE CutShort
  BY <1>2 DEF CutShort, DrainWith, Holding
<1>3. CASE SourceEnds
  BY <1>3 DEF SourceEnds, DrainWith, Holding
<1>4. CASE DrainEnds
  BY <1>4 DEF DrainEnds, Holding
<1>5. CASE RunRecorded
  BY <1>5 DEF RunRecorded, Holding
<1>6. CASE Crash
  <2>1. Holding' = {}
    BY <1>6 DEF Crash, Holding, NoneOf
  <2> QED BY <1>6, <2>1, FS_EmptySet DEF Crash
<1>7. CASE Recover
  BY <1>7 DEF Recover, Holding
<1>8. ASSUME NEW i \in Items, Body(i)
      PROVE  SlotsCounted'
  BY <1>8 DEF Body, Holding
<1>9. ASSUME NEW i \in Items, Receive(i)
      PROVE  SlotsCounted'
  <2>1. Holding' = Holding
    BY <1>9 DEF Receive, Holding
  <2> QED BY <1>9, <2>1 DEF Receive
<1>10. ASSUME NEW i \in Items, Deliver(i)
       PROVE  SlotsCounted'
  <2>1. IsFiniteSet(Holding)
    BY ItemsFinite
  <2>2. CASE ~Bounded
    BY <1>10, <2>2 DEF Deliver
  <2>3. CASE Bounded
    <3>1. Holding' = Holding \ {i} /\ i \in Holding
      BY <1>10 DEF Deliver, Holding
    <3>2. Cardinality(Holding') = Cardinality(Holding) - 1
      BY <2>1, <3>1, FS_RemoveElement
    <3> QED BY <1>10, <2>3, <3>2 DEF Deliver
  <2> QED BY <2>2, <2>3
<1>11. CASE UNCHANGED vars
  BY <1>11 DEF vars, Holding
<1> QED
  BY <1>1, <1>2, <1>3, <1>4, <1>5, <1>6, <1>7, <1>8, <1>9, <1>10, <1>11 DEF
     Next, Main, Forwarder

\* A verdict stands once every item has its record.
LEMMA VerdictPreserved ==
    TypeOK /\ Orderly /\ VerdictStands /\ [Next]_vars => VerdictStands'
<1> SUFFICES ASSUME TypeOK, Orderly, VerdictStands, [Next]_vars
             PROVE  VerdictStands'
  OBVIOUS
<1> USE ParallelAssumption DEF TypeOK, Orderly, VerdictStands, plan,
        goroutines, history, Items
<1>1. CASE Launch
  BY <1>1, VerdictOfRecords DEF Launch, SlotFree
<1>2. CASE CutShort
  BY <1>2, VerdictOfRecords DEF CutShort, DrainWith
<1>3. CASE SourceEnds
  BY <1>3, VerdictOfRecords DEF SourceEnds, DrainWith
<1>4. CASE DrainEnds
  <2>1. Verdict' = Verdict /\ recorded' = recorded /\ source' = source
    BY <1>4, VerdictOfRecords DEF DrainEnds
  <2>2. CASE outcome # Nothing
    BY <1>4, <2>1, <2>2 DEF DrainEnds
  <2>3. CASE outcome = Nothing
    <3>1. next > source.items /\ ~source.fails
      BY <1>4, <2>3 DEF DrainEnds
    <3>2. \A j \in Items : step[j] # "none" /\ j \in Launched
      BY <3>1, ItemsFinite DEF Launched
    <3>3. \A j \in Items : Finished(j)
      BY <1>4, <3>2 DEF DrainEnds, Drained, Delivered
    <3>4. \A j \in Items : recorded[j] # "none"
      BY <3>3
    <3>5. verdicts' = {Verdict}
      BY <1>4, <2>3 DEF DrainEnds
    <3> QED BY <2>1, <3>1, <3>4, <3>5
  <2> QED BY <2>2, <2>3
<1>5. CASE RunRecorded
  BY <1>5, VerdictOfRecords DEF RunRecorded
<1>6. CASE Crash
  BY <1>6, VerdictOfRecords DEF Crash, NoneOf
<1>7. CASE Recover
  BY <1>7, VerdictOfRecords DEF Recover
<1>8. ASSUME NEW i \in Items, Body(i)
      PROVE  VerdictStands'
  BY <1>8 DEF Body
<1>9. ASSUME NEW i \in Items, Receive(i)
      PROVE  VerdictStands'
  BY <1>9, VerdictOfRecords DEF Receive, Fires, IsMark, Finished
<1>10. ASSUME NEW i \in Items, Deliver(i)
       PROVE  VerdictStands'
  BY <1>10, VerdictOfRecords DEF Deliver, Room
<1>11. CASE UNCHANGED vars
  BY <1>11, VerdictOfRecords DEF vars
<1> QED
  BY <1>1, <1>2, <1>3, <1>4, <1>5, <1>6, <1>7, <1>8, <1>9, <1>10, <1>11 DEF
     Next, Main, Forwarder

\* The signal fires for a reason.
LEMMA SignalsPreserved ==
    TypeOK /\ Orderly /\ SignalsMeant /\ [Next]_vars => SignalsMeant'
<1> SUFFICES ASSUME TypeOK, Orderly, SignalsMeant, [Next]_vars
             PROVE  SignalsMeant'
  OBVIOUS
<1> USE ParallelAssumption DEF TypeOK, Orderly, SignalsMeant, plan,
        goroutines, history, Items, Reason, StepOutcomes, Finished
<1>1. CASE Launch
  BY <1>1 DEF Launch, SlotFree
<1>2. CASE CutShort
  BY <1>2 DEF CutShort, DrainWith
<1>3. CASE SourceEnds
  BY <1>3 DEF SourceEnds, DrainWith
<1>4. CASE DrainEnds
  BY <1>4 DEF DrainEnds
<1>5. CASE RunRecorded
  BY <1>5 DEF RunRecorded
<1>6. CASE Crash
  BY <1>6 DEF Crash, NoneOf
<1>7. CASE Recover
  BY <1>7 DEF Recover
<1>8. ASSUME NEW i \in Items, Body(i)
      PROVE  SignalsMeant'
  <2>1. /\ recorded[i] = "none" /\ step[i] \in {"launched", "running"}
        /\ UNCHANGED <<plan, main, next, slots, fired, outcome, forwarder, cut>>
    BY <1>8 DEF Body
  <2>2. \A j \in Items : j # i => recorded'[j] = recorded[j]
    BY <1>8 DEF Body
  <2>3. Reason => Reason'
    BY <2>1, <2>2
  <2>4. recorded'[i] = "mark" => fired
    BY <1>8 DEF Body
  <2>5. forwarder[i] \notin {"send", "done"}
    BY <2>1
  <2> QED BY <2>1, <2>2, <2>3, <2>4, <2>5, SMTT(30)
<1>9. ASSUME NEW i \in Items, Receive(i)
      PROVE  SignalsMeant'
  BY <1>9 DEF Receive, Fires, IsMark, Finished
<1>10. ASSUME NEW i \in Items, Deliver(i)
       PROVE  SignalsMeant'
  BY <1>10 DEF Deliver, Room
<1>11. CASE UNCHANGED vars
  BY <1>11 DEF vars
<1> QED
  BY <1>1, <1>2, <1>3, <1>4, <1>5, <1>6, <1>7, <1>8, <1>9, <1>10, <1>11 DEF
     Next, Main, Forwarder

\* With one slot, items go one after the other.
LEMMA SerialPreserved ==
    TypeOK /\ Orderly /\ SlotsCounted /\ OneAfterTheOther /\ [Next]_vars
    => OneAfterTheOther'
<1> SUFFICES ASSUME TypeOK, Orderly, SlotsCounted, OneAfterTheOther,
                    [Next]_vars
             PROVE  OneAfterTheOther'
  OBVIOUS
<1> USE ParallelAssumption DEF TypeOK, Orderly, SlotsCounted,
        OneAfterTheOther, plan, goroutines, history, Items
<1>1. CASE Launch
  <2> SUFFICES ASSUME maxConcurrent = 1
               PROVE  OneAfterTheOther'
    BY <1>1 DEF Launch
  <2>1. slots = 0 /\ Cardinality(Holding) = 0
    BY <1>1 DEF Launch, SlotFree, Bounded
  <2>2. Holding = {}
    BY <2>1, ItemsFinite, FS_EmptySet
  <2>3. \A i \in Items : i < next => forwarder[i] = "done"
    BY <2>2 DEF Holding, HasForwarder, Bounded
  <2> QED BY <1>1, <2>3 DEF Launch
<1>2. CASE CutShort
  BY <1>2 DEF CutShort, DrainWith
<1>3. CASE SourceEnds
  BY <1>3 DEF SourceEnds, DrainWith
<1>4. CASE DrainEnds
  BY <1>4 DEF DrainEnds
<1>5. CASE RunRecorded
  BY <1>5 DEF RunRecorded
<1>6. CASE Crash
  BY <1>6 DEF Crash, NoneOf, NoneOf
<1>7. CASE Recover
  BY <1>7 DEF Recover
<1>8. ASSUME NEW i \in Items, Body(i)
      PROVE  OneAfterTheOther'
  BY <1>8 DEF Body
<1>9. ASSUME NEW i \in Items, Receive(i)
      PROVE  OneAfterTheOther'
  BY <1>9 DEF Receive, Fires, IsMark, Finished
<1>10. ASSUME NEW i \in Items, Deliver(i)
       PROVE  OneAfterTheOther'
  BY <1>10 DEF Deliver, Room
<1>11. CASE UNCHANGED vars
  BY <1>11 DEF vars
<1> QED
  BY <1>1, <1>2, <1>3, <1>4, <1>5, <1>6, <1>7, <1>8, <1>9, <1>10, <1>11 DEF
     Next, Main, Forwarder

\* The inductive invariant holds in every state.
THEOREM StageInvariant == Spec => []IInv
<1>1. Init => IInv
  <2> SUFFICES ASSUME Init
               PROVE  IInv
    OBVIOUS
  <2> USE ParallelAssumption DEF Init, Items, NoneOf
  <2>1. source.items \in Nat /\ maxConcurrent \in Nat
    OBVIOUS
  <2>2. TypeOK
    <3>1. next \in 1..(source.items + 1) /\ slots \in 0..maxConcurrent
      BY <2>1
    <3>2. outcome \in Outcomes /\ verdicts \subseteq Outcomes
      BY DEF Outcomes, Nothing, Result
    <3>3. step \in [Items -> {"none", "launched", "running", "ran", "replayed"}]
      OBVIOUS
    <3>4. forwarder \in [Items -> {"none", "wait", "send", "done"}]
      OBVIOUS
    <3>5. recorded \in [Items -> {"none"} \cup StepOutcomes]
      OBVIOUS
    <3>6. crashes \in 0..MaxCrashes /\ next \in 1..(source.items + 1)
      BY <2>1
    <3> HIDE DEF NoneOf, Items
    <3> QED BY <3>1, <3>2, <3>3, <3>4, <3>5, <3>6 DEF TypeOK
  <2>3. Holding = {}
    BY DEF Holding
  <2>4. SlotsCounted
    BY <2>3, FS_EmptySet DEF SlotsCounted
  <2>5. Orderly
    BY <2>1 DEF Orderly, Finished
  <2>6. NoStepOutlives /\ VerdictStands /\ SignalsMeant /\ OneAfterTheOther
    BY DEF NoStepOutlives, VerdictStands, SignalsMeant, OneAfterTheOther
  <2> QED BY <2>2, <2>4, <2>5, <2>6 DEF IInv
<1>2. IInv /\ [Next]_vars => IInv'
  BY TypePreserved, OrderPreserved, DrainPreserved, SlotsPreserved,
     VerdictPreserved, SignalsPreserved, SerialPreserved DEF IInv
<1> QED BY <1>1, <1>2, PTL DEF Spec

\* The drained outcomes come to one verdict, on every replay, and a
\* manufactured cancellation only hides that an execution was cut short
\* (firstParallelError, cancellableBody).
THEOREM VerdictsAgree == Spec => []OneGenuineVerdict
<1>1. IInv => OneGenuineVerdict
  <2> SUFFICES ASSUME IInv, verdicts # {}
               PROVE  OneGenuineVerdict
    BY FS_EmptySet DEF OneGenuineVerdict
  <2>1. verdicts = {Verdict} /\ Cardinality(verdicts) = 1
    BY FS_Singleton DEF IInv, VerdictStands
  <2>2. ASSUME Verdict.kind = "mark"
        PROVE  cut /\ \A i \in Items : recorded[i] # "error"
    <3> DEFINE failed == {i \in Items : recorded[i] # "ok"}
               genuine == {i \in failed : ~cancelSiblings \/ ~IsMark(i)}
    <3>1. failed # {} /\ genuine = {}
      BY <2>2 DEF Verdict, Result
    <3>2. \A i \in Items : recorded[i] # "error"
      BY <3>1 DEF IsMark
    <3>3. PICK i \in Items : recorded[i] = "mark"
      BY <3>1 DEF IsMark
    <3>4. Reason /\ ~source.fails
      BY <3>3 DEF IInv, SignalsMeant, VerdictStands
    <3> QED BY <3>2, <3>4 DEF Reason
  <2> QED BY <2>1, <2>2 DEF OneGenuineVerdict
<1> QED BY <1>1, StageInvariant, PTL

\* With one slot and sibling cancellation, no function runs behind a failure:
\* the signal fires before the slot is freed (the forwarder of Parallel).
THEOREM SerialStops == Spec => []SerialStopsAtFailure
<1>1. Init => SerialStopsAtFailure
  BY DEF Init, NoneOf, SerialStopsAtFailure
<1>2. IInv /\ SerialStopsAtFailure /\ [Next]_vars => SerialStopsAtFailure'
  <2> SUFFICES ASSUME IInv, SerialStopsAtFailure, [Next]_vars
               PROVE  SerialStopsAtFailure'
    OBVIOUS
  <2> USE DEF SerialStopsAtFailure, plan, goroutines, history, Items
  <2>1. CASE Launch
    BY <2>1 DEF Launch, IInv, TypeOK
  <2>2. CASE CutShort
    BY <2>2 DEF CutShort
  <2>3. CASE SourceEnds
    BY <2>3 DEF SourceEnds
  <2>4. CASE DrainEnds
    BY <2>4 DEF DrainEnds
  <2>5. CASE RunRecorded
    BY <2>5 DEF RunRecorded
  <2>6. CASE Crash
    BY <2>6 DEF Crash, NoneOf
  <2>7. CASE Recover
    BY <2>7 DEF Recover
  <2>8. ASSUME NEW k \in Items, Body(k)
        PROVE  SerialStopsAtFailure'
    <3> SUFFICES ASSUME cancelSiblings, maxConcurrent = 1,
                        NEW i \in Items, NEW j \in Items, i < j,
                        step'[j] = "running"
                 PROVE  recorded'[i] # "error"
      BY <2>8 DEF Body
    <3>1. step[j] # "none"
      BY <2>8 DEF Body, IInv, TypeOK
    <3>2. forwarder[i] = "done" /\ Finished(i)
      BY <3>1 DEF IInv, OneAfterTheOther, Orderly
    <3>3. i # k /\ recorded'[i] = recorded[i]
      BY <2>8, <3>2 DEF Body, Finished, IInv, TypeOK
    <3>4. CASE step[j] = "running"
      BY <3>3, <3>4
    <3>5. CASE step[j] # "running"
      <4>1. ~fired
        BY <2>8, <3>5 DEF Body, IInv, TypeOK
      <4> QED BY <3>2, <3>3, <4>1 DEF IInv, SignalsMeant
    <3> QED BY <3>4, <3>5
  <2>9. ASSUME NEW k \in Items, Receive(k)
        PROVE  SerialStopsAtFailure'
    BY <2>9 DEF Receive
  <2>10. ASSUME NEW k \in Items, Deliver(k)
         PROVE  SerialStopsAtFailure'
    BY <2>10 DEF Deliver
  <2>11. CASE UNCHANGED vars
    BY <2>11 DEF vars
  <2> QED
    BY <2>1, <2>2, <2>3, <2>4, <2>5, <2>6, <2>7, <2>8, <2>9, <2>10, <2>11
       DEF Next, Main, Forwarder
<1> QED BY <1>1, <1>2, StageInvariant, PTL DEF Spec
===============================================================================
