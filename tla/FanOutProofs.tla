---------------------------- MODULE FanOutProofs ----------------------------
(***************************************************************************)
(* Theorems about FanOut, for every set of children, every batch and any   *)
(* number of crashes.  IInv is inductive; each of its parts has a lemma.   *)
(***************************************************************************)
EXTENDS FanOut, FiniteSetTheorems, MinTheorems

\* Items are numbered, and each has its child.
LEMMA ItemsNumbered ==
    ASSUME TypeOK
    PROVE  /\ Items \in Nat
           /\ \A i \in 1..Items : childOf[i] \in Children
           /\ Batch \subseteq Children
<1>1. childOf \in Seq(Children)
  BY FanOutAssumption DEF TypeOK
<1> QED BY <1>1 DEF Items, Batch

\* A verdict is an outcome of the stage, and its kind tells what was read.
LEMMA VerdictRead ==
    ASSUME TypeOK, NEW read
    PROVE  /\ VerdictOf(read) \in Outcomes
           /\ VerdictOf(read).kind = "cancellation" =>
                /\ \A i \in 1..Items : read[i] \notin {"ERROR", "DEAD", "unread"}
                /\ \E i \in 1..Items : read[i] = "CANCELLED"
<1> DEFINE failures == ItemsWith(read, {"ERROR", "DEAD", "unread"})
           cancelled == ItemsWith(read, {"CANCELLED"})
<1>1. Items \in Nat
  BY ItemsNumbered
<1>2. failures \in SUBSET Nat /\ cancelled \in SUBSET Nat
  BY <1>1 DEF ItemsWith
<1>3. CASE failures # {}
  <2>1. Min(failures) \in failures
    BY <1>2, <1>3, MinIsLeast
  <2>2. Min(failures) \in 0..Items
    BY <1>1, <2>1 DEF ItemsWith
  <2>3. \/ VerdictOf(read) = Result("failure", Min(failures))
        \/ VerdictOf(read) = Result("infra", Min(failures))
    BY <1>3 DEF VerdictOf
  <2> QED BY <2>2, <2>3 DEF Outcomes, Result
<1>4. CASE failures = {} /\ cancelled # {}
  <2>1. Min(cancelled) \in cancelled
    BY <1>2, <1>4, MinIsLeast
  <2>2. Min(cancelled) \in 0..Items
    BY <1>1, <2>1 DEF ItemsWith
  <2>3. VerdictOf(read) = Result("cancellation", Min(cancelled))
    BY <1>4 DEF VerdictOf
  <2> QED BY <1>4, <2>2, <2>3 DEF Outcomes, Result, ItemsWith
<1>5. CASE failures = {} /\ cancelled = {}
  <2>1. VerdictOf(read) = Success
    BY <1>5 DEF VerdictOf
  <2> QED BY <1>1, <2>1 DEF Success, Outcomes, Result
<1> QED BY <1>3, <1>4, <1>5

\* A verdict that is no error of a read is that of the final statuses.
LEMMA VerdictStands ==
    ASSUME TypeOK, NEW read, NEW final,
           \A i \in 1..Items : read[i] \in {final[i], "unread"} /\ final[i] # "unread",
           VerdictOf(read).kind # "infra"
    PROVE  VerdictOf(read) = VerdictOf(final)
<1> DEFINE F(r) == ItemsWith(r, {"ERROR", "DEAD", "unread"})
           K(r) == ItemsWith(r, {"CANCELLED"})
<1>1. Items \in Nat
  BY ItemsNumbered
<1>2. /\ F(read) \in SUBSET Nat /\ F(final) \in SUBSET Nat
      /\ F(final) \subseteq F(read)
  BY <1>1 DEF ItemsWith
<1>3. CASE F(read) = {}
  <2>1. \A i \in 1..Items : read[i] = final[i]
    BY <1>3 DEF ItemsWith
  <2>2. F(final) = {} /\ K(final) = K(read)
    BY <2>1, <1>3 DEF ItemsWith
  <2> HIDE DEF F, K
  <2>3. \A r \in {read, final} : F(r) = {} =>
            VerdictOf(r) = IF K(r) # {} THEN Result("cancellation", Min(K(r))) ELSE Success
    BY DEF VerdictOf, F, K
  <2> QED BY <1>3, <2>2, <2>3
<1>4. CASE F(read) # {}
  <2> DEFINE i == Min(F(read))
  <2>1. i \in F(read) /\ \A j \in F(read) : i <= j
    BY <1>2, <1>4, MinIsLeast
  <2>2. VerdictOf(read) = Result(IF read[i] = "unread" THEN "infra" ELSE "failure", i)
    BY <1>4 DEF VerdictOf
  <2>3. read[i] # "unread"
    BY <2>2 DEF Result
  <2>4. read[i] = final[i] /\ i \in F(final)
    BY <2>1, <2>3 DEF ItemsWith
  <2>5. Min(F(final)) \in F(final) /\ \A j \in F(final) : Min(F(final)) <= j
    BY <1>2, <2>4, MinIsLeast
  <2>6. i = Min(F(final))
    <3> HIDE DEF F
    <3> QED BY <1>2, <2>1, <2>4, <2>5
  <2>7. VerdictOf(final) =
            Result(IF final[Min(F(final))] = "unread" THEN "infra" ELSE "failure",
                   Min(F(final)))
    BY <2>4 DEF VerdictOf
  <2>8. VerdictOf(read) = Result("failure", i)
    BY <2>2, <2>3
  <2>9. VerdictOf(final) = Result("failure", i)
    <3> HIDE DEF F, i
    <3> QED BY <2>3, <2>4, <2>6, <2>7
  <2> QED BY <2>8, <2>9
<1> QED BY <1>3, <1>4

\* A loop that moves to a place of its kind stays typed.
LEMMA TypeMoved ==
    ASSUME loop \in [Loops -> LoopStates], NEW w \in Loops, NEW where \in LoopPlaces
    PROVE  Moved(w, where) \in [Loops -> LoopStates]
<1>1. [loop[w] EXCEPT !.at = where] \in LoopStates
  BY DEF LoopStates
<1> QED BY <1>1 DEF Moved

\* So does one that abandons.
LEMMA TypeAbandoned ==
    ASSUME TypeOK, NEW w \in Loops, Abandons(w)
    PROVE  TypeOK'
<1>1. loop' \in [Loops -> LoopStates]
  <2>1. loop' = Moved(w, IF w = "parent" THEN "done" ELSE "failed")
    BY DEF Abandons
  <2>2. (IF w = "parent" THEN "done" ELSE "failed") \in LoopPlaces
    BY DEF LoopPlaces
  <2> QED BY <2>1, <2>2, TypeMoved DEF TypeOK
<1>2. collected' \in Seq(Final \cup {"unread"}) /\ Len(collected') <= Items
  BY ItemsNumbered DEF Abandons, TypeOK
<1>3. verdict' \in Outcomes
  BY ItemsNumbered DEF Abandons, TypeOK, Infra, Result, Outcomes
<1> QED BY <1>1, <1>2, <1>3 DEF Abandons, TypeOK, plan, children, place, Items, Outcomes

\* So is what has been read.
LEMMA TypeRead ==
    ASSUME TypeOK, NEW answer \in Final \cup {"unread"}, Unread, Reads(answer)
    PROVE  TypeOK'
<1>1. collected' \in Seq(Final \cup {"unread"}) /\ Len(collected') <= Items
  <2>1. collected' = Append(collected, answer) /\ Len(collected) < Items
    BY DEF Reads, Unread
  <2> QED BY <2>1, ItemsNumbered DEF TypeOK
<1> QED BY <1>1 DEF Reads, TypeOK, plan, children, place, Items, Outcomes

\* The type invariant is inductive.
LEMMA TypePreserved ==
    TypeOK /\ [Next]_vars => TypeOK'
<1> SUFFICES ASSUME TypeOK, [Next]_vars
             PROVE  TypeOK'
  OBVIOUS
<1> USE ItemsNumbered, FanOutAssumption DEF TypeOK, Items, Loops, Stages,
        Outcomes, Result, Nothing, Infra, Success, Statuses, Final, Failed,
        LoopStates, LoopPlaces, plan, children, place, body, results
<1>1. CASE EnqueueChild
  BY <1>1 DEF EnqueueChild, ChildEnqueued
<1>2. CASE AllEnqueued
  BY <1>2 DEF AllEnqueued, Ends
<1>3. CASE EnqueueWatcher
  <2>1. WatcherEnqueued \in [Loops -> LoopStates]
    BY TypeMoved DEF WatcherEnqueued
  <2>2. loop' \in [Loops -> LoopStates]
    BY <1>3, <2>1 DEF EnqueueWatcher, Off
  <2>3. collected' \in Seq(Final \cup {"unread"}) /\ Len(collected') <= Items
    BY <1>3 DEF EnqueueWatcher
  <2> QED BY <1>3, <2>2, <2>3 DEF EnqueueWatcher
<1>4. CASE AwaitResult
  BY <1>4, SMTT(20) DEF AwaitResult, Awaiting, Ends
<1>5. CASE AwaitCompletes
  BY <1>5 DEF AwaitCompletes, Awaiting, Ends
<1>6. CASE Collect
  <2>1. VerdictOf(collected) \in Outcomes
    BY VerdictRead
  <2>2. loop' \in [Loops -> LoopStates]
    BY <1>6 DEF Collect, Moved
  <2>3. verdict' \in Outcomes /\ verdicts' \subseteq Outcomes
    <3> HIDE DEF Outcomes
    <3> QED BY <1>6, <2>1 DEF Collect
  <2>4. collected' \in Seq(Final \cup {"unread"}) /\ Len(collected') <= Items
    BY <1>6 DEF Collect
  <2> QED BY <1>6, <2>2, <2>3, <2>4 DEF Collect
<1>7. CASE ReadFails
  <2>1. CASE Abandons("parent")
    BY <2>1, TypeAbandoned
  <2>2. CASE Unread /\ Reads("unread")
    BY <2>2, TypeRead
  <2> QED BY <1>7, <2>1, <2>2 DEF ReadFails
<1>8. CASE RecordAwait
  BY <1>8 DEF RecordAwait, Ends, Off
<1>9. CASE EnqueueFails
  <2>1. status' \in [Children -> Statuses]
    BY <1>9, SMTT(30) DEF EnqueueFails, ChildEnqueued
  <2>2. loop' \in [Loops -> LoopStates]
    BY <1>9, SMTT(30) DEF EnqueueFails, WatcherEnqueued, Moved
  <2> QED BY <1>9, <2>1, <2>2 DEF EnqueueFails, Ends
<1>10. CASE AwaitInterrupted
  <2>1. loop' \in [Loops -> LoopStates]
    BY <1>10, TypeMoved DEF AwaitInterrupted
  <2>2. verdict' \in Outcomes
    BY <1>10 DEF AwaitInterrupted
  <2> QED BY <1>10, <2>1, <2>2 DEF AwaitInterrupted
<1>11. CASE ResultInterrupted
  BY <1>11 DEF ResultInterrupted, Awaiting, Ends
<1>25. CASE ReadResult
  BY <1>25, TypeRead DEF ReadResult
<1>26. CASE AwaitFails
  BY <1>26 DEF AwaitFails, Awaiting, Ends
<1>12. ASSUME NEW w \in Loops, Poll(w)
      PROVE  TypeOK'
  <2>1. loop' \in [Loops -> LoopStates]
    <3> DEFINE l == [at |-> IF AnyFailed /\ ~loop[w].issued THEN "cancel"
                            ELSE IF Drained THEN Through(w) ELSE "sleep",
                     issued |-> loop[w].issued, drained |-> Drained]
    <3>1. Drained \in BOOLEAN /\ Through(w) \in LoopPlaces
      BY DEF Drained, Through
    <3>2. loop[w].issued \in BOOLEAN
      OBVIOUS
    <3>3. l \in LoopStates
      BY <3>1, <3>2
    <3>4. loop' = [loop EXCEPT ![w] = l]
      BY <1>12 DEF Poll
    <3> QED BY <3>3, <3>4
  <2> QED BY <1>12, <2>1 DEF Poll
<1>13. ASSUME NEW w \in Loops, PollFails(w)
      PROVE  TypeOK'
  BY <1>13, TypeAbandoned DEF PollFails
<1>14. ASSUME NEW w \in Loops, Wake(w)
      PROVE  TypeOK'
  BY <1>14, ZenonT(60) DEF Wake, Moved
<1>15. ASSUME NEW w \in Loops, CancelBatch(w)
      PROVE  TypeOK'
  BY <1>15 DEF CancelBatch, BatchCancelled
<1>16. ASSUME NEW w \in Loops, CancelFails(w)
      PROVE  TypeOK'
  BY <1>16 DEF CancelFails, BatchCancelled, Through, IssuedAfterFailure
<1>17. CASE WatcherBegins
  BY <1>17, ZenonT(60) DEF WatcherBegins, Moved
<1>18. CASE ParentCrashes
  <2>1. loop' \in [Loops -> LoopStates]
    BY <1>18 DEF ParentCrashes, Off
  <2>2. crashes' \in [Loops -> 0..MaxCrashes]
    BY <1>18 DEF ParentCrashes, Crashes
  <2>3. UNCHANGED <<plan, children, stage, next, awaited, outcome, verdicts>>
    BY <1>18 DEF ParentCrashes
  <2>4. verdict' = Nothing /\ up' = FALSE
    BY <1>18 DEF ParentCrashes
  <2>5. Nothing \in Outcomes
    BY SMTT(30)
  <2>6. collected' \in Seq(Final \cup {"unread"}) /\ Len(collected') <= Items
    BY <1>18 DEF ParentCrashes
  <2> QED BY <2>1, <2>2, <2>3, <2>4, <2>5, <2>6
<1>19. CASE ParentRecovers
  BY <1>19 DEF ParentRecovers
<1>20. CASE WatcherCrashes
  <2>1. loop' \in [Loops -> LoopStates]
    BY <1>20 DEF WatcherCrashes, Off
  <2>2. crashes' \in [Loops -> 0..MaxCrashes]
    BY <1>20 DEF WatcherCrashes, Crashes
  <2> QED BY <1>20, <2>1, <2>2 DEF WatcherCrashes
<1>21. ASSUME NEW c \in Children, ChildEnds(c)
      PROVE  TypeOK'
  BY <1>21 DEF ChildEnds
<1>22. ASSUME NEW c \in Children, CancelledFromOutside(c)
      PROVE  TypeOK'
  BY <1>22 DEF CancelledFromOutside
<1>23. ASSUME NEW c \in Children, Deleted(c)
      PROVE  TypeOK'
  BY <1>23 DEF Deleted
<1>24. CASE UNCHANGED vars
  BY <1>24 DEF vars
<1> QED
  BY <1>1, <1>2, <1>3, <1>4, <1>5, <1>6, <1>7, <1>8, <1>9, <1>10, <1>11,
     <1>12, <1>13, <1>14, <1>15, <1>16, <1>17, <1>18, <1>19, <1>20, <1>21,
     <1>22, <1>23, <1>24, <1>25, <1>26 DEF
     Next, ParentStep, LoopStep

\* How one step moves the statuses: a child that is final stays as it is or
\* is deleted, and one is cancelled only by a loop or from outside.
StatusMoves ==
    /\ UNCHANGED plan
    /\ outside \subseteq outside'
    /\ \A c \in Children :
         /\ status[c] \in Final \cup {"deleted"} => status'[c] \in {status[c], "deleted"}
         /\ status'[c] = "CANCELLED" => \/ status[c] = "CANCELLED"
                                       \/ \E w \in Loops : loop[w].at = "cancel"
                                       \/ c \in outside'

\* Every step moves the statuses so.
LEMMA StepStatuses ==
    TypeOK /\ [Next]_vars => StatusMoves
<1> SUFFICES ASSUME TypeOK, [Next]_vars
             PROVE  StatusMoves
  OBVIOUS
<1> USE ItemsNumbered DEF TypeOK, StatusMoves, Loops, Final, Failed, plan,
        children
<1>1. CASE EnqueueChild
  BY <1>1 DEF EnqueueChild, ChildEnqueued
<1>2. CASE AllEnqueued
  BY <1>2 DEF AllEnqueued, Ends
<1>3. CASE EnqueueWatcher
  BY <1>3 DEF EnqueueWatcher, WatcherEnqueued, Moved, Off
<1>4. CASE AwaitResult
  BY <1>4 DEF AwaitResult, Awaiting, Ends
<1>5. CASE AwaitCompletes
  BY <1>5 DEF AwaitCompletes, Awaiting, Ends
<1>6. CASE Collect
  BY <1>6 DEF Collect, Collecting, Moved
<1>7. CASE ReadFails
  BY <1>7 DEF ReadFails, Unread, Collecting, ToRead, Reads, Abandons, Moved
<1>8. CASE RecordAwait
  BY <1>8 DEF RecordAwait, Ends, Off
<1>9. CASE EnqueueFails
  BY <1>9 DEF EnqueueFails, ChildEnqueued, WatcherEnqueued, Moved, Ends
<1>10. CASE AwaitInterrupted
  BY <1>10 DEF AwaitInterrupted, Moved
<1>11. CASE ResultInterrupted
  BY <1>11 DEF ResultInterrupted, Awaiting, Ends
<1>25. CASE ReadResult
  BY <1>25 DEF ReadResult, Unread, Collecting, ToRead, Reads
<1>26. CASE AwaitFails
  BY <1>26 DEF AwaitFails, Awaiting, Ends
<1>12. ASSUME NEW w \in Loops, Poll(w)
      PROVE  StatusMoves
  BY <1>12 DEF Poll, Through
<1>13. ASSUME NEW w \in Loops, PollFails(w)
      PROVE  StatusMoves
  BY <1>13 DEF PollFails, Abandons, Moved
<1>14. ASSUME NEW w \in Loops, Wake(w)
      PROVE  StatusMoves
  BY <1>14 DEF Wake, Moved
<1>15. ASSUME NEW w \in Loops, CancelBatch(w)
      PROVE  StatusMoves
  BY <1>15 DEF CancelBatch, BatchCancelled
<1>16. ASSUME NEW w \in Loops, CancelFails(w)
      PROVE  StatusMoves
  BY <1>16 DEF CancelFails, BatchCancelled, Through, IssuedAfterFailure
<1>17. CASE WatcherBegins
  BY <1>17 DEF WatcherBegins, Moved
<1>18. CASE ParentCrashes
  BY <1>18 DEF ParentCrashes, Crashes, Off
<1>19. CASE ParentRecovers
  BY <1>19 DEF ParentRecovers
<1>20. CASE WatcherCrashes
  BY <1>20 DEF WatcherCrashes, Crashes, Off
<1>21. ASSUME NEW c \in Children, ChildEnds(c)
      PROVE  StatusMoves
  BY <1>21 DEF ChildEnds
<1>22. ASSUME NEW c \in Children, CancelledFromOutside(c)
      PROVE  StatusMoves
  BY <1>22 DEF CancelledFromOutside
<1>23. ASSUME NEW c \in Children, Deleted(c)
      PROVE  StatusMoves
  BY <1>23 DEF Deleted
<1>24. CASE UNCHANGED vars
  BY <1>24 DEF vars
<1> QED
  BY <1>1, <1>2, <1>3, <1>4, <1>5, <1>6, <1>7, <1>8, <1>9, <1>10, <1>11,
     <1>12, <1>13, <1>14, <1>15, <1>16, <1>17, <1>18, <1>19, <1>20, <1>21,
     <1>22, <1>23, <1>24, <1>25, <1>26 DEF
     Next, ParentStep, LoopStep

\* A loop comes to its cancel only by a read that shows a failure.
LEMMA StepCancels ==
    TypeOK /\ [Next]_vars =>
        \A w \in Loops : loop'[w].at = "cancel" => loop[w].at = "cancel" \/ AnyFailed
<1> DEFINE Goal == \A w \in Loops : loop'[w].at = "cancel" =>
                                    loop[w].at = "cancel" \/ AnyFailed
<1> SUFFICES ASSUME TypeOK, [Next]_vars
             PROVE  Goal
  OBVIOUS
<1> USE DEF TypeOK, Loops, LoopStates, plan, children, place, body, results
<1>1. CASE EnqueueChild
  BY <1>1 DEF EnqueueChild, ChildEnqueued
<1>2. CASE AllEnqueued
  BY <1>2 DEF AllEnqueued, Ends
<1>3. CASE EnqueueWatcher
  BY <1>3 DEF EnqueueWatcher, WatcherEnqueued, Moved, Off
<1>4. CASE AwaitResult
  BY <1>4 DEF AwaitResult, Awaiting, Ends
<1>5. CASE AwaitCompletes
  BY <1>5 DEF AwaitCompletes, Awaiting, Ends
<1>6. CASE Collect
  BY <1>6 DEF Collect, Collecting, Moved
<1>7. CASE ReadFails
  BY <1>7 DEF ReadFails, Unread, Collecting, ToRead, Reads, Abandons, Moved
<1>8. CASE RecordAwait
  BY <1>8 DEF RecordAwait, Ends, Off
<1>9. CASE EnqueueFails
  BY <1>9 DEF EnqueueFails, ChildEnqueued, WatcherEnqueued, Moved, Ends
<1>10. CASE AwaitInterrupted
  BY <1>10 DEF AwaitInterrupted, Moved
<1>11. CASE ResultInterrupted
  BY <1>11 DEF ResultInterrupted, Awaiting, Ends
<1>25. CASE ReadResult
  BY <1>25 DEF ReadResult, Unread, Collecting, ToRead, Reads
<1>26. CASE AwaitFails
  BY <1>26 DEF AwaitFails, Awaiting, Ends
<1>12. ASSUME NEW w \in Loops, Poll(w)
      PROVE  Goal
  BY <1>12 DEF Poll, Through
<1>13. ASSUME NEW w \in Loops, PollFails(w)
      PROVE  Goal
  BY <1>13 DEF PollFails, Abandons, Moved
<1>14. ASSUME NEW w \in Loops, Wake(w)
      PROVE  Goal
  BY <1>14 DEF Wake, Moved
<1>15. ASSUME NEW w \in Loops, CancelBatch(w)
      PROVE  Goal
  BY <1>15 DEF CancelBatch, BatchCancelled
<1>16. ASSUME NEW w \in Loops, CancelFails(w)
      PROVE  Goal
  BY <1>16 DEF CancelFails, BatchCancelled, Through, IssuedAfterFailure
<1>17. CASE WatcherBegins
  BY <1>17 DEF WatcherBegins, Moved
<1>18. CASE ParentCrashes
  BY <1>18 DEF ParentCrashes, Crashes, Off
<1>19. CASE ParentRecovers
  BY <1>19 DEF ParentRecovers
<1>20. CASE WatcherCrashes
  BY <1>20 DEF WatcherCrashes, Crashes, Off
<1>21. ASSUME NEW c \in Children, ChildEnds(c)
      PROVE  Goal
  BY <1>21 DEF ChildEnds
<1>22. ASSUME NEW c \in Children, CancelledFromOutside(c)
      PROVE  Goal
  BY <1>22 DEF CancelledFromOutside
<1>23. ASSUME NEW c \in Children, Deleted(c)
      PROVE  Goal
  BY <1>23 DEF Deleted
<1>24. CASE UNCHANGED vars
  BY <1>24 DEF vars
<1> QED
  BY <1>1, <1>2, <1>3, <1>4, <1>5, <1>6, <1>7, <1>8, <1>9, <1>10, <1>11,
     <1>12, <1>13, <1>14, <1>15, <1>16, <1>17, <1>18, <1>19, <1>20, <1>21,
     <1>22, <1>23, <1>24, <1>25, <1>26 DEF
     Next, ParentStep, LoopStep

\* How one step moves what the body read, and what it came to.
CollectMoves ==
    /\ collected' # <<>> => loop'["parent"].at = "collect"
    /\ loop'["parent"].at = "collect" =>
         \/ loop["parent"].at = "collect" /\ loop'["parent"].drained = loop["parent"].drained
         \/ loop'["parent"].drained
    /\ \/ collected' = collected \/ collected' = <<>>
       \/ /\ loop["parent"].at = "collect"
          /\ Len(collected) < Items
          /\ UNCHANGED <<status, verdicts, loop>>
          /\ \/ collected' = Append(collected, ToRead) /\ ToRead \in Final
             \/ collected' = Append(collected, "unread")
    /\ loop'["parent"].drained =>
         loop["parent"].drained \/ (Drained /\ UNCHANGED <<status, verdicts>>)

VerdictMoves ==
    /\ \/ verdicts' = verdicts
       \/ /\ loop["parent"].at = "collect"
          /\ Len(collected) = Items /\ UNCHANGED status
          /\ verdicts' = verdicts \cup {v \in {VerdictOf(collected)} : v.kind # "infra"}
    /\ verdict'.kind = "cancellation" =>
         \/ verdict' = verdict
         \/ /\ loop["parent"].at = "collect"
            /\ Len(collected) = Items /\ UNCHANGED status
            /\ verdict' = VerdictOf(collected)
    /\ cancelSiblings /\ outcome'.kind = "cancellation" => outcome' \in {outcome, verdict}

\* Every step moves what the body read so.
LEMMA StepCollects ==
    TypeOK /\ VerdictsStand /\ [Next]_vars => CollectMoves
<1> SUFFICES ASSUME TypeOK, VerdictsStand, [Next]_vars
             PROVE  CollectMoves
  OBVIOUS
<1> USE DEF TypeOK, VerdictsStand, CollectMoves, Loops, LoopStates, Result, Nothing, Infra, Success,
        plan, children, place, body, results
<1>1. CASE EnqueueChild
  BY <1>1 DEF EnqueueChild, ChildEnqueued
<1>2. CASE AllEnqueued
  BY <1>2 DEF AllEnqueued, Ends
<1>3. CASE EnqueueWatcher
  <2>1. loop'["parent"].at = "read" /\ ~loop'["parent"].drained
    BY <1>3 DEF EnqueueWatcher, WatcherEnqueued, Moved, Off
  <2> QED BY <1>3, <2>1 DEF EnqueueWatcher
<1>4. CASE AwaitResult
  BY <1>4 DEF AwaitResult, Awaiting, Ends
<1>5. CASE AwaitCompletes
  BY <1>5 DEF AwaitCompletes, Awaiting, Ends
<1>6. CASE Collect
  BY <1>6 DEF Collect, Collecting, Moved
<1>7. CASE ReadFails
  BY <1>7 DEF ReadFails, Unread, Collecting, ToRead, Reads, Abandons, Moved
<1>8. CASE RecordAwait
  BY <1>8 DEF RecordAwait, Ends, Off
<1>9. CASE EnqueueFails
  BY <1>9 DEF EnqueueFails, ChildEnqueued, WatcherEnqueued, Moved, Ends
<1>10. CASE AwaitInterrupted
  BY <1>10 DEF AwaitInterrupted, Moved
<1>11. CASE ResultInterrupted
  BY <1>11 DEF ResultInterrupted, Awaiting, Ends
<1>25. CASE ReadResult
  BY <1>25 DEF ReadResult, Unread, Collecting, ToRead, Reads
<1>26. CASE AwaitFails
  BY <1>26 DEF AwaitFails, Awaiting, Ends
<1>12. ASSUME NEW w \in Loops, Poll(w)
      PROVE  CollectMoves
  BY <1>12 DEF Poll, Through
<1>13. ASSUME NEW w \in Loops, PollFails(w)
      PROVE  CollectMoves
  BY <1>13 DEF PollFails, Abandons, Moved
<1>14. ASSUME NEW w \in Loops, Wake(w)
      PROVE  CollectMoves
  BY <1>14 DEF Wake, Moved
<1>15. ASSUME NEW w \in Loops, CancelBatch(w)
      PROVE  CollectMoves
  BY <1>15 DEF CancelBatch, BatchCancelled
<1>16. ASSUME NEW w \in Loops, CancelFails(w)
      PROVE  CollectMoves
  BY <1>16 DEF CancelFails, BatchCancelled, Through, IssuedAfterFailure
<1>17. CASE WatcherBegins
  BY <1>17 DEF WatcherBegins, Moved
<1>18. CASE ParentCrashes
  BY <1>18 DEF ParentCrashes, Crashes, Off
<1>19. CASE ParentRecovers
  BY <1>19 DEF ParentRecovers
<1>20. CASE WatcherCrashes
  BY <1>20 DEF WatcherCrashes, Crashes, Off
<1>21. ASSUME NEW c \in Children, ChildEnds(c)
      PROVE  CollectMoves
  BY <1>21 DEF ChildEnds
<1>22. ASSUME NEW c \in Children, CancelledFromOutside(c)
      PROVE  CollectMoves
  BY <1>22 DEF CancelledFromOutside
<1>23. ASSUME NEW c \in Children, Deleted(c)
      PROVE  CollectMoves
  BY <1>23 DEF Deleted
<1>24. CASE UNCHANGED vars
  BY <1>24 DEF vars
<1> QED
  BY <1>1, <1>2, <1>3, <1>4, <1>5, <1>6, <1>7, <1>8, <1>9, <1>10, <1>11,
     <1>12, <1>13, <1>14, <1>15, <1>16, <1>17, <1>18, <1>19, <1>20, <1>21,
     <1>22, <1>23, <1>24, <1>25, <1>26 DEF
     Next, ParentStep, LoopStep

\* Every step moves the verdicts so.
LEMMA StepVerdicts ==
    TypeOK /\ [Next]_vars => VerdictMoves
<1> SUFFICES ASSUME TypeOK, [Next]_vars
             PROVE  VerdictMoves
  OBVIOUS
<1> USE DEF TypeOK, VerdictMoves, Result, Nothing, Infra, Success,
        plan, children, place, body, results
<1>1. CASE EnqueueChild
  BY <1>1 DEF EnqueueChild, ChildEnqueued
<1>2. CASE AllEnqueued
  BY <1>2 DEF AllEnqueued, Ends
<1>3. CASE EnqueueWatcher
  BY <1>3 DEF EnqueueWatcher, WatcherEnqueued, Moved, Off
<1>4. CASE AwaitResult
  BY <1>4 DEF AwaitResult, Awaiting, Ends
<1>5. CASE AwaitCompletes
  BY <1>5 DEF AwaitCompletes, Awaiting, Ends
<1>6. CASE Collect
  BY <1>6 DEF Collect, Collecting, Moved
<1>7. CASE ReadFails
  <2>1. CASE Abandons("parent")
    <3>1. verdict' = Infra /\ verdicts' = verdicts /\ outcome' = outcome
      BY <2>1 DEF Abandons
    <3> QED BY <3>1
  <2>2. CASE Reads("unread")
    BY <2>2 DEF Reads
  <2> QED BY <1>7, <2>1, <2>2 DEF ReadFails
<1>8. CASE RecordAwait
  BY <1>8 DEF RecordAwait, Ends, Off
<1>9. CASE EnqueueFails
  BY <1>9 DEF EnqueueFails, ChildEnqueued, WatcherEnqueued, Moved, Ends
<1>10. CASE AwaitInterrupted
  BY <1>10 DEF AwaitInterrupted, Moved
<1>11. CASE ResultInterrupted
  BY <1>11 DEF ResultInterrupted, Awaiting, Ends
<1>25. CASE ReadResult
  BY <1>25 DEF ReadResult, Unread, Collecting, ToRead, Reads
<1>26. CASE AwaitFails
  BY <1>26 DEF AwaitFails, Awaiting, Ends
<1>12. ASSUME NEW w \in Loops, Poll(w)
      PROVE  VerdictMoves
  BY <1>12 DEF Poll, Through
<1>13. ASSUME NEW w \in Loops, PollFails(w)
      PROVE  VerdictMoves
  BY <1>13 DEF PollFails, Abandons, Moved
<1>14. ASSUME NEW w \in Loops, Wake(w)
      PROVE  VerdictMoves
  BY <1>14 DEF Wake, Moved
<1>15. ASSUME NEW w \in Loops, CancelBatch(w)
      PROVE  VerdictMoves
  BY <1>15 DEF CancelBatch, BatchCancelled
<1>16. ASSUME NEW w \in Loops, CancelFails(w)
      PROVE  VerdictMoves
  BY <1>16 DEF CancelFails, BatchCancelled, Through, IssuedAfterFailure
<1>17. CASE WatcherBegins
  BY <1>17 DEF WatcherBegins, Moved
<1>18. CASE ParentCrashes
  BY <1>18 DEF ParentCrashes, Crashes, Off
<1>19. CASE ParentRecovers
  BY <1>19 DEF ParentRecovers
<1>20. CASE WatcherCrashes
  BY <1>20 DEF WatcherCrashes, Crashes, Off
<1>21. ASSUME NEW c \in Children, ChildEnds(c)
      PROVE  VerdictMoves
  BY <1>21 DEF ChildEnds
<1>22. ASSUME NEW c \in Children, CancelledFromOutside(c)
      PROVE  VerdictMoves
  BY <1>22 DEF CancelledFromOutside
<1>23. ASSUME NEW c \in Children, Deleted(c)
      PROVE  VerdictMoves
  BY <1>23 DEF Deleted
<1>24. CASE UNCHANGED vars
  BY <1>24 DEF vars
<1> QED
  BY <1>1, <1>2, <1>3, <1>4, <1>5, <1>6, <1>7, <1>8, <1>9, <1>10, <1>11,
     <1>12, <1>13, <1>14, <1>15, <1>16, <1>17, <1>18, <1>19, <1>20, <1>21,
     <1>22, <1>23, <1>24, <1>25, <1>26 DEF
     Next, ParentStep, LoopStep

\* A loop that has seen all children final found every item's child so.
LEMMA DrainedIsFinal ==
    ASSUME TypeOK, Drained
    PROVE  \A i \in 1..Items : status[childOf[i]] \in Final
<1>1. IsFiniteSet(Batch)
  BY ItemsNumbered, FanOutAssumption, FS_Subset
<1>2. Terminal \subseteq Batch
  BY DEF Terminal
<1>3. Terminal = Batch
  BY <1>1, <1>2, FS_Subset DEF Drained
<1> QED BY <1>3 DEF Terminal, Batch

\* What a verdict is depends on the number of items only.
LEMMA VerdictSame ==
    ASSUME NEW CONSTANT read, Items' = Items
    PROVE  VerdictOf(read)' = VerdictOf(read)
<1> DEFINE f == ItemsWith(read, {"ERROR", "DEAD", "unread"})
           k == ItemsWith(read, {"CANCELLED"})
<1>1. f' = f /\ k' = k
  BY DEF ItemsWith
<1> HIDE DEF f, k
<1>2. VerdictOf(read) =
        IF f # {} THEN Result(IF read[Min(f)] = "unread" THEN "infra" ELSE "failure", Min(f))
        ELSE IF k # {} THEN Result("cancellation", Min(k)) ELSE Success
  BY DEF VerdictOf, f, k
<1>3. VerdictOf(read)' =
        IF f' # {} THEN Result(IF read[Min(f')] = "unread" THEN "infra" ELSE "failure", Min(f'))
        ELSE IF k' # {} THEN Result("cancellation", Min(k')) ELSE Success
  BY DEF VerdictOf, f, k, Success, Result
<1> QED BY <1>1, <1>2, <1>3

\* What the children ended with goes on accounting for what is read of them.
LEMMA VerdictsPreserved ==
    TypeOK /\ VerdictsStand /\ [Next]_vars => VerdictsStand'
<1> SUFFICES ASSUME TypeOK, VerdictsStand, [Next]_vars
             PROVE  VerdictsStand'
  OBVIOUS
<1>1. StatusMoves /\ VerdictMoves /\ CollectMoves
  BY StepStatuses, StepVerdicts, StepCollects
<1>2. /\ Items' = Items /\ childOf' = childOf /\ Items \in Nat
      /\ \A i \in 1..Items : childOf[i] \in Children
  BY <1>1, ItemsNumbered DEF StatusMoves, plan, Items
<1>3. /\ collected' # <<>> => loop'["parent"].at = "collect"
      /\ loop'["parent"].at = "collect" => loop'["parent"].drained
  BY <1>1 DEF CollectMoves, VerdictsStand
<1>4. collected \in Seq(Final \cup {"unread"}) /\ Len(collected) <= Items
  BY DEF TypeOK
<1>5. PICK old \in [1..Items -> Final] : Accounts(old)
  BY DEF VerdictsStand
<1>6. CASE verdicts = {} /\ ~loop["parent"].drained /\ loop'["parent"].drained
  <2>1. Drained /\ status' = status /\ verdicts' = {}
    BY <1>1, <1>6 DEF CollectMoves
  <2>2. PICK final \in [1..Items -> Final] : \A i \in 1..Items : final[i] = status[childOf[i]]
    <3>1. [i \in 1..Items |-> status[childOf[i]]] \in [1..Items -> Final]
      BY <2>1, DrainedIsFinal
    <3> QED BY <3>1
  <2>3. collected = <<>>
    BY <1>6 DEF VerdictsStand
  <2>4. collected' = <<>>
    BY <1>1, <1>6, <2>3 DEF CollectMoves, VerdictsStand
  <2>5. Accounts(final)'
    BY <1>2, <2>1, <2>2, <2>4 DEF Accounts
  <2> QED BY <1>2, <1>3, <2>2, <2>5 DEF VerdictsStand
<1>7. CASE verdicts # {} \/ loop["parent"].drained \/ ~loop'["parent"].drained
  <2>1. verdicts' \subseteq {VerdictOf(old)}
    <3>1. CASE verdicts' = verdicts
      BY <1>5, <3>1 DEF Accounts
    <3>2. CASE /\ Len(collected) = Items
               /\ verdicts' = verdicts \cup {v \in {VerdictOf(collected)} : v.kind # "infra"}
      <4>1. \A i \in 1..Items : collected[i] \in {old[i], "unread"} /\ old[i] # "unread"
        BY <1>5, <3>2 DEF Accounts, Final, Failed
      <4>2. VerdictOf(collected).kind # "infra" => VerdictOf(collected) = VerdictOf(old)
        BY <4>1, VerdictStands
      <4> QED BY <1>5, <3>2, <4>2 DEF Accounts
    <3> QED BY <1>1, <3>1, <3>2 DEF VerdictMoves
  <2>2. verdicts' # {} \/ loop'["parent"].drained =>
            \A i \in 1..Items : status'[childOf[i]] \in {old[i], "deleted"}
    <3> SUFFICES ASSUME verdicts' # {} \/ loop'["parent"].drained
                 PROVE  \A i \in 1..Items : status'[childOf[i]] \in {old[i], "deleted"}
      OBVIOUS
    <3>1. verdicts # {} \/ loop["parent"].drained
      BY <1>1, <1>7 DEF VerdictMoves, VerdictsStand
    <3>2. \A i \in 1..Items : status[childOf[i]] \in {old[i], "deleted"}
      BY <1>5, <3>1 DEF Accounts
    <3> QED BY <1>1, <1>2, <3>2 DEF StatusMoves
  <2>3. \A i \in 1..Len(collected') : collected'[i] \in {old[i], "unread"}
    <3>1. CASE collected' = collected
      BY <1>5, <3>1 DEF Accounts
    <3>2. CASE collected' = <<>>
      BY <3>2
    <3>3. CASE /\ loop["parent"].at = "collect" /\ Len(collected) < Items
               /\ \/ collected' = Append(collected, ToRead) /\ ToRead \in Final
                  \/ collected' = Append(collected, "unread")
      <4>1. \A i \in 1..Items : status[childOf[i]] \in {old[i], "deleted"}
        BY <1>5, <3>3 DEF Accounts, VerdictsStand
      <4>2. Len(collected) + 1 \in 1..Items
        BY <1>2, <1>4, <3>3
      <4>3. ToRead \in Final => ToRead = old[Len(collected) + 1]
        BY <4>1, <4>2 DEF ToRead, Final, Failed
      <4>4. PICK x : /\ collected' = Append(collected, x)
                     /\ x \in Final \cup {"unread"}
                     /\ x \in {old[Len(collected) + 1], "unread"}
        BY <3>3, <4>3
      <4> QED BY <1>4, <1>5, <4>4 DEF Accounts
    <3> QED BY <1>1, <3>1, <3>2, <3>3 DEF CollectMoves
  <2>4. Accounts(old)'
    BY <1>2, <2>1, <2>2, <2>3, VerdictSame DEF Accounts
  <2> QED BY <1>2, <1>3, <2>4 DEF VerdictsStand
<1> QED BY <1>6, <1>7

\* A failure stays behind a cancellation, whoever reads or deletes it.
LEMMA FailureStays ==
    TypeOK /\ VerdictsStand /\ FailureBehind /\ [Next]_vars => FailureBehind'
<1> SUFFICES ASSUME TypeOK, VerdictsStand, FailureBehind, [Next]_vars
             PROVE  FailureBehind'
  OBVIOUS
<1>1. StatusMoves /\ CollectMoves
  BY StepStatuses, StepCollects
<1>2. /\ Items' = Items /\ childOf' = childOf /\ Items \in Nat
      /\ \A i \in 1..Items : childOf[i] \in Children
  BY <1>1, ItemsNumbered DEF StatusMoves, plan, Items
<1>3. collected \in Seq(Final \cup {"unread"}) /\ Len(collected) <= Items
  BY DEF TypeOK
<1>4. PICK i \in 1..Items :
        \/ status[childOf[i]] \in {"ERROR", "DEAD"}
        \/ /\ status[childOf[i]] = "deleted"
           /\ i <= Len(collected) => collected[i] \in {"ERROR", "DEAD", "unread"}
  BY DEF FailureBehind
<1>5. i <= Len(collected) => collected[i] \in {"ERROR", "DEAD", "unread"}
  <2>1. PICK final \in [1..Items -> Final] : Accounts(final)
    BY DEF VerdictsStand
  <2>2. ASSUME i <= Len(collected), status[childOf[i]] \in {"ERROR", "DEAD"}
        PROVE  collected[i] \in {"ERROR", "DEAD", "unread"}
    <3>1. loop["parent"].drained
      BY <1>2, <1>3, <2>2 DEF VerdictsStand
    <3>2. status[childOf[i]] = final[i]
      BY <2>1, <2>2, <3>1 DEF Accounts
    <3>3. i \in 1..Len(collected)
      BY <1>2, <1>3, <2>2
    <3> QED BY <2>1, <2>2, <3>2, <3>3 DEF Accounts
  <2> QED BY <1>4, <2>2
<1>6. /\ status'[childOf[i]] \in {status[childOf[i]], "deleted"}
      /\ status'[childOf[i]] \in {"ERROR", "DEAD", "deleted"}
  BY <1>1, <1>2, <1>4 DEF StatusMoves, Final, Failed
<1>7. i <= Len(collected') =>
        \/ collected'[i] \in {"ERROR", "DEAD", "unread"}
        \/ status'[childOf[i]] \in {"ERROR", "DEAD"}
  <2>1. CASE collected' = collected
    BY <1>5, <2>1
  <2>2. CASE collected' = <<>>
    BY <1>2, <2>2
  <2>3. ASSUME NEW x, collected' = Append(collected, x), UNCHANGED status,
               (x = ToRead /\ ToRead \in Final) \/ x = "unread"
        PROVE  i <= Len(collected') =>
                 \/ collected'[i] \in {"ERROR", "DEAD", "unread"}
                 \/ status'[childOf[i]] \in {"ERROR", "DEAD"}
    <3>1. CASE i <= Len(collected)
      BY <1>2, <1>3, <1>5, <2>3, <3>1
    <3>2. CASE i = Len(collected) + 1
      <4>1. collected'[i] = x
        BY <1>3, <2>3, <3>2
      <4>2. (x = status[childOf[i]] /\ x \in Final) \/ x = "unread"
        BY <2>3, <3>2 DEF ToRead
      <4> QED BY <1>6, <2>3, <4>1, <4>2 DEF Final, Failed
    <3> QED BY <1>2, <1>3, <2>3, <3>1, <3>2
  <2> QED BY <1>1, <2>1, <2>2, <2>3 DEF CollectMoves
<1> QED BY <1>2, <1>6, <1>7 DEF FailureBehind

\* A cancellation has a cause.
LEMMA CausePreserved ==
    TypeOK /\ VerdictsStand /\ CancelHasCause /\ [Next]_vars => CancelHasCause'
<1> SUFFICES ASSUME TypeOK, VerdictsStand, CancelHasCause, [Next]_vars,
                    \/ \E c \in Batch' : status'[c] = "CANCELLED"
                    \/ \E i \in 1..Len(collected') : collected'[i] = "CANCELLED"
                    \/ \E w \in Loops : loop'[w].at = "cancel"
             PROVE  outside' \cap Batch' # {} \/ FailureBehind'
  BY DEF CancelHasCause
<1>1. StatusMoves /\ CollectMoves
  BY StepStatuses, StepCollects
<1>2. Batch' = Batch /\ Batch \subseteq Children /\ Items \in Nat
  BY <1>1, ItemsNumbered DEF StatusMoves, plan, Batch, Items
<1>3. collected \in Seq(Final \cup {"unread"}) /\ Len(collected) <= Items
  BY DEF TypeOK
<1>4. \/ \E c \in Batch : status[c] = "CANCELLED"
      \/ \E i \in 1..Len(collected) : collected[i] = "CANCELLED"
      \/ \E w \in Loops : loop[w].at = "cancel"
      \/ \E c \in Batch : status[c] \in {"ERROR", "DEAD"}
      \/ outside' \cap Batch # {}
  <2>1. CASE \E c \in Batch : status'[c] = "CANCELLED"
    BY <1>1, <1>2, <2>1 DEF StatusMoves
  <2>2. CASE \E w \in Loops : loop'[w].at = "cancel"
    BY <2>2, StepCancels DEF AnyFailed, Failed
  <2>3. ASSUME NEW i \in 1..Len(collected'), collected'[i] = "CANCELLED"
        PROVE  \/ \E j \in 1..Len(collected) : collected[j] = "CANCELLED"
               \/ \E c \in Batch : status[c] = "CANCELLED"
    <3>1. CASE collected' = collected
      BY <2>3, <3>1
    <3>2. CASE collected' = <<>>
      BY <3>2
    <3>3. ASSUME NEW x, collected' = Append(collected, x), Len(collected) < Items,
                 x = ToRead \/ x = "unread"
          PROVE  \/ \E j \in 1..Len(collected) : collected[j] = "CANCELLED"
                 \/ \E c \in Batch : status[c] = "CANCELLED"
      <4>1. CASE i \in 1..Len(collected)
        BY <1>3, <2>3, <3>3, <4>1
      <4>2. CASE i = Len(collected) + 1
        <5>1. ToRead = "CANCELLED"
          BY <1>3, <2>3, <3>3, <4>2
        <5>2. Len(collected) + 1 \in 1..Items
          BY <1>2, <1>3, <3>3
        <5> QED BY <5>1, <5>2 DEF ToRead, Batch
      <4> QED BY <1>3, <3>3, <4>1, <4>2
    <3> QED BY <1>1, <3>1, <3>2, <3>3 DEF CollectMoves
  <2> QED BY <1>2, <2>1, <2>2, <2>3
<1>5. outside \cap Batch # {} \/ FailureBehind \/ outside' \cap Batch # {}
  <2>1. (\E c \in Batch : status[c] \in {"ERROR", "DEAD"}) => FailureBehind
    BY DEF FailureBehind, Batch
  <2> QED BY <1>4, <2>1 DEF CancelHasCause
<1> QED BY <1>1, <1>2, <1>5, FailureStays DEF StatusMoves

\* A cancellation that ends the stage is genuine.
LEMMA GenuinePreserved ==
    TypeOK /\ VerdictsStand /\ CancelHasCause /\ CancellationIsGenuine /\ [Next]_vars
    => CancellationIsGenuine'
<1> SUFFICES ASSUME TypeOK, VerdictsStand, CancelHasCause, CancellationIsGenuine,
                    [Next]_vars,
                    \/ verdict'.kind = "cancellation"
                    \/ cancelSiblings' /\ outcome'.kind = "cancellation"
             PROVE  /\ \A c \in Batch' : status'[c] \in {"SUCCESS", "CANCELLED", "deleted"}
                    /\ outside' \cap Batch' # {}
  BY DEF CancellationIsGenuine
<1>1. StatusMoves /\ VerdictMoves
  BY StepStatuses, StepVerdicts
<1>2. Batch' = Batch /\ Batch \subseteq Children /\ cancelSiblings' = cancelSiblings
  BY <1>1, ItemsNumbered DEF StatusMoves, plan, Batch, Items
<1>3. CASE \/ verdict.kind = "cancellation"
           \/ cancelSiblings /\ outcome.kind = "cancellation"
  <2>1. /\ \A c \in Batch : status[c] \in {"SUCCESS", "CANCELLED", "deleted"}
        /\ outside \cap Batch # {}
    BY <1>3 DEF CancellationIsGenuine
  <2> QED BY <1>1, <1>2, <2>1 DEF StatusMoves, Final, Failed
<1>4. CASE /\ loop["parent"].at = "collect" /\ Len(collected) = Items
           /\ UNCHANGED status /\ verdict' = VerdictOf(collected)
           /\ verdict'.kind = "cancellation"
  <2>1. /\ \A i \in 1..Items : collected[i] \notin {"ERROR", "DEAD", "unread"}
        /\ \E i \in 1..Items : collected[i] = "CANCELLED"
    BY <1>4, VerdictRead
  <2>2. \A i \in 1..Items : status[childOf[i]] \in {"SUCCESS", "CANCELLED", "deleted"}
    <3>1. PICK final \in [1..Items -> Final] : Accounts(final)
      BY DEF VerdictsStand
    <3>2. \A i \in 1..Items : /\ status[childOf[i]] \in {final[i], "deleted"}
                              /\ collected[i] \in {final[i], "unread"}
      BY <1>4, <3>1 DEF Accounts, VerdictsStand
    <3> QED BY <2>1, <3>2 DEF Final, Failed
  <2>3. ~FailureBehind
    BY <1>4, <2>1, <2>2 DEF FailureBehind
  <2>4. outside \cap Batch # {}
    BY <1>4, <2>1, <2>3 DEF CancelHasCause
  <2> QED BY <1>1, <1>2, <1>4, <2>2, <2>4 DEF StatusMoves, Batch
<1>5. CASE outcome' = verdict /\ outcome'.kind = "cancellation"
  BY <1>3, <1>5
<1> QED BY <1>1, <1>2, <1>3, <1>4, <1>5 DEF VerdictMoves

-----------------------------------------------------------------------------
\* A stage starts in a typed state.
LEMMA TypeAtStart == Init => TypeOK
<1> SUFFICES ASSUME Init
             PROVE  TypeOK
  OBVIOUS
<1>1. childOf \in Seq(Children) /\ Items \in Nat
  BY FanOutAssumption DEF Init, Items
<1> QED BY <1>1, FanOutAssumption DEF Init, TypeOK, Statuses, Stages, Loops,
           Off, LoopStates, LoopPlaces, Outcomes, Nothing, Result

\* IInv is inductive, and every execution keeps it.
THEOREM StageInvariant == Spec => []IInv
<1>1. Init => IInv
  <2> SUFFICES ASSUME Init
               PROVE  IInv
    OBVIOUS
  <2>1. TypeOK
    BY TypeAtStart
  <2>2. CancelHasCause
    BY <2>1, ItemsNumbered DEF Init, CancelHasCause, Off, Loops, Batch
  <2>3. VerdictsStand
    <3>1. [i \in 1..Items |-> "SUCCESS"] \in [1..Items -> Final]
      BY DEF Final
    <3>2. Accounts([i \in 1..Items |-> "SUCCESS"])
      BY DEF Init, Accounts, Off, Loops
    <3> QED BY <3>1, <3>2 DEF Init, VerdictsStand, Off, Loops
  <2>4. CancellationIsGenuine
    BY DEF Init, CancellationIsGenuine, Nothing, Result
  <2> QED BY <2>1, <2>2, <2>3, <2>4 DEF IInv
<1>2. IInv /\ [Next]_vars => IInv'
  BY TypePreserved, CausePreserved, VerdictsPreserved, GenuinePreserved DEF IInv
<1> QED BY <1>1, <1>2, PTL DEF Spec

\* Every execution of the await step comes to one verdict, and a cancellation
\* ends a stage with WithCancelSiblings only when no child failed and one was
\* cancelled from outside (fanout.go 140-143, 591-599).
THEOREM VerdictIsGenuine == Spec => []OneGenuineVerdict
<1>1. IInv => OneGenuineVerdict
  BY DEF IInv, OneGenuineVerdict, VerdictsStand, Accounts, CancellationIsGenuine
<1> QED BY <1>1, StageInvariant, PTL
=============================================================================
