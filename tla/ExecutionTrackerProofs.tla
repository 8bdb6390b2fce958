------------------------ MODULE ExecutionTrackerProofs ------------------------
(***************************************************************************)
(* Theorems about ExecutionTracker, for every set of runs and number of    *)
(* executions.  IInv is inductive; each of its parts has a lemma.          *)
(***************************************************************************)
EXTENDS ExecutionTracker, TLAPS

\* The type invariant is inductive.
LEMMA TypePreserved ==
    TypeOK /\ [Next]_vars => TypeOK'
<1> SUFFICES ASSUME TypeOK, [Next]_vars
             PROVE  TypeOK'
  OBVIOUS
<1> USE TrackerAssumption DEF TypeOK, Map, None, Tokens, Empty, rowVars,
        mapVars, pollVars, Places, PollPlaces
<1>1. ASSUME NEW r \in Runs, Begin(r)
      PROVE  TypeOK'
  BY <1>1 DEF Begin
<1>2. ASSUME NEW r \in Runs, StartWritten(r)
      PROVE  TypeOK'
  BY <1>2 DEF StartWritten, OpenRow
<1>3. ASSUME NEW r \in Runs, StartLost(r)
      PROVE  TypeOK'
  BY <1>3 DEF StartLost, OpenRow
<1>4. ASSUME NEW r \in Runs, StartGivesUp(r)
      PROVE  TypeOK'
  BY <1>4 DEF StartGivesUp
<1>5. ASSUME NEW r \in Runs, Register(r)
      PROVE  TypeOK'
  BY <1>5 DEF Register
<1>6. ASSUME NEW r \in Runs, BodyReturns(r)
      PROVE  TypeOK'
  BY <1>6 DEF BodyReturns
<1>7. ASSUME NEW r \in Runs, EndWritten(r)
      PROVE  TypeOK'
  BY <1>7 DEF EndWritten, Closes
<1>8. ASSUME NEW r \in Runs, EndFails(r)
      PROVE  TypeOK'
  BY <1>8 DEF EndFails, Closes
<1>9. ASSUME NEW r \in Runs, QueueClose(r)
      PROVE  TypeOK'
  BY <1>9 DEF QueueClose
<1>10. ASSUME NEW r \in Runs, Cancel(r)
       PROVE  TypeOK'
  BY <1>10 DEF Cancel
<1>11. ASSUME NEW r \in Runs, Revive(r)
       PROVE  TypeOK'
  BY <1>11 DEF Revive
<1>12. CASE PollTick
  BY <1>12 DEF PollTick
<1>13. CASE PollQuery
  BY <1>13 DEF PollQuery
<1>14. CASE PollQueryFails
  BY <1>14 DEF PollQueryFails
<1>15. CASE PollApply
  BY <1>15 DEF PollApply, IsSame
<1>16. CASE CopyUnended
  BY <1>16 DEF CopyUnended
<1>17. CASE RetryWritten
  BY <1>17 DEF RetryWritten, CloseSnapshot, Closes
<1>18. CASE RetryFails
  BY <1>18 DEF RetryFails, CloseSnapshot, Closes
<1>19. CASE DropLanded
  BY <1>19 DEF DropLanded
<1>20. CASE UNCHANGED vars
  BY <1>20 DEF vars
<1> QED
  BY <1>1, <1>2, <1>3, <1>4, <1>5, <1>6, <1>7, <1>8, <1>9, <1>10, <1>11,
     <1>12, <1>13, <1>14, <1>15, <1>16, <1>17, <1>18, <1>19, <1>20 DEF Next,
     Execution, Poll

\* Tokens never run ahead of the counter.
LEMMA TokensPreserved ==
    TypeOK /\ TokensIssued /\ [Next]_vars => TokensIssued'
<1> SUFFICES ASSUME TypeOK, TokensIssued, [Next]_vars
             PROVE  TokensIssued'
  OBVIOUS
<1> USE TrackerAssumption DEF TypeOK, TokensIssued, Map, None, Tokens,
        Empty, rowVars, mapVars, pollVars
<1>1. ASSUME NEW r \in Runs, Begin(r)
      PROVE  TokensIssued'
  BY <1>1 DEF Begin
<1>2. ASSUME NEW r \in Runs, StartWritten(r)
      PROVE  TokensIssued'
  BY <1>2 DEF StartWritten, OpenRow
<1>3. ASSUME NEW r \in Runs, StartLost(r)
      PROVE  TokensIssued'
  BY <1>3 DEF StartLost, OpenRow
<1>4. ASSUME NEW r \in Runs, StartGivesUp(r)
      PROVE  TokensIssued'
  BY <1>4 DEF StartGivesUp
<1>5. ASSUME NEW r \in Runs, Register(r)
      PROVE  TokensIssued'
  BY <1>5 DEF Register
<1>6. ASSUME NEW r \in Runs, BodyReturns(r)
      PROVE  TokensIssued'
  BY <1>6 DEF BodyReturns
<1>7. ASSUME NEW r \in Runs, EndWritten(r)
      PROVE  TokensIssued'
  BY <1>7 DEF EndWritten, Closes
<1>8. ASSUME NEW r \in Runs, EndFails(r)
      PROVE  TokensIssued'
  BY <1>8 DEF EndFails, Closes
<1>9. ASSUME NEW r \in Runs, QueueClose(r)
      PROVE  TokensIssued'
  BY <1>9 DEF QueueClose
<1>10. ASSUME NEW r \in Runs, Cancel(r)
       PROVE  TokensIssued'
  BY <1>10 DEF Cancel
<1>11. ASSUME NEW r \in Runs, Revive(r)
       PROVE  TokensIssued'
  BY <1>11 DEF Revive
<1>12. CASE PollTick
  BY <1>12 DEF PollTick
<1>13. CASE PollQuery
  BY <1>13 DEF PollQuery
<1>14. CASE PollQueryFails
  BY <1>14 DEF PollQueryFails
<1>15. CASE PollApply
  BY <1>15 DEF PollApply, IsSame
<1>16. CASE CopyUnended
  BY <1>16 DEF CopyUnended
<1>17. CASE RetryWritten
  BY <1>17 DEF RetryWritten, CloseSnapshot, Closes
<1>18. CASE RetryFails
  BY <1>18 DEF RetryFails, CloseSnapshot, Closes
<1>19. CASE DropLanded
  BY <1>19 DEF DropLanded
<1>20. CASE UNCHANGED vars
  BY <1>20 DEF vars
<1> QED
  BY <1>1, <1>2, <1>3, <1>4, <1>5, <1>6, <1>7, <1>8, <1>9, <1>10, <1>11,
     <1>12, <1>13, <1>14, <1>15, <1>16, <1>17, <1>18, <1>19, <1>20 DEF Next,
     Execution, Poll

\* No close of an execution is queued while it lasts.
LEMMA ClosesPreserved ==
    TypeOK /\ TokensIssued /\ ClosesAreOld /\ [Next]_vars => ClosesAreOld'
<1> SUFFICES ASSUME TypeOK, TokensIssued, ClosesAreOld, [Next]_vars
             PROVE  ClosesAreOld'
  OBVIOUS
<1> USE TrackerAssumption DEF TypeOK, TokensIssued, ClosesAreOld, Map, None,
        Tokens, Empty, rowVars, mapVars, pollVars
<1>1. ASSUME NEW r \in Runs, Begin(r)
      PROVE  ClosesAreOld'
  BY <1>1 DEF Begin
<1>2. ASSUME NEW r \in Runs, StartWritten(r)
      PROVE  ClosesAreOld'
  BY <1>2 DEF StartWritten, OpenRow
<1>3. ASSUME NEW r \in Runs, StartLost(r)
      PROVE  ClosesAreOld'
  BY <1>3 DEF StartLost, OpenRow
<1>4. ASSUME NEW r \in Runs, StartGivesUp(r)
      PROVE  ClosesAreOld'
  BY <1>4 DEF StartGivesUp
<1>5. ASSUME NEW r \in Runs, Register(r)
      PROVE  ClosesAreOld'
  BY <1>5 DEF Register
<1>6. ASSUME NEW r \in Runs, BodyReturns(r)
      PROVE  ClosesAreOld'
  BY <1>6 DEF BodyReturns
<1>7. ASSUME NEW r \in Runs, EndWritten(r)
      PROVE  ClosesAreOld'
  BY <1>7 DEF EndWritten, Closes
<1>8. ASSUME NEW r \in Runs, EndFails(r)
      PROVE  ClosesAreOld'
  BY <1>8 DEF EndFails, Closes
<1>9. ASSUME NEW r \in Runs, QueueClose(r)
      PROVE  ClosesAreOld'
  BY <1>9 DEF QueueClose
<1>10. ASSUME NEW r \in Runs, Cancel(r)
       PROVE  ClosesAreOld'
  BY <1>10 DEF Cancel
<1>11. ASSUME NEW r \in Runs, Revive(r)
       PROVE  ClosesAreOld'
  BY <1>11 DEF Revive
<1>12. CASE PollTick
  BY <1>12 DEF PollTick
<1>13. CASE PollQuery
  BY <1>13 DEF PollQuery
<1>14. CASE PollQueryFails
  BY <1>14 DEF PollQueryFails
<1>15. CASE PollApply
  BY <1>15 DEF PollApply, IsSame
<1>16. CASE CopyUnended
  BY <1>16 DEF CopyUnended
<1>17. CASE RetryWritten
  BY <1>17 DEF RetryWritten, CloseSnapshot, Closes
<1>18. CASE RetryFails
  BY <1>18 DEF RetryFails, CloseSnapshot, Closes
<1>19. CASE DropLanded
  BY <1>19 DEF DropLanded
<1>20. CASE UNCHANGED vars
  BY <1>20 DEF vars
<1> QED
  BY <1>1, <1>2, <1>3, <1>4, <1>5, <1>6, <1>7, <1>8, <1>9, <1>10, <1>11,
     <1>12, <1>13, <1>14, <1>15, <1>16, <1>17, <1>18, <1>19, <1>20 DEF Next,
     Execution, Poll

\* The row of a body stays open under the body's token.
LEMMA RowsPreserved ==
    TypeOK /\ TokensIssued /\ ClosesAreOld /\ RowsOfBodies /\ [Next]_vars
    => RowsOfBodies'
<1> SUFFICES ASSUME TypeOK, TokensIssued, ClosesAreOld, RowsOfBodies, [Next]_vars
             PROVE  RowsOfBodies'
  OBVIOUS
<1> USE TrackerAssumption DEF TypeOK, TokensIssued, ClosesAreOld,
        RowsOfBodies, Map, None, Tokens, Empty, rowVars, mapVars, pollVars
<1>1. ASSUME NEW r \in Runs, Begin(r)
      PROVE  RowsOfBodies'
  BY <1>1 DEF Begin
<1>2. ASSUME NEW r \in Runs, StartWritten(r)
      PROVE  RowsOfBodies'
  BY <1>2 DEF StartWritten, OpenRow
<1>3. ASSUME NEW r \in Runs, StartLost(r)
      PROVE  RowsOfBodies'
  BY <1>3 DEF StartLost, OpenRow
<1>4. ASSUME NEW r \in Runs, StartGivesUp(r)
      PROVE  RowsOfBodies'
  BY <1>4 DEF StartGivesUp
<1>5. ASSUME NEW r \in Runs, Register(r)
      PROVE  RowsOfBodies'
  BY <1>5 DEF Register
<1>6. ASSUME NEW r \in Runs, BodyReturns(r)
      PROVE  RowsOfBodies'
  BY <1>6 DEF BodyReturns
<1>7. ASSUME NEW r \in Runs, EndWritten(r)
      PROVE  RowsOfBodies'
  BY <1>7 DEF EndWritten, Closes
<1>8. ASSUME NEW r \in Runs, EndFails(r)
      PROVE  RowsOfBodies'
  BY <1>8 DEF EndFails, Closes
<1>9. ASSUME NEW r \in Runs, QueueClose(r)
      PROVE  RowsOfBodies'
  BY <1>9 DEF QueueClose
<1>10. ASSUME NEW r \in Runs, Cancel(r)
       PROVE  RowsOfBodies'
  BY <1>10 DEF Cancel
<1>11. ASSUME NEW r \in Runs, Revive(r)
       PROVE  RowsOfBodies'
  BY <1>11 DEF Revive
<1>12. CASE PollTick
  BY <1>12 DEF PollTick
<1>13. CASE PollQuery
  BY <1>13 DEF PollQuery
<1>14. CASE PollQueryFails
  BY <1>14 DEF PollQueryFails
<1>15. CASE PollApply
  BY <1>15 DEF PollApply, IsSame
<1>16. CASE CopyUnended
  BY <1>16 DEF CopyUnended
<1>17. CASE RetryWritten
  BY <1>17 DEF RetryWritten, CloseSnapshot, Closes
<1>18. CASE RetryFails
  BY <1>18 DEF RetryFails, CloseSnapshot, Closes
<1>19. CASE DropLanded
  BY <1>19 DEF DropLanded
<1>20. CASE UNCHANGED vars
  BY <1>20 DEF vars
<1> QED
  BY <1>1, <1>2, <1>3, <1>4, <1>5, <1>6, <1>7, <1>8, <1>9, <1>10, <1>11,
     <1>12, <1>13, <1>14, <1>15, <1>16, <1>17, <1>18, <1>19, <1>20 DEF Next,
     Execution, Poll

\* An open row without an execution keeps its queued close.
LEMMA OpenPreserved ==
    TypeOK /\ TokensIssued /\ ClosesAreOld /\ RowsOfBodies /\ OpenHasClose
    /\ [Next]_vars => OpenHasClose'
<1> SUFFICES ASSUME TypeOK, TokensIssued, ClosesAreOld, RowsOfBodies, OpenHasClose, [Next]_vars
             PROVE  OpenHasClose'
  OBVIOUS
<1> USE TrackerAssumption DEF TypeOK, TokensIssued, ClosesAreOld,
        RowsOfBodies, OpenHasClose, Map, None, Tokens, Empty, rowVars,
        mapVars, pollVars
<1>1. ASSUME NEW r \in Runs, Begin(r)
      PROVE  OpenHasClose'
  BY <1>1 DEF Begin
<1>2. ASSUME NEW r \in Runs, StartWritten(r)
      PROVE  OpenHasClose'
  BY <1>2 DEF StartWritten, OpenRow
<1>3. ASSUME NEW r \in Runs, StartLost(r)
      PROVE  OpenHasClose'
  BY <1>3 DEF StartLost, OpenRow
<1>4. ASSUME NEW r \in Runs, StartGivesUp(r)
      PROVE  OpenHasClose'
  BY <1>4 DEF StartGivesUp
<1>5. ASSUME NEW r \in Runs, Register(r)
      PROVE  OpenHasClose'
  BY <1>5 DEF Register
<1>6. ASSUME NEW r \in Runs, BodyReturns(r)
      PROVE  OpenHasClose'
  BY <1>6 DEF BodyReturns
<1>7. ASSUME NEW r \in Runs, EndWritten(r)
      PROVE  OpenHasClose'
  BY <1>7 DEF EndWritten, Closes
<1>8. ASSUME NEW r \in Runs, EndFails(r)
      PROVE  OpenHasClose'
  BY <1>8 DEF EndFails, Closes
<1>9. ASSUME NEW r \in Runs, QueueClose(r)
      PROVE  OpenHasClose'
  BY <1>9 DEF QueueClose
<1>10. ASSUME NEW r \in Runs, Cancel(r)
       PROVE  OpenHasClose'
  BY <1>10 DEF Cancel
<1>11. ASSUME NEW r \in Runs, Revive(r)
       PROVE  OpenHasClose'
  BY <1>11 DEF Revive
<1>12. CASE PollTick
  BY <1>12 DEF PollTick
<1>13. CASE PollQuery
  BY <1>13 DEF PollQuery
<1>14. CASE PollQueryFails
  BY <1>14 DEF PollQueryFails
<1>15. CASE PollApply
  BY <1>15 DEF PollApply, IsSame
<1>16. CASE CopyUnended
  BY <1>16 DEF CopyUnended
<1>17. CASE RetryWritten
  BY <1>17 DEF RetryWritten, CloseSnapshot, Closes
<1>18. CASE RetryFails
  BY <1>18 DEF RetryFails, CloseSnapshot, Closes
<1>19. CASE DropLanded
  BY <1>19 DEF DropLanded
<1>20. CASE UNCHANGED vars
  BY <1>20 DEF vars
<1> QED
  BY <1>1, <1>2, <1>3, <1>4, <1>5, <1>6, <1>7, <1>8, <1>9, <1>10, <1>11,
     <1>12, <1>13, <1>14, <1>15, <1>16, <1>17, <1>18, <1>19, <1>20 DEF Next,
     Execution, Poll

\* What the poll applies is about the execution it looked at.
LEMMA CancelsPreserved ==
    TypeOK /\ TokensIssued /\ CancelsWereSeen /\ [Next]_vars =>
    CancelsWereSeen'
<1> SUFFICES ASSUME TypeOK, TokensIssued, CancelsWereSeen, [Next]_vars
             PROVE  CancelsWereSeen'
  OBVIOUS
<1> USE TrackerAssumption DEF TypeOK, TokensIssued, CancelsWereSeen, Map,
        None, Tokens, Empty, rowVars, mapVars, pollVars
<1>1. ASSUME NEW r \in Runs, Begin(r)
      PROVE  CancelsWereSeen'
  BY <1>1 DEF Begin
<1>2. ASSUME NEW r \in Runs, StartWritten(r)
      PROVE  CancelsWereSeen'
  BY <1>2 DEF StartWritten, OpenRow
<1>3. ASSUME NEW r \in Runs, StartLost(r)
      PROVE  CancelsWereSeen'
  BY <1>3 DEF StartLost, OpenRow
<1>4. ASSUME NEW r \in Runs, StartGivesUp(r)
      PROVE  CancelsWereSeen'
  BY <1>4 DEF StartGivesUp
<1>5. ASSUME NEW r \in Runs, Register(r)
      PROVE  CancelsWereSeen'
  BY <1>5 DEF Register
<1>6. ASSUME NEW r \in Runs, BodyReturns(r)
      PROVE  CancelsWereSeen'
  BY <1>6 DEF BodyReturns
<1>7. ASSUME NEW r \in Runs, EndWritten(r)
      PROVE  CancelsWereSeen'
  BY <1>7 DEF EndWritten, Closes
<1>8. ASSUME NEW r \in Runs, EndFails(r)
      PROVE  CancelsWereSeen'
  BY <1>8 DEF EndFails, Closes
<1>9. ASSUME NEW r \in Runs, QueueClose(r)
      PROVE  CancelsWereSeen'
  BY <1>9 DEF QueueClose
<1>10. ASSUME NEW r \in Runs, Cancel(r)
       PROVE  CancelsWereSeen'
  BY <1>10 DEF Cancel
<1>11. ASSUME NEW r \in Runs, Revive(r)
       PROVE  CancelsWereSeen'
  BY <1>11 DEF Revive
<1>12. CASE PollTick
  BY <1>12 DEF PollTick
<1>13. CASE PollQuery
  BY <1>13 DEF PollQuery
<1>14. CASE PollQueryFails
  BY <1>14 DEF PollQueryFails
<1>15. CASE PollApply
  BY <1>15 DEF PollApply, IsSame
<1>16. CASE CopyUnended
  BY <1>16 DEF CopyUnended
<1>17. CASE RetryWritten
  BY <1>17 DEF RetryWritten, CloseSnapshot, Closes
<1>18. CASE RetryFails
  BY <1>18 DEF RetryFails, CloseSnapshot, Closes
<1>19. CASE DropLanded
  BY <1>19 DEF DropLanded
<1>20. CASE UNCHANGED vars
  BY <1>20 DEF vars
<1> QED
  BY <1>1, <1>2, <1>3, <1>4, <1>5, <1>6, <1>7, <1>8, <1>9, <1>10, <1>11,
     <1>12, <1>13, <1>14, <1>15, <1>16, <1>17, <1>18, <1>19, <1>20 DEF Next,
     Execution, Poll

\* The inductive invariant holds in every state.
THEOREM TrackerInvariant == Spec => []IInv
<1>1. Init => IInv
  BY TrackerAssumption
     DEF Init, IInv, TypeOK, TokensIssued, ClosesAreOld, RowsOfBodies,
         OpenHasClose, CancelsWereSeen, Map, Empty, None, Places, PollPlaces
<1>2. IInv /\ [Next]_vars => IInv'
  BY TypePreserved, TokensPreserved, ClosesPreserved, RowsPreserved,
     OpenPreserved, CancelsPreserved DEF IInv
<1> QED BY <1>1, <1>2, PTL DEF Spec

\* A body's row is open under its own token, whatever close of an earlier
\* execution is late or retried (begin, end, retryEnds).
THEOREM BodiesAreSeen == Spec => []BodyHasOpenRow
<1>1. IInv => BodyHasOpenRow
  BY DEF IInv, RowsOfBodies, BodyHasOpenRow
<1> QED BY <1>1, TrackerInvariant, PTL

\* No execution is interrupted for a cancel that came before it (cancelObserved).
THEOREM InterruptsAreMeant == Spec => []InterruptsOnlyCancelled
<1>1. IInv => InterruptsOnlyCancelled
  BY DEF IInv, CancelsWereSeen, InterruptsOnlyCancelled
<1> QED BY <1>1, TrackerInvariant, PTL

\* A close that failed is retried until it lands, or was replaced by that of a
\* start that gave up (begin, end, retryEnds).
THEOREM ClosesAreKept == Spec => []OnlyReplacedClosesAreLost
<1>1. IInv => OnlyReplacedClosesAreLost
  BY DEF IInv, OpenHasClose, OnlyReplacedClosesAreLost, AccountedFor, Retried
<1> QED BY <1>1, TrackerInvariant, PTL
===============================================================================
