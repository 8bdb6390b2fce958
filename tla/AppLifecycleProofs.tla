-------------------------- MODULE AppLifecycleProofs --------------------------
(***************************************************************************)
(* Proofs about AppLifecycle: for every number of goroutines that call     *)
(* Launch, Close and Resume, and however often they do.                    *)
(*                                                                         *)
(* IInv is inductive.  It is proved in parts, one lemma for each conjunct, *)
(* with one step for the actions of each kind of call, or one for each     *)
(* action where more is to be seen.                                        *)
(***************************************************************************)
EXTENDS AppLifecycle, TLAPS

\* Every step keeps the variables in their types.
LEMMA TypePreserved ==
    ASSUME TypeOK, [Next]_vars
    PROVE  TypeOK'
<1> USE LifecycleAssumption DEF At, Goes, TypeOK, Loops, Kinds, AllModes,
        newVars, dbosVars, beatVars, openVars, LaunchPlaces, ClosePlaces,
        ResumePlaces, StartPlaces, OncePlaces, AfterRefuse, AfterAdmin,
        AfterDBOS, AfterMaint
<1>1. ASSUME NewStep
      PROVE  TypeOK'
  BY <1>1 DEF ContextCreated, NewFrame, WatcherRegistered, PoolOpened,
          TablesEnsured, NewFails, NewStep
<1>2. ASSUME NEW c \in Callers, LaunchCalled(c)
      PROVE  TypeOK'
  BY <1>2 DEF LaunchCalled, Calls, LaunchFrame
<1>3. ASSUME NEW c \in Callers, Claim(c)
      PROVE  TypeOK'
  BY <1>3 DEF Claim, LaunchFrame
<1>4. ASSUME NEW c \in Callers, OrphansClosed(c)
      PROVE  TypeOK'
  BY <1>4 DEF OrphansClosed, LaunchFrame
<1>5. ASSUME NEW c \in Callers, FirstBeatFails(c)
      PROVE  TypeOK'
  <2>1. launchStarted' \in BOOLEAN
    BY <1>5 DEF FirstBeatFails
  <2> QED BY <2>1, <1>5 DEF FirstBeatFails, LaunchFrame
<1>6. ASSUME NEW c \in Callers, DBOSLaunches(c)
      PROVE  TypeOK'
  BY <1>6 DEF DBOSLaunches, LaunchFrame
<1>7. ASSUME NEW c \in Callers, DBOSLaunchFails(c)
      PROVE  TypeOK'
  BY <1>7 DEF DBOSLaunchFails, CloseEntry, LaunchFrame
<1>8. ASSUME NEW c \in Callers, SchedulesApplied(c)
      PROVE  TypeOK'
  BY <1>8 DEF SchedulesApplied, LaunchFrame
<1>9. ASSUME NEW c \in Callers, SchedulesFail(c)
      PROVE  TypeOK'
  BY <1>9 DEF SchedulesFail, CloseEntry, LaunchFrame
<1>10. ASSUME NEW c \in Callers, StartContexts(c)
      PROVE  TypeOK'
  BY <1>10 DEF StartContexts, Closing, LaunchFrame
<1>11. ASSUME NEW c \in Callers, StartBeat(c)
      PROVE  TypeOK'
  BY <1>11 DEF StartBeat, StartsLoop, Closing, LaunchFrame
<1>12. ASSUME NEW c \in Callers, StartPoll(c)
      PROVE  TypeOK'
  BY <1>12 DEF StartPoll, StartsLoop, Closing, LaunchFrame
<1>13. ASSUME NEW c \in Callers, StartMaint(c)
      PROVE  TypeOK'
  BY <1>13 DEF StartMaint, StartsLoop, Closing, LaunchFrame
<1>14. ASSUME NEW c \in Callers, CloseCalled(c)
      PROVE  TypeOK'
  BY <1>14 DEF CloseCalled, Calls, CloseEntry
<1>15. ASSUME NEW c \in Callers, StopMaintenance(c)
      PROVE  TypeOK'
  BY <1>15 DEF StopMaintenance, Cancelled, CloseFrame
<1>16. ASSUME NEW c \in Callers, MaintenanceStopped(c)
      PROVE  TypeOK'
  BY <1>16 DEF MaintenanceStopped, CloseFrame
<1>17. ASSUME NEW c \in Callers, ShutdownBegins(c)
      PROVE  TypeOK'
  BY <1>17 DEF ShutdownBegins, CloseFrame
<1>18. ASSUME NEW c \in Callers, ShutdownReturns(c)
      PROVE  TypeOK'
  BY <1>18 DEF ShutdownReturns, CloseFrame
<1>19. ASSUME NEW c \in Callers, ShutdownTimesOut(c)
      PROVE  TypeOK'
  BY <1>19 DEF ShutdownTimesOut, CloseFrame
<1>20. ASSUME NEW c \in Callers, RefuseAdmin(c)
      PROVE  TypeOK'
  BY <1>20 DEF RefuseAdmin, CloseFrame
<1>21. ASSUME NEW c \in Callers, CloseAdmin(c)
      PROVE  TypeOK'
  BY <1>21 DEF CloseAdmin, InStatement, CloseFrame
<1>22. ASSUME NEW c \in Callers, EnterOnce(c)
      PROVE  TypeOK'
  BY <1>22 DEF EnterOnce, CloseFrame
<1>23. ASSUME NEW c \in Callers, PassOnce(c)
      PROVE  TypeOK'
  BY <1>23 DEF PassOnce, CloseFrame
<1>24. ASSUME NEW c \in Callers, StopBeat(c)
      PROVE  TypeOK'
  BY <1>24 DEF StopBeat, Cancelled, CloseFrame
<1>25. ASSUME NEW c \in Callers, BeatStopped(c)
      PROVE  TypeOK'
  BY <1>25 DEF BeatStopped, CloseFrame
<1>26. ASSUME NEW c \in Callers, Tombstone(c)
      PROVE  TypeOK'
  BY <1>26 DEF Tombstone, CloseFrame
<1>27. ASSUME NEW c \in Callers, ClosePools(c)
      PROVE  TypeOK'
  BY <1>27 DEF ClosePools, InStatement, CloseFrame
<1>28. ASSUME NEW c \in Callers, ResumeStep(c)
      PROVE  TypeOK'
  BY <1>28 DEF ResumeCalled, Calls, ResumeFrame, AdminOnce, AdminOpens,
          ResumeReturns, ResumeStep
<1>29. ASSUME NEW x \in Loops, LoopStep(x)
      PROVE  TypeOK'
  BY <1>29 DEF Ticks, LoopFrame, WorkEnds, LoopEnds, Scope, LoopStep
<1>30. ASSUME StageStarts
      PROVE  TypeOK'
  BY <1>30 DEF StageStarts, StageFrame
<1>31. ASSUME StageEnds
      PROVE  TypeOK'
  <2>1. stage' \in BOOLEAN
    BY <1>31 DEF StageEnds
  <2> QED BY <2>1, <1>31 DEF StageEnds, StageFrame
<1>32. CASE UNCHANGED vars
  BY <1>32 DEF vars
<1> QED BY <1>1, <1>2, <1>3, <1>4, <1>5, <1>6, <1>7, <1>8, <1>9, <1>10, <1>11,
       <1>12, <1>13, <1>14, <1>15, <1>16, <1>17, <1>18, <1>19, <1>20, <1>21,
       <1>22, <1>23, <1>24, <1>25, <1>26, <1>27, <1>28, <1>29, <1>30, <1>31,
       <1>32 DEF Next, LaunchStep, CloseStep

\* No call begins, and no loop starts, before New has returned the App.
LEMMA NewFirstPreserved ==
    ASSUME TypeOK, ModeParts, NewFirst, [Next]_vars
    PROVE  NewFirst'
<1> USE LifecycleAssumption DEF At, Goes, TypeOK, ModeParts, NewFirst, Loops,
        Kinds, AllModes, newVars, dbosVars, beatVars, openVars, LaunchPlaces,
        ClosePlaces, ResumePlaces, StartPlaces, OncePlaces, AfterRefuse,
        AfterAdmin, AfterDBOS, AfterMaint
<1>1. ASSUME NewStep
      PROVE  NewFirst'
  BY <1>1 DEF ContextCreated, NewFrame, WatcherRegistered, PoolOpened,
          TablesEnsured, NewFails, NewStep
<1>2. ASSUME NEW c \in Callers, LaunchStep(c)
      PROVE  NewFirst'
  BY <1>2 DEF LaunchCalled, Calls, LaunchFrame, Claim, OrphansClosed,
          FirstBeatFails, DBOSLaunches, DBOSLaunchFails, CloseEntry,
          SchedulesApplied, SchedulesFail, StartContexts, Closing, StartBeat,
          StartsLoop, StartPoll, StartMaint, LaunchStep
<1>3. ASSUME NEW c \in Callers, CloseStep(c)
      PROVE  NewFirst'
  BY <1>3 DEF CloseCalled, Calls, CloseEntry, StopMaintenance, Cancelled,
          CloseFrame, MaintenanceStopped, ShutdownBegins, ShutdownReturns,
          ShutdownTimesOut, RefuseAdmin, CloseAdmin, InStatement, EnterOnce,
          PassOnce, StopBeat, BeatStopped, Tombstone, ClosePools, CloseStep
<1>4. ASSUME NEW c \in Callers, ResumeStep(c)
      PROVE  NewFirst'
  BY <1>4 DEF ResumeCalled, Calls, ResumeFrame, AdminOnce, AdminOpens,
          ResumeReturns, ResumeStep
<1>5. ASSUME NEW x \in Loops, LoopStep(x)
      PROVE  NewFirst'
  BY <1>5 DEF Ticks, LoopFrame, WorkEnds, LoopEnds, Scope, LoopStep
<1>6. ASSUME StageStarts \/ StageEnds
      PROVE  NewFirst'
  BY <1>6 DEF StageStarts, StageFrame, StageEnds
<1>7. CASE UNCHANGED vars
  BY <1>7 DEF vars
<1> QED BY <1>1, <1>2, <1>3, <1>4, <1>5, <1>6, <1>7 DEF Next

\* An App has the parts of its mode and takes no step of another's.
LEMMA ModePartsPreserved ==
    ASSUME TypeOK, NewFirst, ModeParts, [Next]_vars
    PROVE  ModeParts'
<1> USE LifecycleAssumption DEF At, Goes, TypeOK, NewFirst, ModeParts, Loops,
        Kinds, AllModes, newVars, dbosVars, beatVars, openVars, LaunchPlaces,
        ClosePlaces, ResumePlaces, StartPlaces, OncePlaces, AfterRefuse,
        AfterAdmin, AfterDBOS, AfterMaint
<1>1. ASSUME ContextCreated
      PROVE  ModeParts'
  BY <1>1 DEF ContextCreated, NewFrame
<1>2. ASSUME WatcherRegistered
      PROVE  ModeParts'
  BY <1>2 DEF WatcherRegistered, NewFrame
<1>3. ASSUME PoolOpened
      PROVE  ModeParts'
  BY <1>3 DEF PoolOpened, NewFrame
<1>4. ASSUME TablesEnsured
      PROVE  ModeParts'
  BY <1>4 DEF TablesEnsured, NewFrame
<1>5. ASSUME NewFails
      PROVE  ModeParts'
  BY <1>5 DEF NewFails, NewFrame
<1>6. ASSUME NEW c \in Callers, LaunchStep(c)
      PROVE  ModeParts'
  BY <1>6 DEF LaunchCalled, Calls, LaunchFrame, Claim, OrphansClosed,
          FirstBeatFails, DBOSLaunches, DBOSLaunchFails, CloseEntry,
          SchedulesApplied, SchedulesFail, StartContexts, Closing, StartBeat,
          StartsLoop, StartPoll, StartMaint, LaunchStep
<1>7. ASSUME NEW c \in Callers, CloseStep(c)
      PROVE  ModeParts'
  BY <1>7 DEF CloseCalled, Calls, CloseEntry, StopMaintenance, Cancelled,
          CloseFrame, MaintenanceStopped, ShutdownBegins, ShutdownReturns,
          ShutdownTimesOut, RefuseAdmin, CloseAdmin, InStatement, EnterOnce,
          PassOnce, StopBeat, BeatStopped, Tombstone, ClosePools, CloseStep
<1>8. ASSUME NEW c \in Callers, ResumeStep(c)
      PROVE  ModeParts'
  BY <1>8 DEF ResumeCalled, Calls, ResumeFrame, AdminOnce, AdminOpens,
          ResumeReturns, ResumeStep
<1>9. ASSUME NEW x \in Loops, LoopStep(x)
      PROVE  ModeParts'
  BY <1>9 DEF Ticks, LoopFrame, WorkEnds, LoopEnds, Scope, LoopStep
<1>10. ASSUME StageStarts \/ StageEnds
      PROVE  ModeParts'
  BY <1>10 DEF StageStarts, StageFrame, StageEnds
<1>11. CASE UNCHANGED vars
  BY <1>11 DEF vars
<1> QED BY <1>1, <1>2, <1>3, <1>4, <1>5, <1>6, <1>7, <1>8, <1>9, <1>10, <1>11 DEF Next, NewStep

\* Once a Close has called dbos.Shutdown, DBOS never runs again.
LEMMA ShutdownFirstPreserved ==
    ASSUME TypeOK, NewFirst, ShutdownFirst, [Next]_vars
    PROVE  ShutdownFirst'
<1> USE LifecycleAssumption DEF At, Goes, TypeOK, NewFirst, ShutdownFirst,
        Loops, Kinds, AllModes, newVars, dbosVars, beatVars, openVars,
        LaunchPlaces, ClosePlaces, ResumePlaces, StartPlaces, OncePlaces,
        AfterRefuse, AfterAdmin, AfterDBOS, AfterMaint
<1>1. ASSUME NewStep
      PROVE  ShutdownFirst'
  BY <1>1 DEF ContextCreated, NewFrame, WatcherRegistered, PoolOpened,
          TablesEnsured, NewFails, NewStep
<1>2. ASSUME NEW c \in Callers, LaunchStep(c)
      PROVE  ShutdownFirst'
  BY <1>2 DEF LaunchCalled, Calls, LaunchFrame, Claim, OrphansClosed,
          FirstBeatFails, DBOSLaunches, DBOSLaunchFails, CloseEntry,
          SchedulesApplied, SchedulesFail, StartContexts, Closing, StartBeat,
          StartsLoop, StartPoll, StartMaint, LaunchStep
<1>3. ASSUME NEW c \in Callers, CloseStep(c)
      PROVE  ShutdownFirst'
  BY <1>3 DEF CloseCalled, Calls, CloseEntry, StopMaintenance, Cancelled,
          CloseFrame, MaintenanceStopped, ShutdownBegins, ShutdownReturns,
          ShutdownTimesOut, RefuseAdmin, CloseAdmin, InStatement, EnterOnce,
          PassOnce, StopBeat, BeatStopped, Tombstone, ClosePools, CloseStep
<1>4. ASSUME NEW c \in Callers, ResumeStep(c)
      PROVE  ShutdownFirst'
  BY <1>4 DEF ResumeCalled, Calls, ResumeFrame, AdminOnce, AdminOpens,
          ResumeReturns, ResumeStep
<1>5. ASSUME NEW x \in Loops, LoopStep(x)
      PROVE  ShutdownFirst'
  BY <1>5 DEF Ticks, LoopFrame, WorkEnds, LoopEnds, Scope, LoopStep
<1>6. ASSUME StageStarts \/ StageEnds
      PROVE  ShutdownFirst'
  BY <1>6 DEF StageStarts, StageFrame, StageEnds
<1>7. CASE UNCHANGED vars
  BY <1>7 DEF vars
<1> QED BY <1>1, <1>2, <1>3, <1>4, <1>5, <1>6, <1>7 DEF Next

\* adminOnce is done once, and not again behind a Close.
LEMMA AdminOnceOnlyPreserved ==
    ASSUME TypeOK, NewFirst, ModeParts, AdminOnceOnly, [Next]_vars
    PROVE  AdminOnceOnly'
<1> USE LifecycleAssumption DEF At, Goes, TypeOK, NewFirst, ModeParts,
        AdminOnceOnly, Loops, Kinds, AllModes, newVars, dbosVars, beatVars,
        openVars, LaunchPlaces, ClosePlaces, ResumePlaces, StartPlaces,
        OncePlaces, AfterRefuse, AfterAdmin, AfterDBOS, AfterMaint
<1>1. ASSUME NewStep
      PROVE  AdminOnceOnly'
  BY <1>1 DEF ContextCreated, NewFrame, WatcherRegistered, PoolOpened,
          TablesEnsured, NewFails, NewStep
<1>2. ASSUME NEW c \in Callers, LaunchStep(c)
      PROVE  AdminOnceOnly'
  BY <1>2 DEF LaunchCalled, Calls, LaunchFrame, Claim, OrphansClosed,
          FirstBeatFails, DBOSLaunches, DBOSLaunchFails, CloseEntry,
          SchedulesApplied, SchedulesFail, StartContexts, Closing, StartBeat,
          StartsLoop, StartPoll, StartMaint, LaunchStep
<1>3. ASSUME NEW c \in Callers, CloseStep(c)
      PROVE  AdminOnceOnly'
  BY <1>3 DEF CloseCalled, Calls, CloseEntry, StopMaintenance, Cancelled,
          CloseFrame, MaintenanceStopped, ShutdownBegins, ShutdownReturns,
          ShutdownTimesOut, RefuseAdmin, CloseAdmin, InStatement, EnterOnce,
          PassOnce, StopBeat, BeatStopped, Tombstone, ClosePools, CloseStep
<1>4. ASSUME NEW c \in Callers, ResumeStep(c)
      PROVE  AdminOnceOnly'
  BY <1>4 DEF ResumeCalled, Calls, ResumeFrame, AdminOnce, AdminOpens,
          ResumeReturns, ResumeStep
<1>5. ASSUME NEW x \in Loops, LoopStep(x)
      PROVE  AdminOnceOnly'
  BY <1>5 DEF Ticks, LoopFrame, WorkEnds, LoopEnds, Scope, LoopStep
<1>6. ASSUME StageStarts \/ StageEnds
      PROVE  AdminOnceOnly'
  BY <1>6 DEF StageStarts, StageFrame, StageEnds
<1>7. CASE UNCHANGED vars
  BY <1>7 DEF vars
<1> QED BY <1>1, <1>2, <1>3, <1>4, <1>5, <1>6, <1>7 DEF Next

\* closeOnce is done once, by one Close.
LEMMA CloseOnceOnlyPreserved ==
    ASSUME TypeOK, NewFirst, ModeParts, CloseOnceOnly, [Next]_vars
    PROVE  CloseOnceOnly'
<1> USE LifecycleAssumption DEF At, Goes, TypeOK, NewFirst, ModeParts,
        CloseOnceOnly, Loops, Kinds, AllModes, newVars, dbosVars, beatVars,
        openVars, LaunchPlaces, ClosePlaces, ResumePlaces, StartPlaces,
        OncePlaces, AfterRefuse, AfterAdmin, AfterDBOS, AfterMaint
<1>1. ASSUME NewStep
      PROVE  CloseOnceOnly'
  BY <1>1 DEF ContextCreated, NewFrame, WatcherRegistered, PoolOpened,
          TablesEnsured, NewFails, NewStep
<1>2. ASSUME NEW c \in Callers, LaunchStep(c)
      PROVE  CloseOnceOnly'
  BY <1>2 DEF LaunchCalled, Calls, LaunchFrame, Claim, OrphansClosed,
          FirstBeatFails, DBOSLaunches, DBOSLaunchFails, CloseEntry,
          SchedulesApplied, SchedulesFail, StartContexts, Closing, StartBeat,
          StartsLoop, StartPoll, StartMaint, LaunchStep
<1>3. ASSUME NEW c \in Callers, CloseStep(c)
      PROVE  CloseOnceOnly'
  BY <1>3 DEF CloseCalled, Calls, CloseEntry, StopMaintenance, Cancelled,
          CloseFrame, MaintenanceStopped, ShutdownBegins, ShutdownReturns,
          ShutdownTimesOut, RefuseAdmin, CloseAdmin, InStatement, EnterOnce,
          PassOnce, StopBeat, BeatStopped, Tombstone, ClosePools, CloseStep
<1>4. ASSUME NEW c \in Callers, ResumeStep(c)
      PROVE  CloseOnceOnly'
  BY <1>4 DEF ResumeCalled, Calls, ResumeFrame, AdminOnce, AdminOpens,
          ResumeReturns, ResumeStep
<1>5. ASSUME NEW x \in Loops, LoopStep(x)
      PROVE  CloseOnceOnly'
  BY <1>5 DEF Ticks, LoopFrame, WorkEnds, LoopEnds, Scope, LoopStep
<1>6. ASSUME StageStarts \/ StageEnds
      PROVE  CloseOnceOnly'
  BY <1>6 DEF StageStarts, StageFrame, StageEnds
<1>7. CASE UNCHANGED vars
  BY <1>7 DEF vars
<1> QED BY <1>1, <1>2, <1>3, <1>4, <1>5, <1>6, <1>7 DEF Next

\* A loop that a Close has waited for is not started again, but by a Launch
\* beside it.
LEMMA LoopsStoppedPreserved ==
    ASSUME TypeOK, NewFirst, ModeParts, CloseOnceOnly, LoopsStopped, [Next]_vars
    PROVE  LoopsStopped'
<1> USE LifecycleAssumption DEF At, Goes, TypeOK, NewFirst, ModeParts,
        CloseOnceOnly, LoopsStopped, Loops, Kinds, AllModes, newVars,
        dbosVars, beatVars, openVars, LaunchPlaces, ClosePlaces, ResumePlaces,
        StartPlaces, OncePlaces, AfterRefuse, AfterAdmin, AfterDBOS,
        AfterMaint
<1>1. ASSUME NewStep
      PROVE  LoopsStopped'
  BY <1>1 DEF ContextCreated, NewFrame, WatcherRegistered, PoolOpened,
          TablesEnsured, NewFails, NewStep
<1>2. ASSUME NEW c \in Callers, LaunchCalled(c)
      PROVE  LoopsStopped'
  BY <1>2 DEF LaunchCalled, Calls, LaunchFrame
<1>3. ASSUME NEW c \in Callers, Claim(c)
      PROVE  LoopsStopped'
  BY <1>3 DEF Claim, LaunchFrame
<1>4. ASSUME NEW c \in Callers, OrphansClosed(c)
      PROVE  LoopsStopped'
  BY <1>4 DEF OrphansClosed, LaunchFrame
<1>5. ASSUME NEW c \in Callers, FirstBeatFails(c)
      PROVE  LoopsStopped'
  BY <1>5 DEF FirstBeatFails, LaunchFrame
<1>6. ASSUME NEW c \in Callers, DBOSLaunches(c)
      PROVE  LoopsStopped'
  BY <1>6 DEF DBOSLaunches, LaunchFrame
<1>7. ASSUME NEW c \in Callers, DBOSLaunchFails(c)
      PROVE  LoopsStopped'
  BY <1>7 DEF DBOSLaunchFails, CloseEntry, LaunchFrame
<1>8. ASSUME NEW c \in Callers, SchedulesApplied(c)
      PROVE  LoopsStopped'
  BY <1>8 DEF SchedulesApplied, LaunchFrame
<1>9. ASSUME NEW c \in Callers, SchedulesFail(c)
      PROVE  LoopsStopped'
  BY <1>9 DEF SchedulesFail, CloseEntry, LaunchFrame
<1>10. ASSUME NEW c \in Callers, StartContexts(c)
      PROVE  LoopsStopped'
  BY <1>10 DEF StartContexts, Closing, LaunchFrame
<1>11. ASSUME NEW c \in Callers, StartBeat(c)
      PROVE  LoopsStopped'
  BY <1>11 DEF StartBeat, StartsLoop, Closing, LaunchFrame
<1>12. ASSUME NEW c \in Callers, StartPoll(c)
      PROVE  LoopsStopped'
  BY <1>12, ZenonT(60) DEF StartPoll, StartsLoop, Closing, LaunchFrame
<1>13. ASSUME NEW c \in Callers, StartMaint(c)
      PROVE  LoopsStopped'
  BY <1>13, ZenonT(60) DEF StartMaint, StartsLoop, Closing, LaunchFrame
<1>14. ASSUME NEW c \in Callers, CloseStep(c)
      PROVE  LoopsStopped'
  BY <1>14 DEF CloseCalled, Calls, CloseEntry, StopMaintenance, Cancelled,
          CloseFrame, MaintenanceStopped, ShutdownBegins, ShutdownReturns,
          ShutdownTimesOut, RefuseAdmin, CloseAdmin, InStatement, EnterOnce,
          PassOnce, StopBeat, BeatStopped, Tombstone, ClosePools, CloseStep
<1>15. ASSUME NEW c \in Callers, ResumeStep(c)
      PROVE  LoopsStopped'
  BY <1>15 DEF ResumeCalled, Calls, ResumeFrame, AdminOnce, AdminOpens,
          ResumeReturns, ResumeStep
<1>16. ASSUME NEW x \in Loops, LoopStep(x)
      PROVE  LoopsStopped'
  BY <1>16 DEF Ticks, LoopFrame, WorkEnds, LoopEnds, Scope, LoopStep
<1>17. ASSUME StageStarts \/ StageEnds
      PROVE  LoopsStopped'
  BY <1>17 DEF StageStarts, StageFrame, StageEnds
<1>18. CASE UNCHANGED vars
  BY <1>18 DEF vars
<1> QED BY <1>1, <1>2, <1>3, <1>4, <1>5, <1>6, <1>7, <1>8, <1>9, <1>10, <1>11,
       <1>12, <1>13, <1>14, <1>15, <1>16, <1>17, <1>18 DEF Next, LaunchStep

\* DBOS runs under a lease; the lease goes once it has stopped.
LEMMA LeaseHeldPreserved ==
    ASSUME TypeOK, NewFirst, ModeParts, ShutdownFirst, CloseOnceOnly, LoopsStopped, LeaseHeld, [Next]_vars
    PROVE  LeaseHeld'
<1> USE LifecycleAssumption DEF At, Goes, TypeOK, NewFirst, ModeParts,
        ShutdownFirst, CloseOnceOnly, LoopsStopped, LeaseHeld,
        LeaseGuardsStages, Loops, Kinds,
        AllModes, newVars, dbosVars, beatVars, openVars, LaunchPlaces,
        ClosePlaces, ResumePlaces, StartPlaces, OncePlaces, AfterRefuse,
        AfterAdmin, AfterDBOS, AfterMaint
<1>1. ASSUME NewStep
      PROVE  LeaseHeld'
  BY <1>1 DEF ContextCreated, NewFrame, WatcherRegistered, PoolOpened,
          TablesEnsured, NewFails, NewStep
<1>2. ASSUME NEW c \in Callers, LaunchCalled(c)
      PROVE  LeaseHeld'
  BY <1>2 DEF LaunchCalled, Calls, LaunchFrame
<1>3. ASSUME NEW c \in Callers, Claim(c)
      PROVE  LeaseHeld'
  BY <1>3 DEF Claim, LaunchFrame
<1>4. ASSUME NEW c \in Callers, OrphansClosed(c)
      PROVE  LeaseHeld'
  BY <1>4 DEF OrphansClosed, LaunchFrame
<1>5. ASSUME NEW c \in Callers, FirstBeatFails(c)
      PROVE  LeaseHeld'
  BY <1>5 DEF FirstBeatFails, LaunchFrame
<1>6. ASSUME NEW c \in Callers, DBOSLaunches(c)
      PROVE  LeaseHeld'
  BY <1>6 DEF DBOSLaunches, LaunchFrame
<1>7. ASSUME NEW c \in Callers, DBOSLaunchFails(c)
      PROVE  LeaseHeld'
  BY <1>7 DEF DBOSLaunchFails, CloseEntry, LaunchFrame
<1>8. ASSUME NEW c \in Callers, SchedulesApplied(c)
      PROVE  LeaseHeld'
  BY <1>8 DEF SchedulesApplied, LaunchFrame
<1>9. ASSUME NEW c \in Callers, SchedulesFail(c)
      PROVE  LeaseHeld'
  BY <1>9 DEF SchedulesFail, CloseEntry, LaunchFrame
<1>10. ASSUME NEW c \in Callers, StartContexts(c)
      PROVE  LeaseHeld'
  BY <1>10 DEF StartContexts, Closing, LaunchFrame
<1>11. ASSUME NEW c \in Callers, StartBeat(c)
      PROVE  LeaseHeld'
  BY <1>11 DEF StartBeat, StartsLoop, Closing, LaunchFrame
<1>12. ASSUME NEW c \in Callers, StartPoll(c)
      PROVE  LeaseHeld'
  BY <1>12 DEF StartPoll, StartsLoop, Closing, LaunchFrame
<1>13. ASSUME NEW c \in Callers, StartMaint(c)
      PROVE  LeaseHeld'
  BY <1>13 DEF StartMaint, StartsLoop, Closing, LaunchFrame
<1>14. ASSUME NEW c \in Callers, CloseStep(c)
      PROVE  LeaseHeld'
  BY <1>14 DEF CloseCalled, Calls, CloseEntry, StopMaintenance, Cancelled,
          CloseFrame, MaintenanceStopped, ShutdownBegins, ShutdownReturns,
          ShutdownTimesOut, RefuseAdmin, CloseAdmin, InStatement, EnterOnce,
          PassOnce, StopBeat, BeatStopped, Tombstone, ClosePools, CloseStep
<1>15. ASSUME NEW c \in Callers, ResumeStep(c)
      PROVE  LeaseHeld'
  BY <1>15 DEF ResumeCalled, Calls, ResumeFrame, AdminOnce, AdminOpens,
          ResumeReturns, ResumeStep
<1>16. ASSUME NEW x \in Loops, LoopStep(x)
      PROVE  LeaseHeld'
  BY <1>16 DEF Ticks, LoopFrame, WorkEnds, LoopEnds, Scope, LoopStep
<1>17. ASSUME StageStarts \/ StageEnds
      PROVE  LeaseHeld'
  BY <1>17 DEF StageStarts, StageFrame, StageEnds
<1>18. CASE UNCHANGED vars
  BY <1>18 DEF vars
<1> QED BY <1>1, <1>2, <1>3, <1>4, <1>5, <1>6, <1>7, <1>8, <1>9, <1>10, <1>11,
       <1>12, <1>13, <1>14, <1>15, <1>16, <1>17, <1>18 DEF Next, LaunchStep

\* IInv holds when New begins.
LEMMA InitEstablishes == Init => IInv
<1> SUFFICES ASSUME Init
             PROVE  IInv
  OBVIOUS
<1> USE LifecycleAssumption
    DEF Init, At, Loops, Kinds, AllModes, LaunchPlaces, ClosePlaces,
        ResumePlaces, StartPlaces, OncePlaces, AfterRefuse, AfterAdmin,
        AfterDBOS, AfterMaint
<1>1. TypeOK /\ NewFirst /\ ModeParts
  BY DEF TypeOK, NewFirst, ModeParts
<1>2. ShutdownFirst /\ AdminOnceOnly /\ CloseOnceOnly
  BY DEF ShutdownFirst, AdminOnceOnly, CloseOnceOnly
<1>3. LoopsStopped /\ LeaseHeld
  BY DEF LoopsStopped, LeaseHeld, LeaseGuardsStages
<1> QED BY <1>1, <1>2, <1>3 DEF IInv

\* Every step keeps IInv.
LEMMA Inductive == IInv /\ [Next]_vars => IInv'
BY TypePreserved, NewFirstPreserved, ModePartsPreserved,
   ShutdownFirstPreserved, AdminOnceOnlyPreserved, CloseOnceOnlyPreserved,
   LoopsStoppedPreserved, LeaseHeldPreserved DEF IInv

\* The inductive invariant holds in every state of an App.
THEOREM InductiveInvariant == Spec => []IInv
<1>1. Init => IInv
  BY InitEstablishes
<1>2. IInv /\ [Next]_vars => IInv'
  BY Inductive
<1> QED BY <1>1, <1>2, PTL DEF Spec

\* A Close that returned leaves neither DBOS nor a pool nor a loop of the
\* App's behind, whatever else was called beside it but Launch; so does a New
\* that failed (App.Close, New).
THEOREM CloseLeavesQuiet == Spec => []QuietAfterClose
<1>1. ASSUME IInv
      PROVE  QuietAfterClose
  <2> USE <1>1 DEF IInv, TypeOK, NewFirst, ModeParts, ShutdownFirst,
          AdminOnceOnly, CloseOnceOnly, LoopsStopped
  <2>1. CASE built = "failed"
    BY <2>1 DEF QuietAfterClose
  <2>2. ASSUME closed
        PROVE  /\ dbos # "running" /\ pool # "open"
               /\ admin \notin {"opening", "open"}
    BY <2>2
  <2>3. ASSUME closed, ~overlapped, mode = "plain"
        PROVE  \A x \in Loops : loop[x] = "none"
    BY <2>3
  <2>4. ASSUME closed, ~overlapped, mode # "plain"
        PROVE  \A x \in Loops : loop[x] = "none"
    BY <2>4 DEF Loops
  <2> QED BY <2>1, <2>2, <2>3, <2>4 DEF QuietAfterClose
<1> QED BY <1>1, InductiveInvariant, PTL

\* DBOS dequeues under a live lease only, and a stage loses the lease it runs
\* under only to a Close that ran into its timeout (App.Launch, App.Close).
THEOREM StagesAreLeased == Spec => []LeaseGuardsStages
<1>1. IInv => LeaseGuardsStages
  BY DEF IInv, LeaseHeld
<1> QED BY <1>1, InductiveInvariant, PTL

\* A beat never lands behind the tombstone: Close has waited for the heartbeat
\* (stopBeat, tombstone).
THEOREM TombstoneIsLast == Spec => TombstoneStands
<1> DEFINE Stands == lease = "tombstoned" => lease' = "tombstoned" \/ overlapped'
<1>1. ASSUME IInv, Next, lease = "tombstoned"
      PROVE  lease' = "tombstoned" \/ overlapped'
  <2> USE <1>1 DEF IInv, LeaseHeld, CloseOnceOnly, Closing, OncePlaces,
          ClosePlaces
  <2>1. CASE NewStep
    BY <2>1 DEF NewStep, ContextCreated, WatcherRegistered, PoolOpened,
       TablesEnsured, NewFails, NewFrame, beatVars
  <2>2. ASSUME NEW c \in Callers, LaunchStep(c)
        PROVE  lease' = "tombstoned" \/ overlapped'
    BY <2>2 DEF LaunchStep, LaunchCalled, Claim, OrphansClosed,
       FirstBeatFails, DBOSLaunches, DBOSLaunchFails, SchedulesApplied,
       SchedulesFail, StartContexts, StartBeat, StartPoll, StartMaint,
       StartsLoop, beatVars
  <2>3. ASSUME NEW c \in Callers, CloseStep(c)
        PROVE  lease' = "tombstoned"
    BY <2>3 DEF CloseStep, CloseCalled, StopMaintenance, MaintenanceStopped,
       ShutdownBegins, ShutdownReturns, ShutdownTimesOut, RefuseAdmin,
       CloseAdmin, EnterOnce, PassOnce, StopBeat, BeatStopped, Tombstone,
       ClosePools, beatVars
  <2>4. ASSUME NEW c \in Callers, ResumeStep(c)
        PROVE  lease' = "tombstoned"
    BY <2>4 DEF ResumeStep, ResumeCalled, AdminOnce, AdminOpens,
       ResumeReturns, ResumeFrame, beatVars
  <2>5. ASSUME NEW x \in Loops, LoopStep(x)
        PROVE  lease' = "tombstoned" \/ overlapped'
    BY <2>5 DEF LoopStep, Ticks, WorkEnds, LoopEnds, LoopFrame
  <2>6. CASE StageStarts \/ StageEnds
    BY <2>6 DEF StageStarts, StageEnds, StageFrame, beatVars
  <2> QED BY <1>1, <2>1, <2>2, <2>3, <2>4, <2>5, <2>6 DEF Next
<1>2. IInv /\ [Next]_vars => [Stands]_vars
  BY <1>1
<1> QED BY <1>2, InductiveInvariant, PTL DEF Spec, TombstoneStands
===============================================================================
