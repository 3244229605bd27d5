------------------------ MODULE PlanCompletionProofs ------------------------
(***************************************************************************)
(* Theorems about PlanCompletion, for any slots, modes, number of edits    *)
(* and set of faults.                                                      *)
(***************************************************************************)
EXTENDS PlanCompletion, FiniteSetTheorems, TLAPS

----------------------------------------------------------------------------
(* What the completion checks return.                                      *)

\* A derived status is final.
LEMMA DeriveFinal ==
    ASSUME NEW ts
    PROVE  DeriveStatus(ts) \in Final
BY DEF DeriveStatus, Final

\* CanComplete answers with a final status exactly when nothing is running
\* that has to end first, and that status is the derived one.
LEMMA CanCompleteMeaning ==
    ASSUME NEW ts, NEW ph
    PROVE  /\ CanComplete(ts, ph) \in Final <=>
                /\ ph # "active"
                /\ ph # "none" => \A s \in Present(ts) : IsTerminal(ts[s])
                /\ \A s \in RequiredIDs(ts) : IsTerminal(ts[s])
           /\ CanComplete(ts, ph) \in Final => CanComplete(ts, ph) = DeriveStatus(ts)
           /\ CanComplete(ts, ph) \notin Final =>
                CanComplete(ts, ph) \in {"retryable", "error"}
<1>1. DeriveStatus(ts) \in Final
  BY DeriveFinal
<1>2. "retryable" \notin Final /\ "error" \notin Final
  BY DEF Final
<1>. QED  BY <1>1, <1>2 DEF CanComplete

\* The state that Complete evaluates has the types of tasks and phase.
LEMMA CompletionTypes ==
    ASSUME TypeOK
    PROVE  /\ CompletionTasks \in [Slots -> TaskStatus]
           /\ CompletionPhase \in Final \cup {"none", "active"}
<1>1. CompletionTasks \in [Slots -> TaskStatus]
  BY DEF TypeOK, CompletionTasks, AutoCancelPaused, TaskStatus, Final
<1>2. AdvancePhase(CompletionTasks, phase) \in Final \cup {"none", "active"}
  BY DeriveFinal DEF TypeOK, AdvancePhase, Final
<1>. QED  BY <1>1, <1>2 DEF CompletionPhase, TypeOK

----------------------------------------------------------------------------
(* Types.                                                                  *)

LEMMA SetTaskType ==
    ASSUME TypeOK, NEW s \in Slots, NEW status \in TaskStatus,
           NEW rowStatus \in RowStatus, SetTask(s, status, rowStatus)
    PROVE  tasks' \in [Slots -> TaskStatus] /\ trow' \in [Slots -> RowStatus]
BY DEF TypeOK, SetTask

LEMMA FaultType ==
    ASSUME TypeOK, NEW kind, NoFault \/ Fault(kind)
    PROVE  faults' \subseteq FaultKinds /\ faults \subseteq faults'
BY DEF TypeOK, NoFault, Fault

LEMMA TasksType ==
    ASSUME TypeOK, NEW s \in Slots,
           \/ TaskCompletes(s) \/ TaskFails(s) \/ AutoRetry(s) \/ RetryOrphaned(s)
           \/ TaskCancelled(s) \/ R10PausedForReplan(s)
    PROVE  TypeOK'
<1>a. /\ {"completed", "paused_for_replan", "failed", "cancelled", "dead_letter"} \subseteq TaskStatus
      /\ {"completed", "failed", "cancelled", "live"} \subseteq RowStatus
  BY DEF TaskStatus, RowStatus, Final
<1>1. CASE TaskCompletes(s)
  <2>1. tasks' \in [Slots -> TaskStatus] /\ trow' \in [Slots -> RowStatus]
    BY <1>1, <1>a, SetTaskType DEF TaskCompletes
  <2>2. merged' \in BOOLEAN /\ integ' \in Integration
        /\ work' \in {"none", "worker", "integration", "base", "dropped"}
    BY <1>1 DEF TaskCompletes, WorkerChange, gitVars, TypeOK, Integration
  <2>. QED  BY <1>1, <2>1, <2>2 DEF TaskCompletes, TypeOK, outVars, editVars
<1>2. CASE TaskFails(s)
  <2>1. tasks' \in [Slots -> TaskStatus] /\ trow' \in [Slots -> RowStatus]
    BY <1>2, <1>a, SetTaskType DEF TaskFails
  <2>. QED  BY <1>2, <2>1 DEF TaskFails, TypeOK, outVars, editVars, gitVars
<1>3. CASE AutoRetry(s)
  BY <1>3 DEF AutoRetry, TypeOK, outVars, editVars, gitVars
<1>4. CASE RetryOrphaned(s)
  <2>1. tasks' \in [Slots -> TaskStatus] /\ trow' \in [Slots -> RowStatus]
    BY <1>4, <1>a, SetTaskType DEF RetryOrphaned
  <2>2. faults' \subseteq FaultKinds
    BY <1>4, FaultType DEF RetryOrphaned
  <2>. QED  BY <1>4, <2>1, <2>2 DEF RetryOrphaned, TypeOK, outVars, editVars, gitVars
<1>5. CASE TaskCancelled(s)
  <2>1. tasks' \in [Slots -> TaskStatus] /\ trow' \in [Slots -> RowStatus]
    BY <1>5, <1>a, SetTaskType DEF TaskCancelled
  <2>. QED  BY <1>5, <2>1 DEF TaskCancelled, TypeOK, outVars, editVars, gitVars
<1>6. CASE R10PausedForReplan(s)
  <2>0. trow[s] \in RowStatus
    BY DEF TypeOK
  <2>1. tasks' \in [Slots -> TaskStatus] /\ trow' \in [Slots -> RowStatus]
    BY <1>6, <1>a, <2>0, SetTaskType DEF R10PausedForReplan
  <2>. QED  BY <1>6, <2>1 DEF R10PausedForReplan, TypeOK, outVars, editVars, gitVars
<1>. QED  BY <1>1, <1>2, <1>3, <1>4, <1>5, <1>6

LEMMA CompletionOutcomeType ==
    CompletionOutcome \in Final \cup {"retryable", "error"}
BY CanCompleteMeaning DEF CompletionOutcome, PublishGuard, Final

LEMMA FinalizesType ==
    ASSUME TypeOK, NEW n \in 0..AllWrites, NEW lost \in BOOLEAN,
           FinalizesWith(n, lost)
    PROVE  /\ tasks' \in [Slots -> TaskStatus]
           /\ phase' \in Final \cup {"none", "active"}
           /\ row' \in CommandRow
           /\ plan' \in Final \cup {"sealed"} /\ result' \in Final \cup {"none"}
           /\ intent' \in Final \cup {"none"}
           /\ faults' \subseteq FaultKinds
<1>1. faults' \subseteq FaultKinds
  BY FaultType DEF FinalizesWith, StopsAfter
<1>2. \A status \in Final : CompleteSteps(status, n, lost) =>
        /\ row' \in CommandRow
        /\ plan' \in Final \cup {"sealed"} /\ result' \in Final \cup {"none"}
        /\ intent' \in Final \cup {"none"}
  BY DEF CompleteSteps, TypeOK, CommandRow
<1>3. PlanTerminal /\ ReconcileSteps(n, lost) =>
        /\ row' \in CommandRow
        /\ plan' \in Final \cup {"sealed"} /\ result' \in Final \cup {"none"}
        /\ intent' \in Final \cup {"none"}
  BY DEF ReconcileSteps, TypeOK, CommandRow, PlanTerminal
<1>4. intent # "none" => intent \in Final
  BY DEF TypeOK
<1>5. CASE intent = "none"
  BY <1>1, <1>2, <1>5, CompletionTypes DEF FinalizesWith
<1>6. CASE intent # "none"
  BY <1>1, <1>2, <1>3, <1>4, <1>6 DEF FinalizesWith, TypeOK
<1>. QED  BY <1>5, <1>6

LEMMA PlannerType ==
    ASSUME TypeOK, Planner
    PROVE  TypeOK'
<1>1. ASSUME NEW n \in 0..AllWrites, Complete(n)
      PROVE  TypeOK'
  <2>1. CASE FinalizesWith(n, FALSE) /\ UNCHANGED deferred
    <3>1. UNCHANGED <<trow, oldFailed, gitVars, worktree, scan, cancelReq, editVars>>
      BY <1>1 DEF Complete
    <3>. QED  BY <2>1, <3>1, FinalizesType DEF TypeOK, gitVars, editVars
  <2>2. CASE NotYet
    BY <1>1, <2>2, CompletionTypes DEF Complete, NotYet, NoFault, TypeOK, gitVars, editVars
  <2>. QED  BY <1>1, <2>1, <2>2 DEF Complete
<1>2. CASE RequestCancel
  BY <1>2 DEF RequestCancel, TypeOK, taskVars, gitVars, outVars, editVars
<1>3. ASSUME NEW s \in Slots, AddTask(s) \/ AddRetryTask(s)
      PROVE  TypeOK'
  <2>1. tasks' \in [Slots -> TaskStatus] /\ trow' \in [Slots -> RowStatus]
    BY <1>3, SetTaskType DEF AddTask, AddRetryTask, TaskStatus, RowStatus
  <2>2. edits < MaxEdits /\ edits' = edits + 1 /\ edits \in 0..MaxEdits /\ MaxEdits \in Nat
    BY <1>3, CompletionAssumption DEF AddTask, AddRetryTask, Edit, TypeOK
  <2>3. edits' \in 0..MaxEdits
    BY <2>2
  <2>4. late' = (late \/ result # "none" \/ intent # "none")
    BY <1>3 DEF AddTask, AddRetryTask, Edit
  <2>5. late' \in BOOLEAN
    BY <2>4
  <2>. QED  BY <1>3, <2>1, <2>3, <2>5 DEF AddTask, AddRetryTask, TypeOK, gitVars, outVars
<1>. QED  BY <1>1, <1>2, <1>3 DEF Planner

LEMMA DaemonType ==
    ASSUME TypeOK, Daemon
    PROVE  TypeOK'
<1>. USE DEF taskVars, gitVars, outVars, editVars
<1>1. ASSUME NEW n \in 0..AllWrites, CompleteDeferredPublish(n)
      PROVE  TypeOK'
  <2>0. scan' = "idle" /\ UNCHANGED <<trow, oldFailed, gitVars, worktree, cancelReq, editVars>>
    BY <1>1 DEF CompleteDeferredPublish
  <2>1. ASSUME NEW lost \in BOOLEAN, FinalizesWith(n, lost), deferred' = (n < AllWrites)
        PROVE  TypeOK'
    <3>1. deferred' \in BOOLEAN
      BY <2>1
    <3>. QED  BY <2>0, <2>1, <3>1, FinalizesType DEF TypeOK
  <2>2. CASE NotYet
    BY <2>0, <2>2, CompletionTypes DEF NotYet, NoFault, TypeOK
  <2>3. CASE deferred' = FALSE /\ NoFault /\ UNCHANGED <<tasks, phase, row, plan, result, intent>>
    <3>1. deferred' \in BOOLEAN
      BY <2>3
    <3>2. UNCHANGED <<tasks, phase, row, plan, result, intent, faults>>
      BY <2>3 DEF NoFault
    <3>. QED  BY <2>0, <3>1, <3>2 DEF TypeOK
  <2>. QED  BY <1>1, <2>1, <2>2, <2>3 DEF CompleteDeferredPublish
<1>2. CASE PhaseTransition
  BY <1>2, DeriveFinal DEF PhaseTransition, PhaseOutcome, TypeOK
<1>3. CASE MergeToIntegration
  BY <1>3 DEF MergeToIntegration, TypeOK, Integration
<1>4. CASE MergeFails
  BY <1>4, FaultType DEF MergeFails, TypeOK, Integration
<1>5. CASE PublishCollected
  BY <1>5 DEF PublishCollected, TypeOK
<1>6. CASE PublishBlocked
  <2>1. merged' \in BOOLEAN /\ integ' \in Integration
        /\ work' \in {"none", "worker", "integration", "base", "dropped"}
    BY <1>6 DEF PublishBlocked, CleanupCommand, TypeOK, Integration
  <2>2. result' \in Final \cup {"none"}
    BY <1>6 DEF PublishBlocked, TypeOK, Final
  <2>. QED  BY <1>6, <2>1, <2>2 DEF PublishBlocked, TypeOK
<1>7. CASE Cleanup
  <2>1. merged' \in BOOLEAN /\ integ' \in Integration
        /\ work' \in {"none", "worker", "integration", "base", "dropped"}
    BY <1>7 DEF Cleanup, CleanupCommand, TypeOK, Integration
  <2>. QED  BY <1>7, <2>1 DEF Cleanup, TypeOK
<1>8. CASE PublishDone
  <2>1. merged' \in BOOLEAN /\ integ' \in Integration
        /\ work' \in {"none", "worker", "integration", "base", "dropped"}
    BY <1>8 DEF PublishDone, TypeOK, Integration
  <2>. QED  BY <1>8, <2>1 DEF PublishDone, TypeOK
<1>9. CASE PublishFails
  BY <1>9, FaultType DEF PublishFails, TypeOK, Integration
<1>10. CASE Quarantine
  BY <1>10 DEF Quarantine, TypeOK, Integration
<1>11. CASE PublishReported
  BY <1>11 DEF PublishReported, TypeOK
<1>12. CASE FastTrackCleanup
  <2>1. merged' \in BOOLEAN /\ integ' \in Integration
        /\ work' \in {"none", "worker", "integration", "base", "dropped"}
    BY <1>12 DEF FastTrackCleanup, CleanupCommand, TypeOK, Integration
  <2>2. phase' \in Final /\ faults' \subseteq FaultKinds
    BY <1>12, FaultType DEF FastTrackCleanup, Final
  <2>. QED  BY <1>12, <2>1, <2>2 DEF FastTrackCleanup, TypeOK
<1>13. CASE R3PlannerQueue
  BY <1>13 DEF R3PlannerQueue, TypeOK, CommandRow
<1>14. CASE R4PlanStatus
  BY <1>14 DEF R4PlanStatus, TypeOK
<1>15. ASSUME NEW s \in Slots, R10PausedForReplan(s)
       PROVE  TypeOK'
  BY <1>15, TasksType
<1>16. CASE DeliveryUncertain
  BY <1>16, FaultType DEF DeliveryUncertain, TypeOK, CommandRow
<1>17. CASE Dispatch
  BY <1>17 DEF Dispatch, TypeOK, CommandRow
<1>18. ASSUME NEW status \in Final, NEW rowStatus \in CommandRow,
              FinishInScan(status, rowStatus)
       PROVE  TypeOK'
  BY <1>18, FaultType DEF FinishInScan, PlanTerminal, TypeOK
<1>19. CASE ProcessCommandDeadLetters
  BY <1>18, <1>19 DEF ProcessCommandDeadLetters, Final, CommandRow
<1>20. CASE AutoCompleteCancelledCommands
  BY <1>18, <1>20 DEF AutoCompleteCancelledCommands, Final, CommandRow
<1>21. CASE Crash
  BY <1>21, FaultType DEF Crash, TypeOK
<1>. QED
  BY <1>1, <1>2, <1>3, <1>4, <1>5, <1>6, <1>7, <1>8, <1>9, <1>10, <1>11,
     <1>12, <1>13, <1>14, <1>15, <1>16, <1>17, <1>19, <1>20, <1>21 DEF Daemon

LEMMA TypeStep == TypeOK /\ [Next]_vars => TypeOK'
<1>. SUFFICES ASSUME TypeOK, [Next]_vars PROVE TypeOK'
  OBVIOUS
<1>1. CASE Tasks
  BY <1>1, TasksType DEF Tasks
<1>2. CASE Planner
  BY <1>2, PlannerType
<1>3. CASE Daemon
  BY <1>3, DaemonType
<1>4. CASE UNCHANGED vars
  BY <1>4 DEF vars, taskVars, gitVars, outVars, editVars, TypeOK
<1>. QED  BY <1>1, <1>2, <1>3, <1>4 DEF Next

LEMMA TypeInit == Init => TypeOK
<1>. SUFFICES ASSUME Init PROVE TypeOK
  OBVIOUS
<1>1. /\ oldFailed \in BOOLEAN /\ merged \in BOOLEAN /\ deferred \in BOOLEAN
      /\ cancelReq \in BOOLEAN /\ late \in BOOLEAN
  BY DEF Init
<1>2. worktree \in BOOLEAN /\ phase \in {"none", "active"}
  BY CompletionAssumption DEF Init
<1>3. tasks \in [Slots -> TaskStatus] /\ trow \in [Slots -> RowStatus]
  BY DEF Init, TaskStatus, RowStatus
<1>4. edits \in 0..MaxEdits
  BY CompletionAssumption DEF Init
<1>5. integ \in Integration
  BY DEF Init, Integration
<1>. QED  BY <1>1, <1>2, <1>3, <1>4, <1>5 DEF Init, TypeOK, CommandRow

\* Every variable keeps its type.
THEOREM CompletionTypeCorrect == Spec => []TypeOK
BY TypeInit, TypeStep, PTL DEF Spec

----------------------------------------------------------------------------
(* A final plan_status stays.                                              *)

LEMMA FinalizesKeepsPlan ==
    ASSUME NEW n, NEW lost, FinalizesWith(n, lost), PlanTerminal
    PROVE  plan' = plan
BY DEF FinalizesWith, CompleteSteps, ReconcileSteps

\* No step of any party replaces a final plan_status, whatever is replayed
\* after it.
THEOREM FinalStatusStays == Spec => PlanStatusFinal
<1>1. [Next]_vars => [PlanTerminal => plan' = plan]_vars
  <2>. SUFFICES ASSUME Next, PlanTerminal PROVE plan' = plan
    OBVIOUS
  <2>. USE DEF outVars
  <2>1. CASE Tasks
    BY <2>1 DEF Tasks, TaskCompletes, TaskFails, AutoRetry, RetryOrphaned, TaskCancelled
  <2>2. CASE Planner
    BY <2>2, FinalizesKeepsPlan DEF Planner, Complete, NotYet, RequestCancel, AddTask, AddRetryTask
  <2>3. CASE \E n \in 0..AllWrites : CompleteDeferredPublish(n)
    BY <2>3, FinalizesKeepsPlan DEF CompleteDeferredPublish, NotYet
  <2>4. CASE R4PlanStatus
    BY <2>4 DEF R4PlanStatus
  <2>5. CASE ProcessCommandDeadLetters \/ AutoCompleteCancelledCommands
    BY <2>5 DEF ProcessCommandDeadLetters, AutoCompleteCancelledCommands, FinishInScan
  <2>6. CASE PublishBlocked
    BY <2>6 DEF PublishBlocked
  <2>7. CASE \E s \in Slots : R10PausedForReplan(s)
    BY <2>7 DEF R10PausedForReplan
  <2>8. CASE \/ PhaseTransition \/ MergeToIntegration \/ MergeFails
             \/ PublishCollected \/ Cleanup \/ PublishDone \/ PublishFails
             \/ Quarantine \/ PublishReported \/ FastTrackCleanup
             \/ R3PlannerQueue \/ DeliveryUncertain \/ Dispatch \/ Crash
    BY <2>8 DEF PhaseTransition, MergeToIntegration, MergeFails, PublishCollected,
         Cleanup, PublishDone, PublishFails, Quarantine, PublishReported,
         FastTrackCleanup, R3PlannerQueue, DeliveryUncertain, Dispatch, Crash
  <2>. QED
    BY <2>1, <2>2, <2>3, <2>4, <2>5, <2>6, <2>7, <2>8 DEF Next, Daemon
<1>. QED  BY <1>1, PTL DEF Spec, PlanStatusFinal

----------------------------------------------------------------------------
(* The result agrees with plan_status.                                     *)

\* No edit has interfered with a completion and no merge has failed.
Quiet == ~late /\ "merge" \notin faults
Ready == CanComplete(tasks, phase) \in Final
Agree(a, b) == a = "completed" <=> b = "completed"

\* Only a failed merge makes the integration failed.
FailedMerge == integ = "failed" => "merge" \in faults

\* plan_status says completed only after a result was written.
CompletedHasResult == plan = "completed" => result # "none"

\* A result or an intent is there only for tasks whose outcome is settled.
StartedIsReady == Quiet /\ (result # "none" \/ intent # "none") => Ready

\* Without an intent a result belongs to the final plan_status, or it is the
\* publish gate's report of a plan that cannot succeed any more.
ResultFits ==
    Quiet /\ result # "none" /\ intent = "none" =>
        IF PlanTerminal THEN Agree(result, plan)
        ELSE result = "failed" /\ DeriveStatus(tasks) # "completed"

\* With an intent it belongs to the intent or to the final plan_status that
\* overtook it, to which the replay will reconcile it.
ResultFitsIntent ==
    Quiet /\ result # "none" /\ intent # "none" =>
        Agree(result, intent) \/ (PlanTerminal /\ Agree(result, plan))

\* An intent of success was written for tasks that succeeded.
IntentFits == Quiet /\ intent = "completed" => DeriveStatus(tasks) = "completed"

IInv == /\ TypeOK /\ FailedMerge /\ CompletedHasResult /\ StartedIsReady
        /\ ResultFits /\ ResultFitsIntent /\ IntentFits

LEMMA IInvInit == Init => IInv
<1>. SUFFICES ASSUME Init PROVE IInv
  OBVIOUS
<1>1. integ # "failed" /\ plan = "sealed" /\ result = "none" /\ intent = "none"
  BY DEF Init
<1>. QED
  BY <1>1, TypeInit DEF IInv, FailedMerge, CompletedHasResult, StartedIsReady,
     ResultFits, ResultFitsIntent, IntentFits

\* A step that leaves result, plan_status and intent alone keeps the invariant
\* if it does not change the outcome of tasks that a completion relies on.
LEMMA Frame ==
    ASSUME IInv, TypeOK', UNCHANGED <<plan, result, intent>>,
           integ' = "failed" => integ = "failed" \/ "merge" \in faults',
           Quiet' => Quiet,
           "merge" \in faults => "merge" \in faults',
           Quiet' /\ Ready /\ (result # "none" \/ intent # "none") =>
              Ready' /\ DeriveStatus(tasks)' = DeriveStatus(tasks)
    PROVE  IInv'
<1>. USE DEF IInv
<1>1. FailedMerge'
  BY DEF FailedMerge
<1>2. CompletedHasResult'
  BY DEF CompletedHasResult
<1>3. StartedIsReady'
  BY DEF StartedIsReady
<1>4. ResultFits'
  BY DEF ResultFits, StartedIsReady, PlanTerminal, Agree
<1>5. ResultFitsIntent'
  BY DEF ResultFitsIntent, PlanTerminal, Agree
<1>6. IntentFits'
  BY DEF IntentFits, StartedIsReady
<1>. QED  BY <1>1, <1>2, <1>3, <1>4, <1>5, <1>6

\* The same when tasks and phase are not touched at all.
LEMMA FrameTasks ==
    ASSUME IInv, TypeOK', UNCHANGED <<plan, result, intent, tasks, phase>>,
           integ' = "failed" => integ = "failed" \/ "merge" \in faults',
           late' = late, faults \subseteq faults'
    PROVE  IInv'
BY Frame DEF Quiet, Ready

\* A slot that was not terminal is optional once the tasks are ready, so
\* whatever becomes of it does not matter.
LEMMA TaskChange ==
    ASSUME TypeOK, NEW s \in Slots, tasks[s] # "absent", ~IsTerminal(tasks[s]),
           NEW v, v # "absent", tasks' = [tasks EXCEPT ![s] = v],
           phase' = phase, Ready
    PROVE  Ready' /\ DeriveStatus(tasks)' = DeriveStatus(tasks)
<1>1. /\ phase # "active"
      /\ phase # "none" => \A r \in Present(tasks) : IsTerminal(tasks[r])
      /\ \A r \in RequiredIDs(tasks) : IsTerminal(tasks[r])
  BY CanCompleteMeaning DEF Ready
<1>2. s \in Present(tasks)
  BY DEF Present
<1>3. phase = "none" /\ s \notin RequiredIDs(tasks)
  BY <1>1, <1>2
<1>4. Present(tasks') = Present(tasks)
  BY DEF Present, TypeOK
<1>5. RequiredIDs(tasks') = RequiredIDs(tasks)
  BY <1>4 DEF RequiredIDs
<1>6. \A r \in RequiredIDs(tasks) : r \in Slots /\ tasks'[r] = tasks[r]
  BY <1>3 DEF TypeOK, RequiredIDs, Present
<1>7. DeriveStatus(tasks') = DeriveStatus(tasks)
  BY <1>5, <1>6 DEF DeriveStatus, SomeRequired
<1>8. \A r \in RequiredIDs(tasks') : IsTerminal(tasks'[r])
  BY <1>1, <1>5, <1>6
<1>9. CanComplete(tasks', phase') \in Final
  BY <1>3, <1>8, CanCompleteMeaning
<1>. QED  BY <1>7, <1>9 DEF Ready

LEMMA TasksInv ==
    ASSUME IInv, NEW s \in Slots,
           \/ TaskCompletes(s) \/ TaskFails(s) \/ AutoRetry(s) \/ RetryOrphaned(s)
           \/ TaskCancelled(s) \/ R10PausedForReplan(s)
    PROVE  IInv'
<1>1. TypeOK /\ TypeOK'
  BY TasksType DEF IInv
<1>2. UNCHANGED <<plan, result, intent, phase, late>>
  BY DEF TaskCompletes, TaskFails, AutoRetry, RetryOrphaned, TaskCancelled,
         R10PausedForReplan, outVars, editVars
<1>3. faults \subseteq faults'
  BY DEF TaskCompletes, TaskFails, AutoRetry, RetryOrphaned, TaskCancelled,
         R10PausedForReplan, Fault
<1>4. integ' = "failed" => integ = "failed"
  BY DEF TaskCompletes, TaskFails, AutoRetry, RetryOrphaned, TaskCancelled,
         R10PausedForReplan, WorkerChange, gitVars
<1>5. CASE AutoRetry(s)
  BY <1>1, <1>2, <1>3, <1>4, <1>5, FrameTasks DEF AutoRetry
<1>6. ASSUME NEW v, v # "absent", tasks' = [tasks EXCEPT ![s] = v],
             tasks[s] \in {"open", "paused_for_replan"}
      PROVE  IInv'
  <2>1. tasks[s] # "absent" /\ ~IsTerminal(tasks[s])
    BY <1>6 DEF IsTerminal, Final
  <2>2. Ready => Ready' /\ DeriveStatus(tasks)' = DeriveStatus(tasks)
    BY <1>1, <1>2, <1>6, <2>1, TaskChange
  <2>. QED  BY <1>1, <1>2, <1>3, <1>4, <2>2, Frame DEF Quiet
<1>. QED
  BY <1>5, <1>6 DEF TaskCompletes, TaskFails, RetryOrphaned, TaskCancelled,
     R10PausedForReplan, SetTask

\* A result or an intent on disk makes an edit a late one.
LEMMA EditInv ==
    ASSUME IInv, NEW s \in Slots, AddTask(s) \/ AddRetryTask(s), TypeOK'
    PROVE  IInv'
<1>1. /\ UNCHANGED <<plan, result, intent, integ, faults>>
      /\ late' = (late \/ result # "none" \/ intent # "none")
  BY DEF AddTask, AddRetryTask, Edit, outVars, gitVars
<1>2. Quiet' => Quiet /\ result = "none" /\ intent = "none"
  BY <1>1 DEF Quiet
<1>. QED  BY <1>1, <1>2, Frame

\* Ready tasks have none of them paused, so Complete changes nothing.
LEMMA ReadyUnchanged ==
    ASSUME Ready
    PROVE  CompletionTasks = tasks /\ CompletionPhase = phase
<1>1. \A r \in RequiredIDs(tasks) : IsTerminal(tasks[r])
  BY CanCompleteMeaning DEF Ready
<1>2. Paused(tasks) = {}
  BY <1>1 DEF Paused, IsTerminal, Final
<1>. QED
  BY <1>2 DEF CompletionTasks, CompletionPhase, AutoCancelPaused, AutoCancelBlocking

\* A completion starts with tasks that are ready, and with success only if
\* they succeeded.
LEMMA OutcomeMeaning ==
    ASSUME CompletionOutcome \in Final, tasks' = CompletionTasks, phase' = CompletionPhase
    PROVE  /\ Ready'
           /\ CompletionOutcome = "completed" => DeriveStatus(tasks)' = "completed"
<1>1. CanComplete(CompletionTasks, CompletionPhase) \in Final
  BY CanCompleteMeaning DEF CompletionOutcome, Final
<1>2. CompletionOutcome = "completed" =>
        CanComplete(CompletionTasks, CompletionPhase) = "completed"
  BY DEF CompletionOutcome
<1>. QED  BY <1>1, <1>2, CanCompleteMeaning DEF Ready

LEMMA FinalizesInv ==
    ASSUME IInv, NEW n \in 0..AllWrites, NEW lost \in BOOLEAN,
           FinalizesWith(n, lost), UNCHANGED <<integ, late>>, TypeOK'
    PROVE  IInv'
<1>. USE DEF IInv
<1>1. faults \subseteq faults'
  BY FaultType DEF FinalizesWith, StopsAfter
<1>2. Quiet' => Quiet
  BY <1>1 DEF Quiet
<1>3. FailedMerge'
  BY <1>1 DEF FailedMerge
<1>4. n \in {0, 1, 2, 3, 4, 5}
  BY DEF AllWrites
<1>5. CASE intent = "none"
  <2>1. /\ ~PlanTerminal /\ CompletionOutcome \in Final
        /\ CompleteSteps(CompletionOutcome, n, lost)
        /\ tasks' = CompletionTasks /\ phase' = CompletionPhase
    BY <1>5 DEF FinalizesWith
  <2>2. /\ Ready'
        /\ CompletionOutcome = "completed" => DeriveStatus(tasks)' = "completed"
    BY <2>1, OutcomeMeaning
  <2>3. ASSUME Quiet, result # "none"
        PROVE  result = "failed" /\ CompletionOutcome # "completed"
    <3>1. result = "failed" /\ DeriveStatus(tasks) # "completed" /\ Ready
      BY <1>5, <2>1, <2>3 DEF ResultFits, StartedIsReady
    <3>2. tasks' = tasks
      BY <2>1, <3>1, ReadyUnchanged
    <3>. QED  BY <2>2, <3>1, <3>2
  <2>4. CompletionOutcome # "none" /\ "none" \notin Final
    BY <2>1 DEF Final
  <2>5. CompletedHasResult'
    BY <1>4, <2>1, <2>4 DEF CompleteSteps, CompletedHasResult, PlanTerminal, Final
  <2>6. StartedIsReady'
    BY <2>2 DEF StartedIsReady
  <2>7. IntentFits'
    BY <1>4, <1>5, <2>1, <2>2, <2>4 DEF CompleteSteps, IntentFits
  <2>8. ResultFits'
    <3>1. CASE n = 0
      <4>1. result' = result /\ plan' = plan
        BY <2>1, <3>1 DEF CompleteSteps
      <4>2. ASSUME Quiet', result' # "none"
            PROVE  result' = "failed" /\ DeriveStatus(tasks)' # "completed"
        <5>1. result = "failed" /\ DeriveStatus(tasks) # "completed" /\ Ready
          BY <1>2, <1>5, <2>1, <4>1, <4>2 DEF ResultFits, StartedIsReady
        <5>2. tasks' = tasks
          BY <2>1, <5>1, ReadyUnchanged
        <5>. QED  BY <4>1, <5>1, <5>2
      <4>. QED  BY <2>1, <4>1, <4>2 DEF ResultFits, PlanTerminal
    <3>2. CASE n \in {1, 2, 3, 4}
      <4>1. intent' = CompletionOutcome
        BY <2>1, <3>2 DEF CompleteSteps
      <4>. QED  BY <2>4, <4>1 DEF ResultFits
    <3>3. CASE n = 5
      <4>1. plan' = CompletionOutcome
            /\ result' = (IF result = "none" THEN CompletionOutcome ELSE result)
        BY <2>1, <3>3 DEF CompleteSteps
      <4>2. PlanTerminal'
        BY <2>1, <4>1 DEF PlanTerminal
      <4>. QED  BY <1>2, <2>3, <4>1, <4>2 DEF ResultFits, Agree
    <3>. QED  BY <1>4, <3>1, <3>2, <3>3
  <2>9. ResultFitsIntent'
    <3>1. CASE n \in {0, 5}
      <4>1. intent' = "none"
        BY <1>5, <2>1, <3>1 DEF CompleteSteps
      <4>. QED  BY <4>1 DEF ResultFitsIntent
    <3>2. CASE n \in {1, 2, 3, 4}
      <4>1. /\ intent' = CompletionOutcome
            /\ result' \in {result, IF result = "none" THEN CompletionOutcome ELSE result}
        BY <2>1, <3>2 DEF CompleteSteps
      <4>. QED  BY <1>2, <2>3, <4>1 DEF ResultFitsIntent, Agree
    <3>. QED  BY <1>4, <3>1, <3>2
  <2>. QED  BY <1>3, <2>5, <2>6, <2>7, <2>8, <2>9
<1>6. CASE intent # "none" /\ PlanTerminal /\ plan # intent
  <2>1. ReconcileSteps(n, lost) /\ UNCHANGED <<tasks, phase>>
    BY <1>6 DEF FinalizesWith
  <2>2. /\ plan' = plan /\ plan \in Final /\ "none" \notin Final
        /\ result' \in {plan, result} /\ intent' \in {"none", intent}
        /\ intent' = "none" => result' = plan
    BY <1>4, <1>6, <2>1 DEF ReconcileSteps, PlanTerminal, Final
  <2>3. PlanTerminal' /\ Ready' = Ready /\ DeriveStatus(tasks)' = DeriveStatus(tasks)
    BY <2>1, <2>2 DEF PlanTerminal, Ready
  <2>4. CompletedHasResult'
    BY <2>2 DEF CompletedHasResult
  <2>5. StartedIsReady'
    BY <1>2, <1>6, <2>3 DEF StartedIsReady
  <2>6. IntentFits'
    BY <1>2, <2>2, <2>3 DEF IntentFits
  <2>7. ResultFits'
    BY <2>2, <2>3 DEF ResultFits, Agree
  <2>8. ResultFitsIntent'
    BY <1>2, <1>6, <2>2, <2>3 DEF ResultFitsIntent, Agree
  <2>. QED  BY <1>3, <2>4, <2>5, <2>6, <2>7, <2>8
<1>7. CASE intent # "none" /\ ~(PlanTerminal /\ plan # intent)
  <2>1. CompleteSteps(intent, n, lost) /\ UNCHANGED <<tasks, phase>>
    BY <1>7 DEF FinalizesWith
  <2>2. intent \in Final /\ "none" \notin Final
    BY <1>7 DEF TypeOK, Final
  <2>3. /\ intent' = "none" => plan' = intent /\ result' # "none"
        /\ intent' \in {"none", intent}
        /\ result' \in {result, intent} /\ (result # "none" => result' = result)
        /\ plan' \in {plan, intent}
        /\ plan' # plan => result' # "none"
    BY <1>4, <2>1, <2>2 DEF CompleteSteps
  <2>4. Ready' = Ready /\ DeriveStatus(tasks)' = DeriveStatus(tasks)
    BY <2>1 DEF Ready
  <2>5. CompletedHasResult'
    BY <2>2, <2>3 DEF CompletedHasResult
  <2>6. StartedIsReady'
    BY <1>2, <1>7, <2>4 DEF StartedIsReady
  <2>7. IntentFits'
    BY <1>2, <2>3, <2>4 DEF IntentFits
  <2>8. Quiet /\ result # "none" => Agree(result, intent)
    BY <1>7 DEF ResultFitsIntent
  <2>9. ResultFits'
    <3>1. SUFFICES ASSUME Quiet', result' # "none", intent' = "none"
                   PROVE  PlanTerminal' /\ Agree(result', plan')
      BY DEF ResultFits, Agree
    <3>. QED  BY <1>2, <2>2, <2>3, <2>8, <3>1 DEF PlanTerminal, Agree
  <2>10. ResultFitsIntent'
    BY <1>2, <2>3, <2>8 DEF ResultFitsIntent, Agree
  <2>. QED  BY <1>3, <2>5, <2>6, <2>7, <2>9, <2>10
<1>. QED  BY <1>5, <1>6, <1>7

LEMMA NotYetInv ==
    ASSUME IInv, NotYet, UNCHANGED <<integ, late>>, TypeOK'
    PROVE  IInv'
<1>1. UNCHANGED <<plan, result, intent, faults>>
  BY DEF NotYet, NoFault
<1>2. Ready => tasks' = tasks /\ phase' = phase
  BY ReadyUnchanged DEF NotYet
<1>3. Ready => Ready' /\ DeriveStatus(tasks)' = DeriveStatus(tasks)
  BY <1>2 DEF Ready
<1>. QED  BY <1>1, <1>3, Frame DEF Quiet

\* The publish gate reports a failure only for a plan that cannot succeed.
LEMMA PublishBlockedInv ==
    ASSUME IInv, PublishBlocked, TypeOK'
    PROVE  IInv'
<1>. USE DEF IInv
<1>1. /\ UNCHANGED <<tasks, phase, plan, intent, late, faults>>
      /\ integ' = "failed" => integ = "failed"
      /\ PublishGate /\ (GateBlocks \/ integ = "failed")
  BY DEF PublishBlocked, CleanupCommand, taskVars, gitVars, editVars
<1>2. CASE result # "none"
  <2>1. result' = result
    BY <1>2 DEF PublishBlocked
  <2>. QED  BY <1>1, <2>1, FrameTasks
<1>3. CASE result = "none"
  <2>1. result' = "failed"
    BY <1>3 DEF PublishBlocked
  <2>2. Ready
    <3>1. phase # "active" /\ \A s \in Present(tasks) : IsTerminal(tasks[s])
      BY <1>1 DEF PublishGate, AllTasksTerminal, Final
    <3>2. \A s \in RequiredIDs(tasks) : IsTerminal(tasks[s])
      BY <3>1 DEF RequiredIDs
    <3>. QED  BY <3>1, <3>2, CanCompleteMeaning DEF Ready
  <2>3. Ready' /\ DeriveStatus(tasks)' = DeriveStatus(tasks) /\ Quiet' = Quiet
    BY <1>1, <2>2 DEF Ready, Quiet
  <2>4. Quiet => DeriveStatus(tasks) # "completed"
    BY <1>1 DEF Quiet, FailedMerge, GateBlocks
  <2>5. FailedMerge' /\ CompletedHasResult' /\ StartedIsReady'
    BY <1>1, <2>1, <2>3 DEF FailedMerge, CompletedHasResult, StartedIsReady
  <2>6. plan # "completed"
    BY <1>3 DEF CompletedHasResult
  <2>7. ResultFits'
    BY <1>1, <2>1, <2>3, <2>4, <2>6 DEF ResultFits, PlanTerminal, Agree
  <2>8. IntentFits'
    BY <1>1, <2>3 DEF IntentFits
  <2>9. ResultFitsIntent'
    BY <1>1, <2>1, <2>3, <2>4 DEF ResultFitsIntent, IntentFits, Agree
  <2>. QED  BY <2>5, <2>7, <2>8, <2>9
<1>. QED  BY <1>2, <1>3

\* R4 derives the status from the tasks the result was written for.
LEMMA R4Inv ==
    ASSUME IInv, R4PlanStatus, TypeOK'
    PROVE  IInv'
<1>. USE DEF IInv
<1>1. /\ UNCHANGED <<tasks, phase, integ, intent, late, faults>>
      /\ result # "none" /\ ~PlanTerminal
  BY DEF R4PlanStatus, taskVars, gitVars, editVars
<1>2. /\ plan' = IF Ready THEN CanComplete(tasks, phase) ELSE plan
      /\ result' = IF Ready THEN result ELSE "none"
  BY DEF R4PlanStatus, Ready
<1>3. Ready' = Ready /\ DeriveStatus(tasks)' = DeriveStatus(tasks) /\ Quiet' = Quiet
  BY <1>1 DEF Ready, Quiet
<1>4. Quiet => Ready
  BY <1>1 DEF StartedIsReady
<1>5. Ready => plan' = DeriveStatus(tasks) /\ PlanTerminal'
  BY <1>2, CanCompleteMeaning DEF Ready, PlanTerminal
<1>6. FailedMerge' /\ StartedIsReady' /\ IntentFits'
  BY <1>1, <1>3, <1>4 DEF FailedMerge, StartedIsReady, IntentFits
<1>7. CompletedHasResult'
  BY <1>1, <1>2 DEF CompletedHasResult, PlanTerminal, Final
<1>8. ResultFits'
  BY <1>1, <1>2, <1>3, <1>4, <1>5 DEF ResultFits, Agree
<1>9. ResultFitsIntent'
  BY <1>1, <1>2, <1>3, <1>4 DEF ResultFitsIntent, Agree
<1>. QED  BY <1>6, <1>7, <1>8, <1>9

\* The cancel handler and the dead-letter processor end an unfinished plan
\* without success, whatever was written for it before.
LEMMA FinishInv ==
    ASSUME IInv, NEW status, status # "completed", NEW rowStatus,
           FinishInScan(status, rowStatus), TypeOK'
    PROVE  IInv'
<1>. USE DEF IInv
<1>1. /\ UNCHANGED <<tasks, phase, integ, result, intent, late>>
      /\ faults \subseteq faults'
  BY DEF FinishInScan, NoFault, Fault, taskVars, gitVars, editVars
<1>2. /\ Ready' = Ready /\ DeriveStatus(tasks)' = DeriveStatus(tasks)
      /\ Quiet' => Quiet
  BY <1>1 DEF Ready, Quiet
<1>3. /\ PlanTerminal => plan' = plan
      /\ ~PlanTerminal => plan' = status
  BY DEF FinishInScan
<1>4. PlanTerminal => PlanTerminal'
  BY <1>3 DEF PlanTerminal
<1>5. FailedMerge' /\ StartedIsReady' /\ IntentFits'
  BY <1>1, <1>2 DEF FailedMerge, StartedIsReady, IntentFits
<1>6. CompletedHasResult'
  BY <1>1, <1>3 DEF CompletedHasResult
<1>7. ResultFits'
  BY <1>1, <1>2, <1>3, <1>4 DEF ResultFits, Agree
<1>8. ResultFitsIntent'
  BY <1>1, <1>2, <1>3, <1>4 DEF ResultFitsIntent, Agree
<1>. QED  BY <1>5, <1>6, <1>7, <1>8

LEMMA DaemonInv ==
    ASSUME IInv, Daemon
    PROVE  IInv'
<1>a. TypeOK /\ TypeOK'
  BY DaemonType DEF IInv
<1>. USE DEF taskVars, gitVars, outVars, editVars
<1>1. ASSUME NEW n \in 0..AllWrites, CompleteDeferredPublish(n)
      PROVE  IInv'
  <2>1. UNCHANGED <<integ, late>>
    BY <1>1 DEF CompleteDeferredPublish
  <2>2. ASSUME NEW lost \in BOOLEAN, FinalizesWith(n, lost) PROVE IInv'
    BY <1>a, <2>1, <2>2, FinalizesInv
  <2>3. CASE NotYet
    BY <1>a, <2>1, <2>3, NotYetInv
  <2>4. CASE NoFault /\ UNCHANGED <<tasks, phase, row, plan, result, intent>>
    BY <1>a, <2>1, <2>4, FrameTasks DEF NoFault
  <2>. QED  BY <1>1, <2>2, <2>3, <2>4 DEF CompleteDeferredPublish
<1>2. CASE PhaseTransition \/ FastTrackCleanup
  <2>1. /\ phase = "active" /\ UNCHANGED <<plan, result, intent, late>>
        /\ integ' = "failed" => integ = "failed"
        /\ faults \subseteq faults'
    BY <1>2 DEF PhaseTransition, FastTrackCleanup, CleanupCommand, Fault
  <2>2. ~Ready
    BY <2>1, CanCompleteMeaning DEF Ready
  <2>. QED  BY <1>a, <2>1, <2>2, Frame DEF Quiet
<1>3. CASE MergeToIntegration \/ MergeFails
  <2>1. UNCHANGED <<plan, result, intent, tasks, phase, late>>
    BY <1>3 DEF MergeToIntegration, MergeFails
  <2>2. /\ faults \subseteq faults'
        /\ integ' = "failed" => integ = "failed" \/ "merge" \in faults'
    BY <1>3 DEF MergeToIntegration, MergeFails, Fault
  <2>. QED  BY <1>a, <2>1, <2>2, FrameTasks
<1>4. CASE \/ PublishCollected \/ Cleanup \/ PublishDone \/ PublishFails
           \/ Quarantine \/ PublishReported
  <2>1. UNCHANGED <<plan, result, intent, tasks, phase, late>>
    BY <1>4 DEF PublishCollected, Cleanup, PublishDone, PublishFails,
         Quarantine, PublishReported
  <2>2. faults \subseteq faults' /\ (integ' = "failed" => integ = "failed")
    BY <1>4 DEF PublishCollected, Cleanup, CleanupCommand, PublishDone,
         PublishFails, Quarantine, PublishReported, Fault
  <2>. QED  BY <1>a, <2>1, <2>2, FrameTasks
<1>5. CASE R3PlannerQueue \/ DeliveryUncertain \/ Dispatch \/ Crash
  <2>1. /\ UNCHANGED <<plan, result, intent, tasks, phase, late, integ>>
        /\ faults \subseteq faults'
    BY <1>5 DEF R3PlannerQueue, DeliveryUncertain, Dispatch, Crash, Fault
  <2>. QED  BY <1>a, <2>1, FrameTasks
<1>6. CASE PublishBlocked
  BY <1>a, <1>6, PublishBlockedInv
<1>7. CASE R4PlanStatus
  BY <1>a, <1>7, R4Inv
<1>8. ASSUME NEW s \in Slots, R10PausedForReplan(s)
      PROVE  IInv'
  BY <1>8, TasksInv
<1>9. CASE ProcessCommandDeadLetters
  BY <1>a, <1>9, FinishInv DEF ProcessCommandDeadLetters
<1>10. CASE AutoCompleteCancelledCommands
  BY <1>a, <1>10, FinishInv DEF AutoCompleteCancelledCommands
<1>. QED
  BY <1>1, <1>2, <1>3, <1>4, <1>5, <1>6, <1>7, <1>8, <1>9, <1>10 DEF Daemon

LEMMA PlannerInv ==
    ASSUME IInv, Planner
    PROVE  IInv'
<1>a. TypeOK'
  BY PlannerType DEF IInv
<1>1. ASSUME NEW n \in 0..AllWrites, Complete(n)
      PROVE  IInv'
  <2>1. UNCHANGED <<integ, late>>
    BY <1>1 DEF Complete, gitVars, editVars
  <2>2. CASE FinalizesWith(n, FALSE)
    BY <1>a, <2>1, <2>2, FinalizesInv
  <2>3. CASE NotYet
    BY <1>a, <2>1, <2>3, NotYetInv
  <2>. QED  BY <1>1, <2>2, <2>3 DEF Complete
<1>2. CASE RequestCancel
  BY <1>a, <1>2, FrameTasks DEF RequestCancel, taskVars, gitVars, outVars, editVars
<1>3. ASSUME NEW s \in Slots, AddTask(s) \/ AddRetryTask(s)
      PROVE  IInv'
  BY <1>a, <1>3, EditInv
<1>. QED  BY <1>1, <1>2, <1>3 DEF Planner

LEMMA IInvStep == IInv /\ [Next]_vars => IInv'
<1>. SUFFICES ASSUME IInv, [Next]_vars PROVE IInv'
  OBVIOUS
<1>1. CASE Tasks
  BY <1>1, TasksInv DEF Tasks
<1>2. CASE Planner
  BY <1>2, PlannerInv
<1>3. CASE Daemon
  BY <1>3, DaemonInv
<1>4. CASE UNCHANGED vars
  <2>1. TypeOK'
    BY <1>4, TypeStep DEF IInv
  <2>. QED
    BY <1>4, <2>1, FrameTasks DEF vars, taskVars, gitVars, outVars, editVars
<1>. QED  BY <1>1, <1>2, <1>3, <1>4 DEF Next

\* Once a completion is over, the command result and plan_status agree on
\* success: for any number of slots, faults, crashes and edits, whoever wrote
\* them and wherever the writing of the files was interrupted.
THEOREM StoresAgree == Spec => []ResultAgrees
<1>1. IInv => ResultAgrees
  BY DEF IInv, ResultFits, ResultAgrees, Settled, Quiet, Agree
<1>. QED  BY <1>1, IInvInit, IInvStep, PTL DEF Spec


----------------------------------------------------------------------------
(* The row agrees with plan_status.                                        *)

\* A fault of kind k and an interrupted completion do not meet: at most one
\* fault happens, or one of the two never does.
Apart(k) == MaxFaults <= 1 \/ "cut" \notin FaultKinds \/ k \notin FaultKinds
NotBoth(k) == ~("cut" \in faults /\ k \in faults)

\* An intent is only left behind by an interrupted completion.
IntentIsCut == intent # "none" => "cut" \in faults

\* Only a publish that failed is retried or quarantined.
FailedPublish ==
    integ \in {"publish_failed", "quarantined"} => "publish" \in faults

\* A sealed plan's row is pending only after an uncertain delivery.
PendingIsUncertain == row = "pending" => "delivery" \in faults

\* Whatever was interrupted, intent, plan_status and row speak for the tasks;
\* a cancelled command is left out.
Undisturbed == Quiet /\ ~cancelReq
IntentSpeaksForTasks ==
    Undisturbed /\ intent # "none" => Agree(intent, DeriveStatus(tasks))
PlanSpeaksForTasks ==
    Undisturbed /\ "cut" \in faults /\ PlanTerminal =>
        Ready /\ Agree(plan, DeriveStatus(tasks))
RowFits ==
    Undisturbed /\ row \in Final =>
        IF PlanTerminal THEN Agree(row, plan)
        ELSE result # "none" /\ Agree(row, DeriveStatus(tasks))

RowInv == /\ IntentIsCut /\ FailedPublish /\ PendingIsUncertain
          /\ IntentSpeaksForTasks /\ PlanSpeaksForTasks /\ RowFits

LEMMA FaultsAreFinite ==
    ASSUME TypeOK
    PROVE  IsFiniteSet(faults)
<1> DEFINE Kinds == {"cut", "crash", "publish", "merge", "stall", "enqueue", "delivery"}
<1>1. IsFiniteSet({"cut"} \cup {"crash"} \cup {"publish"} \cup {"merge"}
                  \cup {"stall"} \cup {"enqueue"} \cup {"delivery"})
  BY FS_Singleton, FS_Union
<1>2. Kinds = {"cut"} \cup {"crash"} \cup {"publish"} \cup {"merge"}
                  \cup {"stall"} \cup {"enqueue"} \cup {"delivery"}
  OBVIOUS
<1>3. faults \subseteq Kinds
  BY CompletionAssumption DEF TypeOK
<1>. HIDE DEF Kinds
<1>. QED  BY <1>1, <1>2, <1>3, FS_Subset

\* Faults that are kept apart stay apart.
LEMMA ApartStep ==
    ASSUME TypeOK, NEW k, k # "cut", Apart(k), NotBoth(k), NEW kind,
           NoFault \/ Fault(kind)
    PROVE  NotBoth(k)'
<1>1. CASE NoFault
  BY <1>1 DEF NoFault, NotBoth
<1>2. CASE Fault(kind) /\ MaxFaults <= 1
  <2>1. Cardinality(faults) \in Nat /\ Cardinality(faults) < MaxFaults /\ MaxFaults \in Nat
    BY <1>2, FaultsAreFinite, FS_CardinalityType, CompletionAssumption DEF Fault
  <2>2. faults = {}
    BY <1>2, <2>1, FaultsAreFinite, FS_EmptySet
  <2>. QED  BY <1>2, <2>2 DEF Fault, NotBoth
<1>3. CASE Fault(kind) /\ ~(MaxFaults <= 1)
  BY <1>3 DEF Fault, NotBoth, Apart, TypeOK
<1>. QED  BY <1>1, <1>2, <1>3

\* Which faults a step may add.
LEMMA SomeFault ==
    ASSUME Next
    PROVE  NoFault \/ \E kind \in FaultKinds : Fault(kind)
<1>. USE DEF Fault, NoFault
<1>1. CASE Tasks
  BY <1>1 DEF Tasks, TaskCompletes, TaskFails, AutoRetry, RetryOrphaned, TaskCancelled
<1>2. CASE Planner
  BY <1>2 DEF Planner, Complete, FinalizesWith, StopsAfter, NotYet, RequestCancel,
       AddTask, AddRetryTask
<1>3. CASE \E n \in 0..AllWrites : CompleteDeferredPublish(n)
  BY <1>3 DEF CompleteDeferredPublish, FinalizesWith, StopsAfter, NotYet
<1>4. CASE ProcessCommandDeadLetters \/ AutoCompleteCancelledCommands
  BY <1>4 DEF ProcessCommandDeadLetters, AutoCompleteCancelledCommands, FinishInScan
<1>5. CASE \/ PhaseTransition \/ MergeToIntegration \/ MergeFails
           \/ PublishCollected \/ PublishBlocked \/ Cleanup
           \/ PublishDone \/ PublishFails \/ Quarantine \/ PublishReported
  BY <1>5 DEF PhaseTransition, MergeToIntegration, MergeFails, PublishCollected,
       PublishBlocked, Cleanup, PublishDone, PublishFails, Quarantine, PublishReported
<1>6. CASE \/ FastTrackCleanup \/ R3PlannerQueue \/ R4PlanStatus
           \/ (\E s \in Slots : R10PausedForReplan(s))
           \/ DeliveryUncertain \/ Dispatch \/ Crash
  BY <1>6 DEF FastTrackCleanup, R3PlannerQueue, R4PlanStatus, R10PausedForReplan,
       DeliveryUncertain, Dispatch, Crash
<1>. QED  BY <1>1, <1>2, <1>3, <1>4, <1>5, <1>6 DEF Next, Daemon

LEMMA NotBothStep ==
    ASSUME TypeOK, [Next]_vars, NEW k, k # "cut", Apart(k), NotBoth(k)
    PROVE  NotBoth(k)'
<1>1. CASE Next
  BY <1>1, SomeFault, ApartStep
<1>2. CASE UNCHANGED vars
  BY <1>2 DEF vars, NotBoth
<1>. QED  BY <1>1, <1>2

\* Unless a publish is quarantined, a completion ends the plan as its tasks did.
LEMMA OutcomeFollowsTasks ==
    ASSUME CompletionOutcome \in Final, integ # "quarantined",
           tasks' = CompletionTasks, phase' = CompletionPhase
    PROVE  CompletionOutcome = DeriveStatus(tasks)'
<1>1. CanComplete(CompletionTasks, CompletionPhase) \in Final
  BY CanCompleteMeaning DEF CompletionOutcome, Final
<1>2. CanComplete(CompletionTasks, CompletionPhase) = DeriveStatus(tasks')
  BY <1>1, CanCompleteMeaning
<1>3. PublishGuard \in Final => PublishGuard = "completed"
  BY DEF PublishGuard, Final
<1>. QED  BY <1>2, <1>3 DEF CompletionOutcome

\* A step that leaves the four files alone keeps the invariant.
LEMMA RowFrame ==
    ASSUME IInv, RowInv, UNCHANGED <<plan, intent>>,
           row' = row \/ (row' \notin Final /\ (row' = "pending" => "delivery" \in faults')),
           result # "none" => result' # "none",
           integ' = integ \/ integ' \notin {"publish_failed", "quarantined"}
             \/ "publish" \in faults',
           faults \subseteq faults', "cut" \in faults' => "cut" \in faults,
           Quiet' => Quiet, cancelReq => cancelReq',
           Quiet' /\ Ready /\ (result # "none" \/ intent # "none" \/ PlanTerminal) =>
              Ready' /\ DeriveStatus(tasks)' = DeriveStatus(tasks)
    PROVE  RowInv'
<1>. USE DEF RowInv
<1>1. IntentIsCut' /\ FailedPublish' /\ PendingIsUncertain'
  BY DEF IntentIsCut, FailedPublish, PendingIsUncertain
<1>2. Undisturbed' => Undisturbed /\ Quiet /\ Quiet'
  BY DEF Undisturbed
<1>3. Quiet /\ (result # "none" \/ intent # "none") => Ready
  BY DEF IInv, StartedIsReady
<1>4. PlanTerminal' = PlanTerminal
  BY DEF PlanTerminal
<1>5. IntentSpeaksForTasks'
  BY <1>2, <1>3 DEF IntentSpeaksForTasks, Agree
<1>6. PlanSpeaksForTasks'
  BY <1>2, <1>4 DEF PlanSpeaksForTasks, Agree
<1>7. RowFits'
  BY <1>2, <1>3, <1>4 DEF RowFits, Agree
<1>. QED  BY <1>1, <1>5, <1>6, <1>7

\* The same when tasks and phase are not touched at all.
LEMMA RowFrameTasks ==
    ASSUME IInv, RowInv, UNCHANGED <<plan, intent, tasks, phase, late>>,
           row' = row \/ (row' \notin Final /\ (row' = "pending" => "delivery" \in faults')),
           result # "none" => result' # "none",
           integ' = integ \/ integ' \notin {"publish_failed", "quarantined"}
             \/ "publish" \in faults',
           faults \subseteq faults', "cut" \in faults' => "cut" \in faults,
           cancelReq => cancelReq'
    PROVE  RowInv'
BY RowFrame DEF Quiet, Ready

LEMMA FinalizesRow ==
    ASSUME IInv, RowInv, NEW n \in 0..AllWrites, NEW lost \in BOOLEAN,
           FinalizesWith(n, lost), UNCHANGED <<integ, late, cancelReq>>,
           NotBoth("publish")'
    PROVE  RowInv'
<1>. USE DEF IInv, RowInv
<1>1. faults \subseteq faults' /\ (n # 5 => "cut" \in faults')
  BY DEF FinalizesWith, StopsAfter, AllWrites, NoFault, Fault
<1>2. Undisturbed' => Undisturbed /\ Quiet
  BY <1>1 DEF Quiet, Undisturbed
<1>3. n \in {0, 1, 2, 3, 4, 5}
  BY DEF AllWrites
<1>4. "cut" \in faults' => integ # "quarantined"
  BY <1>1 DEF NotBoth, FailedPublish
<1>5. FailedPublish'
  BY <1>1 DEF FailedPublish
<1>6. CASE intent = "none"
  <2> DEFINE O == CompletionOutcome
  <2>1. /\ ~PlanTerminal /\ O \in Final /\ CompleteSteps(O, n, lost)
        /\ tasks' = CompletionTasks /\ phase' = CompletionPhase
    BY <1>6 DEF FinalizesWith
  <2>2. /\ Ready'
        /\ O = "completed" => DeriveStatus(tasks)' = "completed"
    BY <2>1, OutcomeMeaning
  <2>3. "cut" \in faults' => O = DeriveStatus(tasks)'
    BY <1>4, <2>1, OutcomeFollowsTasks
  <2>. HIDE DEF O
  <2>4. "none" \notin Final /\ O # "none"
    BY <2>1 DEF Final
  <2>5. /\ intent' = IF n \in {0, 5} THEN "none" ELSE O
        /\ plan' = IF n \in {4, 5} THEN O ELSE plan
        /\ row' = row \/ (row' = O /\ n \in {3, 4, 5})
        /\ result' = result \/ result' = O
        /\ n \in {3, 4, 5} \/ result # "none" => result' # "none"
    BY <1>3, <1>6, <2>1, <2>4 DEF CompleteSteps
  <2>6. IntentIsCut'
    BY <1>1, <2>5 DEF IntentIsCut
  <2>7. PendingIsUncertain'
    BY <1>1, <2>1, <2>5 DEF PendingIsUncertain, Final
  <2>8. IntentSpeaksForTasks'
    BY <1>1, <2>3, <2>5 DEF IntentSpeaksForTasks, Agree
  <2>9. PlanTerminal' => n \in {4, 5} /\ plan' = O
    BY <2>1, <2>5 DEF PlanTerminal
  <2>10. PlanSpeaksForTasks'
    BY <2>2, <2>3, <2>9 DEF PlanSpeaksForTasks, Agree
  <2>11. RowFits'
    <3>1. SUFFICES ASSUME Undisturbed', row' \in Final
                   PROVE  IF PlanTerminal' THEN Agree(row', plan')
                          ELSE result' # "none" /\ Agree(row', DeriveStatus(tasks)')
      BY DEF RowFits, Agree
    <3>2. CASE row' = O /\ n \in {3, 4, 5}
      <4>1. CASE n = 3
        BY <1>1, <2>3, <2>5, <2>9, <3>2, <4>1 DEF Agree
      <4>2. CASE n \in {4, 5}
        <5>1. PlanTerminal' /\ plan' = O
          BY <2>1, <2>5, <4>2 DEF PlanTerminal
        <5>. QED  BY <3>2, <5>1 DEF Agree
      <4>. QED  BY <3>2, <4>1, <4>2
    <3>3. CASE row' = row
      <4>1. result # "none" /\ Agree(row, DeriveStatus(tasks)) /\ Ready
        BY <1>2, <2>1, <3>1, <3>3 DEF RowFits, StartedIsReady
      <4>2. tasks' = tasks
        BY <2>1, <4>1, ReadyUnchanged
      <4>3. DeriveStatus(tasks) # "completed"
        BY <1>2, <1>6, <2>1, <3>1, <4>1 DEF ResultFits
      <4>4. O # "completed" /\ row # "completed"
        BY <2>2, <4>1, <4>2, <4>3 DEF Agree
      <4>. QED  BY <2>5, <2>9, <3>3, <4>1, <4>2, <4>3, <4>4 DEF Agree
    <3>. QED  BY <2>5, <3>2, <3>3
  <2>. QED  BY <1>5, <2>6, <2>7, <2>8, <2>10, <2>11
<1>7. CASE intent # "none" /\ PlanTerminal /\ plan # intent
  <2>1. ReconcileSteps(n, lost) /\ UNCHANGED <<tasks, phase>>
    BY <1>7 DEF FinalizesWith
  <2>2. /\ plan' = plan /\ plan \in Final /\ "pending" \notin Final
        /\ row' \in {plan, row} /\ intent' \in {"none", intent}
    BY <1>3, <1>7, <2>1 DEF ReconcileSteps, PlanTerminal, Final
  <2>3. PlanTerminal' /\ Ready' = Ready /\ DeriveStatus(tasks)' = DeriveStatus(tasks)
    BY <2>1, <2>2 DEF PlanTerminal, Ready
  <2>4. IntentIsCut' /\ PendingIsUncertain'
    BY <1>1, <2>2 DEF IntentIsCut, PendingIsUncertain
  <2>5. IntentSpeaksForTasks'
    BY <1>2, <2>2, <2>3 DEF IntentSpeaksForTasks, Agree
  <2>6. PlanSpeaksForTasks'
    BY <1>2, <1>7, <2>2, <2>3 DEF PlanSpeaksForTasks, IntentIsCut, Agree
  <2>7. RowFits'
    BY <1>2, <1>7, <2>2, <2>3 DEF RowFits, Agree
  <2>. QED  BY <1>5, <2>4, <2>5, <2>6, <2>7
<1>8. CASE intent # "none" /\ ~(PlanTerminal /\ plan # intent)
  <2>1. CompleteSteps(intent, n, lost) /\ UNCHANGED <<tasks, phase>>
    BY <1>8 DEF FinalizesWith
  <2>2. intent \in Final /\ "none" \notin Final /\ "pending" \notin Final
    BY <1>8 DEF TypeOK, Final
  <2>3. /\ intent' \in {"none", intent}
        /\ plan' \in {plan, intent}
        /\ result # "none" => result' = result
        /\ row' = row \/ (row' = intent /\ result' # "none")
    BY <1>3, <2>1, <2>2 DEF CompleteSteps
  <2>4. Ready' = Ready /\ DeriveStatus(tasks)' = DeriveStatus(tasks)
    BY <2>1 DEF Ready
  <2>5. IntentIsCut' /\ PendingIsUncertain'
    BY <1>1, <1>8, <2>2, <2>3 DEF IntentIsCut, PendingIsUncertain
  <2>6. IntentSpeaksForTasks'
    BY <1>2, <2>3, <2>4 DEF IntentSpeaksForTasks, Agree
  <2>7. Undisturbed => Ready /\ Agree(intent, DeriveStatus(tasks))
    BY <1>8 DEF Undisturbed, StartedIsReady, IntentSpeaksForTasks
  <2>8. PlanTerminal => plan = intent
    BY <1>8
  <2>9. PlanTerminal' => plan' = intent
    BY <2>3, <2>8 DEF PlanTerminal
  <2>10. PlanSpeaksForTasks'
    BY <1>2, <2>4, <2>7, <2>9 DEF PlanSpeaksForTasks, Agree
  <2>11. RowFits'
    <3>1. SUFFICES ASSUME Undisturbed', row' \in Final
                   PROVE  IF PlanTerminal' THEN Agree(row', plan')
                          ELSE result' # "none" /\ Agree(row', DeriveStatus(tasks)')
      BY DEF RowFits, Agree
    <3>2. CASE row' = intent /\ result' # "none"
      BY <1>2, <2>4, <2>7, <2>9, <3>1, <3>2 DEF Agree
    <3>3. CASE row' = row /\ PlanTerminal
      BY <1>2, <2>2, <2>3, <2>8, <2>9, <3>1, <3>3 DEF RowFits, PlanTerminal, Agree
    <3>4. CASE row' = row /\ ~PlanTerminal
      <4>1. result # "none" /\ Agree(row, DeriveStatus(tasks))
        BY <1>2, <3>1, <3>4 DEF RowFits
      <4>. QED  BY <1>2, <2>3, <2>4, <2>7, <2>9, <3>1, <3>4, <4>1 DEF Agree
    <3>. QED  BY <2>3, <3>2, <3>3, <3>4
  <2>. QED  BY <1>5, <2>5, <2>6, <2>10, <2>11
<1>. QED  BY <1>6, <1>7, <1>8


LEMMA TasksRow ==
    ASSUME IInv, RowInv, NEW s \in Slots,
           \/ TaskCompletes(s) \/ TaskFails(s) \/ AutoRetry(s) \/ RetryOrphaned(s)
           \/ TaskCancelled(s) \/ R10PausedForReplan(s)
    PROVE  RowInv'
<1>1. TypeOK
  BY DEF IInv
<1>2. UNCHANGED <<plan, result, intent, row, phase, late, cancelReq>>
  BY DEF TaskCompletes, TaskFails, AutoRetry, RetryOrphaned, TaskCancelled,
         R10PausedForReplan, outVars, editVars
<1>3. faults \subseteq faults' /\ ("cut" \in faults' => "cut" \in faults)
  BY DEF TaskCompletes, TaskFails, AutoRetry, RetryOrphaned, TaskCancelled,
         R10PausedForReplan, Fault
<1>4. integ' = integ \/ integ' = "created"
  BY DEF TaskCompletes, TaskFails, AutoRetry, RetryOrphaned, TaskCancelled,
         R10PausedForReplan, WorkerChange, gitVars
<1>5. CASE AutoRetry(s)
  BY <1>2, <1>3, <1>4, <1>5, RowFrameTasks DEF AutoRetry
<1>6. ASSUME NEW v, v # "absent", tasks' = [tasks EXCEPT ![s] = v],
             tasks[s] \in {"open", "paused_for_replan"}
      PROVE  RowInv'
  <2>1. tasks[s] # "absent" /\ ~IsTerminal(tasks[s])
    BY <1>6 DEF IsTerminal, Final
  <2>2. Ready => Ready' /\ DeriveStatus(tasks)' = DeriveStatus(tasks)
    BY <1>1, <1>2, <1>6, <2>1, TaskChange
  <2>. QED  BY <1>2, <1>3, <1>4, <2>2, RowFrame DEF Quiet
<1>. QED
  BY <1>5, <1>6 DEF TaskCompletes, TaskFails, RetryOrphaned, TaskCancelled,
     R10PausedForReplan, SetTask

LEMMA NotYetRow ==
    ASSUME IInv, RowInv, NotYet, UNCHANGED <<integ, late, cancelReq>>
    PROVE  RowInv'
<1>1. UNCHANGED <<plan, result, intent, row, faults>>
  BY DEF NotYet, NoFault
<1>2. Ready => tasks' = tasks /\ phase' = phase
  BY ReadyUnchanged DEF NotYet
<1>3. Ready => Ready' /\ DeriveStatus(tasks)' = DeriveStatus(tasks)
  BY <1>2 DEF Ready
<1>. QED  BY <1>1, <1>3, RowFrame DEF Quiet

LEMMA PlannerRow ==
    ASSUME IInv, RowInv, Planner, NotBoth("publish")'
    PROVE  RowInv'
<1>1. ASSUME NEW n \in 0..AllWrites, Complete(n)
      PROVE  RowInv'
  <2>1. UNCHANGED <<integ, late, cancelReq>>
    BY <1>1 DEF Complete, gitVars, editVars
  <2>2. CASE FinalizesWith(n, FALSE)
    BY <2>1, <2>2, FinalizesRow
  <2>3. CASE NotYet
    BY <2>1, <2>3, NotYetRow
  <2>. QED  BY <1>1, <2>2, <2>3 DEF Complete
<1>2. CASE RequestCancel
  BY <1>2, RowFrameTasks DEF RequestCancel, taskVars, gitVars, outVars, editVars
<1>3. ASSUME NEW s \in Slots, AddTask(s) \/ AddRetryTask(s)
      PROVE  RowInv'
  <2>1. /\ UNCHANGED <<plan, result, intent, row, integ, cancelReq, faults>>
        /\ late' = (late \/ result # "none" \/ intent # "none")
        /\ ~PlanTerminal
    BY <1>3 DEF AddTask, AddRetryTask, Edit, outVars, gitVars, PlanTerminal, Final
  <2>2. Quiet' => Quiet /\ result = "none" /\ intent = "none"
    BY <2>1 DEF Quiet
  <2>. QED  BY <2>1, <2>2, RowFrame
<1>. QED  BY <1>1, <1>2, <1>3 DEF Planner

\* R3 copies a result that speaks for the plan or, before it ends, its tasks.
LEMMA R3Row ==
    ASSUME IInv, RowInv, R3PlannerQueue
    PROVE  RowInv'
<1>. USE DEF IInv, RowInv
<1>1. /\ UNCHANGED <<tasks, phase, integ, plan, intent, result, late, cancelReq, faults>>
      /\ row' = result /\ result # "none" /\ "pending" \notin Final
  BY DEF R3PlannerQueue, taskVars, gitVars, outVars, editVars, Final
<1>2. /\ Quiet' = Quiet /\ Undisturbed' = Undisturbed /\ PlanTerminal' = PlanTerminal
      /\ Ready' = Ready /\ DeriveStatus(tasks)' = DeriveStatus(tasks)
  BY <1>1 DEF Quiet, Undisturbed, PlanTerminal, Ready
<1>3. result \in Final
  BY <1>1 DEF TypeOK
<1>4. IntentIsCut' /\ FailedPublish' /\ PendingIsUncertain'
  BY <1>1, <1>3 DEF IntentIsCut, FailedPublish, PendingIsUncertain
<1>5. IntentSpeaksForTasks' /\ PlanSpeaksForTasks'
  BY <1>1, <1>2 DEF IntentSpeaksForTasks, PlanSpeaksForTasks, Agree
<1>6. RowFits'
  <2>1. SUFFICES ASSUME Undisturbed
                 PROVE  IF PlanTerminal THEN Agree(result, plan)
                        ELSE Agree(result, DeriveStatus(tasks))
    BY <1>1, <1>2 DEF RowFits, Agree
  <2>2. Quiet
    BY <2>1 DEF Undisturbed
  <2>3. CASE intent = "none"
    BY <1>1, <2>2, <2>3 DEF ResultFits, Agree
  <2>4. CASE intent # "none"
    <3>1. Agree(intent, DeriveStatus(tasks))
      BY <2>1, <2>4 DEF IntentSpeaksForTasks
    <3>2. PlanTerminal => Agree(plan, DeriveStatus(tasks))
      BY <2>1, <2>4 DEF IntentIsCut, PlanSpeaksForTasks
    <3>3. Agree(result, intent) \/ (PlanTerminal /\ Agree(result, plan))
      BY <1>1, <2>2, <2>4 DEF ResultFitsIntent
    <3>. QED  BY <3>1, <3>2, <3>3 DEF Agree
  <2>. QED  BY <2>3, <2>4
<1>. QED  BY <1>4, <1>5, <1>6

LEMMA R4Row ==
    ASSUME IInv, RowInv, R4PlanStatus
    PROVE  RowInv'
<1>. USE DEF IInv, RowInv
<1>1. /\ UNCHANGED <<tasks, phase, integ, intent, row, late, cancelReq, faults>>
      /\ result # "none" /\ ~PlanTerminal
  BY DEF R4PlanStatus, taskVars, gitVars, editVars
<1>2. /\ plan' = IF Ready THEN CanComplete(tasks, phase) ELSE plan
      /\ result' = IF Ready THEN result ELSE "none"
  BY DEF R4PlanStatus, Ready
<1>3. /\ Quiet' = Quiet /\ Undisturbed' = Undisturbed
      /\ Ready' = Ready /\ DeriveStatus(tasks)' = DeriveStatus(tasks)
  BY <1>1 DEF Quiet, Undisturbed, Ready
<1>4. Quiet => Ready
  BY <1>1 DEF StartedIsReady
<1>5. Ready => plan' = DeriveStatus(tasks) /\ PlanTerminal'
  BY <1>2, CanCompleteMeaning DEF Ready, PlanTerminal
<1>6. IntentIsCut' /\ FailedPublish' /\ PendingIsUncertain' /\ IntentSpeaksForTasks'
  BY <1>1, <1>3 DEF IntentIsCut, FailedPublish, PendingIsUncertain, IntentSpeaksForTasks, Agree
<1>7. Undisturbed => Ready
  BY <1>4 DEF Undisturbed
<1>8. PlanSpeaksForTasks'
  BY <1>3, <1>5, <1>7 DEF PlanSpeaksForTasks, Agree
<1>9. RowFits'
  BY <1>1, <1>3, <1>5, <1>7 DEF RowFits, Agree
<1>. QED  BY <1>6, <1>8, <1>9

\* The dead-letter processor takes the row away, and the cancel handler works
\* for a cancelled command.
LEMMA FinishRow ==
    ASSUME IInv, RowInv, NEW status, NEW rowStatus, FinishInScan(status, rowStatus),
           rowStatus \notin {"pending", "in_progress"}, UNCHANGED cancelReq,
           \/ cancelReq
           \/ /\ row = "pending" /\ rowStatus = "gone"
              /\ NotBoth("delivery")'
    PROVE  RowInv'
<1>. USE DEF IInv, RowInv
<1>1. /\ UNCHANGED <<tasks, phase, integ, intent, result, late>>
      /\ faults \subseteq faults' /\ ("cut" \in faults' => "cut" \in faults)
      /\ row' = row \/ row' = rowStatus
  BY DEF FinishInScan, NoFault, Fault, taskVars, gitVars, editVars
<1>2. Quiet' => Quiet
  BY <1>1 DEF Quiet
<1>3. Undisturbed' => Undisturbed /\ Quiet
  BY <1>2 DEF Undisturbed
<1>4. Ready' = Ready /\ DeriveStatus(tasks)' = DeriveStatus(tasks)
  BY <1>1 DEF Ready
<1>5. IntentIsCut' /\ FailedPublish' /\ PendingIsUncertain' /\ IntentSpeaksForTasks'
  BY <1>1, <1>3, <1>4
     DEF IntentIsCut, FailedPublish, PendingIsUncertain, IntentSpeaksForTasks, Agree
<1>6. CASE cancelReq
  BY <1>5, <1>6 DEF PlanSpeaksForTasks, RowFits, Undisturbed
<1>7. CASE row = "pending" /\ rowStatus = "gone" /\ NotBoth("delivery")'
  <2>1. "cut" \notin faults' /\ row' \notin Final
    BY <1>1, <1>7 DEF PendingIsUncertain, NotBoth, Final
  <2>. QED  BY <1>5, <2>1 DEF PlanSpeaksForTasks, RowFits
<1>. QED  BY <1>6, <1>7

LEMMA DaemonRow ==
    ASSUME IInv, RowInv, Daemon, NotBoth("publish")', NotBoth("delivery")'
    PROVE  RowInv'
<1>. USE DEF taskVars, gitVars, outVars, editVars
<1>1. ASSUME NEW n \in 0..AllWrites, CompleteDeferredPublish(n)
      PROVE  RowInv'
  <2>1. UNCHANGED <<integ, late, cancelReq>>
    BY <1>1 DEF CompleteDeferredPublish
  <2>2. ASSUME NEW lost \in BOOLEAN, FinalizesWith(n, lost) PROVE RowInv'
    BY <2>1, <2>2, FinalizesRow
  <2>3. CASE NotYet
    BY <2>1, <2>3, NotYetRow
  <2>4. CASE NoFault /\ UNCHANGED <<tasks, phase, row, plan, result, intent>>
    BY <2>1, <2>4, RowFrameTasks DEF NoFault
  <2>. QED  BY <1>1, <2>2, <2>3, <2>4 DEF CompleteDeferredPublish
<1>2. CASE PhaseTransition \/ FastTrackCleanup
  <2>1. /\ phase = "active" /\ UNCHANGED <<plan, result, intent, row, late, cancelReq>>
        /\ integ' = integ \/ integ' = "none"
        /\ faults \subseteq faults' /\ ("cut" \in faults' => "cut" \in faults)
    BY <1>2 DEF PhaseTransition, FastTrackCleanup, CleanupCommand, Fault
  <2>2. ~Ready
    BY <2>1, CanCompleteMeaning DEF Ready
  <2>. QED  BY <2>1, <2>2, RowFrame DEF Quiet
<1>3. CASE \/ MergeToIntegration \/ MergeFails
           \/ PublishCollected \/ Cleanup \/ PublishDone \/ PublishReported
  <2>1. UNCHANGED <<plan, result, intent, row, tasks, phase, late, cancelReq>>
    BY <1>3 DEF MergeToIntegration, MergeFails, PublishCollected, Cleanup,
         PublishDone, PublishReported
  <2>2. /\ integ' = integ \/ integ' \in {"merged", "failed", "published", "none"}
        /\ faults \subseteq faults' /\ ("cut" \in faults' => "cut" \in faults)
    BY <1>3 DEF MergeToIntegration, MergeFails, PublishCollected, Cleanup,
         CleanupCommand, PublishDone, PublishReported, Fault
  <2>. QED  BY <2>1, <2>2, RowFrameTasks
<1>4. CASE PublishFails \/ Quarantine
  <2>1. UNCHANGED <<plan, result, intent, row, tasks, phase, late, cancelReq>>
    BY <1>4 DEF PublishFails, Quarantine
  <2>2. /\ "publish" \in faults'
        /\ faults \subseteq faults' /\ ("cut" \in faults' => "cut" \in faults)
    BY <1>4 DEF PublishFails, Quarantine, Fault, RowInv, FailedPublish
  <2>. QED  BY <2>1, <2>2, RowFrameTasks
<1>5. CASE DeliveryUncertain \/ Dispatch \/ Crash
  <2>1. UNCHANGED <<plan, result, intent, tasks, phase, late, integ, cancelReq>>
    BY <1>5 DEF DeliveryUncertain, Dispatch, Crash
  <2>2. /\ row' = row \/ (row' \notin Final /\ (row' = "pending" => "delivery" \in faults'))
        /\ faults \subseteq faults' /\ ("cut" \in faults' => "cut" \in faults)
    BY <1>5 DEF DeliveryUncertain, Dispatch, Crash, Fault, Final
  <2>. QED  BY <2>1, <2>2, RowFrameTasks
<1>6. CASE PublishBlocked
  <2>1. /\ UNCHANGED <<plan, intent, row, tasks, phase, late, cancelReq, faults>>
        /\ integ' = integ \/ integ' = "none"
        /\ result # "none" => result' # "none"
    BY <1>6 DEF PublishBlocked, CleanupCommand
  <2>. QED  BY <2>1, RowFrameTasks
<1>7. CASE R3PlannerQueue
  BY <1>7, R3Row
<1>8. CASE R4PlanStatus
  BY <1>8, R4Row
<1>9. ASSUME NEW s \in Slots, R10PausedForReplan(s)
      PROVE  RowInv'
  BY <1>9, TasksRow
<1>10. CASE ProcessCommandDeadLetters
  <2>1. UNCHANGED cancelReq
    BY <1>10 DEF ProcessCommandDeadLetters, FinishInScan
  <2>. QED  BY <1>10, <2>1, FinishRow DEF ProcessCommandDeadLetters
<1>11. CASE AutoCompleteCancelledCommands
  <2>1. UNCHANGED cancelReq
    BY <1>11 DEF AutoCompleteCancelledCommands, FinishInScan
  <2>. QED  BY <1>11, <2>1, FinishRow DEF AutoCompleteCancelledCommands
<1>. QED
  BY <1>1, <1>2, <1>3, <1>4, <1>5, <1>6, <1>7, <1>8, <1>9, <1>10, <1>11 DEF Daemon

LEMMA RowStep ==
    ASSUME IInv, RowInv, [Next]_vars, NotBoth("publish")', NotBoth("delivery")'
    PROVE  RowInv'
<1>1. CASE Tasks
  BY <1>1, TasksRow DEF Tasks
<1>2. CASE Planner
  BY <1>2, PlannerRow
<1>3. CASE Daemon
  BY <1>3, DaemonRow
<1>4. CASE UNCHANGED vars
  BY <1>4, RowFrameTasks DEF vars, taskVars, gitVars, outVars, editVars
<1>. QED  BY <1>1, <1>2, <1>3, <1>4 DEF Next

LEMMA RowInit == Init => RowInv /\ \A k : NotBoth(k)
<1>. SUFFICES ASSUME Init PROVE RowInv /\ \A k : NotBoth(k)
  OBVIOUS
<1>1. /\ integ \in {"created", "none"} /\ plan = "sealed" /\ intent = "none"
      /\ row = "in_progress" /\ faults = {}
  BY DEF Init
<1>. QED
  BY <1>1 DEF RowInv, IntentIsCut, FailedPublish, PendingIsUncertain,
     IntentSpeaksForTasks, PlanSpeaksForTasks, RowFits, PlanTerminal, NotBoth, Final

\* The command's row in the planner queue agrees with plan_status on success
\* as soon as a completion is over, wherever it was interrupted: if no more than
\* one thing goes wrong, and for any number of faults if no completion is
\* interrupted, or no publish and no delivery fails.
THEOREM RowFollowsOutcome ==
    ASSUME Apart("publish"), Apart("delivery")
    PROVE  Spec => []RowAgrees
<1> DEFINE Inv == IInv /\ RowInv /\ NotBoth("publish") /\ NotBoth("delivery")
<1>1. Init => Inv
  BY IInvInit, RowInit
<1>2. Inv /\ [Next]_vars => Inv'
  <2>. SUFFICES ASSUME Inv, [Next]_vars PROVE Inv'
    OBVIOUS
  <2>1. NotBoth("publish")' /\ NotBoth("delivery")'
    BY NotBothStep DEF IInv
  <2>. QED  BY <2>1, IInvStep, RowStep
<1>3. Inv => RowAgrees
  <2>. SUFFICES ASSUME Inv PROVE RowAgrees
    OBVIOUS
  <2>1. Settled /\ ~cancelReq => Undisturbed /\ PlanTerminal
    BY DEF Settled, Undisturbed, Quiet
  <2>. QED  BY <2>1 DEF RowInv, RowFits, RowAgrees, Agree
<1>. QED  BY <1>1, <1>2, <1>3, PTL DEF Spec


----------------------------------------------------------------------------
(* A completed plan is delivered.                                          *)

\* A plan with a phase, neither edited nor given up by the stall cleanup.
Plain == phase # "none" /\ edits = 0 /\ "stall" \notin faults
Abandoned == plan \in {"failed", "cancelled"}
Delivered == phase = "completed" /\ work \in {"none", "base"}

\* Where changes can be for each integration status.
WorkIsPlaced ==
    /\ ~worktree => work = "none" /\ integ = "none" /\ scan = "idle"
    /\ integ = "failed" => work = "worker"
    /\ work = "integration" =>
          integ \in {"merged", "publish_failed", "quarantined"}

\* Whatever ends the command does so when the phase is over, or abandons it.
EndsAfterPhase ==
    Plain /\ phase = "active" =>
        /\ intent = "none" /\ result = "none" /\ scan = "idle"
        /\ Abandoned \/ (row \notin Final /\ ~PlanTerminal)

\* Before that nothing is cleaned up, and after its merge no worker is left.
ActiveKeepsWork ==
    Plain /\ phase = "active" /\ ~Abandoned =>
        /\ work \in {"none", "worker", "integration"}
        /\ worktree => integ # "none"
        /\ merged => /\ work # "worker"
                     /\ \A s \in Present(tasks) : IsTerminal(tasks[s])

\* A phase tells whether the required tasks succeeded, and a completed one has
\* handed in all work.
FailedPhase ==
    Plain /\ phase \in {"failed", "cancelled"} =>
        SomeRequired(tasks, "failed") \/ SomeRequired(tasks, "cancelled")
CompletedPhase ==
    Plain /\ phase = "completed" =>
        /\ \A s \in Present(tasks) : tasks[s] \in Final
        /\ DeriveStatus(tasks) = "completed"
        /\ intent \in {"none", "completed"}
        /\ ~Abandoned => work \in {"none", "integration", "base"}

\* The publish gate reports no failure of a completed phase, so R4 has nothing
\* to complete that was not published.
CompletedResult ==
    Plain /\ phase = "completed" /\ ~Abandoned /\ result # "none" => Delivered
CompletedPlan ==
    Plain /\ (plan = "completed" \/ intent = "completed") => Delivered

DeliveryInv ==
    /\ IntentIsCut /\ FailedPublish
    /\ WorkIsPlaced /\ EndsAfterPhase /\ ActiveKeepsWork
    /\ FailedPhase /\ CompletedPhase /\ CompletedResult /\ CompletedPlan

\* Edits and the stall cleanup put a plan out of consideration.
LEMMA PlainBefore ==
    ASSUME TypeOK, Plain', edits' = edits, faults \subseteq faults',
           phase # "none" \/ phase' = phase
    PROVE  Plain
BY DEF Plain

LEMMA NotPlain ==
    ASSUME ~Plain', IntentIsCut', FailedPublish', WorkIsPlaced'
    PROVE  DeliveryInv'
BY DEF DeliveryInv, EndsAfterPhase, ActiveKeepsWork, FailedPhase, CompletedPhase,
   CompletedResult, CompletedPlan

\* Terminal tasks are neither open nor paused: completing does not touch them.
LEMMA TerminalUnchanged ==
    ASSUME \A s \in Present(tasks) : IsTerminal(tasks[s])
    PROVE  /\ CompletionTasks = tasks /\ CompletionPhase = phase
           /\ \A s \in Slots : tasks[s] \notin {"open", "paused_for_replan"}
<1>1. \A s \in Slots : tasks[s] \notin {"open", "paused_for_replan"}
  BY DEF Present, IsTerminal, Final
<1>2. Paused(tasks) = {}
  BY <1>1 DEF Paused, RequiredIDs, Present
<1>. QED
  BY <1>1, <1>2 DEF CompletionTasks, CompletionPhase, AutoCancelPaused, AutoCancelBlocking

\* In a completed phase, and in an active one whose work was merged, all
\* tasks are terminal.
LEMMA NothingOpen ==
    ASSUME DeliveryInv, Plain,
           phase = "completed" \/ (phase = "active" /\ ~Abandoned /\ merged)
    PROVE  \A s \in Present(tasks) : IsTerminal(tasks[s])
BY DEF DeliveryInv, CompletedPhase, ActiveKeepsWork, IsTerminal

\* What is delivered stays so: the worktrees are not used any more.
LEMMA TasksDelivery ==
    ASSUME TypeOK, DeliveryInv, NEW s \in Slots,
           \/ TaskCompletes(s) \/ TaskFails(s) \/ RetryOrphaned(s)
           \/ TaskCancelled(s) \/ R10PausedForReplan(s)
    PROVE  DeliveryInv'
<1>. USE DEF DeliveryInv
<1>1. /\ UNCHANGED <<plan, result, intent, row, phase, merged, scan, worktree, edits>>
      /\ faults \subseteq faults'
  BY DEF TaskCompletes, TaskFails, RetryOrphaned, TaskCancelled,
         R10PausedForReplan, outVars, editVars, WorkerChange, gitVars, Fault
<1>2. \/ UNCHANGED <<integ, work>>
      \/ /\ worktree /\ work' = "worker" /\ tasks[s] = "open"
         /\ integ' = IF integ = "none" THEN "created" ELSE integ
  BY DEF TaskCompletes, TaskFails, RetryOrphaned, TaskCancelled,
         R10PausedForReplan, WorkerChange, gitVars
<1>3. PICK v : /\ v # "absent" /\ tasks' = [tasks EXCEPT ![s] = v]
               /\ tasks[s] \in {"open", "paused_for_replan"}
  BY DEF TaskCompletes, TaskFails, RetryOrphaned, TaskCancelled,
         R10PausedForReplan, SetTask
<1>4. IntentIsCut' /\ FailedPublish'
  BY <1>1, <1>2 DEF IntentIsCut, FailedPublish
<1>5. WorkIsPlaced'
  BY <1>1, <1>2 DEF WorkIsPlaced
<1>6. SUFFICES ASSUME Plain' PROVE DeliveryInv'
  BY <1>4, <1>5, NotPlain
<1>7. Plain
  BY <1>1, <1>6, PlainBefore
<1>8. phase # "completed" /\ (phase = "active" /\ ~Abandoned => ~merged)
  BY <1>3, <1>7, NothingOpen, TerminalUnchanged
<1>9. EndsAfterPhase'
  BY <1>1, <1>7 DEF EndsAfterPhase, Abandoned, PlanTerminal
<1>10. ActiveKeepsWork'
  BY <1>1, <1>2, <1>7, <1>8 DEF ActiveKeepsWork, Abandoned
<1>11. FailedPhase'
  <2>1. \A r \in Required, w \in {"failed", "cancelled"} :
            r \in Present(tasks) /\ tasks[r] = w => r \in Present(tasks)' /\ tasks'[r] = w
    BY <1>3 DEF Present, TypeOK
  <2>. QED  BY <1>1, <1>7, <2>1 DEF FailedPhase, SomeRequired, RequiredIDs
<1>12. CompletedPhase' /\ CompletedResult' /\ CompletedPlan'
  BY <1>1, <1>7, <1>8 DEF CompletedPhase, CompletedResult, CompletedPlan, Delivered
<1>. QED  BY <1>4, <1>5, <1>9, <1>10, <1>11, <1>12

\* Steps of the row, the scan and the integration branch.  Work that is handed
\* in is neither dropped nor taken back.
LEMMA DeliveryFrame ==
    ASSUME DeliveryInv, UNCHANGED <<tasks, phase, plan, intent, edits>>,
           faults \subseteq faults', IntentIsCut', FailedPublish', WorkIsPlaced',
           \/ result' = result
           \/ Plain => \/ phase \in {"failed", "cancelled"}
                       \/ phase = "completed" /\ Abandoned,
           scan' = "idle" \/ (Plain => phase # "active"),
           row' \in Final => row \in Final \/ result # "none" \/ Abandoned,
           Plain /\ phase = "completed" /\ work \in {"none", "base"} => work' = work,
           Plain /\ phase = "completed" /\ ~Abandoned /\ work = "integration"
              => work' \in {"integration", "base"},
           Plain /\ phase = "active" /\ ~Abandoned =>
              /\ work' \in {"none", "worker", "integration"}
              /\ worktree' => integ' # "none"
              /\ merged' => /\ work' # "worker"
                            /\ \A s \in Present(tasks) : IsTerminal(tasks[s])
    PROVE  DeliveryInv'
<1>. USE DEF DeliveryInv
<1>1. SUFFICES ASSUME Plain' PROVE DeliveryInv'
  BY NotPlain
<1>2. Plain
  BY <1>1 DEF Plain
<1>3. Abandoned' = Abandoned /\ PlanTerminal' = PlanTerminal
  BY DEF Abandoned, PlanTerminal
<1>4. EndsAfterPhase'
  BY <1>2, <1>3 DEF EndsAfterPhase
<1>5. ActiveKeepsWork'
  BY <1>2, <1>3 DEF ActiveKeepsWork
<1>6. FailedPhase'
  BY <1>2 DEF FailedPhase
<1>7. CompletedPhase'
  BY <1>2, <1>3 DEF CompletedPhase
<1>8. CompletedResult'
  BY <1>2, <1>3 DEF CompletedResult, Delivered
<1>9. CompletedPlan'
  BY <1>2 DEF CompletedPlan, Delivered
<1>. QED  BY <1>4, <1>5, <1>6, <1>7, <1>8, <1>9

LEMMA RowDelivery ==
    ASSUME DeliveryInv,
           \/ \E s \in Slots : AutoRetry(s)
           \/ RequestCancel \/ R3PlannerQueue \/ DeliveryUncertain \/ Dispatch \/ Crash
           \/ PublishCollected \/ PublishReported
    PROVE  DeliveryInv'
<1>. USE DEF taskVars, gitVars, outVars, editVars
<1>1. /\ UNCHANGED <<tasks, phase, plan, intent, result, edits, merged, integ, work, worktree>>
      /\ faults \subseteq faults'
  BY DEF AutoRetry, RequestCancel, R3PlannerQueue, DeliveryUncertain, Dispatch, Crash,
     PublishCollected, PublishReported, Fault
<1>2. row' \in Final => row \in Final \/ result # "none"
  BY DEF AutoRetry, RequestCancel, R3PlannerQueue, DeliveryUncertain, Dispatch, Crash,
     PublishCollected, PublishReported, Final
<1>3. \/ scan' = scan \/ scan' = "idle"
      \/ /\ phase \notin {"none", "active"} \/ phase = "none"
         /\ integ # "none"
  BY DEF AutoRetry, RequestCancel, R3PlannerQueue, DeliveryUncertain, Dispatch, Crash,
     PublishCollected, PublishReported, PublishGate, Final
<1>4. IntentIsCut' /\ FailedPublish'
  BY <1>1 DEF DeliveryInv, IntentIsCut, FailedPublish
<1>5. WorkIsPlaced'
  BY <1>1, <1>3 DEF DeliveryInv, WorkIsPlaced
<1>6. Plain /\ phase = "active" => scan' = "idle"
  BY <1>3 DEF DeliveryInv, EndsAfterPhase
<1>7. Plain /\ phase = "active" /\ ~Abandoned =>
        /\ work \in {"none", "worker", "integration"}
        /\ worktree => integ # "none"
        /\ merged => /\ work # "worker"
                     /\ \A s \in Present(tasks) : IsTerminal(tasks[s])
  BY DEF DeliveryInv, ActiveKeepsWork
<1>. QED  BY <1>1, <1>2, <1>4, <1>5, <1>6, <1>7, DeliveryFrame

LEMMA GitDelivery ==
    ASSUME TypeOK, DeliveryInv,
           \/ MergeToIntegration \/ MergeFails \/ Cleanup \/ PublishDone
           \/ PublishFails \/ Quarantine \/ PublishBlocked
    PROVE  DeliveryInv'
<1>. USE DEF taskVars, gitVars, outVars, editVars, CleanupCommand
<1>1. /\ UNCHANGED <<tasks, phase, plan, intent, row, edits, worktree>>
      /\ faults \subseteq faults'
  BY DEF MergeToIntegration, MergeFails, Cleanup, PublishDone, PublishFails,
     Quarantine, PublishBlocked, Fault
<1>2. FailedPublish'
  BY DEF MergeToIntegration, MergeFails, Cleanup, PublishDone, PublishFails,
     Quarantine, PublishBlocked, Fault, DeliveryInv, FailedPublish
<1>3. IntentIsCut'
  BY <1>1 DEF DeliveryInv, IntentIsCut
<1>4. WorkIsPlaced'
  BY DEF MergeToIntegration, Mergeable, MergeFails, Cleanup, PublishDone, PublishFails,
     Quarantine, PublishBlocked, PublishGate, DeliveryInv, WorkIsPlaced
<1>5. ASSUME Plain, phase = "active"
      PROVE  scan' = "idle" /\ result' = result
  BY <1>5 DEF MergeToIntegration, MergeFails, Cleanup, PublishDone, PublishFails,
     Quarantine, PublishBlocked, PublishGate, DeliveryInv, EndsAfterPhase, Final
<1>6. ASSUME Plain, phase = "completed", ~Abandoned
      PROVE  ~PublishBlocked
  <2>1. integ # "failed"
    BY <1>6 DEF DeliveryInv, WorkIsPlaced, CompletedPhase
  <2>. QED  BY <1>6, <2>1 DEF PublishBlocked, GateBlocks
<1>7. ASSUME Plain, phase = "completed"
      PROVE  result' = result \/ Abandoned
  BY <1>6, <1>7 DEF MergeToIntegration, MergeFails, Cleanup, PublishDone, PublishFails,
     Quarantine
<1>8. ASSUME Plain, phase = "completed", work \in {"none", "base"}
      PROVE  work' = work
  BY <1>8 DEF MergeToIntegration, MergeFails, Cleanup, PublishDone, PublishFails,
     Quarantine, PublishBlocked
<1>9. ASSUME Plain, phase = "completed", ~Abandoned, work = "integration"
      PROVE  work' \in {"integration", "base"}
  <2>1. integ \in {"merged", "publish_failed", "quarantined"}
    BY <1>9 DEF DeliveryInv, WorkIsPlaced
  <2>. QED
    BY <1>6, <1>9, <2>1 DEF MergeToIntegration, MergeFails, Cleanup, PublishDone,
       PublishFails, Quarantine
<1>10. ASSUME Plain, phase = "active", ~Abandoned
       PROVE  /\ work' \in {"none", "worker", "integration"}
              /\ worktree' => integ' # "none"
              /\ merged' => /\ work' # "worker"
                            /\ \A s \in Present(tasks) : IsTerminal(tasks[s])
  <2>1. /\ scan = "idle" /\ row \notin Final
        /\ work \in {"none", "worker", "integration"}
        /\ worktree => integ # "none"
        /\ merged => /\ work # "worker"
                     /\ \A s \in Present(tasks) : IsTerminal(tasks[s])
        /\ integ = "failed" => work = "worker"
    BY <1>10 DEF DeliveryInv, EndsAfterPhase, ActiveKeepsWork, WorkIsPlaced
  <2>2. ~PublishGate /\ ~PublishDone /\ ~PublishFails
    BY <1>10, <2>1 DEF PublishGate, PublishDone, PublishFails, Final
  <2>3. CASE MergeToIntegration
    BY <1>10, <2>1, <2>3 DEF MergeToIntegration, Mergeable
  <2>4. CASE MergeFails
    BY <1>10, <2>1, <2>4 DEF MergeFails, Mergeable
  <2>5. CASE Quarantine
    BY <2>1, <2>5 DEF Quarantine
  <2>. QED  BY <2>1, <2>2, <2>3, <2>4, <2>5 DEF Cleanup, PublishBlocked
<1>11. \/ result' = result
       \/ Plain => \/ phase \in {"failed", "cancelled"}
                   \/ phase = "completed" /\ Abandoned
  BY <1>5, <1>7 DEF Plain, TypeOK, Final
<1>. QED  BY <1>1, <1>2, <1>3, <1>4, <1>5, <1>8, <1>9, <1>10, <1>11, DeliveryFrame


\* A phase is over when the dependency resolver says so, and completed only
\* with all its work merged.
LEMMA PhaseDelivery ==
    ASSUME TypeOK, DeliveryInv, PhaseTransition
    PROVE  DeliveryInv'
<1>. USE DEF DeliveryInv
<1>1. /\ UNCHANGED <<tasks, gitVars, worktree, scan, row, plan, result, intent, edits, faults>>
      /\ phase = "active" /\ phase' = PhaseOutcome /\ PhaseOutcome # "active"
      /\ PhaseOutcome = "completed" => MergeRecorded
  BY DEF PhaseTransition, taskVars, outVars, editVars
<1>2. IntentIsCut' /\ FailedPublish' /\ WorkIsPlaced'
  BY <1>1 DEF IntentIsCut, FailedPublish, WorkIsPlaced, gitVars
<1>3. SUFFICES ASSUME Plain' PROVE DeliveryInv'
  BY <1>2, NotPlain
<1>4. Plain
  BY <1>1, <1>3 DEF Plain
<1>5. PhaseOutcome = DeriveStatus(tasks)
  BY <1>1 DEF PhaseOutcome
<1>6. EndsAfterPhase' /\ ActiveKeepsWork'
  BY <1>1 DEF EndsAfterPhase, ActiveKeepsWork
<1>7. FailedPhase'
  BY <1>1, <1>5 DEF FailedPhase, DeriveStatus
<1>8. intent = "none" /\ result = "none" /\ (Abandoned \/ ~PlanTerminal)
  BY <1>1, <1>4 DEF EndsAfterPhase
<1>9. CompletedPhase'
  <2>1. SUFFICES ASSUME PhaseOutcome = "completed"
                 PROVE  /\ \A s \in Present(tasks) : tasks[s] \in Final
                        /\ ~Abandoned => work \in {"none", "integration", "base"}
    BY <1>1, <1>5, <1>8 DEF CompletedPhase, gitVars, Abandoned
  <2>2. \A s \in Present(tasks) : tasks[s] \in Final
    BY <1>1, <2>1 DEF PhaseOutcome, DeriveStatus
  <2>3. ~Abandoned => work \in {"none", "integration", "base"}
    BY <1>1, <1>4, <2>1 DEF MergeRecorded, ActiveKeepsWork, WorkIsPlaced
  <2>. QED  BY <2>2, <2>3
<1>10. CompletedResult' /\ CompletedPlan'
  BY <1>1, <1>8 DEF CompletedResult, CompletedPlan, Abandoned, PlanTerminal, Final
<1>. QED  BY <1>2, <1>6, <1>7, <1>9, <1>10

\* A plan ends without success, or with the status of a delivered phase.
LEMMA PlanDelivery ==
    ASSUME TypeOK, DeliveryInv,
           \/ R4PlanStatus
           \/ \E status \in {"failed", "cancelled"}, rowStatus \in CommandRow :
                  FinishInScan(status, rowStatus)
    PROVE  DeliveryInv'
<1>. USE DEF DeliveryInv
<1>1. /\ UNCHANGED <<tasks, phase, gitVars, worktree, scan, intent, edits>>
      /\ faults \subseteq faults'
  BY DEF R4PlanStatus, FinishInScan, NoFault, Fault, taskVars, editVars
<1>2. IntentIsCut' /\ FailedPublish' /\ WorkIsPlaced'
  BY <1>1 DEF IntentIsCut, FailedPublish, WorkIsPlaced, gitVars
<1>3. SUFFICES ASSUME Plain' PROVE DeliveryInv'
  BY <1>2, NotPlain
<1>4. Plain /\ FailedPhase' /\ phase \in Final \cup {"active"}
  BY <1>1, <1>3 DEF Plain, FailedPhase, TypeOK
<1>5. CASE R4PlanStatus
  <2>1. /\ row' = row /\ result # "none" /\ ~PlanTerminal /\ ~Abandoned
        /\ result' # "none" => result' = result
        /\ plan' = (IF Ready THEN CanComplete(tasks, phase) ELSE plan)
    BY <1>5 DEF R4PlanStatus, Ready, PlanTerminal, Abandoned, Final
  <2>2. phase # "active"
    BY <1>4, <2>1 DEF EndsAfterPhase
  <2>3. phase = "completed" => Delivered
    BY <1>4, <2>1 DEF CompletedResult
  <2>4. plan' = "completed" => phase = "completed"
    <3>1. SUFFICES ASSUME Ready, DeriveStatus(tasks) = "completed" PROVE phase = "completed"
      BY <2>1, CanCompleteMeaning DEF Ready, PlanTerminal, Final
    <3>2. ~SomeRequired(tasks, "failed") /\ ~SomeRequired(tasks, "cancelled")
      BY <3>1 DEF DeriveStatus
    <3>. QED  BY <1>4, <2>2, <3>2 DEF FailedPhase, Final
  <2>5. EndsAfterPhase' /\ ActiveKeepsWork'
    BY <1>1, <2>2 DEF EndsAfterPhase, ActiveKeepsWork
  <2>6. CompletedPhase'
    BY <1>1, <1>4, <2>1 DEF CompletedPhase, gitVars
  <2>7. CompletedResult' /\ CompletedPlan'
    BY <1>1, <1>4, <2>3, <2>4 DEF CompletedResult, CompletedPlan, Delivered, gitVars
  <2>. QED  BY <1>2, <1>4, <2>5, <2>6, <2>7
<1>6. ASSUME NEW status \in {"failed", "cancelled"}, NEW rowStatus \in CommandRow,
             FinishInScan(status, rowStatus)
      PROVE  DeliveryInv'
  <2>1. /\ plan' = (IF PlanTerminal THEN plan ELSE status) /\ result' = result
    BY <1>6 DEF FinishInScan
  <2>2. Abandoned \/ plan = "completed" \/ Abandoned'
    BY <2>1 DEF Abandoned, PlanTerminal, Final
  <2>3. (Abandoned => Abandoned') /\ (plan' = "completed" => plan = "completed")
    BY <1>6, <2>1 DEF Abandoned, PlanTerminal, Final
  <2>4. phase = "active" => plan # "completed"
    BY <1>4 DEF CompletedPlan, Delivered
  <2>5. EndsAfterPhase'
    BY <1>1, <1>4, <2>1, <2>2, <2>3, <2>4 DEF EndsAfterPhase
  <2>6. ActiveKeepsWork'
    BY <1>1, <1>4, <2>2, <2>3, <2>4 DEF ActiveKeepsWork
  <2>7. CompletedPhase'
    BY <1>1, <1>4, <2>3 DEF CompletedPhase, gitVars
  <2>8. CompletedResult' /\ CompletedPlan'
    BY <1>1, <1>4, <2>1, <2>3 DEF CompletedResult, CompletedPlan, Delivered, gitVars
  <2>. QED  BY <1>2, <1>4, <2>5, <2>6, <2>7, <2>8
<1>. QED  BY <1>5, <1>6

\* When Complete looks at the tasks of a plan it may cancel paused ones and
\* thereby end the phase, without success.
LEMMA CompletionPhaseMeaning ==
    ASSUME TypeOK, DeliveryInv, Plain, tasks' = CompletionTasks,
           phase' = CompletionPhase, Plain'
    PROVE  /\ FailedPhase'
           /\ phase' = "completed" => phase = "completed" /\ tasks' = tasks
           /\ phase = "completed" => phase' = phase /\ tasks' = tasks
           /\ phase' = "active" =>
                 phase = "active" /\ (merged /\ ~Abandoned => tasks' = tasks)
<1>. USE DEF DeliveryInv
<1>0. phase \in Final \cup {"active"}
  BY DEF TypeOK, Plain
<1>1. phase = "completed" => phase' = phase /\ tasks' = tasks
  BY NothingOpen, TerminalUnchanged
<1>2. phase = "active" /\ merged /\ ~Abandoned => tasks' = tasks
  BY NothingOpen, TerminalUnchanged
<1>3. CASE AutoCancelBlocking(tasks)
  <2>1. PICK p \in Paused(tasks) : TRUE
    BY <1>3 DEF AutoCancelBlocking
  <2>2. p \in RequiredIDs(tasks) /\ p \in Slots /\ tasks'[p] = "cancelled"
    BY <1>3, <2>1 DEF CompletionTasks, AutoCancelPaused, Paused, RequiredIDs, Present
  <2>3. SomeRequired(tasks', "cancelled")
    BY <2>2 DEF SomeRequired, RequiredIDs, Present
  <2>4. DeriveStatus(tasks') \in {"failed", "cancelled"}
    BY <2>3 DEF DeriveStatus
  <2>5. phase' = phase \/ (phase = "active" /\ phase' \in {"failed", "cancelled"})
    BY <1>3, <2>4 DEF CompletionPhase, AdvancePhase
  <2>6. FailedPhase'
    BY <2>3 DEF FailedPhase
  <2>. QED  BY <1>0, <1>1, <1>2, <2>5, <2>6 DEF Final
<1>4. CASE ~AutoCancelBlocking(tasks)
  <2>1. tasks' = tasks /\ phase' = phase
    BY <1>4 DEF CompletionTasks, CompletionPhase, AutoCancelPaused
  <2>2. FailedPhase'
    BY <2>1 DEF FailedPhase
  <2>. QED  BY <2>1, <2>2
<1>. QED  BY <1>3, <1>4

\* Complete succeeds in a phase whose work is on the base branch, and fails in
\* a completed one only if its publish was quarantined.
LEMMA OutcomeDelivered ==
    ASSUME TypeOK, DeliveryInv, Plain, ~PlanTerminal, CompletionOutcome \in Final,
           tasks' = CompletionTasks, phase' = CompletionPhase, FailedPhase',
           phase' = "completed" => phase = "completed" /\ tasks' = tasks, Plain'
    PROVE  /\ phase' # "active"
           /\ CompletionOutcome = "completed" => phase' = "completed" /\ Delivered
           /\ phase' = "completed" =>
                 CompletionOutcome = "completed" \/ integ = "quarantined"
<1>. USE DEF DeliveryInv
<1>1. /\ Ready'
      /\ CompletionOutcome = "completed" => DeriveStatus(tasks)' = "completed"
  BY OutcomeMeaning
<1>2. phase' # "active" /\ phase' # "none"
  BY <1>1, CanCompleteMeaning DEF Ready, Plain
<1>3. phase' \in Final
  BY <1>2, CompletionTypes
<1>4. ASSUME CompletionOutcome = "completed"
      PROVE  phase' = "completed" /\ Delivered
  <2>1. ~SomeRequired(tasks', "failed") /\ ~SomeRequired(tasks', "cancelled")
    BY <1>1, <1>4 DEF DeriveStatus
  <2>2. phase' = "completed"
    BY <1>3, <2>1 DEF FailedPhase, Final
  <2>3. PublishGuard = "completed"
    BY <1>4 DEF CompletionOutcome
  <2>4. ~worktree \/ integ \in {"none", "created", "published"}
    BY <2>3 DEF PublishGuard
  <2>5. work \in {"none", "integration", "base"}
    BY <2>2 DEF CompletedPhase, Abandoned, PlanTerminal, Final
  <2>6. work # "integration"
    BY <2>4 DEF WorkIsPlaced
  <2>. QED  BY <2>2, <2>5, <2>6 DEF Delivered
<1>5. ASSUME phase' = "completed", integ # "quarantined"
      PROVE  CompletionOutcome = "completed"
  <2>1. DeriveStatus(tasks') = "completed"
    BY <1>5 DEF CompletedPhase
  <2>. QED  BY <1>5, <2>1, OutcomeFollowsTasks
<1>. QED  BY <1>2, <1>4, <1>5

LEMMA NotYetDelivery ==
    ASSUME TypeOK, DeliveryInv, NotYet, UNCHANGED <<gitVars, worktree, edits>>,
           scan' = scan \/ scan' = "idle"
    PROVE  DeliveryInv'
<1>. USE DEF DeliveryInv
<1>1. /\ tasks' = CompletionTasks /\ phase' = CompletionPhase
      /\ UNCHANGED <<plan, result, intent, row, faults>> /\ intent = "none"
      /\ UNCHANGED <<integ, work, merged>>
  BY DEF NotYet, NoFault, gitVars
<1>2. IntentIsCut' /\ FailedPublish' /\ WorkIsPlaced'
  BY <1>1 DEF IntentIsCut, FailedPublish, WorkIsPlaced
<1>3. SUFFICES ASSUME Plain' PROVE DeliveryInv'
  BY <1>2, NotPlain
<1>4. phase = "none" => phase' = "none"
  BY <1>1 DEF CompletionPhase, AdvancePhase
<1>5. Plain
  BY <1>1, <1>3, <1>4 DEF Plain
<1>6. /\ FailedPhase'
      /\ phase' = "completed" => phase = "completed" /\ tasks' = tasks
      /\ phase = "completed" => phase' = phase /\ tasks' = tasks
      /\ phase' = "active" =>
            phase = "active" /\ (merged /\ ~Abandoned => tasks' = tasks)
  BY <1>1, <1>3, <1>5, CompletionPhaseMeaning
<1>7. Abandoned' = Abandoned /\ PlanTerminal' = PlanTerminal
  BY <1>1 DEF Abandoned, PlanTerminal
<1>8. EndsAfterPhase'
  BY <1>1, <1>5, <1>6, <1>7 DEF EndsAfterPhase
<1>9. ActiveKeepsWork'
  BY <1>1, <1>5, <1>6, <1>7 DEF ActiveKeepsWork
<1>10. CompletedPhase'
  BY <1>1, <1>5, <1>6, <1>7 DEF CompletedPhase
<1>11. CompletedResult' /\ CompletedPlan'
  BY <1>1, <1>5, <1>6, <1>7 DEF CompletedResult, CompletedPlan, Delivered
<1>. QED  BY <1>2, <1>6, <1>8, <1>9, <1>10, <1>11


LEMMA FinalizesDelivery ==
    ASSUME TypeOK, DeliveryInv, NEW n \in 0..AllWrites, NEW lost \in BOOLEAN,
           FinalizesWith(n, lost), UNCHANGED <<gitVars, worktree, edits>>,
           scan' = scan \/ scan' = "idle", NotBoth("publish")'
    PROVE  DeliveryInv'
<1>. USE DEF DeliveryInv
<1>1. /\ faults \subseteq faults' /\ (n # 5 => "cut" \in faults')
      /\ UNCHANGED <<integ, work, merged>>
  BY DEF FinalizesWith, StopsAfter, AllWrites, NoFault, Fault, gitVars
<1>2. n \in {0, 1, 2, 3, 4, 5}
  BY DEF AllWrites
<1>3. "cut" \in faults' => integ # "quarantined"
  BY <1>1 DEF NotBoth, FailedPublish
<1>4. FailedPublish' /\ WorkIsPlaced'
  BY <1>1 DEF FailedPublish, WorkIsPlaced
<1>5. CASE intent = "none"
  <2> DEFINE O == CompletionOutcome
  <2>1. /\ ~PlanTerminal /\ O \in Final /\ CompleteSteps(O, n, lost)
        /\ tasks' = CompletionTasks /\ phase' = CompletionPhase
    BY <1>5 DEF FinalizesWith
  <2>. HIDE DEF O
  <2>2. "none" \notin Final /\ O # "none" /\ ~Abandoned
    BY <2>1 DEF Final, Abandoned, PlanTerminal
  <2>3. /\ intent' = IF n \in {0, 5} THEN "none" ELSE O
        /\ plan' = IF n \in {4, 5} THEN O ELSE plan
        /\ result' = result \/ result' = O
    BY <1>2, <1>5, <2>1, <2>2 DEF CompleteSteps
  <2>4. IntentIsCut'
    BY <1>1, <2>3 DEF IntentIsCut
  <2>5. SUFFICES ASSUME Plain' PROVE DeliveryInv'
    BY <1>4, <2>4, NotPlain
  <2>6. phase = "none" => phase' = "none"
    BY <2>1 DEF CompletionPhase, AdvancePhase
  <2>7. Plain
    BY <1>1, <2>5, <2>6 DEF Plain
  <2>8. /\ FailedPhase'
        /\ phase' = "completed" => phase = "completed" /\ tasks' = tasks
        /\ phase = "completed" => phase' = phase /\ tasks' = tasks
    BY <1>1, <2>1, <2>5, <2>7, CompletionPhaseMeaning
  <2>9. /\ phase' # "active"
        /\ O = "completed" => phase' = "completed" /\ Delivered
        /\ phase' = "completed" => O = "completed" \/ integ = "quarantined"
    BY <2>1, <2>5, <2>7, <2>8, OutcomeDelivered DEF O
  <2>10. EndsAfterPhase' /\ ActiveKeepsWork'
    BY <2>9 DEF EndsAfterPhase, ActiveKeepsWork
  <2>11. phase' = "completed" /\ O # "completed" => n = 5 /\ Abandoned'
    <3>1. O # "completed" /\ n = 5 => Abandoned'
      BY <2>1, <2>3 DEF Abandoned, Final
    <3>. QED  BY <1>1, <1>3, <2>9, <3>1
  <2>12. Abandoned' \/ ~Abandoned
    BY <2>2
  <2>13. CompletedPhase'
    BY <1>1, <1>2, <2>2, <2>3, <2>7, <2>8, <2>11 DEF CompletedPhase
  <2>14. CompletedResult'
    BY <1>1, <2>2, <2>3, <2>7, <2>8, <2>9, <2>11 DEF CompletedResult, Delivered
  <2>15. CompletedPlan'
    <3>1. plan # "completed"
      BY <2>1 DEF PlanTerminal, Final
    <3>2. plan' = "completed" \/ intent' = "completed" => O = "completed"
      BY <2>3, <3>1
    <3>. QED  BY <1>1, <2>9, <3>2 DEF CompletedPlan, Delivered
  <2>. QED  BY <1>4, <2>4, <2>8, <2>10, <2>13, <2>14, <2>15
<1>6. CASE intent # "none"
  <2>1. UNCHANGED <<tasks, phase>>
    BY <1>6 DEF FinalizesWith
  <2>2. /\ intent' \in {"none", intent}
        /\ \/ PlanTerminal /\ plan # intent /\ plan' = plan
              /\ result' \in {plan, result}
              /\ row' \in {plan, row}
           \/ ~(PlanTerminal /\ plan # intent)
              /\ plan' \in {plan, intent}
              /\ result' \in {result, intent}
              /\ row' \in {row, intent}
    <3>1. CASE PlanTerminal /\ plan # intent
      BY <1>2, <1>6, <3>1 DEF FinalizesWith, ReconcileSteps
    <3>2. CASE ~(PlanTerminal /\ plan # intent)
      BY <1>2, <1>6, <3>2 DEF FinalizesWith, CompleteSteps
    <3>. QED  BY <3>1, <3>2
  <2>3. IntentIsCut'
    BY <1>1, <1>6, <2>2 DEF IntentIsCut
  <2>4. SUFFICES ASSUME Plain' PROVE DeliveryInv'
    BY <1>4, <2>3, NotPlain
  <2>5. Plain /\ phase # "active"
    BY <1>1, <1>6, <2>1, <2>4 DEF Plain, EndsAfterPhase
  <2>6. EndsAfterPhase' /\ ActiveKeepsWork' /\ FailedPhase'
    BY <2>1, <2>5 DEF EndsAfterPhase, ActiveKeepsWork, FailedPhase
  <2>7. phase = "completed" => intent = "completed" /\ Delivered
    BY <1>6, <2>5 DEF CompletedPhase, CompletedPlan
  <2>8. Delivered' = Delivered
    BY <1>1, <2>1 DEF Delivered
  <2>9. CompletedPhase'
    BY <1>1, <2>1, <2>2, <2>5, <2>7 DEF CompletedPhase, Delivered
  <2>10. CompletedResult'
    BY <2>1, <2>7, <2>8 DEF CompletedResult
  <2>11. CompletedPlan'
    BY <1>6, <2>2, <2>5, <2>8 DEF CompletedPlan
  <2>. QED  BY <1>4, <2>3, <2>6, <2>9, <2>10, <2>11
<1>. QED  BY <1>5, <1>6

LEMMA PlannerDelivery ==
    ASSUME TypeOK, DeliveryInv, Planner, NotBoth("publish")'
    PROVE  DeliveryInv'
<1>1. ASSUME NEW n \in 0..AllWrites, Complete(n)
      PROVE  DeliveryInv'
  <2>1. UNCHANGED <<gitVars, worktree, scan, edits>>
    BY <1>1 DEF Complete, editVars
  <2>2. CASE FinalizesWith(n, FALSE)
    BY <2>1, <2>2, FinalizesDelivery
  <2>3. CASE NotYet
    BY <2>1, <2>3, NotYetDelivery
  <2>. QED  BY <1>1, <2>2, <2>3 DEF Complete
<1>2. CASE RequestCancel
  BY <1>2, RowDelivery
<1>3. ASSUME NEW s \in Slots, AddTask(s) \/ AddRetryTask(s)
      PROVE  DeliveryInv'
  <2>1. /\ UNCHANGED <<gitVars, worktree, scan, intent, faults>>
        /\ edits' = edits + 1 /\ edits \in Nat
    BY <1>3, CompletionAssumption DEF AddTask, AddRetryTask, Edit, outVars, TypeOK
  <2>2. ~Plain'
    BY <2>1 DEF Plain
  <2>3. IntentIsCut' /\ FailedPublish' /\ WorkIsPlaced'
    BY <2>1 DEF DeliveryInv, IntentIsCut, FailedPublish, WorkIsPlaced, gitVars
  <2>. QED  BY <2>2, <2>3, NotPlain
<1>. QED  BY <1>1, <1>2, <1>3 DEF Planner

LEMMA DaemonDelivery ==
    ASSUME TypeOK, DeliveryInv, Daemon, NotBoth("publish")'
    PROVE  DeliveryInv'
<1>1. ASSUME NEW n \in 0..AllWrites, CompleteDeferredPublish(n)
      PROVE  DeliveryInv'
  <2>1. UNCHANGED <<gitVars, worktree, edits>> /\ scan' = "idle"
    BY <1>1 DEF CompleteDeferredPublish, editVars
  <2>2. ASSUME NEW lost \in BOOLEAN, FinalizesWith(n, lost) PROVE DeliveryInv'
    BY <2>1, <2>2, FinalizesDelivery
  <2>3. CASE NotYet
    BY <2>1, <2>3, NotYetDelivery
  <2>4. CASE NoFault /\ UNCHANGED <<tasks, phase, row, plan, result, intent>>
    <3>1. IntentIsCut' /\ FailedPublish' /\ WorkIsPlaced'
      BY <2>1, <2>4 DEF DeliveryInv, IntentIsCut, FailedPublish, WorkIsPlaced,
         NoFault, gitVars
    <3>2. Plain /\ phase = "active" /\ ~Abandoned =>
              /\ work \in {"none", "worker", "integration"}
              /\ worktree => integ # "none"
              /\ merged => /\ work # "worker"
                           /\ \A s \in Present(tasks) : IsTerminal(tasks[s])
      BY DEF DeliveryInv, ActiveKeepsWork
    <3>. QED  BY <2>1, <2>4, <3>1, <3>2, DeliveryFrame DEF NoFault, gitVars
  <2>. QED  BY <1>1, <2>2, <2>3, <2>4 DEF CompleteDeferredPublish
<1>2. CASE FastTrackCleanup
  <2>1. /\ UNCHANGED <<intent, worktree, scan>> /\ worktree /\ faults \subseteq faults'
        /\ integ' = "none" /\ "stall" \in faults'
        /\ work' = (IF work \in {"worker", "integration"} THEN "dropped" ELSE work)
    BY <1>2 DEF FastTrackCleanup, CleanupCommand, Fault, outVars
  <2>2. ~Plain' /\ IntentIsCut' /\ FailedPublish' /\ WorkIsPlaced'
    BY <2>1 DEF Plain, DeliveryInv, IntentIsCut, FailedPublish, WorkIsPlaced
  <2>. QED  BY <2>2, NotPlain
<1>3. ASSUME NEW s \in Slots, R10PausedForReplan(s)
      PROVE  DeliveryInv'
  BY <1>3, TasksDelivery
<1>4. CASE ProcessCommandDeadLetters \/ AutoCompleteCancelledCommands
  BY <1>4, PlanDelivery DEF ProcessCommandDeadLetters, AutoCompleteCancelledCommands,
     CommandRow, Final
<1>. QED
  BY <1>1, <1>2, <1>3, <1>4, PhaseDelivery, GitDelivery, RowDelivery, PlanDelivery DEF Daemon

LEMMA DeliveryStep ==
    ASSUME TypeOK, DeliveryInv, [Next]_vars, NotBoth("publish")'
    PROVE  DeliveryInv'
<1>1. CASE Tasks
  BY <1>1, TasksDelivery, RowDelivery DEF Tasks
<1>2. CASE Planner
  BY <1>2, PlannerDelivery
<1>3. CASE Daemon
  BY <1>3, DaemonDelivery
<1>4. CASE UNCHANGED vars
  BY <1>4 DEF vars, taskVars, gitVars, outVars, editVars, DeliveryInv, IntentIsCut,
     FailedPublish, WorkIsPlaced, EndsAfterPhase, ActiveKeepsWork, FailedPhase,
     CompletedPhase, CompletedResult, CompletedPlan, Plain, Abandoned, Delivered, PlanTerminal
<1>. QED  BY <1>1, <1>2, <1>3, <1>4 DEF Next

LEMMA DeliveryInit == Init => DeliveryInv
<1>. SUFFICES ASSUME Init PROVE DeliveryInv
  OBVIOUS
<1>1. /\ integ = (IF worktree THEN "created" ELSE "none") /\ work = "none"
      /\ plan = "sealed" /\ intent = "none" /\ result = "none" /\ scan = "idle"
      /\ row = "in_progress" /\ phase \in {"none", "active"} /\ merged = FALSE
  BY CompletionAssumption DEF Init
<1>. QED
  BY <1>1 DEF DeliveryInv, IntentIsCut, FailedPublish, WorkIsPlaced, EndsAfterPhase,
     ActiveKeepsWork, FailedPhase, CompletedPhase, CompletedResult, CompletedPlan,
     PlanTerminal, Final

\* A plan with a phase that was neither edited nor given up is completed only
\* when its required tasks are and the workers' changes are on the base branch:
\* whoever wrote plan_status, with any number of faults, as long as a quarantined
\* publish and an interrupted completion do not come together (R4 would then
\* finish the plan from its tasks alone).
THEOREM CompletionDelivers ==
    ASSUME Apart("publish")
    PROVE  Spec => []CompletedIsDelivered
<1> DEFINE Inv == TypeOK /\ DeliveryInv /\ NotBoth("publish")
<1>1. Init => Inv
  BY TypeInit, DeliveryInit, RowInit
<1>2. Inv /\ [Next]_vars => Inv'
  <2>. SUFFICES ASSUME Inv, [Next]_vars PROVE Inv'
    OBVIOUS
  <2>1. NotBoth("publish")'
    BY NotBothStep
  <2>. QED  BY <2>1, TypeStep, DeliveryStep
<1>3. Inv => CompletedIsDelivered
  <2>. SUFFICES ASSUME Inv, Plain, plan = "completed"
                PROVE  /\ \A s \in RequiredIDs(tasks) : tasks[s] = "completed"
                       /\ work \in {"none", "base"}
    BY DEF CompletedIsDelivered, Plain
  <2>1. phase = "completed" /\ work \in {"none", "base"}
    BY DEF DeliveryInv, CompletedPlan, Delivered
  <2>2. /\ \A s \in Present(tasks) : tasks[s] \in Final
        /\ DeriveStatus(tasks) = "completed"
    BY <2>1 DEF DeliveryInv, CompletedPhase
  <2>3. \A s \in RequiredIDs(tasks) : tasks[s] \notin {"failed", "cancelled"}
    BY <2>2 DEF DeriveStatus, SomeRequired
  <2>. QED  BY <2>1, <2>2, <2>3 DEF RequiredIDs, Final
<1>. QED  BY <1>1, <1>2, <1>3, PTL DEF Spec
=============================================================================
