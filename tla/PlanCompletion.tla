--------------------------- MODULE PlanCompletion ---------------------------
(***************************************************************************)
(* How a sealed plan reaches its final status (internal/plan/complete.go,  *)
(* complete_intent.go, deferred_complete.go, state.go; the scan steps that *)
(* flip phases, publish, cancel and dead-letter; reconcilers R3, R4, R10). *)
(*                                                                         *)
(* The outcome of one command is kept in four files that are written one   *)
(* after the other: plan_status in the state file, the command result in   *)
(* results/planner.yaml, the command's row in queue/planner.yaml, and the  *)
(* intents that let an interrupted or deferred completion be taken up      *)
(* again.  The Planner's "plan complete", the deferred completer, the      *)
(* publish gate, R3, R4, the cancel handler and the dead-letter processor  *)
(* all write some of them.                                                 *)
(*                                                                         *)
(* Plan operations hold scanMu for reading and the locks of what they      *)
(* write, and the scan's Phases A and C hold scanMu for writing, so each   *)
(* is one action; a publish runs in Phase B, between the two.  A task is   *)
(* the latest attempt of its slot (ResultPipeline models the attempts).    *)
(* The plan has one phase, or none.  Merge conflicts are left to           *)
(* WorktreeIntegration and the steps of a publish to WorktreePublish.      *)
(* All completion policies have their default values.                      *)
(***************************************************************************)
EXTENDS Naturals, FiniteSets

CONSTANTS
    Required, Optional,  \* task slots of the plan
    Initial,             \* sets of slots filled when the plan is sealed
    PhaseModes,          \* initial phase statuses: "none", "active" or both
    WorktreeModes,       \* values of worktree.enabled
    MaxEdits,            \* add-task and add-retry-task calls
    FaultKinds,          \* faults that may happen, each at most once
    MaxFaults            \* and at most so many in a behaviour

ASSUME CompletionAssumption ==
    /\ Required \cap Optional = {}
    /\ \A I \in Initial : I \subseteq Required \cup Optional
                          /\ I \cap Required # {}
    /\ PhaseModes \subseteq {"none", "active"}
    /\ WorktreeModes \subseteq BOOLEAN
    /\ MaxEdits \in Nat /\ MaxFaults \in Nat
    /\ FaultKinds \subseteq
          {"cut", "crash", "publish", "merge", "stall", "enqueue", "delivery"}

Slots == Required \cup Optional

Final == {"completed", "failed", "cancelled"}
TaskStatus == Final \cup {"absent", "open", "paused_for_replan", "dead_letter"}
RowStatus == Final \cup {"none", "live"}
CommandRow == Final \cup {"pending", "in_progress", "gone"}
Integration == {"none", "created", "merged", "failed", "publish_failed",
                "published", "quarantined"}

VARIABLES
    tasks,      \* effective task_states of the slots
    trow,       \* the queue rows of the slots' latest attempts
    oldFailed,  \* whether an attempt replaced automatically left a failed row
    phase,      \* status of the phase, "none" without phases
    merged,     \* merged_phases of the worktree state
    integ,      \* integration status, "none" without a worktree state
    work,       \* ghost: where the newest change of a worker is
    worktree,   \* worktree.enabled
    scan,       \* "idle", "publish" before Phase B or "published" before C
    row,        \* the command's row in queue/planner.yaml
    plan,       \* plan_status
    result,     \* status in results/planner.yaml
    intent,     \* intents/complete_*.yaml
    deferred,   \* intents/deferred_complete_*.yaml exists
    cancelReq,  \* the cancel flag of the plan
    edits,      \* add-task and add-retry-task calls made
    late,       \* one of them was made with a result or an intent on disk
    faults      \* fault kinds used up

taskVars == <<tasks, trow, oldFailed>>
gitVars == <<merged, integ, work>>
outVars == <<plan, result, intent, deferred>>
editVars == <<edits, late>>
vars == <<taskVars, phase, gitVars, worktree, scan, row, outVars,
          cancelReq, editVars, faults>>

Fault(kind) ==
    /\ kind \in FaultKinds \ faults /\ Cardinality(faults) < MaxFaults
    /\ faults' = faults \cup {kind}
NoFault == UNCHANGED faults

IsTerminal(t) == t \in Final \cup {"dead_letter"}
Present(ts) == {s \in Slots : ts[s] # "absent"}
RequiredIDs(ts) == Required \cap Present(ts)

\* The daemon has not lost sight of the command.
RowLive == row \in {"pending", "in_progress"}
PlanTerminal == plan \in Final

Init ==
    /\ \E I \in Initial :
          /\ tasks = [s \in Slots |-> IF s \in I THEN "open" ELSE "absent"]
          /\ trow = [s \in Slots |-> IF s \in I THEN "live" ELSE "none"]
    /\ oldFailed = FALSE
    /\ phase \in PhaseModes
    /\ worktree \in WorktreeModes
    /\ merged = FALSE
    /\ integ = (IF worktree THEN "created" ELSE "none")
    /\ work = "none"
    /\ scan = "idle"
    /\ row = "in_progress"
    /\ plan = "sealed" /\ result = "none" /\ intent = "none"
    /\ deferred = FALSE /\ cancelReq = FALSE
    /\ edits = 0 /\ late = FALSE
    /\ faults = {}

----------------------------------------------------------------------------
(* What the completion checks compute from task states and phase.          *)

SomeRequired(ts, status) == \E s \in RequiredIDs(ts) : ts[s] = status

\* DeriveStatus, with the default completion policy.
DeriveStatus(ts) ==
    IF SomeRequired(ts, "failed") THEN "failed"
    ELSE IF SomeRequired(ts, "cancelled") THEN "cancelled"
    ELSE "completed"

\* CanComplete: a final status, "retryable" or "error".
CanComplete(ts, ph) ==
    IF ph = "active"
    THEN IF \A s \in Present(ts) : ts[s] \in {"completed", "cancelled"}
         THEN "retryable" ELSE "error"
    ELSE IF \/ ph # "none" /\ \E s \in Present(ts) : ~IsTerminal(ts[s])
            \/ \E s \in RequiredIDs(ts) : ~IsTerminal(ts[s])
         THEN "error"
         ELSE DeriveStatus(ts)

\* autoCancelPausedForReplanIfBlocking.
Paused(ts) == {s \in RequiredIDs(ts) : ts[s] = "paused_for_replan"}
AutoCancelBlocking(ts) ==
    /\ Paused(ts) # {}
    /\ \A s \in RequiredIDs(ts) : IsTerminal(ts[s]) \/ s \in Paused(ts)
AutoCancelPaused(ts) ==
    IF AutoCancelBlocking(ts)
    THEN [s \in Slots |-> IF s \in Paused(ts) THEN "cancelled" ELSE ts[s]]
    ELSE ts

\* advancePhasesInline.
AdvancePhase(ts, ph) ==
    IF ph = "active" /\ \A s \in Present(ts) : IsTerminal(ts[s])
    THEN IF SomeRequired(ts, "failed") \/ SomeRequired(ts, "dead_letter")
         THEN "failed" ELSE DeriveStatus(ts)
    ELSE ph

\* The state Complete works on once paused tasks are out of the way.
CompletionTasks == AutoCancelPaused(tasks)
CompletionPhase ==
    IF AutoCancelBlocking(tasks)
    THEN AdvancePhase(CompletionTasks, phase) ELSE phase

\* Mutant: work on the integration branch counts as published.
PublishGuardMerged ==
    IF ~worktree \/ integ \in {"none", "created", "merged", "published"}
    THEN "completed"
    ELSE IF integ = "quarantined" THEN "failed" ELSE "retryable"

\* checkWorktreePublished, asked only for a plan that would be completed.
PublishGuard ==
    IF ~worktree \/ integ \in {"none", "created", "published"}
    THEN "completed"
    ELSE IF integ = "quarantined" THEN "failed" ELSE "retryable"

CompletionOutcome ==
    LET derived == CanComplete(CompletionTasks, CompletionPhase)
    IN  IF derived = "completed" THEN PublishGuard ELSE derived

----------------------------------------------------------------------------
(* The tasks.                                                              *)

\* A worker's change is in its worktree, which the dispatch of its task
\* created if a cleanup had removed it.
WorkerChange ==
    \/ UNCHANGED gitVars
    \/ /\ worktree
       /\ work' = "worker"
       /\ integ' = (IF integ = "none" THEN "created" ELSE integ)
       /\ UNCHANGED merged

SetTask(s, status, rowStatus) ==
    /\ tasks' = [tasks EXCEPT ![s] = status]
    /\ trow' = [trow EXCEPT ![s] = rowStatus]

\* A worker reports success; verification may leave the task paused.
TaskCompletes(s) ==
    /\ tasks[s] = "open"
    /\ \E status \in {"completed", "paused_for_replan"} :
          SetTask(s, status, "completed")
    /\ WorkerChange
    /\ UNCHANGED <<oldFailed, phase, worktree, scan, row, outVars,
                   cancelReq, editVars, faults>>

\* A worker reports failure and no automatic retry is left.
TaskFails(s) ==
    /\ tasks[s] = "open"
    /\ \E status \in {"failed", "paused_for_replan"} :
          SetTask(s, status, "failed")
    /\ UNCHANGED <<oldFailed, phase, gitVars, worktree, scan, row,
                   outVars, cancelReq, editVars, faults>>

\* RetryTaskAtomically: a failed attempt is replaced by a new one; the row
\* of the failed attempt stays in its queue.
AutoRetry(s) ==
    /\ tasks[s] = "open" /\ ~cancelReq /\ ~oldFailed
    /\ oldFailed' = TRUE
    /\ UNCHANGED <<tasks, trow, phase, gitVars, worktree, scan, row,
                   outVars, cancelReq, editVars, faults>>

\* The retry is registered, but neither its row nor the rollback could be
\* written and R1 gave up enqueueing it.
RetryOrphaned(s) ==
    /\ tasks[s] = "open" /\ ~cancelReq
    /\ Fault("enqueue")
    /\ SetTask(s, "dead_letter", "failed")
    /\ UNCHANGED <<oldFailed, phase, gitVars, worktree, scan, row,
                   outVars, cancelReq, editVars>>

\* A task whose dependency failed, or whose command is being cancelled.
TaskCancelled(s) ==
    /\ tasks[s] = "open"
    /\ \/ cancelReq
       \/ \E d \in Slots \ {s} :
             tasks[d] \in {"failed", "cancelled", "dead_letter"}
    /\ SetTask(s, "cancelled", "cancelled")
    /\ UNCHANGED <<oldFailed, phase, gitVars, worktree, scan, row,
                   outVars, cancelReq, editVars, faults>>

\* R10 gives up waiting for a replan.
R10PausedForReplan(s) ==
    /\ tasks[s] = "paused_for_replan" /\ scan = "idle"
    /\ SetTask(s, "failed", trow[s])
    /\ UNCHANGED <<oldFailed, phase, gitVars, worktree, scan, row,
                   outVars, cancelReq, editVars, faults>>

----------------------------------------------------------------------------
(* Completing the plan.                                                    *)

\* executeCompleteSteps without a conflict, up to its n-th write: after the
\* state with the paused tasks cancelled these are the intent,
\* the result unless there is one, the row unless it is terminal, plan_status,
\* and the removal of the intent.  lost: the scan that called the completer
\* writes its own copy of the planner queue back afterwards.
CompleteSteps(status, n, lost) ==
    /\ result' = (IF n >= 2 /\ result = "none" THEN status ELSE result)
    /\ row' = (IF n >= 3 /\ RowLive /\ ~lost THEN status ELSE row)
    /\ plan' = (IF n >= 4 THEN status ELSE plan)
    /\ intent' = (IF n >= 5 THEN "none" ELSE IF n = 0 THEN intent ELSE status)

\* Mutant: the conflict path leaves the result that was written before.
ReconcileStepsKeepResult(n, lost) ==
    /\ \A s \in RequiredIDs(tasks) : IsTerminal(tasks[s])
    /\ row' = (IF n >= 3 /\ row # "gone" /\ ~lost THEN plan ELSE row)
    /\ intent' = (IF n >= 5 THEN "none" ELSE intent)
    /\ UNCHANGED <<plan, result>>

\* The conflict path: plan_status was given another final value meanwhile.
ReconcileSteps(n, lost) ==
    /\ \A s \in RequiredIDs(tasks) : IsTerminal(tasks[s])
    /\ result' = (IF n >= 2 THEN plan ELSE result)
    /\ row' = (IF n >= 3 /\ row # "gone" /\ ~lost THEN plan ELSE row)
    /\ intent' = (IF n >= 5 THEN "none" ELSE intent)
    /\ UNCHANGED plan

\* A crash or a failed write stops the sequence.
AllWrites == 5
StopsAfter(n) == IF n = AllWrites THEN NoFault ELSE Fault("cut")

\* Mutant: a replay finishes what its intent says, whatever happened since.
FinalizesBlindly(n, lost) ==
    /\ StopsAfter(n)
    /\ \/ /\ intent = "none" /\ ~PlanTerminal
          /\ CompletionOutcome \in Final
          /\ CompleteSteps(CompletionOutcome, n, lost)
          /\ tasks' = CompletionTasks /\ phase' = CompletionPhase
       \/ /\ intent # "none"
          /\ CompleteSteps(intent, n, lost)
          /\ UNCHANGED <<tasks, phase>>

\* Complete, for a caller whose row write may be lost.
FinalizesWith(n, lost) ==
    /\ StopsAfter(n)
    /\ \/ /\ intent = "none" /\ ~PlanTerminal
          /\ CompletionOutcome \in Final
          /\ CompleteSteps(CompletionOutcome, n, lost)
          /\ tasks' = CompletionTasks /\ phase' = CompletionPhase
       \/ /\ intent # "none"                       \* replayCompleteIntent
          /\ IF PlanTerminal /\ plan # intent
             THEN ReconcileSteps(n, lost)
             ELSE CompleteSteps(intent, n, lost)
          /\ UNCHANGED <<tasks, phase>>

\* Complete writes a deferred intent instead, or refuses after cancelling
\* the paused tasks.
NotYet ==
    /\ intent = "none" /\ ~PlanTerminal
    /\ CompletionOutcome \notin Final
    /\ tasks' = CompletionTasks /\ phase' = CompletionPhase
    /\ deferred' = (deferred \/ CompletionOutcome = "retryable")
    /\ NoFault
    /\ UNCHANGED <<row, plan, result, intent>>

\* "plan complete" of the Planner.
Complete(n) ==
    /\ \/ FinalizesWith(n, FALSE) /\ UNCHANGED deferred
       \/ n = AllWrites /\ NotYet
    /\ UNCHANGED <<trow, oldFailed, gitVars, worktree, scan,
                   cancelReq, editVars>>

\* CompleteDeferredPublish, from Phase C after a publish and, for a
\* quarantined integration, from Phase A.
CompleteDeferredPublish(n) ==
    /\ deferred
    /\ scan = "published" \/ (scan = "idle" /\ integ = "quarantined")
    /\ scan' = "idle"
    /\ \/ /\ \E lost \in BOOLEAN : FinalizesWith(n, lost)
          /\ deferred' = (n < AllWrites)
       \/ n = AllWrites /\ NotYet
       \/ /\ n = AllWrites /\ intent = "none" /\ PlanTerminal
          /\ deferred' = FALSE /\ NoFault
          /\ UNCHANGED <<tasks, phase, row, plan, result, intent>>
    /\ UNCHANGED <<trow, oldFailed, gitVars, worktree,
                   cancelReq, editVars>>

----------------------------------------------------------------------------
(* The scan: phase transitions, merges, the publish gate, cleanups.        *)

FailedRow == oldFailed \/ \E s \in Slots : trow[s] = "failed"
AllTasksTerminal ==
    /\ \A s \in Slots : trow[s] # "live"
    /\ \A s \in Present(tasks) : IsTerminal(tasks[s])

\* isPhaseMergeRecorded.
MergeRecorded == ~worktree \/ integ = "none" \/ merged

\* checkActivePhaseCompletion: what the resolver makes of the active phase.
PhaseOutcome ==
    IF \/ SomeRequired(tasks, "failed") \/ SomeRequired(tasks, "cancelled")
       \/ \A s \in Present(tasks) : tasks[s] \in Final
    THEN DeriveStatus(tasks) ELSE "active"

PhaseTransition ==
    /\ scan = "idle" /\ row = "in_progress" /\ phase = "active"
    /\ PhaseOutcome # "active"
    /\ PhaseOutcome = "completed" => MergeRecorded
    /\ phase' = PhaseOutcome
    /\ UNCHANGED <<taskVars, gitVars, worktree, scan, row, outVars,
                   cancelReq, editVars, faults>>

\* Phase A collects a merge, Phase B performs it and Phase C records it.
Mergeable ==
    /\ scan = "idle" /\ ~cancelReq
    /\ integ \in {"created", "merged", "failed"}
    /\ IF phase = "none"
       THEN ~FailedRow /\ \E s \in Slots : trow[s] = "completed"
       ELSE ~merged /\ \A s \in Present(tasks) : IsTerminal(tasks[s])

MergeToIntegration ==
    /\ Mergeable
    /\ integ' = (IF work = "worker" THEN "merged" ELSE integ)
    /\ work' = (IF work = "worker" THEN "integration" ELSE work)
    /\ merged' = (integ' # "failed")
    /\ UNCHANGED <<taskVars, phase, worktree, scan, row, outVars,
                   cancelReq, editVars, faults>>

MergeFails ==
    /\ Mergeable /\ work = "worker"
    /\ Fault("merge")
    /\ integ' = "failed"
    /\ UNCHANGED <<taskVars, phase, merged, work, worktree, scan, row,
                   outVars, cancelReq, editVars>>

\* CleanupCommand removes worktrees, branches and the worktree state.
CleanupCommand ==
    /\ integ' = "none" /\ merged' = FALSE
    /\ work' = (IF work \in {"worker", "integration"} THEN "dropped" ELSE work)

\* stepWorktreePublish reaches the gate of collectWorktreePublishAndCleanup.
PublishGate ==
    /\ scan = "idle" /\ integ # "none"
    /\ \/ row = "in_progress"
       \/ row \in Final /\ integ \in {"created", "merged", "published"}
    /\ AllTasksTerminal
    /\ phase = "none" \/ phase \in Final

GateBlocks ==
    /\ IF phase = "none" THEN FailedRow ELSE phase # "completed"
    /\ DeriveStatus(tasks) # "completed"

PublishCollected ==
    /\ PublishGate /\ ~GateBlocks
    /\ integ \in {"merged", "publish_failed"}
    /\ scan' = "publish"
    /\ UNCHANGED <<taskVars, phase, gitVars, worktree, row, outVars,
                   cancelReq, editVars, faults>>

\* writeSyntheticFailedPlannerResult, and cleanup_on_failure.
PublishBlocked ==
    /\ PublishGate
    /\ GateBlocks \/ integ = "failed"
    /\ result' = (IF result = "none" THEN "failed" ELSE result)
    /\ UNCHANGED gitVars \/ CleanupCommand
    /\ UNCHANGED <<taskVars, phase, worktree, scan, row, plan, intent,
                   deferred, cancelReq, editVars, faults>>

\* cleanup_on_success, the no-op cleanup and stepWorktreeOrphanCleanup.
Cleanup ==
    /\ \/ /\ PublishGate /\ ~GateBlocks
          /\ \/ integ = "published"
             \/ integ = "created" /\ work # "worker"
       \/ scan = "idle" /\ row \in Final /\ integ \in {"created", "failed"}
    /\ CleanupCommand
    /\ UNCHANGED <<taskVars, phase, worktree, scan, row, outVars,
                   cancelReq, editVars, faults>>

\* Phase B publishes, and cleans up at once with cleanup_on_success.
PublishDone ==
    /\ scan = "publish"
    /\ \/ integ' = "published" /\ UNCHANGED merged
       \/ integ' = "none" /\ merged' = FALSE
    /\ work' = (IF work = "integration" THEN "base"
                ELSE IF work = "worker" /\ integ' = "none" THEN "dropped"
                ELSE work)
    /\ scan' = "published"
    /\ UNCHANGED <<taskVars, phase, worktree, row, outVars, cancelReq,
                   editVars, faults>>

PublishFails ==
    /\ scan = "publish"
    /\ Fault("publish")
    /\ integ' = "publish_failed" /\ scan' = "idle"
    /\ UNCHANGED <<taskVars, phase, merged, work, worktree, row, outVars,
                   cancelReq, editVars>>

\* Publishing has failed for good.
Quarantine ==
    /\ scan = "idle" /\ integ = "publish_failed"
    /\ integ' = "quarantined"
    /\ UNCHANGED <<taskVars, phase, merged, work, worktree, scan, row,
                   outVars, cancelReq, editVars, faults>>

\* Mutant: Phase C forgets to ask for a deferred intent.
PublishReportedAlways ==
    /\ scan = "published"
    /\ scan' = "idle"
    /\ UNCHANGED <<taskVars, phase, gitVars, worktree, row, outVars,
                   cancelReq, editVars, faults>>

\* Phase C finds no deferred intent.
PublishReported ==
    /\ scan = "published" /\ ~deferred
    /\ scan' = "idle"
    /\ UNCHANGED <<taskVars, phase, gitVars, worktree, row, outVars,
                   cancelReq, editVars, faults>>

\* stepWorktreeFastTrackCleanup, after worktree.stall_cleanup_after.
FastTrackCleanup ==
    /\ scan = "idle" /\ row = "in_progress"
    /\ worktree /\ integ # "none"
    /\ AllTasksTerminal /\ phase = "active"
    /\ Fault("stall")
    /\ phase' = "failed"
    /\ CleanupCommand
    /\ UNCHANGED <<taskVars, worktree, scan, row, outVars, cancelReq,
                   editVars>>

----------------------------------------------------------------------------
(* Reconcilers, dispatch of the command, cancellation, plan edits.         *)

\* Mutant: any result ends the row with success.
R3Completes ==
    /\ scan = "idle" /\ RowLive /\ result # "none"
    /\ row' = "completed"
    /\ UNCHANGED <<taskVars, phase, gitVars, worktree, scan,
                   outVars, cancelReq, editVars, faults>>

\* R3: the row follows the result.
R3PlannerQueue ==
    /\ scan = "idle" /\ RowLive /\ result # "none"
    /\ row' = result
    /\ UNCHANGED <<taskVars, phase, gitVars, worktree, scan,
                   outVars, cancelReq, editVars, faults>>

\* Mutant: only results that report success are looked at.
R4CompletedOnly ==
    /\ scan = "idle" /\ result = "completed" /\ ~PlanTerminal
    /\ LET derived == CanComplete(tasks, phase)
       IN  /\ derived # "retryable"
           /\ plan' = (IF derived \in Final THEN derived ELSE plan)
           /\ result' = (IF derived \in Final THEN result ELSE "none")
    /\ UNCHANGED <<taskVars, phase, gitVars, worktree, scan, row, intent,
                   deferred, cancelReq, editVars, faults>>

\* R4: a result without a final plan_status.  The status comes from the
\* tasks; a result the plan is not ready for is taken away.
R4PlanStatus ==
    /\ scan = "idle" /\ result # "none" /\ ~PlanTerminal
    /\ LET derived == CanComplete(tasks, phase)
       IN  /\ derived # "retryable"
           /\ plan' = (IF derived \in Final THEN derived ELSE plan)
           /\ result' = (IF derived \in Final THEN result ELSE "none")
    /\ UNCHANGED <<taskVars, phase, gitVars, worktree, scan, row, intent,
                   deferred, cancelReq, editVars, faults>>

\* applyCommandDispatchResult of a delivery that may have failed: the row
\* is pending again, although the Planner has sealed its plan.
DeliveryUncertain ==
    /\ row = "in_progress"
    /\ Fault("delivery")
    /\ row' = "pending"
    /\ UNCHANGED <<taskVars, phase, gitVars, worktree, scan, outVars,
                   cancelReq, editVars>>

\* A pending row is delivered again, or dead-lettered if its attempts are
\* used up.
Dispatch ==
    /\ row = "pending" /\ ~cancelReq
    /\ row' = "in_progress"
    /\ UNCHANGED <<taskVars, phase, gitVars, worktree, scan, outVars,
                   cancelReq, editVars, faults>>

\* A scan writes plan_status at once and the rows when it ends: a crash
\* in between loses the row.
FinishInScan(status, rowStatus) ==
    /\ plan' = (IF PlanTerminal THEN plan ELSE status)
    /\ \/ row' = rowStatus /\ NoFault
       \/ UNCHANGED row /\ Fault("crash")
    /\ UNCHANGED <<taskVars, phase, gitVars, worktree, scan, result,
                   intent, deferred, cancelReq, editVars>>

ProcessCommandDeadLetters ==
    /\ scan = "idle" /\ row = "pending"
    /\ FinishInScan("failed", "gone")

\* Mutant: a command whose plan is final is skipped, its row too.
AutoCompleteSkipsFinal ==
    /\ scan = "idle" /\ cancelReq /\ RowLive /\ ~PlanTerminal
    /\ \A s \in Slots : trow[s] # "live"
    /\ FinishInScan("cancelled", "cancelled")

AutoCompleteCancelledCommands ==
    /\ scan = "idle" /\ cancelReq /\ RowLive
    /\ \A s \in Slots : trow[s] # "live"
    /\ FinishInScan("cancelled", "cancelled")

RequestCancel ==
    /\ ~PlanTerminal /\ ~cancelReq
    /\ cancelReq' = TRUE
    /\ UNCHANGED <<taskVars, phase, gitVars, worktree, scan, row, outVars,
                   editVars, faults>>

Edit ==
    /\ plan = "sealed" /\ ~cancelReq /\ integ # "quarantined"
    /\ edits < MaxEdits
    /\ edits' = edits + 1
    /\ late' = (late \/ result # "none" \/ intent # "none")

AddTask(s) ==
    /\ Edit
    /\ tasks[s] = "absent" /\ phase # "cancelled"
    /\ SetTask(s, "open", "live")
    /\ phase' = (IF phase = "none" THEN phase ELSE "active")
    /\ UNCHANGED <<oldFailed, gitVars, worktree, scan, row, outVars,
                   cancelReq, faults>>

AddRetryTask(s) ==
    /\ Edit
    /\ tasks[s] \in {"failed", "paused_for_replan", "cancelled"}
    /\ phase \in {"none", "active", "failed"}
    /\ SetTask(s, "open", "live")
    /\ phase' = (IF phase = "none" THEN phase ELSE "active")
    /\ UNCHANGED <<oldFailed, gitVars, worktree, scan, row, outVars,
                   cancelReq, faults>>

\* The daemon restarts: a publish done in Phase B is not followed by Phase C.
Crash ==
    /\ scan # "idle"
    /\ Fault("crash")
    /\ scan' = "idle"
    /\ UNCHANGED <<taskVars, phase, gitVars, worktree, row, outVars,
                   cancelReq, editVars>>

----------------------------------------------------------------------------
Tasks == \E s \in Slots :
    \/ TaskCompletes(s) \/ TaskFails(s) \/ AutoRetry(s) \/ RetryOrphaned(s)
    \/ TaskCancelled(s)

Planner ==
    \/ \E n \in 0..AllWrites : Complete(n)
    \/ RequestCancel
    \/ \E s \in Slots : AddTask(s) \/ AddRetryTask(s)

Daemon ==
    \/ \E n \in 0..AllWrites : CompleteDeferredPublish(n)
    \/ PhaseTransition \/ MergeToIntegration \/ MergeFails
    \/ PublishCollected \/ PublishBlocked \/ Cleanup
    \/ PublishDone \/ PublishFails \/ Quarantine \/ PublishReported
    \/ FastTrackCleanup
    \/ R3PlannerQueue \/ R4PlanStatus
    \/ \E s \in Slots : R10PausedForReplan(s)
    \/ DeliveryUncertain \/ Dispatch
    \/ ProcessCommandDeadLetters \/ AutoCompleteCancelledCommands
    \/ Crash

Next == Tasks \/ Planner \/ Daemon

Spec == Init /\ [][Next]_vars

\* The daemon's timers run its scans and reconcilers again and again; the
\* Planner and the workers owe nothing.
Fairness ==
    /\ WF_vars(CompleteDeferredPublish(AllWrites))
    /\ WF_vars(PhaseTransition) /\ WF_vars(MergeToIntegration)
    /\ WF_vars(PublishCollected) /\ WF_vars(PublishBlocked)
    /\ WF_vars(PublishDone \/ PublishFails) /\ WF_vars(PublishReported)
    /\ WF_vars(R3PlannerQueue) /\ WF_vars(R4PlanStatus)
    /\ WF_vars(Dispatch \/ ProcessCommandDeadLetters)
    /\ WF_vars(AutoCompleteCancelledCommands)

FairSpec == Spec /\ Fairness

----------------------------------------------------------------------------
(* Properties.                                                             *)

\* Every variable has a value of its type.
TypeOK ==
    /\ tasks \in [Slots -> TaskStatus] /\ trow \in [Slots -> RowStatus]
    /\ oldFailed \in BOOLEAN /\ phase \in Final \cup {"none", "active"}
    /\ merged \in BOOLEAN /\ integ \in Integration
    /\ work \in {"none", "worker", "integration", "base", "dropped"}
    /\ worktree \in BOOLEAN /\ scan \in {"idle", "publish", "published"}
    /\ row \in CommandRow
    /\ plan \in Final \cup {"sealed"} /\ result \in Final \cup {"none"}
    /\ intent \in Final \cup {"none"} /\ deferred \in BOOLEAN
    /\ cancelReq \in BOOLEAN /\ edits \in 0..MaxEdits /\ late \in BOOLEAN
    /\ faults \subseteq FaultKinds

\* Once a final plan_status is on disk no writer replaces it: not the replay
\* of an older completion intent, not R4, the cancel handler or the
\* dead-letter processor.
PlanStatusFinal == [][PlanTerminal => plan' = plan]_vars

\* Whoever ends the plan, and wherever the daemon is interrupted, the command
\* leaves the planner queue or becomes terminal there.
RowFollowsPlan == PlanTerminal ~> ~RowLive

\* A command result does not stay without a final plan_status: R4 finishes
\* the plan or takes the result away, unless the plan was edited after a
\* completion had started.
ResultFollows == (result # "none") ~> (PlanTerminal \/ result = "none" \/ late)

\* A deferred completion whose work waits to be published is finalised by
\* the daemon alone, if nothing goes wrong and the plan is not edited.
DeferredFinalises ==
    (/\ deferred /\ integ = "merged" /\ AllTasksTerminal
     /\ phase \in {"none", "completed"})
    ~> (PlanTerminal \/ edits > 0 \/ faults # {})

\* A plan's end reaches the planner queue, a result the plan, and a deferred
\* completion its publish.
CompletionSettles == RowFollowsPlan /\ ResultFollows /\ DeferredFinalises

\* A completion is over and the plan was not edited in its course.  A failed
\* merge is left out: see SyntheticFailureSticks.
Settled == PlanTerminal /\ intent = "none" /\ ~late /\ "merge" \notin faults

\* Then the result and plan_status agree on success, in whatever order the
\* Planner, the deferred completer, R4, the publish gate, the cancel handler
\* and the dead-letter processor wrote them and were interrupted.
ResultAgrees ==
    Settled /\ result # "none" => (result = "completed" <=> plan = "completed")

\* And so does the row after a single fault, unless a cancellation races with
\* the completion.  (A quarantined publish and an interrupted completion of the
\* same command, with R4 in between, leave a failed row under a completed plan.)
RowAgrees ==
    Settled /\ row \in Final /\ ~cancelReq
    => (row = "completed" <=> plan = "completed")

\* A plan with a phase that was neither edited nor given up by the stall
\* cleanup is completed only when its required tasks are and the workers'
\* changes are on the base branch, whoever wrote the status.
CompletedIsDelivered ==
    /\ phase # "none" /\ edits = 0 /\ "stall" \notin faults
    /\ plan = "completed"
    => /\ \A s \in RequiredIDs(tasks) : tasks[s] = "completed"
       /\ work \in {"none", "base"}

----------------------------------------------------------------------------
(* Statements of the sources that the code does not keep.                  *)

\* "so 'command completed' never lies about the base branch state"
\* (complete.go) and "so the implicit merge can land before cleanup runs"
\* (queue_scan_phase_a_worktree.go): the work of a completed command is not
\* destroyed.
CompletedKeepsWork == plan = "completed" => work # "dropped"

\* "R3/R4 will walk planner queue + state.plan_status to failed on next scan"
\* (writeSyntheticFailedPlannerResult).
SyntheticFailureSticks ==
    PlanTerminal /\ result = "failed" /\ ~late => plan # "completed"

\* "failed plans already have a separate publish-gate check that blocks main
\* publish on PlanStatusFailed/Cancelled" (collectWorktreePhaseMerges).
OnlyLivePlansPublish ==
    [][work' = "base" /\ work # "base" => plan \notin {"failed", "cancelled"}]_vars

\* "required task failed: the command fails" (completion policy): a plan is
\* not completed while a required task is dead-lettered.
DeadLetterIsFailure ==
    plan = "completed" => ~SomeRequired(tasks, "dead_letter")

\* "the daemon's deferredPlanCompleter then finalises the plan once publish
\* succeeds, and the Planner does not have to poll/retry" (CanComplete).
DeferredIsFinalised ==
    (deferred /\ AllTasksTerminal) ~> (PlanTerminal \/ edits > 0)
=============================================================================
