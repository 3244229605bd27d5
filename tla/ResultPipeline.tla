--------------------------- MODULE ResultPipeline ---------------------------
(***************************************************************************)
(* What happens to a task of a sealed plan after its worker has reported:  *)
(* the state update (result write, Phase B), verification, the daemon's    *)
(* retries and repairs, the planner's add-retry-task, the phase machine,   *)
(* and the reconciler patterns that pick up what a crash or a failed write *)
(* left behind (R1 re-enqueue, R2, R3, R4, R9, R10).                       *)
(*                                                                         *)
(* The model follows one logical slot of the plan: the root task and the   *)
(* chain of tasks that replace it.  Task IDs are creation ordered, as the  *)
(* generated IDs are.                                                      *)
(*                                                                         *)
(* A result handler is a goroutine that writes the result and queue files, *)
(* then the state file, then perhaps more.  Each of these steps is one     *)
(* action, and holds scanMu for reading unless noted: it cannot run while  *)
(* the scan is in Phase A or in the reconciler (Phase C).  Only Phase B of *)
(* the result write takes no scanMu and can fall in between.               *)
(***************************************************************************)
EXTENDS Integers, FiniteSets

CONSTANTS
    MaxTasks,       \* bound: tasks in the lineage
    MaxRetries,     \* retry.task_execution.max_retries
    MaxEnqueue,     \* maxRetryEnqueueAttempts
    MaxPasses,      \* maxReconcilePasses
    WorktreeMode,   \* worktree.enabled: the fast-track cleanup runs
    Setups,         \* what to start from: subset of AllSetups
    FaultKinds      \* which faults happen: subset of AllFaultKinds

\* crash: the daemon restarts; state, queue: a write of that file fails;
\* marker: the RetryEnqueueFailed marker cannot be written either; command: the
\* command's own row is dead-lettered.
AllFaultKinds == {"crash", "state", "queue", "marker", "command"}

ASSUME TaskBoundAssumption == MaxTasks \in Nat \ {0}
ASSUME RetryAssumption ==
    MaxRetries \in Nat \ {0} /\ MaxEnqueue \in Nat /\ MaxPasses \in Nat \ {0}
\* The root task is required or optional, in a phase or in a plan without
\* phases, verified by the daemon (gated) or not.  A behaviour has at most limit
\* faults, and the planner issues add-retry-task in it or not.
AllSetups == [required : BOOLEAN, phased : BOOLEAN, gated : BOOLEAN,
              limit : Nat, planner : BOOLEAN]

ASSUME SetupAssumption == Setups \subseteq AllSetups
ASSUME ModeAssumption == WorktreeMode \in BOOLEAN
ASSUME FaultAssumption == FaultKinds \subseteq AllFaultKinds

VARIABLES
    state,     \* state/commands/<command>.yaml
    rows,      \* the rows of the slot's tasks in the worker queue files
    results,   \* their entries in the worker result files
    handlers,  \* the result handlers in flight, one per reported task
    nextID,    \* the next task ID
    command,   \* status of the command's row in the planner queue
    verdict,   \* the command's entry in results/planner.yaml
    scan,      \* where the periodic scan is
    backoff,   \* R4's BackoffTracker entry of the command
    suspects,  \* phantomSuspects
    clock,     \* which waiting periods are over
    budget,    \* the faults so far and their limit, and whether the planner acts
    verified   \* history: tasks whose verification passed

vars == <<state, rows, results, handlers, nextID, command, verdict, scan,
          backoff, suspects, clock, budget, verified>>

-----------------------------------------------------------------------------
(* The files.                                                              *)

Ids == 0 .. (MaxTasks - 1)

NoTask == -1

TerminalStatuses == {"completed", "failed", "cancelled", "dead_letter"}

\* planned stands for planned, ready, dispatched and running: the result
\* write treats them alike.
TaskStatuses == {"planned", "verify_pending", "repair_pending",
                 "paused_for_replan"} \cup TerminalStatuses

\* superseded: the task's CancelledReasons entry starts with superseded_by_.
\* marker: the attempt count of its RetryEnqueueFailed entry, or -1.
\* phase: the phase of the slot; "none" in a plan without phases.
CommandState ==
    [status     : [Ids -> TaskStatuses \cup {"none"}],
     lineage    : [Ids -> Ids \cup {NoTask}],
     required   : SUBSET Ids,
     optional   : SUBSET Ids,
     applied    : SUBSET Ids,
     superseded : SUBSET Ids,
     marker     : [Ids -> -1 .. MaxEnqueue],
     phase      : {"none", "active", "completed", "failed", "cancelled"},
     phaseTasks : SUBSET Ids,
     plan       : {"sealed", "completed", "failed", "cancelled"}]

\* live is pending or in_progress; the lease protocol is TaskQueue's subject.
\* gated: RunOnIntegration or RunOnMain, the tasks the daemon verifies.
Row == [status   : {"absent", "live"} \cup (TerminalStatuses \ {"dead_letter"}),
        retries  : Nat,
        original : Ids \cup {NoTask},
        gated    : BOOLEAN]

NoRow == [status |-> "absent", retries |-> 0, original |-> NoTask, gated |-> FALSE]

ResultEntry == [status : {"none", "completed", "failed"}, stamped : BOOLEAN]

\* replacement: the retry task Phase A created; sync: the queue status that
\* remains to be written after a verification.
Handler == [step        : {"none", "phaseB", "register", "verify", "repair", "sync"},
            replacement : Ids \cup {NoTask},
            sync        : TerminalStatuses]

NoHandler == [step |-> "none", replacement |-> NoTask, sync |-> "completed"]

ScanSteps == {"idle", "B", "R1", "R2", "R3", "R4", "R9", "R9orphans", "R10"}

\* age: how far a result is past r2FreshResultGrace (1) and the verify stall
\* threshold of R9 (2).  stale: paused longer than the R10 deadletter window.
\* quiet: the state file has not changed for r9OrphanReclaimGrace.
Clock == [age : [Ids -> 0 .. 2], stale : SUBSET Ids, quiet : BOOLEAN]

MaxBackoff == 8

IsTerminal(status) == status \in TerminalStatuses

HasRow(t) == rows[t].status # "absent"

-----------------------------------------------------------------------------
(* Retry lineage (internal/plan/lineage.go, internal/model/retry_wiring.go) *)

Successors(s, t) == {d \in Ids : s.lineage[d] = t}

Newest(S) == CHOOSE d \in S : \A e \in S : e <= d

\* A replacement is younger than the task it replaces, so the walk along the
\* newest successors ends after at most MaxTasks steps.
LatestDescendant(s, t) ==
    LET step[n \in 0 .. MaxTasks] ==
            IF n = 0 THEN t
            ELSE IF Successors(s, step[n - 1]) = {} THEN step[n - 1]
            ELSE Newest(Successors(s, step[n - 1]))
    IN  step[MaxTasks]

EffectiveStatus(s, t) ==
    LET latest == s.status[LatestDescendant(s, t)]
    IN  IF latest = "none" THEN s.status[t] ELSE latest

\* All members of the retry chain below t, t excluded.
Descendants(s, t) ==
    LET grow[n \in 0 .. MaxTasks] ==
            IF n = 0 THEN {t}
            ELSE grow[n - 1] \cup {d \in Ids : s.lineage[d] \in grow[n - 1]}
    IN  grow[MaxTasks] \ {t}

\* Mutant: the replaced task stays a member.
AddMembership(s, old, new) ==
    [s EXCEPT !.required = IF old \in @ THEN @ \cup {new} ELSE @,
              !.optional = IF old \in @ THEN @ \cup {new} ELSE @]

\* The new task takes the place of the old one in the list that has it.
ReplaceMembership(s, old, new) ==
    [s EXCEPT !.required = IF old \in @ THEN (@ \ {old}) \cup {new} ELSE @,
              !.optional = IF old \in @ /\ old \notin s.required
                           THEN (@ \ {old}) \cup {new} ELSE @]

\* The phase that holds the predecessor takes the new task too and is
\* reopened if it had failed.
AppendToPhase(s, new, pred) ==
    IF pred \in s.phaseTasks
    THEN [s EXCEPT !.phaseTasks = @ \cup {new},
                   !.phase = IF @ = "failed" THEN "active" ELSE @]
    ELSE s

\* A predecessor that is no member any more (it has been replaced already)
\* sends the new task to optional_task_ids.
WireRetryTask(s, new, pred) ==
    LET membered == IF pred \in s.required \cup s.optional
                    THEN ReplaceMembership(s, pred, new)
                    ELSE [s EXCEPT !.optional = @ \cup {new}]
    IN  [AppendToPhase(membered, new, pred) EXCEPT !.lineage[new] = pred,
                                                   !.status[new] = "planned"]

UnwireRetryTask(s, new, pred) ==
    [ReplaceMembership(s, new, pred) EXCEPT !.lineage[new] = NoTask,
                                            !.status[new] = "none",
                                            !.phaseTasks = @ \ {new}]

\* TaskRetryHandler.CreateRetryTask and r1BuildRetryTask.
RetryRow(pred) ==
    [status   |-> "live",
     retries  |-> rows[pred].retries + 1,
     original |-> IF rows[pred].original = NoTask THEN pred ELSE rows[pred].original,
     gated    |-> rows[pred].gated]

-----------------------------------------------------------------------------
(* Faults, file writes and restarts.                                       *)

\* A step in which the given kinds of failure happen.
Costs(kinds) ==
    /\ kinds \subseteq FaultKinds
    /\ budget.faults + Cardinality(kinds) <= budget.limit
    /\ budget' = [budget EXCEPT !.faults = @ + Cardinality(kinds)]

\* Every write of the state file stamps updated_at; a task that leaves
\* paused_for_replan gets a new task_status_changed_at.
SaveState(s) ==
    /\ state' = s
    /\ clock' = [clock EXCEPT !.quiet = FALSE,
                              !.stale = {t \in @ : s.status[t] = "paused_for_replan"}]

\* An update function that returns errNoUpdate leaves the file alone.
UpdateState(s) ==
    IF s = state THEN UNCHANGED <<state, clock>> ELSE SaveState(s)

NoBackoff == [failures |-> 0, skip |-> 0]

IdleScan == [step |-> "idle", pass |-> 0, repaired |-> FALSE]

\* A restart forgets the handlers, the scan and what it keeps in memory.
Restart ==
    /\ handlers' = [t \in Ids |-> NoHandler]
    /\ scan' = IdleScan
    /\ suspects' = {}
    /\ backoff' = NoBackoff

scanVars == <<scan, suspects, backoff>>

Proceed(t, h) ==
    /\ handlers' = [handlers EXCEPT ![t] = h]
    /\ UNCHANGED scanVars

\* scanMu is free for readers.
HandlersMayRun == scan.step \in {"idle", "B"}

-----------------------------------------------------------------------------
(* The result handler.                                                     *)

\* Phase A: the result entry and the queue row are written together; a failed
\* task may get a replacement, created now and registered after Phase B.
\* Whether it does also depends on the exit code, retry_safe and
\* definition_of_abort.
ReportResult(t) ==
    /\ HandlersMayRun
    /\ rows[t].status = "live"
    /\ results[t].status = "none"
    /\ state.status[t] # "none"
    /\ t \notin state.applied
    /\ \E status \in {"completed", "failed"}, retry \in BOOLEAN :
        /\ retry => status = "failed" /\ rows[t].retries < MaxRetries /\ nextID \in Ids
        /\ results' = [results EXCEPT ![t].status = status]
        /\ rows' = [rows EXCEPT ![t].status = status]
        /\ nextID' = IF retry THEN nextID + 1 ELSE nextID
        /\ Proceed(t, [NoHandler EXCEPT !.step = "phaseB",
                                        !.replacement = IF retry THEN nextID ELSE NoTask])
    /\ UNCHANGED <<state, command, verdict, clock, budget, verified>>

ResolveRecordedStatus(s, t, status) ==
    IF IsTerminal(s.status[t]) THEN s.status[t]
    ELSE IF s.plan \in {"failed", "cancelled"} THEN "cancelled"
    ELSE status

\* A terminal state is kept; completed goes to verification; failed is closed
\* as superseded when a replacement was created and waits for the planner
\* otherwise.
TaskStateProgression(s, t, recorded, retryScheduled) ==
    IF IsTerminal(s.status[t]) THEN s
    ELSE CASE recorded = "completed" -> [s EXCEPT !.status[t] = "verify_pending"]
           [] recorded = "cancelled" -> [s EXCEPT !.status[t] = "cancelled"]
           [] recorded = "failed" /\ retryScheduled ->
                [s EXCEPT !.status[t] = "cancelled", !.superseded = @ \cup {t}]
           [] recorded = "failed" /\ ~retryScheduled ->
                [s EXCEPT !.status[t] = "paused_for_replan"]

\* The root of the retry chain is closed with the result of its replacement.
CloseOriginal(s, original) ==
    IF original # NoTask /\ ~IsTerminal(s.status[original]) /\ s.status[original] # "none"
    THEN [s EXCEPT !.status[original] = "cancelled"]
    ELSE s

\* Phase B, under the state lock only.  A result R2 has applied meanwhile is
\* skipped, yet its replacement is still registered.
ResultWritePhaseB(t) ==
    /\ handlers[t].step = "phaseB"
    /\ LET recorded   == ResolveRecordedStatus(state, t, results[t].status)
           retry      == handlers[t].replacement # NoTask
           progressed == TaskStateProgression(state, t, recorded, retry)
           verify     == t \notin state.applied
                             /\ progressed.status[t] = "verify_pending"
           updated    == CloseOriginal([progressed EXCEPT !.applied = @ \cup {t}],
                                       rows[t].original)
       IN  /\ UpdateState(IF t \in state.applied THEN state ELSE updated)
           /\ Proceed(t, [handlers[t] EXCEPT !.step = IF retry THEN "register"
                                                      ELSE IF verify THEN "verify"
                                                      ELSE "none"])
    /\ UNCHANGED <<rows, results, nextID, command, verdict, budget, verified>>

\* The state write fails: the handler returns an error, the result stays.
ResultWritePhaseBFails(t) ==
    /\ handlers[t].step = "phaseB"
    /\ Costs({"state"})
    /\ Proceed(t, NoHandler)
    /\ UNCHANGED <<state, rows, results, nextID, command, verdict, clock, verified>>

-----------------------------------------------------------------------------
(* TaskRetryHandler.RetryTaskAtomically and r9RegisterRepairTask: the state *)
(* file first, then the queue row, with a rollback of the state when the   *)
(* row cannot be added and a marker for R1 when the rollback fails too.    *)

RegisterOutcomes == {"ok", "refused", "rolled_back", "marked", "stranded", "crash"}

RegisterFaults(outcome) ==
    CASE outcome = "ok" -> {}
      [] outcome = "refused" -> {"state"}
      [] outcome = "rolled_back" -> {"queue"}
      [] outcome = "marked" -> {"queue", "state"}
      [] outcome = "stranded" -> {"queue", "state", "marker"}
      [] outcome = "crash" -> {"crash"}

RetryTaskAtomically(s, new, pred, outcome) ==
    LET wired == WireRetryTask(s, new, pred)
    IN  CASE outcome = "refused" -> s
          [] outcome = "rolled_back" -> UnwireRetryTask(wired, new, pred)
          [] outcome = "marked" -> [wired EXCEPT !.marker[new] = 0]
          [] outcome \in {"ok", "stranded", "crash"} -> wired

EnqueueRetry(new, pred, outcome) ==
    IF outcome = "ok" THEN [rows EXCEPT ![new] = RetryRow(pred)] ELSE rows

\* handleRetryRegistration
RegisterRetry(t) ==
    /\ handlers[t].step = "register"
    /\ HandlersMayRun
    /\ \E outcome \in RegisterOutcomes :
        /\ Costs(RegisterFaults(outcome))
        /\ IF outcome = "refused" THEN UNCHANGED <<state, clock>>
           ELSE SaveState(RetryTaskAtomically(state, handlers[t].replacement, t, outcome))
        /\ rows' = EnqueueRetry(handlers[t].replacement, t, outcome)
        /\ IF outcome = "crash" THEN Restart ELSE Proceed(t, NoHandler)
    /\ UNCHANGED <<results, nextID, command, verdict, verified>>

-----------------------------------------------------------------------------
(* Verification.                                                           *)

StampResult(t) == results' = [results EXCEPT ![t].stamped = TRUE]

\* applyVerifyOutcome takes the outcome only while the task still waits for
\* it.  A task that is not gated is completed without a run of the verifier.
\* The outcome and its stamp on the result entry are two writes.
Verify(t) ==
    /\ handlers[t].step = "verify"
    /\ HandlersMayRun
    /\ \/ /\ state.status[t] # "verify_pending"
          /\ Proceed(t, NoHandler)
          /\ UNCHANGED <<state, results, clock, budget, verified>>
       \/ /\ state.status[t] = "verify_pending"
          /\ ~rows[t].gated
          /\ SaveState([state EXCEPT !.status[t] = "completed"])
          /\ StampResult(t)
          /\ Proceed(t, NoHandler)
          /\ UNCHANGED <<budget, verified>>
       \/ /\ state.status[t] = "verify_pending"
          /\ rows[t].gated
          /\ \E passed \in BOOLEAN, lost \in {"none", "stamp", "crash"} :
              /\ SaveState([state EXCEPT
                     !.status[t] = IF passed THEN "completed" ELSE "repair_pending"])
              /\ verified' = IF passed THEN verified \cup {t} ELSE verified
              /\ IF lost = "none" THEN StampResult(t) ELSE results' = results
              /\ Costs(CASE lost = "none" -> {} [] lost = "stamp" -> {"queue"}
                         [] lost = "crash" -> {"crash"})
              /\ IF lost = "crash" THEN Restart
                 ELSE Proceed(t, [NoHandler EXCEPT
                                    !.step = IF passed THEN "sync" ELSE "repair"])
    /\ UNCHANGED <<rows, nextID, command, verdict>>

\* The outcome cannot be written: the task stays at verify_pending.
VerifyFails(t) ==
    /\ handlers[t].step = "verify"
    /\ HandlersMayRun
    /\ Costs({"state"})
    /\ Proceed(t, NoHandler)
    /\ UNCHANGED <<state, rows, results, nextID, command, verdict, clock, verified>>

ToReplan(s, t) ==
    IF s.status[t] = "repair_pending"
    THEN [s EXCEPT !.status[t] = "paused_for_replan"] ELSE s

CancelSupersededPredecessor(s, t) ==
    IF IsTerminal(s.status[t]) THEN s
    ELSE [s EXCEPT !.status[t] = "cancelled", !.superseded = @ \cup {t}]

\* Mutant: the repair budget is off by one.
RepairBudgetOffByOne(t) == rows[t].retries <= MaxRetries

\* ShouldRepairTask and r9RepairBudgetAllows.  The ID bound stands in for the
\* failure to create the repair task, which takes the same path.
RepairBudgetAllows(t) == rows[t].retries < MaxRetries

\* handleVerifyRepairRegistration: schedule a repair and close the verified
\* task, or hand the task to the planner.  Whether the task is still at
\* repair_pending is not looked at before the repair is wired.
RegisterRepair(t) ==
    /\ handlers[t].step = "repair"
    /\ HandlersMayRun
    /\ \/ /\ UpdateState(ToReplan(state, t))
          /\ Proceed(t, [NoHandler EXCEPT !.step = "sync", !.sync = "failed"])
          /\ UNCHANGED <<rows, nextID, budget>>
       \/ /\ RepairBudgetAllows(t)
          /\ nextID \in Ids
          /\ nextID' = nextID + 1
          /\ \E outcome \in RegisterOutcomes, closed \in BOOLEAN :
              /\ ~closed => outcome = "ok"
              /\ Costs(IF closed THEN RegisterFaults(outcome) ELSE {"state"})
              /\ LET s == RetryTaskAtomically(state, nextID, t, outcome)
                 IN  CASE outcome = "ok" ->
                            SaveState(IF closed THEN CancelSupersededPredecessor(s, t) ELSE s)
                       [] outcome = "refused" -> UpdateState(ToReplan(s, t))
                       [] outcome = "crash" -> SaveState(s)
                       [] OTHER -> SaveState(ToReplan(s, t))
              /\ rows' = EnqueueRetry(nextID, t, outcome)
              /\ IF outcome = "crash" THEN Restart
                 ELSE Proceed(t, [NoHandler EXCEPT
                        !.step = "sync",
                        !.sync = IF outcome = "ok" THEN "cancelled" ELSE "failed"])
    /\ UNCHANGED <<results, command, verdict, verified>>

\* syncQueueStatusAfterVerify overwrites the row whatever its status is.
SyncQueueStatus(t) ==
    /\ handlers[t].step = "sync"
    /\ HandlersMayRun
    /\ rows' = IF HasRow(t) THEN [rows EXCEPT ![t].status = handlers[t].sync] ELSE rows
    /\ Proceed(t, NoHandler)
    /\ UNCHANGED <<state, results, nextID, command, verdict, clock, budget, verified>>

-----------------------------------------------------------------------------
(* The planner.                                                            *)

\* validateRetryRequest
RetryAllowed(t) ==
    /\ state.plan = "sealed"
    /\ \/ state.status[t] \in {"failed", "paused_for_replan", "repair_pending"}
       \/ state.status[t] = "cancelled" /\ t \notin state.superseded
    /\ \A d \in Descendants(state, t) : state.status[d] = "none" \/ IsTerminal(state.status[d])
    /\ t \in state.phaseTasks => state.phase \in {"active", "failed"}

\* applyRetryStateChanges: the new task takes the place of t; the reasons of
\* closed tasks that have been replaced are purged.
ApplyRetryStateChanges(s, new, t) ==
    LET wired  == [AppendToPhase(ReplaceMembership(s, t, new), new, t)
                     EXCEPT !.lineage[new] = t, !.status[new] = "planned"]
        closed == IF s.status[t] = "paused_for_replan"
                  THEN [wired EXCEPT !.status[t] = "cancelled", !.superseded = @ \cup {t}]
                  ELSE wired
    IN  [closed EXCEPT !.superseded = {d \in @ : Successors(closed, d) = {}
                                                 \/ ~IsTerminal(closed.status[d])}]

\* plan add-retry-task: queue rows first, then the state; every failure but a
\* crash between the two is rolled back.
AddRetryTask(t) ==
    /\ budget.planner
    /\ HandlersMayRun
    /\ nextID \in Ids
    /\ RetryAllowed(t)
    /\ nextID' = nextID + 1
    /\ rows' = [d \in Ids |->
                  IF d = nextID THEN [NoRow EXCEPT !.status = "live"]
                  ELSE IF d = t /\ HasRow(t) THEN [rows[t] EXCEPT !.status = "cancelled"]
                  ELSE rows[d]]
    /\ \/ /\ SaveState(ApplyRetryStateChanges(state, nextID, t))
          /\ UNCHANGED <<handlers, scanVars, budget>>
       \/ /\ Costs({"crash"})
          /\ Restart
          /\ UNCHANGED <<state, clock>>
    /\ UNCHANGED <<results, command, verdict, verified>>

-----------------------------------------------------------------------------
(* The scan, Phase A: dead letters, phase transitions, fast-track cleanup. *)

\* The step writes s, or fails to write the file when lost is not empty.
WriteState(s, lost) ==
    IF lost = {} THEN UpdateState(s) ELSE UNCHANGED <<state, clock>>

\* taskDeadLetterPostProcess
FailDeadLetters(s, D) ==
    [s EXCEPT !.status = [t \in Ids |-> IF t \in D /\ ~IsTerminal(@[t])
                                         THEN "failed" ELSE @[t]]]

\* Mutant: a task that waits for its verification counts as done.
PhaseOutcomeBeforeVerify(s) ==
    CASE \E t \in s.phaseTasks : EffectiveStatus(s, t) = "failed" -> "failed"
      [] \A t \in s.phaseTasks :
             EffectiveStatus(s, t) \in {"completed", "verify_pending"} -> "completed"
      [] OTHER -> "active"

\* checkActivePhaseCompletion.  dead_letter counts as unfinished.  The merge
\* gate is taken as recorded.
ActivePhaseOutcome(s) ==
    LET required == s.phaseTasks \cap s.required
    IN  CASE \E t \in required : EffectiveStatus(s, t) = "failed" -> "failed"
          [] /\ \A t \in required : EffectiveStatus(s, t) # "failed"
             /\ \E t \in required : EffectiveStatus(s, t) = "cancelled" -> "cancelled"
          [] /\ \A t \in required : EffectiveStatus(s, t) \notin {"failed", "cancelled"}
             /\ \A t \in s.phaseTasks :
                    EffectiveStatus(s, t) \in {"completed", "failed", "cancelled"} -> "completed"
          [] OTHER -> "active"

PhaseTransitions(s) ==
    IF s.phase = "active" THEN [s EXCEPT !.phase = ActivePhaseOutcome(s)] ELSE s

NonTerminalTasks(s) == {t \in Ids : s.status[t] # "none" /\ ~IsTerminal(s.status[t])}

AllRowsTerminal(q) ==
    /\ \E t \in Ids : q[t].status # "absent"
    /\ \A t \in Ids : q[t].status # "live"

Phantoms(s, q) == {t \in NonTerminalTasks(s) : q[t].status = "absent"}

\* tryClearPhantomTasks: the second sighting in a row of a task without queue
\* row cancels it, if it is still a member of the plan.
ClearPhantoms(s, seen) ==
    LET cleared == seen \cap suspects \cap (s.required \cup s.optional)
    IN  [s EXCEPT !.status = [t \in Ids |-> IF t \in cleared THEN "cancelled" ELSE @[t]],
                  !.superseded = @ \ cleared]

\* stepForceFailStuckPhases
ForceFailStuckPhases(s) ==
    IF NonTerminalTasks(s) = {} /\ s.phase = "active"
    THEN [s EXCEPT !.phase = "failed"] ELSE s

\* One exclusive critical section.  D: the rows whose dispatch attempts are
\* used up.  stalled: no queue activity for stall_cleanup_after.
PhaseA ==
    /\ scan.step = "idle"
    /\ \E D \in SUBSET {t \in Ids : rows[t].status = "live"}, stalled \in BOOLEAN,
          dead \in SUBSET {"command"}, lost \in SUBSET {"state"} :
        /\ Costs(dead \cup lost)
        /\ dead # {} => command = "in_progress"
        /\ lost # {} => D # {}
        /\ LET q        == [t \in Ids |-> IF t \in D THEN NoRow ELSE rows[t]]
               buried   == IF lost = {} THEN FailDeadLetters(state, D) ELSE state
               doomed   == IF dead # {} /\ buried.plan = "sealed"
                           THEN [buried EXCEPT !.plan = "failed"] ELSE buried
               active   == command = "in_progress" /\ dead = {}
               moved    == IF active THEN PhaseTransitions(doomed) ELSE doomed
               cleanup  == active /\ WorktreeMode /\ stalled /\ AllRowsTerminal(q)
               seen     == Phantoms(moved, q)
           IN  /\ stalled => cleanup
               /\ rows' = q
               /\ results' = [t \in Ids |->
                                IF t \in D /\ results[t].status = "none"
                                THEN [results[t] EXCEPT !.status = "failed"] ELSE results[t]]
               /\ command' = IF dead # {} THEN "dead_letter" ELSE command
               /\ UpdateState(IF cleanup
                              THEN ForceFailStuckPhases(ClearPhantoms(moved, seen))
                              ELSE moved)
               /\ suspects' = IF cleanup THEN (suspects \cup seen) \ (suspects \cap seen)
                              ELSE suspects
    /\ scan' = [scan EXCEPT !.step = "B"]
    /\ UNCHANGED <<handlers, nextID, verdict, backoff, verified>>

-----------------------------------------------------------------------------
(* The scan, Phase C: the reconciler runs its patterns in order, in at most *)
(* MaxPasses passes, until a pass repairs nothing.                         *)

Advance(step, repaired) ==
    scan' = [scan EXCEPT !.step = step, !.repaired = @ \/ repaired]

\* Engine.Reconcile ticks the backoff counters once.
BeginReconcile ==
    /\ scan.step = "B"
    /\ scan' = [step |-> "R1", pass |-> 1, repaired |-> FALSE]
    /\ backoff' = [backoff EXCEPT !.skip = IF @ > 0 THEN @ - 1 ELSE 0]
    /\ UNCHANGED <<state, rows, results, handlers, nextID, command, verdict,
                   suspects, clock, budget, verified>>

Marked(s) == {t \in Ids : s.marker[t] >= 0}

\* r1ProcessRetryEnqueueForCommand: a marked task is enqueued after all, or
\* given up when its predecessor's row is gone or the attempts are used up.
R1ReEnqueue ==
    /\ scan.step = "R1"
    /\ LET present == {t \in Marked(state) : HasRow(t)}
           spent   == {t \in Marked(state) \ present : state.marker[t] >= MaxEnqueue}
           source  == {t \in Marked(state) : state.lineage[t] # NoTask
                                             /\ HasRow(state.lineage[t])}
           addable == (Marked(state) \ (present \cup spent)) \cap source
           barren  == Marked(state) \ (present \cup spent \cup addable)
       IN  \E failed \in SUBSET addable, lost \in SUBSET {"state"} :
            /\ Costs(lost \cup IF failed = {} THEN {} ELSE {"queue"})
            /\ lost # {} => Marked(state) # {}
            /\ rows' = [t \in Ids |-> IF t \in addable \ failed
                                      THEN RetryRow(state.lineage[t]) ELSE rows[t]]
            /\ WriteState([state EXCEPT
                   !.status = [t \in Ids |-> IF t \in spent THEN "dead_letter"
                                             ELSE IF t \in barren THEN "failed" ELSE @[t]],
                   !.marker = [t \in Ids |-> IF t \in failed THEN @[t] + 1 ELSE -1]], lost)
            /\ Advance("R2", Marked(state) # failed)
    /\ UNCHANGED <<results, handlers, nextID, command, verdict, suspects, backoff, verified>>

\* Mutant: R2 takes over a task whose verification is under way.
LateResultAnyStage(t) == state.status[t] \in {"planned", "verify_pending"}

\* Mutant: R2 respects the pipeline but not a terminal state.
LateResultDespiteTerminal(t) ==
    state.status[t] \in TerminalStatuses \cup {"planned"}

\* The slots R2 may overwrite: neither terminal nor owned by the verification,
\* repair or replan pipeline.
LateResult(t) == state.status[t] = "planned"

\* Mutant: the stamp does not wait for the state.
StampAnyResult(t) == TRUE

\* Mutant: only results R2 applied itself are stamped.
StampNothingElse(t) == FALSE

\* The verification outcome is in the state, the stamp may be missing.
StampOnly(t) == state.status[t] = "completed"

\* R2ResultState: a result whose Phase B was lost is applied as reported.
R2ResultState ==
    /\ scan.step = "R2"
    /\ LET old     == {t \in Ids : results[t].status # "none" /\ clock.age[t] > 0}
           late    == {t \in old : LateResult(t)}
           stamps  == {t \in old : results[t].status = "completed" /\ rows[t].gated}
           settled == {t \in stamps \ late : StampOnly(t)}
       IN  \E lost \in SUBSET {"state"} :
            /\ Costs(lost)
            /\ lost # {} => late # {}
            /\ WriteState([state EXCEPT
                   !.status = [t \in Ids |-> IF t \in late THEN results[t].status ELSE @[t]],
                   !.applied = @ \cup late], lost)
            /\ results' = [t \in Ids |->
                              IF t \in settled \/ (t \in stamps \cap late /\ lost = {})
                              THEN [results[t] EXCEPT !.stamped = TRUE] ELSE results[t]]
            /\ Advance("R3", late # {} /\ lost = {})
    /\ UNCHANGED <<rows, handlers, nextID, command, verdict, suspects, backoff, verified>>

\* R3PlannerQueue: the command's row follows the planner's result.
R3PlannerQueue ==
    /\ scan.step = "R3"
    /\ IF verdict # "none" /\ command = "in_progress"
       THEN /\ command' = verdict
            /\ SaveState(state)
            /\ Advance("R4", TRUE)
       ELSE /\ UNCHANGED <<command, state, clock>>
            /\ Advance("R4", FALSE)
    /\ UNCHANGED <<rows, results, handlers, nextID, verdict, suspects, backoff,
                   budget, verified>>

\* plan.CanComplete with the default completion policy; the plan was submitted
\* with one task in this slot (expected_task_count).
CanComplete(s) ==
    LET effective(t) == EffectiveStatus(s, t)
        registered   == {t \in s.phaseTasks : s.status[t] # "none"}
    IN  CASE Cardinality(s.required) + Cardinality(s.optional) # 1 -> "invalid"
          [] /\ Cardinality(s.required) + Cardinality(s.optional) = 1
             /\ s.phase = "active" ->
                IF \A t \in s.phaseTasks : effective(t) \in {"completed", "cancelled"}
                THEN "retryable" ELSE "invalid"
          [] OTHER ->
                IF \/ s.phase # "none" /\ \E t \in registered : ~IsTerminal(effective(t))
                   \/ \E t \in s.required : ~IsTerminal(s.status[t])
                THEN "invalid"
                ELSE IF \E t \in s.required : effective(t) = "failed" THEN "failed"
                ELSE IF \E t \in s.required : effective(t) = "cancelled" THEN "cancelled"
                ELSE "completed"

\* BackoffTracker.recordFailure: 1, 2, 4, then 8 cycles.
RecordFailure ==
    LET failures == IF backoff.failures < 4 THEN backoff.failures + 1 ELSE 4
    IN  backoff' = [failures |-> failures, skip |-> 2 ^ (failures - 1)]

\* R4PlanStatus: the plan follows the planner's result, or the result is
\* quarantined and the planner is asked again.
R4PlanStatus ==
    /\ scan.step = "R4"
    /\ LET outcome  == CanComplete(state)
           examined == verdict # "none" /\ backoff.skip = 0 /\ state.plan = "sealed"
       IN  \/ /\ ~examined
              /\ Advance("R9", FALSE)
              /\ UNCHANGED <<state, clock, verdict, backoff, budget>>
           \/ /\ examined
              /\ outcome = "retryable"
              /\ RecordFailure
              /\ Advance("R9", FALSE)
              /\ UNCHANGED <<state, clock, verdict, budget>>
           \/ /\ examined
              /\ outcome = "invalid"
              /\ RecordFailure
              /\ verdict' = "none"
              /\ Advance("R9", TRUE)
              /\ UNCHANGED <<state, clock, budget>>
           \/ /\ examined
              /\ outcome \in {"completed", "failed", "cancelled"}
              /\ \E lost \in SUBSET {"state"} :
                  /\ Costs(lost)
                  /\ WriteState([state EXCEPT !.plan = outcome], lost)
                  /\ Advance("R9", lost = {})
              /\ backoff' = NoBackoff
              /\ UNCHANGED verdict
    /\ UNCHANGED <<rows, results, handlers, nextID, command, suspects, verified>>

\* Mutant: R9 also takes the tasks a handler is about to repair.
StalledOrInRepair(t) ==
    state.status[t] \in {"verify_pending", "repair_pending"} /\ clock.age[t] = 2

\* Mutant: the threshold is never passed.
StalledTooLate(t) == state.status[t] = "verify_pending" /\ clock.age[t] > 2

\* r9ApplyForCommand
Stalled(t) == state.status[t] = "verify_pending" /\ clock.age[t] = 2

CloseRow(q, t, status) ==
    IF q[t].status = "live" THEN [q EXCEPT ![t].status = status] ELSE q

\* R9VerifyStall on one stalled task: repair_pending, then a repair task or,
\* failing that, the planner.  The stalled task is left at repair_pending
\* when its repair is registered.
R9VerifyStall(t) ==
    /\ scan.step = "R9"
    /\ Stalled(t)
    /\ LET stalled == [state EXCEPT !.status[t] = "repair_pending"]
           canRepair == HasRow(t) /\ RepairBudgetAllows(t) /\ nextID \in Ids
       IN  \/ \* the state write fails
              /\ Costs({"state"})
              /\ scan' = [scan EXCEPT !.step = "R9orphans"]
              /\ UNCHANGED <<state, clock, rows, nextID, handlers, suspects, backoff>>
           \/ \* a crash right after it
              /\ Costs({"crash"})
              /\ SaveState(stalled)
              /\ Restart
              /\ UNCHANGED <<rows, nextID>>
           \/ \* no source task, no budget, no ID
              /\ ~canRepair
              /\ SaveState(ToReplan(stalled, t))
              /\ rows' = CloseRow(rows, t, "failed")
              /\ Advance("R9", TRUE)
              /\ UNCHANGED <<budget, nextID, handlers, suspects, backoff>>
           \/ /\ canRepair
              /\ nextID' = nextID + 1
              /\ \E outcome \in RegisterOutcomes :
                  /\ Costs(RegisterFaults(outcome))
                  /\ LET s == RetryTaskAtomically(stalled, nextID, t, outcome)
                         q == EnqueueRetry(nextID, t, outcome)
                     IN  CASE outcome = "ok" ->
                                /\ SaveState(s)
                                /\ rows' = CloseRow(q, t, "cancelled")
                           [] outcome = "crash" -> SaveState(s) /\ rows' = q
                           [] OTHER ->
                                /\ SaveState(ToReplan(s, t))
                                /\ rows' = CloseRow(q, t, "failed")
                  /\ IF outcome = "crash" THEN Restart
                     ELSE Advance("R9", TRUE) /\ UNCHANGED <<handlers, suspects, backoff>>
    /\ UNCHANGED <<results, command, verdict, verified>>

R9Done ==
    /\ scan.step = "R9"
    /\ \A t \in Ids : ~Stalled(t)
    /\ Advance("R9orphans", FALSE)
    /\ UNCHANGED <<state, rows, results, handlers, nextID, command, verdict,
                   suspects, backoff, clock, budget, verified>>

\* r9ReclaimOrphanedRepairPending: nothing owns the repair of the task.
R9ReclaimOrphans ==
    /\ scan.step = "R9orphans"
    /\ LET orphans == {t \in Ids : /\ state.status[t] = "repair_pending"
                                   /\ Successors(state, t) = {}
                                   /\ t \notin Marked(state)
                                   /\ clock.age[t] = 2
                                   /\ clock.quiet}
       IN  \E lost \in SUBSET {"state"} :
            /\ Costs(lost)
            /\ lost # {} => orphans # {}
            /\ WriteState([state EXCEPT
                   !.status = [t \in Ids |-> IF t \in orphans THEN "paused_for_replan"
                                             ELSE @[t]]], lost)
            /\ Advance("R10", orphans # {} /\ lost = {})
    /\ UNCHANGED <<rows, results, handlers, nextID, command, verdict, suspects,
                   backoff, verified>>

\* Engine.Reconcile: another pass while there was something to repair.
EndPass(repaired) ==
    scan' = IF (scan.repaired \/ repaired) /\ scan.pass < MaxPasses
            THEN [step |-> "R1", pass |-> scan.pass + 1, repaired |-> FALSE]
            ELSE IdleScan

\* R10PausedForReplanDeadletter: a planner that does not act fails the task
\* and, with a required task, the command: it writes the planner's result.
R10Deadletter ==
    /\ scan.step = "R10"
    /\ LET overdue == {t \in clock.stale : state.status[t] = "paused_for_replan"}
           failed  == [state EXCEPT !.status = [t \in Ids |-> IF t \in overdue THEN "failed"
                                                             ELSE @[t]]]
       IN  /\ rows' = [t \in Ids |-> IF t \in overdue
                                     THEN CloseRow(rows, t, "failed")[t] ELSE rows[t]]
           /\ \/ /\ overdue # {}
                 /\ Costs({"crash"})
                 /\ SaveState(failed)
                 /\ Restart
                 /\ UNCHANGED verdict
              \/ /\ \E lost \in SUBSET {"state"} :
                     /\ Costs(lost)
                     /\ lost # {} => overdue # {}
                     /\ WriteState(failed, lost)
                 /\ verdict' = IF verdict = "none" /\ overdue \cap state.required # {}
                               THEN "failed" ELSE verdict
                 /\ EndPass(overdue # {})
                 /\ UNCHANGED <<handlers, suspects, backoff>>
    /\ UNCHANGED <<results, nextID, command, verified>>

-----------------------------------------------------------------------------
(* Time and crashes.                                                       *)

\* Phase B follows Phase A within r2FreshResultGrace.
Age(t) ==
    /\ HandlersMayRun
    /\ results[t].status # "none"
    /\ clock.age[t] < 2
    /\ handlers[t].step # "phaseB"
    /\ clock' = [clock EXCEPT !.age[t] = @ + 1]
    /\ UNCHANGED <<state, rows, results, handlers, nextID, command, verdict,
                   scanVars, budget, verified>>

Stale(t) ==
    /\ HandlersMayRun
    /\ state.status[t] = "paused_for_replan"
    /\ t \notin clock.stale
    /\ clock' = [clock EXCEPT !.stale = @ \cup {t}]
    /\ UNCHANGED <<state, rows, results, handlers, nextID, command, verdict,
                   scanVars, budget, verified>>

\* A handler makes its next write within r9OrphanReclaimGrace.
Quiet ==
    /\ HandlersMayRun
    /\ ~clock.quiet
    /\ \A t \in Ids : handlers[t].step \notin {"phaseB", "register", "repair"}
    /\ clock' = [clock EXCEPT !.quiet = TRUE]
    /\ UNCHANGED <<state, rows, results, handlers, nextID, command, verdict,
                   scanVars, budget, verified>>

Crash ==
    /\ Costs({"crash"})
    /\ Restart
    /\ UNCHANGED <<state, rows, results, nextID, command, verdict, clock, verified>>

-----------------------------------------------------------------------------
(* A sealed plan with one task, which has just been dispatched.            *)

Init ==
    /\ \E setup \in Setups :
        /\ state = [status     |-> [t \in Ids |-> IF t = 0 THEN "planned" ELSE "none"],
                    lineage    |-> [t \in Ids |-> NoTask],
                    required   |-> IF setup.required THEN {0} ELSE {},
                    optional   |-> IF setup.required THEN {} ELSE {0},
                    applied    |-> {},
                    superseded |-> {},
                    marker     |-> [t \in Ids |-> -1],
                    phase      |-> IF setup.phased THEN "active" ELSE "none",
                    phaseTasks |-> IF setup.phased THEN {0} ELSE {},
                    plan       |-> "sealed"]
        /\ rows = [t \in Ids |-> IF t = 0 THEN [NoRow EXCEPT !.status = "live",
                                                            !.gated = setup.gated]
                                 ELSE NoRow]
        /\ budget = [faults |-> 0, limit |-> setup.limit, planner |-> setup.planner]
    /\ results = [t \in Ids |-> [status |-> "none", stamped |-> FALSE]]
    /\ handlers = [t \in Ids |-> NoHandler]
    /\ nextID = 1
    /\ command = "in_progress"
    /\ verdict = "none"
    /\ scan = IdleScan
    /\ backoff = NoBackoff
    /\ suspects = {}
    /\ clock = [age |-> [t \in Ids |-> 0], stale |-> {}, quiet |-> FALSE]
    /\ verified = {}

HandlerStep(t) ==
    \/ ResultWritePhaseB(t)
    \/ ResultWritePhaseBFails(t)
    \/ RegisterRetry(t)
    \/ Verify(t)
    \/ VerifyFails(t)
    \/ RegisterRepair(t)
    \/ SyncQueueStatus(t)

ReconcileStep ==
    \/ BeginReconcile
    \/ R1ReEnqueue
    \/ R2ResultState
    \/ R3PlannerQueue
    \/ R4PlanStatus
    \/ \E t \in Ids : R9VerifyStall(t)
    \/ R9Done
    \/ R9ReclaimOrphans
    \/ R10Deadletter

TimeStep == Quiet \/ \E t \in Ids : Age(t) \/ Stale(t)

Next ==
    \/ \E t \in Ids : ReportResult(t) \/ HandlerStep(t) \/ AddRetryTask(t)
    \/ PhaseA
    \/ ReconcileStep
    \/ TimeStep
    \/ Crash

Spec == Init /\ [][Next]_vars

\* Workers report, handlers run, scans come and go, time passes; the planner
\* owes nothing.  Handlers wait for scanMu, which the scan releases again and
\* again: sync.RWMutex lets the waiting readers in when a writer leaves, so
\* their fairness is strong.  Time steps are not taken inside the reconciler,
\* hence strong as well.
FairSpec ==
    /\ Spec
    /\ SF_vars(\E t \in Ids : ReportResult(t))
    /\ SF_vars(\E t \in Ids : HandlerStep(t))
    /\ SF_vars(TimeStep)
    /\ WF_vars(PhaseA \/ ReconcileStep)

-----------------------------------------------------------------------------
(* Properties.                                                             *)

\* The files, the handlers and the scan have their types; in particular a
\* reconciliation ends after MaxPasses passes, a backoff after MaxBackoff cycles
\* and a re-enqueue after MaxEnqueue attempts.
TypeOK ==
    /\ state \in CommandState
    /\ rows \in [Ids -> Row]
    /\ results \in [Ids -> ResultEntry]
    /\ handlers \in [Ids -> Handler]
    /\ nextID \in 1 .. MaxTasks
    /\ command \in {"in_progress", "failed", "dead_letter"}
    /\ verdict \in {"none", "failed"}
    /\ scan \in [step : ScanSteps, pass : 0 .. MaxPasses, repaired : BOOLEAN]
    /\ backoff \in [failures : 0 .. 4, skip : 0 .. MaxBackoff]
    /\ suspects \subseteq Ids
    /\ clock \in Clock
    /\ budget \in [faults : 0 .. budget.limit, limit : Nat, planner : BOOLEAN]
    /\ verified \subseteq Ids

LiveRows == {t \in Ids : rows[t].status = "live"}

\* The daemon's retry, its verify repair, R1's re-enqueue and R9's stall repair
\* never put two attempts at the same work into the queues at once.
OneActiveAttempt == Cardinality(LiveRows) <= 1

\* The same for behaviours in which the planner leaves the slot alone.
DaemonKeepsOneAttempt == budget.planner \/ OneActiveAttempt

\* Retry, repair and stall repair share one budget: no task of the chain is
\* enqueued with more than max_retries retries, whichever path created it.
RetryBudget == \A t \in Ids : rows[t].retries <= MaxRetries

\* So that a failing task cannot multiply: the daemon has one attempt under way
\* and no more than the budget behind it.
DaemonRetriesWithinBudget == DaemonKeepsOneAttempt /\ RetryBudget

\* Unless the planner retries as well (see OneActiveAttempt), the plan always
\* counts exactly one task for the slot, the newest of the chain: wiring,
\* rollback and re-wiring neither lose the slot nor count it twice, which
\* CanComplete would answer with a task count mismatch.
SlotKeepsMember ==
    budget.planner \/ state.required \cup state.optional = {LatestDescendant(state, 0)}

\* While no write is lost, a task the daemon verifies is completed only
\* by a verification that passed, however R2, R9 and a slow verifier interleave.
VerifiedCompletion ==
    budget.faults = 0 => \A t \in Ids : rows[t].gated /\ state.status[t] = "completed" => t \in verified

\* A completed phase has completed the work of each of its required tasks, also
\* when the planner and the daemon replace tasks while the scan looks.
CompletedPhaseIsDone ==
    state.phase = "completed" =>
        \A t \in state.phaseTasks \cap state.required : EffectiveStatus(state, t) = "completed"

\* Nothing counts as completed that is not: neither a task nor its phase.
CompletionIsEarned == VerifiedCompletion /\ CompletedPhaseIsDone

\* verify_outcome_applied_at, which releases the notification to the planner,
\* is never on the result of a task whose outcome the state does not have yet.
StampFollowsOutcome ==
    \A t \in Ids : results[t].stamped => state.status[t] \notin {"planned", "verify_pending"}

\* A terminal entry of task_states never changes: no handler, scan step or
\* reconciler pattern overwrites what another has settled
\* (ValidateTaskStateTransition: "cannot transition from terminal status").
TaskStateFinal ==
    [][\A t \in Ids : IsTerminal(state.status[t]) => state'.status[t] = state.status[t]]_vars

\* Although the planner never acts and writes of the state and queue files may
\* fail, every task of the slot ends up terminal or is replaced by another.
TaskSettles ==
    \A t \in Ids : (state.status[t] # "none")
                      ~> (IsTerminal(state.status[t]) \/ Successors(state, t) # {})

\* The result of a completed task that the daemon verifies is stamped in the
\* end, also when the write of the stamp failed or the daemon crashed before it.
StampsArrive ==
    \A t \in Ids : (rows[t].gated /\ state.status[t] = "completed") ~> results[t].stamped

\* A reported result is worked off to its end: the task and the notification.
ResultsSettle == TaskSettles /\ StampsArrive

\* A phase is never cancelled on account of a task that is closed because a
\* replacement is on its way (dependency_resolver.go, checkActivePhaseCompletion:
\* "the predecessor's raw cancelled status would otherwise drive the phase to
\* PhaseStatusCancelled").
SupersededDoesNotCancelPhase ==
    [][state.phase = "active" /\ state'.phase = "cancelled" =>
         \E t \in state.required : state'.status[t] = "cancelled"
                                     /\ t \notin state'.superseded]_vars

\* The synthetic result R10 writes for a silent planner ends the plan
\* (run_state_ops.go: "without requiring further Planner cooperation").
EscalationReachesPlan == (verdict = "failed") ~> (state.plan # "sealed")

=============================================================================
