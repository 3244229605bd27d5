----------------------------- MODULE CommandPlan -----------------------------
(***************************************************************************)
(* How a command gets its plan (internal/plan: submit*.go, inject.go,      *)
(* retry_cascade.go, state_reader.go) and how its phases advance           *)
(* (internal/daemon: dependency_resolver.go, queue_scan_phase_a_phase.go,  *)
(* reconcilers R0, R0b, R0-dispatch and R6).                               *)
(*                                                                         *)
(* The plan lives in the state file, its tasks also as rows of the worker  *)
(* queues, and the command as a row of the planner queue.  A submission    *)
(* writes the three one after the other and rolls back what it wrote when  *)
(* a write fails; the reconcilers clean up after a crash.  A plan request  *)
(* holds scanMu for reading from its first step to its last, so the scan   *)
(* and the reconcilers, which hold it for writing, never run inside one;   *)
(* other requests (add-task, results, cancel) do.  An initial submission   *)
(* also keeps the planner, worker and state locks; a phase fill gives the  *)
(* state lock back while it writes the queues.                             *)
(*                                                                         *)
(* The resolver reads the state through a cache of two seconds that plan   *)
(* requests do not invalidate.  Ages and deadlines are nondeterministic:   *)
(* a timeout may be due whenever its clock runs.  Task attempts are those  *)
(* of ResultPipeline, seen as one effective status; completion of the      *)
(* whole plan is PlanCompletion's subject.                                 *)
(***************************************************************************)
EXTENDS Naturals, Sequences, FiniteSets

CONSTANTS
    Phases,         \* the phases, as numbers in plan order
    Deferred,       \* phases of type "deferred"
    DependsOn,      \* [Phases -> SUBSET Phases]
    Timed,          \* deferred phases whose constraints set timeout_minutes
    EscalateAfter,  \* awaitingFillStallEscalateAfter
    Cached,         \* TRUE iff the reader's cache outlives a scan
    MaxTasks,       \* task IDs ever generated
    MaxAdds,        \* add-task and add-retry-task requests
    FaultKinds,     \* faults that may happen
    MaxFaults       \* and how many of them

ASSUME PlanAssumption ==
    /\ Phases \subseteq Nat \ {0} /\ IsFiniteSet(Phases)
    /\ Deferred \subseteq Phases /\ Timed \subseteq Deferred
    /\ DependsOn \in [Phases -> SUBSET Phases]
    /\ \A p \in Phases, d \in Phases : d \in DependsOn[p] => d < p
    /\ {EscalateAfter, MaxTasks, MaxAdds, MaxFaults} \subseteq Nat
    /\ FaultKinds \subseteq {"save", "queue", "crash", "disk"}

Tasks == 1..MaxTasks
NoPhase == 0
NoCache == [none |-> TRUE]
Idle == [pc |-> "idle", phase |-> NoPhase, tasks |-> {}, bad |-> FALSE]

PhaseStatus == {"absent", "pending", "awaiting_fill", "filling", "active",
                "completed", "failed", "cancelled", "timed_out"}
TerminalPhase == {"completed", "failed", "cancelled", "timed_out"}
LivePhase == {"active", "awaiting_fill", "filling", "completed"}

VARIABLES
    row,       \* the command's row in queue/planner.yaml
    seen,      \* whether the Planner ever received the command
    plan,      \* plan_status, "none" without a state file
    cancel,    \* cancel.requested
    cancelAt,  \* where a cancel request is between its os.Stat and its locks
    phases,    \* status, task_ids, cascade marker, watchdog clock
    tst,       \* task_states, "none" for a task the state does not know
    req,       \* required_task_ids
    q,         \* rows of the worker queues
    first,     \* ghost: tasks of initial submissions, except rows a failed
               \* rollback is known to have left behind
    next,      \* next fresh task ID
    adds,      \* add-task and add-retry-task requests so far
    cache,     \* the resolver's cached state
    op,        \* the plan submission under way
    trans,     \* phase transitions the running scan still has to apply
    fires,     \* in-memory watchdog fires
    signals,   \* planner signals ever queued, and the synthetic result
    faults     \* faults so far

planVars == <<plan, phases, tst, req>>
vars == <<row, seen, plan, cancel, cancelAt, phases, tst, req, q, first, next,
          adds, cache, op, trans, fires, signals, faults>>

TypeOK ==
    /\ row \in {"pending", "in_progress", "cancelled", "absent"}
    /\ plan \in {"none", "planning", "sealed"}
    /\ {seen, cancel} \subseteq BOOLEAN
    /\ cancelAt \in {"idle", "submitted", "unsubmitted"}
    /\ phases \in [Phases -> [status : PhaseStatus, ids : SUBSET Tasks,
                              cause : Phases \cup {NoPhase}, clock : BOOLEAN]]
    /\ tst \in [Tasks -> {"none", "planned", "completed", "failed"}]
    /\ q \in [Tasks -> {"none", "pending", "active", "done"}]
    /\ {req, first} \subseteq SUBSET Tasks
    /\ op.pc \in {"idle", "planned", "queued", "filling", "filled",
                  "undo_queue", "undo_state"}
    /\ fires \in [Phases -> 0..EscalateAfter]

-----------------------------------------------------------------------------
(* Faults, and who may run beside whom.                                    *)

Fault(k) == k \in FaultKinds /\ faults < MaxFaults /\ faults' = faults + 1
NoFault == UNCHANGED faults

\* scanMu held for writing: no plan request and no other scan step runs.
Exclusive == op = Idle /\ trans = <<>>

\* A request that takes queue and state locks: not inside a scan, and not
\* inside an initial submission, which keeps all of them.
Shared == trans = <<>> /\ op.pc \notin {"planned", "queued"}

\* The state file is gone, or was never there.
NoState ==
    /\ plan' = "none"
    /\ phases' = [p \in Phases |-> [status |-> "absent", ids |-> {},
                                    cause |-> NoPhase, clock |-> FALSE]]
    /\ tst' = [t \in Tasks |-> "none"]
    /\ req' = {}

Init ==
    /\ row = "pending" /\ seen = FALSE /\ plan = "none"
    /\ cancel = FALSE /\ cancelAt = "idle"
    /\ phases = [p \in Phases |-> [status |-> "absent", ids |-> {},
                                   cause |-> NoPhase, clock |-> FALSE]]
    /\ tst = [t \in Tasks |-> "none"] /\ req = {}
    /\ q = [t \in Tasks |-> "none"] /\ first = {}
    /\ next = 1 /\ adds = 0 /\ cache = NoCache
    /\ op = Idle /\ trans = <<>> /\ fires = [p \in Phases |-> 0]
    /\ signals = {} /\ faults = 0

-----------------------------------------------------------------------------
(* The command's row.                                                      *)

\* The dispatch of a pending command to the Planner.
DispatchCommand ==
    /\ Exclusive /\ row = "pending"
    /\ row' = "in_progress" /\ seen' = TRUE
    /\ UNCHANGED <<plan, cancel, cancelAt, phases, tst, req, q, first, next,
                   adds, cache, op, trans, fires, signals, faults>>

\* R0-dispatch: delivered long ago and still no state file.
R0Dispatch ==
    /\ Exclusive /\ row = "in_progress" /\ plan = "none"
    /\ row' = "pending"
    /\ UNCHANGED <<seen, plan, cancel, cancelAt, phases, tst, req, q, first,
                   next, adds, cache, op, trans, fires, signals, faults>>

\* handleQueueWriteCancelRequest looks for the state file before any lock ...
CancelRequest ==
    /\ cancelAt = "idle" /\ ~cancel /\ row # "cancelled" /\ seen
    /\ cancelAt' = IF plan = "none" THEN "unsubmitted" ELSE "submitted"
    /\ UNCHANGED <<row, seen, plan, cancel, phases, tst, req, q, first, next,
                   adds, cache, op, trans, fires, signals, faults>>

\* ... and acts on what it saw under them; a row or state that has gone
\* meanwhile is an error response.
CancelApply ==
    /\ Shared /\ cancelAt # "idle"
    /\ cancelAt' = "idle"
    /\ cancel' = (cancel \/ (cancelAt = "submitted" /\ plan # "none"))
    /\ row' = IF cancelAt = "unsubmitted" /\ row \in {"pending", "in_progress"}
              THEN "cancelled" ELSE row
    /\ UNCHANGED <<seen, plan, phases, tst, req, q, first, next, adds, cache,
                   op, trans, fires, signals, faults>>

-----------------------------------------------------------------------------
(* Initial submission.                                                     *)

\* buildPhaseCommandState: concrete phases start active with their tasks,
\* deferred phases wait for their dependencies.
BuildState(T) ==
    /\ plan' = "planning"
    /\ phases' = [p \in Phases |->
          [status |-> IF p \in Deferred THEN "pending" ELSE "active",
           ids |-> IF p \in Deferred THEN {} ELSE T,
           cause |-> NoPhase, clock |-> FALSE]]
    /\ tst' = [t \in Tasks |-> IF t \in T THEN "planned" ELSE "none"]
    /\ req' = T

\* checkCommandNotCancelled and the double-submit check, under all locks.
NotCancelled == row # "cancelled"
InitialAllowed == NotCancelled /\ plan = "none"

\* Queue files are rewritten one worker at a time: AppendRows for all of T,
\* AppendSome when a write fails on the way, RemoveRows for a rollback.
AppendRows(T) == q' = [t \in Tasks |-> IF t \in T THEN "pending" ELSE q[t]]
AppendSome(T) == \E W \in SUBSET T : AppendRows(W)
RemoveRows(T) == q' = [t \in Tasks |-> IF t \in T THEN "none" ELSE q[t]]

\* The state is saved as planning, with all locks kept.
SubmitStart ==
    /\ Exclusive /\ seen /\ InitialAllowed
    /\ next \in Tasks /\ next' = next + 1
    /\ \/ /\ NoFault
          /\ BuildState({next})
          /\ op' = [Idle EXCEPT !.pc = "planned", !.tasks = {next}]
       \/ Fault("save") /\ UNCHANGED planVars /\ op' = op
    /\ first' = first \cup {next}
    /\ UNCHANGED <<row, seen, cancel, cancelAt, q, adds, cache, trans, fires,
                   signals>>

\* rollbackStateAndQueueLocked; when the rows cannot be removed either
\* ("disk"), that is only logged, and those written stay, known to be lost.
SubmitRollback ==
    /\ op' = Idle
    /\ NoState
    /\ \/ (Fault("queue") \/ Fault("save")) /\ RemoveRows(op.tasks) /\ first' = first
       \/ Fault("disk") /\ AppendSome(op.tasks) /\ first' = first \ op.tasks

SubmitQueue ==
    /\ op.pc = "planned"
    /\ \/ /\ NoFault /\ AppendRows(op.tasks)
          /\ op' = [op EXCEPT !.pc = "queued"]
          /\ UNCHANGED <<planVars, first>>
       \/ SubmitRollback
    /\ UNCHANGED <<row, seen, cancel, cancelAt, next, adds, cache,
                   trans, fires, signals>>

\* The plan is sealed.
SubmitSeal ==
    /\ op.pc = "queued"
    /\ \/ /\ NoFault /\ plan' = "sealed" /\ op' = Idle
          /\ UNCHANGED <<phases, tst, req, q, first>>
       \/ SubmitRollback
    /\ UNCHANGED <<row, seen, cancel, cancelAt, next, adds, cache,
                   trans, fires, signals>>

-----------------------------------------------------------------------------
(* Phase fill.                                                             *)

\* submitPhaseFill's checks.
FillAllowed(p) ==
    /\ plan = "sealed" /\ ~cancel
    /\ p \in Deferred /\ phases[p].status = "awaiting_fill"

\* rollbackPhaseFillToAwaiting restarts the watchdog clock.
FillRejected(p) == phases' = [phases EXCEPT ![p].clock = TRUE]

\* The phase goes to filling under the state lock, its watchdog clock off.
\* A worker assignment that fails puts it back; when that write fails too,
\* the phase is left filling.
FillStart(p) ==
    /\ Exclusive /\ FillAllowed(p)
    /\ next \in Tasks /\ next' = next + 1
    /\ \/ Fault("queue") /\ FillRejected(p) /\ op' = op
       \/ /\ phases' = [phases EXCEPT ![p] = [@ EXCEPT !.status = "filling",
                                                       !.clock = FALSE]]
          /\ \/ Fault("disk") /\ op' = op
             \/ /\ NoFault
                /\ op' = [Idle EXCEPT !.pc = "filling", !.phase = p,
                                      !.tasks = {next}]
    /\ UNCHANGED <<row, seen, plan, cancel, cancelAt, tst, req, q, first,
                   adds, cache, trans, fires, signals>>

\* A failing step is undone; bad, when the undoing will fail as well.
Undo(k) == \/ Fault(k) /\ op' = [op EXCEPT !.pc = "undo_queue"]
           \/ Fault("disk") /\ op' = [op EXCEPT !.pc = "undo_queue",
                                                !.bad = TRUE]

\* The rows, under the worker locks only.
FillQueue ==
    /\ op.pc = "filling"
    /\ \/ /\ NoFault /\ AppendRows(op.tasks)
          /\ op' = [op EXCEPT !.pc = "filled"]
       \/ Undo("queue") /\ AppendSome(op.tasks)
    /\ UNCHANGED <<row, seen, plan, cancel, cancelAt, phases, tst, req, first,
                   next, adds, cache, trans, fires, signals>>

\* reloadPhaseFillState: the phase is still this fill's.
FillStillMine == plan = "sealed" /\ phases[op.phase].status = "filling"

ApplyFillTasks ==
    /\ phases' = [phases EXCEPT ![op.phase] = [@ EXCEPT
          !.status = "active", !.ids = phases[op.phase].ids \cup op.tasks]]
    /\ tst' = [t \in Tasks |-> IF t \in op.tasks THEN "planned" ELSE tst[t]]
    /\ req' = req \cup op.tasks

\* The phase gets its tasks and becomes active, in one write of the state.
FillActivate ==
    /\ op.pc = "filled"
    /\ \/ FillStillMine /\ ApplyFillTasks /\ NoFault /\ op' = Idle
       \/ Undo("save") /\ UNCHANGED <<phases, tst, req>>
    /\ UNCHANGED <<row, seen, plan, cancel, cancelAt, q, first, next, adds,
                   cache, trans, fires, signals>>

\* rollbackFullPhaseFill: the rows go first ...
FillUndoQueue ==
    /\ op.pc = "undo_queue"
    /\ IF op.bad THEN UNCHANGED q ELSE RemoveRows(op.tasks)
    /\ op' = [op EXCEPT !.pc = "undo_state"]
    /\ UNCHANGED <<row, seen, plan, cancel, cancelAt, phases, tst, req, first,
                   next, adds, cache, trans, fires, signals, faults>>

\* rollbackPhaseFillState: the tasks leave the state.
StripTasks(p, T) ==
    /\ tst' = [t \in Tasks |-> IF t \in T THEN "none" ELSE tst[t]]
    /\ req' = req \ T
    /\ phases' = [phases EXCEPT ![p] = [@ EXCEPT
          !.ids = phases[p].ids \ T,
          !.clock = (phases[p].clock \/ phases[p].status = "filling"),
          !.status = IF phases[p].status = "filling" THEN "awaiting_fill"
                     ELSE phases[p].status]]

\* ... then the state as it now is: back to awaiting_fill with a new clock
\* if the phase is still filling, and without the tasks.  A rollback that
\* failed is reported to the Planner.
FillUndoState ==
    /\ op.pc = "undo_state"
    /\ op' = Idle
    /\ StripTasks(op.phase, op.tasks)
    /\ signals' = IF op.bad THEN signals \cup {<<"paused_for_replan", op.phase>>}
                  ELSE signals
    /\ UNCHANGED <<row, seen, plan, cancel, cancelAt, q, first, next, adds,
                   cache, trans, fires, faults>>

-----------------------------------------------------------------------------
(* Requests that add tasks, and the workers.                               *)

\* Mutant: the state is saved before the row is written.
StateFirst(S) ==
    /\ next' = next + 1 /\ adds' = adds + 1
    /\ \/ NoFault /\ S /\ q' = [q EXCEPT ![next] = "pending"]
       \/ Fault("crash") /\ S /\ UNCHANGED q

\* Row first, state second, both under their locks; a failed save takes the
\* row back.  The daemon may stop between the two.
WriteTask(S) ==
    /\ next' = next + 1 /\ adds' = adds + 1
    /\ \/ NoFault /\ S /\ q' = [q EXCEPT ![next] = "pending"]
       \/ /\ Fault("crash")
          /\ q' = [q EXCEPT ![next] = "pending"]
          /\ op' = Idle /\ cache' = NoCache /\ fires' = [p \in Phases |-> 0]
          /\ UNCHANGED planVars

\* validateInjectRequest.
InjectAllowed == plan = "sealed" /\ ~cancel

\* The named phase, or that of a dependency, of the worker, or the first
\* open one; never a cancelled one.
InjectTargets == {p \in Phases : phases[p].status # "cancelled"}

\* A completed or failed phase is reopened for its new task.
ReopenForTask(s) == IF s \in {"completed", "failed"} THEN "active" ELSE s

AddTask(p, required) ==
    /\ Shared /\ adds < MaxAdds /\ next \in Tasks
    /\ InjectAllowed /\ p \in InjectTargets
    /\ WriteTask(
          /\ phases' = [phases EXCEPT ![p] = [@ EXCEPT
                !.ids = phases[p].ids \cup {next},
                !.status = ReopenForTask(phases[p].status)]]
          /\ tst' = [tst EXCEPT ![next] = "planned"]
          /\ req' = IF required THEN req \cup {next} ELSE req
          /\ UNCHANGED <<plan, op, cache, fires>>)
    /\ UNCHANGED <<row, seen, cancel, cancelAt, first, trans, signals>>

\* AddRetryTask replaces a failed task and reopens a failed phase.
AddRetryTask(t) ==
    /\ Shared /\ adds < MaxAdds /\ next \in Tasks
    /\ plan = "sealed" /\ ~cancel /\ tst[t] = "failed"
    /\ \E p \in Phases :
       /\ t \in phases[p].ids /\ phases[p].status \in {"active", "failed"}
       /\ WriteTask(
             /\ phases' = [phases EXCEPT ![p] = [@ EXCEPT
                   !.ids = (phases[p].ids \ {t}) \cup {next}, !.status = "active"]]
             /\ tst' = [tst EXCEPT ![next] = "planned"]
             /\ req' = IF t \in req THEN (req \ {t}) \cup {next} ELSE req
             /\ UNCHANGED <<plan, op, cache, fires>>)
    /\ UNCHANGED <<row, seen, cancel, cancelAt, first, trans, signals>>

\* A scan hands a pending row to its worker (TaskQueue has the details); it
\* does not ask whether the state knows the task.
DispatchTask(t) ==
    /\ Exclusive /\ q[t] = "pending" /\ ~cancel
    /\ q' = [q EXCEPT ![t] = "active"]
    /\ UNCHANGED <<row, seen, plan, cancel, cancelAt, phases, tst, req, first,
                   next, adds, cache, op, trans, fires, signals, faults>>

\* The worker's result; a task the state does not know only ends its row.
Result(t, s) ==
    /\ Shared /\ q[t] = "active"
    /\ q' = [q EXCEPT ![t] = "done"]
    /\ tst' = IF tst[t] = "planned" THEN [tst EXCEPT ![t] = s] ELSE tst
    /\ UNCHANGED <<row, seen, plan, cancel, cancelAt, phases, req, first,
                   next, adds, cache, op, trans, fires, signals, faults>>

-----------------------------------------------------------------------------
(* The phase machine (CheckPhaseTransitions and its helpers), on a view v  *)
(* of the state.                                                           *)

Disk == [phases |-> phases, tst |-> tst, req |-> req]

\* loadStateWithCache: the cached state while it lasts, or the file.
Views == {Disk} \cup (IF Cached /\ cache # NoCache THEN {cache} ELSE {})

\* What an active phase becomes: only its required tasks fail it, an
\* optional failure is tolerated, and a phase without tasks stays.
ActivePhaseNext(v, p) ==
    LET ids == v.phases[p].ids
        required == ids \cap v.req IN
    IF \E t \in required : v.tst[t] = "failed" THEN "failed"
    ELSE IF ids # {} /\ \A t \in ids : \/ v.tst[t] = "completed"
                                       \/ v.tst[t] = "failed" /\ t \notin required
    THEN "completed" ELSE "active"

\* The statuses pass 2 sees: the active phases' new ones are reflected, but
\* not a completion the merge gate refuses.
Reflected(v, gated) ==
    [p \in Phases |->
       IF v.phases[p].status # "active" THEN v.phases[p].status
       ELSE LET s == ActivePhaseNext(v, p) IN
            IF s = "completed" /\ p \in gated THEN "active" ELSE s]

Transition(p, new, cause) == [phase |-> p, new |-> new, cause |-> cause]

\* checkActivePhaseCompletion.
CompletionResults(v, st) ==
    {Transition(p, st[p], NoPhase) :
        p \in {p \in Phases : v.phases[p].status = "active" /\ st[p] # "active"}}

\* checkAwaitingFillTimeout, for the phases whose deadline has passed.
TimeoutResults(v, late) ==
    {Transition(p, "timed_out", NoPhase) :
        p \in {p \in late : v.phases[p].status = "awaiting_fill"}}

\* checkPendingPhaseCascade: the first dependency that ended badly.
DeadDeps(st, p) == {d \in DependsOn[p] : st[d] \in TerminalPhase \ {"completed"}}
CascadeResults(v, st) ==
    {Transition(p, "cancelled",
                CHOOSE d \in DeadDeps(st, p) : \A e \in DeadDeps(st, p) : d <= e) :
        p \in {p \in Phases : v.phases[p].status = "pending"
                              /\ DeadDeps(st, p) # {}}}

\* checkPendingPhaseActivation.
ActivationResults(v, st) ==
    {Transition(p, "awaiting_fill", NoPhase) :
        p \in {p \in Phases : v.phases[p].status = "pending"
                 /\ \A d \in DependsOn[p] : st[d] = "completed"}}

\* checkCancelledPhaseRecovery.
RecoveryResults(v, st) ==
    {Transition(p, "pending", NoPhase) :
        p \in {p \in Phases : /\ v.phases[p].status = "cancelled"
                              /\ v.phases[p].cause # NoPhase
                              /\ st[v.phases[p].cause] \in LivePhase}}

\* All transitions one check asks for.
CheckPhaseTransitions(v, gated, late) ==
    LET st == Reflected(v, gated)
    IN  CompletionResults(v, st) \cup TimeoutResults(v, late)
        \cup CascadeResults(v, st) \cup ActivationResults(v, st)
        \cup RecoveryResults(v, st)

\* phaseTransitionPriority.
Priority(s) ==
    CASE s = "failed" -> 0 [] s = "cancelled" -> 1 [] s = "timed_out" -> 2
      [] s = "completed" -> 3 [] s = "awaiting_fill" -> 4 [] OTHER -> 5

\* sortPhaseTransitions and deduplicatePhaseTransitions: by priority, then
\* in plan order, one per phase.
Before(a, b) == \/ Priority(a.new) < Priority(b.new)
                \/ Priority(a.new) = Priority(b.new) /\ a.phase < b.phase
Sorted(T) == CHOOSE s \in [1..Cardinality(T) -> T] :
                /\ \A i, j \in DOMAIN s : i < j => Before(s[i], s[j])

\* Mutant: a terminal phase has no way out.
NoRecovery(from, to) ==
    <<from, to>> \in
       {<<"pending", "awaiting_fill">>, <<"pending", "cancelled">>,
        <<"pending", "failed">>, <<"awaiting_fill", "timed_out">>,
        <<"awaiting_fill", "failed">>, <<"filling", "awaiting_fill">>,
        <<"filling", "failed">>, <<"active", "completed">>,
        <<"active", "failed">>, <<"active", "cancelled">>}

ValidPhaseTransition(from, to) ==
    <<from, to>> \in
       {<<"pending", "awaiting_fill">>, <<"pending", "cancelled">>,
        <<"pending", "failed">>, <<"awaiting_fill", "timed_out">>,
        <<"awaiting_fill", "failed">>, <<"filling", "awaiting_fill">>,
        <<"filling", "failed">>, <<"active", "completed">>,
        <<"active", "failed">>, <<"active", "cancelled">>,
        <<"cancelled", "pending">>}

\* ApplyPhaseTransition: the new status, and the clock of awaiting_fill.
PhaseAfter(ph, new) ==
    [ph EXCEPT !.status = new,
               !.clock = \/ new = "awaiting_fill"
                         \/ @ /\ ph.status # "awaiting_fill"]

\* stepPhaseTransitions: the check ...
ScanCheck(gated, late) ==
    /\ Exclusive /\ row = "in_progress" /\ plan # "none"
    /\ \E v \in Views :
          LET T == CheckPhaseTransitions(v, gated, late) IN
          /\ T # {} \/ cache # v
          /\ trans' = Sorted(T)
          /\ cache' = IF Cached THEN v ELSE NoCache
    /\ UNCHANGED <<row, seen, plan, cancel, cancelAt, phases, tst, req, q,
                   first, next, adds, op, fires, signals, faults>>

\* ... and ApplyPhaseTransition for each result, which judges the status on
\* disk and drops the cache.  A transition that is not valid any more, or
\* cannot be saved, is skipped.  A cascade or a recovery has a marker to
\* write next.
ScanApply ==
    /\ trans # <<>> /\ Head(trans).new # "mark"
    /\ LET tr == Head(trans)
           p == tr.phase
           valid == plan # "none" /\ ValidPhaseTransition(phases[p].status, tr.new)
           marker == tr.new = "pending" \/ tr.cause # NoPhase
       IN \/ /\ valid /\ NoFault
             /\ phases' = [phases EXCEPT ![p] = PhaseAfter(@, tr.new)]
             /\ cache' = NoCache
             /\ trans' = (IF marker THEN <<[tr EXCEPT !.new = "mark"]>>
                          ELSE <<>>) \o Tail(trans)
             /\ signals' = signals \cup
                   (IF tr.new \in {"awaiting_fill", "timed_out"}
                    THEN {<<tr.new, p>>} ELSE {})
          \/ /\ (~valid /\ NoFault) \/ Fault("save")
             /\ trans' = Tail(trans)
             /\ UNCHANGED <<phases, cache, signals>>
    /\ UNCHANGED <<row, seen, plan, cancel, cancelAt, tst, req, q, first,
                   next, adds, op, fires>>

\* The marker of a cascade is a second write: set with the cancellation,
\* cleared with the recovery.
SetPhaseCancelledReason ==
    /\ trans # <<>> /\ Head(trans).new = "mark"
    /\ \/ /\ NoFault
          /\ phases' = [phases EXCEPT ![Head(trans).phase].cause =
                                          Head(trans).cause]
          /\ cache' = NoCache
       \/ Fault("save") /\ UNCHANGED <<phases, cache>>
    /\ trans' = Tail(trans)
    /\ UNCHANGED <<row, seen, plan, cancel, cancelAt, tst, req, q, first,
                   next, adds, op, fires, signals>>

\* escalateAwaitingFillStall: the phase fails if its status on disk allows.
Escalate(p) ==
    phases' = IF ValidPhaseTransition(phases[p].status, "failed")
              THEN [phases EXCEPT ![p] = PhaseAfter(@, "failed")] ELSE phases

\* stepAwaitingFillWatchdog: a stall prompt each time the threshold passes
\* while the phase's clock runs; enough of them, or a Planner that only
\* looks active for too long, fail the phase.
Watchdog(p) ==
    /\ Exclusive /\ row = "in_progress" /\ plan # "none" /\ ~cancel
    /\ \E v \in Views : v.phases[p].status = "awaiting_fill"
                        /\ v.phases[p].clock
    /\ \/ /\ fires[p] + 1 < EscalateAfter
          /\ fires' = [fires EXCEPT ![p] = @ + 1]
          /\ signals' = signals \cup {<<"stall", p>>}
          /\ UNCHANGED phases
       \/ /\ fires[p] + 1 >= EscalateAfter
          /\ fires' = [fires EXCEPT ![p] = 0]
          /\ signals' = signals \cup {<<"stall", p>>, <<"command_failed", p>>}
          /\ Escalate(p)
    /\ cache' = NoCache
    /\ UNCHANGED <<row, seen, plan, cancel, cancelAt, tst, req, q, first,
                   next, adds, op, trans, faults>>

\* A phase that has left awaiting_fill starts counting anew.
WatchdogReset(p) ==
    /\ Exclusive /\ fires[p] > 0 /\ phases[p].status # "awaiting_fill"
    /\ fires' = [fires EXCEPT ![p] = 0]
    /\ UNCHANGED <<row, seen, plan, cancel, cancelAt, phases, tst, req, q,
                   first, next, adds, cache, op, trans, signals, faults>>

-----------------------------------------------------------------------------
(* Reconcilers.                                                            *)

Unsent(T) == {t \in T : q[t] = "pending"}
Without(T) == [t \in Tasks |-> IF t \in T THEN "none" ELSE q[t]]

\* The daemon stops inside a reconciler: memory is gone, nothing more is
\* written.
StopHere ==
    /\ Fault("crash") /\ UNCHANGED <<planVars, signals>>
    /\ cache' = NoCache /\ fires' = [p \in Phases |-> 0]

\* R0's veto: a row of the command that was dispatched and has not ended.
NoneActive(T) == \A t \in T : q[t] # "active"

\* The plan is gone and reported failed.
TearDown ==
    /\ NoFault /\ NoState
    /\ signals' = signals \cup {<<"result_failed", NoPhase>>}
    /\ UNCHANGED <<cache, fires>>

\* Mutant: rows that ended count as dispatched ones.
R0VetoesEnded ==
    /\ Exclusive /\ plan = "planning"
    /\ \A t \in Tasks : q[t] \in {"none", "pending"}
    /\ q' = Without(Unsent(Tasks)) /\ row' = "absent"
    /\ TearDown \/ StopHere
    /\ UNCHANGED <<seen, cancel, cancelAt, first, next, adds, op, trans>>

\* Mutant: the rows are left in the worker queues.
R0KeepsRows ==
    /\ Exclusive /\ plan = "planning" /\ NoneActive(Tasks)
    /\ row' = "absent" /\ UNCHANGED q
    /\ TearDown \/ StopHere
    /\ UNCHANGED <<seen, cancel, cancelAt, first, next, adds, op, trans>>

\* R0: a plan left in planning is torn down, rows first, then the state; on
\* a veto everything is put back.
R0PlanningStuck ==
    /\ Exclusive /\ plan = "planning" /\ NoneActive(Tasks)
    /\ q' = Without(Unsent(Tasks)) /\ row' = "absent"
    /\ TearDown \/ StopHere
    /\ UNCHANGED <<seen, cancel, cancelAt, first, next, adds, op, trans>>

\* Phase 3 of R0b: the phase loses the tasks it has and waits for another
\* fill; the clock that FillStart turned off stays off.
RevertToAwaiting(p) ==
    /\ NoFault
    /\ phases' = [phases EXCEPT ![p] =
                      [@ EXCEPT !.status = "awaiting_fill", !.ids = {}]]
    /\ tst' = [t \in Tasks |-> IF t \in phases[p].ids THEN "none" ELSE tst[t]]
    /\ req' = req \ phases[p].ids
    /\ signals' = signals \cup {<<"refill", p>>}
    /\ UNCHANGED <<plan, cache, fires>>

\* Mutant: a phase without tasks has nothing to revert.
R0bSkipsEmpty(p) ==
    /\ Exclusive /\ plan # "none" /\ phases[p].status = "filling"
    /\ phases[p].ids # {} /\ NoneActive(phases[p].ids)
    /\ q' = Without(Unsent(phases[p].ids))
    /\ RevertToAwaiting(p) \/ StopHere
    /\ UNCHANGED <<row, seen, cancel, cancelAt, first, next, adds, op, trans>>

\* R0b: a phase left in filling is reverted; a dispatched task of the phase
\* vetoes it.
R0bFillingStuck(p) ==
    /\ Exclusive /\ plan # "none" /\ phases[p].status = "filling"
    /\ NoneActive(phases[p].ids)
    /\ q' = Without(Unsent(phases[p].ids))
    /\ RevertToAwaiting(p) \/ StopHere
    /\ UNCHANGED <<row, seen, cancel, cancelAt, first, next, adds, op, trans>>

\* Every pending or awaiting phase that depends on p, directly or through other
\* such phases: the least set of phases with p that is closed under that.
Dependents(p) ==
    LET Closed(X) == \A r \in Phases :
            phases[r].status \in {"pending", "awaiting_fill"} /\ DependsOn[r] \cap X # {} => r \in X
    IN {r \in Phases \ {p} : \A X \in SUBSET Phases : p \in X /\ Closed(X) => r \in X}

\* R6: the fill deadline passed; the signal is queued first, then the phase
\* times out and its dependents are cancelled, without a marker.
R6FillTimeout(p) ==
    /\ Exclusive /\ plan # "none"
    /\ p \in Timed /\ phases[p].status = "awaiting_fill"
    /\ signals' = signals \cup {<<"timed_out", p>>}
    /\ \/ /\ NoFault
          /\ phases' = [r \in Phases |->
                IF r = p THEN [phases[r] EXCEPT !.status = "timed_out"]
                ELSE IF r \in Dependents(p)
                THEN [phases[r] EXCEPT !.status = "cancelled"]
                ELSE phases[r]]
       \/ Fault("save") /\ UNCHANGED phases
    /\ UNCHANGED <<row, seen, plan, cancel, cancelAt, tst, req, q, first,
                   next, adds, cache, op, trans, fires>>

\* The daemon stops: what only memory held is gone.
Crash ==
    /\ Fault("crash")
    /\ op' = Idle /\ trans' = <<>> /\ cache' = NoCache
    /\ fires' = [p \in Phases |-> 0] /\ cancelAt' = "idle"
    /\ UNCHANGED <<row, seen, plan, cancel, phases, tst, req, q, first, next,
                   adds, signals>>

-----------------------------------------------------------------------------
Submission == SubmitStart \/ SubmitQueue \/ SubmitSeal
FillStep == FillQueue \/ FillActivate \/ FillUndoQueue \/ FillUndoState
ScanStep == ScanApply \/ SetPhaseCancelledReason

Next ==
    \/ DispatchCommand \/ R0Dispatch \/ CancelRequest \/ CancelApply
    \/ Submission \/ FillStep \/ ScanStep
    \/ \E p \in Phases :
          \/ FillStart(p) \/ Watchdog(p) \/ WatchdogReset(p)
          \/ R0bFillingStuck(p) \/ R6FillTimeout(p)
          \/ \E required \in BOOLEAN : AddTask(p, required)
    \/ \E t \in Tasks :
          \/ AddRetryTask(t) \/ DispatchTask(t)
          \/ \E s \in {"completed", "failed"} : Result(t, s)
    \/ \E gated \in SUBSET Phases, late \in SUBSET Timed : ScanCheck(gated, late)
    \/ R0PlanningStuck \/ Crash

Spec == Init /\ [][Next]_vars

(* A request that was accepted runs to its end.  The scan comes round      *)
(* again and again between requests and runs all of its steps each time:   *)
(* its phase step, with all merges recorded at last and the cache expired, *)
(* its watchdog, its dispatch and its reconcilers (strong fairness, since  *)
(* a request or a scan under way disables them for a while).  Workers      *)
(* finish.  Nothing obliges the Planner to submit, fill or retry.          *)
FreshCheck ==
    /\ Exclusive /\ row = "in_progress" /\ plan # "none"
    /\ trans' = Sorted(CheckPhaseTransitions(Disk, {}, {}))
    /\ trans' # <<>>
    /\ cache' = IF Cached THEN Disk ELSE NoCache
    /\ UNCHANGED <<row, seen, plan, cancel, cancelAt, phases, tst, req, q,
                   first, next, adds, op, fires, signals, faults>>

Repair == R0PlanningStuck \/ \E p \in Phases : R0bFillingStuck(p)
Work == \E t \in Tasks : \/ DispatchTask(t)
                         \/ \E s \in {"completed", "failed"} : Result(t, s)

FairSpec ==
    /\ Spec
    /\ WF_vars(SubmitQueue \/ SubmitSeal \/ FillStep \/ ScanStep)
    /\ SF_vars(FreshCheck) /\ SF_vars(Repair) /\ SF_vars(Work)

WatchedSpec == FairSpec /\ SF_vars(\E p \in Phases : Watchdog(p))

-----------------------------------------------------------------------------
(* Properties.                                                             *)

Live(t) == q[t] \in {"pending", "active"}

\* The state and the queues agree on what is planned: a task the state counts
\* as planned in an active phase has a queue row, whatever was rolled back,
\* torn down or interrupted (rollbackFullPhaseFill, R0, R0b, AddTask).
PlannedHasRow ==
    \A p \in Phases : phases[p].status = "active" /\ plan = "sealed" =>
        \A t \in phases[p].ids : tst[t] = "planned" => Live(t)

\* Two submissions of the same command never leave two sets of rows to run:
\* the state file makes the second one a double submit until R0 has removed
\* the rows of the first (lockInitialStateForWrite, R0PlanningStuck).
OneInitialPlan ==
    op = Idle => Cardinality({t \in first : Live(t)}) <= 1

\* R0 ends every submission that stopped half-way.
PlanningEnds == plan = "planning" ~> plan # "planning"

\* R0b, the rollback or the activation ends every fill, unless a task added
\* to the phase runs meanwhile.
FillingEnds == \A p \in Phases :
    phases[p].status = "filling" ~> phases[p].status # "filling"

\* A phase cancelled because of a phase that lives again is opened again, or
\* its cause is gone again (checkCancelledPhaseRecovery).
Revived(p) ==
    /\ plan = "sealed" /\ row = "in_progress"
    /\ phases[p].status = "cancelled" /\ phases[p].cause # NoPhase
    /\ phases[phases[p].cause].status \in LivePhase
CascadeRecovers == \A p \in Phases : Revived(p) ~> ~Revived(p)

\* No plan is left half-way for ever by a submission, a fill or a cascade that
\* failed or died in the middle.
PlanSettles == PlanningEnds /\ FillingEnds /\ CascadeRecovers

\* The watchdog prompts a Planner that leaves a phase waiting for its fill
\* ("re-fires at every `threshold` interval as long as the phase remains in
\* awaiting_fill").
StallIsPrompted == \A p \in Phases :
    phases[p].status = "awaiting_fill" /\ ~cancel /\ row = "in_progress"
        ~> \/ <<"stall", p>> \in signals
           \/ phases[p].status # "awaiting_fill" \/ cancel
           \/ row # "in_progress"

\* A phase is completed only when the tasks it has are done.
CompletedIsDone == [][\A p \in Phases :
    phases[p].status = "active" /\ phases'[p].status = "completed" =>
        \A t \in phases[p].ids : tst[t] # "planned"]_vars
=============================================================================
