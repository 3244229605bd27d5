------------------------------ MODULE TaskQueue ------------------------------
(***************************************************************************)
(* The task queues of the daemon and the three-phase periodic scan that    *)
(* drives them, together with the two handlers a worker calls back into.   *)
(*                                                                         *)
(* A worker's queue file (queue/<worker>.yaml) holds one row per task; its *)
(* result file (results/<worker>.yaml) holds the results reported for its  *)
(* tasks.  The scan leases pending rows in Phase A (under scanMu), sends   *)
(* prompts and probes panes in Phase B (no lock), and applies what Phase B *)
(* learnt in Phase C (under scanMu again, on freshly loaded files).        *)
(* Heartbeats and results arrive at any time Phase A and Phase C do not    *)
(* run: between two scans and in the middle of Phase B.                    *)
(*                                                                         *)
(* A lease is fenced by its epoch.  What a worker holds is a token: a task *)
(* and the epoch its prompt carried.  It may use a token at any later time *)
(* and any number of times, so late, repeated and reordered calls are all  *)
(* behaviours of the model.                                                *)
(***************************************************************************)
EXTENDS Integers

CONSTANTS
    Tasks,                 \* task IDs of one command
    Workers,               \* worker IDs
    OwnerOf,               \* the worker whose queue file holds the task
    Dependents,            \* tasks with a non-empty blocked_by
    Resumable,             \* tasks for which Task.ResumeEligible() holds
    DispatchLease,         \* watcher.dispatch_lease_sec
    GraceTTL,              \* lease.Manager.GraceLeaseTTL
    MaxInProgress,         \* watcher.max_in_progress_min
    GraceLimit,            \* maxGraceLeaseDuration
    HangCooldown,          \* hangReleaseCooldown
    MaxAttempts,           \* retry.task_dispatch
    MaxProgressInterrupts, \* retry.task_progress_interrupts
    MaxResume,             \* retry.task_resume
    MaxTime,               \* bound: the clock stops there
    MaxFaults,             \* bound: number of faults in a behaviour
    FaultKinds             \* which faults happen: subset of AllFaultKinds

AllFaultKinds == {"crash", "flush", "orphan"}

ASSUME OwnerAssumption == OwnerOf \in [Tasks -> Workers]
ASSUME TaskSetsAssumption == Dependents \subseteq Tasks /\ Resumable \subseteq Tasks
ASSUME DurationAssumption ==
    /\ DispatchLease \in Nat \ {0}
    /\ GraceTTL \in Nat \ {0}
    /\ MaxInProgress \in Nat \ {0}
    /\ GraceLimit \in Nat
    /\ HangCooldown \in Nat
ASSUME BudgetAssumption ==
    /\ MaxAttempts \in Nat \ {0}
    /\ MaxProgressInterrupts \in Nat
    /\ MaxResume \in Nat
ASSUME BoundAssumption ==
    /\ MaxTime \in Nat
    /\ MaxFaults \in Nat
    /\ FaultKinds \subseteq AllFaultKinds

VARIABLES
    rows,            \* the rows of the queue files
    results,         \* the entries of the result files
    phase,           \* "idle" between scans, "B" from the end of Phase A
    work,            \* deferredWork: what Phase A left for Phases B and C
    cancelSeen,      \* cancelledCommandIDs of the scan and the cancel cache
    cancelRequested, \* state.Cancel.Requested of the command
    dep,             \* effective status of each task's dependencies
    delivered,       \* tokens that reached a worker pane
    now,             \* the clock, in the resolution of the stored timestamps
    faults           \* faults so far

vars == <<rows, results, phase, work, cancelSeen, cancelRequested, dep,
          delivered, now, faults>>

scanVars == <<phase, work, cancelSeen>>

-----------------------------------------------------------------------------
(* Rows, results and deferred work.                                        *)

Nil == -1  \* an absent timestamp

TerminalStatuses == {"completed", "failed", "cancelled", "dead_letter"}
ResultStatuses   == {"completed", "failed", "cancelled"}

\* A row that was archived and removed by the dead-letter step keeps the status
\* "dead_letter" here.  lease_owner is set and cleared together with
\* lease_expires_at and is not a field of its own.
Row == [status          : {"pending", "in_progress"} \cup TerminalStatuses,
        epoch           : Nat,
        expiresAt       : Nat \cup {Nil},
        updatedAt       : Nat,
        inProgressAt    : Nat \cup {Nil},
        attempts        : Nat,
        chargedEpoch    : Nat,
        progressEpoch   : Nat,
        interrupts      : Nat,
        resumeAttempts  : Nat,
        resumeRequested : BOOLEAN,
        notBefore       : Nat]

Result == [task : Tasks, status : ResultStatuses, epoch : Nat, at : Nat]

\* What Phase A recorded about one task: a dispatch item with its Phase B
\* outcome, a busy-check item, a cancel mark, and the snapshot they carry.
Work == [dispatch  : {"none", "todo", "ok", "failed", "uncertain", "rejected"},
         busyCheck : BOOLEAN,
         mark      : BOOLEAN,
         epoch     : Nat,
         updatedAt : Nat,
         expiresAt : Nat \cup {Nil}]

Token == [task : Tasks, epoch : Nat]

IsTerminal(status) == status \in TerminalStatuses

InProgress(r) == r.status = "in_progress"

HasResult(t) == \E res \in results : res.task = t

NewResult(t, r, status) ==
    [task |-> t, status |-> status, epoch |-> r.epoch, at |-> now]

-----------------------------------------------------------------------------
(* lease.Manager                                                           *)

IsLeaseExpired(r) == r.expiresAt = Nil \/ now > r.expiresAt

AcquireTaskLease(r) ==
    [r EXCEPT !.status = "in_progress",
              !.epoch = @ + 1,
              !.expiresAt = now + DispatchLease,
              !.updatedAt = now,
              !.inProgressAt = IF @ = Nil THEN now ELSE @]

ReleaseTaskLease(r) ==
    [r EXCEPT !.status = "pending",
              !.expiresAt = Nil,
              !.updatedAt = now,
              !.inProgressAt = Nil]

ExtendTaskLease(r, ttl) == [r EXCEPT !.expiresAt = now + ttl]

\* The lease ends together with the row: cancel marks, pane failures,
\* dependency failures, preflight rejections, results and R1 all write this.
Terminate(r, status) ==
    [r EXCEPT !.status = status, !.expiresAt = Nil, !.updatedAt = now]

-----------------------------------------------------------------------------
(* Phase A, one operator per step.  Each maps a row to the row the step    *)
(* leaves in the in-memory queue.                                          *)

\* ProcessTaskDeadLetters: runs first, looks only at pending rows.
DeadLetterStep(r) ==
    IF r.status = "pending" /\ r.attempts >= MaxAttempts
    THEN [r EXCEPT !.status = "dead_letter"]
    ELSE r

\* Mutant: rows that went back to pending after a lease are overlooked.
CancelOnlyUntouched(r) ==
    IF cancelRequested /\ r.status = "pending" /\ r.epoch = 0
    THEN Terminate(r, "cancelled")
    ELSE r

CancelPendingTasks(r) ==
    IF cancelRequested /\ r.status = "pending"
    THEN Terminate(r, "cancelled")
    ELSE r

\* What the pane of a worker shows.  "fatal" stands for a terminal error frame
\* and for a prompt that blocked the pane beyond the threshold; "idle" also for
\* a pane that could not be observed.
Verdicts == {"fatal", "active", "blocked", "uncertain", "idle"}

BlockedPaneTimeout(r, verdict) ==
    IF InProgress(r) /\ verdict = "fatal" THEN Terminate(r, "failed") ELSE r

IsMaxInProgressTimeout(updatedAt) == now - updatedAt >= MaxInProgress

IsGraceLeaseExceeded(updatedAt) ==
    now - (updatedAt + DispatchLease) >= GraceLimit

\* collectExpiredTaskBusyChecks: a live pane extends the lease on the spot ...
RecoverExpired(r, verdict) ==
    IF /\ InProgress(r) /\ IsLeaseExpired(r)
       /\ ~IsMaxInProgressTimeout(r.updatedAt)
       /\ verdict \in {"active", "blocked", "uncertain"}
    THEN [ExtendTaskLease(r, DispatchLease) EXCEPT
             !.progressEpoch = IF verdict = "active" THEN r.epoch ELSE @]
    ELSE r

\* ... and any other expired lease is probed in Phase B.
NeedsBusyCheck(r, verdict) ==
    /\ InProgress(r) /\ IsLeaseExpired(r)
    /\ \/ IsMaxInProgressTimeout(r.updatedAt)
       \/ verdict \notin {"active", "blocked", "uncertain"}

\* The dispatch charge of an acquisition: the resume budget when the last
\* hang-release asked for a resume and budget is left, else the attempts.
ChargeAcquisition(r) ==
    IF r.resumeRequested /\ r.resumeAttempts < MaxResume
    THEN [r EXCEPT !.resumeRequested = FALSE,
                   !.resumeAttempts = @ + 1]
    ELSE [r EXCEPT !.resumeRequested = FALSE,
                   !.attempts = @ + 1,
                   !.chargedEpoch = r.epoch]

\* hasExpiredLeases and buildGlobalInFlightSet, over the rows of this scan.
HasExpiredLeases(q) == \E t \in Tasks : InProgress(q[t]) /\ IsLeaseExpired(q[t])

InFlight(q, w) ==
    \E t \in Tasks : OwnerOf[t] = w /\ InProgress(q[t]) /\ ~IsLeaseExpired(q[t])

Dispatchable(q, t) ==
    /\ q[t].status = "pending"
    /\ now >= q[t].notBefore
    /\ dep[t] = "met"
    /\ ~InFlight(q, OwnerOf[t])

\* Mutant: dispatch goes on while leases are expired.
DispatchDespiteExpired(q) ==
    {D \in SUBSET {t \in Tasks : Dispatchable(q, t)} :
        \A t, u \in D : OwnerOf[t] = OwnerOf[u] => t = u}

\* collectPendingTaskDispatches leases at most one task per worker, and none
\* while any lease is expired.  Admission, path overlap, the merge gate, A/B
\* freezes and a lost tmux session may each hold a task back: D need not be
\* maximal.
DispatchSets(q) ==
    {D \in SUBSET {t \in Tasks : Dispatchable(q, t)} :
        /\ D # {} => ~HasExpiredLeases(q)
        /\ \A t, u \in D : OwnerOf[t] = OwnerOf[u] => t = u}

DispatchOrRecovery(q, D, verdict) ==
    [t \in Tasks |->
        IF t \in D THEN ChargeAcquisition(AcquireTaskLease(q[t]))
        ELSE RecoverExpired(q[t], verdict[OwnerOf[t]])]

\* checkPendingDependencyFailuresDeferred and its in_progress sibling.
DependencyFailures(r, t) ==
    IF /\ dep[t] = "failed"
       /\ \/ r.status = "pending"
          \/ InProgress(r) /\ ~IsLeaseExpired(r)
    THEN Terminate(r, "cancelled")
    ELSE r

\* Mutant: the cancel step no longer runs ahead of the dispatch step.
BeforeDispatchWithoutCancel(verdict) ==
    [t \in Tasks |->
        BlockedPaneTimeout(DeadLetterStep(rows[t]), verdict[OwnerOf[t]])]

\* The rows as stepDispatchOrRecovery finds them, and as Phase A leaves them.
BeforeDispatch(verdict) ==
    [t \in Tasks |->
        BlockedPaneTimeout(CancelPendingTasks(DeadLetterStep(rows[t])),
                           verdict[OwnerOf[t]])]

AfterPhaseA(D, verdict) ==
    LET q == DispatchOrRecovery(BeforeDispatch(verdict), D, verdict)
    IN  [t \in Tasks |-> DependencyFailures(q[t], t)]

\* The synthetic results the steps write for the rows they end: "failed" from
\* the pane and the dead-letter step (which looks for an existing result
\* first), "cancelled" from the cancel and the dependency step.
PhaseAResults(new) ==
    {NewResult(t, new[t],
               IF new[t].status = "dead_letter" THEN "failed" ELSE new[t].status) :
       t \in {u \in Tasks : /\ IsTerminal(new[u].status)
                            /\ ~IsTerminal(rows[u].status)
                            /\ new[u].status = "dead_letter" => ~HasResult(u)}}

\* Cancel marks are collected for the rows in progress when the step runs; the
\* snapshot carries the epoch, update time and expiry Phase C fences on.
PhaseAWork(new, D, verdict) ==
    [t \in Tasks |->
        [dispatch  |-> IF t \in D THEN "todo" ELSE "none",
         busyCheck |-> NeedsBusyCheck(BeforeDispatch(verdict)[t],
                                      verdict[OwnerOf[t]]),
         mark      |-> cancelRequested /\ InProgress(rows[t]),
         epoch     |-> new[t].epoch,
         updatedAt |-> new[t].updatedAt,
         expiresAt |-> new[t].expiresAt]]

NoWork ==
    [t \in Tasks |-> [dispatch |-> "none", busyCheck |-> FALSE, mark |-> FALSE,
                      epoch |-> 0, updatedAt |-> 0, expiresAt |-> Nil]]

-----------------------------------------------------------------------------
(* Phase C, one operator per apply function.                               *)

\* Mutant: the mark is applied without looking at the row's status.
CancelMarkUnchecked(r, w) ==
    IF w.mark /\ r.epoch = w.epoch THEN Terminate(r, "cancelled") ELSE r

ApplyCancelMark(r, w) ==
    IF w.mark /\ r.status \in {"in_progress", "pending"} /\ r.epoch = w.epoch
    THEN Terminate(r, "cancelled")
    ELSE r

\* checkResultFencing: status, epoch and the exact expiry of the snapshot.
FenceValid(r, w) ==
    InProgress(r) /\ r.epoch = w.epoch /\ r.expiresAt = w.expiresAt

\* Any delivery error but an unconfirmed submit releases the lease; a preflight
\* rejection ends the row.
ApplyTaskDispatchResult(r, w) ==
    CASE w.dispatch = "failed" /\ FenceValid(r, w)   -> ReleaseTaskLease(r)
      [] w.dispatch = "rejected" /\ FenceValid(r, w) -> Terminate(r, "failed")
      [] OTHER -> r

\* The budget accounting of a release after an idle probe.
HangRelease(r) ==
    LET hadProgress == r.progressEpoch = r.epoch /\ r.epoch > 0
        exempt      == hadProgress /\ r.interrupts < MaxProgressInterrupts
        refund      == exempt /\ r.chargedEpoch = r.epoch /\ r.attempts > 0
    IN  [r EXCEPT
            !.notBefore = now + HangCooldown,
            !.interrupts = IF exempt THEN @ + 1 ELSE @,
            !.attempts = IF refund THEN @ - 1
                         ELSE IF exempt THEN @ ELSE @ + 1,
            !.chargedEpoch = IF refund THEN 0 ELSE @]

\* ResumeRequested is set for a resumable task that still has resume budget.
RequestResume(t, r, before) ==
    IF r.interrupts > before.interrupts /\ t \in Resumable
         /\ r.resumeAttempts < MaxResume
    THEN [r EXCEPT !.resumeRequested = TRUE]
    ELSE r

Probes == {"busy", "idle", "undecided"}

\* Mutant: an undecided probe extends without a limit.
UndecidedAlwaysExtends(t, r, w, probe) ==
    CASE ~w.busyCheck \/ ~FenceValid(r, w) -> r
      [] probe = "undecided" -> ExtendTaskLease(r, GraceTTL)
      [] probe = "busy" -> ExtendTaskLease(r, DispatchLease)
      [] OTHER -> RequestResume(t, HangRelease(ReleaseTaskLease(r)), r)

\* applyTaskBusyCheckResult around applyBusyCheckCore.  When the fence is stale
\* the progress stamp stays in memory: nothing marks the queue file dirty.
ApplyTaskBusyCheckResult(t, r, w, probe) ==
    LET stamped == IF probe = "busy" THEN [r EXCEPT !.progressEpoch = r.epoch]
                   ELSE r
        maxed   == IsMaxInProgressTimeout(w.updatedAt)
    IN  CASE ~w.busyCheck \/ ~FenceValid(r, w) -> r
          [] OTHER ->
             CASE probe = "busy" /\ ~maxed ->
                    ExtendTaskLease(stamped, DispatchLease)
               [] probe = "undecided" /\ ~maxed
                    /\ ~IsGraceLeaseExceeded(w.updatedAt) ->
                    ExtendTaskLease(r, GraceTTL)
               [] probe = "idle" ->
                    RequestResume(t, HangRelease(ReleaseTaskLease(r)), r)
               [] OTHER -> ReleaseTaskLease(stamped)

AfterPhaseC(probe) ==
    [t \in Tasks |->
        ApplyTaskBusyCheckResult(t,
            ApplyTaskDispatchResult(ApplyCancelMark(rows[t], work[t]), work[t]),
            work[t], probe[t])]

\* Preflight results are written while results are applied, before the flush;
\* cancel results after it.
PreflightResults(new) ==
    {NewResult(t, new[t], "failed") :
        t \in {u \in Tasks : new[u].status = "failed" /\ InProgress(rows[u])}}

\* Mutant: a cancelled result is written for every mark, raced or not.
CancelResultsForAllMarks(new) ==
    {NewResult(t, new[t], "cancelled") : t \in {u \in Tasks : work[u].mark}}

CancelResults(new) ==
    {NewResult(t, new[t], "cancelled") :
        t \in {u \in Tasks : /\ new[u].status = "cancelled"
                             /\ ~IsTerminal(rows[u].status)}}

\* R1 (result terminal, queue row in progress): the result with the highest
\* epoch, then the latest, decides; results of an earlier lease are stale.
R1Candidates(t, rs) ==
    {res \in rs :
        /\ res.task = t
        /\ \A other \in rs : other.task = t =>
              \/ other.epoch < res.epoch
              \/ other.epoch = res.epoch /\ other.at <= res.at}

R1Stale(r, res) ==
    IF res.epoch > 0 THEN res.epoch < r.epoch
    ELSE r.inProgressAt # Nil /\ res.at < r.inProgressAt

R1Statuses(t, r, rs) ==
    {res.status : res \in {c \in R1Candidates(t, rs) :
                             InProgress(r) /\ ~R1Stale(r, c)}}

\* reconcileTerminalQueueItems over one row; two results of the same epoch and
\* second are told apart by their place in the file, here by either choice.
R1Outcomes(t, r, rs) ==
    IF R1Statuses(t, r, rs) = {} THEN {r}
    ELSE {Terminate(r, s) : s \in R1Statuses(t, r, rs)}

-----------------------------------------------------------------------------
(* Initial states and actions.                                             *)

Init ==
    /\ rows = [t \in Tasks |->
                 [status |-> "pending", epoch |-> 0, expiresAt |-> Nil,
                  updatedAt |-> 0, inProgressAt |-> Nil, attempts |-> 0,
                  chargedEpoch |-> 0, progressEpoch |-> 0, interrupts |-> 0,
                  resumeAttempts |-> 0, resumeRequested |-> FALSE,
                  notBefore |-> 0]]
    /\ results = {}
    /\ phase = "idle"
    /\ work = NoWork
    /\ cancelSeen = FALSE
    /\ cancelRequested = FALSE
    /\ dep = [t \in Tasks |-> IF t \in Dependents THEN "waiting" ELSE "met"]
    /\ delivered = {}
    /\ now = 0
    /\ faults = 0

\* A fault of the given kind happens in this step.
Fault(kind) ==
    /\ kind \in FaultKinds
    /\ faults < MaxFaults
    /\ faults' = faults + 1

\* The queue files of the workers in W are written, the others keep their rows.
Flushed(new, W) ==
    [t \in Tasks |-> IF OwnerOf[t] \in W THEN new[t] ELSE rows[t]]

\* The daemon loses its memory: the scan is over and its work is forgotten.
ForgetScan ==
    /\ phase' = "idle"
    /\ work' = NoWork
    /\ cancelSeen' = FALSE

\* Phase A looks at the panes of the workers that have a row in progress, Phase B
\* probes those for which a busy check was collected.
PaneVerdicts ==
    {v \in [Workers -> Verdicts] :
        \A w \in Workers : v[w] # "idle" => \E t \in Tasks : OwnerOf[t] = w /\ InProgress(rows[t])}
ProbeAnswers ==
    {p \in [Tasks -> Probes] : \A t \in Tasks : p[t] # "idle" => work[t].busyCheck}

\* Phase A: all steps under scanMu, then flushScanState.
ScanPhaseA ==
    /\ phase = "idle" /\ phase' = "B"
    /\ cancelSeen' = (cancelSeen \/ cancelRequested)
    /\ UNCHANGED <<cancelRequested, dep, delivered, now, faults>>
    /\ \E verdict \in PaneVerdicts :
       \E D \in DispatchSets(BeforeDispatch(verdict)) :
          LET new == AfterPhaseA(D, verdict)
          IN  /\ rows' = new
              /\ results' = results \cup PhaseAResults(new)
              /\ work' = PhaseAWork(new, D, verdict)

\* FlushQueues logs a failed write of a queue file and goes on: the scan
\* continues with work for rows that were not persisted.
ScanPhaseAFlushFails ==
    /\ phase = "idle"
    /\ Fault("flush")
    /\ \E verdict \in PaneVerdicts :
       \E D \in DispatchSets(BeforeDispatch(verdict)) :
       \E W \in (SUBSET Workers) \ {Workers} :
          LET new == AfterPhaseA(D, verdict)
          IN  /\ rows' = Flushed(new, W)
              /\ results' = results \cup PhaseAResults(new)
              /\ work' = PhaseAWork(new, D, verdict)
    /\ phase' = "B"
    /\ cancelSeen' = (cancelSeen \/ cancelRequested)
    /\ UNCHANGED <<cancelRequested, dep, delivered, now>>

\* The daemon dies in Phase A: the result files are written before the flush.
CrashInPhaseA ==
    /\ phase = "idle"
    /\ Fault("crash")
    /\ \E verdict \in PaneVerdicts :
       \E D \in DispatchSets(BeforeDispatch(verdict)) :
          LET new == AfterPhaseA(D, verdict)
          IN  \/ \E R \in SUBSET PhaseAResults(new) :
                    results' = results \cup R /\ UNCHANGED rows
              \/ \E W \in SUBSET Workers :
                    /\ results' = results \cup PhaseAResults(new)
                    /\ rows' = Flushed(new, W)
    /\ ForgetScan
    /\ UNCHANGED <<cancelRequested, dep, delivered, now>>

\* Phase B, stepDispatchWork for one item.  A prompt that could not be
\* confirmed ("uncertain") may or may not have reached the worker.
DispatchTask(t, outcome, received) ==
    /\ phase = "B"
    /\ work[t].dispatch = "todo"
    /\ outcome \in (IF cancelSeen THEN {"failed"}
                    ELSE {"ok", "failed", "uncertain", "rejected"})
    /\ received \in (CASE outcome = "ok" -> {TRUE}
                       [] outcome = "uncertain" -> BOOLEAN
                       [] OTHER -> {FALSE})
    /\ work' = [work EXCEPT ![t].dispatch = outcome]
    /\ delivered' = delivered \cup
          IF received THEN {[task |-> t, epoch |-> work[t].epoch]} ELSE {}
    /\ UNCHANGED <<rows, results, phase, cancelSeen, cancelRequested, dep, now,
                   faults>>

PhaseBDone == phase = "B" /\ \A t \in Tasks : work[t].dispatch # "todo"

\* Phase C: marks, dispatch results, busy checks, flush, cancel results, R1.
\* The answers of the Phase B probes enter here: nothing depends on when a
\* probe ran.
ScanPhaseC ==
    /\ PhaseBDone /\ phase' = "idle" /\ work' = NoWork
    /\ UNCHANGED <<cancelSeen, cancelRequested, dep, delivered, now, faults>>
    /\ \E probe \in ProbeAnswers :
          LET new == AfterPhaseC(probe)
              rs  == results \cup PreflightResults(new) \cup CancelResults(new)
          IN  /\ rows' \in {f \in [Tasks -> UNION {R1Outcomes(t, new[t], rs) : t \in Tasks}] :
                              \A t \in Tasks : f[t] \in R1Outcomes(t, new[t], rs)}
              /\ results' = rs

\* A write of Phase C fails: the rows of some workers stay as they were on
\* disk, and R1 runs on what is there.
ScanPhaseCFlushFails ==
    /\ PhaseBDone
    /\ Fault("flush")
    /\ \E probe \in ProbeAnswers :
       \E W \in (SUBSET Workers) \ {Workers} :
          LET new == AfterPhaseC(probe)
              q   == Flushed(new, W)
              rs  == results \cup PreflightResults(new) \cup CancelResults(new)
          IN  /\ rows' \in {f \in [Tasks -> UNION {R1Outcomes(t, q[t], rs) : t \in Tasks}] :
                              \A t \in Tasks : f[t] \in R1Outcomes(t, q[t], rs)}
              /\ results' = rs
    /\ phase' = "idle"
    /\ work' = NoWork
    /\ UNCHANGED <<cancelSeen, cancelRequested, dep, delivered, now>>

\* The daemon dies in Phase C: during the preflight results, the flush or the
\* cancel results, in this order.
CrashInPhaseC ==
    /\ PhaseBDone
    /\ Fault("crash")
    /\ \E probe \in ProbeAnswers :
          LET new == AfterPhaseC(probe)
          IN  \/ \E R \in SUBSET PreflightResults(new) :
                    results' = results \cup R /\ UNCHANGED rows
              \/ \E W \in SUBSET Workers :
                    /\ results' = results \cup PreflightResults(new)
                    /\ rows' = Flushed(new, W)
              \/ \E R \in SUBSET CancelResults(new) :
                    /\ results' = results \cup PreflightResults(new) \cup R
                    /\ rows' = new
    /\ ForgetScan
    /\ UNCHANGED <<cancelRequested, dep, delivered, now>>

\* The daemon dies between two writes.
Crash ==
    /\ Fault("crash")
    /\ ForgetScan
    /\ UNCHANGED <<rows, results, cancelRequested, dep, delivered, now>>

\* Mutant: a heartbeat is accepted however long the task has been running.
HeartbeatUncapped(tok) ==
    LET r == rows[tok.task]
    IN  /\ InProgress(r) /\ r.epoch = tok.epoch
        /\ rows' = [rows EXCEPT ![tok.task] = ExtendTaskLease(r, DispatchLease)]
        /\ UNCHANGED <<results, scanVars, cancelRequested, dep, delivered, now,
                       faults>>

\* TaskHeartbeatHandler.Handle: fenced on status and epoch, refused once the
\* task ran for MaxInProgress.
Heartbeat(tok) ==
    LET r == rows[tok.task]
    IN  /\ InProgress(r) /\ r.epoch = tok.epoch
        /\ now - (IF r.inProgressAt # Nil THEN r.inProgressAt ELSE r.updatedAt)
              < MaxInProgress
        /\ rows' = [rows EXCEPT ![tok.task] = ExtendTaskLease(r, DispatchLease)]
        /\ UNCHANGED <<results, scanVars, cancelRequested, dep, delivered, now,
                       faults>>

\* resultWritePhaseA accepts a report when no result of the task is recorded
\* (checkResultIdempotency) and the token holds the lease (validateFencing).
ResultAccepted(tok) ==
    /\ ~HasResult(tok.task)
    /\ InProgress(rows[tok.task])
    /\ rows[tok.task].epoch = tok.epoch

ReportStatuses == {"completed", "failed"}

ResultWrite(tok, status) ==
    /\ ResultAccepted(tok)
    /\ results' = results \cup {NewResult(tok.task, rows[tok.task], status)}
    /\ rows' = [rows EXCEPT ![tok.task] = Terminate(rows[tok.task], status)]
    /\ UNCHANGED <<scanVars, cancelRequested, dep, delivered, now, faults>>

\* The result file is written, the queue file is not, and the rollback of the
\* result fails too: the result is orphaned.
ResultWriteOrphaned(tok, status) ==
    /\ ResultAccepted(tok)
    /\ Fault("orphan")
    /\ results' = results \cup {NewResult(tok.task, rows[tok.task], status)}
    /\ UNCHANGED <<rows, scanVars, cancelRequested, dep, delivered, now>>

\* The daemon dies between the two writes of the handler.
CrashInResultWrite(tok, status) ==
    /\ ResultAccepted(tok)
    /\ Fault("crash")
    /\ results' = results \cup {NewResult(tok.task, rows[tok.task], status)}
    /\ ForgetScan
    /\ UNCHANGED <<rows, cancelRequested, dep, delivered, now>>

\* handleQueueWriteCancelRequest of a submitted command: only state.Cancel is
\* written, the cancel cache of the scan is not.
CancelRequest ==
    /\ ~cancelRequested
    /\ cancelRequested' = TRUE
    /\ UNCHANGED <<rows, results, scanVars, dep, delivered, now, faults>>

\* The dependencies of a task complete, or one of them fails; a replaced
\* dependency may fail after it had completed.
DependencyResolves(t, outcome) ==
    /\ \/ dep[t] = "waiting"
       \/ dep[t] = "met" /\ t \in Dependents /\ outcome = "failed"
    /\ dep' = [dep EXCEPT ![t] = outcome]
    /\ UNCHANGED <<rows, results, scanVars, cancelRequested, delivered, now,
                   faults>>

Tick ==
    /\ now < MaxTime
    /\ now' = now + 1
    /\ UNCHANGED <<rows, results, scanVars, cancelRequested, dep, delivered,
                   faults>>

ScanStep ==
    \/ ScanPhaseA
    \/ \E t \in Tasks : \E received \in BOOLEAN :
          \E outcome \in {"ok", "failed", "uncertain", "rejected"} :
             DispatchTask(t, outcome, received)
    \/ ScanPhaseC

WorkerStep ==
    \E tok \in delivered :
       \/ Heartbeat(tok)
       \/ \E status \in ReportStatuses :
             \/ ResultWrite(tok, status)
             \/ ResultWriteOrphaned(tok, status)
             \/ CrashInResultWrite(tok, status)

Next ==
    \/ ScanStep
    \/ ScanPhaseAFlushFails
    \/ CrashInPhaseA
    \/ ScanPhaseCFlushFails
    \/ CrashInPhaseC
    \/ Crash
    \/ WorkerStep
    \/ CancelRequest
    \/ \E t \in Tasks : \E outcome \in {"met", "failed"} :
          DependencyResolves(t, outcome)
    \/ Tick

Spec == Init /\ [][Next]_vars

\* The scan loop of the daemon runs for ever; nothing is assumed of workers,
\* of dependencies or of the clock.
FairSpec == Spec /\ []<><<ScanStep>>_vars

-----------------------------------------------------------------------------
(* Properties.                                                             *)

\* Type invariant of the queue rows, the result entries and the scan state.
TypeOK ==
    /\ rows \in [Tasks -> Row]
    /\ results \subseteq Result
    /\ phase \in {"idle", "B"}
    /\ work \in [Tasks -> Work]
    /\ cancelSeen \in BOOLEAN
    /\ cancelRequested \in BOOLEAN
    /\ dep \in [Tasks -> {"waiting", "met", "failed"}]
    /\ delivered \subseteq Token
    /\ now \in Nat
    /\ faults \in Nat

\* A worker runs one task at a time: no two rows of one queue file are in
\* progress, although the in-flight set of a scan ignores expired leases.
OneInProgressPerWorker ==
    \A t, u \in Tasks :
        OwnerOf[t] = OwnerOf[u] /\ InProgress(rows[t]) /\ InProgress(rows[u])
            => t = u

\* The budgets terminate a task: however dispatches fail, hang, are refunded
\* or resumed, a task is leased at most this often.
DispatchBudget ==
    \A t \in Tasks :
        rows[t].epoch <= MaxAttempts + MaxResume + MaxProgressInterrupts

\* No sequence of heartbeats, pane extensions and grace extensions carries a
\* lease further than one extension beyond max_in_progress.
MaxTTL == IF DispatchLease >= GraceTTL THEN DispatchLease ELSE GraceTTL

RuntimeCap ==
    \A t \in Tasks : InProgress(rows[t]) =>
        rows[t].expiresAt < rows[t].updatedAt + MaxInProgress + MaxTTL

\* Without faults the queue file and the result file agree: a row is terminal
\* exactly when a result is recorded, with the row's status and epoch.  A
\* worker that holds a lease can therefore always report.
QueueResultAgree ==
    faults = 0 =>
    /\ \A t \in Tasks : IsTerminal(rows[t].status) <=> HasResult(t)
    /\ \A res \in results :
         LET r == rows[res.task]
         IN  /\ res.epoch = r.epoch
             /\ res.status = IF r.status = "dead_letter" THEN "failed" ELSE r.status

\* A lease is delivered once: a dispatch about to be sent carries an epoch no
\* worker has ever seen for this task.
NoDoubleDelivery ==
    \A t \in Tasks :
        phase = "B" /\ work[t].dispatch = "todo"
            => [task |-> t, epoch |-> work[t].epoch] \notin delivered

\* A task with a recorded result is not leased again: whatever result is on
\* file for a row in progress belongs to the row's own lease or a later one.
NoRedispatchAfterResult ==
    \A res \in results :
        InProgress(rows[res.task]) => res.epoch >= rows[res.task].epoch

\* The verdict of a probe never takes a lease from a live worker: a lease goes
\* back to pending only when it has expired by then or its delivery failed.
LiveLeaseKept ==
    [][\A t \in Tasks :
          InProgress(rows[t]) /\ rows'[t].status = "pending"
              => IsLeaseExpired(rows[t]) \/ work[t].dispatch = "failed"]_vars

\* A terminal row never changes again: a result that raced a cancel, a probe or
\* a delivery wins or loses once.
TerminalIsFinal ==
    [][\A t \in Tasks :
          IsTerminal(rows[t].status) => rows'[t].status = rows[t].status]_vars

\* Once a cancel is recorded no task of the command is leased any more.
NoLeaseAfterCancel ==
    [][\A t \in Tasks :
          cancelRequested /\ ~InProgress(rows[t]) => ~InProgress(rows'[t])]_vars

\* isTaskDispatchCancelled is meant to catch a cancel that arrives after Phase A
\* collected the dispatch: nothing is delivered once a cancel is recorded.
NoDeliveryAfterCancel ==
    [][cancelRequested => delivered' = delivered]_vars

\* A cancelled command ends: every task of it reaches a terminal row, whatever
\* the workers do meanwhile and without the clock moving.
CancelTerminates ==
    cancelRequested ~> \A t \in Tasks : IsTerminal(rows[t].status)

\* A lease that expired after max_in_progress ends, whatever the pane shows.
OverrunEnds ==
    \A t \in Tasks :
        (/\ InProgress(rows[t])
         /\ IsLeaseExpired(rows[t])
         /\ IsMaxInProgressTimeout(rows[t].updatedAt))
            ~> ~InProgress(rows[t])

\* Neither a cancelled task nor one that overran its time keeps its worker.
TasksEnd == CancelTerminates /\ OverrunEnds

=============================================================================
