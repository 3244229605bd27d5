---------------------------- MODULE Notifications ----------------------------
(***************************************************************************)
(* How a result reaches its reader (internal/daemon/result_handler.go,     *)
(* result_notification.go, result_dead_letter.go, continuous_handler.go,   *)
(* the notification rows of queue_scan_*.go, reconcile/r5_notification.go).*)
(*                                                                         *)
(* A task result goes straight into the planner's pane.  A command result  *)
(* becomes a row of queue/orchestrator.yaml, which the scan delivers.  Two *)
(* goroutines run the result handler, the file watcher and the scan after  *)
(* its Phase C; they hold the file's lock for each step but not scanMu, so *)
(* they write the row file between the scan's load and its flush.          *)
(***************************************************************************)
EXTENDS Naturals, FiniteSets

CONSTANTS
    Cmds, Works,     \* command results and task results
    Superseded,      \* task results a successor reports for
    MaxNotify,       \* maxNotifyAttempts
    MaxRowTries,     \* retry.orchestrator_notification_dispatch
    InlineSends,     \* EffectiveResultNotifyInlineRetries
    MaxIterations,   \* continuous.max_iterations
    MaxArchives, FaultKinds, MaxFaults

ASSUME NotificationsAssumption ==
    /\ Cmds \cap Works = {} /\ Superseded \subseteq Works
    /\ {MaxNotify, MaxRowTries, MaxIterations} \subseteq Nat \ {0}
    /\ {InlineSends, MaxArchives, MaxFaults} \subseteq Nat

Results == Cmds \cup Works
Notice(r) == <<"lost", r>>
ContinuousEnd == <<"continuous", "end">>
ContinuousStall == <<"continuous", "stall">>
Sources == Cmds \cup {Notice(r) : r \in Results} \cup {ContinuousEnd, ContinuousStall}
Threads == {"watch", "scan"}
Types == {"completed", "cancelled"}
NoType == "none"

VARIABLES
    res,      \* the result files
    nq,       \* queue/orchestrator.yaml: a row for each source
    scan,     \* the scan: where it is, its copy of the rows, what it dispatched
    th,       \* the two runs of the result handler
    settled,  \* task results whose state is terminal
    ct,       \* state/continuous.yaml, and how often each command counted
    heard,    \* what the reader heard last of each result
    told,     \* notices the orchestrator heard
    said,     \* ghost: every outcome there ever was
    archives, faults

vars == <<res, nq, scan, th, settled, ct, heard, told, said, archives, faults>>

NoRow == [ty |-> NoType, st |-> "absent", tries |-> 0]
Pending(t) == [ty |-> t, st |-> "pending", tries |-> 0]
NoResult == [ty |-> NoType, notified |-> FALSE, tries |-> 0, lease |-> "none", dead |-> FALSE]
IdleScan == [pc |-> "idle", rows |-> [s \in Sources |-> NoRow], item |-> ContinuousEnd,
             ty |-> NoType, ok |-> FALSE]
IdleThread == [pc |-> "idle", r |-> ContinuousEnd, ty |-> NoType, tried |-> {}, sends |-> 0,
               ok |-> FALSE]

Fault(k) == k \in FaultKinds /\ faults < MaxFaults /\ faults' = faults + 1
NoFault == faults' = faults

Recorded(r) == res[r].ty # NoType

-----------------------------------------------------------------------------
(* Results appear and are corrected.                                       *)

ReportResult(r) ==
    /\ ~Recorded(r)
    /\ res' = [res EXCEPT ![r].ty = "completed"]
    /\ said' = [said EXCEPT ![r] = @ \cup {"completed"}]
    /\ UNCHANGED <<nq, scan, th, settled, ct, heard, told, archives, faults>>

\* reconcileCommandResultLocked, in a plan request, which holds scanMu: the
\* corrected result is to be notified again; attempts and lease stay.
CorrectResult(c) ==
    /\ scan.pc \notin {"flush_a", "flush_c"}
    /\ res[c].ty = "completed"
    /\ res' = [res EXCEPT ![c].ty = "cancelled", ![c].notified = FALSE]
    /\ said' = [said EXCEPT ![c] = @ \cup {"cancelled"}]
    /\ UNCHANGED <<nq, scan, th, settled, ct, heard, told, archives, faults>>

\* The task's state becomes terminal some time after its result.
TaskSettled(w) ==
    /\ Recorded(w) /\ w \notin settled /\ settled' = settled \cup {w}
    /\ UNCHANGED <<res, nq, scan, th, ct, heard, told, said, archives, faults>>

\* A notify lease, or the backoff after a failure, runs out.
NotifyLeaseExpires(r) ==
    /\ res[r].lease = "held" /\ res' = [res EXCEPT ![r].lease = "none"]
    /\ UNCHANGED <<nq, scan, th, settled, ct, heard, told, said, archives, faults>>

-----------------------------------------------------------------------------
(* The row file.                                                           *)

\* supersedeOrSkipNotification, appendNewNotification: the same type is a
\* duplicate, another type takes the row over.
Upsert(rows, c, t) == IF rows[c].ty = t THEN rows ELSE [rows EXCEPT ![c] = Pending(t)]

\* emitResultDeadLetterNotification and the notification of a continuous run
\* that ends: written once.
AppendOnce(rows, s) == IF rows[s] # NoRow THEN rows ELSE [rows EXCEPT ![s] = Pending("notice")]

\* archiveTerminalNotifications, when a queue write finds the file too large.
ArchiveTerminal ==
    /\ archives < MaxArchives /\ archives' = archives + 1
    /\ scan.pc \notin {"flush_a", "flush_c"}
    /\ nq' = [s \in Sources |-> IF nq[s].st = "completed" THEN NoRow ELSE nq[s]]
    /\ UNCHANGED <<res, scan, th, settled, ct, heard, told, said, faults>>

-----------------------------------------------------------------------------
(* One run of processResultFile.                                           *)

\* sweepExhaustedNotifications, then the loop.
Exhausted(r) == Recorded(r) /\ ~res[r].notified /\ ~res[r].dead /\ res[r].tries >= MaxNotify

Sweep(t) ==
    /\ th[t].pc = "sweep"
    /\ LET S == {r \in Results : Exhausted(r)}
       IN IF S = {} THEN /\ th' = [th EXCEPT ![t].pc = "find"]
                         /\ UNCHANGED <<res, faults>>
          ELSE \/ /\ NoFault
                  /\ res' = [r \in Results |->
                        IF r \in S THEN [res[r] EXCEPT !.dead = TRUE, !.lease = "none"]
                        ELSE res[r]]
                  /\ th' = [th EXCEPT ![t].pc = "notice", ![t].tried = S]
               \/ /\ Fault("write") /\ res' = res /\ th' = [th EXCEPT ![t].pc = "find"]
    /\ UNCHANGED <<nq, scan, settled, ct, heard, told, said, archives>>

\* archiveAndInvokeDeadLetterCallbacks: the notices, once, after the marks.
EmitNotices(t) ==
    /\ th[t].pc = "notice"
    /\ \/ /\ NoFault
          /\ nq' = [s \in Sources |->
                IF \E r \in th[t].tried : s = Notice(r) /\ nq[s] = NoRow
                  THEN Pending("notice") ELSE nq[s]]
       \/ Fault("write") /\ nq' = nq
    /\ th' = [th EXCEPT ![t].pc = "find", ![t].tried = {}]
    /\ UNCHANGED <<res, scan, settled, ct, heard, told, said, archives>>

\* findUnnotifiedExcluding
Unnotified(t) ==
    {r \in Results \ th[t].tried :
        /\ Recorded(r) /\ ~res[r].notified /\ ~res[r].dead
        /\ res[r].tries < MaxNotify /\ res[r].lease = "none"}

\* taskTerminalForNotify
GateNotify(r) == r \in Works => r \in settled

\* processResultPhase1AcquireLease
AcquireNotifyLease(t) ==
    /\ th[t].pc = "find"
    /\ IF Unnotified(t) = {}
         THEN /\ th' = [th EXCEPT ![t] = IdleThread]
              /\ UNCHANGED <<res, faults>>
         ELSE \E r \in Unnotified(t) :
                IF ~GateNotify(r)
                  THEN /\ th' = [th EXCEPT ![t].tried = @ \cup {r}]
                       /\ UNCHANGED <<res, faults>>
                  ELSE \/ /\ NoFault
                          /\ res' = [res EXCEPT ![r].lease = "held", ![r].tries = @ + 1]
                          /\ th' = [th EXCEPT ![t] = [@ EXCEPT !.pc = "send", !.r = r,
                                !.ty = res[r].ty, !.tried = @ \cup {r}, !.sends = 0]]
                       \/ Fault("write") /\ res' = res /\ th' = [th EXCEPT ![t] = IdleThread]
    /\ UNCHANGED <<nq, scan, settled, ct, heard, told, said, archives>>

\* notifyOrchestratorOfCommandResult: the outcome as it was when the lease
\* was taken.
NotifyOrchestrator(t) ==
    LET j == th[t] IN
    /\ j.pc = "send" /\ j.r \in Cmds
    /\ \/ NoFault /\ nq' = Upsert(nq, j.r, j.ty) /\ th' = [th EXCEPT ![t].pc = "mark", ![t].ok = TRUE]
       \/ Fault("write") /\ nq' = nq /\ th' = [th EXCEPT ![t].pc = "mark", ![t].ok = FALSE]
    /\ UNCHANGED <<res, scan, settled, ct, heard, told, said, archives>>

\* notifyPlannerOfWorkerResultWithRetry: a superseded result is acknowledged
\* in silence; an uncertain delivery is not retried inline.
NotifyPlanner(t) ==
    LET j == th[t]
        Done(ok) == th' = [th EXCEPT ![t].pc = "mark", ![t].ok = ok]
    IN
    /\ j.pc = "send" /\ j.r \in Works
    /\ \/ j.r \in Superseded /\ NoFault /\ heard' = heard /\ Done(TRUE)
       \/ /\ j.r \notin Superseded
          /\ \/ NoFault /\ heard' = [heard EXCEPT ![j.r] = j.ty] /\ Done(TRUE)
             \/ /\ Fault("unsure") /\ Done(FALSE)
                /\ heard' \in {heard, [heard EXCEPT ![j.r] = j.ty]}
             \/ /\ Fault("send") /\ heard' = heard
                /\ IF j.sends < InlineSends THEN th' = [th EXCEPT ![t].sends = @ + 1]
                     ELSE Done(FALSE)
    /\ UNCHANGED <<res, nq, scan, settled, ct, told, said, archives>>

\* CheckAndAdvance: only the last command is remembered.  Whether it counts
\* as a failure comes from the plan's state (reconcileCommandStatusWithPlanStatus)
\* and pauses the run; enough iterations stop it.
CheckAndAdvance(c, failed) ==
    IF ct.status # "running" \/ ct.last = c THEN ct
    ELSE [ct EXCEPT !.status = IF failed \/ ct.iter + 1 >= MaxIterations THEN "ended" ELSE @,
                    !.iter = @ + 1, !.last = c, !.stalled = FALSE, !.counted[c] = @ + 1]

\* processResultPhase3UpdateResult: the entry as it is now; onSuccess runs
\* before the write, which may fail.
UpdateResult(t) ==
    LET j == th[t]
        new == IF j.ok THEN [res[j.r] EXCEPT !.notified = TRUE, !.lease = "none"]
               ELSE [res[j.r] EXCEPT !.lease = "held"]
    IN
    /\ j.pc = "mark"
    /\ IF j.ok /\ j.r \in Cmds THEN \E failed \in BOOLEAN : ct' = CheckAndAdvance(j.r, failed)
       ELSE ct' = ct
    /\ \/ NoFault /\ res' = [res EXCEPT ![j.r] = new]
       \/ Fault("write") /\ res' = res
    /\ th' = [th EXCEPT ![t].pc = IF ct'.status # ct.status THEN "end" ELSE "find"]
    /\ UNCHANGED <<nq, scan, settled, heard, told, said, archives>>

\* writeContinuousTransitionNotification, after the state is saved.
AnnounceEnd(t) ==
    /\ th[t].pc = "end" /\ th' = [th EXCEPT ![t].pc = "find"]
    /\ \/ NoFault /\ nq' = AppendOnce(nq, ContinuousEnd)
       \/ Fault("write") /\ nq' = nq
    /\ UNCHANGED <<res, scan, settled, ct, heard, told, said, archives>>

\* CheckStall: the run counted its last command long ago and no command is
\* in the planner's queue; told once for each such state.
CheckStall ==
    /\ ct.status = "running" /\ ct.last \in Cmds /\ ~ct.stalled
    /\ \/ NoFault /\ nq' = AppendOnce(nq, ContinuousStall) /\ ct' = [ct EXCEPT !.stalled = TRUE]
       \/ Fault("write") /\ UNCHANGED <<nq, ct>>
    /\ UNCHANGED <<res, scan, th, settled, heard, told, said, archives>>

Handle(t) ==
    \/ Sweep(t) \/ EmitNotices(t) \/ AcquireNotifyLease(t) \/ NotifyOrchestrator(t)
    \/ NotifyPlanner(t) \/ UpdateResult(t) \/ AnnounceEnd(t)

\* HandleResultFileEvent: the file watcher starts a run.
WatchEvent ==
    /\ th["watch"].pc = "idle" /\ \E r \in Results : Recorded(r) /\ ~res[r].notified
    /\ th' = [th EXCEPT !["watch"] = [IdleThread EXCEPT !.pc = "sweep"]]
    /\ UNCHANGED <<res, nq, scan, settled, ct, heard, told, said, archives, faults>>

-----------------------------------------------------------------------------
(* The scan.                                                               *)

\* newScanState and the reload of Phase C read the file without its lock.
LoadRows(from, to) ==
    /\ scan.pc = from /\ scan' = [scan EXCEPT !.pc = to, !.rows = nq]
    /\ UNCHANGED <<res, nq, th, settled, ct, heard, told, said, archives, faults>>

\* ProcessNotificationDeadLetters
DropExhausted(rows) ==
    [s \in Sources |-> IF rows[s].st = "pending" /\ rows[s].tries >= MaxRowTries
                         THEN NoRow ELSE rows[s]]
\* recoverExpiredNotificationLeases
ReleaseExpired(rows) ==
    [s \in Sources |-> IF rows[s].st = "expired" THEN [rows[s] EXCEPT !.st = "pending"]
                       ELSE rows[s]]

\* FlushQueues: the whole file is replaced by the copy.
Flush(rows) ==
    \/ NoFault /\ nq' = IF rows # scan.rows THEN rows ELSE nq
    \/ Fault("flush") /\ nq' = nq

\* Phase A: dead letters, expired leases, at most one dispatch.
PhaseA ==
    /\ scan.pc = "flush_a"
    /\ LET rows == ReleaseExpired(DropExhausted(scan.rows))
           ready == {s \in Sources : rows[s].st = "pending"}
           busy == \E s \in Sources : rows[s].st = "in_progress"
       IN IF busy \/ ready = {}
            THEN Flush(rows) /\ scan' = [scan EXCEPT !.pc = "load_c", !.ty = NoType]
            ELSE \E s \in ready :
                   /\ Flush([rows EXCEPT ![s].st = "in_progress", ![s].tries = @ + 1])
                   /\ scan' = [scan EXCEPT !.pc = "deliver", !.item = s, !.ty = rows[s].ty]
    /\ UNCHANGED <<res, th, settled, ct, heard, told, said, archives>>

\* DispatchNotification: delivered, failed, or failed after it was read.
Deliver ==
    /\ scan.pc = "deliver"
    /\ \E ok \in BOOLEAN, got \in BOOLEAN :
         /\ IF ok THEN got /\ NoFault ELSE Fault(IF got THEN "unsure" ELSE "send")
         /\ heard' = IF got /\ scan.item \in Cmds THEN [heard EXCEPT ![scan.item] = scan.ty]
                     ELSE heard
         /\ told' = IF got /\ scan.item \notin Cmds THEN told \cup {scan.item} ELSE told
         /\ scan' = [scan EXCEPT !.pc = "load_c", !.ok = ok]
    /\ UNCHANGED <<res, nq, th, settled, ct, said, archives>>

\* applyNotificationDispatchResult behind applyDispatchCore's fence.
ApplyDispatch ==
    IF scan.ty = NoType \/ scan.rows[scan.item].st \notin {"in_progress", "expired"}
      THEN scan.rows
      ELSE [scan.rows EXCEPT ![scan.item].st = IF scan.ok THEN "completed" ELSE "pending"]

PhaseC ==
    /\ scan.pc = "flush_c"
    /\ Flush(ApplyDispatch)
    /\ scan' = [scan EXCEPT !.pc = "r5"]
    /\ UNCHANGED <<res, th, settled, ct, heard, told, said, archives>>

\* Mutant: a row for the result is enough, whatever its type.
R5ByResult ==
    [s \in Sources |-> IF s \in Cmds /\ res[s].notified /\ nq[s] = NoRow
                         THEN Pending(res[s].ty) ELSE nq[s]]

\* R5Notification: a notified result without a row of its own type is
\* written again.
R5Rows ==
    [s \in Sources |-> IF s \in Cmds /\ res[s].notified /\ nq[s].ty # res[s].ty
                         THEN Pending(res[s].ty) ELSE nq[s]]

R5Notification ==
    /\ scan.pc = "r5"
    /\ \/ NoFault /\ nq' = R5Rows
       \/ Fault("write") /\ nq' = nq
    /\ scan' = [scan EXCEPT !.pc = "notify"]
    /\ UNCHANGED <<res, th, settled, ct, heard, told, said, archives>>

\* runPostScanResultNotifications
ScanAllResults ==
    /\ scan.pc = "notify" /\ th["scan"].pc = "idle"
    /\ th' = [th EXCEPT !["scan"] = [IdleThread EXCEPT !.pc = "sweep"]]
    /\ scan' = [scan EXCEPT !.pc = "notifying"]
    /\ UNCHANGED <<res, nq, settled, ct, heard, told, said, archives, faults>>
ScanEnds ==
    /\ scan.pc = "notifying" /\ th["scan"].pc = "idle" /\ scan' = IdleScan
    /\ UNCHANGED <<res, nq, th, settled, ct, heard, told, said, archives, faults>>

\* The lease of a row runs out when the scan did not finish with it.
RowLeaseExpires(s) ==
    /\ nq[s].st = "in_progress" /\ scan.pc \in {"idle", "notify", "notifying"}
    /\ nq' = [nq EXCEPT ![s].st = "expired"]
    /\ UNCHANGED <<res, scan, th, settled, ct, heard, told, said, archives, faults>>

\* The daemon dies and starts again; what it held in memory is gone.
Crash ==
    /\ Fault("crash") /\ scan' = IdleScan /\ th' = [t \in Threads |-> IdleThread]
    /\ ct' = [ct EXCEPT !.stalled = FALSE]
    /\ UNCHANGED <<res, nq, settled, heard, told, said, archives>>

Scan ==
    \/ LoadRows("idle", "flush_a") \/ PhaseA \/ Deliver \/ LoadRows("load_c", "flush_c")
    \/ PhaseC \/ R5Notification \/ ScanAllResults \/ ScanEnds

Init ==
    /\ res = [r \in Results |-> NoResult] /\ nq = [s \in Sources |-> NoRow]
    /\ scan = IdleScan /\ th = [t \in Threads |-> IdleThread] /\ settled = {}
    /\ ct = [status |-> "running", iter |-> 0, last |-> ContinuousEnd,
             stalled |-> FALSE, counted |-> [c \in Cmds |-> 0]]
    /\ heard = [r \in Results |-> NoType] /\ told = {} /\ said = [r \in Results |-> {}]
    /\ archives = 0 /\ faults = 0

Next ==
    \/ \E r \in Results : ReportResult(r) \/ NotifyLeaseExpires(r)
    \/ \E c \in Cmds : CorrectResult(c)
    \/ \E w \in Works : TaskSettled(w)
    \/ \E s \in Sources : RowLeaseExpires(s)
    \/ \E t \in Threads : Handle(t)
    \/ Scan \/ WatchEvent \/ CheckStall \/ ArchiveTerminal \/ Crash

Spec == Init /\ [][Next]_vars
\* Goroutines run, leases are deadlines on the wall clock, and the commit of
\* a task's state follows its result.
Fairness ==
    /\ WF_vars(Scan)
    /\ \A t \in Threads : WF_vars(Handle(t))
    /\ WF_vars(\E r \in Results : NotifyLeaseExpires(r))
    /\ WF_vars(\E w \in Works : TaskSettled(w))
    /\ SF_vars(\E s \in Sources : RowLeaseExpires(s))
FairSpec == Spec /\ Fairness

-----------------------------------------------------------------------------
Channel == INSTANCE ResultChannel WITH
    outcome <- [r \in Results |-> res[r].ty],
    excused <- Superseded \cup {r \in Results : res[r].dead}

\* The handlers, the row file and the scan implement the channel: whatever
\* write is lost between a load and a flush, fails or is repeated, the reader
\* only hears outcomes that were decided and in the end the one that stands,
\* or the result is marked as given up.
AtLeastOnce == Channel!ChannelSpec

\* A row that waits to be delivered is not lost (FlushQueues: "lockMap prevents
\* concurrent atomic rewrites and lost updates").
RowsAreNotLost ==
    [][\A s \in Sources : nq[s].st = "pending" /\ nq'[s] = NoRow
          => nq[s].tries >= MaxRowTries]_vars

\* A result that is given up is reported to the orchestrator instead
\* (archiveAndInvokeDeadLetterCallbacks).
LossIsReported == \A r \in Results : res[r].dead ~> Notice(r) \in told

\* A corrected result is sent again (reconcileCommandResultLocked: "Reset
\* Notified so the orchestrator notification path can resend the corrected
\* result").
CorrectionIsHeard == \A c \in Cmds : res[c].ty = "cancelled" ~> heard[c] = "cancelled"

\* A command advances the continuous run once (CheckAndAdvance: "skip if this
\* command was already processed").
CountedOnce == \A c \in Cmds : ct.counted[c] <= 1

=============================================================================
