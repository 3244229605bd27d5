------------------------- MODULE WorktreeIntegration -------------------------
(***************************************************************************)
(* How the worker branches of one command reach its integration branch and *)
(* from there the base branch (internal/daemon/worktree/merge_publish.go,  *)
(* recover*.go, manager.go; the scan steps of queue_scan_*.go and the      *)
(* reconciler pattern R7).                                                 *)
(*                                                                         *)
(* Five parties work on the same state file and the same git branches:     *)
(*   - the workers, which edit their worktrees while a task runs;          *)
(*   - the queue scan: Phase A selects, Phase B commits, merges and        *)
(*     publishes, Phase C turns conflicts into resolution requests;        *)
(*   - R7, which rewrites the state file under a lock of its own, not      *)
(*     under the manager's mutex;                                          *)
(*   - the result handler, which runs ResumeMerge when a worker that was   *)
(*     asked to resolve a conflict reports, at any time;                   *)
(*   - the Planner and the operator, who answer resolution requests and    *)
(*     call the recovery commands.                                         *)
(*                                                                         *)
(* Git is kept as counters: branch[w] is the number of commits on w's      *)
(* branch, intg[w] how many of them the integration branch contains,       *)
(* seen[w] the integration HEAD that w's branch contains.  The vector      *)
(* intg identifies the integration HEAD: it grows with every merge commit. *)
(* Whether two branches touch the same lines is unknown, so a merge may    *)
(* conflict whenever the integration branch has commits w has not seen.    *)
(* The plan has no phases: the scan merges after any completed task.       *)
(* Commits are made by the daemon only; agents that commit on their own    *)
(* are not modelled.                                                       *)
(***************************************************************************)
EXTENDS Integers, FiniteSets, FiniteSetsExt

CONSTANTS
    NWorkers,     \* workers of the command; merged in the order of their ids
    MaxTasks,     \* ordinary tasks of each worker
    MaxCommits,   \* per worker, a bound on the commits of its branch
    Budgets       \* what a behaviour may contain: subset of AllBudgets

\* git failures, "plan auto_recover" calls of the Planner, other recovery
\* commands, and whether a task may be reported failed.
AllBudgets == [git : Nat, resume : Nat, other : Nat, fail : BOOLEAN]

ASSUME IntegrationAssumption ==
    /\ NWorkers \in Nat \ {0}
    /\ MaxTasks \in Nat
    /\ MaxCommits \in [1..NWorkers -> Nat]
    /\ Budgets \subseteq AllBudgets

Workers == 1..NWorkers

MergeFailureQuarantineThreshold == 3
MaxConflictResolutionAttempts == 2

WorkerStatus == {"absent", "created", "active", "committed", "integrated",
                 "conflict", "resolving", "failed"}
IntegrationStatus == {"created", "merging", "merged", "partial_merge",
                      "conflict", "failed", "quarantined", "published"}
PendingResolution == {"conflict", "resolving"}

CommitCounts == 0..Max({MaxCommits[w] : w \in Workers})
Heads == [Workers -> CommitCounts]
NoHead == [w \in Workers |-> -1]      \* the empty string in the code

VARIABLES
    disk,      \* the command's worktree state file
    mem,       \* the copy a holder of the manager's mutex works on
    mu,        \* who holds the mutex: "free", "merge" or "resume"
    todo,      \* workers the holder has still to visit
    tally,     \* what the holder has seen so far
    branch, dirty, intg, seen, base,     \* git
    task, left, completed, taskFailed,   \* the tasks of the command
    fresh,     \* workers with a task completed since the file was saved
    sig,       \* merge_conflict signals not yet "dispatched"
    asked,     \* resolution requests the Planner has not answered yet
    reporter,  \* reports whose after-resolution hook has not run yet
    resumeReq, \* a ResumeMerge call is waiting for the mutex
    scan,      \* where the scan is, and what Phase A handed to Phase B
    r7,        \* the state R7 has loaded and not yet written back
    report,    \* the synthetic planner result of the command
    faults,    \* git failures so far
    calls      \* the budget, less the recovery commands given

gitVars == <<branch, dirty, intg, seen, base>>
taskVars == <<task, left, completed, taskFailed>>
muVars == <<mem, mu, todo, tally>>
askVars == <<sig, asked>>
hookVars == <<reporter, resumeReq>>
vars == <<disk, muVars, gitVars, taskVars, fresh, askVars, hookVars,
          scan, r7, report, faults, calls>>

NoState == [integ |-> "none"]
NoTally == [merged |-> FALSE, skipped |-> FALSE, conflictSkipped |-> FALSE,
            conflicts |-> {}, pre |-> "none", set |-> {}]

NoWorker == [status |-> "absent", branchHead |-> -1, integHead |-> NoHead,
                attempts |-> 0, escalated |-> FALSE]

Init ==
    /\ disk = [integ |-> "created", failures |-> 0,
               wk |-> [w \in Workers |-> NoWorker], commitFailed |-> {}]
    /\ mem = NoState /\ mu = "free" /\ todo = {} /\ tally = NoTally
    /\ branch = [w \in Workers |-> 0]
    /\ dirty = [w \in Workers |-> FALSE]
    /\ intg = [w \in Workers |-> 0]
    /\ seen = [w \in Workers |-> [v \in Workers |-> 0]]
    /\ base = [w \in Workers |-> 0]
    /\ task = [w \in Workers |-> "none"]
    /\ left = [w \in Workers |-> MaxTasks]
    /\ completed = FALSE /\ taskFailed = FALSE
    /\ fresh = {} /\ sig = {} /\ asked = {} /\ reporter = {}
    /\ resumeReq = FALSE
    /\ scan = [pc |-> "idle", leased |-> {}, items |-> {}, ok |-> {}, conflicts |-> {},
               publish |-> FALSE]
    /\ r7 = NoState
    /\ report = "none"
    /\ faults = 0 /\ calls \in Budgets

----------------------------------------------------------------------------
(* The status tables and the setters that consult them.                    *)

\* validWorktreeTransitions, without the publish and cleanup rows.
WorkerTransition(from, to) ==
    CASE from = "created"    -> to \in {"active", "committed", "integrated", "conflict", "failed"}
      [] from = "active"     -> to \in {"active", "committed", "integrated", "conflict", "failed"}
      [] from = "committed"  -> to \in {"active", "committed", "integrated", "conflict", "failed"}
      [] from = "integrated" -> to \in {"active", "committed", "conflict", "failed"}
      [] from = "conflict"   -> to \in {"active", "resolving", "failed"}
      [] from = "resolving"  -> to \in {"active", "integrated", "conflict", "failed"}
      [] from \in {"absent", "failed"} -> FALSE

\* validIntegrationTransitions, without the publish rows.
IntegrationTransition(from, to) ==
    CASE from = "merging"       -> to \in {"merged", "conflict", "partial_merge",
                                            "failed", "quarantined"}
      [] from = "failed"        -> to \in {"failed", "merging", "quarantined"}
      [] from \in {"created", "merged", "partial_merge", "conflict"} ->
                                   to \in {"merging", "failed", "quarantined"}
      [] OTHER                  -> FALSE

\* setWorkerStatus: an invalid transition is refused; entering conflict from
\* outside the conflict lifecycle opens a new episode.
SetWorkerStatus(s, w, to) ==
    IF ~WorkerTransition(s.wk[w].status, to) THEN s
    ELSE LET newEpisode == to = "conflict" /\ s.wk[w].status \notin PendingResolution
         IN [s EXCEPT !.wk[w].status = to,
                      !.wk[w].attempts = IF newEpisode THEN 0 ELSE @,
                      !.wk[w].escalated = IF newEpisode THEN FALSE ELSE @]

\* The status of several workers.
WithStatus(s, ws, to) ==
    [s EXCEPT !.wk = [w \in Workers |-> IF w \in ws THEN [s.wk[w] EXCEPT !.status = to]
                                        ELSE s.wk[w]]]

SetIntegrationStatus(s, to) ==
    IF IntegrationTransition(s.integ, to) THEN [s EXCEPT !.integ = to] ELSE s

\* recordMergeFailure.
RecordMergeFailure(s) ==
    LET t == [s EXCEPT !.failures = @ + 1]
    IN SetIntegrationStatus(t, IF t.failures >= MergeFailureQuarantineThreshold
                               THEN "quarantined" ELSE "failed")

\* The workers the state file lists: a row is added with the first dispatch.
Present(s) == {w \in Workers : s.wk[w].status # "absent"}
Pending(s) == {w \in Workers : s.wk[w].status \in PendingResolution}

----------------------------------------------------------------------------
(* Workers.                                                                *)

Ended == disk.integ = "published"

\* The worktree state the dispatcher hands over with a task: a new branch from
\* the integration HEAD, the branch of a pending resolution as it is, and
\* otherwise the branch brought to the integration HEAD: what is uncommitted is
\* committed, then the branch is fast-forwarded, kept when the integration HEAD
\* is on it, and reset when the two have diverged.
Refresh(w) ==
    LET status == disk.wk[w].status
        tip == IF dirty[w] THEN branch[w] + 1 ELSE branch[w]
        diverged == tip > intg[w] /\ seen[w] # intg
    IN IF status \in PendingResolution THEN UNCHANGED <<disk, branch, dirty, seen, fresh>>
       ELSE /\ branch' = [branch EXCEPT ![w] = IF diverged THEN intg[w] ELSE tip]
            /\ dirty' = [dirty EXCEPT ![w] = FALSE]
            /\ seen' = [seen EXCEPT ![w] = intg]
            /\ disk' = IF status = "absent" THEN [disk EXCEPT !.wk[w].status = "created"]
                       ELSE IF dirty[w] THEN SetWorkerStatus(disk, w, "committed")
                       ELSE disk
            /\ fresh' = IF disk' = disk THEN fresh ELSE {}

\* Phase B dispatches what Phase A leased, before it commits and merges.
StartTask(w) ==
    /\ ~Ended /\ scan.pc = "dispatch" /\ w \in scan.leased /\ mu = "free"
    /\ Refresh(w)
    /\ scan' = [scan EXCEPT !.leased = @ \ {w}]
    /\ \/ /\ task[w] = "none"
          /\ task' = [task EXCEPT ![w] = "run"]
          /\ left' = [left EXCEPT ![w] = @ - 1]
       \/ /\ task[w] = "queued"
          /\ task' = [task EXCEPT ![w] = "resolve"]
          /\ UNCHANGED left
    /\ UNCHANGED <<muVars, intg, base, completed, taskFailed, askVars, hookVars,
                   r7, report, faults, calls>>

\* The other dispatches fail; their tasks wait for the next scan.
ScanDispatched ==
    /\ ~Ended /\ scan.pc = "dispatch"
    /\ scan' = [scan EXCEPT !.pc = "commit", !.leased = {}]
    /\ UNCHANGED <<disk, muVars, gitVars, taskVars, fresh, askVars, hookVars,
                   r7, report, faults, calls>>

Running(w) == task[w] \in {"run", "resolve"}

Edit(w) ==
    /\ ~Ended /\ Running(w) /\ ~dirty[w] /\ branch[w] < MaxCommits[w]
    /\ dirty' = [dirty EXCEPT ![w] = TRUE]
    /\ UNCHANGED <<disk, muVars, branch, intg, seen, base, taskVars, fresh,
                   askVars, hookVars, scan, r7, report, faults, calls>>

\* A completed result: the after-resolution hook runs once it is committed.
FinishTask(w) ==
    /\ ~Ended /\ Running(w)
    /\ task' = [task EXCEPT ![w] = "none"]
    /\ completed' = TRUE
    /\ fresh' = fresh \cup ({w} \cap disk.commitFailed)
    /\ reporter' = reporter \cup {w}
    /\ UNCHANGED <<disk, muVars, gitVars, left, taskFailed, askVars, resumeReq,
                   scan, r7, report, faults, calls>>

\* A failed result: ResetResolvingWorkerToConflict under the mutex.
FailTask(w) ==
    /\ calls.fail /\ ~Ended /\ Running(w) /\ mu = "free"
    /\ task' = [task EXCEPT ![w] = "none"]
    /\ taskFailed' = TRUE
    /\ disk' = IF disk.wk[w].status = "resolving"
               THEN [disk EXCEPT !.wk[w].status = "conflict"] ELSE disk
    /\ fresh' = IF disk' = disk THEN fresh ELSE {}
    /\ UNCHANGED <<muVars, gitVars, left, completed, askVars, hookVars, scan,
                   r7, report, faults, calls>>

\* The Planner answers a resolution request with a resolution task.
PlannerAddsResolution(w) ==
    /\ ~Ended /\ w \in asked /\ task[w] = "none"
    /\ task' = [task EXCEPT ![w] = "queued"]
    /\ asked' = asked \ {w}
    /\ sig' = sig \ {w}
    /\ UNCHANGED <<disk, muVars, gitVars, left, completed, taskFailed, fresh,
                   hookVars, scan, r7, report, faults, calls>>

----------------------------------------------------------------------------
(* Committing a worker's changes.                                          *)

\* CommitWorkerChanges refuses workers ResumeMerge owns and worker statuses
\* that cannot become committed; a clean worktree is nothing to commit.
CanCommit(w) ==
    /\ disk.wk[w].status \notin PendingResolution
    /\ dirty[w] => WorkerTransition(disk.wk[w].status, "committed")

\* Mutant: a commit on an integrated branch leaves the worker integrated.
CommittedKeepsStatus(ws) ==
    /\ branch' = [w \in Workers |-> IF w \in ws /\ dirty[w] THEN branch[w] + 1 ELSE branch[w]]
    /\ dirty' = [w \in Workers |-> IF w \in ws THEN FALSE ELSE dirty[w]]
    /\ disk' = [disk EXCEPT !.commitFailed = @ \ ws]
    /\ fresh' = IF disk' = disk THEN fresh ELSE {}
    /\ UNCHANGED <<intg, seen, base>>

\* CommitWorkerChanges for the workers ws, and the flag it clears.
Committed(ws) ==
    /\ branch' = [w \in Workers |-> IF w \in ws /\ dirty[w] THEN branch[w] + 1 ELSE branch[w]]
    /\ dirty' = [w \in Workers |-> IF w \in ws THEN FALSE ELSE dirty[w]]
    /\ disk' = [WithStatus(disk, {w \in ws : dirty[w]}, "committed")
                   EXCEPT !.commitFailed = @ \ ws]
    /\ fresh' = IF disk' = disk THEN fresh ELSE {}
    /\ UNCHANGED <<intg, seen, base>>

----------------------------------------------------------------------------
(* Phase A of the scan.                                                    *)

\* collectWorktreePhaseMerges, collectImplicitWorktreeMerge,
\* eligibleWorkerIDsForAutoCommit, filterWorkersAwaitingCommitRecovery.
MergeItems ==
    LET mergeable == \E w \in Workers :
                        disk.wk[w].status \in {"created", "active", "committed", "failed"}
    IN IF \/ disk.integ \notin {"created", "partial_merge", "conflict", "failed", "merged"}
          \/ disk.integ \in {"conflict", "partial_merge"} /\ (Pending(disk) # {} \/ ~mergeable)
          \/ ~completed \/ taskFailed
       THEN {}
       ELSE (Present(disk) \ Pending(disk)) \ (disk.commitFailed \ fresh)

\* The rows the dispatch of this pass leases.
Leasable == {w \in Workers : \/ task[w] = "none" /\ left[w] > 0
                             \/ task[w] = "queued"}

AllTasksTerminal == \A w \in Workers : task[w] = "none" /\ left[w] = 0

\* Mutant: the gate does not wait for the running tasks.
PublishSelectedEarly(s) == ~taskFailed /\ s.integ = "merged" /\ s.commitFailed = {}

\* collectWorktreePublishAndCleanup, read after the commit retries of the
\* same pass have updated the state file.
PublishSelected(s) ==
    /\ AllTasksTerminal /\ ~taskFailed
    /\ s.integ = "merged" /\ s.commitFailed = {}

SyntheticFailure(s) ==
    /\ AllTasksTerminal
    /\ taskFailed \/ (s.integ = "failed" /\ s.commitFailed = {} /\ report = "none")

\* stepWorktreePhaseMerges, then stepRetryCommitFailedWorkers (any subset of
\* the retries may succeed), then stepWorktreePublish.
ScanCollect ==
    /\ ~Ended /\ scan.pc = "idle" /\ mu = "free"
    /\ \E retried \in SUBSET {w \in disk.commitFailed : CanCommit(w)} : Committed(retried)
    /\ scan' = [pc |-> IF Leasable = {} THEN "commit" ELSE "dispatch", leased |-> Leasable,
                items |-> MergeItems, ok |-> {}, conflicts |-> {}, publish |-> PublishSelected(disk')]
    /\ report' = IF SyntheticFailure(disk') THEN "failed" ELSE report
    /\ UNCHANGED <<muVars, taskVars, askVars, hookVars, r7, faults, calls>>

----------------------------------------------------------------------------
(* Phase B: commit every item, merge those that committed, sync, publish.  *)

\* handleWorkerCommit for the items in the order of their ids.
ScanCommit ==
    /\ ~Ended /\ scan.pc = "commit" /\ scan.items # {} /\ mu = "free"
    /\ LET w == Min(scan.items)
           next(ok) == [scan EXCEPT !.items = @ \ {w}, !.ok = ok]
       IN \/ /\ disk.wk[w].status \in PendingResolution     \* owned by ResumeMerge
             /\ scan' = next(scan.ok)
             /\ UNCHANGED <<disk, gitVars, fresh, faults>>
          \/ /\ CanCommit(w)
             /\ Committed({w})
             /\ scan' = next(scan.ok \cup {w})
             /\ UNCHANGED faults
          \/ /\ disk.wk[w].status \notin PendingResolution
             /\ \/ faults < calls.git /\ dirty[w] /\ faults' = faults + 1
                \/ ~CanCommit(w) /\ UNCHANGED faults
             /\ disk' = [disk EXCEPT !.commitFailed = @ \cup {w}]
             /\ fresh' = IF disk' = disk THEN fresh ELSE {}
             /\ scan' = next(scan.ok)
             /\ UNCHANGED gitVars
    /\ UNCHANGED <<muVars, taskVars, askVars, hookVars, r7, report, calls>>

\* No worker committed, or MergeToIntegration refuses: straight to publish.
ScanNoMerge ==
    /\ ~Ended /\ scan.pc = "commit" /\ scan.items = {} /\ mu = "free"
    /\ \/ scan.ok = {}
       \/ ~IntegrationTransition(disk.integ, "merging")
    /\ scan' = [scan EXCEPT !.pc = "publish", !.ok = {}]
    /\ UNCHANGED <<disk, muVars, gitVars, taskVars, fresh, askVars, hookVars,
                   r7, report, faults, calls>>

\* prepareIntegrationForMerge fails: the failure is recorded and saved.
ScanPrepareFails ==
    /\ ~Ended /\ scan.pc = "commit" /\ scan.items = {} /\ scan.ok # {}
    /\ mu = "free" /\ disk.integ # "quarantined" /\ faults < calls.git
    /\ disk' = RecordMergeFailure(disk)
    /\ fresh' = {}
    /\ faults' = faults + 1
    /\ scan' = [scan EXCEPT !.pc = "publish", !.ok = {}]
    /\ UNCHANGED <<muVars, gitVars, taskVars, askVars, hookVars, r7, report, calls>>

\* MergeToIntegration takes the mutex and loads the state.
MergeBegin ==
    /\ ~Ended /\ scan.pc = "commit" /\ scan.items = {} /\ scan.ok # {}
    /\ mu = "free" /\ IntegrationTransition(disk.integ, "merging")
    /\ mu' = "merge"
    /\ mem' = SetIntegrationStatus(disk, "merging")
    /\ todo' = scan.ok
    /\ tally' = [NoTally EXCEPT !.pre = disk.integ]
    /\ scan' = [scan EXCEPT !.pc = "merge"]
    /\ UNCHANGED <<disk, gitVars, taskVars, fresh, askVars, hookVars, r7,
                   report, faults, calls>>

\* A merge of w may conflict only over content w's branch has not seen.
MayConflict(w) == \E v \in Workers \ {w} : intg[v] > seen[w][v]

\* The ways mergeWorkerBranch can end for one worker.
MergeSkips(w) ==
    \/ /\ mem.wk[w].status = "integrated"
       /\ tally' = [tally EXCEPT !.merged = TRUE]
       /\ UNCHANGED <<mem, intg, faults>>
    \/ /\ mem.wk[w].status \in PendingResolution
       /\ tally' = [tally EXCEPT !.conflictSkipped = TRUE]
       /\ UNCHANGED <<mem, intg, faults>>

Mergeable(w) == mem.wk[w].status \notin PendingResolution \cup {"integrated"}

\* "git log" or "git rev-parse" fails: an empty outcome, counted nowhere.
MergeProbeFails(w) ==
    /\ Mergeable(w) /\ faults < calls.git
    /\ faults' = faults + 1
    /\ UNCHANGED <<mem, tally, intg>>

NoCommits(w) == branch[w] = 0 /\ \A v \in Workers : seen[w][v] = 0

MergeNoCommits(w) ==
    /\ Mergeable(w) /\ NoCommits(w)
    /\ mem' = SetWorkerStatus(mem, w, "integrated")
    /\ UNCHANGED <<tally, intg, faults>>

MergeClean(w) ==
    /\ Mergeable(w) /\ ~NoCommits(w)
    /\ intg' = [intg EXCEPT ![w] = branch[w]]
    /\ mem' = SetWorkerStatus(mem, w, "integrated")
    /\ tally' = [tally EXCEPT !.merged = TRUE]
    /\ UNCHANGED faults

\* handleWorkerMergeConflict snapshots both heads before the abort; a head
\* "git rev-parse" cannot tell is stored as the empty string.
MergeConflict(w) ==
    /\ Mergeable(w) /\ branch[w] > intg[w] /\ MayConflict(w)
    /\ \/ /\ mem' = SetWorkerStatus([mem EXCEPT !.wk[w].branchHead = branch[w],
                                                !.wk[w].integHead = intg], w, "conflict")
          /\ UNCHANGED faults
       \/ /\ faults < calls.git /\ faults' = faults + 1
          /\ mem' = SetWorkerStatus([mem EXCEPT !.wk[w].branchHead = branch[w],
                                                !.wk[w].integHead = NoHead], w, "conflict")
    /\ tally' = [tally EXCEPT !.conflicts = @ \cup {w}]
    /\ UNCHANGED intg

\* handleWorkerMergeNonConflictError, a transient git error.
MergeTransientError(w) ==
    /\ Mergeable(w) /\ branch[w] > intg[w] /\ faults < calls.git
    /\ mem' = SetWorkerStatus(mem, w, "failed")
    /\ tally' = [tally EXCEPT !.skipped = TRUE]
    /\ faults' = faults + 1
    /\ UNCHANGED intg

MergeWorker ==
    /\ mu = "merge" /\ todo # {}
    /\ LET w == Min(todo)
       IN /\ \/ MergeSkips(w)
             \/ MergeProbeFails(w)
             \/ MergeNoCommits(w)
             \/ MergeClean(w)
             \/ MergeConflict(w)
             \/ MergeTransientError(w)
          /\ todo' = todo \ {w}
    /\ UNCHANGED <<disk, mu, branch, dirty, seen, base, taskVars, fresh,
                   askVars, hookVars, scan, r7, report, calls>>

\* A permanent git error, or an abort that cannot be recovered: the failure
\* is recorded, the state saved, the remaining workers are not visited.
MergeFatalError ==
    /\ mu = "merge" /\ todo # {} /\ faults < calls.git
    /\ LET w == Min(todo)
       IN /\ Mergeable(w) /\ branch[w] > intg[w]
          /\ \E to \in {"failed"} \cup (IF MayConflict(w) THEN {"conflict"} ELSE {}) :
                disk' = RecordMergeFailure(SetWorkerStatus(mem, w, to))
    /\ faults' = faults + 1
    /\ fresh' = {}
    /\ mem' = NoState /\ mu' = "free" /\ todo' = {} /\ tally' = NoTally
    /\ scan' = [scan EXCEPT !.pc = "publish", !.ok = {}, !.conflicts = tally.conflicts]
    /\ UNCHANGED <<gitVars, taskVars, askVars, hookVars, r7, report, calls>>

\* Mutant: workers whose conflict is pending are not looked at.
MergeOutcomeForgetsPending ==
    LET s == [mem EXCEPT !.failures = 0]
    IN IF tally.conflicts = {} /\ ~tally.skipped
       THEN IF tally.merged THEN SetIntegrationStatus(s, "merged")
            ELSE [s EXCEPT !.integ = tally.pre]
       ELSE SetIntegrationStatus(s, IF tally.merged THEN "partial_merge" ELSE "conflict")

\* determineMergeOutcome.
MergeOutcome ==
    LET s == [mem EXCEPT !.failures = 0]
        quiet == tally.conflicts = {} /\ ~tally.skipped
        waiting == tally.conflictSkipped \/ Pending(mem) # {}
    IN CASE quiet /\ ~waiting /\ ~tally.merged -> [s EXCEPT !.integ = tally.pre]
         [] quiet /\ ~waiting /\ tally.merged  -> SetIntegrationStatus(s, "merged")
         [] quiet /\ waiting /\ ~tally.merged  -> [s EXCEPT !.integ = tally.pre]
         [] ~(quiet /\ ~waiting) /\ tally.merged -> SetIntegrationStatus(s, "partial_merge")
         [] OTHER -> SetIntegrationStatus(s, "conflict")

MergeEnd ==
    /\ mu = "merge" /\ todo = {}
    /\ disk' = MergeOutcome
    /\ fresh' = {}
    /\ mem' = NoState /\ mu' = "free" /\ tally' = NoTally
    /\ scan' = [scan EXCEPT !.pc = IF tally.conflicts = {} THEN "sync" ELSE "publish",
                            !.conflicts = tally.conflicts]
    /\ UNCHANGED <<todo, gitVars, taskVars, askVars, hookVars, r7, report, faults, calls>>

\* SyncFromIntegration: only a clean worktree whose branch was not merged by
\* this pass is brought up to the integration branch.
ScanSync ==
    /\ scan.pc = "sync" /\ mu = "free"
    /\ LET targets == {w \in scan.ok : disk.wk[w].status \in {"created", "active", "committed"}
                                       /\ ~dirty[w]}
           mayClash == {w \in targets : branch[w] > intg[w] /\ MayConflict(w)}
       IN \E clash \in SUBSET mayClash :
            /\ seen' = [w \in Workers |-> IF w \in targets \ clash THEN intg ELSE seen[w]]
            /\ disk' = [disk EXCEPT !.wk = [w \in Workers |->
                  CASE w \in clash           -> SetWorkerStatus(disk, w, "conflict").wk[w]
                    [] w \in targets \ clash -> SetWorkerStatus(disk, w, "active").wk[w]
                    [] OTHER                 -> disk.wk[w]]]
    /\ fresh' = {}
    /\ scan' = [scan EXCEPT !.pc = "publish"]
    /\ UNCHANGED <<muVars, branch, dirty, intg, base, taskVars, askVars,
                   hookVars, r7, report, faults, calls>>

\* stepPublishWorktrees re-reads the status only; a successful PublishToBase
\* (see WorktreePublish) is followed by the removal of the worktrees.
ScanPublish ==
    /\ scan.pc = "publish" /\ mu = "free"
    /\ IF scan.publish /\ disk.integ = "merged"
       THEN /\ disk' = [disk EXCEPT !.integ = "published"]
            /\ base' = intg
       ELSE UNCHANGED <<disk, base>>
    /\ scan' = [scan EXCEPT !.pc = "apply", !.ok = {}, !.publish = FALSE]
    /\ UNCHANGED <<muVars, branch, dirty, intg, seen, taskVars, fresh,
                   askVars, hookVars, r7, report, faults, calls>>

----------------------------------------------------------------------------
(* Phase C and R7, the rest of the scan.                                   *)

\* applyMergeResultSignals and DispatchConflictResolution.
ScanApply ==
    /\ ~Ended /\ scan.pc = "apply" /\ mu = "free"
    /\ LET open == sig \cup scan.conflicts
           sent == {w \in open : WorkerTransition(disk.wk[w].status, "resolving")}
       IN /\ disk' = WithStatus(disk, sent, "resolving")
          /\ fresh' = IF sent = {} THEN fresh ELSE {}
          /\ sig' = open \ sent
          /\ asked' = asked \cup scan.conflicts
    /\ scan' = [scan EXCEPT !.pc = "reconcile", !.conflicts = {}]
    /\ UNCHANGED <<muVars, gitVars, taskVars, hookVars, r7, report, faults, calls>>

\* R7MergeConflict.Apply loads the state file without the manager's mutex ...
R7Load ==
    /\ ~Ended /\ scan.pc = "reconcile"
    /\ r7' = IF disk.integ \in {"conflict", "partial_merge"} THEN disk ELSE NoState
    /\ scan' = [scan EXCEPT !.pc = "r7"]
    /\ UNCHANGED <<disk, muVars, gitVars, taskVars, fresh, askVars, hookVars,
                   report, faults, calls>>

\* ... resets stalled resolutions, starts new attempts or escalates (the
\* Planner's signal, queued from an earlier snapshot, is left out) ...
R7Row(row, stalled) ==
    LET status == IF row.status = "resolving" /\ stalled THEN "conflict" ELSE row.status
    IN IF status # "conflict" THEN [row EXCEPT !.status = status]
       ELSE IF row.attempts >= MaxConflictResolutionAttempts
       THEN [row EXCEPT !.status = status, !.escalated = TRUE]
       ELSE [row EXCEPT !.status = "resolving", !.attempts = @ + 1]

\* ... and writes what it computed back over whatever the file holds then.
\* A resolution is stalled when its worker's row has not changed for long.
R7WriteBack(stalled) ==
    /\ ~Ended /\ scan.pc = "r7"
    /\ IF r7 = NoState THEN UNCHANGED <<disk, asked, fresh>>
       ELSE LET wk == [w \in Workers |-> R7Row(r7.wk[w], w \in stalled)]
            IN /\ asked' = asked \cup {w \in Workers : wk[w].attempts > r7.wk[w].attempts}
               /\ disk' = IF wk = r7.wk THEN disk ELSE [r7 EXCEPT !.wk = wk]
               /\ fresh' = IF wk = r7.wk THEN fresh ELSE {}
    /\ r7' = NoState
    /\ scan' = [scan EXCEPT !.pc = "idle"]
    /\ UNCHANGED <<muVars, gitVars, taskVars, sig, hookVars, report, faults, calls>>

R7Resolving == IF r7 = NoState THEN {} ELSE {w \in Workers : r7.wk[w].status = "resolving"}
R7Write == \E stalled \in SUBSET R7Resolving : R7WriteBack(stalled)

----------------------------------------------------------------------------
(* Recovery: the after-resolution hook, ResumeMerge, the operator.         *)

ResumeStatus == {"conflict", "partial_merge", "failed"}

\* AutoRecoverAfterResolution looks at the reporter before it calls ResumeMerge.
AfterResolution(w) ==
    /\ ~Ended /\ w \in reporter /\ mu = "free"
    /\ reporter' = reporter \ {w}
    /\ resumeReq' = (resumeReq \/ (/\ disk.wk[w].status = "resolving"
                                   /\ disk.integ \in ResumeStatus))
    /\ UNCHANGED <<disk, muVars, gitVars, taskVars, fresh, askVars, scan, r7,
                   report, faults, calls>>

\* "plan auto_recover" on an integration with merge work to resume.
AutoRecover ==
    /\ ~Ended /\ calls.resume > 0 /\ mu = "free" /\ ~resumeReq
    /\ calls' = [calls EXCEPT !.resume = @ - 1]
    /\ \/ disk.integ \in {"conflict", "partial_merge"}
       \/ disk.integ = "failed" /\ (disk.failures > 0 \/ Pending(disk) # {})
    /\ resumeReq' = TRUE
    /\ UNCHANGED <<disk, muVars, gitVars, taskVars, fresh, askVars, reporter,
                   scan, r7, report, faults>>

\* ResumeMerge refuses what is already resolved.
ResumeRefused ==
    /\ ~Ended /\ resumeReq /\ mu = "free"
    /\ \/ disk.integ \notin ResumeStatus
       \/ disk.integ = "failed" /\ disk.failures = 0 /\ Pending(disk) = {}
    /\ resumeReq' = FALSE
    /\ UNCHANGED <<disk, muVars, gitVars, taskVars, fresh, askVars, reporter,
                   scan, r7, report, faults, calls>>

\* ResumeMerge works on every worker in conflict or resolving.  When the
\* integration worktree is unusable they all go back to active instead.
ResumeBegin ==
    /\ ~Ended /\ resumeReq /\ mu = "free"
    /\ disk.integ \in ResumeStatus
    /\ ~(disk.integ = "failed" /\ disk.failures = 0 /\ Pending(disk) = {})
    /\ resumeReq' = FALSE
    /\ mu' = "resume"
    /\ tally' = [NoTally EXCEPT !.set = Pending(disk)]
    /\ \/ mem' = disk /\ todo' = Pending(disk) /\ UNCHANGED faults
       \/ /\ faults < calls.git /\ faults' = faults + 1 /\ Pending(disk) # {}
          /\ mem' = [disk EXCEPT !.wk = [w \in Workers |->
                       IF w \in Pending(disk) THEN SetWorkerStatus(disk, w, "active").wk[w]
                       ELSE @[w]]]
          /\ todo' = {}
    /\ UNCHANGED <<disk, gitVars, taskVars, fresh, askVars, reporter, scan,
                   r7, report, calls>>

\* A worker that was asked to resolve and has produced nothing is left alone.
ResolutionInFlight(w) ==
    /\ mem.wk[w].status = "resolving" /\ ~dirty[w]
    /\ mem.wk[w].branchHead \in {-1, branch[w]}

\* errStaleResolution: the integration HEAD is no longer the one the
\* conflict was detected against.
StaleResolution(w) ==
    mem.wk[w].integHead # NoHead /\ mem.wk[w].integHead # intg

\* tryMergeWorker and mergeResolvedWorker for one worker.
ResumeDeferred(w) ==
    /\ ResolutionInFlight(w)
    /\ UNCHANGED <<mem, branch, dirty, intg, faults>>

ResumeForced(w) ==
    LET tip == IF dirty[w] THEN branch[w] + 1 ELSE branch[w]
        s == SetWorkerStatus(mem, w, "resolving")
    IN /\ ~ResolutionInFlight(w)
       /\ branch' = [branch EXCEPT ![w] = tip]
       /\ dirty' = [dirty EXCEPT ![w] = FALSE]
       /\ \/ /\ tip = intg[w]                             \* already merged
             /\ mem' = SetWorkerStatus(s, w, "integrated")
             /\ UNCHANGED <<intg, faults>>
          \/ /\ tip # intg[w] /\ StaleResolution(w)
             /\ mem' = SetWorkerStatus(s, w, "active")
             /\ UNCHANGED <<intg, faults>>
          \/ /\ tip # intg[w] /\ ~StaleResolution(w)       \* merge -X theirs
             /\ intg' = [intg EXCEPT ![w] = tip]
             /\ mem' = SetWorkerStatus(s, w, "integrated")
             /\ UNCHANGED faults
          \/ /\ tip # intg[w] /\ ~StaleResolution(w) /\ faults < calls.git
             /\ faults' = faults + 1
             /\ mem' = SetWorkerStatus(s, w, "conflict")
             /\ UNCHANGED intg

\* The resolution cannot be committed.
ResumeCommitFails(w) ==
    /\ dirty[w] /\ faults < calls.git /\ faults' = faults + 1
    /\ mem' = SetWorkerStatus(SetWorkerStatus(mem, w, "resolving"), w, "conflict")
    /\ UNCHANGED <<branch, dirty, intg>>

ResumeWorker ==
    /\ mu = "resume" /\ todo # {}
    /\ LET w == Min(todo)
       IN /\ ResumeDeferred(w) \/ ResumeForced(w) \/ ResumeCommitFails(w)
          /\ todo' = todo \ {w}
    /\ UNCHANGED <<disk, mu, tally, seen, base, taskVars, fresh, askVars,
                   hookVars, scan, r7, report, calls>>

\* The failure count, finalizeResumeMergeIntegrationStatus with the content
\* check of verifyWorkersMerged, and the final fall back to failed.
ResumeOutcome ==
    LET progress == tally.set = {} \/ \E w \in tally.set :
                                         mem.wk[w].status \in {"active", "integrated"}
        s == IF progress THEN [mem EXCEPT !.failures = 0]
             ELSE RecordMergeFailure(mem)
        terminal == \A w \in Present(s) : s.wk[w].status = "integrated"
        bad == {w \in Workers : branch[w] # intg[w]}
        t == CASE ~terminal \/ tally.set = {} -> s
               [] terminal /\ tally.set # {} /\ bad # {} ->
                    RecordMergeFailure([s EXCEPT !.wk = [w \in Workers |->
                        IF w \in bad THEN SetWorkerStatus(s, w, "conflict").wk[w]
                        ELSE @[w]]])
               [] OTHER -> SetIntegrationStatus(SetIntegrationStatus(s, "merging"), "merged")
    IN IF t.integ \in {"merged", "quarantined"} THEN t ELSE SetIntegrationStatus(t, "failed")

ResumeEnd ==
    /\ mu = "resume" /\ todo = {}
    /\ disk' = ResumeOutcome
    /\ fresh' = {}
    /\ mem' = NoState /\ mu' = "free" /\ tally' = NoTally
    /\ UNCHANGED <<todo, gitVars, taskVars, askVars, hookVars, scan, r7, report, faults, calls>>

\* "plan resolve_conflict": the Planner takes a worker off the list of failed
\* commits, which reopens the publish gate.
ResolveConflict(w) ==
    /\ ~Ended /\ calls.other > 0 /\ mu = "free" /\ w \in disk.commitFailed
    /\ calls' = [calls EXCEPT !.other = @ - 1]
    /\ LET s == [disk EXCEPT !.commitFailed = @ \ {w}]
       IN disk' = IF s.integ \in ResumeStatus
                  THEN [SetIntegrationStatus(s, "failed") EXCEPT !.failures = 0] ELSE s
    /\ fresh' = {}
    /\ sig' = IF w \in asked THEN sig \cup {w} ELSE sig   \* its signal is reopened
    /\ UNCHANGED <<muVars, gitVars, taskVars, asked, hookVars, scan, r7, report, faults>>

\* Unquarantine, and RecoverDirtyWorktreeQuarantine for the transient reasons.
Unquarantine ==
    /\ ~Ended /\ calls.other > 0 /\ mu = "free" /\ disk.integ = "quarantined"
    /\ calls' = [calls EXCEPT !.other = @ - 1]
    /\ disk' = [disk EXCEPT !.integ = "failed", !.failures = 0]
    /\ fresh' = {}
    /\ UNCHANGED <<muVars, gitVars, taskVars, askVars, hookVars, scan, r7, report, faults>>

----------------------------------------------------------------------------

Stop == Ended /\ UNCHANGED vars

ScanStep == \/ ScanCollect \/ ScanDispatched \/ ScanCommit \/ ScanNoMerge \/ ScanPrepareFails
            \/ MergeBegin \/ MergeWorker \/ MergeFatalError \/ MergeEnd
            \/ ScanSync \/ ScanPublish \/ ScanApply \/ R7Load \/ R7Write
ResumeStep == ResumeRefused \/ ResumeBegin \/ ResumeWorker \/ ResumeEnd

Next ==
    \/ \E w \in Workers :
          \/ StartTask(w) \/ Edit(w) \/ FinishTask(w) \/ FailTask(w)
          \/ PlannerAddsResolution(w) \/ AfterResolution(w) \/ ResolveConflict(w)
    \/ ScanStep \/ ResumeStep
    \/ AutoRecover \/ Unquarantine
    \/ Stop

Spec == Init /\ [][Next]_vars

----------------------------------------------------------------------------
(* Properties.                                                             *)

StateFile ==
    [integ : IntegrationStatus, failures : 0..MergeFailureQuarantineThreshold,
     commitFailed : SUBSET Workers,
     wk : [Workers -> [status : WorkerStatus, branchHead : CommitCounts \cup {-1},
                       integHead : Heads \cup {NoHead},
                       attempts : 0..MaxConflictResolutionAttempts,
                       escalated : BOOLEAN]]]

\* Every variable has its type; in particular no counter leaves its bound.
TypeOK ==
    /\ disk \in StateFile
    /\ mem \in StateFile \cup {NoState} /\ r7 \in StateFile \cup {NoState}
    /\ mu \in {"free", "merge", "resume"}
    /\ todo \in SUBSET Workers
    /\ branch \in Heads /\ intg \in Heads /\ base \in Heads
    /\ dirty \in [Workers -> BOOLEAN]
    /\ seen \in [Workers -> Heads]
    /\ task \in [Workers -> {"none", "queued", "run", "resolve"}]
    /\ left \in [Workers -> 0..MaxTasks]
    /\ completed \in BOOLEAN /\ taskFailed \in BOOLEAN /\ resumeReq \in BOOLEAN
    /\ fresh \in SUBSET Workers /\ sig \in SUBSET Workers
    /\ asked \in SUBSET Workers /\ reporter \in SUBSET Workers
    /\ scan.pc \in {"idle", "dispatch", "commit", "merge", "sync", "publish", "apply", "reconcile", "r7"}
    /\ scan.leased \in SUBSET Workers /\ scan.items \in SUBSET Workers /\ scan.ok \in SUBSET Workers
    /\ report \in {"none", "failed"}
    /\ calls \in AllBudgets /\ faults \in 0..calls.git

\* A worker the state file calls integrated has every commit of its branch
\* on the integration branch: MergeToIntegration skips such workers, so one
\* that is wrongly integrated is never merged again.
IntegratedIsMerged ==
    \A w \in Workers : disk.wk[w].status = "integrated" /\ mu = "free"
                           => branch[w] = intg[w]

\* While git does not fail, an integration called merged has no worker whose
\* conflict is unresolved: the publish gate looks at the integration status,
\* never at the workers.
MergedIsResolved == faults = 0 /\ disk.integ = "merged" /\ mu = "free" => Pending(disk) = {}

\* What the state file says of a worker and of the command, the branches bear
\* out.
IntegrationIsWhole == IntegratedIsMerged /\ MergedIsResolved

\* What is published is everything the workers of the command did: no commit
\* of a worker branch and no edit of a worktree stays behind, since the
\* worktrees are removed right after.
PublishedHasAllWork ==
    Ended => \A w \in Workers : base[w] = branch[w] /\ ~dirty[w]

\* That is so while git does not fail.
SoundPublishHasAllWork == faults = 0 => PublishedHasAllWork

\* The work of a worker, committed or not, stays until the worktrees are
\* removed: no step of the daemon takes it off the branch and the worktree.
Work(w) == branch[w] + (IF dirty[w] THEN 1 ELSE 0)
WorkKept == [][\A w \in Workers : Work(w)' >= Work(w)]_vars

\* A command reported as failed is not published afterwards.
FailedIsNotPublished == report = "failed" => ~Ended

\* A merge that ResumeMerge makes never takes a worker's half-done
\* resolution: the resolution task of that worker is over.
ResolutionInFlightKept ==
    [][\A w \in Workers : mu = "resume" /\ intg'[w] # intg[w] => task[w] # "resolve"]_vars
=============================================================================
