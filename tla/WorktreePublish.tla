--------------------------- MODULE WorktreePublish ---------------------------
(***************************************************************************)
(* Publishing integration branches to the base branch.  Several commands   *)
(* share one base branch and one project root, the user's own checkout of  *)
(* it.  A publish is a sequence of git operations under the Manager's      *)
(* mutex, so two publishes never overlap; but the user works in the        *)
(* project root at any time, and the daemon can die between any two        *)
(* operations.  What survives is the git repository and the state file.    *)
(*                                                                         *)
(* A commit, a tree and a branch are represented by the set of changes     *)
(* they contain: the work of a command is one change, a commit of the user *)
(* is another.                                                             *)
(***************************************************************************)
EXTENDS Integers, FiniteSets

CONSTANTS
    Commands,        \* the commands with an integration branch
    MaxFailures,     \* publishFailureQuarantineThreshold
    MaxUserCommits,  \* bound: commits of the user on the base branch
    MaxResolutions,  \* bound: conflict resolution tasks of the planner
    MaxRetries,      \* bound: retry-publish and unquarantine by the operator
    MaxFaults,       \* bound: number of faults in a behaviour
    FaultKinds,      \* which faults happen: subset of AllFaultKinds
    EditsDuringSync  \* whether the user edits while a publish moves the root

\* crash: the daemon restarts; git: a git command before the base ref moves
\* fails; readtree, reset: those commands fail; save: the state file is not
\* written.
AllFaultKinds == {"crash", "git", "readtree", "reset", "save"}

ASSUME CommandsAssumption == IsFiniteSet(Commands) /\ Commands # {}
ASSUME ThresholdAssumption == MaxFailures \in Nat \ {0}
ASSUME BoundAssumption ==
    /\ MaxUserCommits \in Nat
    /\ MaxResolutions \in Nat
    /\ MaxRetries \in Nat
    /\ MaxFaults \in Nat
    /\ FaultKinds \subseteq AllFaultKinds
    /\ EditsDuringSync \in BOOLEAN

VARIABLES
    integ,     \* the integration part of state/worktrees/<command>.yaml
    branch,    \* the integration branch of each command
    forward,   \* the in-flight forward merge in its integration worktree
    resolver,  \* whether a conflict resolution task is under way
    base,      \* the base branch
    root,      \* the project root: its index and the user's uncommitted edits
    pending,   \* refs/maestro/publish-sync-pending/<command>
    stash,     \* refs/maestro/pre-publish-stash/<command>
    pub,       \* the publish in progress
    signals,   \* publish_quarantined and publish_conflict signals queued
    used,      \* how much of each bound is used up
    lost       \* history: edits of the user that the daemon destroyed

vars == <<integ, branch, forward, resolver, base, root, pending, stash, pub,
          signals, used, lost>>

Changes == [by : Commands \cup {"user"}, n : 0 .. MaxUserCommits]

WorkOf(c) == [by |-> c, n |-> 0]

UserCommit(n) == [by |-> "user", n |-> n]

Edits == {"staged", "unstaged"}

NoRef == [set |-> FALSE, tree |-> {}]

Ref(tree) == [set |-> TRUE, tree |-> tree]

Refs == [set : BOOLEAN, tree : SUBSET Changes]

\* "publishing" is only ever the status in memory.  waiting: NextPublishRetryAt
\* is in the future.  conflict: PublishConflictFiles is not empty.  removed and
\* dropped: the state file of a published or a quarantined command is deleted.
Integration ==
    [status    : {"merged", "publish_failed", "quarantined", "published",
                  "removed", "dropped"},
     failures  : Nat,
     waiting   : BOOLEAN,
     conflict  : BOOLEAN,
     signaled  : BOOLEAN,
     dirtyRoot : BOOLEAN,
     stall     : BOOLEAN]

\* merging: MERGE_HEAD exists; markers: the conflict markers are still there;
\* of: the base that is being merged.
ForwardMerge == [merging : BOOLEAN, markers : BOOLEAN, of : SUBSET Changes]

NoForward == [merging |-> FALSE, markers |-> FALSE, of |-> {}]

PublishSteps == {"idle", "forward", "merge", "check", "mark", "advance",
                 "readtree", "reset", "finalize", "report"}

Publish == [step     : PublishSteps,
            cmd      : Commands,
            conflict : BOOLEAN,
            signaled : BOOLEAN,
            baseSHA  : SUBSET Changes,
            mergeSHA : SUBSET Changes]

Idle == [step |-> "idle", cmd |-> CHOOSE c \in Commands : TRUE,
         conflict |-> FALSE, signaled |-> FALSE, baseSHA |-> {}, mergeSHA |-> {}]

gitVars == <<branch, forward, base, root, pending, stash>>

-----------------------------------------------------------------------------
(* Faults and bounds.                                                      *)

Fault(kind) ==
    /\ kind \in FaultKinds
    /\ used.faults < MaxFaults
    /\ used' = [used EXCEPT !.faults = @ + 1]

At(step) == pub.step = step

\* wm.mu is not held by a publish.
MutexIsFree == pub.step \in {"idle", "report"}

Go(step) == pub' = [pub EXCEPT !.step = step]

-----------------------------------------------------------------------------
(* The state file of the command that is being published.                  *)

\* Mutant: the failure is not counted.
PublishFailureUncounted(i) ==
    [i EXCEPT !.status = "publish_failed", !.waiting = TRUE]

\* recordPublishFailure: back off, or quarantine at the threshold.
RecordPublishFailure(i) ==
    IF i.failures + 1 >= MaxFailures
    THEN [i EXCEPT !.failures = @ + 1, !.status = "quarantined", !.waiting = FALSE]
    ELSE [i EXCEPT !.failures = @ + 1, !.status = "publish_failed", !.waiting = TRUE]

\* recordPublishTerminalFailure: quarantine at once.
RecordPublishTerminalFailure(i, dirty) ==
    [i EXCEPT !.failures = @ + 1, !.status = "quarantined", !.waiting = FALSE,
              !.dirtyRoot = dirty]

\* The state as the publish holds it in memory.
InMemory == [integ[pub.cmd] EXCEPT !.conflict = pub.conflict, !.signaled = pub.signaled]

\* The publish returns an error and the deferred handler saves the outcome.
EndWith(i) ==
    /\ integ' = [integ EXCEPT ![pub.cmd] = i]
    /\ pub' = [Idle EXCEPT !.step = "report", !.cmd = pub.cmd]
    /\ UNCHANGED signals

Fail == EndWith(RecordPublishFailure(InMemory))

-----------------------------------------------------------------------------
(* The publish, one git operation at a time.                               *)

\* stepWorktreePublish and collectWorktreePublishAndCleanup select the command
\* when all its tasks are terminal; stepPublishWorktrees re-reads the status.
StartPublish(c) ==
    /\ At("idle")
    /\ resolver[c] = "none"
    /\ integ[c].status = "merged" \/ (integ[c].status = "publish_failed" /\ ~integ[c].waiting)
    /\ pub' = [Idle EXCEPT !.step = "forward", !.cmd = c,
                           !.conflict = integ[c].conflict, !.signaled = integ[c].signaled]
    /\ UNCHANGED <<integ, gitVars, resolver, signals, used, lost>>

\* forwardMergeBaseToIntegration: the base contains nothing new, or merges
\* cleanly, or an in-flight forward merge has been resolved and is committed.
ForwardMergeDone ==
    LET c == pub.cmd
        arrived == IF forward[c].merging THEN forward[c].of ELSE base
    IN /\ At("forward")
       /\ ~(forward[c].merging /\ forward[c].markers)
       /\ branch' = [branch EXCEPT ![c] = @ \cup arrived]
       /\ forward' = [forward EXCEPT ![c] = NoForward]
       /\ pub' = [pub EXCEPT !.step = "merge", !.conflict = FALSE]
       /\ UNCHANGED <<integ, resolver, base, root, pending, stash, signals, used, lost>>

\* The merge base cannot be computed: the publish goes on without the merge.
ForwardMergeSkipped ==
    /\ At("forward")
    /\ ~forward[pub.cmd].merging
    /\ Fault("git")
    /\ Go("merge")
    /\ UNCHANGED <<integ, gitVars, resolver, signals, lost>>

\* The forward merge conflicts: the markers stay for a worker to resolve.
\* New conflict files are signalled again.
ForwardMergeConflict ==
    LET c == pub.cmd
        fresh == ~forward[c].merging
        i == [InMemory EXCEPT !.conflict = TRUE,
                              !.signaled = IF fresh /\ ~pub.conflict THEN FALSE ELSE @]
    IN /\ At("forward")
       /\ IF fresh THEN ~(base \subseteq branch[c]) ELSE forward[c].markers
       /\ forward' = [forward EXCEPT ![c] =
                         IF fresh THEN [merging |-> TRUE, markers |-> TRUE, of |-> base] ELSE @]
       /\ EndWith(RecordPublishFailure(i))
       /\ UNCHANGED <<branch, resolver, base, root, pending, stash, used, lost>>

\* createTempPublishBranch and mergeIntegrationIntoPublishTemp.
TempMerge ==
    /\ At("merge")
    /\ pub' = [pub EXCEPT !.step = "check", !.baseSHA = base,
                          !.mergeSHA = base \cup branch[pub.cmd]]
    /\ UNCHANGED <<integ, gitVars, resolver, signals, used, lost>>

\* The base moved since the forward merge, and the temporary merge conflicts.
TempMergeConflict ==
    /\ At("merge")
    /\ ~(base \subseteq branch[pub.cmd])
    /\ Fail
    /\ UNCHANGED <<gitVars, resolver, used, lost>>

RootIsDirty == root.edits # {} \/ root.index # base

\* Mutant: the index is not compared with the pre-publish tree.
InterruptedSyncIgnoresIndex(c) ==
    /\ pending[c].set
    /\ "unstaged" \notin root.edits

\* tryCompleteInterruptedPublishSync: the working tree matches the index and
\* the index is the tree from before the interrupted publish.
InterruptedSync(c) ==
    /\ pending[c].set
    /\ root.edits = {}
    /\ root.index = pending[c].tree

\* reset --hard: the root becomes the head; what the user had there and is in
\* no stash is gone.
ResetHard(saved) ==
    /\ root' = [index |-> base, edits |-> {}]
    /\ lost' = lost \cup (root.edits \ saved)

\* fastForwardBaseBranchRef, the dirty check.
CheckRoot ==
    /\ At("check")
    /\ \/ /\ ~RootIsDirty
          /\ UNCHANGED <<root, lost, pending>>
       \/ /\ RootIsDirty
          /\ InterruptedSync(pub.cmd)
          /\ ResetHard({})
          /\ pending' = [pending EXCEPT ![pub.cmd] = NoRef]
    /\ Go("mark")
    /\ UNCHANGED <<integ, branch, forward, resolver, base, stash, signals, used>>

\* errPublishDirtyRoot: quarantined without a retry.
RootRefused ==
    /\ At("check")
    /\ RootIsDirty
    /\ ~InterruptedSync(pub.cmd)
    /\ EndWith(RecordPublishTerminalFailure(InMemory, TRUE))
    /\ UNCHANGED <<gitVars, resolver, used, lost>>

\* The repair fails halfway: the marker stays and the root counts as dirty.
RepairFails ==
    /\ At("check")
    /\ RootIsDirty
    /\ InterruptedSync(pub.cmd)
    /\ Fault("reset")
    /\ \E index \in {root.index, base} : root' = [root EXCEPT !.index = index]
    /\ EndWith(RecordPublishTerminalFailure(InMemory, TRUE))
    /\ UNCHANGED <<branch, forward, resolver, base, pending, stash, lost>>

\* Mutant: the marker records the commit that is about to be published.
MarkMergeSHA ==
    /\ At("mark")
    /\ pending' = [pending EXCEPT ![pub.cmd] = Ref(pub.mergeSHA)]
    /\ Go("advance")
    /\ UNCHANGED <<integ, branch, forward, resolver, base, root, stash, signals,
                   used, lost>>

\* The durable marker, before the ref moves.
MarkSyncPending ==
    /\ At("mark")
    /\ pending' = [pending EXCEPT ![pub.cmd] = Ref(pub.baseSHA)]
    /\ Go("advance")
    /\ UNCHANGED <<integ, branch, forward, resolver, base, root, stash, signals,
                   used, lost>>

\* Mutant: update-ref without the expected old value.
AdvanceUnchecked ==
    /\ At("advance")
    /\ base' = pub.mergeSHA
    /\ Go("readtree")
    /\ UNCHANGED <<integ, branch, forward, resolver, root, pending, stash, signals,
                   used, lost>>

\* update-ref with the expected old value.
AdvanceBase ==
    /\ At("advance")
    /\ base = pub.baseSHA
    /\ base' = pub.mergeSHA
    /\ Go("readtree")
    /\ UNCHANGED <<integ, branch, forward, resolver, root, pending, stash, signals,
                   used, lost>>

AdvanceRefused ==
    /\ At("advance")
    /\ base # pub.baseSHA
    /\ pending' = [pending EXCEPT ![pub.cmd] = NoRef]
    /\ Fail
    /\ UNCHANGED <<branch, forward, resolver, base, root, stash, used, lost>>

\* syncProjectRootAfterPublish: read-tree --reset -u overwrites the index and
\* every edit in the working tree.
ReadTree ==
    /\ At("readtree")
    /\ ResetHard({})
    /\ Go("reset")
    /\ UNCHANGED <<integ, branch, forward, resolver, base, pending, stash, signals, used>>

ReadTreeFails ==
    /\ At("readtree")
    /\ Fault("readtree")
    /\ Go("reset")
    /\ UNCHANGED <<integ, gitVars, resolver, signals, lost>>

\* Unstaged edits are stashed (with the staged ones); then reset --hard.
Saved == IF "unstaged" \in root.edits THEN root.edits ELSE {}

ResetRoot ==
    LET c == pub.cmd
    IN /\ At("reset")
       /\ stash' = IF Saved = {} THEN stash ELSE [stash EXCEPT ![c] = Saved]
       /\ ResetHard(Saved)
       /\ pending' = [pending EXCEPT ![c] = NoRef]
       /\ Go("finalize")
       /\ UNCHANGED <<integ, branch, forward, resolver, base, signals, used>>

\* The rollback restores the base ref only if it still holds the merge;
\* otherwise the publish stands and only the root is stale.
Rollback ==
    \/ /\ base = pub.mergeSHA
       /\ base' = pub.baseSHA
       /\ pending' = [pending EXCEPT ![pub.cmd] = NoRef]
       /\ Fail
    \/ /\ base # pub.mergeSHA
       /\ EndWith(RecordPublishTerminalFailure(InMemory, FALSE))
       /\ UNCHANGED <<base, pending>>

ResetRootFails ==
    /\ At("reset")
    /\ Fault("reset")
    /\ stash' = IF Saved = {} THEN stash ELSE [stash EXCEPT ![pub.cmd] = Saved]
    /\ Rollback
    /\ UNCHANGED <<branch, forward, resolver, root, lost>>

\* finalizePublishState.
Finalize ==
    /\ At("finalize")
    /\ integ' = [integ EXCEPT ![pub.cmd] =
                    [@ EXCEPT !.status = "published", !.failures = 0,
                              !.waiting = FALSE, !.conflict = FALSE, !.signaled = FALSE]]
    /\ pub' = Idle
    /\ UNCHANGED <<gitVars, resolver, signals, used, lost>>

\* The save fails: the file keeps the old status and the next scan retries.
FinalizeFails ==
    /\ At("finalize")
    /\ Fault("save")
    /\ pub' = Idle
    /\ UNCHANGED <<integ, gitVars, resolver, signals, lost>>

\* emitPublishConflictSignalIfNeeded, in Phase C of the same scan: a signal
\* once per set of conflict files.
Report ==
    LET c == pub.cmd
    IN /\ At("report")
       /\ \/ /\ integ[c].conflict /\ ~integ[c].signaled
             /\ signals' = signals \cup {[kind |-> "publish_conflict", cmd |-> c]}
             /\ integ' = [integ EXCEPT ![c].signaled = TRUE]
          \/ /\ ~(integ[c].conflict /\ ~integ[c].signaled)
             /\ UNCHANGED <<signals, integ>>
       /\ pub' = Idle
       /\ UNCHANGED <<gitVars, resolver, used, lost>>

\* A git command fails before the base ref moves.
GitFails ==
    /\ pub.step \in {"forward", "merge", "check", "mark"}
    /\ Fault("git")
    /\ Fail
    /\ UNCHANGED <<gitVars, resolver, lost>>

Crash ==
    /\ ~At("idle")
    /\ Fault("crash")
    /\ pub' = Idle
    /\ UNCHANGED <<integ, gitVars, resolver, signals, lost>>

-----------------------------------------------------------------------------
(* Around the publish.                                                     *)

\* NextPublishRetryAt passes.
BackoffElapses(c) ==
    /\ integ[c].waiting
    /\ integ' = [integ EXCEPT ![c].waiting = FALSE]
    /\ UNCHANGED <<gitVars, resolver, pub, signals, used, lost>>

\* The Planner answers a publish_conflict with a task on the integration
\* worktree; a quarantined command takes no new task.
AddResolution(c) ==
    /\ [kind |-> "publish_conflict", cmd |-> c] \in signals
    /\ integ[c].status # "quarantined"
    /\ resolver[c] = "none"
    /\ used.resolutions < MaxResolutions
    /\ resolver' = [resolver EXCEPT ![c] = "running"]
    /\ signals' = signals \ {[kind |-> "publish_conflict", cmd |-> c]}
    /\ used' = [used EXCEPT !.resolutions = @ + 1]
    /\ UNCHANGED <<integ, gitVars, pub, lost>>

\* The worker edits the conflict files; the daemon stages them later.
ResolveMarkers(c) ==
    /\ resolver[c] = "running"
    /\ forward[c].markers
    /\ forward' = [forward EXCEPT ![c].markers = FALSE]
    /\ UNCHANGED <<integ, branch, resolver, base, root, pending, stash, pub, signals,
                   used, lost>>

RetryPublishState(i) ==
    [i EXCEPT !.status = "merged", !.failures = 0, !.waiting = FALSE,
              !.conflict = FALSE, !.signaled = FALSE,
              !.stall = IF i.status = "quarantined" THEN FALSE ELSE @,
              !.dirtyRoot = FALSE]

\* The task completes: AutoRecoverAfterResolution retries the publish of a
\* failed one with conflict files.  It needs the Manager's mutex.
ResolutionCompletes(c) ==
    /\ resolver[c] = "running"
    /\ resolver' = [resolver EXCEPT ![c] = "none"]
    /\ IF integ[c].status = "publish_failed" /\ integ[c].conflict
       THEN MutexIsFree /\ integ' = [integ EXCEPT ![c] = RetryPublishState(@)]
       ELSE UNCHANGED integ
    /\ UNCHANGED <<gitVars, pub, signals, used, lost>>

ResolutionFails(c) ==
    /\ resolver[c] = "running"
    /\ resolver' = [resolver EXCEPT ![c] = "none"]
    /\ UNCHANGED <<integ, gitVars, pub, signals, used, lost>>

\* maestro plan retry-publish.
RetryPublish(c) ==
    /\ MutexIsFree
    /\ integ[c].status \in {"publish_failed", "quarantined"}
    /\ used.retries < MaxRetries
    /\ integ' = [integ EXCEPT ![c] = RetryPublishState(@)]
    /\ used' = [used EXCEPT !.retries = @ + 1]
    /\ UNCHANGED <<gitVars, resolver, pub, signals, lost>>

\* maestro plan unquarantine, for a publish quarantine.
Unquarantine(c) ==
    /\ MutexIsFree
    /\ integ[c].status = "quarantined"
    /\ used.retries < MaxRetries
    /\ integ' = [integ EXCEPT ![c] =
                    [@ EXCEPT !.status = "publish_failed", !.failures = 0,
                              !.waiting = FALSE, !.stall = FALSE, !.dirtyRoot = FALSE]]
    /\ used' = [used EXCEPT !.retries = @ + 1]
    /\ UNCHANGED <<gitVars, resolver, pub, signals, lost>>

\* Mutant: the guard is set and the signal is not queued.
R8GuardOnly(c) ==
    /\ At("idle")
    /\ integ[c].status = "quarantined" /\ ~integ[c].stall
    /\ integ' = [integ EXCEPT ![c].stall = TRUE]
    /\ UNCHANGED <<gitVars, resolver, pub, signals, used, lost>>

\* R8: the signal first, then the one-shot guard.
R8PublishFailed(c) ==
    /\ At("idle")
    /\ integ[c].status = "quarantined" /\ ~integ[c].stall
    /\ signals' = signals \cup {[kind |-> "publish_quarantined", cmd |-> c]}
    /\ \/ integ' = [integ EXCEPT ![c].stall = TRUE] /\ UNCHANGED used
       \/ (Fault("save") \/ Fault("crash")) /\ UNCHANGED integ
    /\ UNCHANGED <<gitVars, resolver, pub, lost>>

\* CleanupCommand of a published command, or the GC of an old quarantined one:
\* an interrupted sync is completed, an unactionable marker is dropped, the
\* stash ref, the branch and the state file go.
Cleanup(c) ==
    /\ At("idle")
    /\ integ[c].status \in {"published", "quarantined"}
    /\ IF InterruptedSync(c) THEN ResetHard({}) ELSE UNCHANGED <<root, lost>>
    /\ pending' = [pending EXCEPT ![c] = NoRef]
    /\ stash' = [stash EXCEPT ![c] = {}]
    /\ integ' = [integ EXCEPT ![c].status = IF @ = "published" THEN "removed" ELSE "dropped"]
    /\ UNCHANGED <<branch, forward, resolver, base, pub, signals, used>>

\* The repair of the root fails: the marker and the state file are kept.
CleanupFails(c) ==
    /\ At("idle")
    /\ integ[c].status \in {"published", "quarantined"}
    /\ InterruptedSync(c)
    /\ Fault("reset")
    /\ \E index \in {root.index, base} : root' = [root EXCEPT !.index = index]
    /\ stash' = [stash EXCEPT ![c] = {}]
    /\ UNCHANGED <<integ, branch, forward, resolver, base, pending, pub, signals, lost>>

-----------------------------------------------------------------------------
(* The user, in the project root.                                          *)

Moving == pub.step \in {"mark", "advance", "readtree", "reset"}

EditRoot(edit) ==
    /\ EditsDuringSync \/ ~Moving
    /\ root' = [root EXCEPT !.edits = @ \cup {edit}]
    /\ UNCHANGED <<integ, branch, forward, resolver, base, pending, stash, pub,
                   signals, used, lost>>

\* The user commits from a checkout that is up to date with its branch.
CommitOnBase ==
    /\ root.index = base
    /\ used.commits < MaxUserCommits
    /\ LET new == base \cup {UserCommit(used.commits + 1)}
       IN base' = new /\ root' = [index |-> new, edits |-> {}]
    /\ used' = [used EXCEPT !.commits = @ + 1]
    /\ UNCHANGED <<integ, branch, forward, resolver, pending, stash, pub, signals, lost>>

\* The user drops the edits, or the whole difference to the branch.
DropEdits ==
    /\ root.edits # {}
    /\ \E index \in {root.index, base} : root' = [index |-> index, edits |-> {}]
    /\ UNCHANGED <<integ, branch, forward, resolver, base, pending, stash, pub,
                   signals, used, lost>>

-----------------------------------------------------------------------------

Init ==
    /\ integ = [c \in Commands |->
                  [status |-> "merged", failures |-> 0, waiting |-> FALSE,
                   conflict |-> FALSE, signaled |-> FALSE, dirtyRoot |-> FALSE,
                   stall |-> FALSE]]
    /\ branch = [c \in Commands |-> {WorkOf(c)}]
    /\ forward = [c \in Commands |-> NoForward]
    /\ resolver = [c \in Commands |-> "none"]
    /\ base = {}
    /\ root = [index |-> {}, edits |-> {}]
    /\ pending = [c \in Commands |-> NoRef]
    /\ stash = [c \in Commands |-> {}]
    /\ pub = Idle
    /\ signals = {}
    /\ used = [commits |-> 0, resolutions |-> 0, retries |-> 0, faults |-> 0]
    /\ lost = {}

PublishStep ==
    \/ ForwardMergeDone \/ ForwardMergeSkipped \/ ForwardMergeConflict
    \/ TempMerge \/ TempMergeConflict
    \/ CheckRoot \/ RootRefused \/ RepairFails
    \/ MarkSyncPending
    \/ AdvanceBase \/ AdvanceRefused
    \/ ReadTree \/ ReadTreeFails
    \/ ResetRoot \/ ResetRootFails
    \/ Finalize \/ FinalizeFails
    \/ GitFails
    \/ Report

PlannerStep(c) == AddResolution(c) \/ RetryPublish(c) \/ Unquarantine(c)

WorkerStep(c) == ResolveMarkers(c) \/ ResolutionCompletes(c) \/ ResolutionFails(c)

UserStep == (\E edit \in Edits : EditRoot(edit)) \/ CommitOnBase \/ DropEdits

Next ==
    \/ PublishStep
    \/ Crash
    \/ UserStep
    \/ \E c \in Commands :
          \/ StartPublish(c)
          \/ BackoffElapses(c)
          \/ PlannerStep(c)
          \/ WorkerStep(c)
          \/ R8PublishFailed(c)
          \/ Cleanup(c) \/ CleanupFails(c)

Spec == Init /\ [][Next]_vars

\* A started publish runs to its end unless the daemon dies, every scan visits
\* every command, time passes and tasks end.  The planner and the user owe
\* nothing.  StartPublish and R8 need the mutex that publishes hold in between,
\* hence the strong fairness.
FairSpec ==
    /\ Spec
    /\ WF_vars(PublishStep)
    /\ \A c \in Commands :
          /\ SF_vars(StartPublish(c))
          /\ SF_vars(R8PublishFailed(c))
          /\ WF_vars(BackoffElapses(c))
          /\ SF_vars(ResolutionCompletes(c) \/ ResolutionFails(c))

-----------------------------------------------------------------------------
(* Properties.                                                             *)

TypeOK ==
    /\ integ \in [Commands -> Integration]
    /\ branch \in [Commands -> SUBSET Changes]
    /\ forward \in [Commands -> ForwardMerge]
    /\ resolver \in [Commands -> {"none", "running"}]
    /\ base \subseteq Changes
    /\ root \in [index : SUBSET Changes, edits : SUBSET Edits]
    /\ pending \in [Commands -> Refs]
    /\ stash \in [Commands -> SUBSET Edits]
    /\ pub \in Publish
    /\ signals \subseteq [kind : {"publish_conflict", "publish_quarantined"}, cmd : Commands]
    /\ used \in [commits : 0 .. MaxUserCommits, resolutions : 0 .. MaxResolutions,
                 retries : 0 .. MaxRetries, faults : 0 .. MaxFaults]
    /\ lost \subseteq Edits

\* What has been on the base branch stays there: the commits of the user, and
\* the work of every command whose state file says published, whoever else
\* publishes, rolls back or dies (the compare-and-swap of update-ref in
\* fastForwardBaseBranchRef and in the rollback).
BaseKeepsWork ==
    /\ \A n \in 1 .. used.commits : UserCommit(n) \in base
    /\ \A c \in Commands : integ[c].status \in {"published", "removed"} => branch[c] \subseteq base

\* The daemon destroys no uncommitted edit of the user: the dirty check comes
\* before the ref moves, the repair of an interrupted sync recognises a root
\* without edits, and what differs in the end is stashed
\* (fastForwardBaseBranchRef, tryCompleteInterruptedPublishSync,
\* syncProjectRootAfterPublish).
EditsKept == lost = {}

\* A publish loses nobody's work: neither commits on the base branch nor the
\* user's edits in the project root.
PublishKeepsWork == BaseKeepsWork /\ EditsKept

\* A project root that lags behind its branch while no publish runs can be
\* repaired by the daemon: the marker of some command still records the tree
\* the root is at (publishSyncPendingRef survives the crash).  Only the
\* deletion of a quarantined command gives the marker up.
StaleRootIsMarked ==
    At("idle") /\ root.index # base =>
        \E c \in Commands :
            \/ pending[c].set /\ pending[c].tree = root.index
            \/ integ[c].status = "dropped"

\* A publish is quarantined as dirty root only because of the user's edits
\* (errPublishDirtyRoot).
DirtyRootIsGenuine ==
    [][\A c \in Commands :
          ~integ[c].dirtyRoot /\ integ'[c].dirtyRoot => root.edits # {}]_vars

\* A merged command is published or quarantined in the end: no retry loop
\* goes on for ever and no interrupted publish is forgotten (the deferred
\* handler of PublishToBase saves every failure).
PublishSettles ==
    \A c \in Commands :
        integ[c].status = "merged" ~> integ[c].status \in {"published", "quarantined"}

\* The Planner hears of every quarantine (R8 queues the signal before it sets
\* the guard).
QuarantineIsReported ==
    \A c \in Commands :
        integ[c].status = "quarantined" ~>
            \/ [kind |-> "publish_quarantined", cmd |-> c] \in signals
            \/ integ[c].status # "quarantined"
=============================================================================
