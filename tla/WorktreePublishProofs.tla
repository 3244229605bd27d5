------------------------ MODULE WorktreePublishProofs ------------------------
(***************************************************************************)
(* Theorems about WorktreePublish, for any commands, bounds and faults.    *)
(***************************************************************************)
EXTENDS WorktreePublish, TLAPS

-----------------------------------------------------------------------------
(* The base branch.                                                         *)

Closed == {"published", "removed"}
Merged == {"check", "mark", "advance", "readtree", "reset", "finalize"}
Advanced == {"readtree", "reset"}

\* A commit the user has not made yet is nowhere.
Known(S) == \A n \in Nat : n > used.commits => UserCommit(n) \notin S
CommitsAreKnown ==
    /\ Known(base) /\ Known(pub.mergeSHA)
    /\ \A c \in Commands : Known(branch[c]) /\ Known(forward[c].of)

\* Base and the commit a rollback returns to hold all that was ever published.
Holds(S) ==
    /\ \A n \in 1 .. used.commits : UserCommit(n) \in S
    /\ \A c \in Commands : integ[c].status \in Closed => branch[c] \subseteq S
RollbackIsSafe ==
    pub.step \in Advanced /\ base = pub.mergeSHA => Holds(pub.baseSHA)

\* A command whose publish is under way is still open, and what is merged is
\* the base and the whole of its branch.
CmdIsOpen ==
    pub.step \notin {"idle", "report"} =>
        integ[pub.cmd].status \in {"merged", "publish_failed"}
MergeIsWhole ==
    pub.step \in Merged => branch[pub.cmd] \cup pub.baseSHA \subseteq pub.mergeSHA
AdvanceIsThere ==
    pub.step \in Advanced \cup {"finalize"} => pub.mergeSHA \subseteq base

BaseInv ==
    /\ TypeOK /\ CommitsAreKnown /\ Holds(base) /\ RollbackIsSafe /\ CmdIsOpen
    /\ MergeIsWhole /\ AdvanceIsThere

-----------------------------------------------------------------------------
(* The project root.                                                        *)

\* Nothing uncommitted is in the root while it is moved.
RootIsClean == Moving => root.edits = {}
RootInv == RootIsClean /\ EditsKept

\* A root behind its branch is known to the marker of a command.
RootIsMarked ==
    root.index # base =>
        \E c \in Commands :
            \/ pending[c].set /\ pending[c].tree = root.index
            \/ integ[c].status = "dropped"
MarkComesFirst ==
    /\ pub.step \in {"mark", "advance"} => root.index = base
    /\ pub.step = "advance" => pending[pub.cmd] = Ref(pub.baseSHA)
ClosedIsUnmarked ==
    /\ \A c \in Commands : integ[c].status \in Closed => ~pending[c].set
    /\ pub.step = "finalize" => ~pending[pub.cmd].set
MarkInv == RootIsMarked /\ MarkComesFirst /\ ClosedIsUnmarked


-----------------------------------------------------------------------------
(* Types.                                                                   *)

\* The outcome of a publish, as it is written to the state file.
LEMMA Outcomes ==
    ASSUME NEW i \in Integration
    PROVE  /\ RecordPublishFailure(i) \in Integration
           /\ RecordPublishFailure(i).status \in {"publish_failed", "quarantined"}
           /\ \A d \in BOOLEAN :
                /\ RecordPublishTerminalFailure(i, d) \in Integration
                /\ RecordPublishTerminalFailure(i, d).status = "quarantined"
           /\ RetryPublishState(i) \in Integration
           /\ RetryPublishState(i).status = "merged"
<1>1. i.failures + 1 \in Nat /\ i.stall \in BOOLEAN
  BY DEF Integration
<1>2. /\ RecordPublishFailure(i) \in Integration
      /\ RecordPublishFailure(i).status \in {"publish_failed", "quarantined"}
  BY <1>1 DEF RecordPublishFailure, Integration
<1>3. ASSUME NEW d \in BOOLEAN
      PROVE  /\ RecordPublishTerminalFailure(i, d) \in Integration
             /\ RecordPublishTerminalFailure(i, d).status = "quarantined"
  BY <1>1 DEF RecordPublishTerminalFailure, Integration
<1>4. RetryPublishState(i) \in Integration /\ RetryPublishState(i).status = "merged"
  BY DEF RetryPublishState, Integration
<1> QED
  BY <1>2, <1>3, <1>4

LEMMA Memory ==
    ASSUME TypeOK
    PROVE  InMemory \in Integration /\ InMemory.status = integ[pub.cmd].status
<1>1. integ[pub.cmd] \in Integration /\ pub.conflict \in BOOLEAN /\ pub.signaled \in BOOLEAN
  BY DEF TypeOK, Publish
<1> QED
  BY <1>1 DEF InMemory, Integration

LEMMA Sets ==
    ASSUME TypeOK
    PROVE  /\ Idle \in Publish /\ Idle.step = "idle" /\ pub.cmd \in Commands
           /\ NoRef \in Refs /\ ~NoRef.set /\ NoForward \in ForwardMerge
           /\ NoForward.of = {}
           /\ \A S \in SUBSET Changes : Ref(S) \in Refs
<1>1. (CHOOSE c \in Commands : TRUE) \in Commands
  BY CommandsAssumption
<1>2. Idle \in Publish /\ Idle.step = "idle"
  BY <1>1 DEF Idle, Publish, PublishSteps
<1> QED
  BY <1>2 DEF TypeOK, Publish, NoRef, Refs, NoForward, ForwardMerge, Ref

\* Where a publish goes.
LEMMA Goes ==
    ASSUME TypeOK, NEW l \in PublishSteps, Go(l)
    PROVE  /\ pub' \in Publish /\ pub'.step = l /\ pub'.cmd = pub.cmd
           /\ pub'.baseSHA = pub.baseSHA /\ pub'.mergeSHA = pub.mergeSHA
BY DEF TypeOK, Go, Publish

LEMMA Ends ==
    ASSUME TypeOK, NEW i \in Integration, EndWith(i)
    PROVE  /\ pub' \in Publish /\ pub'.step = "report" /\ pub'.mergeSHA = {}
           /\ pub'.cmd = pub.cmd
           /\ integ' \in [Commands -> Integration] /\ signals' = signals
           /\ integ'[pub.cmd] = i
           /\ \A c \in Commands : c # pub.cmd => integ'[c] = integ[c]
<1>1. Idle \in Publish /\ pub.cmd \in Commands
  BY Sets
<1>2. pub' = [Idle EXCEPT !.step = "report", !.cmd = pub.cmd]
  BY DEF EndWith
<1>3. pub' \in Publish /\ pub'.step = "report" /\ pub'.cmd = pub.cmd
  BY <1>1, <1>2 DEF Publish, PublishSteps
<1>4. pub'.mergeSHA = {}
  BY <1>2 DEF Idle
<1> QED
  BY <1>1, <1>3, <1>4 DEF EndWith, TypeOK

LEMMA Faults ==
    ASSUME TypeOK, NEW k, Fault(k)
    PROVE  /\ used' \in [commits : 0 .. MaxUserCommits, resolutions : 0 .. MaxResolutions,
                         retries : 0 .. MaxRetries, faults : 0 .. MaxFaults]
           /\ used'.commits = used.commits
<1>1. used.faults + 1 \in 0 .. MaxFaults
  BY BoundAssumption DEF TypeOK, Fault
<1> QED
  BY <1>1 DEF TypeOK, Fault

LEMMA Roots ==
    ASSUME TypeOK, NEW saved, ResetHard(saved)
    PROVE  /\ root' \in [index : SUBSET Changes, edits : SUBSET Edits]
           /\ root'.index = base /\ root'.edits = {} /\ lost' \subseteq Edits
BY DEF TypeOK, ResetHard


LEMMA StepTypes ==
    ASSUME TypeOK, PublishStep
    PROVE  TypeOK'
<1>0. pub.cmd \in Commands /\ InMemory \in Integration /\ Idle \in Publish
      /\ NoRef \in Refs /\ NoForward \in ForwardMerge
  BY Sets, Memory
<1>1. RecordPublishFailure(InMemory) \in Integration
      /\ RecordPublishTerminalFailure(InMemory, TRUE) \in Integration
      /\ RecordPublishTerminalFailure(InMemory, FALSE) \in Integration
  BY <1>0, Outcomes
<1>2. CASE ForwardMergeDone
  <2> DEFINE arrived == IF forward[pub.cmd].merging THEN forward[pub.cmd].of ELSE base
  <2>1. arrived \subseteq Changes
    BY <1>0 DEF TypeOK, ForwardMerge
  <2>2. branch' = [branch EXCEPT ![pub.cmd] = @ \cup arrived]
        /\ forward' = [forward EXCEPT ![pub.cmd] = NoForward]
        /\ pub' = [pub EXCEPT !.step = "merge", !.conflict = FALSE]
        /\ UNCHANGED <<integ, resolver, base, root, pending, stash, signals, used, lost>>
    BY <1>2 DEF ForwardMergeDone
  <2> HIDE DEF arrived
  <2>3. branch' \in [Commands -> SUBSET Changes] /\ forward' \in [Commands -> ForwardMerge]
    BY <1>0, <2>1, <2>2 DEF TypeOK
  <2>4. pub' \in Publish
    BY <2>2 DEF TypeOK, Publish, PublishSteps
  <2> QED
    BY <2>2, <2>3, <2>4 DEF TypeOK
<1>3. CASE ForwardMergeSkipped
  <2>1. Go("merge") /\ Fault("git") /\ "merge" \in PublishSteps
    BY <1>3 DEF ForwardMergeSkipped, PublishSteps
  <2> QED
    BY <1>3, <2>1, Goes, Faults DEF ForwardMergeSkipped, gitVars, TypeOK
<1>4. CASE ForwardMergeConflict
  <2> DEFINE fresh == ~forward[pub.cmd].merging
             i == [InMemory EXCEPT !.conflict = TRUE,
                              !.signaled = IF fresh /\ ~pub.conflict THEN FALSE ELSE @]
             f == IF fresh THEN [merging |-> TRUE, markers |-> TRUE, of |-> base]
                  ELSE forward[pub.cmd]
  <2>1. i \in Integration
    BY <1>0 DEF Integration
  <2>2. f \in ForwardMerge
    BY <1>0 DEF TypeOK, ForwardMerge
  <2>3. RecordPublishFailure(i) \in Integration
    BY <2>1, Outcomes
  <2>4. EndWith(RecordPublishFailure(i)) /\ forward' = [forward EXCEPT ![pub.cmd] = f]
        /\ UNCHANGED <<branch, resolver, base, root, pending, stash, used, lost>>
    BY <1>4 DEF ForwardMergeConflict
  <2> HIDE DEF i, f
  <2> QED
    BY <2>2, <2>3, <2>4, Ends DEF TypeOK
<1>5. CASE TempMerge
  <2>1. pub' = [pub EXCEPT !.step = "check", !.baseSHA = base,
                           !.mergeSHA = base \cup branch[pub.cmd]]
    BY <1>5 DEF TempMerge
  <2>2. base \in SUBSET Changes /\ base \cup branch[pub.cmd] \in SUBSET Changes
    BY <1>0 DEF TypeOK
  <2>3. pub' \in Publish
    BY <2>1, <2>2 DEF TypeOK, Publish, PublishSteps
  <2> QED
    BY <1>5, <2>3 DEF TempMerge, gitVars, TypeOK
<1>6. CASE TempMergeConflict \/ RootRefused \/ GitFails \/ RepairFails
  <2>1. EndWith(RecordPublishFailure(InMemory))
        \/ EndWith(RecordPublishTerminalFailure(InMemory, TRUE))
    BY <1>6 DEF TempMergeConflict, RootRefused, GitFails, RepairFails, Fail
  <2>2. pub' \in Publish /\ integ' \in [Commands -> Integration] /\ signals' = signals
    BY <1>1, <2>1, Ends
  <2>3. root' \in [index : SUBSET Changes, edits : SUBSET Edits]
    <3>1. CASE root' = root
      BY <3>1 DEF TypeOK
    <3>2. CASE RepairFails
      BY <3>2 DEF RepairFails, TypeOK
    <3> QED
      BY <1>6, <3>1, <3>2 DEF TempMergeConflict, RootRefused, GitFails, gitVars
  <2>4. used' \in [commits : 0 .. MaxUserCommits, resolutions : 0 .. MaxResolutions,
                   retries : 0 .. MaxRetries, faults : 0 .. MaxFaults]
    <3>1. CASE used' = used
      BY <3>1 DEF TypeOK
    <3>2. CASE Fault("git") \/ Fault("reset")
      BY <3>2, Faults
    <3> QED
      BY <1>6, <3>1, <3>2 DEF TempMergeConflict, RootRefused, GitFails, RepairFails
  <2>5. UNCHANGED <<branch, forward, resolver, base, pending, stash, lost>>
    BY <1>6 DEF TempMergeConflict, RootRefused, GitFails, RepairFails, gitVars
  <2> QED
    BY <2>2, <2>3, <2>4, <2>5 DEF TypeOK
<1>7. CASE CheckRoot
  <2>1. Go("mark") /\ "mark" \in PublishSteps
        /\ UNCHANGED <<integ, branch, forward, resolver, base, stash, signals, used>>
    BY <1>7 DEF CheckRoot, PublishSteps
  <2>2. root' \in [index : SUBSET Changes, edits : SUBSET Edits] /\ lost' \subseteq Edits
        /\ pending' \in [Commands -> Refs]
    <3>1. CASE UNCHANGED <<root, lost, pending>>
      BY <3>1 DEF TypeOK
    <3>2. CASE ResetHard({}) /\ pending' = [pending EXCEPT ![pub.cmd] = NoRef]
      BY <1>0, <3>2, Roots DEF TypeOK
    <3> QED
      BY <1>7, <3>1, <3>2 DEF CheckRoot
  <2> QED
    BY <2>1, <2>2, Goes DEF TypeOK
<1>8. CASE MarkSyncPending
  <2>1. Go("advance") /\ "advance" \in PublishSteps
    BY <1>8 DEF MarkSyncPending, PublishSteps
  <2>2. Ref(pub.baseSHA) \in Refs
    BY Sets DEF TypeOK, Publish
  <2> QED
    BY <1>0, <1>8, <2>1, <2>2, Goes DEF MarkSyncPending, TypeOK
<1>9. CASE AdvanceBase
  <2>1. Go("readtree") /\ "readtree" \in PublishSteps
    BY <1>9 DEF AdvanceBase, PublishSteps
  <2>2. pub.mergeSHA \subseteq Changes
    BY DEF TypeOK, Publish
  <2> QED
    BY <1>9, <2>1, <2>2, Goes DEF AdvanceBase, TypeOK
<1>10. CASE AdvanceRefused
  BY <1>0, <1>1, <1>10, Ends DEF AdvanceRefused, Fail, TypeOK
<1>11. CASE ReadTree
  <2>1. Go("reset") /\ "reset" \in PublishSteps /\ ResetHard({})
    BY <1>11 DEF ReadTree, PublishSteps
  <2> QED
    BY <1>11, <2>1, Goes, Roots DEF ReadTree, TypeOK
<1>12. CASE ReadTreeFails
  <2>1. Go("reset") /\ "reset" \in PublishSteps /\ Fault("readtree")
    BY <1>12 DEF ReadTreeFails, PublishSteps
  <2> QED
    BY <1>12, <2>1, Goes, Faults DEF ReadTreeFails, gitVars, TypeOK
<1>13. Saved \in SUBSET Edits
  BY DEF Saved, TypeOK
<1>14. CASE ResetRoot
  <2>1. Go("finalize") /\ "finalize" \in PublishSteps /\ ResetHard(Saved)
    BY <1>14 DEF ResetRoot, PublishSteps
  <2>2. stash' \in [Commands -> SUBSET Edits] /\ pending' \in [Commands -> Refs]
    BY <1>0, <1>13, <1>14 DEF ResetRoot, TypeOK
  <2>3. UNCHANGED <<integ, branch, forward, resolver, base, signals, used>>
    BY <1>14 DEF ResetRoot
  <2> QED
    BY <2>1, <2>2, <2>3, Goes, Roots DEF TypeOK
<1>15. CASE ResetRootFails
  <2>1. Fault("reset") /\ Rollback /\ UNCHANGED <<branch, forward, resolver, root, lost>>
    BY <1>15 DEF ResetRootFails
  <2>2. stash' \in [Commands -> SUBSET Edits]
    BY <1>0, <1>13, <1>15 DEF ResetRootFails, TypeOK
  <2>3. pub' \in Publish /\ integ' \in [Commands -> Integration] /\ signals' = signals
    BY <1>1, <2>1, Ends DEF Rollback, Fail
  <2>4. base' \subseteq Changes /\ pending' \in [Commands -> Refs]
    <3>1. pub.baseSHA \subseteq Changes /\ base \subseteq Changes /\ pending \in [Commands -> Refs]
      BY DEF TypeOK, Publish
    <3>2. /\ base' = pub.baseSHA \/ base' = base
          /\ pending' = [pending EXCEPT ![pub.cmd] = NoRef] \/ pending' = pending
      BY <2>1 DEF Rollback
    <3> QED
      BY <1>0, <3>1, <3>2
  <2> QED
    BY <2>1, <2>2, <2>3, <2>4, Faults DEF TypeOK
<1>16. CASE Finalize
  <2> DEFINE i == [integ[pub.cmd] EXCEPT !.status = "published", !.failures = 0,
                              !.waiting = FALSE, !.conflict = FALSE, !.signaled = FALSE]
  <2>0. integ[pub.cmd] \in Integration
    BY <1>0 DEF TypeOK
  <2>1. i \in Integration
    BY <2>0 DEF Integration
  <2>2. integ' = [integ EXCEPT ![pub.cmd] = i]
    BY <1>16 DEF Finalize
  <2> HIDE DEF i
  <2> QED
    BY <1>0, <1>16, <2>1, <2>2 DEF Finalize, gitVars, TypeOK
<1>17. CASE FinalizeFails
  BY <1>0, <1>17, Faults DEF FinalizeFails, gitVars, TypeOK
<1>18. CASE Report
  <2>0. integ[pub.cmd] \in Integration
    BY <1>0 DEF TypeOK
  <2>1. [integ[pub.cmd] EXCEPT !.signaled = TRUE] \in Integration
    BY <2>0 DEF Integration
  <2>2. integ' \in [Commands -> Integration]
    BY <1>0, <1>18, <2>1 DEF Report, TypeOK
  <2>3. signals' \subseteq [kind : {"publish_conflict", "publish_quarantined"}, cmd : Commands]
    BY <1>0, <1>18 DEF Report, TypeOK
  <2> QED
    BY <1>0, <1>18, <2>2, <2>3 DEF Report, gitVars, TypeOK
<1> QED
  BY <1>2, <1>3, <1>4, <1>5, <1>6, <1>7, <1>8, <1>9, <1>10, <1>11, <1>12, <1>14, <1>15,
     <1>16, <1>17, <1>18 DEF PublishStep

LEMMA AroundTypes ==
    ASSUME TypeOK, NEW c \in Commands,
           \/ StartPublish(c) \/ BackoffElapses(c) \/ PlannerStep(c) \/ WorkerStep(c)
           \/ R8PublishFailed(c) \/ Cleanup(c) \/ CleanupFails(c)
    PROVE  TypeOK'
<1>0. Idle \in Publish /\ NoRef \in Refs /\ integ[c] \in Integration
      /\ forward[c] \in ForwardMerge
  BY Sets DEF TypeOK
<1>1. RetryPublishState(integ[c]) \in Integration
  BY <1>0, Outcomes
<1>2. CASE StartPublish(c)
  <2>1. pub' = [Idle EXCEPT !.step = "forward", !.cmd = c,
                            !.conflict = integ[c].conflict, !.signaled = integ[c].signaled]
    BY <1>2 DEF StartPublish
  <2>2. integ[c].conflict \in BOOLEAN /\ integ[c].signaled \in BOOLEAN
    BY <1>0 DEF Integration
  <2>3. pub' \in Publish
    BY <1>0, <2>1, <2>2 DEF Publish, PublishSteps
  <2> QED
    BY <1>2, <2>3 DEF StartPublish, gitVars, TypeOK
<1>3. CASE BackoffElapses(c)
  <2>1. [integ[c] EXCEPT !.waiting = FALSE] \in Integration
    BY <1>0 DEF Integration
  <2>2. integ' \in [Commands -> Integration]
    BY <1>3, <2>1 DEF BackoffElapses, TypeOK
  <2> QED
    BY <1>3, <2>2 DEF BackoffElapses, gitVars, TypeOK
<1>4. CASE AddResolution(c)
  <2>1. used.resolutions + 1 \in 0 .. MaxResolutions
    BY <1>4, BoundAssumption DEF AddResolution, TypeOK
  <2> QED
    BY <1>4, <2>1 DEF AddResolution, gitVars, TypeOK
<1>5. CASE RetryPublish(c) \/ Unquarantine(c)
  <2>1. used.retries + 1 \in 0 .. MaxRetries
    BY <1>5, BoundAssumption DEF RetryPublish, Unquarantine, TypeOK
  <2>2. [integ[c] EXCEPT !.status = "publish_failed", !.failures = 0,
                         !.waiting = FALSE, !.stall = FALSE, !.dirtyRoot = FALSE]
          \in Integration
    BY <1>0 DEF Integration
  <2>3. integ' \in [Commands -> Integration]
    BY <1>1, <1>5, <2>2 DEF RetryPublish, Unquarantine, TypeOK
  <2>4. used' = [used EXCEPT !.retries = @ + 1]
        /\ UNCHANGED <<branch, forward, base, root, pending, stash, resolver, pub, signals, lost>>
    BY <1>5 DEF RetryPublish, Unquarantine, gitVars
  <2> QED
    BY <2>1, <2>3, <2>4 DEF TypeOK
<1>6. CASE ResolveMarkers(c)
  <2>1. [forward[c] EXCEPT !.markers = FALSE] \in ForwardMerge
    BY <1>0 DEF ForwardMerge
  <2>2. forward' \in [Commands -> ForwardMerge]
    BY <1>6, <2>1 DEF ResolveMarkers, TypeOK
  <2> QED
    BY <1>6, <2>2 DEF ResolveMarkers, TypeOK
<1>7. CASE ResolutionCompletes(c) \/ ResolutionFails(c)
  <2>1. integ' \in [Commands -> Integration]
    BY <1>1, <1>7 DEF ResolutionCompletes, ResolutionFails, TypeOK
  <2>2. resolver' = [resolver EXCEPT ![c] = "none"]
        /\ UNCHANGED <<branch, forward, base, root, pending, stash, pub, signals, used, lost>>
    BY <1>7 DEF ResolutionCompletes, ResolutionFails, gitVars
  <2> QED
    BY <2>1, <2>2 DEF TypeOK
<1>8. CASE R8PublishFailed(c)
  <2>1. [integ[c] EXCEPT !.stall = TRUE] \in Integration
    BY <1>0 DEF Integration
  <2>2. integ' \in [Commands -> Integration]
    BY <1>8, <2>1 DEF R8PublishFailed, TypeOK
  <2>4. used' \in [commits : 0 .. MaxUserCommits, resolutions : 0 .. MaxResolutions,
                   retries : 0 .. MaxRetries, faults : 0 .. MaxFaults]
    <3>1. used' = used \/ Fault("save") \/ Fault("crash")
      BY <1>8 DEF R8PublishFailed
    <3> QED
      BY <3>1, Faults DEF TypeOK
  <2>3. signals' \subseteq [kind : {"publish_conflict", "publish_quarantined"}, cmd : Commands]
    BY <1>8 DEF R8PublishFailed, TypeOK
  <2> QED
    BY <1>8, <2>2, <2>3, <2>4 DEF R8PublishFailed, gitVars, TypeOK
<1>9. CASE Cleanup(c)
  <2>1. [integ[c] EXCEPT !.status = IF @ = "published" THEN "removed" ELSE "dropped"]
          \in Integration
    BY <1>0 DEF Integration
  <2>2. integ' \in [Commands -> Integration]
    BY <1>9, <2>1 DEF Cleanup, TypeOK
  <2>3. root' \in [index : SUBSET Changes, edits : SUBSET Edits] /\ lost' \subseteq Edits
    BY <1>9, Roots DEF Cleanup, TypeOK
  <2> QED
    BY <1>0, <1>9, <2>2, <2>3 DEF Cleanup, TypeOK
<1>10. CASE CleanupFails(c)
  <2>1. root' \in [index : SUBSET Changes, edits : SUBSET Edits]
    BY <1>10 DEF CleanupFails, TypeOK
  <2>2. Fault("reset") /\ stash' = [stash EXCEPT ![c] = {}]
        /\ UNCHANGED <<integ, branch, forward, resolver, base, pending, pub, signals, lost>>
    BY <1>10 DEF CleanupFails
  <2> QED
    BY <2>1, <2>2, Faults DEF TypeOK
<1> QED
  BY <1>2, <1>3, <1>4, <1>5, <1>6, <1>7, <1>8, <1>9, <1>10 DEF PlannerStep, WorkerStep

LEMMA UserTypes ==
    ASSUME TypeOK, UserStep \/ Crash
    PROVE  TypeOK'
<1>1. CASE Crash
  BY <1>1, Sets, Faults DEF Crash, gitVars, TypeOK
<1>2. ASSUME NEW edit \in Edits, EditRoot(edit)
      PROVE  TypeOK'
  BY <1>2 DEF EditRoot, TypeOK
<1>3. CASE DropEdits
  BY <1>3 DEF DropEdits, TypeOK
<1>4. CASE CommitOnBase
  <2>1. used.commits + 1 \in 0 .. MaxUserCommits
    BY <1>4, BoundAssumption DEF CommitOnBase, TypeOK
  <2>2. UserCommit(used.commits + 1) \in Changes
    BY <2>1 DEF UserCommit, Changes
  <2>3. base' \in SUBSET Changes /\ root' = [index |-> base', edits |-> {}]
    BY <1>4, <2>2 DEF CommitOnBase, TypeOK
  <2> QED
    BY <1>4, <2>1, <2>3 DEF CommitOnBase, TypeOK
<1> QED
  BY <1>1, <1>2, <1>3, <1>4 DEF UserStep

\* The stored state is of its type, whatever fails and whoever dies.
THEOREM PublishTypeCorrect == Spec => []TypeOK
<1>1. Init => TypeOK
  <2> SUFFICES ASSUME Init
               PROVE  TypeOK
    OBVIOUS
  <2>1. Idle \in Publish
    <3>1. (CHOOSE c \in Commands : TRUE) \in Commands
      BY CommandsAssumption
    <3> QED
      BY <3>1 DEF Idle, Publish, PublishSteps
  <2>2. \A c \in Commands : WorkOf(c) \in Changes
    BY BoundAssumption DEF WorkOf, Changes
  <2>3. integ \in [Commands -> Integration]
    BY DEF Init, Integration
  <2>4. branch \in [Commands -> SUBSET Changes]
    BY <2>2 DEF Init
  <2> QED
    BY <2>1, <2>3, <2>4, BoundAssumption DEF Init, TypeOK, NoForward, ForwardMerge, NoRef, Refs
<1>2. TypeOK /\ [Next]_vars => TypeOK'
  <2> SUFFICES ASSUME TypeOK, [Next]_vars
               PROVE  TypeOK'
    OBVIOUS
  <2>1. CASE UNCHANGED vars
    BY <2>1 DEF vars, TypeOK
  <2> QED
    BY <2>1, StepTypes, AroundTypes, UserTypes DEF Next
<1> QED
  BY <1>1, <1>2, PTL DEF Spec


-----------------------------------------------------------------------------
(* The base branch keeps what was published.                                *)

\* What was not known stays unknown as long as the user makes no commit.
SameCommits == used'.commits = used.commits

\* No publish under way after the step.
LEMMA Quits ==
    ASSUME BaseInv, TypeOK', SameCommits, base' = base, branch' = branch,
           pub'.step \in {"idle", "report"}, pub'.mergeSHA = {},
           \A c \in Commands : Known(forward'[c].of),
           \A c \in Commands : integ'[c].status \in Closed => integ[c].status \in Closed
    PROVE  BaseInv'
<1>1. CommitsAreKnown' /\ Holds(base)'
  BY DEF BaseInv, CommitsAreKnown, Known, Holds, SameCommits
<1>2. RollbackIsSafe' /\ CmdIsOpen' /\ MergeIsWhole' /\ AdvanceIsThere'
  BY DEF RollbackIsSafe, CmdIsOpen, MergeIsWhole, AdvanceIsThere, Merged, Advanced
<1> QED
  BY <1>1, <1>2 DEF BaseInv

\* The publish, if one is under way, stands still.
LEMMA Aside ==
    ASSUME BaseInv, TypeOK', SameCommits, base' = base, branch' = branch, pub' = pub,
           \A c \in Commands : Known(forward'[c].of),
           \A c \in Commands : integ'[c].status \in Closed => integ[c].status \in Closed,
           pub.step \notin {"idle", "report"} =>
               integ'[pub.cmd].status \in {"merged", "publish_failed"}
    PROVE  BaseInv'
<1>1. CommitsAreKnown' /\ Holds(base)'
  BY DEF BaseInv, CommitsAreKnown, Known, Holds, SameCommits
<1>2. Holds(pub.baseSHA) => Holds(pub.baseSHA)'
  BY DEF Holds, SameCommits
<1>3. RollbackIsSafe' /\ CmdIsOpen' /\ MergeIsWhole' /\ AdvanceIsThere'
  BY <1>2 DEF BaseInv, RollbackIsSafe, CmdIsOpen, MergeIsWhole, AdvanceIsThere
<1> QED
  BY <1>1, <1>3 DEF BaseInv

\* The publish goes on, and only its place changes.
LEMMA GoesOn ==
    ASSUME BaseInv, TypeOK', SameCommits, base' = base, branch' = branch,
           forward' = forward, integ' = integ,
           pub'.cmd = pub.cmd, pub'.baseSHA = pub.baseSHA, pub'.mergeSHA = pub.mergeSHA,
           pub.step \notin {"idle", "report"},
           pub'.step \in Advanced => pub.step \in Advanced,
           pub'.step \in Merged => pub.step \in Merged,
           pub'.step = "finalize" => pub.step \in Advanced
    PROVE  BaseInv'
<1>1. CommitsAreKnown' /\ Holds(base)'
  BY DEF BaseInv, CommitsAreKnown, Known, Holds, SameCommits
<1>2. Holds(pub.baseSHA) => Holds(pub.baseSHA)'
  BY DEF Holds, SameCommits
<1>3. RollbackIsSafe' /\ CmdIsOpen' /\ MergeIsWhole' /\ AdvanceIsThere'
  BY <1>2 DEF BaseInv, RollbackIsSafe, CmdIsOpen, MergeIsWhole, AdvanceIsThere
<1> QED
  BY <1>1, <1>3 DEF BaseInv

\* The publish fails and its outcome is saved.
LEMMA FailKeeps ==
    ASSUME BaseInv, TypeOK', SameCommits, base' = base, branch' = branch,
           \A c \in Commands : Known(forward'[c].of),
           NEW i \in Integration, i.status \notin Closed, EndWith(i)
    PROVE  BaseInv'
<1>1. TypeOK
  BY DEF BaseInv
<1>2. /\ pub'.step = "report" /\ pub'.mergeSHA = {} /\ pub.cmd \in Commands
      /\ integ'[pub.cmd] = i
      /\ \A c \in Commands : c # pub.cmd => integ'[c] = integ[c]
  BY <1>1, Ends, Sets
<1>3. \A c \in Commands : integ'[c].status \in Closed => integ[c].status \in Closed
  BY <1>2
<1> QED
  BY <1>2, <1>3, Quits

LEMMA Failures ==
    ASSUME BaseInv
    PROVE  /\ TypeOK /\ pub.cmd \in Commands /\ InMemory \in Integration
           /\ \A i \in Integration :
                /\ RecordPublishFailure(i) \in Integration
                /\ RecordPublishFailure(i).status \notin Closed
           /\ \A d \in BOOLEAN :
                /\ RecordPublishTerminalFailure(InMemory, d) \in Integration
                /\ RecordPublishTerminalFailure(InMemory, d).status \notin Closed
           /\ \A c \in Commands : Known(forward[c].of) /\ Known(branch[c])
           /\ Known({})
BY Memory, Sets, Outcomes DEF BaseInv, Closed, CommitsAreKnown, Known

LEMMA Steady ==
    ASSUME TypeOK, NEW k, Fault(k) \/ used' = used
    PROVE  SameCommits
BY Faults DEF SameCommits

LEMMA StepKeeps ==
    ASSUME BaseInv, PublishStep
    PROVE  BaseInv'
<1>0. TypeOK /\ TypeOK' /\ pub.cmd \in Commands /\ InMemory \in Integration
  BY Failures, StepTypes
<1>1. CASE ForwardMergeDone
  <2> DEFINE c == pub.cmd
             arrived == IF forward[c].merging THEN forward[c].of ELSE base
  <2>1. /\ pub.step = "forward" /\ branch' = [branch EXCEPT ![c] = @ \cup arrived]
        /\ forward' = [forward EXCEPT ![c] = NoForward] /\ base' = base /\ used' = used
        /\ integ' = integ /\ pub' = [pub EXCEPT !.step = "merge", !.conflict = FALSE]
    BY <1>1 DEF ForwardMergeDone, At
  <2>2. Known(arrived)
    BY <1>0 DEF BaseInv, CommitsAreKnown
  <2> HIDE DEF arrived
  <2>3. SameCommits
    BY <2>1 DEF SameCommits
  <2>4. /\ pub'.step = "merge" /\ pub'.cmd = pub.cmd /\ pub'.mergeSHA = pub.mergeSHA
    BY <1>0, <2>1 DEF TypeOK, Publish
  <2>5. \A d \in Commands : d # c => branch'[d] = branch[d] /\ forward'[d] = forward[d]
    BY <1>0, <2>1 DEF TypeOK
  <2>6. branch'[c] = branch[c] \cup arrived /\ forward'[c] = NoForward
    BY <1>0, <2>1 DEF TypeOK
  <2>7. CommitsAreKnown'
    BY <2>1, <2>2, <2>3, <2>4, <2>5, <2>6, Sets, <1>0
       DEF BaseInv, CommitsAreKnown, Known, SameCommits
  <2>8. integ[c].status \notin Closed
    BY <2>1 DEF BaseInv, CmdIsOpen, Closed
  <2>9. Holds(base)'
    BY <2>1, <2>3, <2>5, <2>8 DEF BaseInv, Holds, SameCommits
  <2>10. CmdIsOpen'
    BY <2>1, <2>4 DEF BaseInv, CmdIsOpen
  <2>11. RollbackIsSafe' /\ MergeIsWhole' /\ AdvanceIsThere'
    BY <2>4 DEF RollbackIsSafe, MergeIsWhole, AdvanceIsThere, Merged, Advanced
  <2> QED
    BY <1>0, <2>7, <2>9, <2>10, <2>11 DEF BaseInv
<1>2. CASE ForwardMergeSkipped
  <2>1. /\ pub.step = "forward" /\ Fault("git") /\ Go("merge") /\ "merge" \in PublishSteps
        /\ UNCHANGED <<integ, branch, forward, base>>
    BY <1>2 DEF ForwardMergeSkipped, At, gitVars, PublishSteps
  <2> QED
    BY <1>0, <2>1, Goes, Steady, GoesOn DEF Merged, Advanced
<1>3. CASE ForwardMergeConflict
  <2> DEFINE c == pub.cmd
             fresh == ~forward[c].merging
             i == [InMemory EXCEPT !.conflict = TRUE,
                              !.signaled = IF fresh /\ ~pub.conflict THEN FALSE ELSE @]
             f == IF fresh THEN [merging |-> TRUE, markers |-> TRUE, of |-> base]
                  ELSE forward[c]
  <2>1. i \in Integration
    BY <1>0 DEF Integration
  <2>2. Known(f.of)
    BY <1>0 DEF BaseInv, CommitsAreKnown
  <2>3. /\ EndWith(RecordPublishFailure(i)) /\ forward' = [forward EXCEPT ![c] = f]
        /\ branch' = branch /\ base' = base /\ used' = used
    BY <1>3 DEF ForwardMergeConflict
  <2> HIDE DEF i, f
  <2>4. \A d \in Commands : Known(forward'[d].of)
    BY <1>0, <2>2, <2>3 DEF TypeOK, BaseInv, CommitsAreKnown
  <2> QED
    BY <1>0, <2>1, <2>3, <2>4, Failures, Steady, FailKeeps
<1>4. CASE TempMerge
  <2>1. /\ pub.step = "merge" /\ UNCHANGED <<integ, branch, forward, base, used>>
        /\ pub' = [pub EXCEPT !.step = "check", !.baseSHA = base,
                              !.mergeSHA = base \cup branch[pub.cmd]]
    BY <1>4 DEF TempMerge, At, gitVars
  <2>2. /\ pub'.step = "check" /\ pub'.cmd = pub.cmd
        /\ pub'.mergeSHA = base \cup branch[pub.cmd] /\ pub'.baseSHA = base
    BY <1>0, <2>1 DEF TypeOK, Publish
  <2>3. CommitsAreKnown' /\ Holds(base)'
    BY <1>0, <2>1, <2>2 DEF BaseInv, CommitsAreKnown, Known, Holds
  <2>4. RollbackIsSafe' /\ CmdIsOpen' /\ MergeIsWhole' /\ AdvanceIsThere'
    BY <2>1, <2>2 DEF BaseInv, RollbackIsSafe, CmdIsOpen, MergeIsWhole, AdvanceIsThere,
       Advanced
  <2> QED
    BY <1>0, <2>3, <2>4 DEF BaseInv
<1>5. CASE TempMergeConflict \/ RootRefused \/ GitFails \/ RepairFails
  <2>1. EndWith(RecordPublishFailure(InMemory))
        \/ EndWith(RecordPublishTerminalFailure(InMemory, TRUE))
    BY <1>5 DEF TempMergeConflict, RootRefused, GitFails, RepairFails, Fail
  <2>2. SameCommits
    BY <1>0, <1>5, Faults DEF TempMergeConflict, RootRefused, GitFails, RepairFails, SameCommits
  <2>3. UNCHANGED <<branch, forward, base>>
    BY <1>5 DEF TempMergeConflict, RootRefused, GitFails, RepairFails, gitVars
  <2> QED
    BY <1>0, <2>1, <2>2, <2>3, Failures, FailKeeps
<1>6. CASE CheckRoot
  <2>1. pub.step = "check" /\ Go("mark") /\ "mark" \in PublishSteps
        /\ UNCHANGED <<integ, branch, forward, base, used>>
    BY <1>6 DEF CheckRoot, At, PublishSteps
  <2> QED
    BY <1>0, <2>1, Goes, Steady, GoesOn DEF Merged, Advanced
<1>7. CASE MarkSyncPending
  <2>1. pub.step = "mark" /\ Go("advance") /\ "advance" \in PublishSteps
        /\ UNCHANGED <<integ, branch, forward, base, used>>
    BY <1>7 DEF MarkSyncPending, At, PublishSteps
  <2> QED
    BY <1>0, <2>1, Goes, Steady, GoesOn DEF Merged, Advanced
<1>8. CASE AdvanceBase
  <2>1. pub.step = "advance" /\ Go("readtree") /\ "readtree" \in PublishSteps
        /\ UNCHANGED <<integ, branch, forward, used>>
        /\ base = pub.baseSHA /\ base' = pub.mergeSHA
    BY <1>8 DEF AdvanceBase, At, PublishSteps
  <2>2. /\ pub'.step = "readtree" /\ pub'.cmd = pub.cmd /\ pub'.baseSHA = pub.baseSHA
        /\ pub'.mergeSHA = pub.mergeSHA
    BY <1>0, <2>1, Goes
  <2>3. pub.baseSHA \subseteq pub.mergeSHA
    BY <2>1 DEF BaseInv, MergeIsWhole, Merged
  <2>4. CommitsAreKnown' /\ Holds(base)'
    BY <2>1, <2>2, <2>3 DEF BaseInv, CommitsAreKnown, Known, Holds
  <2>5. RollbackIsSafe' /\ CmdIsOpen' /\ MergeIsWhole' /\ AdvanceIsThere'
    BY <2>1, <2>2 DEF BaseInv, Holds, RollbackIsSafe, CmdIsOpen, MergeIsWhole, AdvanceIsThere,
       Merged
  <2> QED
    BY <1>0, <2>4, <2>5 DEF BaseInv
<1>9. CASE AdvanceRefused
  <2>1. EndWith(RecordPublishFailure(InMemory)) /\ UNCHANGED <<branch, forward, base, used>>
    BY <1>9 DEF AdvanceRefused, Fail
  <2> QED
    BY <1>0, <2>1, Failures, Steady, FailKeeps
<1>10. CASE ReadTree \/ ReadTreeFails
  <2>1. pub.step = "readtree" /\ Go("reset") /\ "reset" \in PublishSteps
        /\ UNCHANGED <<integ, branch, forward, base>>
        /\ (used' = used \/ Fault("readtree"))
    BY <1>10 DEF ReadTree, ReadTreeFails, At, PublishSteps, gitVars
  <2> QED
    BY <1>0, <2>1, Goes, Steady, GoesOn DEF Merged, Advanced
<1>11. CASE ResetRoot
  <2>1. pub.step = "reset" /\ Go("finalize") /\ "finalize" \in PublishSteps
        /\ UNCHANGED <<integ, branch, forward, base, used>>
    BY <1>11 DEF ResetRoot, At, PublishSteps
  <2> QED
    BY <1>0, <2>1, Goes, Steady, GoesOn DEF Merged, Advanced
<1>12. CASE ResetRootFails
  <2>1. pub.step = "reset" /\ Rollback /\ SameCommits /\ UNCHANGED <<branch, forward>>
    BY <1>0, <1>12, Faults DEF ResetRootFails, At, SameCommits
  <2>2. CASE base # pub.mergeSHA
    <3>1. EndWith(RecordPublishTerminalFailure(InMemory, FALSE)) /\ base' = base
      BY <2>1, <2>2 DEF Rollback
    <3> QED
      BY <1>0, <2>1, <3>1, Failures, FailKeeps
  <2>3. CASE base = pub.mergeSHA
    <3>1. EndWith(RecordPublishFailure(InMemory)) /\ base' = pub.baseSHA
      BY <2>1, <2>3 DEF Rollback, Fail
    <3>2. /\ pub'.step = "report" /\ pub'.mergeSHA = {}
          /\ \A c \in Commands : integ'[c].status \in Closed => integ[c].status \in Closed
      BY <1>0, <3>1, Failures, Ends
    <3>3. Holds(pub.baseSHA) /\ pub.baseSHA \subseteq pub.mergeSHA
      BY <2>1, <2>3 DEF BaseInv, RollbackIsSafe, MergeIsWhole, Advanced, Merged
    <3>4. CommitsAreKnown' /\ Holds(base)'
      BY <2>1, <3>1, <3>2, <3>3 DEF BaseInv, CommitsAreKnown, Known, Holds, SameCommits
    <3>5. RollbackIsSafe' /\ CmdIsOpen' /\ MergeIsWhole' /\ AdvanceIsThere'
      BY <3>2 DEF RollbackIsSafe, CmdIsOpen, MergeIsWhole, AdvanceIsThere, Merged, Advanced
    <3> QED
      BY <1>0, <3>4, <3>5 DEF BaseInv
  <2> QED
    BY <2>2, <2>3
<1>13. CASE Finalize
  <2>1. /\ pub.step = "finalize" /\ pub' = Idle /\ UNCHANGED <<branch, forward, base, used>>
        /\ \A c \in Commands : c # pub.cmd => integ'[c] = integ[c]
    BY <1>0, <1>13 DEF Finalize, At, gitVars, TypeOK
  <2>2. branch[pub.cmd] \subseteq base
    BY <2>1 DEF BaseInv, MergeIsWhole, AdvanceIsThere, Merged
  <2>3. Holds(base)'
    BY <2>1, <2>2 DEF BaseInv, Holds
  <2>4. pub'.mergeSHA = {} /\ pub'.step = "idle"
    BY <2>1 DEF Idle
  <2>5. CommitsAreKnown'
    BY <2>1, <2>4 DEF BaseInv, CommitsAreKnown, Known
  <2>6. RollbackIsSafe' /\ CmdIsOpen' /\ MergeIsWhole' /\ AdvanceIsThere'
    BY <2>4 DEF RollbackIsSafe, CmdIsOpen, MergeIsWhole, AdvanceIsThere, Merged, Advanced
  <2> QED
    BY <1>0, <2>3, <2>5, <2>6 DEF BaseInv
<1>14. CASE FinalizeFails
  <2>1. pub' = Idle /\ UNCHANGED <<integ, branch, forward, base>> /\ Fault("save")
    BY <1>14 DEF FinalizeFails, gitVars
  <2>2. pub'.mergeSHA = {} /\ pub'.step = "idle"
    BY <2>1 DEF Idle
  <2> QED
    BY <1>0, <2>1, <2>2, Failures, Steady, Quits
<1>15. CASE Report
  <2>1. pub' = Idle /\ UNCHANGED <<branch, forward, base, used>>
        /\ (integ' = [integ EXCEPT ![pub.cmd].signaled = TRUE] \/ integ' = integ)
    BY <1>15 DEF Report, gitVars
  <2>3. [integ[pub.cmd] EXCEPT !.signaled = TRUE].status = integ[pub.cmd].status
    BY <1>0 DEF TypeOK, Integration
  <2>4. \A c \in Commands : integ'[c].status = integ[c].status
    BY <1>0, <2>1, <2>3 DEF TypeOK
  <2>2. pub'.mergeSHA = {} /\ pub'.step = "idle"
    BY <2>1 DEF Idle
  <2> QED
    BY <1>0, <2>1, <2>2, <2>4, Failures, Steady, Quits
<1> QED
  BY <1>1, <1>2, <1>3, <1>4, <1>5, <1>6, <1>7, <1>8, <1>9, <1>10, <1>11, <1>12, <1>13,
     <1>14, <1>15 DEF PublishStep


LEMMA AroundKeeps ==
    ASSUME BaseInv, NEW c \in Commands,
           \/ BackoffElapses(c) \/ PlannerStep(c) \/ WorkerStep(c)
           \/ R8PublishFailed(c) \/ Cleanup(c) \/ CleanupFails(c)
    PROVE  BaseInv'
<1>0. TypeOK /\ TypeOK'
  BY AroundTypes DEF BaseInv
<1>1. integ[c] \in Integration /\ forward[c] \in ForwardMerge
  BY <1>0 DEF TypeOK
<1>2. SameCommits /\ base' = base /\ branch' = branch /\ pub' = pub
  <2>1. CASE R8PublishFailed(c) \/ CleanupFails(c)
    BY <1>0, <2>1, Faults DEF R8PublishFailed, CleanupFails, gitVars, SameCommits
  <2>2. CASE AddResolution(c) \/ RetryPublish(c) \/ Unquarantine(c)
    BY <1>0, <2>2 DEF AddResolution, RetryPublish, Unquarantine, gitVars, SameCommits, TypeOK
  <2>3. CASE BackoffElapses(c) \/ WorkerStep(c) \/ Cleanup(c)
    BY <2>3 DEF BackoffElapses, WorkerStep, ResolveMarkers, ResolutionCompletes,
       ResolutionFails, Cleanup, gitVars, SameCommits
  <2> QED
    BY <2>1, <2>2, <2>3 DEF PlannerStep
<1>3. \A d \in Commands : Known(forward'[d].of)
  <2>1. forward' = forward \/ forward' = [forward EXCEPT ![c].markers = FALSE]
    BY DEF BackoffElapses, PlannerStep, AddResolution, RetryPublish, Unquarantine, WorkerStep,
       ResolveMarkers, ResolutionCompletes, ResolutionFails, R8PublishFailed, Cleanup,
       CleanupFails, gitVars
  <2>2. [forward[c] EXCEPT !.markers = FALSE].of = forward[c].of
    BY <1>1 DEF ForwardMerge
  <2>3. \A d \in Commands : forward'[d].of = forward[d].of
    BY <1>0, <2>1, <2>2 DEF TypeOK
  <2> QED
    BY <2>3 DEF BaseInv, CommitsAreKnown
<1>4. /\ \A d \in Commands : integ'[d].status \in Closed => integ[d].status \in Closed
      /\ pub.step \notin {"idle", "report"} =>
               integ'[pub.cmd].status \in {"merged", "publish_failed"}
  <2> DEFINE i == integ'[c]
  <2>1. \A d \in Commands : d # c => integ'[d] = integ[d]
    BY <1>0 DEF BackoffElapses, PlannerStep, AddResolution, RetryPublish, Unquarantine, WorkerStep,
       ResolveMarkers, ResolutionCompletes, ResolutionFails, R8PublishFailed, Cleanup,
       CleanupFails, TypeOK
  <2>2. \/ i.status = integ[c].status
        \/ i.status \in {"merged", "publish_failed"}
        \/ /\ integ[c].status \in {"published", "quarantined"} /\ pub.step = "idle"
           /\ i.status = IF integ[c].status = "published" THEN "removed" ELSE "dropped"
    <3>1. CASE BackoffElapses(c)
      <4>1. i = [integ[c] EXCEPT !.waiting = FALSE]
        BY <1>0, <3>1 DEF BackoffElapses, TypeOK
      <4> QED
        BY <1>1, <4>1 DEF Integration
    <3>2. CASE RetryPublish(c)
      <4>1. i = RetryPublishState(integ[c])
        BY <1>0, <3>2 DEF RetryPublish, TypeOK
      <4> QED
        BY <1>1, <4>1, Outcomes
    <3>3. CASE Unquarantine(c)
      <4>1. i = [integ[c] EXCEPT !.status = "publish_failed", !.failures = 0,
                         !.waiting = FALSE, !.stall = FALSE, !.dirtyRoot = FALSE]
        BY <1>0, <3>3 DEF Unquarantine, TypeOK
      <4> QED
        BY <1>1, <4>1 DEF Integration
    <3>4. CASE ResolutionCompletes(c)
      <4>1. i = RetryPublishState(integ[c]) \/ i = integ[c]
        BY <1>0, <3>4 DEF ResolutionCompletes, TypeOK
      <4> QED
        BY <1>1, <4>1, Outcomes
    <3>5. CASE R8PublishFailed(c)
      <4>1. i = [integ[c] EXCEPT !.stall = TRUE] \/ i = integ[c]
        BY <1>0, <3>5 DEF R8PublishFailed, TypeOK
      <4> QED
        BY <1>1, <4>1 DEF Integration
    <3>6. CASE Cleanup(c)
      <4>1. i = [integ[c] EXCEPT !.status = IF @ = "published" THEN "removed" ELSE "dropped"]
            /\ pub.step = "idle" /\ integ[c].status \in {"published", "quarantined"}
        BY <1>0, <3>6 DEF Cleanup, At, TypeOK
      <4> QED
        BY <1>1, <4>1 DEF Integration
    <3>7. CASE AddResolution(c) \/ ResolveMarkers(c) \/ ResolutionFails(c) \/ CleanupFails(c)
      BY <3>7 DEF AddResolution, ResolveMarkers, ResolutionFails, CleanupFails
    <3> QED
      BY <3>1, <3>2, <3>3, <3>4, <3>5, <3>6, <3>7 DEF PlannerStep, WorkerStep
  <2>3. \A d \in Commands : integ'[d].status \in Closed => integ[d].status \in Closed
    BY <2>1, <2>2 DEF Closed
  <2>4. pub.step \notin {"idle", "report"} =>
               integ'[pub.cmd].status \in {"merged", "publish_failed"}
    BY <1>0, <2>1, <2>2, Sets DEF BaseInv, CmdIsOpen
  <2> QED
    BY <2>3, <2>4
<1> QED
  BY <1>0, <1>2, <1>3, <1>4, Aside

LEMMA StartKeeps ==
    ASSUME BaseInv, NEW c \in Commands, StartPublish(c)
    PROVE  BaseInv'
<1>0. TypeOK /\ TypeOK'
  BY AroundTypes DEF BaseInv
<1>1. UNCHANGED <<integ, branch, forward, base, used>>
      /\ integ[c].status \in {"merged", "publish_failed"}
  BY DEF StartPublish, gitVars
<1>2. pub'.step = "forward" /\ pub'.cmd = c /\ pub'.mergeSHA = {}
  BY DEF StartPublish, Idle
<1>3. CommitsAreKnown' /\ Holds(base)'
  BY <1>1, <1>2 DEF BaseInv, CommitsAreKnown, Known, Holds
<1>4. RollbackIsSafe' /\ CmdIsOpen' /\ MergeIsWhole' /\ AdvanceIsThere'
  BY <1>1, <1>2 DEF RollbackIsSafe, CmdIsOpen, MergeIsWhole, AdvanceIsThere, Merged, Advanced
<1> QED
  BY <1>0, <1>3, <1>4 DEF BaseInv

\* A commit of the user is new, so the base is none that a publish has merged.
LEMMA UserKeeps ==
    ASSUME BaseInv, UserStep \/ Crash
    PROVE  BaseInv'
<1>0. TypeOK /\ TypeOK'
  BY UserTypes DEF BaseInv
<1>1. CASE Crash
  <2>1. pub' = Idle /\ UNCHANGED <<integ, branch, forward, base>> /\ Fault("crash")
    BY <1>1 DEF Crash, gitVars
  <2>2. pub'.mergeSHA = {} /\ pub'.step = "idle"
    BY <2>1 DEF Idle
  <2> QED
    BY <1>0, <2>1, <2>2, Failures, Steady, Quits
<1>2. CASE (\E edit \in Edits : EditRoot(edit)) \/ DropEdits
  <2>1. UNCHANGED <<integ, branch, forward, base, pub, used>>
    BY <1>2 DEF EditRoot, DropEdits
  <2> QED
    BY <1>0, <2>1, Failures, Steady, Aside DEF BaseInv, CmdIsOpen
<1>3. CASE CommitOnBase
  <2> DEFINE n == used.commits + 1
             new == UserCommit(n)
  <2>1. /\ base' = base \cup {new} /\ used'.commits = n
        /\ UNCHANGED <<integ, branch, forward, pub>>
    BY <1>0, <1>3 DEF CommitOnBase, TypeOK
  <2>2. used.commits \in Nat /\ n \in Nat
    BY <1>0, BoundAssumption DEF TypeOK
  <2>3. \A m \in Nat : m > n => UserCommit(m) # new
    BY <2>2 DEF UserCommit
  <2>4. new \notin pub.mergeSHA
    BY <2>2 DEF BaseInv, CommitsAreKnown, Known
  <2> HIDE DEF new
  <2>5. CommitsAreKnown'
    BY <2>1, <2>2, <2>3 DEF BaseInv, CommitsAreKnown, Known
  <2>6. Holds(base)'
    <3>1. 1 .. n = (1 .. used.commits) \cup {n}
      BY <2>2
    <3> QED
      BY <2>1, <2>2, <3>1 DEF BaseInv, Holds, new
  <2>7. RollbackIsSafe'
    BY <2>1, <2>4 DEF RollbackIsSafe
  <2>8. CmdIsOpen' /\ MergeIsWhole' /\ AdvanceIsThere'
    BY <2>1 DEF BaseInv, CmdIsOpen, MergeIsWhole, AdvanceIsThere
  <2> QED
    BY <1>0, <2>5, <2>6, <2>7, <2>8 DEF BaseInv
<1> QED
  BY <1>1, <1>2, <1>3 DEF UserStep

LEMMA BaseInvariance == Spec => []BaseInv
<1>1. Init /\ TypeOK => BaseInv
  <2> SUFFICES ASSUME Init, TypeOK
               PROVE  BaseInv
    OBVIOUS
  <2>1. used.commits = 0 /\ base = {} /\ pub.step = "idle" /\ pub.mergeSHA = {}
        /\ \A c \in Commands : /\ branch[c] = {WorkOf(c)} /\ forward[c].of = {}
                               /\ integ[c].status = "merged"
    BY DEF Init, Idle, NoForward
  <2>2. \A c \in Commands, n \in Nat : n > 0 => UserCommit(n) # WorkOf(c)
    BY DEF UserCommit, WorkOf
  <2>3. CommitsAreKnown
    BY <2>1, <2>2 DEF CommitsAreKnown, Known
  <2>4. Holds(base)
    BY <2>1 DEF Holds, Closed
  <2>5. RollbackIsSafe /\ CmdIsOpen /\ MergeIsWhole /\ AdvanceIsThere
    BY <2>1 DEF RollbackIsSafe, CmdIsOpen, MergeIsWhole, AdvanceIsThere, Merged, Advanced
  <2> QED
    BY <2>3, <2>4, <2>5 DEF BaseInv
<1>2. BaseInv /\ [Next]_vars => BaseInv'
  <2> SUFFICES ASSUME BaseInv, [Next]_vars
               PROVE  BaseInv'
    OBVIOUS
  <2>1. CASE UNCHANGED vars
    <3>1. TypeOK'
      BY <2>1 DEF vars, BaseInv, TypeOK
    <3> QED
      BY <2>1, <3>1, Failures, Steady, Aside DEF vars, BaseInv, CmdIsOpen
  <2> QED
    BY <2>1, StepKeeps, UserKeeps, StartKeeps, AroundKeeps DEF Next
<1> QED
  BY <1>1, <1>2, PublishTypeCorrect, PTL DEF Spec

\* Whatever fails, dies or is rolled back: the commits of the user and the
\* work of every published command are on the base branch.
LEMMA BaseKeeps == Spec => []BaseKeepsWork
<1>1. BaseInv => BaseKeepsWork
  BY DEF BaseInv, Holds, BaseKeepsWork, Closed
<1> QED
  BY <1>1, BaseInvariance, PTL


-----------------------------------------------------------------------------
(* The edits of the user.                                                   *)

\* The places a publish can be at after a step that leaves the root alone.
LEMMA EndsStill ==
    ASSUME TypeOK, NEW i \in Integration, EndWith(i)
    PROVE  ~Moving'
BY Ends DEF Moving

LEMMA FailsStill ==
    ASSUME TypeOK, \/ Fail
                   \/ EndWith(RecordPublishTerminalFailure(InMemory, TRUE))
                   \/ EndWith(RecordPublishTerminalFailure(InMemory, FALSE))
                   \/ Rollback
    PROVE  ~Moving'
BY Memory, Outcomes, EndsStill DEF Fail, Rollback

\* Between the dirty check and the end of the sync nobody edits the root: then
\* what the daemon overwrites holds no edit, and what differs is stashed.
LEMMA RootSteps ==
    ASSUME ~EditsDuringSync, TypeOK, RootInv, [Next]_vars
    PROVE  RootInv'
<1>1. CASE PublishStep
  <2>1. CASE ForwardMergeDone \/ ForwardMergeSkipped \/ TempMerge \/ MarkSyncPending
             \/ AdvanceBase \/ ReadTreeFails
    <3>1. root' = root /\ lost' = lost
      BY <2>1 DEF ForwardMergeDone, ForwardMergeSkipped, TempMerge, MarkSyncPending, AdvanceBase,
         ReadTreeFails, gitVars
    <3>2. Moving' => Moving
      <4>1. CASE ForwardMergeDone \/ ForwardMergeSkipped \/ TempMerge
        <5>1. pub'.step \in {"merge", "check"}
          BY <4>1 DEF ForwardMergeDone, ForwardMergeSkipped, TempMerge, Go, TypeOK, Publish
        <5> QED
          BY <5>1 DEF Moving
      <4>2. CASE MarkSyncPending \/ AdvanceBase \/ ReadTreeFails
        BY <4>2 DEF MarkSyncPending, AdvanceBase, ReadTreeFails, At, Moving
      <4> QED
        BY <2>1, <4>1, <4>2
    <3> QED
      BY <3>1, <3>2 DEF RootInv, RootIsClean, EditsKept
  <2>2. CASE ForwardMergeConflict \/ TempMergeConflict \/ RootRefused \/ GitFails
             \/ AdvanceRefused \/ ResetRootFails \/ RepairFails
    <3>1. lost' = lost
      BY <2>2 DEF ForwardMergeConflict, TempMergeConflict, RootRefused, GitFails, AdvanceRefused,
         ResetRootFails, RepairFails
    <3>2. ~Moving'
      <4>1. CASE ForwardMergeConflict
        <5>1. ASSUME NEW i \in Integration
              PROVE  RecordPublishFailure([i EXCEPT !.conflict = TRUE,
                        !.signaled = IF ~forward[pub.cmd].merging /\ ~pub.conflict
                                       THEN FALSE ELSE @]) \in Integration
          <6>1. [i EXCEPT !.conflict = TRUE,
                        !.signaled = IF ~forward[pub.cmd].merging /\ ~pub.conflict
                                       THEN FALSE ELSE @] \in Integration
            BY DEF Integration
          <6> QED
            BY <6>1, Outcomes
        <5> QED
          BY <4>1, <5>1, Memory, EndsStill DEF ForwardMergeConflict
      <4>2. CASE ~ForwardMergeConflict
        BY <2>2, <4>2, FailsStill DEF TempMergeConflict, RootRefused, GitFails,
           AdvanceRefused, ResetRootFails, RepairFails
      <4> QED
        BY <4>1, <4>2
    <3> QED
      BY <3>1, <3>2 DEF RootInv, RootIsClean, EditsKept
  <2>3. CASE CheckRoot
    <3>1. CASE ~RootIsDirty /\ UNCHANGED <<root, lost, pending>>
      BY <3>1 DEF RootIsDirty, RootInv, RootIsClean, EditsKept
    <3>2. CASE InterruptedSync(pub.cmd) /\ ResetHard({})
      BY <3>2 DEF InterruptedSync, ResetHard, RootInv, RootIsClean, EditsKept
    <3> QED
      BY <2>3, <3>1, <3>2 DEF CheckRoot
  <2>4. CASE ReadTree \/ ResetRoot
    <3>1. Moving /\ (ResetHard({}) \/ ResetHard(Saved))
      BY <2>4 DEF ReadTree, ResetRoot, At, Moving
    <3> QED
      BY <3>1 DEF ResetHard, RootInv, RootIsClean, EditsKept
  <2>5. CASE Finalize \/ FinalizeFails \/ Report
    <3>1. pub' = Idle /\ lost' = lost
      BY <2>5 DEF Finalize, FinalizeFails, Report
    <3> QED
      BY <3>1, Sets DEF RootInv, RootIsClean, EditsKept, Moving
  <2> QED
    BY <1>1, <2>1, <2>2, <2>3, <2>4, <2>5 DEF PublishStep
<1>2. CASE Crash
  BY <1>2, Sets DEF Crash, RootInv, RootIsClean, EditsKept, Moving
<1>3. CASE UserStep
  <2>1. ASSUME NEW edit \in Edits, EditRoot(edit)
        PROVE  RootInv'
    BY <2>1 DEF EditRoot, RootInv, RootIsClean, EditsKept, Moving
  <2>2. CASE CommitOnBase \/ DropEdits
    BY <2>2 DEF CommitOnBase, DropEdits, RootInv, RootIsClean, EditsKept, Moving
  <2> QED
    BY <1>3, <2>1, <2>2 DEF UserStep
<1>4. ASSUME NEW c \in Commands, StartPublish(c)
      PROVE  RootInv'
  BY <1>4 DEF StartPublish, gitVars, RootInv, RootIsClean, EditsKept, Moving, Idle
<1>5. ASSUME NEW c \in Commands,
             BackoffElapses(c) \/ PlannerStep(c) \/ WorkerStep(c) \/ R8PublishFailed(c)
      PROVE  RootInv'
  <2>1. UNCHANGED <<root, pub, lost>>
    BY <1>5 DEF BackoffElapses, PlannerStep, AddResolution, RetryPublish, Unquarantine,
       WorkerStep, ResolveMarkers, ResolutionCompletes, ResolutionFails, R8PublishFailed, gitVars
  <2> QED
    BY <2>1 DEF RootInv, RootIsClean, EditsKept, Moving
<1>6. ASSUME NEW c \in Commands, Cleanup(c) \/ CleanupFails(c)
      PROVE  RootInv'
  <2>1. pub.step = "idle" /\ pub' = pub
    BY <1>6 DEF Cleanup, CleanupFails, At
  <2>2. lost' = lost
    BY <1>6 DEF Cleanup, CleanupFails, InterruptedSync, ResetHard, RootInv, EditsKept
  <2> QED
    BY <2>1, <2>2 DEF RootInv, RootIsClean, EditsKept, Moving
<1>7. CASE UNCHANGED vars
  BY <1>7 DEF vars, RootInv, RootIsClean, EditsKept, Moving
<1> QED
  BY <1>1, <1>2, <1>3, <1>4, <1>5, <1>6, <1>7 DEF Next

\* A publish loses nobody's work, for any number of commands, commits, crashes
\* and failing git operations, as long as the user does not edit the root
\* between the dirty check and the end of the sync (fastForwardBaseBranchRef,
\* tryCompleteInterruptedPublishSync, syncProjectRootAfterPublish).
THEOREM PublishLosesNothing ==
    ASSUME ~EditsDuringSync
    PROVE  Spec => []PublishKeepsWork
<1>1. Init => RootInv
  BY DEF Init, Idle, RootInv, RootIsClean, EditsKept, Moving
<1>2. RootInv /\ TypeOK /\ [Next]_vars => RootInv'
  BY RootSteps
<1>3. RootInv /\ BaseKeepsWork => PublishKeepsWork
  BY DEF RootInv, PublishKeepsWork
<1> QED
  BY <1>1, <1>2, <1>3, PublishTypeCorrect, BaseKeeps, PTL DEF Spec


-----------------------------------------------------------------------------
(* The marker of an interrupted sync.                                       *)

\* Neither root nor base nor a marker changes, and no place is reached that
\* promises more.
LEMMA MarkStays ==
    ASSUME MarkInv, UNCHANGED <<root, base, pending>>,
           \/ pub' = pub
           \/ pub'.step \notin {"mark", "advance", "finalize"},
           \A c \in Commands : /\ integ'[c].status \in Closed => integ[c].status \in Closed
                               /\ integ[c].status = "dropped" => integ'[c].status = "dropped"
    PROVE  MarkInv'
<1>1. RootIsMarked'
  BY DEF MarkInv, RootIsMarked
<1>2. MarkComesFirst' /\ ClosedIsUnmarked'
  BY DEF MarkInv, MarkComesFirst, ClosedIsUnmarked
<1> QED
  BY <1>1, <1>2 DEF MarkInv

\* The root is level with its branch, and markers are at most taken away.
LEMMA MarkLevel ==
    ASSUME MarkInv, root'.index = base',
           \A c \in Commands : pending'[c].set => pending[c].set,
           pub'.step \notin {"advance", "finalize"},
           \A c \in Commands : integ'[c].status \in Closed => integ[c].status \in Closed
    PROVE  MarkInv'
BY DEF MarkInv, RootIsMarked, MarkComesFirst, ClosedIsUnmarked

\* A failed publish closes no command.
LEMMA FailLeaves ==
    ASSUME BaseInv, pub.step \notin {"idle", "report"},
           NEW i \in Integration, i.status \notin Closed, EndWith(i)
    PROVE  /\ pub'.step = "report"
           /\ \A c \in Commands : /\ integ'[c].status \in Closed => integ[c].status \in Closed
                                  /\ integ[c].status = "dropped" => integ'[c].status = "dropped"
<1>1. TypeOK /\ integ[pub.cmd].status # "dropped" /\ pub.cmd \in Commands
  BY Failures DEF BaseInv, CmdIsOpen
<1> QED
  BY <1>1, Ends

LEMMA MarkSteps ==
    ASSUME "reset" \notin FaultKinds, BaseInv, MarkInv, PublishStep
    PROVE  MarkInv'
<1>0. TypeOK /\ pub.cmd \in Commands /\ InMemory \in Integration
  BY Failures
<1>1. CASE ForwardMergeDone \/ ForwardMergeSkipped \/ TempMerge
  <2>1. UNCHANGED <<root, base, pending, integ>>
    BY <1>1 DEF ForwardMergeDone, ForwardMergeSkipped, TempMerge, gitVars
  <2>2. pub'.step \in {"merge", "check"}
    BY <1>0, <1>1 DEF ForwardMergeDone, ForwardMergeSkipped, TempMerge, Go, TypeOK, Publish
  <2> QED
    BY <2>1, <2>2, MarkStays
<1>2. CASE ForwardMergeConflict
  <2> DEFINE i == [InMemory EXCEPT !.conflict = TRUE,
                        !.signaled = IF ~forward[pub.cmd].merging /\ ~pub.conflict
                                       THEN FALSE ELSE @]
  <2>1. i \in Integration
    BY <1>0 DEF Integration
  <2>2. EndWith(RecordPublishFailure(i)) /\ UNCHANGED <<root, base, pending>>
        /\ pub.step = "forward"
    BY <1>2 DEF ForwardMergeConflict, At
  <2> HIDE DEF i
  <2> QED
    BY <2>1, <2>2, Failures, FailLeaves, MarkStays
<1>3. CASE TempMergeConflict \/ RootRefused \/ GitFails
  <2>1. /\ UNCHANGED <<root, base, pending>> /\ pub.step \notin {"idle", "report"}
        /\ \/ EndWith(RecordPublishFailure(InMemory))
           \/ EndWith(RecordPublishTerminalFailure(InMemory, TRUE))
    BY <1>3 DEF TempMergeConflict, RootRefused, GitFails, Fail, gitVars, At
  <2> QED
    BY <1>0, <2>1, Failures, FailLeaves, MarkStays
<1>4. CASE RepairFails \/ ResetRootFails
  BY <1>4 DEF RepairFails, ResetRootFails, Fault
<1>5. CASE CheckRoot
  <2>1. pub'.step = "mark" /\ integ' = integ /\ base' = base
    BY <1>0, <1>5 DEF CheckRoot, Go, TypeOK, Publish
  <2>2. root'.index = base'
    BY <1>5, <2>1 DEF CheckRoot, RootIsDirty, ResetHard
  <2>3. \A c \in Commands : pending'[c].set => pending[c].set
    BY <1>0, <1>5, Sets DEF CheckRoot, TypeOK
  <2> QED
    BY <2>1, <2>2, <2>3, MarkLevel
<1>6. CASE MarkSyncPending
  <2>1. /\ pub.step = "mark" /\ pub'.step = "advance" /\ pub'.cmd = pub.cmd
        /\ pub'.baseSHA = pub.baseSHA /\ UNCHANGED <<integ, base, root>>
        /\ pending' = [pending EXCEPT ![pub.cmd] = Ref(pub.baseSHA)]
    BY <1>0, <1>6 DEF MarkSyncPending, At, Go, TypeOK, Publish
  <2>2. root.index = base
    BY <2>1 DEF MarkInv, MarkComesFirst
  <2>3. pending'[pub.cmd] = Ref(pub.baseSHA)
        /\ \A c \in Commands : c # pub.cmd => pending'[c] = pending[c]
    BY <1>0, <2>1 DEF TypeOK
  <2>4. integ[pub.cmd].status \notin Closed
    BY <2>1 DEF BaseInv, CmdIsOpen, Closed
  <2> QED
    BY <2>1, <2>2, <2>3, <2>4 DEF MarkInv, RootIsMarked, MarkComesFirst, ClosedIsUnmarked
<1>7. CASE AdvanceBase
  <2>1. /\ pub.step = "advance" /\ pub'.step = "readtree" /\ UNCHANGED <<integ, pending, root>>
        /\ base = pub.baseSHA
    BY <1>0, <1>7 DEF AdvanceBase, At, Go, TypeOK, Publish
  <2>2. root.index = base /\ pending[pub.cmd] = Ref(pub.baseSHA)
    BY <2>1 DEF MarkInv, MarkComesFirst
  <2>3. pending[pub.cmd].set /\ pending[pub.cmd].tree = root.index
    BY <2>1, <2>2 DEF Ref
  <2>4. RootIsMarked'
    BY <1>0, <2>1, <2>3 DEF RootIsMarked
  <2> QED
    BY <2>1, <2>4 DEF MarkInv, MarkComesFirst, ClosedIsUnmarked
<1>8. CASE AdvanceRefused
  <2>1. /\ pub.step = "advance" /\ UNCHANGED <<root, base>>
        /\ pending' = [pending EXCEPT ![pub.cmd] = NoRef]
        /\ EndWith(RecordPublishFailure(InMemory))
    BY <1>8 DEF AdvanceRefused, At, Fail
  <2>2. root'.index = base'
    BY <2>1 DEF MarkInv, MarkComesFirst
  <2>3. \A c \in Commands : pending'[c].set => pending[c].set
    BY <1>0, <2>1, Sets DEF TypeOK
  <2> QED
    BY <1>0, <2>1, <2>2, <2>3, Failures, FailLeaves, MarkLevel
<1>9. CASE ReadTree
  <2>1. /\ pub'.step = "reset" /\ UNCHANGED <<integ, base, pending>> /\ root'.index = base'
    BY <1>0, <1>9 DEF ReadTree, Go, ResetHard, TypeOK, Publish
  <2> QED
    BY <2>1, MarkLevel
<1>10. CASE ReadTreeFails
  <2>1. pub'.step = "reset" /\ UNCHANGED <<integ, base, pending, root>>
    BY <1>0, <1>10 DEF ReadTreeFails, Go, TypeOK, Publish, gitVars
  <2> QED
    BY <2>1, MarkStays
<1>11. CASE ResetRoot
  <2>1. /\ pub'.step = "finalize" /\ pub'.cmd = pub.cmd /\ UNCHANGED <<integ, base>>
        /\ root'.index = base' /\ pending' = [pending EXCEPT ![pub.cmd] = NoRef]
    BY <1>0, <1>11 DEF ResetRoot, Go, ResetHard, TypeOK, Publish
  <2>2. /\ \A c \in Commands : pending'[c].set => pending[c].set
        /\ ~pending'[pub.cmd].set
    BY <1>0, <2>1, Sets DEF TypeOK
  <2> QED
    BY <2>1, <2>2 DEF MarkInv, RootIsMarked, MarkComesFirst, ClosedIsUnmarked
<1>12. CASE Finalize
  <2>1. /\ pub.step = "finalize" /\ pub'.step = "idle" /\ UNCHANGED <<root, base, pending>>
        /\ \A c \in Commands : c # pub.cmd => integ'[c] = integ[c]
    BY <1>0, <1>12, Sets DEF Finalize, At, gitVars, TypeOK
  <2>2. ~pending[pub.cmd].set /\ integ[pub.cmd].status # "dropped"
    BY <2>1 DEF MarkInv, ClosedIsUnmarked, BaseInv, CmdIsOpen
  <2>3. RootIsMarked'
    BY <2>1, <2>2 DEF MarkInv, RootIsMarked
  <2>4. ClosedIsUnmarked'
    BY <2>1, <2>2 DEF MarkInv, ClosedIsUnmarked
  <2>5. MarkComesFirst'
    BY <2>1 DEF MarkComesFirst
  <2> QED
    BY <2>3, <2>4, <2>5 DEF MarkInv
<1>13. CASE FinalizeFails
  <2>1. pub'.step = "idle" /\ UNCHANGED <<integ, base, pending, root>>
    BY <1>0, <1>13, Sets DEF FinalizeFails, gitVars
  <2> QED
    BY <2>1, MarkStays
<1>14. CASE Report
  <2>1. pub'.step = "idle" /\ UNCHANGED <<base, pending, root>>
        /\ (integ' = [integ EXCEPT ![pub.cmd].signaled = TRUE] \/ integ' = integ)
    BY <1>0, <1>14, Sets DEF Report, gitVars
  <2>2. [integ[pub.cmd] EXCEPT !.signaled = TRUE].status = integ[pub.cmd].status
    BY <1>0 DEF TypeOK, Integration
  <2>3. \A c \in Commands : integ'[c].status = integ[c].status
    BY <1>0, <2>1, <2>2 DEF TypeOK
  <2> QED
    BY <2>1, <2>3, MarkStays
<1> QED
  BY <1>1, <1>2, <1>3, <1>4, <1>5, <1>6, <1>7, <1>8, <1>9, <1>10, <1>11, <1>12, <1>13,
     <1>14 DEF PublishStep

LEMMA MarkAround ==
    ASSUME "reset" \notin FaultKinds, BaseInv, MarkInv, NEW c \in Commands,
           \/ StartPublish(c) \/ BackoffElapses(c) \/ PlannerStep(c) \/ WorkerStep(c)
           \/ R8PublishFailed(c) \/ CleanupFails(c)
    PROVE  MarkInv'
<1>0. TypeOK /\ integ[c] \in Integration
  BY DEF BaseInv, TypeOK
<1>1. CASE StartPublish(c)
  <2>1. pub'.step = "forward" /\ UNCHANGED <<root, base, pending, integ>>
    BY <1>1 DEF StartPublish, Idle, gitVars
  <2> QED
    BY <2>1, MarkStays
<1>2. CASE CleanupFails(c)
  BY <1>2 DEF CleanupFails, Fault
<1>3. CASE BackoffElapses(c) \/ PlannerStep(c) \/ WorkerStep(c) \/ R8PublishFailed(c)
  <2> DEFINE i == integ'[c]
  <2>1. UNCHANGED <<root, base, pending, pub>>
    BY <1>3 DEF BackoffElapses, PlannerStep, AddResolution, RetryPublish, Unquarantine,
       WorkerStep, ResolveMarkers, ResolutionCompletes, ResolutionFails, R8PublishFailed, gitVars
  <2>2. \A d \in Commands : d # c => integ'[d] = integ[d]
    BY <1>0, <1>3 DEF BackoffElapses, PlannerStep, AddResolution, RetryPublish, Unquarantine,
       WorkerStep, ResolveMarkers, ResolutionCompletes, ResolutionFails, R8PublishFailed, TypeOK
  <2>3. \/ i.status = integ[c].status
        \/ i.status \notin Closed /\ integ[c].status # "dropped"
    <3>1. CASE BackoffElapses(c)
      <4>1. i = [integ[c] EXCEPT !.waiting = FALSE]
        BY <1>0, <3>1 DEF BackoffElapses, TypeOK
      <4> QED
        BY <1>0, <4>1 DEF Integration
    <3>2. CASE RetryPublish(c)
      <4>1. i = RetryPublishState(integ[c]) /\ integ[c].status # "dropped"
        BY <1>0, <3>2 DEF RetryPublish, TypeOK
      <4> QED
        BY <1>0, <4>1, Outcomes DEF Closed
    <3>3. CASE Unquarantine(c)
      <4>1. i = [integ[c] EXCEPT !.status = "publish_failed", !.failures = 0,
                         !.waiting = FALSE, !.stall = FALSE, !.dirtyRoot = FALSE]
            /\ integ[c].status # "dropped"
        BY <1>0, <3>3 DEF Unquarantine, TypeOK
      <4> QED
        BY <1>0, <4>1 DEF Integration, Closed
    <3>4. CASE ResolutionCompletes(c)
      <4>1. (i = RetryPublishState(integ[c]) /\ integ[c].status # "dropped") \/ i = integ[c]
        BY <1>0, <3>4 DEF ResolutionCompletes, TypeOK
      <4> QED
        BY <1>0, <4>1, Outcomes DEF Closed
    <3>5. CASE R8PublishFailed(c)
      <4>1. i = [integ[c] EXCEPT !.stall = TRUE] \/ i = integ[c]
        BY <1>0, <3>5 DEF R8PublishFailed, TypeOK
      <4> QED
        BY <1>0, <4>1 DEF Integration
    <3>6. CASE AddResolution(c) \/ ResolveMarkers(c) \/ ResolutionFails(c)
      BY <3>6 DEF AddResolution, ResolveMarkers, ResolutionFails
    <3> QED
      BY <1>3, <3>1, <3>2, <3>3, <3>4, <3>5, <3>6 DEF PlannerStep, WorkerStep
  <2>4. \A d \in Commands : /\ integ'[d].status \in Closed => integ[d].status \in Closed
                            /\ integ[d].status = "dropped" => integ'[d].status = "dropped"
    BY <2>2, <2>3
  <2> QED
    BY <2>1, <2>4, MarkStays
<1> QED
  BY <1>1, <1>2, <1>3

\* The marker of a closed command is gone before, that of a quarantined one
\* is given up with it.
LEMMA MarkCleanup ==
    ASSUME BaseInv, MarkInv, NEW c \in Commands, Cleanup(c)
    PROVE  MarkInv'
<1>0. TypeOK /\ integ[c] \in Integration
  BY DEF BaseInv, TypeOK
<1>1. /\ pub.step = "idle" /\ pub' = pub /\ base' = base
      /\ integ[c].status \in {"published", "quarantined"}
      /\ pending' = [pending EXCEPT ![c] = NoRef]
  BY DEF Cleanup, At
<1>2. integ'[c].status = IF integ[c].status = "published" THEN "removed" ELSE "dropped"
  <2>1. integ'[c] = [integ[c] EXCEPT !.status = IF @ = "published" THEN "removed" ELSE "dropped"]
    BY <1>0 DEF Cleanup, TypeOK
  <2> QED
    BY <1>0, <2>1 DEF Integration
<1>3. /\ \A d \in Commands : d # c => integ'[d] = integ[d] /\ pending'[d] = pending[d]
      /\ ~pending'[c].set
  BY <1>0, <1>1, Sets DEF Cleanup, TypeOK
<1>4. \A d \in Commands : pending'[d].set => pending[d].set
  BY <1>3
<1>5. \A d \in Commands : integ'[d].status \in Closed => integ[d].status \in Closed
  BY <1>1, <1>2, <1>3 DEF Closed
<1>6. CASE InterruptedSync(c)
  <2>1. root'.index = base'
    BY <1>1, <1>6 DEF Cleanup, ResetHard
  <2> QED
    BY <1>1, <1>4, <1>5, <2>1, MarkLevel
<1>7. CASE ~InterruptedSync(c)
  <2>1. root' = root
    BY <1>7 DEF Cleanup
  <2>2. RootIsMarked'
    <3>1. CASE integ[c].status = "quarantined"
      BY <1>2, <3>1 DEF RootIsMarked
    <3>2. CASE integ[c].status = "published"
      <4>1. ~pending[c].set
        BY <3>2 DEF MarkInv, ClosedIsUnmarked, Closed
      <4> QED
        BY <1>1, <1>3, <2>1, <3>2, <4>1 DEF MarkInv, RootIsMarked
    <3> QED
      BY <1>1, <3>1, <3>2
  <2>3. MarkComesFirst' /\ ClosedIsUnmarked'
    BY <1>1, <1>4, <1>5 DEF MarkInv, MarkComesFirst, ClosedIsUnmarked
  <2> QED
    BY <2>2, <2>3 DEF MarkInv
<1> QED
  BY <1>6, <1>7

LEMMA MarkUser ==
    ASSUME BaseInv, MarkInv, UserStep \/ Crash
    PROVE  MarkInv'
<1>1. CASE Crash
  <2>1. pub' = Idle /\ UNCHANGED <<integ, root, base, pending>>
    BY <1>1 DEF Crash, gitVars
  <2>2. pub'.step = "idle"
    BY <2>1 DEF Idle
  <2> QED
    BY <2>1, <2>2, MarkStays
<1>2. ASSUME NEW edit \in Edits, EditRoot(edit)
      PROVE  MarkInv'
  <2>1. UNCHANGED <<integ, base, pending, pub>> /\ root'.index = root.index
    BY <1>2 DEF EditRoot, BaseInv, TypeOK
  <2> QED
    BY <2>1 DEF MarkInv, RootIsMarked, MarkComesFirst, ClosedIsUnmarked
<1>3. CASE CommitOnBase
  <2>1. UNCHANGED <<integ, pending, pub>> /\ root'.index = base'
    BY <1>3 DEF CommitOnBase
  <2> QED
    BY <2>1 DEF MarkInv, RootIsMarked, MarkComesFirst, ClosedIsUnmarked
<1>4. CASE DropEdits
  <2>1. UNCHANGED <<integ, base, pending, pub>> /\ root'.index \in {root.index, base}
    BY <1>4 DEF DropEdits
  <2> QED
    BY <2>1 DEF MarkInv, RootIsMarked, MarkComesFirst, ClosedIsUnmarked
<1> QED
  BY <1>1, <1>2, <1>3, <1>4 DEF UserStep

\* As long as reset --hard itself does not fail, a project root that a crash
\* left behind its branch can be repaired: some marker records the tree it is
\* at (publishSyncPendingRef, written before update-ref).
THEOREM StaleRootKnown ==
    ASSUME "reset" \notin FaultKinds
    PROVE  Spec => []StaleRootIsMarked
<1>1. Init => MarkInv
  BY DEF Init, Idle, NoRef, MarkInv, RootIsMarked, MarkComesFirst, ClosedIsUnmarked
<1>2. BaseInv /\ MarkInv /\ [Next]_vars => MarkInv'
  <2> SUFFICES ASSUME BaseInv, MarkInv, [Next]_vars
               PROVE  MarkInv'
    OBVIOUS
  <2>1. CASE UNCHANGED vars
    BY <2>1, MarkStays DEF vars
  <2> QED
    BY <2>1, MarkSteps, MarkAround, MarkCleanup, MarkUser DEF Next
<1>3. MarkInv => StaleRootIsMarked
  BY DEF MarkInv, RootIsMarked, StaleRootIsMarked
<1> QED
  BY <1>1, <1>2, <1>3, BaseInvariance, PTL DEF Spec
=============================================================================
