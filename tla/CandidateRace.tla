---------------------------- MODULE CandidateRace ----------------------------
(***************************************************************************)
(* Two candidates for one task (internal/plan/ab_fanout.go,                *)
(* internal/daemon/ab_selection.go, ab_freeze.go, worktree/candidate.go).  *)
(*                                                                         *)
(* The fan-out registers a group and a shadow of the canonical task; each  *)
(* candidate works in a worktree of its own, on a worker that is kept free *)
(* of other tasks.  Every scan takes the group one step further: when both *)
(* candidates have ended it chooses a winner, merges the winner's branch   *)
(* into its worker's branch and closes the group, or gives the task to a   *)
(* repair.  The daemon may die between any two writes.                     *)
(***************************************************************************)
EXTENDS Naturals, FiniteSets

CONSTANTS FaultKinds, MaxFaults

Canonical == "canonical"
Shadow == "shadow"
Repair == "repair"
Cands == {Canonical, Shadow}
Tasks == Cands \cup {Repair}
None == "none"
Other(c) == IF c = Canonical THEN Shadow ELSE Canonical

VARIABLES
    g,        \* the candidate group in the command's state
    ts,       \* the state of each task
    member,   \* the task that stands for the logical task in its phase
    row,      \* the queue row of each task
    tag,      \* rows that carry the group's id
    work,     \* what each candidate worktree holds
    into,     \* candidates merged into their worker's branch
    direct,   \* tasks that worked in their worker's worktree
    foreign,  \* workers, by candidate, that run a task of somebody else
    conflict, \* candidates whose branch does not merge into the worker's
    late,     \* which deadlines have passed
    fanned,   \* the submit has tried to fan out
    sc,       \* the A/B step of the scan
    faults

vars == <<g, ts, member, row, tag, work, into, direct, foreign, conflict, late, fanned, sc, faults>>

NoGroup == [st |-> "absent", pend |-> None, winner |-> None]
IdleScan == [pc |-> "idle", row |-> [c \in Cands |-> "absent"], tag |-> {}, fin |-> {},
             win |-> None, how |-> None]

Unresolved == g.st \in {"racing", "selecting"}
Ended(s) == s \in {"completed", "failed", "cancelled"}
Wired == ts[Repair] # "absent"   \* a successor in the retry lineage

\* EffectiveStatusForCompletion: an unresolved candidate counts as running.
Masked == Unresolved

Fault(k) == k \in FaultKinds /\ faults < MaxFaults /\ faults' = faults + 1
NoFault == faults' = faults

-----------------------------------------------------------------------------
(* Fan-out.                                                                *)

\* createABCandidate, under the queue and state locks: state, then the tag,
\* then the shadow's row; the shadow's state is a copy of the canonical's.
Register ==
    /\ g' = [NoGroup EXCEPT !.st = "racing"]
    /\ ts' = [ts EXCEPT ![Shadow] = ts[Canonical]]

FanOut ==
    /\ ~fanned /\ row[Canonical] = "pending" /\ fanned' = TRUE
    /\ \/ /\ NoFault /\ Register
          /\ tag' = Cands /\ row' = [row EXCEPT ![Shadow] = "pending"] /\ sc' = sc
       \/ /\ NoFault /\ UNCHANGED <<g, ts, tag, row, sc>>
       \* The daemon dies after the first or the second write.
       \/ /\ Fault("half fan-out") /\ Register
          /\ tag' \in {{}, {Canonical}} /\ row' = row /\ sc' = IdleScan
       \* A write fails, and so does a part of the rollback.
       \/ /\ Fault("half rollback") /\ UNCHANGED <<g, ts, sc>>
          /\ \/ tag' = {Canonical} /\ row' = row
             \/ tag' \in {{Shadow}, Cands} /\ row' = [row EXCEPT ![Shadow] = "pending"]
    /\ UNCHANGED <<member, work, into, direct, foreign, conflict, late>>

-----------------------------------------------------------------------------
(* The workers.  The repair runs on the canonical's worker.                *)

\* Mutant: a worker is free when its candidate has ended.
FrozenWhileRunning(c) ==
    c \in tag /\ row[c] \in {"pending", "in_progress"} /\ g.st \notin {"resolved", "degraded"}

\* computeABFreeze: by the row's tag, whatever the row's status.
Frozen(c) == c \in tag /\ row[c] # "absent" /\ g.st \notin {"resolved", "degraded"}

Free(c) == row[c] # "in_progress" /\ c \notin foreign
           /\ (c = Canonical => row[Repair] # "in_progress")

\* The dispatch of a candidate (EnsureCandidateWorktree for a tagged row).
Dispatch(c) ==
    /\ row[c] = "pending" /\ Free(c) /\ sc.pc \in {"idle", "process"}
    /\ row' = [row EXCEPT ![c] = "in_progress"]
    /\ IF c \in tag THEN work' = [work EXCEPT ![c] = "edits"] /\ direct' = direct
       ELSE direct' = direct \cup {c} /\ work' = work
    /\ UNCHANGED <<g, ts, member, tag, into, foreign, conflict, late, fanned, sc, faults>>

DispatchRepair ==
    /\ row[Repair] = "pending" /\ Free(Canonical) /\ ~Frozen(Canonical)
    /\ row' = [row EXCEPT ![Repair] = "in_progress"] /\ direct' = direct \cup {Repair}
    /\ UNCHANGED <<g, ts, member, tag, work, into, foreign, conflict, late, fanned, sc, faults>>

\* Another command's task on the same worker.
StartForeign(c) ==
    /\ Free(c) /\ ~Frozen(c) /\ foreign' = foreign \cup {c}
    /\ UNCHANGED <<g, ts, member, row, tag, work, into, direct, conflict, late, fanned, sc, faults>>
EndForeign(c) ==
    /\ c \in foreign /\ foreign' = foreign \ {c}
    /\ UNCHANGED <<g, ts, member, row, tag, work, into, direct, conflict, late, fanned, sc, faults>>

\* Phase A of a result write; the state follows, now or by reconciliation.
Report(t, st) ==
    /\ row[t] = "in_progress" /\ row' = [row EXCEPT ![t] = st]
    /\ UNCHANGED <<g, ts, member, tag, work, into, direct, foreign, conflict, late, fanned, sc, faults>>
StateFollows(t) ==
    /\ row[t] \in {"completed", "failed"} /\ ts[t] = "planned"
    /\ ts' = [ts EXCEPT ![t] = row[t]]
    /\ UNCHANGED <<g, member, row, tag, work, into, direct, foreign, conflict, late, fanned, sc, faults>>

\* A row that exhausts its attempts goes; a command's cancel ends it.
DeadLetter(c) ==
    /\ row[c] = "pending" /\ row' = [row EXCEPT ![c] = "absent"]
    /\ ts' = [ts EXCEPT ![c] = IF @ = "planned" THEN "failed" ELSE @]
    /\ UNCHANGED <<g, member, tag, work, into, direct, foreign, conflict, late, fanned, sc, faults>>
CancelRow(c) ==
    /\ row[c] = "pending" /\ row' = [row EXCEPT ![c] = "cancelled"]
    /\ ts' = [ts EXCEPT ![c] = IF @ = "planned" THEN "cancelled" ELSE @]
    /\ UNCHANGED <<g, member, tag, work, into, direct, foreign, conflict, late, fanned, sc, faults>>

-----------------------------------------------------------------------------
(* The A/B step of a scan.                                                 *)

RaceTimesOut ==
    /\ Unresolved /\ "race" \notin late /\ late' = late \cup {"race"}
    /\ UNCHANGED <<g, ts, member, row, tag, work, into, direct, foreign, conflict, fanned, sc, faults>>
SelectionTimesOut ==
    /\ g.st = "selecting" /\ "selection" \notin late /\ late' = late \cup {"selection"}
    /\ UNCHANGED <<g, ts, member, row, tag, work, into, direct, foreign, conflict, fanned, sc, faults>>

\* Mutant: groups are looked for in the state only.
StateDriven == FALSE

\* collectABGroupWork: unresolved groups, and tagged rows without a group.
OrphanRows == g.st = "absent" /\ \E c \in tag : row[c] # "absent"
Collect ==
    /\ sc.pc = "idle" /\ (Unresolved \/ OrphanRows)
    /\ sc' = [IdleScan EXCEPT !.pc = "process", !.row = [c \in Cands |-> row[c]], !.tag = tag]
    /\ UNCHANGED <<g, ts, member, row, tag, work, into, direct, foreign, conflict, late, fanned, faults>>

\* The row if there is one, else the state.
Eff(c) == IF sc.row[c] # "absent" THEN sc.row[c] ELSE ts[c]
First(S) == IF Canonical \in S THEN Canonical ELSE Shadow

Goto(next) == sc' = [sc EXCEPT !.pc = next]
GiveUp == sc' = IdleScan
Close(how) == sc' = [sc EXCEPT !.pc = "resolve", !.how = how]

\* cancelABCandidateStateOnly; its fault is the write that fails.
CancelStateOnly(c) ==
    \/ NoFault /\ ts' = [ts EXCEPT ![c] = IF Ended(@) THEN @ ELSE "cancelled"]
    \/ Fault("write") /\ ts' = ts

\* The state is compared with "pending"; the fan-out gave it "planned".
NeverQueued ==
    /\ sc.row[Shadow] = "absent" /\ ts[Shadow] = "pending"

\* processABGroup up to the selection.
Process ==
    /\ sc.pc = "process" /\ g.st # "absent"
    /\ LET undone == sc.row[Canonical] # "absent" /\ Canonical \notin sc.tag
           over == \A c \in Cands : Ended(Eff(c))
       IN \/ ~Unresolved /\ GiveUp /\ UNCHANGED <<ts, row, faults>>
          \/ Unresolved /\ undone /\ Close("untagged") /\ UNCHANGED <<ts, row, faults>>
          \/ /\ Unresolved /\ ~undone /\ NeverQueued
             /\ GiveUp /\ CancelStateOnly(Shadow) /\ row' = row
          \/ /\ Unresolved /\ ~undone /\ ~NeverQueued /\ over
             /\ sc' = [sc EXCEPT !.pc = "select",
                                 !.fin = {c \in Cands : Eff(c) = "completed"}]
             /\ UNCHANGED <<ts, row, faults>>
          \/ /\ Unresolved /\ ~undone /\ ~NeverQueued /\ ~over /\ "race" \in late
             /\ GiveUp
             /\ \/ \E c \in Cands :
                     /\ Eff(Other(c)) = "completed" /\ sc.row[c] = "pending"
                     /\ IF row[c] # "pending" THEN UNCHANGED <<ts, row, faults>>
                        ELSE /\ row' = [row EXCEPT ![c] = "cancelled"]
                             /\ \/ NoFault /\ ts' = [ts EXCEPT ![c] = "cancelled"]
                                \/ Fault("write") /\ ts' = ts
                \/ \E c \in Cands :
                     /\ Eff(Other(c)) = "completed" /\ sc.row[c] = "absent" /\ ~Ended(ts[c])
                     /\ CancelStateOnly(c) /\ row' = row
                \/ /\ \A c \in Cands : Eff(Other(c)) = "completed" => sc.row[c] = "in_progress"
                   /\ UNCHANGED <<ts, row, faults>>
          \/ /\ Unresolved /\ ~undone /\ ~NeverQueued /\ ~over /\ "race" \notin late
             /\ GiveUp /\ UNCHANGED <<ts, row, faults>>
    /\ UNCHANGED <<g, member, tag, work, into, direct, foreign, conflict, late, fanned>>

-----------------------------------------------------------------------------
(* Selection.                                                              *)

\* CommitCandidateChanges: idempotent; a worktree must exist.
CanCommit(c) == work[c] # "none"
Committed(S) == [c \in Cands |-> IF c \in S /\ work[c] = "edits" THEN "committed" ELSE work[c]]

\* Mutant: a selection may take for ever.
NoDeadline == FALSE

\* abSelectionTimedOut.
SelectionTimedOut == "selection" \in late

\* Mutant: a decision that was written down is made again.
SelectAfresh == FALSE

\* runABSelectionAndResolve: a winner that was written down is final.
WinnerIsPending == g.pend # None

RepairIsWired == Wired

SelectFirst ==
    /\ sc.pc = "select"
    /\ \/ sc.fin = {} /\ Close("both failed") /\ UNCHANGED <<g, late, work, faults>>
       \/ sc.fin # {} /\ RepairIsWired /\ Goto("degrade") /\ UNCHANGED <<g, late, work, faults>>
       \/ /\ sc.fin # {} /\ ~RepairIsWired /\ WinnerIsPending /\ g' = g /\ late' = late
          /\ LET w == g.pend IN
             \/ /\ NoFault /\ ~SelectionTimedOut /\ work' = work
                /\ sc' = [sc EXCEPT !.pc = "mark", !.win = w]
             \/ /\ NoFault /\ SelectionTimedOut /\ CanCommit(w) /\ work' = Committed({w})
                /\ sc' = [sc EXCEPT !.pc = "mark", !.win = w]
             \/ /\ SelectionTimedOut /\ Fault("commit") /\ work' = work /\ Goto("degrade")
       \/ /\ sc.fin # {} /\ ~RepairIsWired /\ ~WinnerIsPending /\ g.st = "racing" /\ work' = work
          /\ \/ /\ NoFault /\ g' = [g EXCEPT !.st = "selecting"] /\ late' = late \ {"selection"}
                /\ Goto("commit")
             \/ Fault("write") /\ UNCHANGED <<g, late>> /\ GiveUp
       \/ /\ sc.fin # {} /\ ~RepairIsWired /\ ~WinnerIsPending /\ g.st = "selecting"
          /\ g' = g /\ late' = late
          /\ LET w == First(sc.fin) IN
             \/ ~SelectionTimedOut /\ NoFault /\ work' = work /\ Goto("commit")
             \/ /\ SelectionTimedOut /\ CanCommit(w) /\ NoFault /\ work' = Committed({w})
                /\ sc' = [sc EXCEPT !.pc = "mark", !.win = w]
             \/ /\ SelectionTimedOut /\ work' = work /\ Goto("degrade")
                /\ IF CanCommit(w) THEN Fault("commit") ELSE NoFault
    /\ UNCHANGED <<ts, member, row, tag, into, direct, foreign, conflict, fanned>>

\* Every finisher is committed before the selection runs.
CommitFinishers ==
    /\ sc.pc = "commit"
    /\ \/ /\ NoFault /\ \A c \in sc.fin : CanCommit(c)
          /\ work' = Committed(sc.fin) /\ Goto("run")
       \/ /\ IF \A c \in sc.fin : CanCommit(c) THEN Fault("commit") ELSE NoFault
          /\ work' = work /\ GiveUp
    /\ UNCHANGED <<g, ts, member, row, tag, into, direct, foreign, conflict, late, fanned>>

\* RunCandidateSelection (CandidateSelection): a winner, no signal or an error
\* (the first finisher), the only finisher found bad, busy or interrupted.
RunSelection ==
    /\ sc.pc = "run"
    /\ \/ \E w \in sc.fin : sc' = [sc EXCEPT !.pc = "mark", !.win = w]
       \/ Cardinality(sc.fin) = 1 /\ Goto("degrade")
       \/ GiveUp
    /\ UNCHANGED <<g, ts, member, row, tag, work, into, direct, foreign, conflict, late, fanned, faults>>

-----------------------------------------------------------------------------
(* The decision.                                                           *)

\* Mutant: a decision that is found written down was carried out.
RecordedIsDone == IF g.pend = sc.win THEN Close("win") ELSE Goto("intake")

\* A decision that was written down before is carried out again.
AfterMark == Goto("intake")

\* markABPendingWinner, first of all; the group's clock starts again.
MarkPendingWinner ==
    /\ sc.pc = "mark"
    /\ \/ /\ NoFault /\ g.pend \in {None, sc.win}
          /\ g' = [g EXCEPT !.pend = sc.win]
          /\ late' = IF g.pend = None THEN late \ {"selection"} ELSE late
          /\ AfterMark
       \/ /\ IF g.pend \in {None, sc.win} THEN Fault("write") ELSE NoFault
          /\ GiveUp /\ UNCHANGED <<g, late>>
    /\ UNCHANGED <<ts, member, row, tag, work, into, direct, foreign, conflict, fanned>>

\* finalizeABWinner: the winner's worktree is committed, then IntakeWinner
\* merges its branch; a conflict leaves the worker's branch as it was.
CommitAndMerge(w) ==
    work' = Committed({w}) /\ into' = into \cup {w}

Intake ==
    LET w == sc.win IN
    /\ sc.pc = "intake"
    /\ \/ /\ CanCommit(w) /\ w \notin conflict
          /\ \/ NoFault /\ CommitAndMerge(w) /\ Close("win")
             \/ Fault("crash") /\ CommitAndMerge(w) /\ GiveUp
       \/ /\ CanCommit(w) /\ w \in conflict /\ NoFault
          /\ work' = Committed({w}) /\ into' = into /\ Goto("degrade")
       \/ /\ IF CanCommit(w) THEN Fault("commit") ELSE NoFault
          /\ UNCHANGED <<work, into>> /\ GiveUp
    /\ UNCHANGED <<g, ts, member, row, tag, direct, foreign, conflict, late, fanned>>

\* degradeABGroupWithRepair: RetryTaskAtomically registers the repair in the
\* state, in place of the canonical, and queues it.
EnqueueRepair ==
    /\ ts' = [ts EXCEPT ![Repair] = "planned"]
    /\ row' = [row EXCEPT ![Repair] = "pending"]
    /\ member' = IF member = Canonical THEN Repair ELSE member

Degrade ==
    /\ sc.pc = "degrade"
    /\ \/ Wired /\ Close("superseded") /\ UNCHANGED <<ts, row, member, faults>>
       \/ /\ ~Wired /\ row[Canonical] = "absent" /\ Close("no repair")
          /\ UNCHANGED <<ts, row, member, faults>>
       \/ /\ ~Wired /\ row[Canonical] # "absent"
          /\ \/ NoFault /\ EnqueueRepair /\ Close("superseded")
             \/ Fault("crash") /\ EnqueueRepair /\ GiveUp
             \/ Fault("write") /\ UNCHANGED <<ts, row, member>> /\ GiveUp
    /\ UNCHANGED <<g, tag, work, into, direct, foreign, conflict, late, fanned>>

\* Mutant: a shadow that lost keeps its status.
ShadowStands ==
    [t \in Tasks |-> IF t = sc.win THEN (IF t = Shadow THEN "completed" ELSE ts[t])
                     ELSE IF t = Canonical THEN "cancelled" ELSE ts[t]]

\* resolveABGroup, once: a shadow that won takes the canonical's place in the
\* state with the status it has; the others are cancelled.
WinStates ==
    [t \in Tasks |-> IF t = sc.win THEN (IF t = Shadow THEN "completed" ELSE ts[t])
                     ELSE IF t = Other(sc.win) THEN "cancelled" ELSE ts[t]]
LossStates ==
    [t \in Tasks |-> IF t = Shadow \/ (t = Canonical /\ sc.how = "superseded")
                       THEN "cancelled" ELSE ts[t]]

Resolve ==
    /\ sc.pc = "resolve" /\ GiveUp
    /\ \/ /\ NoFault /\ Unresolved
          /\ IF sc.how = "win"
               THEN /\ g' = [st |-> "resolved", pend |-> None, winner |-> sc.win]
                    /\ ts' = WinStates
                    /\ member' = IF sc.win = Shadow /\ member = Canonical THEN Shadow ELSE member
               ELSE /\ g' = [st |-> "degraded", pend |-> None, winner |-> None]
                    /\ ts' = LossStates /\ member' = member
       \/ Fault("write") /\ UNCHANGED <<g, ts, member>>
    /\ UNCHANGED <<row, tag, work, into, direct, foreign, conflict, late, fanned>>

-----------------------------------------------------------------------------
(* Tagged rows without a group.                                            *)

\* stripABTag: whatever the row is by now.
Strip(c, cancel) ==
    /\ tag' = tag \ {c}
    /\ row' = [row EXCEPT ![c] = IF cancel /\ @ = "pending" THEN "cancelled" ELSE @]

\* repairOrphanABRows: completed work is merged or done again, a shadow
\* the state does not know is cancelled.
RepairOrphans ==
    /\ sc.pc = "process" /\ g.st = "absent"
    /\ \E c \in Cands :
         /\ c \in sc.tag /\ sc.row[c] # "absent"
         /\ sc' = [sc EXCEPT !.tag = @ \ {c}]
         /\ \/ /\ sc.row[c] = "in_progress"
               /\ UNCHANGED <<tag, row, ts, member, work, into, faults>>
            \/ /\ ts[c] # "absent" /\ sc.row[c] = "completed"
               /\ IF c \notin conflict
                    THEN /\ NoFault /\ work' = Committed({c}) /\ into' = into \cup {c}
                         /\ Strip(c, FALSE) /\ UNCHANGED <<ts, member>>
                    ELSE /\ UNCHANGED <<work, into>>
                         /\ \/ /\ NoFault /\ c = Canonical
                               /\ ts' = [ts EXCEPT ![Repair] = "planned"]
                               /\ row' = [row EXCEPT ![Repair] = "pending"]
                               /\ member' = Repair /\ tag' = tag \ {c}
                            \/ Fault("write") /\ UNCHANGED <<tag, row, ts, member>>
            \/ /\ ts[c] # "absent" /\ sc.row[c] \in {"pending", "failed", "cancelled"}
               /\ NoFault /\ Strip(c, FALSE) /\ UNCHANGED <<ts, member, work, into>>
            \/ /\ ts[c] = "absent" /\ sc.row[c] # "in_progress"
               /\ NoFault /\ Strip(c, TRUE) /\ UNCHANGED <<ts, member, work, into>>
    /\ UNCHANGED <<g, direct, foreign, conflict, late, fanned>>

OrphansDone ==
    /\ sc.pc = "process" /\ g.st = "absent" /\ \A c \in sc.tag : sc.row[c] = "absent"
    /\ GiveUp
    /\ UNCHANGED <<g, ts, member, row, tag, work, into, direct, foreign, conflict, late, fanned, faults>>

-----------------------------------------------------------------------------
Crash ==
    /\ sc.pc # "idle" /\ Fault("crash") /\ GiveUp
    /\ UNCHANGED <<g, ts, member, row, tag, work, into, direct, foreign, conflict, late, fanned>>

Step ==
    \/ Process \/ SelectFirst \/ CommitFinishers \/ RunSelection \/ MarkPendingWinner
    \/ Intake \/ Degrade \/ Resolve \/ RepairOrphans \/ OrphansDone

Init ==
    /\ g = NoGroup /\ member = Canonical /\ tag = {} /\ into = {} /\ direct = {} /\ foreign = {}
    /\ ts = [t \in Tasks |-> IF t = Canonical THEN "planned" ELSE "absent"]
    /\ row = [t \in Tasks |-> IF t = Canonical THEN "pending" ELSE "absent"]
    /\ work = [c \in Cands |-> "none"] /\ conflict \in SUBSET Cands /\ late = {}
    /\ fanned = FALSE /\ sc = IdleScan /\ faults = 0

Next ==
    \/ FanOut \/ RaceTimesOut \/ SelectionTimesOut \/ Collect \/ Step \/ Crash
    \/ DispatchRepair
    \/ \E c \in Cands :
         Dispatch(c) \/ StartForeign(c) \/ EndForeign(c) \/ DeadLetter(c) \/ CancelRow(c)
    \/ \E t \in Tasks : StateFollows(t) \/ \E st \in {"completed", "failed"} : Report(t, st)

\* Scans and workers go on, deadlines pass, a task that is dispatched again
\* and again gets through.
Fairness ==
    /\ WF_vars(Collect) /\ WF_vars(Step) /\ WF_vars(RaceTimesOut) /\ SF_vars(SelectionTimesOut)
    /\ WF_vars(\E t \in Tasks : StateFollows(t))
    /\ \A c \in Cands :
         /\ SF_vars(Dispatch(c)) /\ WF_vars(\E st \in {"completed", "failed"} : Report(c, st))
         /\ WF_vars(EndForeign(c))

Spec == Init /\ [][Next]_vars
FairSpec == Spec /\ Fairness

-----------------------------------------------------------------------------
\* At most one execution of the logical task reaches the branches: one
\* candidate that is merged, or the repair, or a task that worked directly
\* (runABSelectionAndResolve: "finishing it now would double-execute the
\* logical task").
WorkedOnce ==
    /\ Cardinality(into) <= 1
    /\ into # {} => Repair \notin direct

\* A task that counts as completed for its phase has its work on a worker's
\* branch (ABBarrierActive, resolveABGroup, repairOrphanABRows).
CountedWorkIsThere ==
    (g.st # "absent" /\ ~Masked /\ ts[member] = "completed") => member \in into \cup direct

\* The winner's branch is merged while its worker does nothing else, the
\* precondition computeABFreeze is there for.
IntakeOnIdleWorker ==
    [][\A c \in Cands : c \in into' \ into => c \notin foreign /\ row[c] # "in_progress"]_vars

\* Once closed, one task stands for the logical task and the shadow that did
\* not win is cancelled.
OneSurvivor ==
    g.st \in {"resolved", "degraded"} =>
        /\ \A c \in Cands \ {member} : ts[c] = "cancelled"
        /\ g.st = "resolved" => member \in {g.winner, Repair}

\* Whatever dies between the merge, the rows and the state file, the logical
\* task is worked once, its work is where it counts, and one candidate is left.
RaceIsSound == WorkedOnce /\ CountedWorkIsThere /\ OneSurvivor

\* The race never blocks the command: the group is closed in the end.
RaceEnds == Unresolved ~> ~Unresolved

\* A tagged row does not keep its worker from other tasks for ever, with or
\* without a group (repairOrphanABRows: such rows "freeze their workers
\* forever").
FreezeEnds == \A c \in Cands : Frozen(c) ~> ~Frozen(c)

\* Neither the command nor a worker waits for the race for ever.
RaceSettles == RaceEnds /\ FreezeEnds

\* Orphan work of a completed canonical is on its worker's branch once its
\* tag is gone (repairOrphanABRows).
OrphanWorkIsMerged ==
    (g.st = "absent" /\ ts[Canonical] = "completed" /\ Canonical \notin tag /\ member = Canonical)
        => Canonical \in into \cup direct

=============================================================================
