------------------------------- MODULE TaskGraph -------------------------------
(***************************************************************************)
(* The dependencies of one command's tasks while tasks fail, are repaired  *)
(* and are retried.  Two copies of them are kept: TaskDependencies in the  *)
(* command's state, which a retry rewrites (internal/plan retry.go,        *)
(* retry_cascade.go), and blocked_by in the queue rows, which nothing      *)
(* rewrites and the scan reads through retry_lineage (lineage.go,          *)
(* daemon/dependency_resolver.go).  The command has no phases; a plan      *)
(* request, a scan step and a step of the result handler are atomic, as    *)
(* the state lock and the scan's locks make them.  How a graph is found    *)
(* acyclic is PlanGraph's subject.                                         *)
(***************************************************************************)
EXTENDS Naturals, FiniteSets, FiniteSetsExt

CONSTANTS
    Tasks,         \* how many tasks the plan is submitted with
    Plans,         \* the graphs the planner may submit: [1 .. Tasks -> SUBSET (1 .. Tasks)]
    MaxId,         \* bound on the task ids minted
    MaxCalls,      \* bounds on the planner's add-retry-task ("retry") and add-task ("add")
                   \* calls, on the daemon's own retries ("repair"), on plan rebuild
                   \* ("rebuild"), on crashes ("crash"), and on all of them ("all")
    Explicit,      \* whether a retry may name its blocked_by
    Forks          \* whether a task may get a second replacement, see MayRetry

VARIABLES
    minted,      \* the ids minted so far are 1 .. minted: a later id is greater
    status,      \* TaskStates
    deps,        \* TaskDependencies
    lineage,     \* RetryLineage: new id -> the id it replaces, 0 for none
    reason,      \* CancelledReasons: the d of blocked_dependency_terminal:d, else 0
    superseded,  \* CancelledReasons: tasks marked superseded_by_...
    slots,       \* RequiredTaskIDs and OptionalTaskIDs
    row,         \* status of the task's queue row
    waits,       \* its blocked_by
    handler,     \* the daemon's retry between its steps: [old, new]
    results,     \* what the worker reported, in the results file
    used         \* how often each bounded call was made

state == <<status, deps, lineage, reason, superseded, slots>>
queues == <<row, waits>>
vars == <<minted, state, queues, handler, results, used>>

Ids == 1 .. MaxId
Terminal == {"completed", "failed", "cancelled"}
Quiet == [old |-> 0, new |-> 0]

TypeOK ==
    /\ minted \in 0 .. MaxId
    /\ status \in [Ids -> Terminal \cup {"none", "planned", "running", "repair_pending",
                                         "paused_for_replan"}]
    /\ deps \in [Ids -> SUBSET Ids] /\ lineage \in [Ids -> 0 .. MaxId]
    /\ reason \in [Ids -> 0 .. MaxId] /\ superseded \subseteq Ids /\ slots \subseteq Ids
    /\ row \in [Ids -> {"none", "pending", "in_progress"} \cup Terminal]
    /\ waits \in [Ids -> SUBSET Ids] /\ handler \in [old : 0 .. MaxId, new : 0 .. MaxId]
    /\ results \in [Ids -> {"none", "completed", "failed"}]
    /\ used \in [DOMAIN MaxCalls -> Nat]

Init ==
    /\ minted = 0
    /\ status = [t \in Ids |-> "none"] /\ deps = [t \in Ids |-> {}]
    /\ lineage = [t \in Ids |-> 0] /\ reason = [t \in Ids |-> 0]
    /\ superseded = {} /\ slots = {}
    /\ row = [t \in Ids |-> "none"] /\ waits = [t \in Ids |-> {}]
    /\ handler = Quiet /\ results = [t \in Ids |-> "none"]
    /\ used = [k \in DOMAIN MaxCalls |-> 0]

\* The bound on the ids leaves room for the one the daemon is about to mint.
Room(n) == minted + n + (IF handler.old # 0 /\ handler.new = 0 THEN 1 ELSE 0) <= MaxId

Use(kind) ==
    /\ used[kind] < MaxCalls[kind] /\ used["all"] < MaxCalls["all"]
    /\ used' = [used EXCEPT ![kind] = @ + 1, !["all"] = @ + 1]

(***************************************************************************)
(* Walks                                                                   *)
(***************************************************************************)

\* All ids met from t on by following next until it gives 0.
Walk(next, t) ==
    LET From[x \in Ids, n \in 0 .. MaxId] ==
            {x} \cup (IF n = 0 \/ next[x] = 0 THEN {} ELSE From[next[x], n - 1])
    IN From[t, MaxId]

\* LatestDescendant; of several replacements the one minted last counts.
Latest(lin, t) ==
    LET From[x \in Ids] == LET successors == {n \in Ids : lin[n] = x}
                           IN IF successors = {} THEN x ELSE From[Max(successors)]
    IN From[t]

EffectiveStatus(t) == status[Latest(lineage, t)]

\* effectiveStatusForCompletion: a task cancelled because of d counts as
\* completed once d does.
Cause == [t \in Ids |-> IF EffectiveStatus(t) = "cancelled" THEN reason[Latest(lineage, t)] ELSE 0]
EffectiveForCompletion(t) ==
    IF \E x \in Walk(Cause, t) : EffectiveStatus(x) = "completed" THEN "completed"
    ELSE EffectiveStatus(t)

Blocked(t) == \E d \in waits[t] : EffectiveForCompletion(d) # "completed"

\* Mutant: what was cancelled in the cascade does not cascade further.
FailedOnly(t) == {d \in waits[t] : EffectiveForCompletion(d) = "failed"}

FailedDeps(t) == {d \in waits[t] : EffectiveForCompletion(d) \in {"failed", "cancelled"}}

\* Some tasks wait for one another.
Circular(edges) == \E S \in SUBSET (1 .. minted') : S # {} /\ \A t \in S : edges[t] \cap S # {}

(***************************************************************************)
(* The plan is submitted                                                   *)
(***************************************************************************)

\* Mutant: names are checked, cycles are not.
NamesKnown(graph) == \A t \in DOMAIN graph : graph[t] \subseteq DOMAIN graph \ {t}

\* What validateTaskSetCommon leaves: every name in blocked_by is a task of the
\* set, none its own, and the whole has no cycle.
Accepted(graph) ==
    /\ \A t \in DOMAIN graph : graph[t] \subseteq DOMAIN graph \ {t}
    /\ ~\E S \in SUBSET DOMAIN graph : S # {} /\ \A t \in S : graph[t] \cap S # {}

Submit ==
    /\ minted = 0 /\ minted' = Tasks
    /\ \E graph \in Plans :
         /\ Accepted(graph)
         /\ deps' = [t \in Ids |-> IF t <= Tasks THEN graph[t] ELSE {}]
    /\ waits' = deps' /\ slots' = 1 .. Tasks
    /\ status' = [t \in Ids |-> IF t <= Tasks THEN "planned" ELSE "none"]
    /\ row' = [t \in Ids |-> IF t <= Tasks THEN "pending" ELSE "none"]
    /\ UNCHANGED <<lineage, reason, superseded, handler, results, used>>

(***************************************************************************)
(* The scan and the results                                                *)
(***************************************************************************)

Known(t) == t \in slots

\* A row goes out once its dependencies are completed.  The state follows only
\* for a member task that is not settled; the row goes out all the same.
Dispatch(t) ==
    /\ row[t] = "pending" /\ ~Blocked(t)
    /\ row' = [row EXCEPT ![t] = "in_progress"]
    /\ status' = [status EXCEPT ![t] = IF Known(t) /\ @ = "planned" THEN "running" ELSE @]
    /\ UNCHANGED <<minted, deps, lineage, reason, superseded, slots, waits, handler, results, used>>

\* An open row whose dependency failed is cancelled for it; UpdateTaskState
\* refuses what is settled or no member.
CascadeCancel(t) ==
    /\ row[t] \in {"pending", "in_progress"}
    /\ \E d \in FailedDeps(t) :
         IF Known(t) /\ status[t] \notin Terminal
         THEN /\ status' = [status EXCEPT ![t] = "cancelled"]
              /\ reason' = [reason EXCEPT ![t] = d]
         ELSE UNCHANGED <<status, reason>>
    /\ row' = [row EXCEPT ![t] = "cancelled"]
    /\ UNCHANGED <<minted, deps, lineage, superseded, slots, waits, handler, results, used>>

Running(t) == row[t] = "in_progress" /\ results[t] = "none"

\* What the worker reports: a failed verification is found after it.
Reported(outcome) == IF outcome = "failed" THEN "failed" ELSE "completed"

\* A worker's report closes the row and settles the task, unless it is settled.
\* After a failed verification the planner has to decide: paused_for_replan.
Report(t, outcome) ==
    /\ Running(t)
    /\ results' = [results EXCEPT ![t] = Reported(outcome)]
    /\ row' = [row EXCEPT ![t] = Reported(outcome)]
    /\ status' = [status EXCEPT ![t] = IF @ \in Terminal THEN @ ELSE outcome]
    /\ UNCHANGED <<minted, deps, lineage, reason, superseded, slots, waits, handler, used>>

\* A failure the daemon answers itself: it retries an execution that failed, or
\* repairs one that failed verification.  What the report wrote is visible
\* before the replacement is registered.
ReportAndRetry(t, outcome) ==
    /\ Running(t) /\ status[t] = "running" /\ handler = Quiet
    /\ Use("repair") /\ Room(1)
    /\ results' = [results EXCEPT ![t] = Reported(outcome)]
    /\ row' = [row EXCEPT ![t] = Reported(outcome)]
    /\ status' = [status EXCEPT ![t] = outcome]
    /\ handler' = [old |-> t, new |-> 0]
    /\ UNCHANGED <<minted, deps, lineage, reason, superseded, slots, waits>>

\* Mutant: the replacement starts without the dependencies.
RegisterBare ==
    /\ handler.old # 0 /\ handler.new = 0
    /\ LET new == minted + 1  old == handler.old IN
         /\ minted' = new
         /\ handler' = [handler EXCEPT !.new = new]
         /\ status' = [status EXCEPT ![new] = "planned"]
         /\ lineage' = [lineage EXCEPT ![new] = old]
         /\ slots' = (slots \ {old}) \cup {new}
    /\ UNCHANGED <<deps, reason, superseded, queues, results, used>>

\* WireRetryTaskIntoState: the replacement takes the slot and a copy of the
\* dependencies; those of other tasks stay as they are.
Register ==
    /\ handler.old # 0 /\ handler.new = 0
    /\ LET new == minted + 1  old == handler.old IN
         /\ minted' = new
         /\ handler' = [handler EXCEPT !.new = new]
         /\ status' = [status EXCEPT ![new] = "planned"]
         /\ deps' = [deps EXCEPT ![new] = deps[old]]
         /\ lineage' = [lineage EXCEPT ![new] = old]
         /\ slots' = (slots \ {old}) \cup {new}
    /\ UNCHANGED <<reason, superseded, queues, results, used>>

\* The row follows, and a task that was left in repair_pending is cancelled.
Enqueue ==
    /\ handler.new # 0
    /\ row' = [row EXCEPT ![handler.new] = "pending"]
    /\ waits' = [waits EXCEPT ![handler.new] = waits[handler.old]]
    /\ IF status[handler.old] \in Terminal THEN UNCHANGED <<status, superseded>>
       ELSE /\ status' = [status EXCEPT ![handler.old] = "cancelled"]
            /\ superseded' = superseded \cup {handler.old}
    /\ handler' = Quiet
    /\ UNCHANGED <<minted, deps, lineage, reason, slots, results, used>>

\* The daemon dies after the result file and before the state and the row.
Torn(t, outcome) ==
    /\ Use("crash") /\ Running(t)
    /\ results' = [results EXCEPT ![t] = outcome]
    /\ UNCHANGED <<minted, state, queues, handler>>

\* The reconciler brings the state and the row up to such a result.
Reconcile(t) ==
    /\ row[t] = "in_progress" /\ results[t] # "none"
    /\ status' = [status EXCEPT ![t] = IF @ \in Terminal THEN @ ELSE results[t]]
    /\ row' = [row EXCEPT ![t] = results[t]]
    /\ UNCHANGED <<minted, deps, lineage, reason, superseded, slots, waits, handler, results, used>>

(***************************************************************************)
(* Requests of the planner                                                 *)
(***************************************************************************)

\* A planned task of which no queue has a row.
Phantom(t) == status[t] = "planned" /\ row[t] = "none"

\* plan rebuild settles every task with a result as that result says, whatever
\* has become of the task since, and fails the phantoms.  One that changes
\* nothing is left out.
Rebuild ==
    /\ minted > 0 /\ Use("rebuild")
    /\ status' = [t \in Ids |-> IF status[t] \notin Terminal /\ results[t] # "none" THEN results[t]
                                ELSE IF Phantom(t) THEN "failed" ELSE status[t]]
    /\ status' # status
    /\ UNCHANGED <<minted, deps, lineage, reason, superseded, slots, queues, handler, results>>

\* add-task: a new member; its dependencies need only be known to the state.
AddTask ==
    /\ minted > 0 /\ Room(1) /\ Use("add") /\ minted' = minted + 1
    /\ \E blockedBy \in SUBSET (1 .. minted) :
         /\ deps' = [deps EXCEPT ![minted'] = blockedBy]
         /\ waits' = [waits EXCEPT ![minted'] = blockedBy]
    /\ status' = [status EXCEPT ![minted'] = "planned"]
    /\ row' = [row EXCEPT ![minted'] = "pending"]
    /\ slots' = slots \cup {minted'}
    /\ UNCHANGED <<lineage, reason, superseded, handler, results>>

\* Everything that replaced t, directly or by steps.
Descendants(t) == {d \in Ids \ {t} : t \in Walk(lineage, d)}

\* validateRetryRequest: t failed or waits for the planner, or was cancelled
\* with nothing taking its place, and no replacement of it is under way.  What
\* this lets through forks the lineage: a task whose replacement has ended, and
\* one that the daemon has reported failed and is about to replace.
MayRetry(t) ==
    /\ \/ status[t] \in {"failed", "paused_for_replan", "repair_pending"}
       \/ status[t] = "cancelled" /\ t \notin superseded
    /\ \A d \in Descendants(t) : status[d] \in Terminal
    /\ Forks \/ (Descendants(t) = {} /\ t # handler.old)

\* cascadeRecover replaces what was cancelled because of t, directly or by
\* steps, as the reasons name it.
Recovered(t) == {c \in Ids \ {t} : t \in Walk(reason, c)}

\* blocked_by of the retry: as given, or the original's with every dependency
\* followed to its latest replacement.
BlockedByOf(t) ==
    {{Latest(lineage, d) : d \in deps[t]}}
        \cup (IF Explicit THEN SUBSET (1 .. minted) \ {{}} ELSE {})

\* The ids for t and what it brings back, t's first.
NewIds(t, back) ==
    [o \in {t} \cup back |-> minted + 1 + (IF o = t THEN 0 ELSE Cardinality({b \in back : b <= o}))]

\* rewriteDependencies, and replaceInRequiredOrOptional for the slots: what is
\* replaced gives way to its replacement.
Rewritten(S, new) == {IF o \in DOMAIN new THEN new[o] ELSE o : o \in S}

\* updateTaskStateForCascade: the lineage with the replacements.
Extended(new) ==
    [n \in Ids |-> IF \E o \in DOMAIN new : new[o] = n THEN CHOOSE o \in DOMAIN new : new[o] = n
                  ELSE lineage[n]]

\* purgeSupersededRetryEntries: what has a successor and is settled.
Purged(lin, after) == {lin[n] : n \in Ids} \cap {o \in Ids : after[o] \in Terminal}

\* The dependencies, the new tasks' and everybody's.
Edges(t, blockedBy, new, lin) ==
    [n \in Ids |->
        IF n = new[t] THEN Rewritten(blockedBy \ {t}, new) \cup (blockedBy \cap {t})
        ELSE IF \E o \in DOMAIN new : new[o] = n
             THEN Rewritten({Latest(lin, d) : d \in deps[lin[n]]}, new)
             ELSE Rewritten(deps[n], new)]

\* The rows of the new tasks are written; the row of the one that is retried is
\* closed (retry_queue.go), those of what it brings back were already.
RowsWith(t, new) ==
    [n \in Ids |-> IF \E o \in DOMAIN new : new[o] = n THEN "pending"
                  ELSE IF n = t /\ row[t] # "none" THEN "cancelled" ELSE row[n]]

\* applyRetryStateChanges and writeAndCommitRetryQueue.
AddRetryTask(t) ==
    LET new == NewIds(t, Recovered(t))
        lin == Extended(new)
        ids == minted + 1 .. minted'
        after == [status EXCEPT ![t] = IF @ = "paused_for_replan" THEN "cancelled" ELSE @]
        purged == Purged(lin, after)
    IN
    /\ MayRetry(t) /\ Use("retry")
    /\ Room(Cardinality(DOMAIN new)) /\ minted' = minted + Cardinality(DOMAIN new)
    /\ \E blockedBy \in BlockedByOf(t) :
         LET edges == Edges(t, blockedBy, new, lin)
         IN /\ ~Circular(edges)
            /\ deps' = [n \in Ids |-> IF n \in purged THEN {} ELSE edges[n]]
            /\ waits' = [n \in Ids |-> IF n \in ids THEN edges[n] ELSE waits[n]]
    /\ lineage' = lin
    /\ slots' = Rewritten(slots, new)
    /\ status' = [n \in Ids |-> IF n \in ids THEN "planned" ELSE after[n]]
    /\ reason' = [n \in Ids |-> IF n \in purged THEN 0 ELSE reason[n]]
    /\ superseded' = superseded \ purged
    /\ row' = RowsWith(t, new)
    /\ UNCHANGED <<handler, results>>

Planner == AddTask \/ Rebuild \/ \E t \in 1 .. minted : AddRetryTask(t)

Next ==
    \/ Submit
    \/ \E t \in 1 .. minted :
         \/ Dispatch(t) \/ CascadeCancel(t)
         \/ \E outcome \in {"completed", "failed", "paused_for_replan"} : Report(t, outcome)
         \/ \E outcome \in {"failed", "repair_pending"} : ReportAndRetry(t, outcome)
         \/ \E outcome \in {"completed", "failed"} : Torn(t, outcome)
         \/ Reconcile(t)
    \/ Register \/ Enqueue
    \/ Planner

Spec == Init /\ [][Next]_vars

\* The scan runs at intervals and the watchdogs end what a worker never reports
\* (TaskQueue, PaneWatch); nothing is promised of the planner.
Fairness ==
    /\ WF_vars(\E t \in 1 .. minted : Dispatch(t) \/ CascadeCancel(t))
    /\ WF_vars(\E t \in 1 .. minted : \E outcome \in {"completed", "failed"} : Report(t, outcome))
    /\ WF_vars(Register \/ Enqueue \/ \E t \in 1 .. minted : Reconcile(t))

FairSpec == Spec /\ Fairness

(***************************************************************************)
(* Properties                                                              *)
(***************************************************************************)

Open(t) == row[t] = "pending"

\* The rows that are not out yet never wait for one another, though the rows
\* keep the ids they were written with, a retry is checked against the state's
\* dependencies alone, and both are read through the lineage
\* (ValidateTaskDAGAfterMutation, IsTaskBlocked).
NoCircularWait ==
    LET rows == {t \in Ids : Open(t)}
    IN ~\E S \in SUBSET rows \ {{}} :
         \A t \in S : \E d \in waits[t] : Latest(lineage, d) \in S

\* What an open row of an unsettled task waits for and what the state says the
\* task depends on are the same tasks, although a retry rewrites one and not the other
\* (rewriteDependencies, writeRetryQueueEntry, RegisterRetryTaskInState).
RowWaitsAsPlanned ==
    \A t \in Ids : Open(t) /\ status[t] \notin Terminal =>
        {Latest(lineage, d) : d \in waits[t]} = {Latest(lineage, d) : d \in deps[t]}

\* Whatever fails, is repaired, retried, added or rebuilt: a row that waits is
\* sent out or cancelled in the end, unless some task waits for the planner.
RowsSettle ==
    <>[]((\E t \in Ids : Open(t)) => \E t \in Ids : status[t] = "paused_for_replan")

\* lineage.go:101: dispatch looks at the real status, "so a downstream worker is
\* never woken up against a dependency whose actual output was never produced".
DispatchedOnRealOutput ==
    [][\A t \in Ids : row[t] = "pending" /\ row'[t] = "in_progress" =>
         \A d \in waits[t] : EffectiveStatus(d) = "completed"]_vars

\* rebuild.go:152: a status like repair_pending or paused_for_replan "is owned by
\* another reconciler / dispatch path": a rebuild does not make a task completed
\* whose verification failed.
FailedVerdictIsKept ==
    [][\A t \in Ids : status[t] \in {"repair_pending", "paused_for_replan"} =>
         status'[t] # "completed"]_vars
=============================================================================
