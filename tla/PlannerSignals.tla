---------------------------- MODULE PlannerSignals ----------------------------
(***************************************************************************)
(* The planner's signal queue, queue/planner_signals.yaml                  *)
(* (internal/daemon/queue_dispatch.go, queue_scan_phase_c.go,              *)
(* queue_scan_apply.go, reconcile/run_queue_ops.go), the conditions that   *)
(* put signals into it and the circuit breaker.                            *)
(*                                                                         *)
(* Phase A of a scan derives signals from the state files and picks those  *)
(* to send, Phase B sends them, Phase C adds what the merges found, hands  *)
(* conflicts to the resolver and drops what was delivered; then the        *)
(* reconciler runs.  Phases A and C hold scanMu, so that the result        *)
(* handler adds its signals between them.  Marks in the state files and    *)
(* the queue are separate files: the daemon may die between two writes and *)
(* each of them may fail.                                                  *)
(***************************************************************************)
EXTENDS Naturals, FiniteSets, TLC

CONSTANTS
    Workers,
    Tasks,        \* tasks whose results the breaker counts
    Ancestors,    \* [Tasks -> the tasks each one is a retry of]
    Threshold,    \* max_consecutive_failures
    MaxAttempts,  \* retry.signal_dispatch; 0 is no limit
    CascadeBreak, \* signalCascadeBreakThreshold
    MaxResolutions, \* maxConflictResolutionAttempts
    MaxGen,       \* bound: conflicts of one worker
    MaxBad,       \* bound: deliveries that fail
    FaultKinds, MaxFaults

VARIABLES
    sigs,    \* the queue: key -> entry
    phase, late,      \* a deferred phase; its fill deadline has passed
    br, tres, cmd,    \* the breaker, the results it counted, the command's row
    seen,    \* the state reader's cached view of the breaker
    wk,      \* the worktree state of each worker
    stall,   \* an integration without merge after its last task
    replan,  \* a task whose repair is refused
    psc,     \* the scan under way
    heard,   \* signals that reached the planner
    gone,    \* signals given up as dead letters
    lost,    \* signals whose mark was saved when their own write was not
    bad, sigFaults

world == <<phase, late, br, tres, cmd, stall, replan>>
history == <<heard, gone, lost>>

\* signalDedupKey: kind, worker and conflict generation.
One == "-"
Fill == <<"awaiting_fill", One, 0>>
FillTimeout == <<"fill_timeout", One, 0>>
Tripped == <<"circuit_breaker_tripped", One, 0>>
Stalled == <<"worktree_stalled", One, 0>>
Replan == <<"paused_for_replan", One, 0>>
Conflicted(w) == <<"merge_conflict", w, wk[w].gen>>
Resolving(w) == <<"worker_resolving_stalled", w, 0>>
Escalation(w) == <<"conflict_escalation", w, 0>>
Resolution(w) == <<"conflict_resolution", w, 0>>   \* R7's direct notification

Kind(k) == k[1]
Priority(k) ==
    CASE Kind(k) = "merge_conflict" -> 0
      [] Kind(k) = "conflict_escalation" -> 1
      [] Kind(k) = "circuit_breaker_tripped" -> 2
      [] Kind(k) = "fill_timeout" -> 3
      [] Kind(k) = "awaiting_fill" -> 4
      [] OTHER -> 10

FreshEntry == [tries |-> 0, waits |-> FALSE, dispatched |-> FALSE]

\* upsertPlannerSignal: an entry that is there already stays as it is.
Upsert(q, new) == [k \in DOMAIN q \cup new |-> IF k \in DOMAIN q THEN q[k] ELSE FreshEntry]
Without(q, ks) == [k \in DOMAIN q \ ks |-> q[k]]

Idle == [at |-> "idle", batch |-> {}, streak |-> 0, res |-> <<>>, found |-> {}]
NoView == [prog |-> "unread", tripped |-> FALSE]
Dies == psc' = Idle /\ seen' = NoView

Fault(kind) == kind \in FaultKinds /\ sigFaults < MaxFaults /\ sigFaults' = sigFaults + 1
NoFault == sigFaults' = sigFaults
Goes(how) == IF how = "ok" THEN NoFault ELSE Fault(how)

-----------------------------------------------------------------------------
(* The circuit breaker.                                                    *)

\* isLineageAlreadyFailed
LineageFailed(t) == \E a \in Ancestors[t] : tres[a] = "failed"

\* UpdateCounterOnResult and TripBreaker, under the command's state lock; the
\* reader's cached view is left as it is.
TaskEnds(t, r) ==
    /\ tres[t] = "none" /\ cmd = "in_progress"
    /\ \A a \in Ancestors[t] : tres[a] = "failed"
    /\ LET counts == r = "failed" /\ ~LineageFailed(t)
           n == IF r = "completed" THEN 0 ELSE br.count + (IF counts THEN 1 ELSE 0)
           trips == counts /\ n >= Threshold /\ ~br.tripped
       IN /\ br' = [count |-> n, tripped |-> br.tripped \/ trips,
                    prog |-> IF r = "completed" THEN "fresh" ELSE br.prog]
          /\ heard' = IF trips THEN heard \ {Tripped} ELSE heard
    /\ tres' = [tres EXCEPT ![t] = r]
    /\ UNCHANGED <<sigs, phase, late, cmd, seen, wk, stall, replan, psc, gone, lost, bad, sigFaults>>

\* MarkProgress: a pane that moves counts as progress.
MarkProgress ==
    /\ br.prog # "fresh" /\ cmd = "in_progress"
    /\ br' = [br EXCEPT !.prog = "fresh"] /\ seen' = NoView
    /\ UNCHANGED <<sigs, phase, late, tres, cmd, wk, stall, replan, psc, history, bad, sigFaults>>

\* progress_timeout_minutes pass; the cached view holds an earlier time.
ProgressAges ==
    /\ \/ br.prog = "fresh" /\ br' = [br EXCEPT !.prog = "old"]
          /\ seen' = IF seen = NoView THEN seen
                     ELSE [seen EXCEPT !.prog = IF seen.prog = "none" THEN "none" ELSE "old"]
       \/ seen # NoView /\ seen.prog = "fresh" /\ br' = br /\ seen' = [seen EXCEPT !.prog = "old"]
    /\ UNCHANGED <<sigs, phase, late, tres, cmd, wk, stall, replan, psc, history, bad, sigFaults>>

ViewExpires ==
    /\ seen # NoView /\ seen' = NoView
    /\ UNCHANGED <<sigs, world, wk, psc, history, bad, sigFaults>>

\* The command ends; the cancel request of a tripped breaker makes it.
CommandEnds ==
    /\ cmd = "in_progress" /\ cmd' = "terminal"
    /\ UNCHANGED <<sigs, phase, late, br, tres, seen, wk, stall, replan, psc, history, bad, sigFaults>>

-----------------------------------------------------------------------------
(* The other conditions.                                                   *)

PhaseReady ==
    /\ phase = "none" /\ phase' = "ready"
    /\ UNCHANGED <<sigs, late, br, tres, cmd, seen, wk, stall, replan, psc, history, bad, sigFaults>>

\* The planner submits the phase, or its deadline passes first.
PhaseFilled ==
    /\ phase = "awaiting_fill" /\ psc.at \in {"idle", "B"} /\ phase' = "active"
    /\ UNCHANGED <<sigs, late, br, tres, cmd, seen, wk, stall, replan, psc, history, bad, sigFaults>>
DeadlinePasses ==
    /\ phase = "awaiting_fill" /\ ~late /\ late' = TRUE
    /\ UNCHANGED <<sigs, phase, br, tres, cmd, seen, wk, stall, replan, psc, history, bad, sigFaults>>

StallIsDue ==
    /\ ~stall.due /\ stall' = [stall EXCEPT !.due = TRUE]
    /\ UNCHANGED <<sigs, phase, late, br, tres, cmd, seen, wk, replan, psc, history, bad, sigFaults>>

\* advanceRepairPendingToPausedForReplan: the state, then the signal.
PauseForReplan ==
    /\ replan = "no" /\ psc.at \in {"idle", "B"} /\ replan' = "paused"
    /\ \/ NoFault /\ sigs' = Upsert(sigs, {Replan}) /\ UNCHANGED <<lost, psc, seen>>
       \/ Fault("signal write") /\ lost' = lost \cup {Replan} /\ UNCHANGED <<sigs, psc, seen>>
       \/ Fault("crash") /\ lost' = lost \cup {Replan} /\ Dies /\ sigs' = sigs
    /\ UNCHANGED <<phase, late, br, tres, cmd, wk, stall, heard, gone, bad>>

InConflict(w) == wk[w].status \in {"conflict", "resolving"}

\* A resolution is reported and the worker merged (ResumeMerge).
Resolved(w) ==
    /\ InConflict(w) /\ psc.at \in {"idle", "B"}
    /\ wk' = [wk EXCEPT ![w].status = "active", ![w].slow = FALSE, ![w].stuck = FALSE]
    /\ UNCHANGED <<sigs, world, seen, psc, history, bad, sigFaults>>

\* A worker stays in resolving beyond the stall timeout of the scan, or
\* beyond R7's.
ResolvingSlow(w) ==
    /\ wk[w].status = "resolving" /\ ~wk[w].slow /\ wk' = [wk EXCEPT ![w].slow = TRUE]
    /\ UNCHANGED <<sigs, world, seen, psc, history, bad, sigFaults>>
ResolvingStuck(w) ==
    /\ wk[w].status = "resolving" /\ ~wk[w].stuck /\ wk' = [wk EXCEPT ![w].stuck = TRUE]
    /\ UNCHANGED <<sigs, world, seen, psc, history, bad, sigFaults>>

\* computeSignalBackoff: the next attempt is due.
BackoffEnds(k) ==
    /\ k \in DOMAIN sigs /\ sigs[k].waits
    /\ sigs' = [sigs EXCEPT ![k].waits = FALSE]
    /\ UNCHANGED <<world, seen, wk, psc, history, bad, sigFaults>>

-----------------------------------------------------------------------------
(* Phase A, under scanMu.                                                  *)

\* loadStateWithCache, then CheckProgressTimeout on what it returned.
View == IF seen = NoView THEN [prog |-> br.prog, tripped |-> br.tripped] ELSE seen
Expired == cmd = "in_progress" /\ View.prog = "old" /\ ~View.tripped

\* TripCircuitBreaker reads the state again under its lock and may decline.
Trips == Expired /\ br.prog = "old" /\ ~br.tripped
OwnTripsOnly == IF Expired THEN {Tripped} ELSE {}   \* a mutant of BreakerSignals
BreakerSignals == IF Expired \/ (cmd = "in_progress" /\ View.tripped) THEN {Tripped} ELSE {}

\* CheckPhaseTransitions, for a command under way.
NextPhase ==
    CASE cmd = "in_progress" /\ phase = "ready" -> "awaiting_fill"
      [] cmd = "in_progress" /\ phase = "awaiting_fill" /\ late -> "timed_out"
      [] OTHER -> phase
PhaseSignals ==
    IF NextPhase = phase THEN {} ELSE IF phase = "ready" THEN {Fill} ELSE {FillTimeout}

StallHolds == stall.due /\ ~stall.flag /\ stall.st = "created"

ResolvingStalls == {w \in Workers : wk[w].status = "resolving" /\ wk[w].slow}

\* stepPlannerSignalsDeferred: what waits is kept unread, what is stale leaves
\* the queue, the rest is sent in Phase B.
StaleByCache(q, ph) == {k \in DOMAIN q : ~q[k].waits /\ k = Fill /\ phase # "awaiting_fill"}  \* a mutant of Stale
Stale(q, ph) ==
    LET outdated == (IF ph = "awaiting_fill" THEN {} ELSE {Fill})
                    \cup (IF ph = "timed_out" THEN {} ELSE {FillTimeout})
    IN {k \in outdated \cap DOMAIN q : ~q[k].waits}
Due(q) == {k \in DOMAIN q : ~q[k].waits}

\* Phase A up to its flush: every mark is saved before the queue is written, so
\* that a failed write or a crash there leaves the mark alone behind.
ScanA ==
    /\ psc.at = "idle"
    /\ \E how \in {"ok", "mark", "flush", "crash"} :
        LET marks == PhaseSignals \cup (IF StallHolds THEN {Stalled} ELSE {})
            emitted == BreakerSignals \cup marks \cup {Resolving(w) : w \in ResolvingStalls}
            full == Upsert(sigs, emitted)
            q == Without(full, Stale(full, NextPhase))
            saved == how \in {"ok", "mark"}
        IN /\ Goes(how) /\ (how = "mark" => StallHolds)
           /\ phase' = NextPhase
           /\ br' = [br EXCEPT !.tripped = @ \/ Trips]
           /\ heard' = IF Trips THEN heard \ {Tripped} ELSE heard
           \* MarkIntegrationStallSignaled; MarkIntegrationFailed when it fails.
           /\ stall' = IF ~StallHolds THEN stall
                       ELSE IF how = "mark" THEN [stall EXCEPT !.st = "failed"]
                       ELSE [stall EXCEPT !.flag = TRUE]
           /\ sigs' = IF saved THEN q ELSE sigs
           /\ lost' = IF saved THEN lost ELSE lost \cup (marks \ DOMAIN sigs)
           /\ IF how = "crash" THEN Dies
              ELSE /\ psc' = [Idle EXCEPT !.at = "B", !.batch = Due(q)]
                   /\ seen' = IF cmd = "in_progress" /\ ~Trips /\ NextPhase = phase THEN View
                              ELSE [prog |-> br.prog, tripped |-> br.tripped \/ Trips]
    /\ UNCHANGED <<late, tres, cmd, wk, replan, gone, bad>>

-----------------------------------------------------------------------------
(* Phase B, without scanMu.                                                *)

Done(k, r) == [psc EXCEPT !.batch = @ \ {k}, !.res = (k :> r) @@ @,
                          !.streak = IF r = "ok" THEN 0 ELSE @ + 1]

\* deliverPlannerSignal with its inline retries, in the order of priority; a
\* send that cannot be confirmed may have arrived.
Deliver(k) ==
    /\ psc.at = "B" /\ k \in psc.batch /\ psc.streak < CascadeBreak
    /\ \A j \in psc.batch : Priority(k) <= Priority(j)
    /\ \/ psc' = Done(k, "ok") /\ heard' = heard \cup {k} /\ bad' = bad
       \/ /\ bad < MaxBad /\ bad' = bad + 1
          /\ \/ psc' = Done(k, "busy") /\ heard' = heard
             \/ psc' = Done(k, "unsure") /\ heard' \in {heard, heard \cup {k}}
    /\ UNCHANGED <<sigs, world, seen, wk, gone, lost, sigFaults>>

\* A delivery streak of failures leaves the rest for the next scan; then the
\* merges run.  A fresh conflict starts with new bookkeeping (setWorkerStatus)
\* and its generation differs.
EndB(ws) ==
    /\ psc.at = "B" /\ (psc.batch = {} \/ psc.streak >= CascadeBreak)
    /\ \A w \in ws : wk[w].status = "active" /\ wk[w].gen < MaxGen
    /\ wk' = [w \in Workers |->
                IF w \notin ws THEN wk[w]
                ELSE [wk[w] EXCEPT !.status = "conflict", !.gen = @ + 1, !.att = 0, !.esc = FALSE]]
    /\ heard' = {k \in heard : k[2] \notin ws} /\ gone' = {k \in gone : k[2] \notin ws}
    /\ psc' = [psc EXCEPT !.at = "C", !.batch = {}, !.streak = 0, !.found = ws]
    /\ UNCHANGED <<sigs, world, seen, lost, bad, sigFaults>>

Crash ==
    /\ psc.at # "idle" /\ Fault("crash") /\ Dies
    /\ UNCHANGED <<sigs, world, wk, history, bad>>

-----------------------------------------------------------------------------
(* Phase C, under scanMu.                                                  *)

\* UpdateMergeConflictSignal finds the first entry of the worker; a signal of a
\* later generation is refused while an older one is in front of it.
ConflictsOf(q, w) == {k \in DOMAIN q : Kind(k) = "merge_conflict" /\ k[2] = w}
IsFirst(q, k) == \A j \in ConflictsOf(q, k[2]) : k[3] <= j[3]
Markable(mem, disk) ==
    {k \in DOMAIN mem : /\ Kind(k) = "merge_conflict" /\ ~mem[k].dispatched
                        /\ k \in DOMAIN disk /\ IsFirst(disk, k)}

SetDispatched(q, ks) ==
    [k \in DOMAIN q |-> IF k \in ks THEN [q[k] EXCEPT !.dispatched = TRUE] ELSE q[k]]

\* applySignalResults
Exhausted(e, r) ==
    \/ r = "unsure" /\ e.tries + 1 >= 2
    \/ r = "busy" /\ MaxAttempts > 0 /\ e.tries + 1 >= MaxAttempts
Answered(q) == DOMAIN q \cap DOMAIN psc.res
Delivered(q) == {k \in Answered(q) : psc.res[k] = "ok"}
DeadLetters(q) == {k \in Answered(q) : psc.res[k] # "ok" /\ Exhausted(q[k], psc.res[k])}
ApplyResults(q) ==
    [k \in DOMAIN q \ (Delivered(q) \cup DeadLetters(q)) |->
        IF k \in Answered(q) THEN [q[k] EXCEPT !.tries = @ + 1, !.waits = TRUE] ELSE q[k]]

\* Without signal work the queue is not even loaded.
SkipC ==
    /\ psc.at = "C" /\ psc.found = {} /\ psc.res = <<>>
    /\ psc' = [psc EXCEPT !.at = "R"]
    /\ UNCHANGED <<sigs, world, seen, wk, history, bad, sigFaults>>

\* A queue that does not load ends Phase C, the results of Phase B with it.
LoadFails ==
    /\ psc.at = "C" /\ Fault("load") /\ psc' = Idle
    /\ UNCHANGED <<sigs, world, seen, wk, history, bad>>

\* New conflicts, written first so that the resolver finds them; the hand-over,
\* which marks the entry in the file and then moves the worker; the results;
\* one flush of the copy in memory when anything in it changed.
ScanC ==
    /\ psc.at = "C"
    /\ \E how \in {"ok", "preflush", "save", "flush", "crash"} :
        LET new == {Conflicted(w) : w \in psc.found}
            mem == Upsert(sigs, new)
            disk == IF how = "preflush" THEN sigs ELSE mem
            marked == IF how = "save" THEN {} ELSE Markable(mem, disk)
            moved == {k \in marked : wk[k[2]].status = "conflict"}
            mem2 == SetDispatched(mem, moved)
            dirty == new \ DOMAIN sigs # {} \/ Answered(mem2) # {}
            flushed == dirty /\ how \notin {"flush", "crash"}
        IN /\ Goes(how)
           /\ wk' = [w \in Workers |-> IF \E k \in moved : k[2] = w
                                       THEN [wk[w] EXCEPT !.status = "resolving"] ELSE wk[w]]
           /\ sigs' = IF flushed THEN ApplyResults(mem2) ELSE SetDispatched(disk, marked)
           /\ gone' = IF flushed THEN gone \cup DeadLetters(mem2) ELSE gone
           /\ IF how = "crash" THEN Dies ELSE psc' = [Idle EXCEPT !.at = "R"] /\ seen' = seen
    /\ UNCHANGED <<world, heard, lost, bad>>

-----------------------------------------------------------------------------
(* The reconciler, under scanMu: R6 and R7 queue the signal before they    *)
(* save the one-shot guard.                                                *)

TimesOut == phase = "awaiting_fill" /\ late
Waiting(w) == wk[w].status = "conflict" \/ (wk[w].status = "resolving" /\ wk[w].stuck)
Escalates(w) == Waiting(w) /\ wk[w].att >= MaxResolutions /\ ~wk[w].esc
Resends(w) == Waiting(w) /\ wk[w].att < MaxResolutions

\* R7: a worker stuck in resolving is in conflict again, and is escalated or
\* handed to the planner once more.
AfterR7(w) ==
    LET back == IF Waiting(w) THEN [wk[w] EXCEPT !.status = "conflict", !.slow = FALSE, !.stuck = FALSE]
                ELSE wk[w]
    IN IF Escalates(w) THEN [back EXCEPT !.esc = TRUE]
       ELSE IF Resends(w) THEN [back EXCEPT !.status = "resolving", !.att = @ + 1]
       ELSE back

\* The notification of a resolution is sent once, outside the queue.  A failed
\* write of the signals is logged and the guard saved all the same.
Reconcile ==
    /\ psc.at = "R"
    /\ \E how \in {"ok", "crash", "guard", "signal write"} :
        LET due == (IF TimesOut THEN {FillTimeout} ELSE {})
                   \cup {Escalation(w) : w \in {v \in Workers : Escalates(v)}}
            direct == {Resolution(w) : w \in {v \in Workers : Resends(v)}}
            guards == how \in {"ok", "signal write"}
        IN /\ Goes(how) /\ (how = "signal write" => due # {})
           /\ \E written \in SUBSET due :
                /\ how \in {"ok", "guard"} => written = due
                /\ how = "signal write" => written = {}
                /\ sigs' = Upsert(sigs, written)
           /\ lost' = IF how = "signal write" THEN lost \cup (due \ DOMAIN sigs) ELSE lost
           /\ phase' = IF guards /\ TimesOut THEN "timed_out" ELSE phase
           /\ wk' = IF guards THEN [w \in Workers |-> AfterR7(w)] ELSE wk
           /\ heard' \in {heard, heard \cup (IF guards THEN direct ELSE {})}
           /\ psc' = Idle
           /\ seen' = IF how = "crash" THEN NoView ELSE seen
    /\ UNCHANGED <<late, br, tres, cmd, stall, replan, gone, bad>>

-----------------------------------------------------------------------------
SignalInit ==
    /\ sigs = <<>> /\ phase = "none" /\ late = FALSE
    /\ br = [count |-> 0, prog |-> "none", tripped |-> FALSE]
    /\ tres = [t \in Tasks |-> "none"] /\ cmd = "in_progress" /\ seen = NoView
    /\ wk = [w \in Workers |-> [status |-> "active", gen |-> 0, att |-> 0, esc |-> FALSE,
                                slow |-> FALSE, stuck |-> FALSE]]
    /\ stall = [due |-> FALSE, flag |-> FALSE, st |-> "created"]
    /\ replan = "no" /\ psc = Idle
    /\ heard = {} /\ gone = {} /\ lost = {} /\ bad = 0 /\ sigFaults = 0

BreakerEvents ==
    \/ \E t \in Tasks, r \in {"completed", "failed"} : TaskEnds(t, r)
    \/ MarkProgress \/ ProgressAges \/ CommandEnds
PhaseEvents == PhaseReady \/ PhaseFilled \/ DeadlinePasses
ConflictEvents == \E w \in Workers : Resolved(w) \/ ResolvingSlow(w) \/ ResolvingStuck(w)
SignalScan ==
    \/ ScanA \/ (\E k \in psc.batch : Deliver(k)) \/ (\E ws \in SUBSET Workers : EndB(ws))
    \/ SkipC \/ ScanC \/ Reconcile
SignalNext ==
    \/ BreakerEvents \/ ViewExpires \/ PhaseEvents \/ StallIsDue \/ PauseForReplan
    \/ ConflictEvents \/ SignalScan \/ LoadFails \/ Crash
    \/ \E k \in DOMAIN sigs : BackoffEnds(k)

-----------------------------------------------------------------------------
(* Properties.                                                             *)

\* A signal is told when the planner got it or it was given up as a dead
\* letter; one whose write failed is lost.
Told(k) == k \in heard \cup gone \cup lost

\* What the planner must hear of: a phase that waits for it or timed out, a
\* breaker that tripped under a command which goes on, a stall that was marked or
\* could not be, a refused repair, a conflict.  Of a tripped breaker a dead
\* letter is no excuse, nor of a conflict before it is escalated.
Owed ==
    {k \in {Fill} : phase = "awaiting_fill" /\ ~Told(k)}
    \cup {k \in {FillTimeout} : phase = "timed_out" /\ ~Told(k)}
    \cup {k \in {Tripped} : br.tripped /\ cmd = "in_progress" /\ k \notin heard}
    \cup {k \in {Stalled} : (stall.flag \/ stall.st = "failed") /\ ~Told(k)}
    \cup {k \in {Replan} : replan = "paused" /\ ~Told(k)}
    \cup {Conflicted(w) : w \in {v \in Workers :
             /\ InConflict(v) /\ ~Told(Escalation(v))
             /\ {Conflicted(v), Resolving(v), Resolution(v)} \cap heard = {}}}

\* Again and again the planner knows of everything: whatever is lost, repeated
\* or dead-lettered on the way, the scan derives a signal again from the state,
\* and R6 and R7 reach what the scan does not (stepCircuitBreaker,
\* stepPhaseTransitions, R7MergeConflict).
PlannerIsUpToDate == []<>(Owed = {})

\* The one-shot guard of an escalation never stands without its signal, but for
\* one whose write failed (R7MergeConflict).
GuardFollowsSignal ==
    [](\A w \in Workers : wk[w].esc => Escalation(w) \in DOMAIN sigs \/ Told(Escalation(w)))

\* What was decided reaches the planner.
SignalsReachPlanner == PlannerIsUpToDate /\ GuardFollowsSignal

\* The claim: the durable signal precedes the one-shot guard, whatever write fails.
SignalPrecedesGuard ==
    [](\A w \in Workers : wk[w].esc => Escalation(w) \in DOMAIN sigs \cup heard \cup gone)

\* A signal that says the breaker tripped is true.
TrippedSignalIsTrue == [](Tripped \in DOMAIN sigs => br.tripped)

\* What was marked as signalled is not lost.
NothingIsLost == [](lost = {})

=============================================================================
