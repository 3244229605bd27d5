--------------------------- MODULE MCNotifications ---------------------------
(***************************************************************************)
(* What the orchestrator and the planner are told: the notifications of    *)
(* results and the planner's signals, two disjoint models.  A behaviour is *)
(* one scenario of the first, the results that are reported together, the  *)
(* faults that may happen meanwhile and what the continuous run does, or   *)
(* one topic of the second.                                                *)
(***************************************************************************)
EXTENDS Notifications

CONSTANTS c1, w1, w2,
          Workers, Tasks, Threshold, MaxAttempts, CascadeBreak, MaxResolutions, MaxGen, MaxBad,
          SignalFaults, MaxSignalFaults, Topics

VARIABLES part, topic,
          sigs, phase, late, br, tres, cmd, seen, wk, stall, replan, psc,
          reached, gone, lost, bad, sigFaults

\* The second task is a retry of the first, of no other.
Lineage == [t \in Tasks |-> IF t = CHOOSE x \in Tasks : TRUE THEN {} ELSE {CHOOSE x \in Tasks : TRUE}]

S == INSTANCE PlannerSignals
         WITH Ancestors <- Lineage, FaultKinds <- SignalFaults, MaxFaults <- MaxSignalFaults,
              heard <- reached

signalVars ==
    <<sigs, phase, late, br, tres, cmd, seen, wk, stall, replan, psc,
      reached, gone, lost, bad, sigFaults>>
all == <<vars, signalVars, part, topic>>

Scenarios == {[of |-> {c1}, faults |-> 1, run |-> "goes on"],
              [of |-> {w1, w2}, faults |-> 1, run |-> "goes on"],
              [of |-> {c1}, faults |-> 0, run |-> "stalls"],
              [of |-> {c1}, faults |-> 0, run |-> "ends"]}
NoScenario == [of |-> {}, faults |-> 0, run |-> "goes on"]

MCInit ==
    /\ Init /\ S!SignalInit
    /\ \/ topic = "none" /\ part \in Scenarios
       \/ topic \in Topics /\ part = NoScenario

Reports(A) ==
    /\ topic = "none" /\ A /\ UNCHANGED <<signalVars, part, topic>>
    /\ \A r \in Results : res'[r].ty = NoType \/ r \in part.of
    /\ faults' <= part.faults
    /\ ct'.stalled => part.run = "stalls"
    /\ ct'.status = "ended" => part.run = "ends"

\* A topic bounds what happens besides the faults and the deliveries; a second
\* conflict of a worker is a topic without faults.
Signals(A) ==
    /\ topic # "none" /\ A /\ UNCHANGED <<vars, part, topic>>
    /\ topic = "phase" \/ phase' = "none"
    /\ topic = "breaker" \/ (br' = br /\ tres' = tres)
    /\ topic \in {"conflict", "again"} \/ wk' = wk
    /\ topic \in {"conflict", "again"} => cmd' = cmd /\ bad' <= 1
    /\ topic = "conflict" => \A v \in Workers : wk'[v].gen <= 1
    /\ topic = "again" => sigFaults' = 0
    /\ topic = "marks" \/ (stall' = stall /\ replan' = replan)

MCNext == Reports(Next) \/ Signals(S!SignalNext)

MCSpec ==
    /\ MCInit /\ [][MCNext]_all
    /\ WF_all(Reports(Scan) \/ Signals(S!SignalScan))
    /\ \A t \in Threads : WF_all(Reports(Handle(t)) \/ Signals(S!ViewExpires))
    /\ WF_all(Reports(\E r \in Results : NotifyLeaseExpires(r))
              \/ Signals(\E k \in DOMAIN sigs : S!BackoffEnds(k)))
    /\ WF_all(Reports(\E w \in Works : TaskSettled(w))
              \/ Signals(\E v \in Workers : S!ResolvingStuck(v)))
    /\ SF_all(Reports(\E s \in Sources : RowLeaseExpires(s)))

\* What was decided reaches the planner, see PlannerSignals.
SignalsReachPlanner == S!SignalsReachPlanner
SignalPrecedesGuard == S!SignalPrecedesGuard
TrippedSignalIsTrue == S!TrippedSignalIsTrue

=============================================================================
