--------------------------- MODULE MCAgentDelivery ---------------------------
(* The processes of one project on one machine, each with a model of its   *)
(* own: one worker that shares a worktree between two tasks and also runs  *)
(* the RunOnMain verification; the delivery into a console pane; the watch *)
(* on a worker's screen; the daemon and the commands that start and stop   *)
(* it.  They share no state; a behaviour is of one of the four.            *)
EXTENDS AgentDelivery, ConsolePane, PaneWatch, DaemonLifecycle

CONSTANTS a, b, m, da, root

VARIABLE part

Places == [t \in Tasks |-> IF t \in Mains THEN root ELSE da]

all == <<vars, consoleVars, watchVars, lifecycleVars, part>>

MCInit ==
    /\ part \in {"worker", "console", "watch", "daemon"}
    /\ Init /\ ConsoleInit /\ WatchInit /\ LifecycleInit

Worker(A) == part = "worker" /\ A /\ UNCHANGED <<consoleVars, watchVars, lifecycleVars, part>>
Console(A) == part = "console" /\ A /\ UNCHANGED <<vars, watchVars, lifecycleVars, part>>
Watch(A) == part = "watch" /\ A /\ UNCHANGED <<vars, consoleVars, lifecycleVars, part>>
Daemon(A) == part = "daemon" /\ A /\ UNCHANGED <<vars, consoleVars, watchVars, part>>

MCNext == Worker(Next) \/ Console(ConsoleNext) \/ Watch(WatchNext) \/ Daemon(LifecycleNext)

MCSpec ==
    /\ MCInit /\ [][MCNext]_all
    /\ WF_all(Worker(Executor))
    /\ WF_all(Console(TurnEnds)) /\ WF_all(Console(PersonStops))
    /\ \A s \in Senders : WF_all(Console(Delivering(s)))
    /\ WF_all(Watch(WatchTick)) /\ WF_all(Watch(PaneScan))
    /\ \A p \in Pids :
          /\ WF_all(Daemon(DaemonStep(p) /\ UNCHANGED <<data, op, calls, reused, victims>>))
          /\ WF_all(Daemon((\E c \in Commands : AnswerRequest(p, c)) /\ UNCHANGED <<op, calls, reused, victims>>))
    /\ \A o \in Ops : WF_all(Daemon(OpStep(o) /\ UNCHANGED <<daemonFaults, calls, reused>>))

\* Every message for a console pane is eventually pasted: an abandoned draft
\* or a busy planner delays it only (execDeliver, detectActiveUserInput).
ConsoleMessageArrives == part = "console" => MessageArrives

\* No delivery, message or silent pane is stuck for ever.
PanesProgress == DeliveryEnds /\ ConsoleMessageArrives /\ SilentPaneIsReleased

(* The daemon's lifecycle, see DaemonLifecycle.                             *)

\* maestro up reports success only of the daemon it started, every command
\* ends, and up --force recovers from however the last daemon ended.
CommandsRecover == UpMeansUp /\ (part = "daemon" => CommandsEnd /\ ForceRecovers)

\* Every delivery, every wait for a pane and every command of the operator ends.
ProcessesProgress == PanesProgress /\ CommandsRecover

=============================================================================
