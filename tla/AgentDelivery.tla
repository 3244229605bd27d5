---------------------------- MODULE AgentDelivery ----------------------------
(***************************************************************************)
(* How a task envelope reaches the agent in a worker's tmux pane           *)
(* (internal/agent: executor_core.go, process_manager.go,                  *)
(* message_deliverer.go, busy_detector.go, pane_state_manager.go;          *)
(* internal/daemon/dispatch/dispatcher.go).                                *)
(*                                                                         *)
(* The executor keeps no memory of its own: what it knows of the pane is   *)
(* what it wrote into tmux user variables (tv), and tmux may refuse or     *)
(* lose a write.  The pane itself (pane) is what is really there: a shell  *)
(* or an agent, its directory, its conversation and its input box.  The    *)
(* agent works, stops and crashes between any two steps of a delivery; one *)
(* worker's deliveries, interrupts and evictions all run in Phase B, one   *)
(* after the other.                                                        *)
(*                                                                         *)
(* A task that is RunOnMain runs at the project root under the read-only   *)
(* guard that the policy hook derives from @run_on_main; every other task  *)
(* runs in the worktree of its command.                                    *)
(***************************************************************************)
EXTENDS Naturals, Sequences

CONSTANTS
    Tasks,        \* tasks of one worker
    Mains,        \* those that are RunOnMain
    DirOf,        \* [Tasks -> Dirs], the working directory of a task
    Dirs,         \* directories; Root is the project root
    Root, NoDir, NoTask,
    InlineRetries,\* EffectiveTaskDispatchInlineRetries
    MaxStarts,    \* dispatches in all
    FaultKinds, MaxFaults

ASSUME DeliveryAssumption ==
    /\ Mains \subseteq Tasks /\ Root \in Dirs /\ NoDir \notin Dirs /\ NoTask \notin Tasks
    /\ DirOf \in [Tasks -> Dirs]
    /\ \A t \in Tasks : DirOf[t] = Root <=> t \in Mains
    /\ {InlineRetries, MaxStarts, MaxFaults} \subseteq Nat

VARIABLES
    pane,    \* the process, its root PID, directory, conversation, input box
    tv,      \* the tmux user variables of the pane
    dirs,    \* directories that exist
    st,      \* queue status of each task, as the dispatcher's liveness check sees it
    resume,  \* tasks whose next dispatch is a continuation nudge
    job,     \* the delivery under way
    pc,      \* where it is
    pasted,  \* ghost: what the pane held when the last envelope was pasted
    starts, faults

vars == <<pane, tv, dirs, st, resume, job, pc, pasted, starts, faults>>

NoJob == [task |-> NoTask, resume |-> FALSE, how |-> "none", tries |-> 0]
NoPaste == [task |-> NoTask, how |-> "none", cwd |-> NoDir, main |-> FALSE,
            conv |-> <<>>]

Held(s) == {s[i] : i \in 1..Len(s)}

Cost(k) == k \in FaultKinds /\ faults < MaxFaults /\ faults' = faults + 1
Free == faults' = faults

\* isPathUnder: the project root contains every worktree.
IsPathUnder(c, d) == c = d \/ d = Root

-----------------------------------------------------------------------------
(* The pane, as tmux and the agent drive it.                               *)

FreshShell(d) == [agent |-> "shell", cwd |-> d, busy |-> FALSE, conv |-> <<>>,
                  box |-> <<>>]
\* A respawn changes the pane's root PID: a stored one is now another's.
Respawned(v) == [v EXCEPT !.readyPid = IF @ = "live" THEN "dead" ELSE @]
Launched(p) == [p EXCEPT !.agent = "up", !.conv = <<>>, !.box = <<>>, !.busy = FALSE]
Submitted(p) == [p EXCEPT !.conv = @ \o p.box, !.box = <<>>, !.busy = p.box # <<>> \/ @]

\* SetUserVar: the write lands or fails.
SetUserVar(new) ==
    {[v |-> new, err |-> FALSE, cost |-> 0]}
    \cup (IF faults < MaxFaults /\ "setvar" \in FaultKinds
            THEN {[v |-> tv, err |-> TRUE, cost |-> 1]} ELSE {})

\* ResetClearReady: two writes, both attempted.
ResetClearReady ==
    SetUserVar([tv EXCEPT !.ready = FALSE, !.readyPid = "none"])
    \cup (IF faults < MaxFaults /\ "setvar" \in FaultKinds
            THEN {[v |-> [tv EXCEPT !.readyPid = "none"], err |-> TRUE, cost |-> 1],
                  [v |-> [tv EXCEPT !.ready = FALSE], err |-> TRUE, cost |-> 1]}
            ELSE {})

\* SetClearReady: the flag first, then the PID; an error of the first skips
\* the second.
SetClearReady(v) ==
    {[v |-> [v EXCEPT !.ready = TRUE, !.readyPid = "live"], cost |-> 0]}
    \cup (IF faults < MaxFaults /\ "setvar" \in FaultKinds
            THEN {[v |-> v, cost |-> 1], [v |-> [v EXCEPT !.ready = TRUE], cost |-> 1]}
            ELSE {})

ResetCWD == SetUserVar([tv EXCEPT !.cwd = NoDir])
SetCWD(d) == SetUserVar([tv EXCEPT !.cwd = d])

Apply(o) == tv' = o.v /\ faults' = faults + o.cost

\* The agent ends its turn, wakes up on its own (the runtime retries an API
\* call), or falls back to the shell; the pane's root PID stays.
AgentStops ==
    /\ pane.busy
    /\ pane' = [pane EXCEPT !.busy = FALSE]
    /\ UNCHANGED <<tv, dirs, st, resume, job, pc, pasted, starts, faults>>

AgentWakes ==
    /\ pane.agent = "up" /\ pane.conv # <<>> /\ ~pane.busy
    /\ Cost("wake")
    /\ pane' = [pane EXCEPT !.busy = TRUE]
    /\ UNCHANGED <<tv, dirs, st, resume, job, pc, pasted, starts>>

AgentCrashes ==
    /\ pane.agent = "up" /\ Cost("crash")
    /\ pane' = [pane EXCEPT !.agent = "shell", !.busy = FALSE, !.conv = <<>>, !.box = <<>>]
    /\ UNCHANGED <<tv, dirs, st, resume, job, pc, pasted, starts>>

\* The agent reports the task it was last given.
AgentFinishes ==
    /\ pane.busy
    /\ \E t \in Tasks :
         /\ t = pane.conv[Len(pane.conv)] /\ st[t] \in {"dispatching", "running"}
         /\ st' = [st EXCEPT ![t] = "done"]
    /\ pane' = [pane EXCEPT !.busy = FALSE]
    /\ UNCHANGED <<tv, dirs, resume, job, pc, pasted, starts, faults>>

-----------------------------------------------------------------------------
(* The queue around the delivery.                                          *)

\* DispatchTask and resolveTaskWorkingDir: the lease is held, the resume flag
\* is consumed, the worktree exists.
DispatchTask(t) ==
    /\ pc = "idle" /\ st[t] = "pending" /\ starts < MaxStarts
    /\ \A u \in Tasks : st[u] \notin {"dispatching", "running"}
    /\ starts' = starts + 1
    /\ st' = [st EXCEPT ![t] = "dispatching"]
    /\ resume' = resume \ {t}
    /\ dirs' = dirs \cup {DirOf[t]}
    /\ job' = [task |-> t, resume |-> t \in resume, how |-> "none",
               tries |-> InlineRetries]
    /\ pc' = "start" /\ pasted' = NoPaste
    /\ UNCHANGED <<pane, tv, faults>>

\* A running task goes back to the queue: after observed progress with the
\* nudge flag, after an expired lease without it.
Released(t, nudge) ==
    /\ pc = "idle" /\ st[t] = "running" /\ (nudge => ~pane.busy)
    /\ st' = [st EXCEPT ![t] = "pending"]
    /\ resume' = IF nudge THEN resume \cup {t} ELSE resume
    /\ UNCHANGED <<pane, tv, dirs, job, pc, pasted, starts, faults>>

\* RespawnPaneToProjectRoot, then the removal of the worktree: only a pane
\* that sits in the directory is evicted; the resets are best effort; a
\* respawn failure skips the removal.
RespawnToProjectRoot(d) ==
    IF ~IsPathUnder(pane.cwd, d)
      THEN pane' = pane /\ tv' = tv /\ Free
      ELSE /\ pane' = FreshShell(Root)
           /\ \E o \in ResetCWD, r \in ResetClearReady :
                /\ o.cost + r.cost + faults <= MaxFaults
                /\ faults' = faults + o.cost + r.cost
                /\ tv' = Respawned([r.v EXCEPT !.cwd = o.v.cwd])

Cleanup(d) ==
    /\ pc = "idle" /\ d \in dirs \ {Root}
    /\ \A t \in Tasks : DirOf[t] = d => st[t] = "done"
    /\ RespawnToProjectRoot(d)
    /\ dirs' = dirs \ {d}
    /\ UNCHANGED <<st, resume, job, pc, pasted, starts>>

\* execInterrupt for a cancelled task: C-c, then /clear; a /clear that is not
\* confirmed leaves clear_ready as it is.
Interrupt(t) ==
    /\ pc = "idle" /\ st[t] = "running"
    /\ st' = [st EXCEPT ![t] = "done"] /\ resume' = resume \ {t}
    /\ \/ /\ pane.agent = "up"
          /\ pane' = [pane EXCEPT !.conv = <<>>, !.box = <<>>, !.busy = FALSE]
          /\ \E o \in SetUserVar([tv EXCEPT !.last = NoTask]) : Apply(o)
       \/ /\ pane.agent = "shell" \/ Cost("clear")
          /\ pane.agent = "shell" => Free
          /\ pane' = [pane EXCEPT !.busy = FALSE] /\ tv' = tv
    /\ UNCHANGED <<dirs, job, pc, pasted, starts>>

-----------------------------------------------------------------------------
(* One call of execWithClear.                                              *)

Goto(l) == pc' = l /\ job' = job
Quiet == UNCHANGED <<dirs, resume, pasted, starts>>

\* IsDispatchActive: the queue entry is still this dispatch's.
IsDispatchActive == st[job.task] = "dispatching"

\* Mutant: the attempts are not counted.
RetryForever ==
    /\ pc' = "start" /\ job' = [job EXCEPT !.how = "none"] /\ st' = st

\* DispatchTask's inline retry: while the queue entry is still this
\* dispatch's, the same request is executed again; after the last attempt
\* the lease is released.
Retry ==
    IF IsDispatchActive /\ job.tries > 0
      THEN /\ pc' = "start" /\ job' = [job EXCEPT !.tries = @ - 1, !.how = "none"]
           /\ st' = st
      ELSE /\ pc' = "idle" /\ job' = NoJob
           /\ st' = [st EXCEPT ![job.task] = IF @ = "dispatching" THEN "pending" ELSE @]

\* Success, and a confirmation that stayed uncertain, keep the lease.
Deliver ==
    /\ pc' = "idle" /\ job' = NoJob
    /\ st' = [st EXCEPT ![job.task] = IF @ = "dispatching" THEN "running" ELSE @]

\* Execute cannot find the pane: an error that is not retried.
PaneNotFound ==
    /\ pc = "start" /\ Cost("probe")
    /\ pc' = "idle" /\ job' = NoJob
    /\ st' = [st EXCEPT ![job.task] = IF @ = "dispatching" THEN "pending" ELSE @]
    /\ Quiet /\ UNCHANGED <<pane, tv>>

\* A tmux query or capture fails: every probe before the paste fails closed.
ProbeFails ==
    /\ pc \in {"nudge_wait", "recheck", "shell", "running", "restart", "wait", "send"}
    /\ Cost("probe")
    /\ IF pc = "shell" THEN Goto("dirlost") /\ st' = st ELSE Retry
    /\ Quiet /\ UNCHANGED <<pane, tv>>

\* DetectProcessRestart: a stored PID that differs resets clear_ready.
Restarted == tv.readyPid = "dead"

\* Mutant: the process identity is taken for the conversation.
ResumeBySession(t) ==
    /\ tv.readyPid = "live" /\ tv.ready /\ pane.agent = "up"
    /\ IsPathUnder(pane.cwd, DirOf[t])

\* canResumeInPlace, the checks after the PID probe.
CanResumeInPlace(t) ==
    /\ tv.readyPid = "live" /\ tv.ready
    /\ pane.agent = "up"
    /\ tv.last = t
    /\ IF t \in Mains THEN pane.cwd = Root ELSE IsPathUnder(pane.cwd, DirOf[t])

ResumePreflight ==
    /\ pc = "start"
    /\ IF Restarted /\ job.resume
         THEN \E o \in ResetClearReady : Apply(o)
         ELSE tv' = tv /\ Free
    /\ IF job.resume /\ CanResumeInPlace(job.task)
         THEN pc' = "stamp" /\ job' = [job EXCEPT !.how = "nudge"]
         ELSE pc' = "workdir" /\ job' = [job EXCEPT !.how = "full"]
    /\ Quiet /\ UNCHANGED <<pane, st>>

DirectoryExists(d) == d \in dirs

\* ensureWorkingDir: the tracked directory decides, unless it is gone.
EnsureWorkingDir ==
    /\ pc = "workdir"
    /\ LET d == DirOf[job.task]
           stale == tv.cwd # NoDir /\ ~DirectoryExists(tv.cwd)
       IN IF tv.cwd = d /\ ~stale
            THEN Goto("stamp") /\ UNCHANGED <<pane, tv, st, faults>>
            ELSE \/ /\ pane' = FreshShell(d) /\ tv' = Respawned(tv)
                    /\ Goto("shell") /\ Free /\ st' = st
                 \/ Cost("respawn") /\ Retry /\ UNCHANGED <<pane, tv>>
    /\ Quiet

\* Mutant: the tracked directory stays what it was.
KeepCWDOnError == tv' = tv /\ Free /\ Retry

\* markCWDUnknownOnError
MarkCWDUnknownOnError == (\E o \in ResetCWD : Apply(o)) /\ Retry

\* waitForShell, then clear_ready is reset before the launch.
ResetBeforeLaunch ==
    /\ pc = "shell"
    /\ \E o \in ResetClearReady :
         /\ Apply(o)
         /\ IF o.err THEN pc' = "dirlost" /\ job' = job ELSE Goto("launch")
    /\ Quiet /\ UNCHANGED <<pane, st>>

DirLost ==
    /\ pc = "dirlost" /\ MarkCWDUnknownOnError
    /\ Quiet /\ UNCHANGED pane

\* The launch command and waitReadyStrict; the agent may come up too late.
Launch ==
    /\ pc = "launch"
    /\ \/ pane' = Launched(pane) /\ Goto("setcwd") /\ Free
       \/ Cost("launch") /\ pane' \in {pane, Launched(pane)} /\ Goto("dirlost")
    /\ Quiet /\ UNCHANGED <<tv, st>>

\* The tracked directory follows the pane; this write has no fallback.
TrackWorkingDir ==
    /\ pc = "setcwd"
    /\ \E o \in SetCWD(DirOf[job.task]) :
         /\ Apply(o)
         /\ IF o.err THEN Retry ELSE Goto("stamp") /\ st' = st
    /\ Quiet /\ UNCHANGED pane

\* stampRunOnMainVar: the write lands, fails, or "silently did not land", so
\* it is read back.
Stamp == SetUserVar([tv EXCEPT !.main = job.task \in Mains])
    \cup (IF faults < MaxFaults /\ "silent" \in FaultKinds
            THEN {[v |-> tv, err |-> FALSE, cost |-> 1]} ELSE {})

\* Mutant: the write is not read back.
StampBlind ==
    /\ pc = "stamp"
    /\ \E o \in Stamp :
         /\ Apply(o)
         /\ IF o.err THEN Retry
              ELSE /\ Goto(IF job.how = "nudge" THEN "nudge_wait" ELSE "running")
                   /\ st' = st
    /\ Quiet /\ UNCHANGED pane

StampRunOnMainVar ==
    /\ pc = "stamp"
    /\ \E o \in Stamp :
         /\ Apply(o)
         /\ IF o.err \/ o.v.main # (job.task \in Mains) THEN Retry
              ELSE /\ Goto(IF job.how = "nudge" THEN "nudge_wait" ELSE "running")
                   /\ st' = st
    /\ Quiet /\ UNCHANGED pane

\* ensureClaudeRunning: a pane at the shell gets a new agent.
EnsureClaudeRunning ==
    /\ pc = "running"
    /\ IF pane.agent = "up"
         THEN UNCHANGED <<pane, tv, st, faults>> /\ Goto("restart")
         ELSE \E o \in ResetClearReady :
                /\ tv' = o.v
                /\ \/ /\ pane' = Launched(pane) /\ Goto("restart") /\ st' = st
                      /\ faults' = faults + o.cost
                   \/ /\ o.cost = 0 /\ Cost("launch")
                      /\ pane' \in {pane, Launched(pane)} /\ Retry
    /\ Quiet

\* checkProcessRestart and the choice between a first dispatch and /clear.
CheckProcessRestart ==
    /\ pc = "restart"
    /\ IF Restarted
         THEN \E o \in ResetClearReady :
                /\ Apply(o)
                /\ IF o.err THEN Retry
                     ELSE st' = st /\ pc' = "wait"
                          /\ job' = [job EXCEPT !.how = IF o.v.ready THEN "clear" ELSE "first"]
         ELSE /\ tv' = tv /\ Free /\ st' = st /\ pc' = "wait"
              /\ job' = [job EXCEPT !.how = IF tv.ready THEN "clear" ELSE "first"]
    /\ Quiet /\ UNCHANGED pane

\* waitReady proceeds without a prompt; a first dispatch then pastes at once,
\* without busy detection.
WaitReady ==
    /\ pc \in {"wait", "nudge_wait"}
    /\ Goto(CASE job.how = "nudge" -> "busy" [] job.how = "first" -> "send"
              [] OTHER -> "clear")
    /\ Quiet /\ UNCHANGED <<pane, tv, st, faults>>

\* What the clearConfirmationPoller can see of a /clear: an idle agent with
\* an empty input box takes it.
ClearTaken == pane.agent = "up" /\ ~pane.busy /\ pane.box = <<>>

\* handleClearFailure
HandleClearFailure(cost) ==
    /\ \E o \in ResetClearReady :
         /\ tv' = o.v
         /\ faults' = faults + o.cost + cost /\ faults' <= MaxFaults
    /\ Retry

\* clearAndConfirm: /clear empties the conversation of an idle agent; text
\* left in the input box turns it into a message.  Unconfirmed, it may have
\* been lost or only seen too late; handleClearFailure resets clear_ready.
ClearAndConfirm ==
    /\ pc = "clear"
    /\ LET cleared == [pane EXCEPT !.conv = <<>>]
       IN \/ /\ ClearTaken /\ pane' = cleared
             /\ \E o \in SetUserVar([tv EXCEPT !.last = NoTask]) : Apply(o)
             /\ Goto("busy") /\ st' = st
          \/ /\ ClearTaken => "clear" \in FaultKinds
             /\ IF ClearTaken THEN pane' \in {pane, cleared}
                  ELSE pane' = IF pane.agent = "up" THEN Submitted(pane) ELSE pane
             /\ HandleClearFailure(IF ClearTaken THEN 1 ELSE 0)
    /\ Quiet

\* processBusyProbe and the activity probe of detectBusy read the screen and
\* the CPU clock: a screen that redraws looks busy, an agent that waits for
\* I/O in silence looks idle.
ProcessBusyProbe == {"idle", "busy"}
\* detectBusy: a pane at the shell is idle.
DetectBusy == IF pane.agent = "shell" THEN {"idle"} ELSE ProcessBusyProbe
\* softRetryUndecided: captures that keep failing are promoted to idle.
SoftRetryUndecided == IF faults < MaxFaults /\ "probe" \in FaultKinds THEN {"idle"} ELSE {}

DetectBusyWithRetry ==
    /\ pc = "busy"
    /\ \/ \E v \in DetectBusy :
            /\ Free
            /\ IF v = "busy" THEN Retry
                 ELSE Goto(IF job.how = "nudge" THEN "recheck" ELSE "send") /\ st' = st
       \/ /\ SoftRetryUndecided # {} /\ faults' = faults + 1
          /\ Goto(IF job.how = "nudge" THEN "recheck" ELSE "send") /\ st' = st
    /\ Quiet /\ UNCHANGED <<pane, tv>>

\* The second canResumeInPlace, right before the nudge is pasted.
ResumeRecheck ==
    /\ pc = "recheck"
    /\ IF CanResumeInPlace(job.task)
         THEN Goto("send") /\ tv' = tv /\ Free /\ st' = st
         ELSE /\ IF Restarted THEN \E o \in ResetClearReady : Apply(o) ELSE tv' = tv /\ Free
              /\ Retry
    /\ Quiet /\ UNCHANGED pane

\* sendAndConfirm up to the paste: the shell guard, then SendTextAndSubmit's
\* paste-buffer.
SendText ==
    /\ pc = "send"
    /\ IF pane.agent = "shell"
         THEN Retry /\ pane' = pane /\ pasted' = pasted
         ELSE /\ pane' = [pane EXCEPT !.box = Append(@, job.task)]
              /\ pasted' = [task |-> job.task, how |-> job.how, cwd |-> pane.cwd,
                            main |-> tv.main, conv |-> pane.conv \o pane.box]
              /\ Goto("enter") /\ st' = st
    /\ UNCHANGED <<tv, dirs, resume, starts, faults>>

\* The Enter of SendTextAndSubmit is taken, lost, or fails after the paste.
SendEnter ==
    /\ pc = "enter"
    /\ \/ pane' = Submitted(pane) /\ Goto("confirm") /\ Free /\ st' = st
       \/ Cost("enter") /\ pane' = pane /\ Goto("confirm") /\ st' = st
       \/ Cost("ctx") /\ pane' = pane /\ Retry
    /\ Quiet /\ tv' = tv

\* confirmSubmittedOrRetry: a placeholder still at the prompt gets another
\* Enter; otherwise the paste is confirmed, stays uncertain, or shows an API
\* error.  The caller's context may end at any probe.
ConfirmSubmitted ==
    /\ pc = "confirm"
    /\ \/ /\ pane.box # <<>> /\ pane.agent = "up"
          /\ pane' = Submitted(pane) /\ Goto("confirm") /\ Free /\ st' = st
       \/ /\ pane.box = <<>> /\ pane.agent = "up"
          /\ pane' = pane /\ pc' = "stamped" /\ job' = job
          /\ Free /\ st' = st
       \/ /\ pane.agent = "shell" \/ Cost("probe")
          /\ pane.agent = "shell" => Free
          /\ pane' = pane /\ Deliver
       \/ /\ pane.box = <<>> /\ Cost("api")
          /\ pane' = [pane EXCEPT !.busy = FALSE] /\ pc' = "idle" /\ job' = NoJob
          /\ st' = [st EXCEPT ![job.task] = IF @ = "dispatching" THEN "pending" ELSE @]
       \/ Cost("ctx") /\ pane' = pane /\ Retry
    /\ Quiet /\ tv' = tv

\* After a confirmed full delivery: a first dispatch sets clear_ready, both
\* record the task; a nudge records nothing.
StampLastTaskID ==
    /\ pc = "stamped"
    /\ IF job.how = "nudge" THEN tv' = tv /\ Free
         ELSE \E o \in IF job.how = "first" THEN SetClearReady(tv)
                       ELSE {[v |-> tv, cost |-> 0]} :
                \/ tv' = [o.v EXCEPT !.last = job.task] /\ faults' = faults + o.cost
                \/ /\ tv' = o.v /\ faults' = faults + o.cost + 1
                   /\ "setvar" \in FaultKinds /\ faults' <= MaxFaults
    /\ Deliver
    /\ Quiet /\ UNCHANGED pane

-----------------------------------------------------------------------------
Init ==
    /\ pane = [agent |-> "up", cwd |-> Root, busy |-> FALSE, conv |-> <<>>, box |-> <<>>]
    /\ tv = [ready |-> FALSE, readyPid |-> "none", last |-> NoTask, cwd |-> NoDir, main |-> FALSE]
    /\ dirs = {Root} /\ st = [t \in Tasks |-> "pending"] /\ resume = {}
    /\ job = NoJob /\ pc = "idle" /\ pasted = NoPaste /\ starts = 0 /\ faults = 0

Executor ==
    \/ ResumePreflight \/ EnsureWorkingDir \/ ResetBeforeLaunch \/ DirLost \/ Launch
    \/ TrackWorkingDir \/ StampRunOnMainVar \/ EnsureClaudeRunning
    \/ CheckProcessRestart \/ WaitReady \/ ClearAndConfirm \/ DetectBusyWithRetry
    \/ ResumeRecheck \/ SendText \/ SendEnter \/ ConfirmSubmitted \/ StampLastTaskID

Next ==
    \/ \E t \in Tasks : DispatchTask(t) \/ Interrupt(t)
    \/ \E t \in Tasks, n \in BOOLEAN : Released(t, n)
    \/ \E d \in Dirs : Cleanup(d)
    \/ AgentStops \/ AgentWakes \/ AgentCrashes \/ AgentFinishes
    \/ Executor \/ PaneNotFound \/ ProbeFails

Spec == Init /\ [][Next]_vars
FairSpec == Spec /\ WF_vars(Executor)

-----------------------------------------------------------------------------
\* A continuation nudge reaches the conversation it continues: the envelope
\* the pane was given last is the nudged task's, whatever crashed, was
\* evicted or ran in between (canResumeInPlace, stampLastTaskID,
\* clearAndConfirm: "can never land in a pane that has since been re-used").
NudgeKeepsConversation ==
    pasted.how = "nudge" =>
        pasted.conv # <<>> /\ pasted.conv[Len(pasted.conv)] = pasted.task

\* While an agent remembers the envelope of a RunOnMain task, the read-only
\* guard of the main checkout is up (stampRunOnMainVar comes after the pane
\* has left the old directory, and before anything is pasted).
GuardCoversAgent ==
    pane.agent = "up" /\ Held(pane.conv) \cap Mains # {} => tv.main

\* An envelope is pasted only into an agent that runs in the task's own
\* directory (ensureWorkingDir, markCWDUnknownOnError, respawnToProjectRoot).
InRightDir == pasted.task # NoTask => pasted.cwd = DirOf[pasted.task]

\* What is pasted meets the conversation and the directory it was meant for.
PastedWhereMeant == NudgeKeepsConversation /\ InRightDir

\* A full envelope opens a conversation: execFirstDispatch relies on
\* "!clear_ready means no prior task has been delivered to this pane".
FirstDispatchIsFresh == pasted.how = "first" => pasted.conv = <<>>

\* Every delivery ends, after at most the inline retries.
DeliveryEnds == pc # "idle" ~> pc = "idle"

=============================================================================
