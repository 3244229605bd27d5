---------------------------- MODULE DaemonLifecycle ----------------------------
(***************************************************************************)
(* The daemon as an operating-system process and the commands that start   *)
(* and stop it: maestro daemon (internal/daemon daemon.go, daemon_startup, *)
(* daemon_shutdown), its socket server (internal/uds), the flock on        *)
(* locks/daemon.lock (internal/lock), and maestro up and down              *)
(* (internal/formation).  A process is named by its pid; what the          *)
(* processes share are files: the lock and the pid written into it,        *)
(* daemon.pid, the socket's path, the tmux session, and the command queue. *)
(***************************************************************************)
EXTENDS Naturals, FiniteSets

CONSTANTS
    Pids,        \* the daemons that may be spawned, naturals from 1
    Ops,         \* the terminals in which up and down are typed
    Commands,    \* the commands a client may submit
    MaxCalls,    \* bound: how many times up or down is typed
    Overlap,     \* whether two of them may run at a time
    DaemonFaults,     \* what may go wrong, see Fault
    MaxDaemonFaults   \* bound on the faults of a behaviour

None == 0

\* Daemons and terminals are different processes, and none is process 0.
Naming ==
    /\ Pids \subseteq Nat \ {None} /\ Ops \cap (Pids \cup {None}) = {}
    /\ MaxCalls \in Nat /\ MaxDaemonFaults \in Nat /\ Overlap \in BOOLEAN
ASSUME LifecycleAssumption == Naming

VARIABLES
    lock,      \* who holds the flock: a daemon, a terminal or None
    lockPid,   \* the pid last written into daemon.lock
    pidFile,   \* the pid in daemon.pid, None without the file
    socket,    \* the daemon whose listener daemon.sock leads to, None without the file
    session,   \* whether the tmux session exists
    daemon,    \* pid -> [pc, live, armed, hung, verifying, conns]
    op,        \* terminal -> [cmd, pc, ret, pid, same]
    calls,     \* how many commands were typed
    queued, archived, acked,  \* commands: in queue/, in lost_commands/, confirmed to the client
    reused,    \* pids of dead daemons that now name an unrelated process
    victims,   \* those of them that were signalled
    daemonFaults

files == <<lock, lockPid, pidFile, socket, session>>
data == <<queued, archived, acked>>
lifecycleVars == <<files, daemon, op, calls, data, reused, victims, daemonFaults>>

Idle == [cmd |-> "none", pc |-> "idle", ret |-> "none", pid |-> None, same |-> TRUE]
Unborn == [pc |-> "unborn", live |-> FALSE, armed |-> FALSE, hung |-> FALSE,
           verifying |-> FALSE, conns |-> {}]

Stages == {"unborn", "new", "failed", "locked", "prepared", "serving", "ready", "draining",
           "closed", "cancelled", "drained", "forced", "released", "gone"}
Steps == {"idle", "guard", "stop", "poll", "term", "killing", "lockwait", "lockheld", "sweep",
          "archived", "recover", "tidy", "form", "spawn", "wait", "down", "await", "stale",
          "unlink", "endsession"}

Returns == {"none", "reset", "abort", "cleanup", "down", "keep"}
DaemonState == [pc : Stages, live : BOOLEAN, armed : BOOLEAN, hung : BOOLEAN,
                verifying : BOOLEAN, conns : SUBSET Commands]
CommandState == [cmd : {"none", "up", "force", "down"}, pc : Steps,
                 ret : Returns,
                 pid : Pids \cup {None}, same : BOOLEAN]

TypeOK ==
    /\ lock \in Pids \cup Ops \cup {None} /\ lockPid \in Pids \cup Ops \cup {None}
    /\ pidFile \in Pids \cup {None} /\ socket \in Pids \cup {None} /\ session \in BOOLEAN
    /\ daemon \in [Pids -> DaemonState] /\ op \in [Ops -> CommandState]
    /\ calls \in 0 .. MaxCalls /\ daemonFaults \in 0 .. MaxDaemonFaults
    /\ queued \subseteq Commands /\ archived \subseteq Commands /\ acked \subseteq Commands
    /\ reused \subseteq Pids /\ victims \subseteq reused

LifecycleInit ==
    /\ lock = None /\ lockPid = None /\ pidFile = None /\ socket = None /\ session = FALSE
    /\ daemon = [p \in Pids |-> Unborn] /\ op = [o \in Ops |-> Idle] /\ calls = 0
    /\ queued = {} /\ archived = {} /\ acked = {} /\ reused = {} /\ victims = {} /\ daemonFaults = 0

Fault(k) == k \in DaemonFaults /\ daemonFaults < MaxDaemonFaults /\ daemonFaults' = daemonFaults + 1
NoFault == UNCHANGED daemonFaults

Exists(p) == daemon[p].pc \notin {"unborn", "gone"}
GoesTo(p, stage) == daemon' = [daemon EXCEPT ![p].pc = stage]

\* A process that ends: the kernel gives up its flock and its connections;
\* the files stay (docs 07-error-handling: the lock is freed with the process).
Gone(p) == [daemon EXCEPT ![p] = [Unborn EXCEPT !.pc = "gone"]]
FreedBy(p) == IF lock = p THEN None ELSE lock
Dies(p) == daemon' = Gone(p) /\ lock' = FreedBy(p) /\ UNCHANGED <<lockPid, pidFile, socket, session>>

------------------------------------------------------------------------------
(* The daemon starts: prepareStartup, initComponents, startRuntime, Run.    *)

\* fileLock.TryLock: the flock, then this process's pid into the file.
AcquireLock(p) ==
    /\ daemon[p].pc = "new" /\ NoFault
    /\ \/ lock = None /\ lock' = p /\ lockPid' = p /\ GoesTo(p, "locked")
       \/ lock # None /\ GoesTo(p, "failed") /\ UNCHANGED <<lock, lockPid>>
    /\ UNCHANGED <<pidFile, socket, session>>

\* daemon.pid is written under the lock; a failure gives the lock back.
WritePid(p) ==
    /\ daemon[p].pc = "locked"
    /\ \/ pidFile' = p /\ GoesTo(p, "prepared") /\ NoFault /\ UNCHANGED lock
       \/ Fault("pid_file") /\ lock' = None /\ GoesTo(p, "failed") /\ UNCHANGED pidFile
    /\ UNCHANGED <<lockPid, socket, session>>

\* The rest of prepareStartup, initComponents and Server.Start: whatever is at
\* the socket's path is replaced by this daemon's listener; the loops run.
\* A failure on the way returns from Run, whose deferred Shutdown follows.
StartRuntime(p) ==
    /\ daemon[p].pc = "prepared"
    /\ \/ socket' = p /\ NoFault /\ daemon' = [daemon EXCEPT ![p] = [@ EXCEPT !.pc = "serving", !.live = TRUE]]
       \/ Fault("startup") /\ GoesTo(p, "failed") /\ UNCHANGED socket
    /\ UNCHANGED <<lock, lockPid, pidFile, session>>

\* The first scan is over and waitSignals listens.
BecomeReady(p) == daemon[p].pc = "serving" /\ GoesTo(p, "ready") /\ NoFault /\ UNCHANGED files

(* A request of a client: accepted while the listener is open and the path  *)
(* leads to it, written and answered as long as the process is there.       *)
Listening(p) == daemon[p].pc \in {"serving", "ready", "draining"}
Reachable == {p \in Pids : socket = p /\ Listening(p)}

AcceptRequest(p, c) ==
    /\ p \in Reachable /\ c \notin acked /\ \A q \in Pids : c \notin daemon[q].conns
    /\ daemon' = [daemon EXCEPT ![p].conns = @ \cup {c}] /\ UNCHANGED <<files, data>> /\ NoFault
AnswerRequest(p, c) ==
    /\ c \in daemon[p].conns
    /\ daemon' = [daemon EXCEPT ![p].conns = @ \ {c}]
    /\ queued' = queued \cup {c} /\ acked' = acked \cup {c} /\ UNCHANGED <<files, archived>> /\ NoFault

\* A verification goroutine, tracked by the errgroup, ends well and hands its
\* task to the advisory reviewer: on a closed results channel the send panics
\* in a goroutine nobody recovers.
VerificationEnds(p) ==
    /\ daemon[p].verifying /\ NoFault
    /\ IF daemon[p].pc \in {"closed", "cancelled"}
       THEN Dies(p)
       ELSE daemon' = [daemon EXCEPT ![p].verifying = FALSE] /\ UNCHANGED files
------------------------------------------------------------------------------
(* Shutdown, once per process, in its order.                                *)

\* The flag under egMu, the ticker and the handler: no new work is spawned.
BeginShutdown(p) ==
    /\ daemon[p].pc = "failed" /\ GoesTo(p, "draining") /\ NoFault /\ UNCHANGED files

\* A defect: the server's stop gives up lock and pid file as well.
StopAndRelease(p) ==
    /\ daemon[p].pc = "draining" /\ (daemon[p].conns = {} \/ daemon[p].hung) /\ NoFault
    /\ socket' = None /\ pidFile' = None /\ lock' = FreedBy(p) /\ GoesTo(p, "closed")
    /\ UNCHANGED <<lockPid, session>>
\* Server.Stop: no more connections, the ones there are finish (ten seconds),
\* and the path is unlinked; then the bus, the gates and the reviewer close.
ServerStop(p) ==
    /\ daemon[p].pc = "draining" /\ (daemon[p].conns = {} \/ daemon[p].hung) /\ NoFault
    /\ socket' = None /\ GoesTo(p, "closed") /\ UNCHANGED <<lock, lockPid, pidFile, session>>

\* The context is cancelled: waitSignals stops listening.
CancelContext(p) == daemon[p].pc = "closed" /\ GoesTo(p, "cancelled") /\ NoFault /\ UNCHANGED files

\* eg.Wait: every goroutine returned, or the time is up and a hard exit is set.
DrainGoroutines(p) ==
    /\ daemon[p].pc = "cancelled" /\ NoFault /\ UNCHANGED files
    /\ ~daemon[p].verifying
    /\ daemon' = [daemon EXCEPT ![p] = [@ EXCEPT !.pc = "drained", !.live = daemon[p].hung]]

\* CleanupAll of the worktrees, closeExecutors and cleanup: socket and pid
\* file go while the lock is held, then the lock.
CleanupFiles(p) ==
    /\ daemon[p].pc \in {"drained", "forced"} /\ GoesTo(p, "released") /\ NoFault
    /\ IF lock = p
       THEN socket' = None /\ pidFile' = None /\ lock' = None
       ELSE UNCHANGED <<socket, pidFile, lock>>
    /\ UNCHANGED <<lockPid, session>>

Exit(p) == daemon[p].pc = "released" /\ Dies(p) /\ NoFault

DaemonStep(p) ==
    \/ AcquireLock(p) \/ WritePid(p) \/ StartRuntime(p) \/ BecomeReady(p) \/ BeginShutdown(p)
    \/ ServerStop(p) \/ CancelContext(p) \/ DrainGoroutines(p) \/ CleanupFiles(p) \/ Exit(p)
    \/ VerificationEnds(p)
DaemonNext(p) ==
    /\ (DaemonStep(p) /\ UNCHANGED data)
          \/ \E c \in Commands : AcceptRequest(p, c) \/ AnswerRequest(p, c)
    /\ UNCHANGED <<op, calls, reused, victims>>
------------------------------------------------------------------------------
(* What the commands do to a daemon.                                        *)

\* The shutdown request, answered before Shutdown begins.
Asked(p) == [daemon EXCEPT ![p].pc = IF @ \in {"serving", "ready"} THEN "draining" ELSE @]

\* SIGTERM: before waitSignals it ends the process; there the first one begins
\* a graceful shutdown, a second one forces the exit; a shutdown that was asked
\* for on the socket leaves waitSignals deaf once the context is cancelled.
Terminated(p) ==
    LET d == daemon[p] IN
    CASE d.pc \in {"new", "locked", "prepared", "serving", "failed"}
            \/ (~d.live /\ d.pc \in {"draining", "closed", "cancelled"}) -> Gone(p)
      [] d.pc = "ready" -> [daemon EXCEPT ![p] = [@ EXCEPT !.pc = "draining", !.armed = TRUE]]
      [] d.pc \in {"draining", "closed"} /\ ~d.armed -> [daemon EXCEPT ![p].armed = TRUE]
      [] d.pc \in {"draining", "closed", "cancelled", "drained"} /\ d.armed ->
            [daemon EXCEPT ![p].pc = "forced"]
      [] OTHER -> daemon

Alive(p) == p # None /\ (Exists(p) \/ p \in reused)
ValidPid == IF pidFile # None /\ lockPid = pidFile THEN pidFile ELSE None
\* validateDaemonPID drops a pid file that does not match the lock's.
PidFileChecked == ValidPid

AtStep(o, step) == op[o].pc = step
To(o, step) == op' = [op EXCEPT ![o].pc = step]
ToFor(o, step, ret) == op' = [op EXCEPT ![o] = [@ EXCEPT !.pc = step, !.ret = ret]]
\* The process a command goes on to look at, with its identity (origStartTime).
LooksAt(o, p, step) ==
    op' = [op EXCEPT ![o] = [@ EXCEPT !.pid = p, !.same = p \notin reused, !.pc = step]]
Ends(o) == op' = [op EXCEPT ![o] = Idle]

Signalled(o, state) ==
    IF op[o].pid \in reused
    THEN victims' = victims \cup {op[o].pid} /\ UNCHANGED <<daemon, lock>>
    ELSE /\ daemon' = state /\ UNCHANGED victims
         /\ lock' = IF state[op[o].pid].pc = "gone" THEN FreedBy(op[o].pid) ELSE lock

\* daemonIdentityChecker: the same pid on file, the same start time.
SameProcess(o) == PidFileChecked = op[o].pid /\ op[o].same = (op[o].pid \notin reused)
------------------------------------------------------------------------------
(* stopDaemon, shared by up's reset and its ways out; where it returns to is *)
(* op.ret.                                                                   *)

Stopped(o) ==
    op' = [op EXCEPT ![o] = [@ EXCEPT !.pid = None, !.pc =
              CASE op[o].ret = "reset" -> "sweep"
                [] op[o].ret = "down" -> "unlink"
                [] OTHER -> "endsession"]]
\* An error: up's reset fails and the CLI cleans up; the other callers go on.
StopFails(o) ==
    IF op[o].ret = "reset"
    THEN op' = [op EXCEPT ![o] = [@ EXCEPT !.pc = "stop", !.ret = "cleanup", !.pid = None]]
    ELSE Stopped(o)

\* Neither socket nor pid file: nothing to stop.  Otherwise the request, and
\* the pid that both files name.
StopRequest(o) ==
    /\ AtStep(o, "stop")
    /\ IF socket = None /\ pidFile = None
       THEN Stopped(o) /\ UNCHANGED <<daemon, pidFile>>
       ELSE /\ daemon' = IF socket \in Reachable THEN Asked(socket) ELSE daemon
            /\ pidFile' = PidFileChecked
            /\ LooksAt(o, ValidPid, IF ValidPid = None THEN "lockwait" ELSE "poll")
    /\ UNCHANGED <<lock, lockPid, socket, session, victims>>

\* Two defects: the request's answer is taken for the exit; no deadline.
PollNot(o) ==
    /\ AtStep(o, "poll") /\ UNCHANGED <<lock, lockPid, socket, session, daemon, victims>>
    /\ pidFile' = None /\ Stopped(o)
PollForever(o) ==
    /\ AtStep(o, "poll") /\ UNCHANGED <<lock, lockPid, socket, session, daemon, victims>>
    /\ ~Alive(op[o].pid) /\ pidFile' = None /\ Stopped(o)
\* The process is polled for ten seconds; then it is terminated.
PollExit(o) ==
    /\ AtStep(o, "poll") /\ UNCHANGED <<lock, lockPid, socket, session, daemon, victims>>
    /\ \/ ~Alive(op[o].pid) /\ pidFile' = None /\ Stopped(o)
       \/ Alive(op[o].pid) /\ To(o, "term") /\ UNCHANGED pidFile

\* terminateProcess, up to SIGTERM.
Terminate(o) ==
    /\ AtStep(o, "term") /\ UNCHANGED <<lockPid, socket, session>>
    /\ CASE ~Alive(op[o].pid) -> pidFile' = None /\ Stopped(o) /\ UNCHANGED <<lock, daemon, victims>>
         [] Alive(op[o].pid) /\ ~SameProcess(o) ->
               pidFile' = PidFileChecked /\ Stopped(o) /\ UNCHANGED <<lock, daemon, victims>>
         [] OTHER -> Signalled(o, Terminated(op[o].pid)) /\ To(o, "killing") /\ UNCHANGED pidFile

\* terminateProcess, after SIGTERM: the exit, or SIGKILL five seconds later.
Kill(o) ==
    /\ AtStep(o, "killing") /\ UNCHANGED <<lockPid, socket, session>>
    /\ CASE ~Alive(op[o].pid) -> pidFile' = None /\ Stopped(o) /\ UNCHANGED <<lock, daemon, victims>>
         [] Alive(op[o].pid) /\ ~SameProcess(o) ->
               pidFile' = PidFileChecked /\ Stopped(o) /\ UNCHANGED <<lock, daemon, victims>>
         [] OTHER -> Signalled(o, Gone(op[o].pid)) /\ pidFile' = None /\ Stopped(o)

\* No valid pid: the lock tells whether a daemon is there; under it the stale
\* files go.
WaitLock(o) ==
    /\ AtStep(o, "lockwait") /\ UNCHANGED <<socket, session, daemon, victims>>
    /\ \/ lock = None /\ lock' = o /\ lockPid' = o /\ To(o, "lockheld") /\ UNCHANGED pidFile
       \/ lock # None /\ pidFile' = None /\ StopFails(o) /\ UNCHANGED <<lock, lockPid>>
CleanWithLock(o) ==
    /\ AtStep(o, "lockheld") /\ pidFile' = None /\ socket' = None /\ lock' = None /\ Stopped(o)
    /\ UNCHANGED <<lockPid, session, daemon, victims>>

StopDaemon(o) ==
    /\ StopRequest(o) \/ PollExit(o) \/ Terminate(o) \/ Kill(o) \/ WaitLock(o) \/ CleanWithLock(o)
    /\ UNCHANGED data
------------------------------------------------------------------------------
(* maestro up: RunUp, and CleanupOnFailure when it fails.                   *)

Fails(o) == ToFor(o, "stop", "cleanup")

Guard(o) ==
    /\ AtStep(o, "guard") /\ UNCHANGED <<files, daemon, data, victims>>
    /\ IF session /\ op[o].cmd = "up" THEN Ends(o)
       ELSE ToFor(o, "stop", "reset")

\* resetFormation: the session goes, what is unfinished is archived, the
\* queues are emptied.
ArchiveCommands(o) ==
    /\ AtStep(o, "sweep") /\ session' = FALSE /\ archived' = archived \cup queued /\ To(o, "archived")
    /\ UNCHANGED <<lock, lockPid, pidFile, socket, daemon, queued, acked, victims>>
ClearQueues(o) ==
    /\ AtStep(o, "archived") /\ queued' = {} /\ To(o, "recover")
    /\ UNCHANGED <<files, daemon, archived, acked, victims>>

\* startupRecovery: the lock must be free; under it the stale files go.
CheckLock(o) ==
    /\ AtStep(o, "recover") /\ UNCHANGED <<pidFile, socket, session, daemon, data, victims>>
    /\ \/ lock = None /\ lock' = o /\ lockPid' = o /\ To(o, "tidy")
       \/ lock # None /\ Fails(o) /\ UNCHANGED <<lock, lockPid>>
\* A defect: the lock is not given back before the daemon is spawned.
TidyAndKeep(o) ==
    /\ AtStep(o, "tidy") /\ pidFile' = None /\ socket' = None /\ To(o, "form")
    /\ UNCHANGED <<lock, lockPid, session, daemon, data, victims>>
TidyUnderLock(o) ==
    /\ AtStep(o, "tidy") /\ pidFile' = None /\ socket' = None /\ lock' = None /\ To(o, "form")
    /\ UNCHANGED <<lockPid, session, daemon, data, victims>>

CreateFormation(o) ==
    /\ AtStep(o, "form") /\ session' = TRUE /\ To(o, "spawn")
    /\ UNCHANGED <<lock, lockPid, pidFile, socket, daemon, data, victims>>

NextPid == {p \in Pids : daemon[p].pc = "unborn" /\ \A q \in Pids : q < p => daemon[q].pc # "unborn"}
StartDaemon(o) ==
    /\ AtStep(o, "spawn") /\ UNCHANGED <<files, data, victims>>
    /\ \E p \in NextPid : daemon' = [daemon EXCEPT ![p].pc = "new"]
                             /\ op' = [op EXCEPT ![o] = [@ EXCEPT !.pc = "wait", !.pid = p]]

\* A defect: success as soon as the process is spawned.
ReadyAtOnce(o) ==
    /\ AtStep(o, "wait") /\ Ends(o) /\ UNCHANGED <<files, daemon, data, victims>>
\* waitDaemonReady: any daemon that answers will do; after ten seconds the
\* daemon is stopped and the session killed.
WaitDaemonReady(o) ==
    /\ AtStep(o, "wait") /\ socket \in Reachable /\ Ends(o)
    /\ UNCHANGED <<files, daemon, data, victims>>
ReadyTimesOut(o) ==
    /\ AtStep(o, "wait") /\ socket \notin Reachable
    /\ Exists(op[o].pid) /\ ~daemon[op[o].pid].live => "slow_start" \in DaemonFaults
    /\ op' = [op EXCEPT ![o] = [@ EXCEPT !.pc = "stop", !.ret = "abort", !.pid = None]]
    /\ UNCHANGED <<files, daemon, data, victims>>

\* The session is killed; a failed up comes here twice, from RunUp and from
\* CleanupOnFailure, and then is over, as down is.
EndSession(o) ==
    /\ AtStep(o, "endsession") /\ session' = FALSE
    /\ IF op[o].ret = "abort" THEN Fails(o) ELSE Ends(o)
    /\ UNCHANGED <<lock, lockPid, pidFile, socket, daemon, data, victims>>

Up(o) ==
    \/ Guard(o) \/ ArchiveCommands(o) \/ ClearQueues(o) \/ CheckLock(o) \/ TidyUnderLock(o)
    \/ CreateFormation(o) \/ StartDaemon(o) \/ WaitDaemonReady(o) \/ ReadyTimesOut(o)
------------------------------------------------------------------------------
(* maestro down: RunDown, cleanupStalePID.                                  *)

DownRequest(o) ==
    /\ AtStep(o, "down") /\ UNCHANGED <<files, data, victims>>
    /\ IF socket \in Reachable
       THEN daemon' = Asked(socket) /\ To(o, "await")
       ELSE UNCHANGED daemon /\ ToFor(o, "stale", IF socket = None THEN "keep" ELSE "down")

\* The end of the daemon is read off the socket's path; when the time is up
\* the process is terminated.
AwaitSocket(o) ==
    /\ AtStep(o, "await") /\ UNCHANGED <<lock, lockPid, socket, session, daemon, data, victims>>
    /\ IF socket = None
       THEN To(o, "endsession") /\ UNCHANGED pidFile
       ELSE /\ pidFile' = PidFileChecked
            /\ op' = [op EXCEPT ![o] = [@ EXCEPT !.ret = "down", !.pid = ValidPid,
                          !.same = ValidPid \notin reused,
                          !.pc = IF ValidPid = None THEN "unlink" ELSE "term"]]

CleanupStalePid(o) ==
    /\ AtStep(o, "stale") /\ UNCHANGED <<lock, lockPid, socket, session, daemon, data, victims>>
    /\ IF Alive(ValidPid)
       THEN /\ LooksAt(o, ValidPid, "term")
            /\ UNCHANGED pidFile
       ELSE pidFile' = None /\ Stopped(o)

UnlinkSocket(o) ==
    /\ AtStep(o, "unlink") /\ socket' = None /\ To(o, "endsession")
    /\ UNCHANGED <<lock, lockPid, pidFile, session, daemon, data, victims>>

Down(o) == DownRequest(o) \/ AwaitSocket(o) \/ CleanupStalePid(o) \/ UnlinkSocket(o)
------------------------------------------------------------------------------
Type(o, cmd) ==
    /\ AtStep(o, "idle") /\ calls < MaxCalls /\ calls' = calls + 1
    /\ Overlap \/ \A q \in Ops : AtStep(q, "idle")
    /\ op' = [op EXCEPT ![o] = [Idle EXCEPT !.cmd = cmd, !.pc = IF cmd = "down" THEN cmd ELSE "guard"]]
    /\ UNCHANGED <<files, daemon, data, victims>>

OpStep(o) == StopDaemon(o) \/ Up(o) \/ Down(o) \/ EndSession(o)
OpNext(o) ==
    /\ \/ OpStep(o) /\ UNCHANGED calls
       \/ \E cmd \in {"up", "force", "down"} : Type(o, cmd)
    /\ NoFault /\ UNCHANGED reused

\* createFormation fails and rolls back.
FormationFails(o) ==
    /\ AtStep(o, "form") /\ session' = FALSE /\ Fails(o)
    /\ UNCHANGED <<lock, lockPid, pidFile, socket, daemon, reused>>

(* What goes wrong: tmux refuses the session; a command is interrupted (not while it waits for a       *)
(* daemon to start or to end: the next command would meet one that has no    *)
(* files yet, or force its exit); the daemon's process is lost; a goroutine or a handler does not return when it should; a          *)
(* verification is under way; maestro daemon is typed by hand; the pid of a  *)
(* dead daemon is given to another process while a command looks at it.      *)
Mishap ==
    /\ UNCHANGED <<calls, data, victims>>
    /\ \/ /\ Fault("interrupt") /\ UNCHANGED <<lockPid, pidFile, socket, session, daemon, reused>>
          /\ \E o \in Ops : op[o].pc \notin {"idle", "wait", "poll", "term", "killing"} /\ Ends(o) /\ lock' = FreedBy(o)
       \/ Fault("formation") /\ \E o \in Ops : FormationFails(o)
       \/ UNCHANGED op /\ \E p \in Pids :
         \/ Fault("crash") /\ Exists(p) /\ Dies(p) /\ UNCHANGED reused
         \/ /\ Fault("hang") /\ daemon[p].pc = "ready" /\ daemon' = [daemon EXCEPT ![p].hung = TRUE]
            /\ UNCHANGED <<files, reused>>
         \/ /\ Fault("verification") /\ daemon[p].pc = "ready"
            /\ daemon' = [daemon EXCEPT ![p].verifying = TRUE] /\ UNCHANGED <<files, reused>>
         \/ Fault("manual_daemon") /\ p \in NextPid /\ GoesTo(p, "new") /\ UNCHANGED <<files, reused>>
         \/ /\ Fault("late_reuse")
            /\ \E o \in Ops : op[o].pid = p /\ op[o].pc \in {"poll", "term", "killing"}
            /\ daemon[p].pc = "gone" /\ p \notin reused /\ reused' = reused \cup {p}
            /\ UNCHANGED <<files, daemon>>

LifecycleNext == (\E p \in Pids : DaemonNext(p)) \/ (\E o \in Ops : OpNext(o)) \/ Mishap

LifecycleSpec ==
    /\ LifecycleInit /\ [][LifecycleNext]_lifecycleVars
    /\ \A p \in Pids : WF_lifecycleVars(DaemonStep(p) /\ UNCHANGED <<data, op, calls, reused, victims>>)
                       /\ WF_lifecycleVars(\E c \in Commands : AnswerRequest(p, c) /\ UNCHANGED <<op, calls, reused, victims>>)
    /\ \A o \in Ops : WF_lifecycleVars(OpStep(o) /\ NoFault /\ UNCHANGED <<calls, reused>>)
------------------------------------------------------------------------------
(* What should hold.                                                        *)

\* At most one daemon has goroutines or handlers that may write the files
\* (the single-instance guarantee of daemon.lock).
Works(p) == daemon[p].live \/ daemon[p].conns # {}
OneWriter == \A p, q \in Pids : Works(p) /\ Works(q) => p = q

\* What a client was told is queued is in the queue or, after a reset, in the
\* archive of lost commands (resetFormation).
AcceptedIsKept == acked \subseteq queued \cup archived

\* Both, as one run checks them.
OneDaemonKeepsData == OneWriter /\ AcceptedIsKept

\* No signal reaches a process that merely got a daemon's pid
\* (daemonIdentityChecker).  No run checks it: TLC refutes it with "late_reuse",
\* the first stopDaemon of a failed up leaves daemon.pid and the second one
\* trusts it again.
BystanderIsSpared == victims = {}

\* A daemon that goes on serving keeps its path: nobody else's start, failure
\* or cleanup unlinks it (cleanup, daemon_shutdown.go).
KeepsSocket ==
    [][\A p \in Pids : p \in Reachable /\ daemon'[p].pc \in {"serving", "ready"} => socket' = p]_lifecycleVars

\* up reports success only of the daemon it started, with the session there.
UpMeansUp ==
    [][\A o \in Ops : AtStep(o, "wait") /\ AtStep(o, "idle")' => session /\ socket = op[o].pid]_lifecycleVars

\* down ends the session only after the daemon (docs 05, 5.4 step 4).  No run
\* checks it: TLC refutes it without any fault, the path that down polls is
\* unlinked early in Shutdown.
DownWaits ==
    [][\A o \in Ops : AtStep(o, "endsession") /\ op[o].cmd = "down" /\ op'[o].pc = "idle"
            => \A p \in Pids : ~Works(p)]_lifecycleVars

\* Every command comes to an end.
CommandsEnd == \A o \in Ops : ~AtStep(o, "idle") ~> AtStep(o, "idle")

\* However the last daemon ended, up --force brings one up: the session and a
\* daemon that answers.
ForceRecovers ==
    \A o \in Ops : AtStep(o, "guard") /\ op[o].cmd = "force" /\ daemonFaults = MaxDaemonFaults
        ~> (session /\ Reachable # {})
=============================================================================
