---------------------------- MODULE ProcessProofs ----------------------------
(***************************************************************************)
(* Proofs about the processes: the daemon and the commands that start and  *)
(* stop it (DaemonLifecycle), and the panes it writes to (AgentDelivery,   *)
(* ConsolePane).                                                           *)
(*                                                                         *)
(* One daemon writes the project's files at a time, and what a client was  *)
(* told is queued survives restarts and resets.  For any tasks, worktrees, *)
(* senders, retries and numbers of faults, an envelope reaches the agent   *)
(* it is meant for, in the worktree its guard was set up for, and the      *)
(* console's messages arrive whole.                                        *)
(***************************************************************************)
EXTENDS DaemonLifecycle, AgentDelivery, ConsolePane, TLAPS

-----------------------------------------------------------------------------
(* The daemon: the inductive invariant of the single writer.               *)

\* One command runs at a time.
OneCommand == \A o, q \in Ops : ~AtStep(o, "idle") /\ ~AtStep(q, "idle") => o = q

\* A daemon that works holds the flock, from its start to the end of its drain;
\* its path and its connections are those of a daemon that works.
DaemonSound(p) ==
    /\ daemon[p].pc \in {"locked", "prepared"} => lock = p
    /\ daemon[p].live => /\ lock = p
                         /\ daemon[p].pc \in {"serving", "ready", "draining", "closed", "cancelled"}
    /\ daemon[p].pc \in {"serving", "ready"} => daemon[p].live
    /\ daemon[p].conns # {} => daemon[p].live /\ Listening(p)
    /\ socket = p => /\ daemon[p].pc \notin {"unborn", "new", "failed", "locked", "prepared"}
                     /\ daemon[p].pc = "draining" => daemon[p].live
    /\ p \in reused => daemon[p].pc = "gone"
    /\ daemon[p].pc \in {"unborn", "new", "locked", "prepared"} => ~daemon[p].armed
    /\ ~daemon[p].hung

\* A terminal that tidies holds the flock, and knows which process it looks at.
CommandSound(o) ==
    /\ op[o].pc \in {"lockheld", "tidy"} => lock = o
    /\ op[o].pc \in {"poll", "term", "killing"} =>
         op[o].pid # None /\ (op[o].same \/ op[o].pid \in reused)

\* A working daemon that got SIGTERM and is still the one on file is about to
\* be killed by the command that sent it: nobody sends a second SIGTERM.
SignalledOnce(p) ==
    daemon[p].live /\ daemon[p].armed /\ pidFile = p /\ lockPid = p
        => \E o \in Ops : AtStep(o, "killing") /\ op[o].pid = p

WriterInv ==
    /\ TypeOK /\ OneCommand
    /\ \A p \in Pids : DaemonSound(p) /\ SignalledOnce(p)
    /\ \A o \in Ops : CommandSound(o)

-----------------------------------------------------------------------------
(* The daemon: the inductive invariant of the queued commands.             *)

\* A daemon that starts is awaited by the command that spawned it.
Newborn(p) == daemon[p].pc \in {"new", "locked", "prepared"}
Awaited(p) == Newborn(p) => \E o \in Ops : AtStep(o, "wait") /\ op[o].pid = p

\* The pid on file is the one of the daemon that works.
OnFile(p) ==
    /\ daemon[p].live \/ daemon[p].pc \in {"locked", "prepared"} => lockPid = p
    /\ daemon[p].live \/ daemon[p].pc = "prepared" => pidFile = p

\* A command that stops a daemon looks at the one that works; once it goes on,
\* none does, until the daemon it starts itself.
Sees(o) ==
    /\ op[o].pc \in {"poll", "term", "killing", "wait"} =>
         \A p \in Pids : daemon[p].live => p = op[o].pid
    /\ op[o].pc \in {"lockwait", "lockheld", "sweep", "archived", "recover", "tidy", "form",
                     "spawn", "unlink"} =>
         \A p \in Pids : ~daemon[p].live
    /\ op[o].pc = "archived" => queued \subseteq archived

KeepInv ==
    /\ WriterInv /\ AcceptedIsKept
    /\ \A p \in Pids : Awaited(p) /\ OnFile(p)
    /\ \A o \in Ops : Sees(o)

-----------------------------------------------------------------------------
(* The daemon: what a step does to the two tables, one row at a time.      *)

\* The step touches at most the row of terminal o, or of daemon p.
Moves(o) ==
    /\ op' \in [Ops -> CommandState]
    /\ \A q \in Ops : q # o => op'[q] = op[q]
Touches(p) ==
    /\ daemon' \in [Pids -> DaemonState]
    /\ \A q \in Pids : q # p => daemon'[q] = daemon[q]

LEMMA RowsHaveTypes ==
    ASSUME Naming
    PROVE  Idle \in CommandState /\ Unborn \in DaemonState
<1>1. TRUE \in BOOLEAN /\ FALSE \in BOOLEAN
  OBVIOUS
<1>2. Idle \in CommandState
  BY <1>1 DEF Naming, Idle, CommandState, Steps, Returns
<1>3. Unborn \in DaemonState
  BY <1>1 DEF Unborn, DaemonState, Stages
<1> QED
  BY <1>2, <1>3

\* A terminal's row is replaced.
LEMMA RowMoves ==
    ASSUME TypeOK, NEW o \in Ops, NEW c \in CommandState, op' = [op EXCEPT ![o] = c]
    PROVE  Moves(o) /\ op'[o] = c
BY DEF Moves, TypeOK

\* Only the step of the command changes.
LEMMA ToMoves ==
    ASSUME TypeOK, NEW o \in Ops, NEW s \in Steps, To(o, s)
    PROVE  Moves(o) /\ op'[o].pc = s /\ op'[o].ret = op[o].ret /\ op'[o].pid = op[o].pid
             /\ op'[o].same = op[o].same
BY DEF Moves, TypeOK, To, CommandState

\* The step and where stopDaemon returns to.
LEMMA ToForMoves ==
    ASSUME TypeOK, NEW o \in Ops, NEW s \in Steps, NEW r \in Returns, ToFor(o, s, r)
    PROVE  Moves(o) /\ op'[o].pc = s /\ op'[o].ret = r
<1> DEFINE c == [op[o] EXCEPT !.pc = s, !.ret = r]
<1>1. c \in CommandState /\ c.pc = s /\ c.ret = r
  BY DEF TypeOK, CommandState
<1>2. op' = [op EXCEPT ![o] = c]
  BY DEF ToFor
<1> HIDE DEF c
<1> QED
  BY <1>1, <1>2, RowMoves

\* The process a command looks at.
LEMMA LooksMoves ==
    ASSUME TypeOK, NEW o \in Ops, NEW i \in Pids \cup {None}, NEW s \in Steps, LooksAt(o, i, s)
    PROVE  Moves(o) /\ op'[o].pc = s /\ op'[o].ret = op[o].ret /\ op'[o].pid = i
             /\ (op'[o].same <=> i \notin reused)
<1> DEFINE b == i \notin reused
           c == [op[o] EXCEPT !.pid = i, !.same = b, !.pc = s]
<1>1. b \in BOOLEAN
  OBVIOUS
<1> HIDE DEF b
<1>2. c \in CommandState /\ c.pc = s /\ c.ret = op[o].ret /\ c.pid = i /\ c.same = b
  BY <1>1 DEF TypeOK, CommandState
<1>3. op' = [op EXCEPT ![o] = c]
  BY DEF LooksAt, b
<1> HIDE DEF c
<1>4. Moves(o) /\ op'[o] = c
  BY <1>2, <1>3, RowMoves
<1> QED
  BY <1>2, <1>4 DEF b

\* The end of a command.
LEMMA EndsMoves ==
    ASSUME Naming, TypeOK, NEW o \in Ops, Ends(o)
    PROVE  Moves(o) /\ op'[o].pc = "idle"
<1>1. Moves(o) /\ op'[o] = Idle
  BY RowsHaveTypes, RowMoves DEF Ends
<1> QED
  BY <1>1 DEF Idle

\* The end of stopDaemon.
LEMMA StoppedMoves ==
    ASSUME TypeOK, NEW o \in Ops, Stopped(o)
    PROVE  /\ Moves(o) /\ op'[o].ret = op[o].ret
           /\ op'[o].pc \in {"sweep", "unlink", "endsession"}
           /\ op'[o].pc = "sweep" <=> op[o].ret = "reset"
           /\ op'[o].pc = "unlink" <=> op[o].ret = "down"
<1> DEFINE s == CASE op[o].ret = "reset" -> "sweep"
                  [] op[o].ret = "down" -> "unlink"
                  [] OTHER -> "endsession"
           c == [op[o] EXCEPT !.pid = None, !.pc = s]
<1>1. /\ s \in {"sweep", "unlink", "endsession"} /\ s \in Steps
      /\ s = "sweep" <=> op[o].ret = "reset"
      /\ s = "unlink" <=> op[o].ret = "down"
  BY DEF Steps
<1>2. op' = [op EXCEPT ![o] = c]
  BY DEF Stopped
<1> HIDE DEF s
<1>3. c \in CommandState /\ c.pc = s /\ c.ret = op[o].ret
  BY <1>1 DEF TypeOK, CommandState, None
<1> HIDE DEF c
<1> QED
  BY <1>1, <1>2, <1>3, RowMoves

\* Only the stage of a daemon changes.
LEMMA GoesToTouches ==
    ASSUME TypeOK, NEW p \in Pids, NEW s \in Stages, GoesTo(p, s)
    PROVE  /\ Touches(p) /\ daemon'[p].pc = s
           /\ daemon'[p].live = daemon[p].live /\ daemon'[p].armed = daemon[p].armed
           /\ daemon'[p].hung = daemon[p].hung /\ daemon'[p].conns = daemon[p].conns
BY DEF Touches, TypeOK, GoesTo, DaemonState

\* A process that ends.
LEMMA GoneTouches ==
    ASSUME Naming, TypeOK, NEW p \in Pids, daemon' = Gone(p)
    PROVE  /\ Touches(p) /\ daemon'[p].pc = "gone" /\ ~daemon'[p].live /\ ~daemon'[p].hung
           /\ ~daemon'[p].armed /\ daemon'[p].conns = {}
<1> DEFINE d == [Unborn EXCEPT !.pc = "gone"]
<1>1. d \in DaemonState
  BY RowsHaveTypes DEF Stages, DaemonState
<1>2. d.pc = "gone" /\ ~d.live /\ ~d.hung /\ ~d.armed /\ d.conns = {}
  BY DEF Unborn
<1>3. daemon' = [daemon EXCEPT ![p] = d]
  BY DEF Gone
<1> HIDE DEF d
<1> QED
  BY <1>1, <1>2, <1>3 DEF Touches, TypeOK

-----------------------------------------------------------------------------
(* The daemon: most steps of a command leave it alone, or ask it to stop.  *)

\* The daemon that is asked.
LEMMA AskedFacts ==
    ASSUME WriterInv, NEW p \in Pids, socket = p, Listening(p), daemon' = Asked(p),
           UNCHANGED <<lock, socket, reused>>
    PROVE  /\ daemon' \in [Pids -> DaemonState]
           /\ \A q \in Pids : DaemonSound(q)' /\ daemon'[q].live = daemon[q].live
                                /\ daemon'[q].armed = daemon[q].armed
           /\ \A q \in Pids : daemon[q].pc \notin {"serving", "ready"} => daemon'[q].pc = daemon[q].pc
<1>1. TypeOK /\ DaemonSound(p)
  BY DEF WriterInv
<1>2. CASE daemon[p].pc \in {"serving", "ready"}
  <2>1. GoesTo(p, "draining")
    BY <1>2 DEF Asked, GoesTo
  <2>2. Touches(p) /\ daemon'[p].pc = "draining" /\ daemon'[p].live = daemon[p].live
          /\ daemon'[p].armed = daemon[p].armed /\ daemon'[p].hung = daemon[p].hung
          /\ daemon'[p].conns = daemon[p].conns
    BY <1>1, <2>1, GoesToTouches DEF Stages
  <2>3. DaemonSound(p)'
    BY <1>1, <1>2, <2>2 DEF DaemonSound, Listening
  <2>4. \A q \in Pids : q # p => DaemonSound(q)'
    BY <2>2 DEF Touches, WriterInv, DaemonSound, Listening
  <2> QED
    BY <1>2, <2>2, <2>3, <2>4 DEF Touches
<1>3. CASE daemon[p].pc \notin {"serving", "ready"}
  <2>1. daemon' = daemon
    BY <1>1, <1>3 DEF Asked, TypeOK, DaemonState
  <2> QED
    BY <1>1, <2>1 DEF WriterInv, TypeOK, DaemonSound, Listening
<1> QED
  BY <1>2, <1>3

\* A step of one command that may take or give back the flock, drop files, ask
\* the daemon at the socket to stop, and looks at no new process.
LEMMA CalmStep ==
    ASSUME Naming, WriterInv, NEW o \in Ops, Moves(o), op[o].pc \notin {"idle", "killing"},
           UNCHANGED <<calls, acked, reused, victims, daemonFaults>>,
           session' \in BOOLEAN, queued' \subseteq Commands, archived' \subseteq Commands,
           \/ lock' = lock
           \/ lock = None /\ lock' = o
           \/ lock = o /\ lock' = None,
           lockPid' \in {lockPid, o}, pidFile' \in {pidFile, None}, socket' \in {socket, None},
           \/ daemon' = daemon
           \/ \E p \in Pids : socket = p /\ Listening(p) /\ daemon' = Asked(p)
                                /\ UNCHANGED <<lock, socket>>,
           op'[o].pc \in {"lockheld", "tidy"} => lock' = o,
           op'[o].pc \in {"poll", "term", "killing"} =>
              op'[o].pid # None /\ (op'[o].same \/ op'[o].pid \in reused)
    PROVE  WriterInv'
<1>1. daemon' \in [Pids -> DaemonState] /\ \A q \in Pids : DaemonSound(q)'
  <2>1. CASE daemon' = daemon
    BY <2>1 DEF WriterInv, TypeOK, DaemonSound, Listening, Naming
  <2>2. CASE \E p \in Pids : socket = p /\ Listening(p) /\ daemon' = Asked(p)
                               /\ UNCHANGED <<lock, socket>>
    BY <2>2, AskedFacts
  <2> QED
    BY <2>1, <2>2
<1>2. \A q \in Pids : daemon'[q].live = daemon[q].live /\ daemon'[q].armed = daemon[q].armed
  BY AskedFacts
<1>3. TypeOK'
  BY <1>1 DEF WriterInv, TypeOK, Moves
<1>4. OneCommand'
  BY DEF WriterInv, OneCommand, Moves, AtStep
<1>5. \A q \in Pids : SignalledOnce(q)'
  <2> SUFFICES ASSUME NEW q \in Pids, SignalledOnce(q),
                      daemon'[q].live, daemon'[q].armed, pidFile' = q, lockPid' = q
               PROVE  \E x \in Ops : AtStep(x, "killing")' /\ op'[x].pid = q
    BY DEF SignalledOnce, WriterInv
  <2>1. daemon[q].live /\ daemon[q].armed /\ pidFile = q /\ lockPid = q
    BY <1>2 DEF Naming
  <2>2. PICK x \in Ops : AtStep(x, "killing") /\ op[x].pid = q
    BY <2>1 DEF SignalledOnce
  <2>3. x # o
    BY <2>2 DEF AtStep
  <2> QED
    BY <2>2, <2>3 DEF Moves, AtStep
<1>6. \A q \in Ops : CommandSound(q)'
  <2>1. CommandSound(o)'
    BY DEF CommandSound
  <2>2. ASSUME NEW q \in Ops, q # o PROVE CommandSound(q)'
    <3>1. op'[q] = op[q] /\ op[q].pc = "idle"
      BY <2>2 DEF Moves, WriterInv, OneCommand, AtStep
    <3> QED
      BY <3>1 DEF CommandSound
  <2> QED
    BY <2>1, <2>2
<1> QED
  BY <1>1, <1>3, <1>4, <1>5, <1>6 DEF WriterInv

\* The steps of a command but the signals to a daemon and its start.
LEMMA QuietStep ==
    ASSUME Naming, WriterInv, NEW o \in Ops, UNCHANGED <<calls, reused, daemonFaults>>,
           \/ (StopRequest(o) \/ PollExit(o) \/ WaitLock(o) \/ CleanWithLock(o)) /\ UNCHANGED data
           \/ Guard(o) \/ ArchiveCommands(o) \/ ClearQueues(o) \/ CheckLock(o) \/ TidyUnderLock(o)
           \/ CreateFormation(o) \/ WaitDaemonReady(o) \/ ReadyTimesOut(o)
           \/ DownRequest(o) \/ AwaitSocket(o) \/ CleanupStalePid(o) \/ UnlinkSocket(o)
           \/ EndSession(o)
    PROVE  WriterInv'
<1> USE DEF data, files
<1>0. TypeOK
  BY DEF WriterInv
<1>1. CASE StopRequest(o) /\ UNCHANGED data
  <2>1. CASE socket = None /\ pidFile = None
    <3>1. Stopped(o) /\ UNCHANGED <<daemon, pidFile>>
      BY <1>1, <2>1 DEF StopRequest
    <3> QED
      BY <1>0, <1>1, <3>1, StoppedMoves, CalmStep DEF StopRequest, AtStep, WriterInv, TypeOK
  <2>2. CASE ~(socket = None /\ pidFile = None)
    <3>1. ValidPid \in Pids \cup {None} /\ PidFileChecked \in {pidFile, None}
      BY <1>0 DEF ValidPid, PidFileChecked, TypeOK
    <3>2. /\ daemon' = daemon \/ \E p \in Pids : socket = p /\ Listening(p) /\ daemon' = Asked(p)
          /\ pidFile' = PidFileChecked
          /\ \/ ValidPid # None /\ LooksAt(o, ValidPid, "poll")
             \/ ValidPid = None /\ LooksAt(o, None, "lockwait")
      BY <1>1, <2>2 DEF StopRequest, Reachable
    <3>3. /\ Moves(o) /\ op'[o].pc \in {"poll", "lockwait"}
          /\ op'[o].pc = "poll" => /\ op'[o].pid # None
                                   /\ op'[o].same \/ op'[o].pid \in reused
      BY <1>0, <3>1, <3>2, LooksMoves DEF Steps
    <3> QED
      BY <1>0, <1>1, <3>1, <3>2, <3>3, CalmStep DEF StopRequest, AtStep, WriterInv, TypeOK
  <2> QED
    BY <2>1, <2>2
<1>2. CASE PollExit(o) /\ UNCHANGED data
  <2>1. CASE pidFile' = None /\ Stopped(o)
    BY <1>0, <1>2, <2>1, StoppedMoves, CalmStep DEF PollExit, AtStep, TypeOK
  <2>2. CASE To(o, "term") /\ UNCHANGED pidFile
    <3>1. op[o].pid # None /\ (op[o].same \/ op[o].pid \in reused)
      BY <1>2 DEF WriterInv, CommandSound, PollExit, AtStep
    <3> QED
      BY <1>0, <1>2, <2>2, <3>1, ToMoves, CalmStep DEF PollExit, AtStep, TypeOK, Steps
  <2> QED
    BY <1>2, <2>1, <2>2 DEF PollExit
<1>3. CASE WaitLock(o) /\ UNCHANGED data
  <2>1. CASE lock = None /\ lock' = o /\ lockPid' = o /\ To(o, "lockheld") /\ UNCHANGED pidFile
    BY <1>0, <1>3, <2>1, ToMoves, CalmStep DEF WaitLock, AtStep, TypeOK, Steps
  <2>2. CASE pidFile' = None /\ StopFails(o) /\ UNCHANGED <<lock, lockPid>>
    <3>1. CASE op[o].ret = "reset"
      <4> DEFINE c == [op[o] EXCEPT !.pc = "stop", !.ret = "cleanup", !.pid = None]
      <4>1. c \in CommandState /\ c.pc = "stop"
        <5>1. op[o] \in CommandState
          BY <1>0 DEF TypeOK
        <5>2. "stop" \in Steps /\ {"abort", "cleanup"} \subseteq Returns
          BY DEF Steps, Returns
        <5> QED
          BY <5>1, <5>2 DEF CommandState
      <4>2. op' = [op EXCEPT ![o] = c]
        BY <2>2, <3>1 DEF StopFails
      <4> HIDE DEF c
      <4>3. Moves(o) /\ op'[o].pc = "stop"
        BY <1>0, <4>1, <4>2, RowMoves
      <4> QED
        BY <1>0, <1>3, <2>2, <4>3, CalmStep DEF WaitLock, AtStep, TypeOK
    <3>2. CASE op[o].ret # "reset"
      <4>1. Stopped(o)
        BY <2>2, <3>2 DEF StopFails
      <4> QED
        BY <1>0, <1>3, <2>2, <4>1, StoppedMoves, CalmStep DEF WaitLock, AtStep, TypeOK
    <3> QED
      BY <3>1, <3>2
  <2> QED
    BY <1>3, <2>1, <2>2 DEF WaitLock
<1>4. CASE CleanWithLock(o) /\ UNCHANGED data
  <2>1. lock = o
    BY <1>4 DEF WriterInv, CommandSound, CleanWithLock, AtStep
  <2> QED
    BY <1>0, <1>4, <2>1, StoppedMoves, CalmStep DEF CleanWithLock, AtStep, TypeOK
<1>5. CASE Guard(o)
  <2>1. CASE Ends(o)
    BY <1>0, <1>5, <2>1, EndsMoves, CalmStep DEF Guard, AtStep, TypeOK
  <2>2. CASE ToFor(o, "stop", "reset")
    BY <1>0, <1>5, <2>2, ToForMoves, CalmStep DEF Guard, AtStep, TypeOK, Steps, Returns
  <2> QED
    BY <1>5, <2>1, <2>2 DEF Guard
<1>6. CASE ArchiveCommands(o)
  <2>1. session' \in BOOLEAN
    BY <1>6 DEF ArchiveCommands
  <2> QED
    BY <1>0, <1>6, <2>1, ToMoves, CalmStep DEF ArchiveCommands, AtStep, TypeOK, Steps
<1>7. CASE ClearQueues(o)
  BY <1>0, <1>7, ToMoves, CalmStep DEF ClearQueues, AtStep, TypeOK, Steps
<1>8. CASE CheckLock(o)
  <2>1. CASE lock = None /\ lock' = o /\ lockPid' = o /\ To(o, "tidy")
    BY <1>0, <1>8, <2>1, ToMoves, CalmStep DEF CheckLock, AtStep, TypeOK, Steps
  <2>2. CASE Fails(o) /\ UNCHANGED <<lock, lockPid>>
    BY <1>0, <1>8, <2>2, ToForMoves, CalmStep DEF CheckLock, Fails, AtStep, TypeOK, Steps, Returns
  <2> QED
    BY <1>8, <2>1, <2>2 DEF CheckLock
<1>9. CASE TidyUnderLock(o)
  <2>1. lock = o
    BY <1>9 DEF WriterInv, CommandSound, TidyUnderLock, AtStep
  <2> QED
    BY <1>0, <1>9, <2>1, ToMoves, CalmStep DEF TidyUnderLock, AtStep, TypeOK, Steps
<1>10. CASE CreateFormation(o)
  <2>1. session' \in BOOLEAN
    BY <1>10 DEF CreateFormation
  <2> QED
    BY <1>0, <1>10, <2>1, ToMoves, CalmStep DEF CreateFormation, AtStep, TypeOK, Steps
<1>11. CASE WaitDaemonReady(o)
  BY <1>0, <1>11, EndsMoves, CalmStep DEF WaitDaemonReady, AtStep, TypeOK
<1>12. CASE ReadyTimesOut(o)
  <2> DEFINE c == [op[o] EXCEPT !.pc = "stop", !.ret = "abort", !.pid = None]
  <2>1. c \in CommandState /\ c.pc = "stop"
    <3>1. op[o] \in CommandState
      BY <1>0 DEF TypeOK
    <3>2. "stop" \in Steps /\ {"abort", "cleanup"} \subseteq Returns
      BY DEF Steps, Returns
    <3> QED
      BY <3>1, <3>2 DEF CommandState
  <2>2. op' = [op EXCEPT ![o] = c]
    BY <1>12 DEF ReadyTimesOut
  <2> HIDE DEF c
  <2>3. Moves(o) /\ op'[o].pc = "stop"
    BY <1>0, <2>1, <2>2, RowMoves
  <2> QED
    BY <1>0, <1>12, <2>3, CalmStep DEF ReadyTimesOut, AtStep, TypeOK
<1>13. CASE DownRequest(o)
  <2>1. CASE daemon' = daemon
    <3>1. Moves(o) /\ op'[o].pc \in {"await", "stale"}
      BY <1>0, <1>13, ToMoves, ToForMoves DEF DownRequest, Steps, Returns
    <3> QED
      BY <1>0, <1>13, <2>1, <3>1, CalmStep DEF DownRequest, AtStep, TypeOK
  <2>2. CASE socket \in Reachable /\ daemon' = Asked(socket) /\ To(o, "await")
    BY <1>0, <1>13, <2>2, ToMoves, CalmStep DEF DownRequest, AtStep, TypeOK, Steps, Reachable
  <2> QED
    BY <1>13, <2>1, <2>2 DEF DownRequest
<1>14. CASE AwaitSocket(o)
  <2>1. CASE socket = None
    BY <1>0, <1>14, <2>1, ToMoves, CalmStep DEF AwaitSocket, AtStep, TypeOK, Steps
  <2>2. CASE socket # None
    <3> DEFINE b == ValidPid \notin reused
               s == IF ValidPid = None THEN "unlink" ELSE "term"
               c == [op[o] EXCEPT !.ret = "down", !.pid = ValidPid, !.same = b, !.pc = s]
    <3>1. ValidPid \in Pids \cup {None} /\ pidFile' \in {pidFile, None} /\ b \in BOOLEAN
      BY <1>0, <1>14, <2>2 DEF ValidPid, PidFileChecked, TypeOK, AwaitSocket
    <3>2. s \in Steps /\ s \in {"unlink", "term"} /\ (s = "term" => ValidPid # None)
      BY DEF Steps
    <3>3. op' = [op EXCEPT ![o] = c]
      BY <1>14, <2>2 DEF AwaitSocket
    <3> HIDE DEF b, s
    <3>4. c \in CommandState /\ c.pc = s /\ c.pid = ValidPid /\ c.same = b
      BY <1>0, <3>1, <3>2 DEF TypeOK, CommandState, Returns
    <3> HIDE DEF c
    <3>5. Moves(o) /\ op'[o] = c
      BY <1>0, <3>3, <3>4, RowMoves
    <3>6. op'[o].same \/ op'[o].pid \in reused
      BY <3>4, <3>5 DEF b
    <3> QED
      BY <1>0, <1>14, <3>1, <3>2, <3>4, <3>5, <3>6, CalmStep DEF AwaitSocket, AtStep, TypeOK
  <2> QED
    BY <2>1, <2>2
<1>15. CASE CleanupStalePid(o)
  <2>1. CASE Alive(ValidPid)
    <3>1. ValidPid \in Pids /\ LooksAt(o, ValidPid, "term") /\ UNCHANGED pidFile
      BY <1>0, <1>15, <2>1 DEF CleanupStalePid, ValidPid, Alive, TypeOK
    <3>2. ValidPid # None
      BY <2>1 DEF Alive
    <3> QED
      BY <1>0, <1>15, <3>1, <3>2, LooksMoves, CalmStep DEF CleanupStalePid, AtStep, TypeOK, Steps
  <2>2. CASE ~Alive(ValidPid)
    BY <1>0, <1>15, <2>2, StoppedMoves, CalmStep DEF CleanupStalePid, AtStep, TypeOK
  <2> QED
    BY <2>1, <2>2
<1>16. CASE UnlinkSocket(o)
  BY <1>0, <1>16, ToMoves, CalmStep DEF UnlinkSocket, AtStep, TypeOK, Steps
<1>17. CASE EndSession(o)
  <2>1. session' \in BOOLEAN
    BY <1>17 DEF EndSession
  <2>2. Moves(o) /\ op'[o].pc \in {"idle", "stop"}
    BY <1>0, <1>17, EndsMoves, ToForMoves DEF EndSession, Fails, Steps, Returns
  <2> QED
    BY <1>0, <1>17, <2>1, <2>2, CalmStep DEF EndSession, AtStep, TypeOK
<1> QED
  BY <1>1, <1>2, <1>3, <1>4, <1>5, <1>6, <1>7, <1>8, <1>9, <1>10, <1>11, <1>12, <1>13, <1>14,
     <1>15, <1>16, <1>17

-----------------------------------------------------------------------------
(* The daemon: its own steps, its start and the signals.                   *)

\* A step at one daemon that keeps that daemon sound keeps the rest: the flock
\* may pass to it or be given up by it, and no other daemon's files change.
LEMMA DaemonSoundStep ==
    ASSUME Naming, WriterInv, NEW p \in Pids, Touches(p), DaemonSound(p)',
           \/ lock' = lock
           \/ lock = None /\ lock' = p
           \/ lock = p /\ lock' = None,
           socket' \in {socket, None, p}, UNCHANGED reused
    PROVE  \A q \in Pids : DaemonSound(q)'
<1> SUFFICES ASSUME NEW q \in Pids, q # p, DaemonSound(q)
             PROVE  DaemonSound(q)'
  BY DEF WriterInv
<1>1. daemon'[q] = daemon[q]
  BY DEF Touches
<1>2. lock = q => lock' = q
  BY DEF Naming, None
<1>3. socket' = q => socket = q
  BY DEF Naming, None
<1> QED
  BY <1>1, <1>2, <1>3 DEF DaemonSound, Listening

\* A daemon's step keeps what is about terminals.
LEMMA DaemonFrame ==
    ASSUME Naming, WriterInv, NEW p \in Pids, Touches(p), DaemonSound(p)',
           \/ lock' = lock
           \/ lock = None /\ lock' = p
           \/ lock = p /\ lock' = None,
           lockPid' \in {lockPid, p}, pidFile' \in {pidFile, None, p},
           socket' \in {socket, None, p}, daemonFaults' \in 0 .. MaxDaemonFaults,
           UNCHANGED <<session, data, op, calls, reused, victims>>,
           SignalledOnce(p)'
    PROVE  WriterInv'
<1>1. TypeOK'
  BY DEF WriterInv, TypeOK, Touches, data
<1>2. OneCommand'
  BY DEF WriterInv, OneCommand, AtStep
<1>3. \A q \in Pids : DaemonSound(q)'
  BY DaemonSoundStep
<1>4. \A q \in Ops : CommandSound(q)'
  BY DEF WriterInv, CommandSound, Naming
<1>5. ASSUME NEW q \in Pids, q # p PROVE SignalledOnce(q)'
  BY <1>5 DEF WriterInv, SignalledOnce, Touches, AtStep, Naming
<1> QED
  BY <1>1, <1>2, <1>3, <1>4, <1>5 DEF WriterInv

\* The flock of a daemon that ends is free.
LEMMA FreedFacts ==
    ASSUME NEW p, lock' = FreedBy(p)
    PROVE  \/ lock' = lock
           \/ lock = p /\ lock' = None
BY DEF FreedBy

\* A daemon that ends is sound, and was not expected to stay.
LEMMA GoneStep ==
    ASSUME Naming, WriterInv, NEW p \in Pids, daemon' = Gone(p), lock' = FreedBy(p),
           socket' \in {socket, None}, UNCHANGED reused
    PROVE  Touches(p) /\ DaemonSound(p)' /\ SignalledOnce(p)'
<1>1. /\ Touches(p) /\ daemon'[p].pc = "gone" /\ ~daemon'[p].live /\ ~daemon'[p].hung
      /\ ~daemon'[p].armed /\ daemon'[p].conns = {}
  BY GoneTouches DEF WriterInv
<1> QED
  BY <1>1 DEF DaemonSound, SignalledOnce, Listening

LEMMA DaemonKeepsWriter ==
    ASSUME Naming, WriterInv, NEW p \in Pids, DaemonStep(p),
           UNCHANGED <<data, op, calls, reused, victims>>
    PROVE  WriterInv'
<1> USE DEF files, NoFault
<1>0. /\ TypeOK /\ DaemonSound(p) /\ SignalledOnce(p)
      /\ UNCHANGED daemonFaults => daemonFaults' \in 0 .. MaxDaemonFaults
      /\ \A k : Fault(k) => daemonFaults' \in 0 .. MaxDaemonFaults
  BY DEF WriterInv, TypeOK, Fault, Naming
<1>1. CASE AcquireLock(p)
  <2>1. CASE lock = None /\ lock' = p /\ lockPid' = p /\ GoesTo(p, "locked")
    <3>1. Touches(p) /\ daemon'[p].pc = "locked" /\ daemon'[p].live = daemon[p].live
            /\ daemon'[p].armed = daemon[p].armed
            /\ daemon'[p].hung = daemon[p].hung /\ daemon'[p].conns = daemon[p].conns
      BY <1>0, <2>1, GoesToTouches DEF Stages
    <3>2. DaemonSound(p)' /\ SignalledOnce(p)'
      BY <1>0, <1>1, <2>1, <3>1 DEF DaemonSound, SignalledOnce, AcquireLock, Listening
    <3> QED
      BY <1>0, <1>1, <2>1, <3>1, <3>2, DaemonFrame DEF AcquireLock
  <2>2. CASE GoesTo(p, "failed") /\ UNCHANGED <<lock, lockPid>>
    <3>1. Touches(p) /\ daemon'[p].pc = "failed" /\ daemon'[p].live = daemon[p].live
            /\ daemon'[p].hung = daemon[p].hung /\ daemon'[p].conns = daemon[p].conns
      BY <1>0, <2>2, GoesToTouches DEF Stages
    <3>2. DaemonSound(p)' /\ SignalledOnce(p)'
      BY <1>0, <1>1, <2>2, <3>1 DEF DaemonSound, SignalledOnce, AcquireLock, Listening
    <3> QED
      BY <1>0, <1>1, <2>2, <3>1, <3>2, DaemonFrame DEF AcquireLock
  <2> QED
    BY <1>1, <2>1, <2>2 DEF AcquireLock
<1>2. CASE WritePid(p)
  <2>1. PICK s \in {"prepared", "failed"} : GoesTo(p, s)
    BY <1>2 DEF WritePid
  <2>2. /\ Touches(p) /\ daemon'[p].pc = s /\ daemon'[p].live = daemon[p].live
        /\ daemon'[p].armed = daemon[p].armed
        /\ daemon'[p].hung = daemon[p].hung /\ daemon'[p].conns = daemon[p].conns
    BY <1>0, <2>1, GoesToTouches DEF Stages
  <2>3. /\ s = "prepared" => UNCHANGED lock
        /\ lock' \in {lock, None} /\ lock = p
        /\ pidFile' \in {pidFile, p} /\ daemonFaults' \in 0 .. MaxDaemonFaults
    <3>1. CASE pidFile' = p /\ GoesTo(p, "prepared") /\ UNCHANGED daemonFaults /\ UNCHANGED lock
      BY <1>0, <1>2, <3>1 DEF WritePid, DaemonSound
    <3>2. CASE Fault("pid_file") /\ lock' = None /\ GoesTo(p, "failed") /\ UNCHANGED pidFile
      <4>1. daemon'[p].pc = "failed"
        BY <1>0, <3>2, GoesToTouches DEF Stages
      <4> QED
        BY <1>0, <1>2, <2>2, <3>2, <4>1 DEF WritePid, DaemonSound
    <3> QED
      BY <1>2, <3>1, <3>2 DEF WritePid
  <2>4. DaemonSound(p)' /\ SignalledOnce(p)'
    BY <1>0, <1>2, <2>2, <2>3 DEF DaemonSound, SignalledOnce, WritePid, Listening
  <2> QED
    BY <1>2, <2>2, <2>3, <2>4, DaemonFrame DEF WritePid
<1>3. CASE StartRuntime(p)
  <2>1. CASE /\ socket' = p /\ UNCHANGED daemonFaults
             /\ daemon' = [daemon EXCEPT ![p] = [@ EXCEPT !.pc = "serving", !.live = TRUE]]
    <3> DEFINE d == [daemon[p] EXCEPT !.pc = "serving", !.live = TRUE]
    <3>1. d \in DaemonState /\ d.pc = "serving" /\ d.live /\ d.armed = daemon[p].armed
            /\ d.hung = daemon[p].hung /\ d.conns = daemon[p].conns
      BY <1>0 DEF TypeOK, DaemonState, Stages
    <3>2. daemon' = [daemon EXCEPT ![p] = d]
      BY <2>1
    <3> HIDE DEF d
    <3>3. Touches(p) /\ daemon'[p] = d
      BY <1>0, <3>1, <3>2 DEF TypeOK, Touches
    <3>4. ~daemon[p].armed
      BY <1>0, <1>3 DEF StartRuntime, DaemonSound
    <3>5. DaemonSound(p)' /\ SignalledOnce(p)'
      BY <1>0, <1>3, <2>1, <3>1, <3>3, <3>4 DEF StartRuntime, DaemonSound, SignalledOnce, Listening
    <3> QED
      BY <1>0, <1>3, <2>1, <3>3, <3>5, DaemonFrame DEF StartRuntime
  <2>2. CASE Fault("startup") /\ GoesTo(p, "failed") /\ UNCHANGED socket
    <3>1. Touches(p) /\ daemon'[p].pc = "failed" /\ daemon'[p].live = daemon[p].live
            /\ daemon'[p].hung = daemon[p].hung /\ daemon'[p].conns = daemon[p].conns
      BY <1>0, <2>2, GoesToTouches DEF Stages
    <3>2. DaemonSound(p)' /\ SignalledOnce(p)'
      BY <1>0, <1>3, <2>2, <3>1 DEF DaemonSound, SignalledOnce, StartRuntime, Listening
    <3> QED
      BY <1>0, <1>3, <2>2, <3>1, <3>2, DaemonFrame DEF StartRuntime
  <2> QED
    BY <1>3, <2>1, <2>2 DEF StartRuntime
<1>4. CASE BecomeReady(p)
  <2>1. /\ Touches(p) /\ daemon'[p].pc = "ready" /\ daemon'[p].live = daemon[p].live
        /\ daemon'[p].hung = daemon[p].hung /\ daemon'[p].conns = daemon[p].conns
        /\ daemon'[p].armed = daemon[p].armed
    BY <1>0, <1>4, GoesToTouches DEF BecomeReady, Stages
  <2>2. DaemonSound(p)' /\ SignalledOnce(p)'
    BY <1>0, <1>4, <2>1 DEF DaemonSound, SignalledOnce, BecomeReady, Listening, AtStep
  <2> QED
    BY <1>0, <1>4, <2>1, <2>2, DaemonFrame DEF BecomeReady
<1>5. CASE BeginShutdown(p)
  <2>1. /\ Touches(p) /\ daemon'[p].pc = "draining" /\ daemon'[p].live = daemon[p].live
        /\ daemon'[p].hung = daemon[p].hung /\ daemon'[p].conns = daemon[p].conns
        /\ daemon'[p].armed = daemon[p].armed
    BY <1>0, <1>5, GoesToTouches DEF BeginShutdown, Stages
  <2>2. DaemonSound(p)' /\ SignalledOnce(p)'
    BY <1>0, <1>5, <2>1 DEF DaemonSound, SignalledOnce, BeginShutdown, Listening, AtStep
  <2> QED
    BY <1>0, <1>5, <2>1, <2>2, DaemonFrame DEF BeginShutdown
<1>6. CASE ServerStop(p)
  <2>1. /\ Touches(p) /\ daemon'[p].pc = "closed" /\ daemon'[p].live = daemon[p].live
        /\ daemon'[p].hung = daemon[p].hung /\ daemon'[p].conns = daemon[p].conns
        /\ daemon'[p].armed = daemon[p].armed
    BY <1>0, <1>6, GoesToTouches DEF ServerStop, Stages
  <2>2. DaemonSound(p)' /\ SignalledOnce(p)'
    BY <1>0, <1>6, <2>1 DEF DaemonSound, SignalledOnce, ServerStop, Listening, AtStep, Naming, None
  <2> QED
    BY <1>0, <1>6, <2>1, <2>2, DaemonFrame DEF ServerStop
<1>7. CASE CancelContext(p)
  <2>1. /\ Touches(p) /\ daemon'[p].pc = "cancelled" /\ daemon'[p].live = daemon[p].live
        /\ daemon'[p].hung = daemon[p].hung /\ daemon'[p].conns = daemon[p].conns
        /\ daemon'[p].armed = daemon[p].armed
    BY <1>0, <1>7, GoesToTouches DEF CancelContext, Stages
  <2>2. DaemonSound(p)' /\ SignalledOnce(p)'
    BY <1>0, <1>7, <2>1 DEF DaemonSound, SignalledOnce, CancelContext, Listening, AtStep
  <2> QED
    BY <1>0, <1>7, <2>1, <2>2, DaemonFrame DEF CancelContext
<1>8. CASE DrainGoroutines(p)
  <2> DEFINE h == daemon[p].hung
             d == [daemon[p] EXCEPT !.pc = "drained", !.live = h]
  <2>1. h \in BOOLEAN /\ ~h
    BY <1>0 DEF TypeOK, DaemonState, DaemonSound
  <2>2. daemon' = [daemon EXCEPT ![p] = d]
    BY <1>8 DEF DrainGoroutines
  <2> HIDE DEF h
  <2>3. d \in DaemonState /\ d.pc = "drained" /\ d.live = h
          /\ d.hung = daemon[p].hung /\ d.conns = daemon[p].conns
    BY <1>0, <2>1 DEF TypeOK, DaemonState, Stages
  <2> HIDE DEF d
  <2>4. Touches(p) /\ daemon'[p] = d
    BY <1>0, <2>2, <2>3 DEF TypeOK, Touches
  <2>5. DaemonSound(p)' /\ SignalledOnce(p)'
    BY <1>0, <1>8, <2>1, <2>3, <2>4
    DEF DaemonSound, SignalledOnce, DrainGoroutines, Listening
  <2> QED
    BY <1>0, <1>8, <2>4, <2>5, DaemonFrame DEF DrainGoroutines
<1>9. CASE CleanupFiles(p)
  <2>1. /\ Touches(p) /\ daemon'[p].pc = "released" /\ daemon'[p].live = daemon[p].live
        /\ daemon'[p].hung = daemon[p].hung /\ daemon'[p].conns = daemon[p].conns
        /\ daemon'[p].armed = daemon[p].armed
    BY <1>0, <1>9, GoesToTouches DEF CleanupFiles, Stages
  <2>2. \/ lock = p /\ socket' = None /\ pidFile' = None /\ lock' = None
        \/ UNCHANGED <<socket, pidFile, lock>>
    BY <1>9 DEF CleanupFiles
  <2>3. DaemonSound(p)' /\ SignalledOnce(p)'
    BY <1>0, <1>9, <2>1, <2>2 DEF DaemonSound, SignalledOnce, CleanupFiles, Listening, AtStep, Naming, None
  <2> QED
    BY <1>0, <1>9, <2>1, <2>2, <2>3, DaemonFrame DEF CleanupFiles
<1>10. CASE Exit(p)
  <2>1. Touches(p) /\ DaemonSound(p)' /\ SignalledOnce(p)'
    BY <1>10, GoneStep DEF Exit, Dies
  <2> QED
    BY <1>0, <1>10, <2>1, FreedFacts, DaemonFrame DEF Exit, Dies
<1>11. CASE VerificationEnds(p)
  <2>1. CASE Dies(p)
    <3>1. Touches(p) /\ DaemonSound(p)' /\ SignalledOnce(p)'
      BY <1>11, <2>1, GoneStep DEF Dies
    <3> QED
      BY <1>0, <1>11, <2>1, <3>1, FreedFacts, DaemonFrame DEF VerificationEnds, Dies
  <2>2. CASE daemon' = [daemon EXCEPT ![p].verifying = FALSE] /\ UNCHANGED files
    <3>1. /\ Touches(p) /\ daemon'[p].pc = daemon[p].pc /\ daemon'[p].live = daemon[p].live
          /\ daemon'[p].hung = daemon[p].hung /\ daemon'[p].conns = daemon[p].conns
          /\ daemon'[p].armed = daemon[p].armed
      BY <1>0, <2>2 DEF TypeOK, DaemonState, Touches
    <3>2. DaemonSound(p)' /\ SignalledOnce(p)'
      BY <1>0, <1>11, <2>2, <3>1 DEF DaemonSound, SignalledOnce, Listening, AtStep
    <3> QED
      BY <1>0, <1>11, <2>2, <3>1, <3>2, DaemonFrame DEF VerificationEnds
  <2> QED
    BY <1>11, <2>1, <2>2 DEF VerificationEnds
<1> QED
  BY <1>1, <1>2, <1>3, <1>4, <1>5, <1>6, <1>7, <1>8, <1>9, <1>10, <1>11 DEF DaemonStep

\* A request is taken and answered.
LEMMA RequestsKeepWriter ==
    ASSUME Naming, WriterInv, NEW p \in Pids, NEW c \in Commands,
           AcceptRequest(p, c) \/ AnswerRequest(p, c),
           UNCHANGED <<op, calls, reused, victims>>
    PROVE  WriterInv'
<1> USE DEF files, data, NoFault
<1>0. TypeOK /\ DaemonSound(p) /\ SignalledOnce(p)
  BY DEF WriterInv
<1>1. PICK S \in SUBSET Commands :
         /\ daemon' = [daemon EXCEPT ![p].conns = S]
         /\ S # {} => daemon[p].live /\ Listening(p)
  <2>1. CASE AcceptRequest(p, c)
    <3>1. daemon[p].live /\ Listening(p)
      BY <1>0, <2>1 DEF AcceptRequest, Reachable, Listening, DaemonSound
    <3>2. daemon[p].conns \cup {c} \in SUBSET Commands
      BY <1>0 DEF TypeOK, DaemonState
    <3> QED
      BY <2>1, <3>1, <3>2 DEF AcceptRequest
  <2>2. CASE AnswerRequest(p, c)
    <3>1. daemon[p].conns \ {c} \in SUBSET Commands
      BY <1>0 DEF TypeOK, DaemonState
    <3> QED
      BY <1>0, <2>2, <3>1 DEF AnswerRequest, DaemonSound
  <2> QED
    BY <2>1, <2>2
<1>2. /\ Touches(p) /\ daemon'[p].pc = daemon[p].pc /\ daemon'[p].live = daemon[p].live
      /\ daemon'[p].hung = daemon[p].hung /\ daemon'[p].conns = S
      /\ daemon'[p].armed = daemon[p].armed
  BY <1>0, <1>1 DEF TypeOK, DaemonState, Touches
<1>3. UNCHANGED <<lock, lockPid, pidFile, socket, session, daemonFaults>>
        /\ queued' \subseteq Commands /\ archived' \subseteq Commands /\ acked' \subseteq Commands
  BY <1>0 DEF AcceptRequest, AnswerRequest, TypeOK
<1>4. TypeOK'
  BY <1>0, <1>2, <1>3 DEF TypeOK, Touches
<1>5. OneCommand'
  BY DEF WriterInv, OneCommand, AtStep
<1>6. DaemonSound(p)'
  BY <1>0, <1>1, <1>2, <1>3 DEF DaemonSound, Listening
<1>7. \A q \in Pids : DaemonSound(q)'
  BY <1>2, <1>3, <1>6, DaemonSoundStep
<1>8. \A q \in Pids : SignalledOnce(q)'
  BY <1>2, <1>3 DEF WriterInv, SignalledOnce, Touches, AtStep
<1>9. \A q \in Ops : CommandSound(q)'
  BY <1>3 DEF WriterInv, CommandSound
<1> QED
  BY <1>4, <1>5, <1>7, <1>8, <1>9 DEF WriterInv

-----------------------------------------------------------------------------
(* The daemon: the steps of a command that signal a daemon, or start one.  *)

\* A signal to the daemon i, sent by terminal o: what is not about i stays.
LEMMA SignalStep ==
    ASSUME Naming, WriterInv, NEW o \in Ops, NEW i \in Pids, Touches(i), Moves(o),
           op[o].pc \in {"term", "killing"}, op[o].pid = i,
           \/ lock' = lock
           \/ lock = i /\ lock' = None,
           pidFile' \in {pidFile, None},
           UNCHANGED <<lockPid, socket, session, data, calls, reused, daemonFaults>>,
           victims' \subseteq reused, DaemonSound(i)', SignalledOnce(i)',
           op'[o].pc \notin {"lockheld", "tidy"},
           op'[o].pc \in {"poll", "term", "killing"} => op'[o].pid = i /\ op'[o].same = op[o].same
    PROVE  WriterInv'
<1> USE DEF data
<1>1. TypeOK'
  BY DEF WriterInv, TypeOK, Touches, Moves
<1>2. OneCommand'
  BY DEF WriterInv, OneCommand, AtStep, Moves
<1>3. \A q \in Pids : DaemonSound(q)'
  BY DaemonSoundStep
<1>4. ASSUME NEW q \in Pids, q # i PROVE SignalledOnce(q)'
  <2> SUFFICES ASSUME daemon[q].live, daemon[q].armed, pidFile = q, lockPid = q
               PROVE  FALSE
    BY <1>4 DEF SignalledOnce, Touches, Naming
  <2>1. PICK x \in Ops : AtStep(x, "killing") /\ op[x].pid = q
    BY DEF WriterInv, SignalledOnce
  <2> QED
    BY <1>4, <2>1 DEF WriterInv, OneCommand, AtStep
<1>5. \A q \in Ops : CommandSound(q)'
  <2>1. CommandSound(o)'
    BY DEF WriterInv, CommandSound
  <2>2. ASSUME NEW q \in Ops, q # o PROVE CommandSound(q)'
    <3>1. op'[q] = op[q] /\ op[q].pc = "idle"
      BY <2>2 DEF Moves, WriterInv, OneCommand, AtStep
    <3> QED
      BY <3>1 DEF CommandSound
  <2> QED
    BY <2>1, <2>2
<1> QED
  BY <1>1, <1>2, <1>3, <1>4, <1>5 DEF WriterInv

\* What SIGTERM does to a daemon that got none before, or no longer works.
LEMMA TerminatedFacts ==
    ASSUME Naming, WriterInv, NEW i \in Pids, ~(daemon[i].live /\ daemon[i].armed),
           daemon' = Terminated(i),
           lock' = IF daemon'[i].pc = "gone" THEN FreedBy(i) ELSE lock,
           UNCHANGED <<socket, reused>>
    PROVE  /\ Touches(i) /\ DaemonSound(i)'
           /\ \/ lock' = lock
              \/ lock = i /\ lock' = None
           /\ daemon'[i].live => daemon[i].live
           /\ Newborn(i)' => Newborn(i)
<1>0. TypeOK /\ DaemonSound(i) /\ daemon[i].pc \in Stages
  BY DEF WriterInv, TypeOK, DaemonState
<1>1. \/ daemon' = Gone(i)
      \/ /\ daemon[i].pc = "ready"
         /\ daemon' = [daemon EXCEPT ![i] = [@ EXCEPT !.pc = "draining", !.armed = TRUE]]
      \/ /\ daemon[i].pc \in {"draining", "closed"}
         /\ daemon' = [daemon EXCEPT ![i].armed = TRUE]
      \/ /\ daemon[i].pc \in {"draining", "closed", "cancelled", "drained"} /\ daemon[i].armed
         /\ GoesTo(i, "forced")
      \/ daemon' = daemon
  BY DEF Terminated, GoesTo
<1>2. CASE daemon' = Gone(i)
  <2>1. daemon'[i].pc = "gone" /\ ~daemon'[i].live /\ lock' = FreedBy(i)
    BY <1>0, <1>2, GoneTouches
  <2> QED
    BY <1>2, <2>1, GoneStep, FreedFacts DEF Newborn
<1>3. CASE /\ daemon[i].pc = "ready"
           /\ daemon' = [daemon EXCEPT ![i] = [@ EXCEPT !.pc = "draining", !.armed = TRUE]]
  <2> DEFINE d == [daemon[i] EXCEPT !.pc = "draining", !.armed = TRUE]
  <2>1. d \in DaemonState /\ d.pc = "draining" /\ d.live = daemon[i].live
          /\ d.hung = daemon[i].hung /\ d.conns = daemon[i].conns
    BY <1>0 DEF TypeOK, DaemonState, Stages
  <2>2. daemon' = [daemon EXCEPT ![i] = d]
    BY <1>3
  <2> HIDE DEF d
  <2>3. Touches(i) /\ daemon'[i] = d
    BY <1>0, <2>1, <2>2 DEF TypeOK, Touches
  <2>4. lock' = lock
    BY <2>1, <2>3
  <2> QED
    BY <1>0, <1>3, <2>1, <2>3, <2>4 DEF DaemonSound, Listening, Newborn
<1>4. CASE /\ daemon[i].pc \in {"draining", "closed"}
           /\ daemon' = [daemon EXCEPT ![i].armed = TRUE]
  <2>0. daemon \in [Pids -> DaemonState] /\ daemon[i] \in DaemonState
    BY <1>0 DEF TypeOK
  <2> DEFINE d == [daemon[i] EXCEPT !.armed = TRUE]
  <2>a. d \in DaemonState /\ d.pc = daemon[i].pc /\ d.live = daemon[i].live
          /\ d.hung = daemon[i].hung /\ d.conns = daemon[i].conns
    BY <2>0 DEF DaemonState
  <2>b. daemon' = [daemon EXCEPT ![i] = d]
    BY <1>4
  <2> HIDE DEF d
  <2>1. /\ Touches(i) /\ daemon'[i].pc = daemon[i].pc /\ daemon'[i].live = daemon[i].live
        /\ daemon'[i].hung = daemon[i].hung /\ daemon'[i].conns = daemon[i].conns
    BY <2>0, <2>a, <2>b DEF Touches
  <2>2. lock' = lock
    BY <1>4, <2>1
  <2> QED
    BY <1>0, <1>4, <2>1, <2>2 DEF DaemonSound, Listening, Newborn
<1>5. CASE /\ daemon[i].pc \in {"draining", "closed", "cancelled", "drained"} /\ daemon[i].armed
           /\ GoesTo(i, "forced")
  <2>1. /\ Touches(i) /\ daemon'[i].pc = "forced" /\ daemon'[i].live = daemon[i].live
        /\ daemon'[i].hung = daemon[i].hung /\ daemon'[i].conns = daemon[i].conns
    BY <1>0, <1>5, GoesToTouches DEF Stages
  <2>2. lock' = lock /\ ~daemon[i].live
    BY <1>5, <2>1
  <2> QED
    BY <1>0, <1>5, <2>1, <2>2 DEF DaemonSound, Listening, Newborn
<1>6. CASE daemon' = daemon
  <2>1. lock' = lock \/ (lock = i /\ lock' = None)
    BY <1>6 DEF FreedBy
  <2>2. daemon[i].pc = "gone" \/ lock' = lock
    BY <1>6
  <2> QED
    BY <1>0, <1>6, <2>1, <2>2 DEF DaemonSound, Listening, Newborn, Touches, TypeOK
<1> QED
  BY <1>1, <1>2, <1>3, <1>4, <1>5, <1>6

\* terminateProcess, up to SIGTERM.
LEMMA TerminateKeepsWriter ==
    ASSUME Naming, WriterInv, NEW o \in Ops, Terminate(o),
           UNCHANGED <<data, calls, reused, daemonFaults>>
    PROVE  WriterInv'
<1> USE DEF data
<1>i. PICK i \in Pids : i = op[o].pid
  BY DEF WriterInv, TypeOK, CommandState, CommandSound, Terminate, AtStep
<1>0. TypeOK /\ (op[o].same \/ i \in reused) /\ op[o].pc = "term" /\ DaemonSound(i)
  BY <1>i DEF WriterInv, CommandSound, Terminate, AtStep
<1>a. UNCHANGED <<lockPid, socket, session>>
  BY DEF Terminate
<1>1. CASE ~Alive(i)
  BY <1>i, <1>0, <1>1, StoppedMoves, CalmStep DEF Terminate, TypeOK
<1>2. CASE Alive(i) /\ ~SameProcess(o)
  <2>1. pidFile' \in {pidFile, None} /\ Stopped(o) /\ UNCHANGED <<lock, daemon, victims>>
    BY <1>i, <1>2 DEF Terminate, PidFileChecked, ValidPid
  <2> QED
    BY <1>i, <1>0, <2>1, StoppedMoves, CalmStep DEF Terminate, TypeOK
<1>3. CASE Alive(i) /\ SameProcess(o)
  <2>1. Signalled(o, Terminated(i)) /\ To(o, "killing") /\ UNCHANGED pidFile
    BY <1>i, <1>3 DEF Terminate
  <2>2. Moves(o) /\ op'[o].pc = "killing" /\ op'[o].pid = i /\ op'[o].same = op[o].same
    BY <1>i, <1>0, <2>1, ToMoves DEF Steps
  <2>3. SignalledOnce(i)'
    BY <1>i, <2>2 DEF SignalledOnce, AtStep
  <2>4. CASE i \in reused
    <3>1. UNCHANGED <<daemon, lock>> /\ victims' \subseteq reused
      BY <1>i, <1>0, <2>1, <2>4 DEF Signalled, TypeOK
    <3>2. Touches(i) /\ DaemonSound(i)'
      BY <1>i, <1>0, <1>a, <3>1 DEF Touches, TypeOK, DaemonSound, Listening
    <3> QED
      BY <1>i, <1>0, <1>a, <2>1, <2>2, <2>3, <3>1, <3>2, SignalStep
  <2>5. CASE i \notin reused
    <3>1. /\ daemon' = Terminated(i) /\ victims' \subseteq reused
          /\ lock' = IF daemon'[i].pc = "gone" THEN FreedBy(i) ELSE lock
      BY <1>i, <1>0, <2>1, <2>5 DEF Signalled, TypeOK
    <3>2. pidFile = i /\ lockPid = i
      BY <1>i, <1>0, <1>3 DEF SameProcess, PidFileChecked, ValidPid, Naming
    <3>3. ~(daemon[i].live /\ daemon[i].armed)
      <4> SUFFICES ASSUME daemon[i].live, daemon[i].armed
                   PROVE  FALSE
        OBVIOUS
      <4>1. PICK x \in Ops : AtStep(x, "killing") /\ op[x].pid = i
        BY <1>i, <1>0, <3>2 DEF WriterInv, SignalledOnce
      <4> QED
        BY <1>i, <1>0, <4>1 DEF WriterInv, OneCommand, AtStep
    <3>4. /\ Touches(i) /\ DaemonSound(i)'
          /\ \/ lock' = lock
             \/ lock = i /\ lock' = None
      BY <1>i, <1>0, <1>a, <3>1, <3>3, TerminatedFacts
    <3> QED
      BY <1>i, <1>0, <1>a, <2>1, <2>2, <2>3, <3>1, <3>4, SignalStep
  <2> QED
    BY <2>4, <2>5
<1> QED
  BY <1>1, <1>2, <1>3

\* terminateProcess, after SIGTERM.
LEMMA KillKeepsWriter ==
    ASSUME Naming, WriterInv, NEW o \in Ops, Kill(o),
           UNCHANGED <<data, calls, reused, daemonFaults>>
    PROVE  WriterInv'
<1> USE DEF data
<1>i. PICK i \in Pids : i = op[o].pid
  BY DEF WriterInv, TypeOK, CommandState, CommandSound, Kill, AtStep
<1>0. TypeOK /\ (op[o].same \/ i \in reused) /\ op[o].pc = "killing" /\ DaemonSound(i)
  BY <1>i DEF WriterInv, CommandSound, Kill, AtStep
<1>1. Stopped(o) /\ UNCHANGED <<lockPid, socket, session>> /\ pidFile' \in {pidFile, None}
  BY DEF Kill, PidFileChecked, ValidPid
<1>2. Moves(o) /\ op'[o].pc \in {"sweep", "unlink", "endsession"}
  BY <1>i, <1>0, <1>1, StoppedMoves
<1>3. CASE UNCHANGED <<lock, daemon, victims>> /\ ~(daemon[i].live /\ pidFile' = i /\ lockPid = i)
  <2>1. Touches(i) /\ DaemonSound(i)' /\ victims' \subseteq reused
    BY <1>i, <1>0, <1>1, <1>3 DEF Touches, TypeOK, DaemonSound, Listening
  <2>2. SignalledOnce(i)'
    BY <1>i, <1>0, <1>1, <1>3 DEF SignalledOnce
  <2> QED
    BY <1>i, <1>0, <1>1, <1>2, <1>3, <2>1, <2>2, SignalStep
<1>4. CASE ~Alive(i)
  <2>1. ~daemon[i].live
    BY <1>0, <1>4 DEF Alive, Exists, Naming, DaemonSound
  <2> QED
    BY <1>i, <1>3, <1>4, <2>1 DEF Kill
<1>5. CASE Alive(i) /\ ~SameProcess(o)
  <2>1. UNCHANGED <<lock, daemon, victims>> /\ pidFile' = ValidPid
    BY <1>i, <1>5 DEF Kill, PidFileChecked
  <2>2. pidFile' = i => i \in reused
    BY <1>i, <1>0, <1>5, <2>1 DEF SameProcess, PidFileChecked
  <2>3. i \in reused => ~daemon[i].live
    BY <1>0 DEF WriterInv, DaemonSound
  <2> QED
    BY <1>3, <2>1, <2>2, <2>3
<1>6. CASE Alive(i) /\ SameProcess(o)
  <2>1. Signalled(o, Gone(i))
    BY <1>i, <1>6 DEF Kill
  <2>2. CASE i \in reused
    <3>1. UNCHANGED <<daemon, lock>> /\ victims' \subseteq reused
      BY <1>i, <1>0, <2>1, <2>2 DEF Signalled, TypeOK
    <3>2. Touches(i) /\ DaemonSound(i)' /\ SignalledOnce(i)'
      BY <1>i, <1>0, <1>1, <2>2, <3>1 DEF Touches, TypeOK, DaemonSound, SignalledOnce, Listening
    <3> QED
      BY <1>i, <1>0, <1>1, <1>2, <3>1, <3>2, SignalStep
  <2>3. CASE i \notin reused
    <3>1. /\ daemon' = Gone(i) /\ victims' \subseteq reused
          /\ lock' = IF daemon'[i].pc = "gone" THEN FreedBy(i) ELSE lock
      BY <1>i, <1>0, <2>1, <2>3 DEF Signalled, TypeOK
    <3>2. daemon'[i].pc = "gone"
      BY <1>i, <1>0, <3>1, GoneTouches
    <3>3. Touches(i) /\ DaemonSound(i)' /\ SignalledOnce(i)'
      BY <1>i, <1>0, <1>1, <3>1, <3>2, GoneStep
    <3> QED
      BY <1>i, <1>0, <1>1, <1>2, <3>1, <3>2, <3>3, FreedFacts, SignalStep
  <2> QED
    BY <2>2, <2>3
<1> QED
  BY <1>4, <1>5, <1>6

\* StartDaemon: a daemon is spawned.
LEMMA StartDaemonKeepsWriter ==
    ASSUME Naming, WriterInv, NEW o \in Ops, StartDaemon(o),
           UNCHANGED <<calls, reused, daemonFaults>>
    PROVE  WriterInv'
<1> USE DEF data, files
<1>0. TypeOK
  BY DEF WriterInv
<1>1. PICK p \in NextPid : /\ daemon' = [daemon EXCEPT ![p].pc = "new"]
                           /\ op' = [op EXCEPT ![o] = [@ EXCEPT !.pc = "wait", !.pid = p]]
  BY DEF StartDaemon
<1>2. p \in Pids /\ daemon[p].pc = "unborn"
  BY DEF NextPid
<1>3. /\ Touches(p) /\ daemon'[p].pc = "new" /\ daemon'[p].live = daemon[p].live
      /\ daemon'[p].hung = daemon[p].hung /\ daemon'[p].conns = daemon[p].conns
      /\ daemon'[p].armed = daemon[p].armed
  BY <1>0, <1>1, <1>2, GoesToTouches DEF GoesTo, Stages
<1> DEFINE c == [op[o] EXCEPT !.pc = "wait", !.pid = p]
<1>4. c \in CommandState /\ c.pc = "wait"
  <2>1. op[o] \in CommandState
    BY <1>0 DEF TypeOK
  <2>2. "wait" \in Steps
    BY DEF Steps
  <2> QED
    BY <1>2, <2>1, <2>2 DEF CommandState
<1>5. op' = [op EXCEPT ![o] = c]
  BY <1>1
<1> HIDE DEF c
<1>6. Moves(o) /\ op'[o].pc = "wait"
  BY <1>0, <1>4, <1>5, RowMoves
<1>a. DaemonSound(p) /\ UNCHANGED <<files, data, victims, reused>>
  BY <1>2 DEF WriterInv, StartDaemon
<1>7. DaemonSound(p)'
  BY <1>2, <1>3, <1>a DEF DaemonSound, Listening
<1>8. \A q \in Pids : DaemonSound(q)'
  BY <1>2, <1>3, <1>7, <1>a, DaemonSoundStep
<1>9. \A q \in Pids : SignalledOnce(q)'
  BY <1>2, <1>3, <1>6 DEF WriterInv, DaemonSound, SignalledOnce, StartDaemon, Touches, Moves, AtStep
<1>10. \A q \in Ops : CommandSound(q)'
  BY <1>6 DEF WriterInv, CommandSound, Moves, StartDaemon
<1>11. OneCommand'
  BY <1>6 DEF WriterInv, OneCommand, Moves, StartDaemon, AtStep
<1>12. TypeOK'
  BY <1>0, <1>3, <1>6 DEF TypeOK, Touches, Moves, StartDaemon
<1> QED
  BY <1>8, <1>9, <1>10, <1>11, <1>12 DEF WriterInv


\* A command is typed.
LEMMA TypeKeepsWriter ==
    ASSUME Naming, ~Overlap, WriterInv, NEW o \in Ops, NEW cmd \in {"up", "force", "down"},
           Type(o, cmd), UNCHANGED <<reused, daemonFaults>>
    PROVE  WriterInv'
<1> USE DEF data, files
<1> DEFINE s == IF cmd = "down" THEN cmd ELSE "guard"
           c == [Idle EXCEPT !.cmd = cmd, !.pc = s]
<1>1. s \in {"down", "guard"} /\ s \in Steps
  BY DEF Steps
<1>2. op' = [op EXCEPT ![o] = c]
  BY DEF Type
<1> HIDE DEF s
<1>3. c \in CommandState /\ c.pc = s
  BY <1>1, RowsHaveTypes DEF CommandState, Idle
<1> HIDE DEF c
<1>4. TypeOK /\ Moves(o) /\ op'[o].pc = s
  BY <1>2, <1>3, RowMoves DEF WriterInv
<1>5. /\ calls' \in 0 .. MaxCalls /\ \A q \in Ops : op[q].pc = "idle"
      /\ UNCHANGED <<files, daemon, data, victims>>
  BY <1>4 DEF Type, TypeOK, Naming, AtStep
<1>6. TypeOK'
  BY <1>4, <1>5 DEF TypeOK, Moves
<1>7. OneCommand'
  BY <1>4, <1>5 DEF OneCommand, Moves, AtStep
<1>8. \A p \in Pids : DaemonSound(p)' /\ SignalledOnce(p)'
  <2> SUFFICES ASSUME NEW p \in Pids, DaemonSound(p), SignalledOnce(p)
               PROVE  DaemonSound(p)' /\ SignalledOnce(p)'
    BY DEF WriterInv
  <2>1. DaemonSound(p)'
    BY <1>5 DEF DaemonSound, Listening
  <2>2. SignalledOnce(p)'
    BY <1>5 DEF SignalledOnce, AtStep
  <2> QED
    BY <2>1, <2>2
<1>9. \A q \in Ops : CommandSound(q)'
  BY <1>1, <1>4, <1>5 DEF CommandSound, Moves
<1> QED
  BY <1>6, <1>7, <1>8, <1>9 DEF WriterInv

\* Every step of a command.
LEMMA CommandKeepsWriter ==
    ASSUME Naming, ~Overlap, WriterInv, NEW o \in Ops, OpNext(o)
    PROVE  WriterInv'
<1> USE DEF data, files, NoFault
<1>1. CASE OpStep(o) /\ UNCHANGED calls
  BY <1>1, QuietStep, TerminateKeepsWriter, KillKeepsWriter, StartDaemonKeepsWriter
  DEF OpNext, OpStep, StopDaemon, Up, Down
<1>2. CASE \E cmd \in {"up", "force", "down"} : Type(o, cmd)
  BY <1>2, TypeKeepsWriter DEF OpNext
<1> QED
  BY <1>1, <1>2 DEF OpNext

-----------------------------------------------------------------------------
(* The daemon: what goes wrong, all but a goroutine that never returns.    *)

\* A command is interrupted, or its session is refused.
LEMMA CommandFaultKeepsWriter ==
    ASSUME Naming, WriterInv, NEW o \in Ops, daemonFaults' \in 0 .. MaxDaemonFaults,
           UNCHANGED <<calls, data, victims, daemon, lockPid, pidFile, socket, reused>>,
           \/ /\ op[o].pc \notin {"idle", "wait", "poll", "term", "killing"}
              /\ Ends(o) /\ lock' = FreedBy(o) /\ UNCHANGED session
           \/ FormationFails(o)
    PROVE  WriterInv'
<1> USE DEF data, files
<1>1. /\ Moves(o) /\ op'[o].pc \in {"idle", "stop"}
      /\ op[o].pc \notin {"idle", "killing"}
      /\ session' \in BOOLEAN
      /\ \/ lock' = lock
         \/ lock = o /\ lock' = None
  <2>1. CASE /\ op[o].pc \notin {"idle", "wait", "poll", "term", "killing"}
             /\ Ends(o) /\ lock' = FreedBy(o) /\ UNCHANGED session
    BY <2>1, EndsMoves, FreedFacts DEF WriterInv, TypeOK
  <2>2. CASE FormationFails(o)
    <3>1. session' \in BOOLEAN
      BY <2>2 DEF FormationFails
    <3> QED
      BY <2>2, <3>1, ToForMoves DEF FormationFails, Fails, WriterInv, AtStep, Steps, Returns
  <2> QED
    BY <2>1, <2>2
<1>2. TypeOK'
  BY <1>1 DEF WriterInv, TypeOK, Moves
<1>3. OneCommand'
  BY <1>1 DEF WriterInv, OneCommand, Moves, AtStep
<1>4. \A p \in Pids : lock = p => lock' = p
  BY <1>1 DEF Naming
<1>5. \A p \in Pids : DaemonSound(p)'
  BY <1>1, <1>4 DEF WriterInv, DaemonSound, Listening, Naming
<1>6. \A p \in Pids : SignalledOnce(p)'
  BY <1>1 DEF WriterInv, SignalledOnce, Moves, AtStep
<1>7. \A q \in Ops : CommandSound(q)'
  <2>1. CommandSound(o)'
    BY <1>1 DEF CommandSound
  <2>2. ASSUME NEW q \in Ops, q # o PROVE CommandSound(q)'
    <3>1. op'[q] = op[q] /\ op[q].pc = "idle"
      BY <1>1, <2>2 DEF Moves, WriterInv, OneCommand, AtStep
    <3> QED
      BY <3>1 DEF CommandSound
  <2> QED
    BY <2>1, <2>2
<1> QED
  BY <1>2, <1>3, <1>5, <1>6, <1>7 DEF WriterInv

\* Every fault but a hang.
LEMMA MishapKeepsWriter ==
    ASSUME Naming, WriterInv, Mishap, "hang" \notin DaemonFaults
    PROVE  WriterInv'
<1> USE DEF data, files
<1>0. /\ TypeOK /\ UNCHANGED <<calls, data, victims>>
      /\ \A k : Fault(k) => daemonFaults' \in 0 .. MaxDaemonFaults
  BY DEF WriterInv, TypeOK, Fault, Naming, Mishap
<1>1. ASSUME NEW o \in Ops, UNCHANGED <<lockPid, pidFile, socket, session, daemon, reused>>,
             Fault("interrupt"), op[o].pc \notin {"idle", "wait", "poll", "term", "killing"},
             Ends(o), lock' = FreedBy(o)
      PROVE  WriterInv'
  BY <1>0, <1>1, CommandFaultKeepsWriter
<1>2. ASSUME NEW o \in Ops, Fault("formation"), FormationFails(o)
      PROVE  WriterInv'
  BY <1>0, <1>2, CommandFaultKeepsWriter DEF FormationFails
<1>3. ASSUME NEW p \in Pids, UNCHANGED op, Fault("crash"), Dies(p), UNCHANGED reused
      PROVE  WriterInv'
  <2>1. Touches(p) /\ DaemonSound(p)' /\ SignalledOnce(p)'
    BY <1>3, GoneStep DEF Dies
  <2> QED
    BY <1>0, <1>3, <2>1, FreedFacts, DaemonFrame DEF Dies
<1>4. ASSUME NEW p \in Pids, UNCHANGED op, Fault("verification"), daemon[p].pc = "ready",
             daemon' = [daemon EXCEPT ![p].verifying = TRUE], UNCHANGED <<files, reused>>
      PROVE  WriterInv'
  <2>1. /\ Touches(p) /\ daemon'[p].pc = daemon[p].pc /\ daemon'[p].live = daemon[p].live
        /\ daemon'[p].hung = daemon[p].hung /\ daemon'[p].conns = daemon[p].conns
        /\ daemon'[p].armed = daemon[p].armed
    BY <1>0, <1>4 DEF TypeOK, DaemonState, Touches
  <2>2. DaemonSound(p)' /\ SignalledOnce(p)'
    BY <1>4, <2>1 DEF WriterInv, DaemonSound, SignalledOnce, Listening, AtStep
  <2> QED
    BY <1>0, <1>4, <2>1, <2>2, DaemonFrame
<1>5. ASSUME NEW p \in Pids, UNCHANGED op, Fault("manual_daemon"), p \in NextPid,
             GoesTo(p, "new"), UNCHANGED <<files, reused>>
      PROVE  WriterInv'
  <2>1. /\ Touches(p) /\ daemon'[p].pc = "new" /\ daemon'[p].live = daemon[p].live
        /\ daemon'[p].hung = daemon[p].hung /\ daemon'[p].conns = daemon[p].conns
        /\ daemon'[p].armed = daemon[p].armed /\ daemon[p].pc = "unborn"
    BY <1>0, <1>5, GoesToTouches DEF Stages, NextPid
  <2>2. DaemonSound(p)' /\ SignalledOnce(p)'
    BY <1>5, <2>1 DEF WriterInv, DaemonSound, SignalledOnce, Listening, AtStep
  <2> QED
    BY <1>0, <1>5, <2>1, <2>2, DaemonFrame
<1>6. ASSUME NEW p \in Pids, UNCHANGED op, Fault("late_reuse"), daemon[p].pc = "gone",
             reused' = reused \cup {p}, UNCHANGED <<files, daemon>>
      PROVE  WriterInv'
  <2>1. TypeOK'
    BY <1>0, <1>6 DEF TypeOK
  <2>2. OneCommand'
    BY <1>6 DEF WriterInv, OneCommand, AtStep
  <2>3. \A q \in Pids : DaemonSound(q)'
    BY <1>6 DEF WriterInv, DaemonSound, Listening
  <2>4. \A q \in Pids : SignalledOnce(q)'
    BY <1>6 DEF WriterInv, SignalledOnce, AtStep
  <2>5. \A q \in Ops : CommandSound(q)'
    BY <1>6 DEF WriterInv, CommandSound
  <2> QED
    BY <2>1, <2>2, <2>3, <2>4, <2>5 DEF WriterInv
<1>7. ~Fault("hang")
  BY DEF Fault
<1>8. \/ Fault("interrupt") /\ \E o \in Ops :
            /\ UNCHANGED <<lockPid, pidFile, socket, session, daemon, reused>>
            /\ op[o].pc \notin {"idle", "wait", "poll", "term", "killing"}
            /\ Ends(o) /\ lock' = FreedBy(o)
      \/ Fault("formation") /\ \E o \in Ops : FormationFails(o)
      \/ UNCHANGED op /\ \E p \in Pids :
           \/ Fault("crash") /\ Dies(p) /\ UNCHANGED reused
           \/ /\ Fault("verification") /\ daemon[p].pc = "ready"
              /\ daemon' = [daemon EXCEPT ![p].verifying = TRUE] /\ UNCHANGED <<files, reused>>
           \/ Fault("manual_daemon") /\ p \in NextPid /\ GoesTo(p, "new") /\ UNCHANGED <<files, reused>>
           \/ /\ Fault("late_reuse") /\ daemon[p].pc = "gone"
              /\ reused' = reused \cup {p} /\ UNCHANGED <<files, daemon>>
  BY <1>7 DEF Mishap
<1> QED
  BY <1>1, <1>2, <1>3, <1>4, <1>5, <1>6, <1>8

-----------------------------------------------------------------------------
(* The daemon: the single writer.                                          *)

LEMMA WriterInit == Naming /\ LifecycleInit => WriterInv
<1> SUFFICES ASSUME Naming, LifecycleInit PROVE WriterInv
  OBVIOUS
<1>1. /\ daemon \in [Pids -> DaemonState] /\ op \in [Ops -> CommandState]
      /\ \A p \in Pids : daemon[p] = Unborn
      /\ \A o \in Ops : op[o] = Idle
  BY RowsHaveTypes DEF LifecycleInit
<1>2. session \in BOOLEAN
  BY DEF LifecycleInit
<1>3. TypeOK
  BY <1>1, <1>2 DEF LifecycleInit, TypeOK, Naming
<1>4. OneCommand
  BY <1>1 DEF OneCommand, AtStep, Idle
<1>5. \A p \in Pids : DaemonSound(p) /\ SignalledOnce(p)
  BY <1>1 DEF LifecycleInit, DaemonSound, SignalledOnce, Unborn, Listening, Naming
<1>6. \A o \in Ops : CommandSound(o)
  BY <1>1 DEF CommandSound, Idle
<1> QED
  BY <1>3, <1>4, <1>5, <1>6 DEF WriterInv

LEMMA WriterStep ==
    ASSUME Naming, ~Overlap, "hang" \notin DaemonFaults, WriterInv, [LifecycleNext]_lifecycleVars
    PROVE  WriterInv'
<1>1. ASSUME NEW p \in Pids, DaemonNext(p) PROVE WriterInv'
  BY <1>1, DaemonKeepsWriter, RequestsKeepWriter DEF DaemonNext
<1>2. ASSUME NEW o \in Ops, OpNext(o) PROVE WriterInv'
  BY <1>2, CommandKeepsWriter
<1>3. CASE Mishap
  BY <1>3, MishapKeepsWriter
<1>4. CASE UNCHANGED lifecycleVars
  <2> USE <1>4 DEF lifecycleVars, files, data
  <2>1. TypeOK' /\ OneCommand'
    BY DEF WriterInv, TypeOK, OneCommand, AtStep
  <2>2. \A p \in Pids : DaemonSound(p)' /\ SignalledOnce(p)'
    BY DEF WriterInv, DaemonSound, SignalledOnce, Listening, AtStep
  <2>3. \A o \in Ops : CommandSound(o)'
    BY DEF WriterInv, CommandSound
  <2> QED
    BY <2>1, <2>2, <2>3 DEF WriterInv
<1> QED
  BY <1>1, <1>2, <1>3, <1>4 DEF LifecycleNext

\* At most one daemon has goroutines or handlers that may write the files: the
\* flock of acquireFileLock is held from before the first to after the last,
\* however daemons crash and commands are interrupted, if no two commands run
\* at a time and every goroutine returns when it is told to.
THEOREM OneWriterHolds ==
    ASSUME ~Overlap, "hang" \notin DaemonFaults
    PROVE  LifecycleSpec => []OneWriter
<1>1. WriterInv => OneWriter
  <2> SUFFICES ASSUME WriterInv, NEW p \in Pids, NEW q \in Pids, Works(p), Works(q)
               PROVE  p = q
    BY DEF OneWriter
  <2> QED
    BY DEF WriterInv, Works, DaemonSound
<1>2. LifecycleInit => WriterInv
  BY WriterInit, LifecycleAssumption
<1>3. WriterInv /\ [LifecycleNext]_lifecycleVars => WriterInv'
  BY WriterStep, LifecycleAssumption
<1> QED
  BY <1>1, <1>2, <1>3, PTL DEF LifecycleSpec


-----------------------------------------------------------------------------
(* The daemon: what a client was told is queued.                           *)

\* Only the daemon that holds the flock works or is about to; while the flock
\* is free or held by a terminal, none does.
LEMMA HolderFacts ==
    ASSUME Naming, KeepInv, NEW p \in Pids
    PROVE  /\ daemon[p].live => /\ lock = p /\ lockPid = p /\ pidFile = p /\ ValidPid = p /\ Alive(p)
                                /\ p # None /\ p \notin reused
           /\ daemon[p].pc \in {"locked", "prepared"} => lock = p
<1>1. TypeOK /\ DaemonSound(p) /\ OnFile(p) /\ p # None
  BY DEF KeepInv, WriterInv, Naming
<1> QED
  BY <1>1 DEF DaemonSound, OnFile, ValidPid, Alive, Exists

\* While a command does anything but wait for its daemon, none is starting.
LEMMA NobodyStarts ==
    ASSUME KeepInv, NEW o \in Ops, ~AtStep(o, "idle"),
           ~AtStep(o, "wait") \/ \A p \in Pids : p = op[o].pid => ~Newborn(p)
    PROVE  \A p \in Pids : ~Newborn(p)
BY DEF KeepInv, WriterInv, OneCommand, Awaited, AtStep

\* A step of one command while no daemon is starting.
LEMMA KeepCalm ==
    ASSUME Naming, KeepInv, WriterInv', NEW o \in Ops, Moves(o), ~AtStep(o, "idle"),
           \A p \in Pids : ~Newborn(p),
           \A p \in Pids : daemon'[p].live => daemon[p].live,
           \A p \in Pids : Newborn(p)' => Newborn(p),
           UNCHANGED <<lockPid, pidFile>> \/ \A p \in Pids : ~daemon'[p].live,
           Sees(o)', AcceptedIsKept'
    PROVE  KeepInv'
<1>1. ASSUME NEW p \in Pids PROVE Awaited(p)' /\ OnFile(p)'
  <2>1. ~Newborn(p)'
    OBVIOUS
  <2>2. daemon[p].live => lockPid = p /\ pidFile = p
    BY DEF KeepInv, OnFile
  <2>3. daemon'[p].live => lockPid' = p /\ pidFile' = p
    BY <2>2
  <2> QED
    BY <2>1, <2>3 DEF Awaited, OnFile, Newborn
<1>2. ASSUME NEW q \in Ops, q # o PROVE Sees(q)'
  <2>1. op'[q] = op[q] /\ op[q].pc = "idle"
    BY <1>2 DEF Moves, KeepInv, WriterInv, OneCommand, AtStep
  <2> QED
    BY <2>1 DEF Sees
<1> QED
  BY <1>1, <1>2 DEF KeepInv

\* What a request to stop changes.
LEMMA AskedKeeps ==
    ASSUME TypeOK, NEW p \in Pids, daemon' = Asked(p)
    PROVE  \A q \in Pids : daemon'[q].live = daemon[q].live /\ (Newborn(q)' => Newborn(q))
BY DEF TypeOK, DaemonState, Asked, Newborn

\* The steps of a command but the signals to a daemon and its start.
LEMMA QuietKeeps ==
    ASSUME Naming, "slow_start" \notin DaemonFaults, KeepInv, WriterInv', NEW o \in Ops,
           UNCHANGED <<calls, reused, daemonFaults>>,
           \/ (StopRequest(o) \/ PollExit(o) \/ WaitLock(o) \/ CleanWithLock(o)) /\ UNCHANGED data
           \/ Guard(o) \/ ArchiveCommands(o) \/ ClearQueues(o) \/ CheckLock(o) \/ TidyUnderLock(o)
           \/ CreateFormation(o) \/ WaitDaemonReady(o) \/ ReadyTimesOut(o)
           \/ DownRequest(o) \/ AwaitSocket(o) \/ CleanupStalePid(o) \/ UnlinkSocket(o)
           \/ EndSession(o)
    PROVE  KeepInv'
<1> USE DEF data, files
<1>0. TypeOK /\ Sees(o) /\ AcceptedIsKept
  BY DEF KeepInv, WriterInv
<1>1. CASE StopRequest(o) /\ UNCHANGED data
  <2>1. \A p \in Pids : ~Newborn(p)
    BY <1>1, NobodyStarts DEF StopRequest, AtStep
  <2>2. CASE socket = None /\ pidFile = None
    <3>1. Stopped(o) /\ UNCHANGED <<daemon, pidFile>>
      BY <1>1, <2>2 DEF StopRequest
    <3>2. \A p \in Pids : ~daemon[p].live
      BY <2>2, HolderFacts
    <3>3. Moves(o) /\ op'[o].pc \in {"sweep", "unlink", "endsession"}
      BY <1>0, <3>1, StoppedMoves
    <3>4. Sees(o)' /\ AcceptedIsKept'
      BY <1>0, <1>1, <3>1, <3>2, <3>3 DEF Sees, AcceptedIsKept
    <3> QED
      BY <1>1, <2>1, <3>1, <3>2, <3>3, <3>4, KeepCalm DEF StopRequest, AtStep, Newborn
  <2>3. CASE ~(socket = None /\ pidFile = None)
    <3>1. /\ daemon' = daemon \/ \E p \in Pids : daemon' = Asked(p)
          /\ pidFile' = PidFileChecked
          /\ ValidPid \in Pids \cup {None}
          /\ \/ ValidPid # None /\ LooksAt(o, ValidPid, "poll")
             \/ ValidPid = None /\ LooksAt(o, None, "lockwait")
      BY <1>0, <1>1, <2>3 DEF StopRequest, Reachable, ValidPid, TypeOK
    <3>2. \A q \in Pids : daemon'[q].live = daemon[q].live /\ (Newborn(q)' => Newborn(q))
      BY <1>0, <3>1, AskedKeeps DEF Newborn
    <3>3. /\ Moves(o) /\ op'[o].pc \in {"poll", "lockwait"}
          /\ op'[o].pc = "poll" => op'[o].pid = ValidPid
          /\ op'[o].pc = "lockwait" => ValidPid = None
      BY <1>0, <3>1, LooksMoves DEF Steps
    <3>4. Sees(o)'
      BY <3>2, <3>3, HolderFacts DEF Sees
    <3>5. AcceptedIsKept'
      BY <1>0, <1>1 DEF AcceptedIsKept
    <3>6. UNCHANGED pidFile \/ \A p \in Pids : ~daemon'[p].live
      BY <3>1, <3>2, HolderFacts DEF PidFileChecked
    <3> QED
      BY <1>1, <2>1, <3>2, <3>3, <3>4, <3>5, <3>6, KeepCalm DEF StopRequest, AtStep
  <2> QED
    BY <2>2, <2>3
<1>2. CASE PollExit(o) /\ UNCHANGED data
  <2>1. \A p \in Pids : ~Newborn(p)
    BY <1>2, NobodyStarts DEF PollExit, AtStep
  <2>2. UNCHANGED daemon /\ \A p \in Pids : daemon[p].live => p = op[o].pid
    BY <1>0, <1>2 DEF PollExit, Sees, AtStep
  <2>3. AcceptedIsKept'
    BY <1>0, <1>2 DEF AcceptedIsKept
  <2>4. CASE ~Alive(op[o].pid) /\ pidFile' = None /\ Stopped(o)
    <3>1. \A p \in Pids : ~daemon[p].live
      BY <2>2, <2>4, HolderFacts
    <3>2. Moves(o) /\ op'[o].pc \in {"sweep", "unlink", "endsession"}
      BY <1>0, <2>4, StoppedMoves
    <3>3. Sees(o)'
      BY <2>2, <3>1, <3>2 DEF Sees
    <3> QED
      BY <1>2, <2>1, <2>2, <2>3, <3>1, <3>2, <3>3, KeepCalm DEF PollExit, AtStep, Newborn
  <2>5. CASE To(o, "term") /\ UNCHANGED pidFile
    <3>1. Moves(o) /\ op'[o].pc = "term" /\ op'[o].pid = op[o].pid
      BY <1>0, <2>5, ToMoves DEF Steps
    <3>2. Sees(o)'
      BY <2>2, <3>1 DEF Sees
    <3> QED
      BY <1>2, <2>1, <2>2, <2>3, <2>5, <3>1, <3>2, KeepCalm DEF PollExit, AtStep, Newborn
  <2> QED
    BY <1>2, <2>4, <2>5 DEF PollExit
<1>3. CASE (WaitLock(o) \/ CleanWithLock(o)) /\ UNCHANGED data
  <2>1. ~AtStep(o, "idle") /\ ~AtStep(o, "wait") /\ \A p \in Pids : ~Newborn(p)
    BY <1>3, NobodyStarts DEF WaitLock, CleanWithLock, AtStep
  <2>2. UNCHANGED daemon /\ \A p \in Pids : ~daemon[p].live
    BY <1>0, <1>3 DEF WaitLock, CleanWithLock, Sees, AtStep
  <2>3. Moves(o) /\ op'[o].pc \in {"lockheld", "stop", "sweep", "unlink", "endsession"}
    <3>1. CASE Stopped(o)
      BY <1>0, <3>1, StoppedMoves
    <3>2. CASE To(o, "lockheld")
      BY <1>0, <3>2, ToMoves DEF Steps
    <3>3. CASE op' = [op EXCEPT ![o] = [@ EXCEPT !.pc = "stop", !.ret = "cleanup", !.pid = None]]
      <4> DEFINE c == [op[o] EXCEPT !.pc = "stop", !.ret = "cleanup", !.pid = None]
      <4>1. c \in CommandState /\ c.pc = "stop"
        <5>1. op[o] \in CommandState
          BY <1>0 DEF TypeOK
        <5>2. "stop" \in Steps /\ {"abort", "cleanup"} \subseteq Returns
          BY DEF Steps, Returns
        <5> QED
          BY <5>1, <5>2 DEF CommandState
      <4>2. op' = [op EXCEPT ![o] = c]
        BY <3>3
      <4> HIDE DEF c
      <4> QED
        BY <1>0, <4>1, <4>2, RowMoves
    <3> QED
      BY <1>3, <3>1, <3>2, <3>3 DEF WaitLock, CleanWithLock, StopFails
  <2>4. Sees(o)' /\ AcceptedIsKept'
    BY <1>0, <1>3, <2>2, <2>3 DEF Sees, AcceptedIsKept
  <2> QED
    BY <2>1, <2>2, <2>3, <2>4, KeepCalm DEF Newborn
<1>4. CASE ArchiveCommands(o) \/ ClearQueues(o) \/ CheckLock(o) \/ TidyUnderLock(o)
             \/ CreateFormation(o) \/ UnlinkSocket(o)
  <2>1. ~AtStep(o, "idle") /\ ~AtStep(o, "wait") /\ \A p \in Pids : ~Newborn(p)
    BY <1>4, NobodyStarts
    DEF ArchiveCommands, ClearQueues, CheckLock, TidyUnderLock, CreateFormation, UnlinkSocket, AtStep
  <2>2. UNCHANGED daemon /\ \A p \in Pids : ~daemon[p].live
    BY <1>0, <1>4
    DEF ArchiveCommands, ClearQueues, CheckLock, TidyUnderLock, CreateFormation, UnlinkSocket,
        Sees, AtStep
  <2>3. \E s \in {"archived", "recover", "tidy", "form", "spawn", "endsession"} : To(o, s)
          \/ Fails(o)
    BY <1>4
    DEF ArchiveCommands, ClearQueues, CheckLock, TidyUnderLock, CreateFormation, UnlinkSocket
  <2>4. /\ Moves(o)
        /\ op'[o].pc \in {"archived", "recover", "tidy", "form", "spawn", "endsession", "stop"}
    BY <1>0, <2>3, ToMoves, ToForMoves DEF Fails, Steps, Returns
  <2>5. CASE ArchiveCommands(o)
    <3>1. Sees(o)' /\ AcceptedIsKept'
      BY <1>0, <2>2, <2>4, <2>5 DEF ArchiveCommands, Sees, AcceptedIsKept
    <3> QED
      BY <2>1, <2>2, <2>4, <3>1, KeepCalm DEF Newborn
  <2>6. CASE ClearQueues(o)
    <3>1. op'[o].pc = "recover"
      BY <1>0, <2>6, ToMoves DEF ClearQueues, Steps
    <3>2. Sees(o)' /\ AcceptedIsKept'
      BY <1>0, <2>2, <2>6, <3>1 DEF ClearQueues, Sees, AcceptedIsKept, AtStep
    <3> QED
      BY <2>1, <2>2, <2>4, <3>2, KeepCalm DEF Newborn
  <2>7. CASE ~ArchiveCommands(o) /\ ~ClearQueues(o)
    <3>1. UNCHANGED data /\ op'[o].pc # "archived"
      BY <1>0, <1>4, <2>7, ToMoves, ToForMoves
      DEF CheckLock, TidyUnderLock, CreateFormation, UnlinkSocket, Fails, Steps, Returns
    <3>2. Sees(o)' /\ AcceptedIsKept'
      BY <1>0, <2>2, <2>4, <3>1 DEF Sees, AcceptedIsKept
    <3> QED
      BY <2>1, <2>2, <2>4, <3>2, KeepCalm DEF Newborn
  <2> QED
    BY <2>5, <2>6, <2>7
<1>5. CASE Guard(o) \/ WaitDaemonReady(o) \/ ReadyTimesOut(o) \/ EndSession(o)
  <2>1. /\ ~AtStep(o, "idle")
        /\ UNCHANGED <<daemon, data, lockPid, pidFile>>
    BY <1>5 DEF Guard, WaitDaemonReady, ReadyTimesOut, EndSession, AtStep
  <2>2. ~AtStep(o, "wait") \/ \A p \in Pids : p = op[o].pid => ~Newborn(p)
    <3>1. CASE Guard(o) \/ EndSession(o)
      BY <3>1 DEF Guard, EndSession, AtStep
    <3>2. CASE WaitDaemonReady(o)
      <4>1. PICK p \in Pids : socket = p /\ Listening(p)
        BY <3>2 DEF WaitDaemonReady, Reachable
      <4>2. DaemonSound(p)
        BY DEF KeepInv, WriterInv
      <4>3. daemon[p].live
        BY <4>1, <4>2 DEF DaemonSound, Listening
      <4>4. p = op[o].pid /\ ~Newborn(p)
        BY <1>0, <3>2, <4>2, <4>3 DEF WaitDaemonReady, Sees, AtStep, DaemonSound, Newborn
      <4> QED
        BY <4>4
    <3>3. CASE ReadyTimesOut(o)
      <4> SUFFICES ASSUME NEW p \in Pids, p = op[o].pid, Newborn(p)
                   PROVE  FALSE
        OBVIOUS
      <4>1. DaemonSound(p)
        BY DEF KeepInv, WriterInv
      <4> QED
        BY <3>3, <4>1 DEF ReadyTimesOut, Exists, Newborn, DaemonSound
    <3> QED
      BY <1>5, <3>1, <3>2, <3>3
  <2>3. \A p \in Pids : ~Newborn(p)
    BY <2>1, <2>2, NobodyStarts
  <2>4. Moves(o) /\ op'[o].pc \in {"idle", "stop"}
    <3>1. CASE Ends(o)
      BY <1>0, <3>1, EndsMoves
    <3>2. CASE ToFor(o, "stop", "reset") \/ Fails(o)
      BY <1>0, <3>2, ToForMoves DEF Fails, Steps, Returns
    <3>3. CASE op' = [op EXCEPT ![o] = [@ EXCEPT !.pc = "stop", !.ret = "abort", !.pid = None]]
      <4> DEFINE c == [op[o] EXCEPT !.pc = "stop", !.ret = "abort", !.pid = None]
      <4>1. c \in CommandState /\ c.pc = "stop"
        <5>1. op[o] \in CommandState
          BY <1>0 DEF TypeOK
        <5>2. "stop" \in Steps /\ {"abort", "cleanup"} \subseteq Returns
          BY DEF Steps, Returns
        <5> QED
          BY <5>1, <5>2 DEF CommandState
      <4>2. op' = [op EXCEPT ![o] = c]
        BY <3>3
      <4> HIDE DEF c
      <4> QED
        BY <1>0, <4>1, <4>2, RowMoves
    <3> QED
      BY <1>5, <3>1, <3>2, <3>3 DEF Guard, WaitDaemonReady, ReadyTimesOut, EndSession
  <2>5. Sees(o)' /\ AcceptedIsKept'
    BY <1>0, <2>1, <2>4 DEF Sees, AcceptedIsKept
  <2> QED
    BY <2>1, <2>3, <2>4, <2>5, KeepCalm DEF Newborn
<1>6. CASE DownRequest(o)
  <2>1. ~AtStep(o, "idle") /\ UNCHANGED <<data, lockPid, pidFile>> /\ \A p \in Pids : ~Newborn(p)
    BY <1>6, NobodyStarts DEF DownRequest, AtStep
  <2>2. daemon' = daemon \/ \E p \in Pids : daemon' = Asked(p)
    BY <1>6 DEF DownRequest, Reachable
  <2>3. \A q \in Pids : daemon'[q].live = daemon[q].live /\ (Newborn(q)' => Newborn(q))
    BY <1>0, <2>2, AskedKeeps DEF Newborn
  <2>4. Moves(o) /\ op'[o].pc \in {"await", "stale"}
    BY <1>0, <1>6, ToMoves, ToForMoves DEF DownRequest, Steps, Returns
  <2>5. Sees(o)' /\ AcceptedIsKept'
    BY <1>0, <2>1, <2>4 DEF Sees, AcceptedIsKept
  <2> QED
    BY <2>1, <2>3, <2>4, <2>5, KeepCalm
<1>7. CASE AwaitSocket(o)
  <2>1. ~AtStep(o, "idle") /\ UNCHANGED <<data, daemon, lockPid>> /\ \A p \in Pids : ~Newborn(p)
    BY <1>7, NobodyStarts DEF AwaitSocket, AtStep
  <2>2. AcceptedIsKept'
    BY <1>0, <2>1 DEF AcceptedIsKept
  <2>3. CASE socket = None
    <3>1. Moves(o) /\ op'[o].pc = "endsession" /\ UNCHANGED pidFile
      BY <1>0, <1>7, <2>3, ToMoves DEF AwaitSocket, Steps
    <3>2. Sees(o)'
      BY <3>1 DEF Sees
    <3> QED
      BY <2>1, <2>2, <3>1, <3>2, KeepCalm DEF Newborn
  <2>4. CASE socket # None
    <3> DEFINE b == ValidPid \notin reused
               s == IF ValidPid = None THEN "unlink" ELSE "term"
               c == [op[o] EXCEPT !.ret = "down", !.pid = ValidPid, !.same = b, !.pc = s]
    <3>1. ValidPid \in Pids \cup {None} /\ pidFile' = ValidPid /\ b \in BOOLEAN
      BY <1>0, <1>7, <2>4 DEF ValidPid, PidFileChecked, TypeOK, AwaitSocket
    <3>2. /\ s \in Steps /\ s \in {"unlink", "term"}
          /\ s = "unlink" => ValidPid = None
      BY DEF Steps
    <3>3. op' = [op EXCEPT ![o] = c]
      BY <1>7, <2>4 DEF AwaitSocket
    <3> HIDE DEF b, s
    <3>4. c \in CommandState /\ c.pc = s /\ c.pid = ValidPid
      BY <1>0, <3>1, <3>2 DEF TypeOK, CommandState, Returns
    <3> HIDE DEF c
    <3>5. Moves(o) /\ op'[o] = c
      BY <1>0, <3>3, <3>4, RowMoves
    <3>6. Sees(o)'
      BY <2>1, <3>2, <3>4, <3>5, HolderFacts DEF Sees
    <3>7. UNCHANGED pidFile \/ \A p \in Pids : ~daemon'[p].live
      BY <2>1, <3>1, HolderFacts
    <3> QED
      BY <2>1, <2>2, <3>5, <3>6, <3>7, KeepCalm DEF Newborn
  <2> QED
    BY <2>3, <2>4
<1>8. CASE CleanupStalePid(o)
  <2>1. ~AtStep(o, "idle") /\ UNCHANGED <<data, daemon, lockPid>> /\ \A p \in Pids : ~Newborn(p)
    BY <1>8, NobodyStarts DEF CleanupStalePid, AtStep
  <2>2. AcceptedIsKept'
    BY <1>0, <2>1 DEF AcceptedIsKept
  <2>3. CASE Alive(ValidPid)
    <3>1. ValidPid \in Pids /\ LooksAt(o, ValidPid, "term") /\ UNCHANGED pidFile
      BY <1>0, <1>8, <2>3 DEF CleanupStalePid, ValidPid, Alive, TypeOK
    <3>2. Moves(o) /\ op'[o].pc = "term" /\ op'[o].pid = ValidPid
      BY <1>0, <3>1, LooksMoves DEF Steps
    <3>3. Sees(o)'
      BY <2>1, <3>2, HolderFacts DEF Sees
    <3> QED
      BY <2>1, <2>2, <3>1, <3>2, <3>3, KeepCalm DEF Newborn
  <2>4. CASE ~Alive(ValidPid)
    <3>1. Stopped(o) /\ \A p \in Pids : ~daemon[p].live
      BY <1>8, <2>4, HolderFacts DEF CleanupStalePid
    <3>2. Moves(o) /\ op'[o].pc \in {"sweep", "unlink", "endsession"}
      BY <1>0, <3>1, StoppedMoves
    <3>3. Sees(o)'
      BY <2>1, <3>1, <3>2 DEF Sees
    <3> QED
      BY <2>1, <2>2, <3>1, <3>2, <3>3, KeepCalm DEF Newborn
  <2> QED
    BY <2>3, <2>4
<1> QED
  BY <1>1, <1>2, <1>3, <1>4, <1>5, <1>6, <1>7, <1>8


\* A signal to the daemon a command looks at.
LEMMA SignalKeeps ==
    ASSUME Naming, KeepInv, WriterInv', NEW o \in Ops, Terminate(o) \/ Kill(o),
           UNCHANGED <<data, calls, reused, daemonFaults>>
    PROVE  KeepInv'
<1> USE DEF data
<1>i. PICK i \in Pids : i = op[o].pid
  BY DEF KeepInv, WriterInv, TypeOK, CommandState, CommandSound, Terminate, Kill, AtStep
<1>0. /\ TypeOK /\ AcceptedIsKept /\ DaemonSound(i) /\ i # None
      /\ ~AtStep(o, "idle") /\ ~AtStep(o, "wait")
      /\ op[o].same \/ i \in reused
      /\ \A p \in Pids : daemon[p].live => p = i
  BY <1>i DEF KeepInv, WriterInv, CommandSound, Sees, Terminate, Kill, AtStep, Naming
<1>1. \A p \in Pids : ~Newborn(p)
  BY <1>0, NobodyStarts
<1>2. AcceptedIsKept' /\ UNCHANGED lockPid
  BY <1>0 DEF AcceptedIsKept, Terminate, Kill
<1>3. ASSUME Stopped(o), \A p \in Pids : ~daemon'[p].live /\ (Newborn(p)' => Newborn(p))
      PROVE  KeepInv'
  <2>1. Moves(o) /\ op'[o].pc \in {"sweep", "unlink", "endsession"}
    BY <1>0, <1>3, StoppedMoves
  <2>2. Sees(o)'
    BY <1>3, <2>1 DEF Sees
  <2> QED
    BY <1>0, <1>1, <1>2, <1>3, <2>1, <2>2, KeepCalm
<1>4. CASE ~Alive(i) \/ ~SameProcess(o)
  <2>1. Stopped(o) /\ UNCHANGED daemon
    BY <1>i, <1>4 DEF Terminate, Kill
  <2>2. ~daemon[i].live
    <3> SUFFICES ASSUME daemon[i].live PROVE FALSE
      OBVIOUS
    <3>1. Alive(i) /\ ValidPid = i /\ i \notin reused
      BY HolderFacts
    <3> QED
      BY <1>i, <1>0, <1>4, <3>1 DEF SameProcess, PidFileChecked
  <2> QED
    BY <1>0, <1>3, <2>1, <2>2 DEF Newborn
<1>5. CASE Alive(i) /\ SameProcess(o) /\ Terminate(o)
  <2>1. Signalled(o, Terminated(i)) /\ To(o, "killing") /\ UNCHANGED <<pidFile, socket>>
    BY <1>i, <1>5 DEF Terminate
  <2>2. Moves(o) /\ op'[o].pc = "killing" /\ op'[o].pid = i
    BY <1>i, <1>0, <2>1, ToMoves DEF Steps
  <2>3. \A p \in Pids : (daemon'[p].live => daemon[p].live) /\ (Newborn(p)' => Newborn(p))
    <3>1. CASE i \in reused
      BY <1>i, <2>1, <3>1 DEF Signalled, Newborn
    <3>2. CASE i \notin reused
      <4>1. /\ daemon' = Terminated(i)
            /\ lock' = IF daemon'[i].pc = "gone" THEN FreedBy(i) ELSE lock
        BY <1>i, <2>1, <3>2 DEF Signalled
      <4>2. ValidPid = i /\ op[o].pc = "term"
        BY <1>i, <1>5 DEF SameProcess, PidFileChecked, Terminate, AtStep
      <4>3. pidFile = i /\ lockPid = i
        BY <1>0, <4>2 DEF ValidPid
      <4>4. ~(daemon[i].live /\ daemon[i].armed)
        <5> SUFFICES ASSUME daemon[i].live, daemon[i].armed PROVE FALSE
          OBVIOUS
        <5>1. PICK x \in Ops : AtStep(x, "killing") /\ op[x].pid = i
          BY <4>3 DEF KeepInv, WriterInv, SignalledOnce
        <5> QED
          BY <1>0, <4>2, <5>1 DEF KeepInv, WriterInv, OneCommand, AtStep
      <4>5. WriterInv
        BY DEF KeepInv
      <4>6. Touches(i) /\ (daemon'[i].live => daemon[i].live) /\ (Newborn(i)' => Newborn(i))
        BY <2>1, <4>1, <4>4, <4>5, TerminatedFacts
      <4> QED
        BY <4>6 DEF Touches, Newborn
    <3> QED
      BY <3>1, <3>2
  <2>4. Sees(o)'
    BY <1>0, <2>2, <2>3 DEF Sees
  <2> QED
    BY <1>0, <1>1, <1>2, <2>1, <2>2, <2>3, <2>4, KeepCalm
<1>6. CASE Alive(i) /\ SameProcess(o) /\ Kill(o)
  <2>1. Signalled(o, Gone(i)) /\ Stopped(o)
    BY <1>i, <1>6 DEF Kill
  <2>2. CASE i \in reused
    <3>1. UNCHANGED daemon /\ ~daemon[i].live
      BY <1>i, <1>0, <2>1, <2>2 DEF Signalled, DaemonSound
    <3> QED
      BY <1>0, <1>3, <2>1, <3>1 DEF Newborn
  <2>3. CASE i \notin reused
    <3>1. daemon' = Gone(i)
      BY <1>i, <2>1, <2>3 DEF Signalled
    <3>2. Touches(i) /\ daemon'[i].pc = "gone" /\ ~daemon'[i].live
      BY <1>0, <3>1, GoneTouches
    <3> QED
      BY <1>0, <1>3, <2>1, <3>2 DEF Newborn, Touches
  <2> QED
    BY <2>2, <2>3
<1> QED
  BY <1>4, <1>5, <1>6

\* A daemon is spawned, and its command waits for it.
LEMMA StartDaemonKeeps ==
    ASSUME Naming, KeepInv, WriterInv', NEW o \in Ops, StartDaemon(o), UNCHANGED <<calls, reused, daemonFaults>>
    PROVE  KeepInv'
<1> USE DEF data, files
<1>0. TypeOK /\ Sees(o) /\ AcceptedIsKept /\ UNCHANGED <<data, lockPid, pidFile>> /\ AtStep(o, "spawn")
  BY DEF KeepInv, WriterInv, StartDaemon
<1>1. PICK p \in NextPid : /\ daemon' = [daemon EXCEPT ![p].pc = "new"]
                           /\ op' = [op EXCEPT ![o] = [@ EXCEPT !.pc = "wait", !.pid = p]]
  BY DEF StartDaemon
<1>2. p \in Pids
  BY DEF NextPid
<1>3. Touches(p) /\ daemon'[p].pc = "new" /\ daemon'[p].live = daemon[p].live
  BY <1>0, <1>1, <1>2, GoesToTouches DEF GoesTo, Stages
<1> DEFINE c == [op[o] EXCEPT !.pc = "wait", !.pid = p]
<1>4. c \in CommandState /\ c.pc = "wait" /\ c.pid = p
  BY <1>0, <1>2 DEF TypeOK, CommandState, Steps
<1>5. op' = [op EXCEPT ![o] = c]
  BY <1>1
<1> HIDE DEF c
<1>6. Moves(o) /\ op'[o].pc = "wait" /\ op'[o].pid = p
  BY <1>0, <1>4, <1>5, RowMoves
<1>7. \A q \in Pids : ~daemon[q].live /\ ~Newborn(q)
  BY <1>0, NobodyStarts DEF Sees, AtStep
<1>8. \A q \in Pids : ~daemon'[q].live
  BY <1>2, <1>3, <1>7 DEF Touches
<1>9. \A q \in Pids : q # p => ~Newborn(q)'
  BY <1>2, <1>3, <1>7 DEF Touches, Newborn
<1>10. \A q \in Pids : Awaited(q)'
  BY <1>2, <1>6, <1>9 DEF Awaited, AtStep
<1>11. \A q \in Pids : OnFile(q)'
  BY <1>2, <1>3, <1>8, <1>9 DEF OnFile, Newborn
<1>12. Sees(o)'
  BY <1>6, <1>8 DEF Sees
<1>13. ASSUME NEW q \in Ops, q # o PROVE Sees(q)'
  <2>1. op'[q] = op[q] /\ op[q].pc = "idle"
    BY <1>0, <1>6, <1>13 DEF Moves, KeepInv, WriterInv, OneCommand, AtStep
  <2> QED
    BY <2>1 DEF Sees
<1>14. AcceptedIsKept'
  BY <1>0 DEF AcceptedIsKept
<1> QED
  BY <1>10, <1>11, <1>12, <1>13, <1>14 DEF KeepInv

\* A command is typed while none runs, so no daemon is starting.
LEMMA TypeKeeps ==
    ASSUME Naming, ~Overlap, KeepInv, WriterInv', NEW o \in Ops, NEW cmd \in {"up", "force", "down"},
           Type(o, cmd), UNCHANGED <<reused, daemonFaults>>
    PROVE  KeepInv'
<1> USE DEF data, files
<1>1. /\ \A q \in Ops : op[q].pc = "idle"
      /\ UNCHANGED <<files, daemon, data>> /\ AcceptedIsKept
  BY DEF Type, AtStep, KeepInv
<1>2. \A p \in Pids : ~Newborn(p) /\ OnFile(p)
  BY <1>1 DEF KeepInv, Awaited, AtStep
<1>3. \A p \in Pids : Awaited(p)' /\ OnFile(p)'
  BY <1>1, <1>2 DEF Awaited, OnFile, Newborn
<1> DEFINE s == IF cmd = "down" THEN cmd ELSE "guard"
           c == [Idle EXCEPT !.cmd = cmd, !.pc = s]
<1>4. s \in {"down", "guard"} /\ s \in Steps
  BY DEF Steps
<1>5. op' = [op EXCEPT ![o] = c]
  BY DEF Type
<1> HIDE DEF s
<1>6. c \in CommandState /\ c.pc = s
  BY <1>4, RowsHaveTypes DEF CommandState, Idle
<1> HIDE DEF c
<1>7. Moves(o) /\ op'[o].pc = s
  BY <1>5, <1>6, RowMoves DEF KeepInv, WriterInv
<1>8. \A q \in Ops : Sees(q)'
  BY <1>1, <1>4, <1>7 DEF Sees, Moves
<1>9. AcceptedIsKept'
  BY <1>1 DEF AcceptedIsKept
<1> QED
  BY <1>3, <1>8, <1>9 DEF KeepInv

\* A step of one daemon: it begins to work only while it is awaited, and writes
\* the pids only with the flock.
LEMMA KeepDaemon ==
    ASSUME Naming, KeepInv, WriterInv', NEW p \in Pids, Touches(p), UNCHANGED op,
           Awaited(p)', OnFile(p)',
           UNCHANGED <<lockPid, pidFile>> \/ lock \in {p, None},
           daemon'[p].live => daemon[p].live \/ Newborn(p),
           AcceptedIsKept',
           UNCHANGED <<queued, archived>> \/ \E q \in Pids : daemon[q].live
    PROVE  KeepInv'
<1>1. ASSUME NEW q \in Pids, q # p PROVE Awaited(q)' /\ OnFile(q)'
  <2>1. daemon'[q] = daemon[q] /\ Awaited(q) /\ OnFile(q)
    BY <1>1 DEF Touches, KeepInv
  <2>2. Awaited(q)'
    BY <2>1 DEF Awaited, Newborn, AtStep
  <2>3. daemon[q].live \/ daemon[q].pc \in {"locked", "prepared"} => lock = q /\ q # None
    BY HolderFacts DEF Naming
  <2>4. OnFile(q)'
    BY <1>1, <2>1, <2>3 DEF OnFile
  <2> QED
    BY <2>2, <2>4
<1>2. ASSUME NEW o \in Ops PROVE Sees(o)'
  <2>1. Sees(o) /\ op'[o] = op[o]
    BY DEF KeepInv
  <2>2. CASE Newborn(p)
    <3>1. PICK x \in Ops : AtStep(x, "wait") /\ op[x].pid = p
      BY <2>2 DEF KeepInv, Awaited
    <3>2. x # o => op[o].pc = "idle"
      BY <3>1 DEF KeepInv, WriterInv, OneCommand, AtStep
    <3>3. \A q \in Pids : op[o].pc = "wait" /\ daemon'[q].live => q = op[o].pid
      BY <2>1, <3>1, <3>2 DEF Sees, Touches, AtStep
    <3> QED
      BY <2>1, <3>1, <3>2, <3>3 DEF Sees, AtStep
  <2>3. CASE ~Newborn(p)
    <3>1. \A q \in Pids : daemon'[q].live => daemon[q].live
      BY <2>3 DEF Touches
    <3>2. op[o].pc = "archived" => UNCHANGED <<queued, archived>>
      BY <2>1 DEF Sees
    <3> QED
      BY <2>1, <3>1, <3>2 DEF Sees
  <2> QED
    BY <2>2, <2>3
<1> QED
  BY <1>1, <1>2 DEF KeepInv

\* A daemon's own steps.
LEMMA DaemonKeeps ==
    ASSUME Naming, KeepInv, WriterInv', NEW p \in Pids, DaemonStep(p),
           UNCHANGED <<data, op, calls, reused, victims>>
    PROVE  KeepInv'
<1> USE DEF files, data, NoFault
<1>0. TypeOK /\ DaemonSound(p) /\ Awaited(p) /\ OnFile(p) /\ AcceptedIsKept'
  BY DEF KeepInv, WriterInv, AcceptedIsKept
<1>1. CASE AcquireLock(p)
  <2>1. CASE lock = None /\ lock' = p /\ lockPid' = p /\ GoesTo(p, "locked")
    <3>1. Touches(p) /\ daemon'[p].pc = "locked" /\ daemon'[p].live = daemon[p].live
      BY <1>0, <2>1, GoesToTouches DEF Stages
    <3>2. Awaited(p)' /\ OnFile(p)' /\ ~daemon[p].live
      BY <1>0, <1>1, <2>1, <3>1 DEF AcquireLock, Awaited, Newborn, OnFile, DaemonSound, AtStep
    <3> QED
      BY <1>0, <1>1, <2>1, <3>1, <3>2, KeepDaemon DEF AcquireLock
  <2>2. CASE GoesTo(p, "failed") /\ UNCHANGED <<lock, lockPid>>
    <3>1. Touches(p) /\ daemon'[p].pc = "failed" /\ daemon'[p].live = daemon[p].live
      BY <1>0, <2>2, GoesToTouches DEF Stages
    <3>2. Awaited(p)' /\ OnFile(p)' /\ ~daemon[p].live
      BY <1>0, <1>1, <2>2, <3>1 DEF AcquireLock, Awaited, Newborn, OnFile, DaemonSound
    <3> QED
      BY <1>0, <1>1, <2>2, <3>1, <3>2, KeepDaemon DEF AcquireLock
  <2> QED
    BY <1>1, <2>1, <2>2 DEF AcquireLock
<1>2. CASE WritePid(p)
  <2>1. lock = p /\ ~daemon[p].live /\ UNCHANGED lockPid /\ lockPid = p
    BY <1>0, <1>2 DEF WritePid, DaemonSound, OnFile
  <2>2. CASE pidFile' = p /\ GoesTo(p, "prepared")
    <3>1. Touches(p) /\ daemon'[p].pc = "prepared" /\ daemon'[p].live = daemon[p].live
      BY <1>0, <2>2, GoesToTouches DEF Stages
    <3>2. Awaited(p)' /\ OnFile(p)'
      BY <1>0, <1>2, <2>1, <2>2, <3>1 DEF WritePid, Awaited, Newborn, OnFile, AtStep
    <3> QED
      BY <1>0, <2>1, <3>1, <3>2, KeepDaemon
  <2>3. CASE GoesTo(p, "failed")
    <3>1. Touches(p) /\ daemon'[p].pc = "failed" /\ daemon'[p].live = daemon[p].live
      BY <1>0, <2>3, GoesToTouches DEF Stages
    <3>2. Awaited(p)' /\ OnFile(p)'
      BY <2>1, <3>1 DEF Awaited, Newborn, OnFile
    <3> QED
      BY <1>0, <2>1, <3>1, <3>2, KeepDaemon
  <2> QED
    BY <1>2, <2>2, <2>3 DEF WritePid
<1>3. CASE StartRuntime(p)
  <2>1. /\ Newborn(p) /\ lockPid = p /\ pidFile = p /\ UNCHANGED <<lockPid, pidFile>>
        /\ ~daemon[p].live
    BY <1>0, <1>3 DEF StartRuntime, Newborn, OnFile, DaemonSound
  <2>2. CASE daemon' = [daemon EXCEPT ![p] = [@ EXCEPT !.pc = "serving", !.live = TRUE]]
    <3> DEFINE d == [daemon[p] EXCEPT !.pc = "serving", !.live = TRUE]
    <3>1. d \in DaemonState /\ d.pc = "serving"
      BY <1>0 DEF TypeOK, DaemonState, Stages
    <3>2. daemon' = [daemon EXCEPT ![p] = d]
      BY <2>2
    <3> HIDE DEF d
    <3>3. Touches(p) /\ daemon'[p].pc = "serving"
      BY <1>0, <3>1, <3>2 DEF TypeOK, Touches
    <3>4. Awaited(p)' /\ OnFile(p)'
      BY <2>1, <3>3 DEF Awaited, Newborn, OnFile
    <3> QED
      BY <1>0, <2>1, <3>3, <3>4, KeepDaemon
  <2>3. CASE GoesTo(p, "failed")
    <3>1. Touches(p) /\ daemon'[p].pc = "failed" /\ daemon'[p].live = daemon[p].live
      BY <1>0, <2>3, GoesToTouches DEF Stages
    <3>2. Awaited(p)' /\ OnFile(p)'
      BY <2>1, <3>1 DEF Awaited, Newborn, OnFile
    <3> QED
      BY <1>0, <2>1, <3>1, <3>2, KeepDaemon
  <2> QED
    BY <1>3, <2>2, <2>3 DEF StartRuntime
<1>4. CASE BecomeReady(p) \/ BeginShutdown(p) \/ ServerStop(p) \/ CancelContext(p)
  <2>1. /\ \E s \in {"ready", "draining", "closed", "cancelled"} : GoesTo(p, s)
        /\ UNCHANGED <<lockPid, pidFile>>
    BY <1>4 DEF BecomeReady, BeginShutdown, ServerStop, CancelContext
  <2>2. /\ Touches(p) /\ daemon'[p].pc \in {"ready", "draining", "closed", "cancelled"}
        /\ daemon'[p].live = daemon[p].live
    BY <1>0, <2>1, GoesToTouches DEF Stages
  <2>3. Awaited(p)' /\ OnFile(p)'
    BY <1>0, <2>1, <2>2 DEF Awaited, Newborn, OnFile
  <2> QED
    BY <1>0, <2>1, <2>2, <2>3, KeepDaemon
<1>5. CASE DrainGoroutines(p)
  <2> DEFINE h == daemon[p].hung
             d == [daemon[p] EXCEPT !.pc = "drained", !.live = h]
  <2>1. h \in BOOLEAN /\ ~h
    BY <1>0 DEF TypeOK, DaemonState, DaemonSound
  <2>2. daemon' = [daemon EXCEPT ![p] = d] /\ UNCHANGED <<lockPid, pidFile>>
    BY <1>5 DEF DrainGoroutines
  <2> HIDE DEF h
  <2>3. d \in DaemonState /\ d.pc = "drained" /\ d.live = h
    BY <1>0, <2>1 DEF TypeOK, DaemonState, Stages
  <2> HIDE DEF d
  <2>4. Touches(p) /\ daemon'[p].pc = "drained" /\ ~daemon'[p].live
    BY <1>0, <2>1, <2>2, <2>3 DEF TypeOK, Touches
  <2>5. Awaited(p)' /\ OnFile(p)'
    BY <2>4 DEF Awaited, Newborn, OnFile
  <2> QED
    BY <1>0, <2>2, <2>4, <2>5, KeepDaemon
<1>6. CASE CleanupFiles(p)
  <2>1. Touches(p) /\ daemon'[p].pc = "released" /\ daemon'[p].live = daemon[p].live
    BY <1>0, <1>6, GoesToTouches DEF CleanupFiles, Stages
  <2>2. ~daemon[p].live /\ (UNCHANGED <<lockPid, pidFile>> \/ lock = p)
    BY <1>0, <1>6 DEF CleanupFiles, DaemonSound
  <2>3. Awaited(p)' /\ OnFile(p)'
    BY <2>1, <2>2 DEF Awaited, Newborn, OnFile
  <2> QED
    BY <1>0, <2>1, <2>2, <2>3, KeepDaemon
<1>7. CASE Dies(p)
  <2>1. /\ Touches(p) /\ daemon'[p].pc = "gone" /\ ~daemon'[p].live
        /\ UNCHANGED <<lockPid, pidFile>>
    BY <1>0, <1>7, GoneTouches DEF Dies
  <2>2. Awaited(p)' /\ OnFile(p)'
    BY <2>1 DEF Awaited, Newborn, OnFile
  <2> QED
    BY <1>0, <2>1, <2>2, KeepDaemon
<1>8. CASE daemon' = [daemon EXCEPT ![p].verifying = FALSE] /\ UNCHANGED files
  <2>1. Touches(p) /\ daemon'[p].pc = daemon[p].pc /\ daemon'[p].live = daemon[p].live
    BY <1>0, <1>8 DEF TypeOK, DaemonState, Touches
  <2>2. Awaited(p)' /\ OnFile(p)'
    BY <1>0, <1>8, <2>1 DEF Awaited, Newborn, OnFile, AtStep
  <2> QED
    BY <1>0, <1>8, <2>1, <2>2, KeepDaemon
<1> QED
  BY <1>1, <1>2, <1>3, <1>4, <1>5, <1>6, <1>7, <1>8 DEF DaemonStep, Exit, VerificationEnds

\* A request is taken and answered: only a daemon that works writes the queue,
\* so none does between the archive and the clearing of a reset.
LEMMA RequestsKeep ==
    ASSUME Naming, KeepInv, WriterInv', NEW p \in Pids, NEW c \in Commands,
           AcceptRequest(p, c) \/ AnswerRequest(p, c),
           UNCHANGED <<op, calls, reused, victims>>
    PROVE  KeepInv'
<1> USE DEF files, data, NoFault
<1>0. TypeOK /\ DaemonSound(p) /\ Awaited(p) /\ OnFile(p) /\ AcceptedIsKept
  BY DEF KeepInv, WriterInv
<1>1. PICK S \in SUBSET Commands : daemon' = [daemon EXCEPT ![p].conns = S]
  <2>1. daemon[p].conns \cup {c} \in SUBSET Commands /\ daemon[p].conns \ {c} \in SUBSET Commands
    BY <1>0 DEF TypeOK, DaemonState
  <2> QED
    BY <2>1 DEF AcceptRequest, AnswerRequest
<1>2. Touches(p) /\ daemon'[p].pc = daemon[p].pc /\ daemon'[p].live = daemon[p].live
  BY <1>0, <1>1 DEF TypeOK, DaemonState, Touches
<1>3. UNCHANGED <<lockPid, pidFile>> /\ AcceptedIsKept'
  BY <1>0 DEF AcceptRequest, AnswerRequest, AcceptedIsKept
<1>4. UNCHANGED <<queued, archived>> \/ daemon[p].live
  BY <1>0 DEF AcceptRequest, AnswerRequest, DaemonSound
<1>5. Awaited(p)' /\ OnFile(p)'
  BY <1>0, <1>2, <1>3 DEF Awaited, Newborn, OnFile, AtStep
<1> QED
  BY <1>2, <1>3, <1>4, <1>5, KeepDaemon

\* Every fault but a hang and a daemon typed by hand.
LEMMA MishapKeeps ==
    ASSUME Naming, KeepInv, WriterInv', Mishap,
           "hang" \notin DaemonFaults, "manual_daemon" \notin DaemonFaults
    PROVE  KeepInv'
<1> USE DEF data, files
<1>0. TypeOK /\ UNCHANGED data /\ AcceptedIsKept'
  BY DEF KeepInv, WriterInv, Mishap, AcceptedIsKept
<1>1. ASSUME NEW o \in Ops, Ends(o) \/ Fails(o), ~AtStep(o, "idle"), ~AtStep(o, "wait"),
             UNCHANGED <<daemon, lockPid, pidFile>>
      PROVE  KeepInv'
  <2>1. Moves(o) /\ op'[o].pc \in {"idle", "stop"}
    BY <1>0, <1>1, EndsMoves, ToForMoves DEF Fails, Steps, Returns
  <2>2. \A p \in Pids : ~Newborn(p)
    BY <1>1, NobodyStarts
  <2>3. Sees(o)'
    BY <2>1 DEF Sees
  <2> QED
    BY <1>0, <1>1, <2>1, <2>2, <2>3, KeepCalm DEF Newborn
<1>2. ASSUME NEW p \in Pids, UNCHANGED op, Dies(p)
      PROVE  KeepInv'
  <2>1. /\ Touches(p) /\ daemon'[p].pc = "gone" /\ ~daemon'[p].live
        /\ UNCHANGED <<lockPid, pidFile>>
    BY <1>0, <1>2, GoneTouches DEF Dies
  <2>2. Awaited(p)' /\ OnFile(p)'
    BY <2>1 DEF Awaited, Newborn, OnFile
  <2> QED
    BY <1>0, <1>2, <2>1, <2>2, KeepDaemon
<1>3. ASSUME NEW p \in Pids, UNCHANGED op, daemon' = [daemon EXCEPT ![p].verifying = TRUE],
             UNCHANGED files
      PROVE  KeepInv'
  <2>1. Touches(p) /\ daemon'[p].pc = daemon[p].pc /\ daemon'[p].live = daemon[p].live
    <3>1. daemon \in [Pids -> DaemonState]
      BY <1>0 DEF TypeOK
    <3>2. [daemon[p] EXCEPT !.verifying = TRUE] \in DaemonState
      BY <3>1 DEF DaemonState
    <3>3. daemon' = [daemon EXCEPT ![p] = [daemon[p] EXCEPT !.verifying = TRUE]]
      BY <1>3
    <3>4. daemon'[p] = [daemon[p] EXCEPT !.verifying = TRUE]
      BY <3>1, <3>3
    <3>5. Touches(p)
      BY <3>1, <3>2, <3>3 DEF Touches
    <3> QED
      BY <3>1, <3>4, <3>5 DEF DaemonState
  <2>2. Awaited(p)' /\ OnFile(p)'
    BY <1>3, <2>1 DEF KeepInv, Awaited, Newborn, OnFile, AtStep
  <2> QED
    BY <1>0, <1>3, <2>1, <2>2, KeepDaemon
<1>4. ASSUME UNCHANGED <<op, files, daemon>>
      PROVE  KeepInv'
  BY <1>0, <1>4 DEF KeepInv, Awaited, Newborn, OnFile, Sees, AtStep
<1>5. ~Fault("hang") /\ ~Fault("manual_daemon")
  BY DEF Fault
<1>6. \/ \E o \in Ops : /\ Ends(o) \/ Fails(o)
                        /\ ~AtStep(o, "idle") /\ ~AtStep(o, "wait")
                        /\ UNCHANGED <<daemon, lockPid, pidFile>>
      \/ UNCHANGED op /\ \E p \in Pids :
           \/ Dies(p)
           \/ daemon' = [daemon EXCEPT ![p].verifying = TRUE] /\ UNCHANGED files
           \/ UNCHANGED <<files, daemon>>
  BY <1>5 DEF Mishap, FormationFails, AtStep
<1> QED
  BY <1>1, <1>2, <1>3, <1>4, <1>6

LEMMA KeepInit == Naming /\ LifecycleInit => KeepInv
<1> SUFFICES ASSUME Naming, LifecycleInit PROVE KeepInv
  OBVIOUS
<1>1. /\ \A p \in Pids : daemon[p] = Unborn
      /\ \A o \in Ops : op[o] = Idle
      /\ AcceptedIsKept
  BY DEF LifecycleInit, AcceptedIsKept
<1>2. \A p \in Pids : Awaited(p) /\ OnFile(p)
  BY <1>1 DEF Awaited, Newborn, OnFile, Unborn
<1>3. \A o \in Ops : Sees(o)
  BY <1>1 DEF Sees, Idle
<1> QED
  BY <1>1, <1>2, <1>3, WriterInit DEF KeepInv

LEMMA KeepStep ==
    ASSUME Naming, ~Overlap, KeepInv, [LifecycleNext]_lifecycleVars,
           DaemonFaults \cap {"hang", "manual_daemon", "slow_start"} = {}
    PROVE  KeepInv'
<1> USE DEF data, files, NoFault
<1>0. WriterInv'
  BY WriterStep DEF KeepInv
<1>1. ASSUME NEW p \in Pids, DaemonNext(p) PROVE KeepInv'
  BY <1>0, <1>1, DaemonKeeps, RequestsKeep DEF DaemonNext
<1>2. ASSUME NEW o \in Ops, OpStep(o), UNCHANGED <<calls, daemonFaults, reused>> PROVE KeepInv'
  BY <1>0, <1>2, QuietKeeps, SignalKeeps, StartDaemonKeeps DEF OpStep, StopDaemon, Up, Down
<1>3. ASSUME NEW o \in Ops, OpNext(o) PROVE KeepInv'
  BY <1>0, <1>2, <1>3, TypeKeeps DEF OpNext
<1>4. CASE Mishap
  BY <1>0, <1>4, MishapKeeps
<1>5. CASE UNCHANGED lifecycleVars
  BY <1>0, <1>5 DEF lifecycleVars, KeepInv, AcceptedIsKept, Awaited, Newborn, OnFile, Sees, AtStep
<1> QED
  BY <1>1, <1>3, <1>4, <1>5 DEF LifecycleNext

\* What a client was told is queued survives: one daemon at a time writes the
\* queue, and a reset clears it only after it archived what is there and while
\* no daemon works (resetFormation, stopDaemon).
THEOREM AcceptedStays ==
    ASSUME ~Overlap, DaemonFaults \cap {"hang", "manual_daemon", "slow_start"} = {}
    PROVE  LifecycleSpec => []OneDaemonKeepsData
<1>1. KeepInv => AcceptedIsKept
  BY DEF KeepInv
<1>2. LifecycleInit => KeepInv
  BY KeepInit, LifecycleAssumption
<1>3. KeepInv /\ [LifecycleNext]_lifecycleVars => KeepInv'
  BY KeepStep, LifecycleAssumption
<1>4. LifecycleSpec => []OneWriter
  BY OneWriterHolds
<1> QED
  BY <1>1, <1>2, <1>3, <1>4, PTL DEF LifecycleSpec, OneDaemonKeepsData

-----------------------------------------------------------------------------
(* The panes: sequences of envelopes.                                      *)

EndsWith(s, t) == s # <<>> /\ s[Len(s)] = t

LEMMA Envelopes ==
    ASSUME NEW s \in Seq(Tasks), NEW b \in Seq(Tasks), NEW t \in Tasks
    PROVE  /\ s \o <<>> = s /\ s \o b \in Seq(Tasks) /\ Append(s, t) \in Seq(Tasks)
           /\ s \o Append(b, t) = Append(s \o b, t)
           /\ EndsWith(Append(s, t), t)
           /\ Held(Append(s, t)) = Held(s) \cup {t}
           /\ Held(s) \subseteq Held(s \o b)
<1>1. /\ s \o <<>> = s /\ s \o b \in Seq(Tasks) /\ Append(s, t) \in Seq(Tasks)
      /\ s \o Append(b, t) = Append(s \o b, t)
      /\ EndsWith(Append(s, t), t)
  <2>1. s \o <<>> = s
    OBVIOUS
  <2>2. s \o b \in Seq(Tasks) /\ Append(s, t) \in Seq(Tasks)
    OBVIOUS
  <2>3. s \o Append(b, t) = Append(s \o b, t)
    OBVIOUS
  <2>4. EndsWith(Append(s, t), t)
    <3>1. Append(s, t)[Len(Append(s, t))] = t
      OBVIOUS
    <3>2. Append(s, t) # <<>>
      OBVIOUS
    <3> QED
      BY <3>1, <3>2 DEF EndsWith
  <2> QED
    BY <2>1, <2>2, <2>3, <2>4
<1>2. Held(Append(s, t)) = Held(s) \cup {t}
  <2>1. /\ Len(Append(s, t)) = Len(s) + 1 /\ Append(s, t)[Len(s) + 1] = t
        /\ \A i \in 1..Len(s) : Append(s, t)[i] = s[i]
    OBVIOUS
  <2>2. 1..(Len(s) + 1) = 1..Len(s) \cup {Len(s) + 1}
    OBVIOUS
  <2> QED
    BY <2>1, <2>2 DEF Held
<1>3. Held(s) \subseteq Held(s \o b)
  <2>1. /\ Len(s \o b) = Len(s) + Len(b) /\ Len(b) \in Nat /\ Len(s) \in Nat
        /\ \A i \in 1..Len(s) : (s \o b)[i] = s[i]
    OBVIOUS
  <2> QED
    BY <2>1 DEF Held
<1> QED
  BY <1>1, <1>2, <1>3

LEMMA NothingHeld == Held(<<>>) = {}
BY DEF Held

-----------------------------------------------------------------------------
(* The panes: types.                                                       *)

Moving == {"shell", "launch", "setcwd"}
Working == {"stamp", "nudge_wait", "running", "restart", "wait", "clear", "busy",
            "recheck", "send", "enter", "confirm", "stamped"}
Submitting == {"enter", "confirm", "stamped"}
Hows == {"none", "nudge", "full", "first", "clear"}

PaneState == [agent : {"up", "shell"}, cwd : Dirs, busy : BOOLEAN,
              conv : Seq(Tasks), box : Seq(Tasks)]
UserVars == [ready : BOOLEAN, readyPid : {"none", "live", "dead"},
             last : Tasks \cup {NoTask}, cwd : Dirs \cup {NoDir}, main : BOOLEAN]
JobState == [task : Tasks \cup {NoTask}, resume : BOOLEAN, how : Hows, tries : Nat]

DeliveryTypeOK ==
    /\ pane \in PaneState /\ tv \in UserVars /\ job \in JobState
    /\ pc \in {"idle", "start", "workdir", "dirlost"} \cup Moving \cup Working
    /\ pc # "idle" => job.task \in Tasks

-----------------------------------------------------------------------------
(* The panes: the invariant, while every tmux variable can be written.     *)

\* What the agent was given and what still stands in its input box.
Transcript == pane.conv \o pane.box

\* The tracked directory is the pane's, except while the pane is moved.
TrackedDir ==
    pc \notin Moving \cup {"dirlost"} /\ tv.cwd # NoDir => pane.cwd = tv.cwd

\* A delivery works in the directory of its task, under the guard it needs.
InTaskDir == pc \in Moving \cup Working => pane.cwd = DirOf[job.task]
Stamped == pc \in Working \ {"stamp"} => tv.main = (job.task \in Mains)

\* An agent that holds an envelope of a RunOnMain task is at the root, guarded.
HeldIsGuarded ==
    pane.agent = "up" /\ Held(Transcript) \cap Mains # {} =>
        tv.main /\ pane.cwd = Root

\* How the envelope is to be pasted is settled step by step.
HowIsSettled ==
    /\ pc \in {"clear"} => job.how = "clear"
    /\ pc \in {"nudge_wait", "recheck"} => job.how = "nudge"
    /\ pc = "wait" => job.how \in {"first", "clear"}
    /\ pc = "busy" => job.how \in {"nudge", "clear"}
    /\ pc \in Submitting \cup {"send"} => job.how \in {"nudge", "first", "clear"}

\* clear_ready and last_task_id say nothing of the conversation any more when
\* another envelope is about to be pasted.
ReadyIsReset ==
    /\ pc = "launch" => ~tv.ready
    /\ pc \in Submitting \cup {"wait", "send"} /\ job.how = "first" => ~tv.ready
LastIsReset ==
    pc \in Submitting \cup {"busy", "send"} /\ job.how = "clear" => tv.last = NoTask
NudgeIsChecked ==
    pc \in Submitting \cup {"send"} /\ job.how = "nudge" =>
        tv.ready /\ tv.readyPid = "live" /\ tv.last = job.task

\* A pane that may be resumed was last given the task that was recorded.
LastIsHeld ==
    /\ tv.ready /\ tv.readyPid = "live" /\ tv.last # NoTask /\ pane.agent = "up"
    => EndsWith(Transcript, tv.last)
JobIsHeld ==
    pc \in Submitting /\ pane.agent = "up" => EndsWith(Transcript, job.task)

DeliveryInv ==
    /\ DeliveryTypeOK /\ TrackedDir /\ InTaskDir /\ Stamped /\ HeldIsGuarded /\ HowIsSettled
    /\ ReadyIsReset /\ LastIsReset /\ NudgeIsChecked /\ LastIsHeld /\ JobIsHeld
    /\ PastedWhereMeant


-----------------------------------------------------------------------------
(* The panes: steps that change little.                                    *)

\* The pane stays where it is; an agent in it holds what it held before.
PaneKept ==
    /\ pane' \in PaneState /\ pane'.cwd = pane.cwd
    /\ pane'.agent = "up" => pane.agent = "up" /\ Transcript' = Transcript

\* Nothing is recorded that was not recorded before.
VarsKept ==
    /\ tv' \in UserVars
    /\ tv'.main = tv.main /\ tv'.last = tv.last
    /\ tv'.cwd \in {tv.cwd, NoDir}
    /\ tv'.ready => tv.ready
    /\ tv'.readyPid = "live" => tv.readyPid = "live"

\* What the invariant says of the pane survives such a step.
LEMMA Standing ==
    ASSUME DeliveryInv, PaneKept, VarsKept, pasted' = pasted
    PROVE  HeldIsGuarded' /\ LastIsHeld' /\ PastedWhereMeant'
BY DEF DeliveryInv, PaneKept, VarsKept, HeldIsGuarded, LastIsHeld, PastedWhereMeant,
       NudgeKeepsConversation, InRightDir

\* A delivery that ends, or starts over, leaves nothing to say of itself.
LEMMA Leaves ==
    ASSUME DeliveryInv, PaneKept, VarsKept, pasted' = pasted,
           pc \notin Moving \cup {"dirlost"} \/ tv'.cwd = NoDir,
           job' \in JobState,
           \/ pc' = "idle"
           \/ pc' = "start" /\ job'.task \in Tasks
    PROVE  DeliveryInv'
<1>1. HeldIsGuarded' /\ LastIsHeld' /\ PastedWhereMeant'
  BY Standing
<1>2. DeliveryTypeOK'
  BY DEF DeliveryInv, DeliveryTypeOK, PaneKept, VarsKept
<1>3. TrackedDir'
  BY DEF DeliveryInv, TrackedDir, PaneKept, VarsKept
<1>4. InTaskDir' /\ Stamped' /\ HowIsSettled' /\ ReadyIsReset' /\ LastIsReset'
      /\ NudgeIsChecked' /\ JobIsHeld'
  BY DEF InTaskDir, Stamped, HowIsSettled, ReadyIsReset, LastIsReset, NudgeIsChecked,
         JobIsHeld, Moving, Working, Submitting
<1> QED
  BY <1>1, <1>2, <1>3, <1>4 DEF DeliveryInv

\* The agent moves, the delivery does not.
LEMMA Stays ==
    ASSUME DeliveryInv, PaneKept, tv' = tv, pasted' = pasted, pc' = pc, job' = job
    PROVE  DeliveryInv'
<1>1. VarsKept
  BY DEF VarsKept, DeliveryInv, DeliveryTypeOK
<1>2. HeldIsGuarded' /\ LastIsHeld' /\ PastedWhereMeant'
  BY <1>1, Standing
<1>3. DeliveryTypeOK'
  BY DEF DeliveryInv, DeliveryTypeOK, PaneKept
<1>4. TrackedDir' /\ InTaskDir' /\ Stamped' /\ HowIsSettled'
  BY DEF DeliveryInv, TrackedDir, InTaskDir, Stamped, HowIsSettled, PaneKept
<1>5. ReadyIsReset' /\ LastIsReset' /\ NudgeIsChecked' /\ JobIsHeld'
  BY DEF DeliveryInv, ReadyIsReset, LastIsReset, NudgeIsChecked, JobIsHeld, PaneKept
<1> QED
  BY <1>2, <1>3, <1>4, <1>5 DEF DeliveryInv

\* While every tmux variable can be written, a write does what it says.
LEMMA Writes ==
    ASSUME "setvar" \notin FaultKinds, DeliveryTypeOK
    PROVE  /\ \A new : SetUserVar(new) = {[v |-> new, err |-> FALSE, cost |-> 0]}
           /\ ResetClearReady = {[v |-> [tv EXCEPT !.ready = FALSE, !.readyPid = "none"],
                                  err |-> FALSE, cost |-> 0]}
           /\ SetClearReady(tv) = {[v |-> [tv EXCEPT !.ready = TRUE, !.readyPid = "live"],
                                    cost |-> 0]}
BY DEF SetUserVar, ResetClearReady, SetClearReady

\* What a reset of clear_ready leaves.
LEMMA Reset ==
    ASSUME DeliveryTypeOK, NEW v, v = [tv EXCEPT !.ready = FALSE, !.readyPid = "none"]
    PROVE  /\ v \in UserVars /\ ~v.ready /\ v.readyPid = "none"
           /\ v.main = tv.main /\ v.last = tv.last /\ v.cwd = tv.cwd
BY DEF DeliveryTypeOK, UserVars

LEMMA RetryEnds ==
    ASSUME DeliveryTypeOK, pc # "idle", Retry
    PROVE  /\ job' \in JobState
           /\ pc' = "idle" \/ (pc' = "start" /\ job'.task \in Tasks)
<1>1. NoJob \in JobState
  BY DEF NoJob, JobState, Hows
<1>2. ASSUME job.tries > 0
      PROVE  /\ [job EXCEPT !.tries = @ - 1, !.how = "none"] \in JobState
             /\ [job EXCEPT !.tries = @ - 1, !.how = "none"].task = job.task
  <2>1. job.tries \in Nat /\ job.tries - 1 \in Nat
    BY <1>2 DEF DeliveryTypeOK, JobState
  <2>2. "none" \in Hows
    BY DEF Hows
  <2> QED
    BY <2>1, <2>2 DEF DeliveryTypeOK, JobState
<1> QED
  BY <1>1, <1>2 DEF Retry, DeliveryTypeOK

LEMMA DeliverEnds ==
    ASSUME job' = NoJob
    PROVE  job' \in JobState
BY DEF NoJob, JobState, Hows


-----------------------------------------------------------------------------
(* The panes: the agent and the queue around the delivery.                 *)

LEMMA AgentKeeps ==
    ASSUME DeliveryInv, AgentStops \/ AgentWakes \/ AgentCrashes \/ AgentFinishes
    PROVE  DeliveryInv'
<1>1. pane \in PaneState
  BY DEF DeliveryInv, DeliveryTypeOK
<1>2. PaneKept
  <2>1. CASE AgentStops \/ AgentFinishes
    <3>1. pane' = [pane EXCEPT !.busy = FALSE]
      BY <2>1 DEF AgentStops, AgentFinishes
    <3> QED
      BY <1>1, <3>1 DEF PaneKept, PaneState, Transcript
  <2>2. CASE AgentWakes
    <3>1. pane' = [pane EXCEPT !.busy = TRUE]
      BY <2>2 DEF AgentWakes
    <3> QED
      BY <1>1, <3>1 DEF PaneKept, PaneState, Transcript
  <2>3. CASE AgentCrashes
    <3>1. pane' = [pane EXCEPT !.agent = "shell", !.busy = FALSE, !.conv = <<>>, !.box = <<>>]
      BY <2>3 DEF AgentCrashes
    <3>2. <<>> \in Seq(Tasks)
      OBVIOUS
    <3> QED
      BY <1>1, <3>1, <3>2 DEF PaneKept, PaneState
  <2> QED
    BY <2>1, <2>2, <2>3
<1>3. tv' = tv /\ pasted' = pasted /\ pc' = pc /\ job' = job
  BY DEF AgentStops, AgentWakes, AgentCrashes, AgentFinishes
<1> QED
  BY <1>2, <1>3, Stays

\* A step that leaves the pane alone.
LEMMA PaneAlone ==
    ASSUME DeliveryInv, pane' = pane
    PROVE  PaneKept
BY DEF DeliveryInv, DeliveryTypeOK, PaneKept, Transcript

LEMMA VarsAlone ==
    ASSUME DeliveryInv, tv' = tv
    PROVE  VarsKept
BY DEF DeliveryInv, DeliveryTypeOK, VarsKept

LEMMA ReleasedKeeps ==
    ASSUME DeliveryInv, NEW t \in Tasks, NEW n \in BOOLEAN, Released(t, n)
    PROVE  DeliveryInv'
BY PaneAlone, Stays DEF Released

LEMMA DispatchKeeps ==
    ASSUME DeliveryInv, NEW t \in Tasks, DispatchTask(t)
    PROVE  DeliveryInv'
<1> DEFINE new == [task |-> t, resume |-> t \in resume, how |-> "none",
                   tries |-> InlineRetries]
<1>1. new \in JobState /\ new.task = t
  BY DeliveryAssumption DEF JobState, Hows
<1>2. pc' = "start" /\ pc = "idle" /\ job' = new /\ pane' = pane /\ tv' = tv
      /\ pasted' = NoPaste
  BY DEF DispatchTask
<1> HIDE DEF new
<1>3. PaneKept /\ VarsKept
  BY <1>2, PaneAlone, VarsAlone
<1>4. DeliveryTypeOK' /\ TrackedDir' /\ HeldIsGuarded' /\ LastIsHeld'
  BY <1>1, <1>2, <1>3 DEF DeliveryInv, DeliveryTypeOK, TrackedDir, HeldIsGuarded, LastIsHeld,
     Transcript, Moving
<1>5. InTaskDir' /\ Stamped' /\ HowIsSettled' /\ ReadyIsReset' /\ LastIsReset'
      /\ NudgeIsChecked' /\ JobIsHeld'
  BY <1>2 DEF InTaskDir, Stamped, HowIsSettled, ReadyIsReset, LastIsReset, NudgeIsChecked,
     JobIsHeld, Moving, Working, Submitting
<1>6. PastedWhereMeant'
  BY <1>2 DEF PastedWhereMeant, NudgeKeepsConversation, InRightDir, NoPaste
<1> QED
  BY <1>4, <1>5, <1>6 DEF DeliveryInv

\* In an idle pane the invariant is about the pane alone.
LEMMA IdleInv ==
    ASSUME pc' = "idle", DeliveryTypeOK', TrackedDir', HeldIsGuarded', LastIsHeld',
           PastedWhereMeant'
    PROVE  DeliveryInv'
BY DEF DeliveryInv, InTaskDir, Stamped, HowIsSettled, ReadyIsReset, LastIsReset,
       NudgeIsChecked, JobIsHeld, Moving, Working, Submitting

LEMMA NoEnvelope == <<>> \o <<>> = <<>> /\ Held(<<>>) = {}
<1>1. <<>> \o <<>> = <<>>
  OBVIOUS
<1> QED
  BY <1>1, NothingHeld

LEMMA InterruptKeeps ==
    ASSUME DeliveryInv, "setvar" \notin FaultKinds, NEW t \in Tasks, Interrupt(t)
    PROVE  DeliveryInv'
<1>0. DeliveryTypeOK /\ pane \in PaneState /\ tv \in UserVars /\ pc = "idle" /\ pc' = pc
      /\ job' = job /\ pasted' = pasted
  BY DEF DeliveryInv, DeliveryTypeOK, Interrupt
<1>1. CASE pane' = [pane EXCEPT !.busy = FALSE] /\ tv' = tv
  <2>1. PaneKept
    BY <1>0, <1>1 DEF PaneKept, PaneState, Transcript
  <2> QED
    BY <1>0, <1>1, <2>1, Stays
<1>2. CASE /\ pane' = [pane EXCEPT !.conv = <<>>, !.box = <<>>, !.busy = FALSE]
           /\ tv' = [tv EXCEPT !.last = NoTask]
  <2>1. <<>> \in Seq(Tasks)
    OBVIOUS
  <2>2. /\ pane' \in PaneState /\ pane'.cwd = pane.cwd /\ pane'.conv = <<>>
        /\ pane'.box = <<>>
    BY <1>0, <1>2, <2>1 DEF PaneState
  <2>3. /\ tv' \in UserVars /\ tv'.cwd = tv.cwd /\ tv'.last = NoTask
    BY <1>0, <1>2 DEF UserVars
  <2>4. DeliveryTypeOK' /\ TrackedDir'
    BY <1>0, <2>2, <2>3 DEF DeliveryInv, DeliveryTypeOK, TrackedDir
  <2>5. HeldIsGuarded' /\ LastIsHeld'
    BY <2>2, <2>3, NoEnvelope DEF HeldIsGuarded, LastIsHeld, Transcript
  <2>6. PastedWhereMeant'
    BY <1>0 DEF DeliveryInv, PastedWhereMeant, NudgeKeepsConversation, InRightDir
  <2> QED
    BY <1>0, <2>4, <2>5, <2>6, IdleInv
<1>3. ASSUME \E o \in SetUserVar([tv EXCEPT !.last = NoTask]) : Apply(o)
      PROVE  tv' = [tv EXCEPT !.last = NoTask]
  BY <1>0, <1>3, Writes DEF Apply
<1> QED
  BY <1>1, <1>2, <1>3 DEF Interrupt

LEMMA CleanupKeeps ==
    ASSUME DeliveryInv, "setvar" \notin FaultKinds, NEW d \in Dirs, Cleanup(d)
    PROVE  DeliveryInv'
<1>0. DeliveryTypeOK /\ pane \in PaneState /\ tv \in UserVars /\ pc = "idle" /\ pc' = pc
      /\ job' = job /\ pasted' = pasted
  BY DEF DeliveryInv, DeliveryTypeOK, Cleanup
<1>1. CASE pane' = pane /\ tv' = tv
  BY <1>0, <1>1, PaneAlone, Stays
<1>2. CASE /\ pane' = FreshShell(Root)
           /\ \E o \in ResetCWD, r \in ResetClearReady :
                tv' = Respawned([r.v EXCEPT !.cwd = o.v.cwd])
  <2>1. PICK o \in ResetCWD, r \in ResetClearReady :
                tv' = Respawned([r.v EXCEPT !.cwd = o.v.cwd])
    BY <1>2
  <2>2. o.v = [tv EXCEPT !.cwd = NoDir] /\ r.v = [tv EXCEPT !.ready = FALSE, !.readyPid = "none"]
    BY <1>0, Writes DEF ResetCWD
  <2>3. o.v.cwd = NoDir
    BY <1>0, <2>2 DEF UserVars
  <2> DEFINE w == [r.v EXCEPT !.cwd = o.v.cwd]
  <2>4. r.v \in UserVars
    BY <1>0, <2>2, Reset
  <2>5. w \in UserVars /\ w.cwd = NoDir
    BY <2>3, <2>4 DEF UserVars
  <2>6. tv' = Respawned(w)
    BY <2>1
  <2> HIDE DEF w
  <2>7. tv' \in UserVars /\ tv'.cwd = NoDir
    BY <2>5, <2>6 DEF Respawned, UserVars
  <2>8. Root \in Dirs /\ <<>> \in Seq(Tasks)
    BY DeliveryAssumption
  <2>9. pane' \in PaneState /\ pane'.agent = "shell"
    BY <1>2, <2>8 DEF PaneState, FreshShell
  <2>10. DeliveryTypeOK' /\ TrackedDir' /\ HeldIsGuarded' /\ LastIsHeld'
    BY <1>0, <2>7, <2>9 DEF DeliveryTypeOK, TrackedDir, HeldIsGuarded, LastIsHeld
  <2>11. PastedWhereMeant'
    BY <1>0 DEF DeliveryInv, PastedWhereMeant, NudgeKeepsConversation, InRightDir
  <2> QED
    BY <1>0, <2>10, <2>11, IdleInv
<1> QED
  BY <1>1, <1>2 DEF Cleanup, RespawnToProjectRoot


-----------------------------------------------------------------------------
(* The panes: the steps of a delivery.                                     *)

\* What is left to show of a step that keeps pane and variables.
LEMMA Advances ==
    ASSUME DeliveryInv, PaneKept, VarsKept, pasted' = pasted, job' \in JobState,
           job'.task = job.task, pc # "idle",
           pc' \in {"workdir", "dirlost"} \cup Moving \cup Working,
           pc' \notin Moving \cup {"dirlost"} => pc \notin Moving \cup {"dirlost"},
           InTaskDir', Stamped', HowIsSettled', ReadyIsReset', LastIsReset',
           NudgeIsChecked', JobIsHeld'
    PROVE  DeliveryInv'
<1>1. HeldIsGuarded' /\ LastIsHeld' /\ PastedWhereMeant'
  BY Standing
<1>2. DeliveryTypeOK'
  BY DEF DeliveryInv, DeliveryTypeOK, PaneKept, VarsKept, Moving, Working
<1>3. TrackedDir'
  BY DEF DeliveryInv, TrackedDir, PaneKept, VarsKept
<1> QED
  BY <1>1, <1>2, <1>3 DEF DeliveryInv

LEMMA PreflightKeeps ==
    ASSUME DeliveryInv, "setvar" \notin FaultKinds, ResumePreflight
    PROVE  DeliveryInv'
<1>0. DeliveryTypeOK /\ pc = "start" /\ pane' = pane /\ pasted' = pasted /\ job.task \in Tasks
      /\ job \in JobState /\ tv \in UserVars
  BY DEF DeliveryInv, DeliveryTypeOK, ResumePreflight, Quiet
<1>1. PaneKept
  BY <1>0, PaneAlone
<1>2. VarsKept
  <2>1. CASE tv' = tv
    BY <2>1, VarsAlone
  <2>2. CASE \E o \in ResetClearReady : Apply(o)
    BY <1>0, <2>2, Writes, Reset DEF Apply, VarsKept
  <2> QED
    BY <2>1, <2>2 DEF ResumePreflight
<1>3. CASE job.resume /\ CanResumeInPlace(job.task) /\ pc' = "stamp"
           /\ job' = [job EXCEPT !.how = "nudge"]
  <2>1. pane.cwd = DirOf[job.task]
    <3>1. tv.readyPid = "live" /\ tv.ready /\ pane.agent = "up" /\ tv.last = job.task
          /\ IF job.task \in Mains THEN pane.cwd = Root ELSE IsPathUnder(pane.cwd, DirOf[job.task])
      BY <1>3 DEF CanResumeInPlace
    <3> QED
      BY <1>0, <3>1, DeliveryAssumption DEF IsPathUnder
  <2>2. job' \in JobState /\ job'.task = job.task /\ job'.how = "nudge"
    BY <1>0, <1>3 DEF JobState, Hows
  <2>3. InTaskDir' /\ Stamped' /\ HowIsSettled' /\ ReadyIsReset' /\ LastIsReset'
        /\ NudgeIsChecked' /\ JobIsHeld'
    BY <1>0, <1>3, <2>1, <2>2 DEF InTaskDir, Stamped, HowIsSettled, ReadyIsReset, LastIsReset,
       NudgeIsChecked, JobIsHeld, Moving, Working, Submitting
  <2>4. pc' \in Working /\ pc \notin Moving \cup {"dirlost"}
    BY <1>0, <1>3 DEF Working, Moving
  <2> QED
    BY <1>0, <1>1, <1>2, <2>2, <2>3, <2>4, Advances
<1>4. CASE pc' = "workdir" /\ job' = [job EXCEPT !.how = "full"]
  <2>2. job' \in JobState /\ job'.task = job.task
    BY <1>0, <1>4 DEF JobState, Hows
  <2>3. InTaskDir' /\ Stamped' /\ HowIsSettled' /\ ReadyIsReset' /\ LastIsReset'
        /\ NudgeIsChecked' /\ JobIsHeld'
    BY <1>4 DEF InTaskDir, Stamped, HowIsSettled, ReadyIsReset, LastIsReset,
       NudgeIsChecked, JobIsHeld, Moving, Working, Submitting
  <2>4. pc \notin Moving \cup {"dirlost"}
    BY <1>0 DEF Moving
  <2> QED
    BY <1>0, <1>1, <1>2, <1>4, <2>2, <2>3, <2>4, Advances
<1> QED
  BY <1>3, <1>4 DEF ResumePreflight

LEMMA GotoKeepsJob ==
    ASSUME DeliveryInv, NEW l, Goto(l)
    PROVE  pc' = l /\ job' = job /\ job' \in JobState
BY DEF Goto, DeliveryInv, DeliveryTypeOK

\* A retry, with the pane as it is.
LEMMA RetryKeeps ==
    ASSUME DeliveryInv, PaneKept, VarsKept, pasted' = pasted, Retry, pc # "idle",
           pc \notin Moving \cup {"dirlost"} \/ tv'.cwd = NoDir
    PROVE  DeliveryInv'
<1>1. DeliveryTypeOK
  BY DEF DeliveryInv
<1> QED
  BY <1>1, RetryEnds, Leaves

LEMMA DeliverKeeps ==
    ASSUME DeliveryInv, PaneKept, VarsKept, pasted' = pasted, pc' = "idle", job' = NoJob,
           pc \notin Moving \cup {"dirlost"}
    PROVE  DeliveryInv'
BY DeliverEnds, Leaves

LEMMA WorkingDirKeeps ==
    ASSUME DeliveryInv, EnsureWorkingDir
    PROVE  DeliveryInv'
<1>0. DeliveryTypeOK /\ pc = "workdir" /\ pasted' = pasted /\ job.task \in Tasks
      /\ job \in JobState /\ tv \in UserVars /\ pane \in PaneState
      /\ DirOf[job.task] \in Dirs
  BY DeliveryAssumption DEF DeliveryInv, DeliveryTypeOK, EnsureWorkingDir, Quiet
<1>1. CASE tv.cwd = DirOf[job.task] /\ Goto("stamp") /\ UNCHANGED <<pane, tv, st, faults>>
  <2>1. PaneKept /\ VarsKept /\ pc' = "stamp" /\ job' = job
    BY <1>1, PaneAlone, VarsAlone DEF Goto
  <2>2. pane.cwd = DirOf[job.task]
    BY <1>0, <1>1, DeliveryAssumption DEF DeliveryInv, TrackedDir, Moving
  <2>3. InTaskDir' /\ Stamped' /\ HowIsSettled' /\ ReadyIsReset' /\ LastIsReset'
        /\ NudgeIsChecked' /\ JobIsHeld'
    BY <1>1, <2>1, <2>2 DEF InTaskDir, Stamped, HowIsSettled, ReadyIsReset, LastIsReset,
       NudgeIsChecked, JobIsHeld, Moving, Working, Submitting
  <2>4. pc' \in Working /\ pc \notin Moving \cup {"dirlost"} /\ pc # "idle"
    BY <1>0, <2>1 DEF Working, Moving
  <2> QED
    BY <1>0, <2>1, <2>3, <2>4, Advances
<1>2. CASE pane' = FreshShell(DirOf[job.task]) /\ tv' = Respawned(tv) /\ Goto("shell")
  <2>1. pc' = "shell" /\ job' = job
    BY <1>2 DEF Goto
  <2>2. <<>> \in Seq(Tasks)
    OBVIOUS
  <2>3. pane' \in PaneState /\ pane'.agent = "shell" /\ pane'.cwd = DirOf[job.task]
    BY <1>0, <1>2, <2>2 DEF PaneState, FreshShell
  <2>4. tv' \in UserVars
    BY <1>0, <1>2 DEF Respawned, UserVars
  <2>5. DeliveryTypeOK' /\ TrackedDir' /\ HeldIsGuarded' /\ LastIsHeld' /\ InTaskDir'
    BY <1>0, <2>1, <2>3, <2>4 DEF DeliveryTypeOK, TrackedDir, HeldIsGuarded, LastIsHeld, InTaskDir,
       Moving
  <2>6. Stamped' /\ HowIsSettled' /\ ReadyIsReset' /\ LastIsReset' /\ NudgeIsChecked'
        /\ JobIsHeld'
    BY <2>1 DEF Stamped, HowIsSettled, ReadyIsReset, LastIsReset,
       NudgeIsChecked, JobIsHeld, Working, Submitting
  <2>7. PastedWhereMeant'
    BY <1>0 DEF DeliveryInv, PastedWhereMeant, NudgeKeepsConversation, InRightDir
  <2> QED
    BY <2>5, <2>6, <2>7 DEF DeliveryInv
<1>3. CASE Retry /\ UNCHANGED <<pane, tv>>
  <2>1. pc # "idle" /\ pc \notin Moving \cup {"dirlost"}
    BY <1>0 DEF Moving
  <2> QED
    BY <1>0, <1>3, <2>1, PaneAlone, VarsAlone, RetryKeeps
<1> QED
  BY <1>1, <1>2, <1>3 DEF EnsureWorkingDir

LEMMA ResetLaunchKeeps ==
    ASSUME DeliveryInv, "setvar" \notin FaultKinds, ResetBeforeLaunch
    PROVE  DeliveryInv'
<1>0. DeliveryTypeOK /\ pc = "shell" /\ pane' = pane /\ pasted' = pasted /\ job.task \in Tasks
      /\ job \in JobState /\ tv \in UserVars
  BY DEF DeliveryInv, DeliveryTypeOK, ResetBeforeLaunch, Quiet
<1>1. tv' = [tv EXCEPT !.ready = FALSE, !.readyPid = "none"] /\ Goto("launch")
  BY <1>0, Writes DEF ResetBeforeLaunch, Apply
<1>2. VarsKept /\ ~tv'.ready
  BY <1>0, <1>1, Reset DEF VarsKept
<1>3. PaneKept /\ pc' = "launch" /\ job' = job
  BY <1>0, <1>1, PaneAlone DEF Goto
<1>4. InTaskDir' /\ Stamped' /\ HowIsSettled' /\ ReadyIsReset' /\ LastIsReset'
      /\ NudgeIsChecked' /\ JobIsHeld'
  BY <1>0, <1>2, <1>3 DEF DeliveryInv, InTaskDir, Stamped, HowIsSettled, ReadyIsReset,
     LastIsReset, NudgeIsChecked, JobIsHeld, Moving, Working, Submitting
<1>5. pc' \in Moving /\ pc \in Moving
  BY <1>0, <1>3 DEF Moving
<1> QED
  BY <1>0, <1>2, <1>3, <1>4, <1>5, Advances

LEMMA DirLostKeeps ==
    ASSUME DeliveryInv, "setvar" \notin FaultKinds, DirLost
    PROVE  DeliveryInv'
<1>0. DeliveryTypeOK /\ pc = "dirlost" /\ pane' = pane /\ pasted' = pasted /\ tv \in UserVars
  BY DEF DeliveryInv, DeliveryTypeOK, DirLost, Quiet
<1>1. tv' = [tv EXCEPT !.cwd = NoDir] /\ Retry
  BY <1>0, Writes DEF DirLost, MarkCWDUnknownOnError, ResetCWD, Apply
<1>2. VarsKept /\ tv'.cwd = NoDir
  BY <1>0, <1>1 DEF VarsKept, UserVars
<1> QED
  BY <1>0, <1>1, <1>2, PaneAlone, RetryKeeps

LEMMA LaunchedPane ==
    ASSUME pane \in PaneState
    PROVE  /\ Launched(pane) \in PaneState /\ Launched(pane).cwd = pane.cwd
           /\ Launched(pane).conv = <<>> /\ Launched(pane).box = <<>>
<1>1. <<>> \in Seq(Tasks)
  OBVIOUS
<1> QED
  BY <1>1 DEF Launched, PaneState

LEMMA LaunchKeeps ==
    ASSUME DeliveryInv, Launch
    PROVE  DeliveryInv'
<1>0. DeliveryTypeOK /\ pc = "launch" /\ pasted' = pasted /\ job.task \in Tasks /\ tv' = tv
      /\ job \in JobState /\ tv \in UserVars /\ pane \in PaneState
  BY DEF DeliveryInv, DeliveryTypeOK, Launch, Quiet
<1>1. pc' \in {"setcwd", "dirlost"} /\ job' = job
  BY DEF Launch, Goto
<1>2. pane' \in PaneState /\ pane'.cwd = pane.cwd
      /\ (pane' = pane \/ (pane'.conv = <<>> /\ pane'.box = <<>>))
  BY <1>0, LaunchedPane DEF Launch
<1>3. ~tv'.ready
  BY <1>0 DEF DeliveryInv, ReadyIsReset
<1>4. DeliveryTypeOK' /\ TrackedDir' /\ InTaskDir' /\ LastIsHeld'
  BY <1>0, <1>1, <1>2, <1>3 DEF DeliveryInv, DeliveryTypeOK, TrackedDir, InTaskDir, LastIsHeld, Moving
<1>5. HeldIsGuarded'
  BY <1>0, <1>2, NoEnvelope DEF DeliveryInv, HeldIsGuarded, Transcript
<1>6. Stamped' /\ HowIsSettled' /\ ReadyIsReset' /\ LastIsReset' /\ NudgeIsChecked'
      /\ JobIsHeld'
  BY <1>1 DEF Stamped, HowIsSettled, ReadyIsReset, LastIsReset, NudgeIsChecked, JobIsHeld,
     Working, Submitting
<1>7. PastedWhereMeant'
  BY <1>0 DEF DeliveryInv, PastedWhereMeant, NudgeKeepsConversation, InRightDir
<1> QED
  BY <1>4, <1>5, <1>6, <1>7 DEF DeliveryInv


LEMMA TrackKeeps ==
    ASSUME DeliveryInv, "setvar" \notin FaultKinds, TrackWorkingDir
    PROVE  DeliveryInv'
<1>0. DeliveryTypeOK /\ pc = "setcwd" /\ pane' = pane /\ pasted' = pasted /\ job.task \in Tasks
      /\ job \in JobState /\ tv \in UserVars /\ DirOf[job.task] \in Dirs
  BY DeliveryAssumption DEF DeliveryInv, DeliveryTypeOK, TrackWorkingDir, Quiet
<1>1. tv' = [tv EXCEPT !.cwd = DirOf[job.task]] /\ Goto("stamp")
  BY <1>0, Writes DEF TrackWorkingDir, SetCWD, Apply
<1>2. /\ tv' \in UserVars /\ tv'.cwd = DirOf[job.task] /\ tv'.main = tv.main
      /\ tv'.last = tv.last /\ tv'.ready = tv.ready /\ tv'.readyPid = tv.readyPid
      /\ pc' = "stamp" /\ job' = job
  BY <1>0, <1>1 DEF UserVars, Goto
<1>3. pane.cwd = DirOf[job.task]
  BY <1>0 DEF DeliveryInv, InTaskDir, Moving
<1>4. DeliveryTypeOK' /\ TrackedDir' /\ InTaskDir' /\ HeldIsGuarded' /\ LastIsHeld'
  BY <1>0, <1>2, <1>3 DEF DeliveryInv, DeliveryTypeOK, TrackedDir, InTaskDir, HeldIsGuarded, LastIsHeld,
     Transcript, Working
<1>5. Stamped' /\ HowIsSettled' /\ ReadyIsReset' /\ LastIsReset' /\ NudgeIsChecked'
      /\ JobIsHeld'
  BY <1>2 DEF Stamped, HowIsSettled, ReadyIsReset, LastIsReset, NudgeIsChecked, JobIsHeld,
     Working, Submitting
<1>6. PastedWhereMeant'
  BY <1>0 DEF DeliveryInv, PastedWhereMeant, NudgeKeepsConversation, InRightDir
<1> QED
  BY <1>4, <1>5, <1>6 DEF DeliveryInv

\* The guard follows the task only after the pane is in the task's directory.
LEMMA StampKeeps ==
    ASSUME DeliveryInv, "setvar" \notin FaultKinds, StampRunOnMainVar
    PROVE  DeliveryInv'
<1> DEFINE needed == job.task \in Mains
<1>0. DeliveryTypeOK /\ pc = "stamp" /\ pane' = pane /\ pasted' = pasted /\ job.task \in Tasks
      /\ job \in JobState /\ tv \in UserVars
  BY DEF DeliveryInv, DeliveryTypeOK, StampRunOnMainVar, Quiet
<1>1. PaneKept
  BY <1>0, PaneAlone
<1>2. CASE tv' = tv /\ Retry
  <2>1. pc # "idle" /\ pc \notin Moving \cup {"dirlost"}
    BY <1>0 DEF Moving
  <2> QED
    BY <1>0, <1>1, <1>2, <2>1, VarsAlone, RetryKeeps
<1>3. CASE /\ tv' = tv \/ tv' = [tv EXCEPT !.main = needed]
           /\ tv'.main = needed
           /\ Goto(IF job.how = "nudge" THEN "nudge_wait" ELSE "running")
  <2>0. needed \in BOOLEAN
    OBVIOUS
  <2> HIDE DEF needed
  <2>1. /\ tv' \in UserVars /\ tv'.cwd = tv.cwd /\ tv'.last = tv.last /\ tv'.ready = tv.ready
        /\ tv'.readyPid = tv.readyPid
    BY <1>0, <1>3, <2>0 DEF UserVars
  <2>2. pc' = (IF job.how = "nudge" THEN "nudge_wait" ELSE "running") /\ job' = job
    BY <1>3 DEF Goto
  <2>3. pane.cwd = DirOf[job.task]
    BY <1>0 DEF DeliveryInv, InTaskDir, Working
  <2>4. DeliveryTypeOK' /\ TrackedDir' /\ InTaskDir' /\ LastIsHeld'
    BY <1>0, <2>1, <2>2, <2>3 DEF DeliveryInv, DeliveryTypeOK, TrackedDir, InTaskDir, LastIsHeld,
       Transcript, Moving, Working
  <2>5. HeldIsGuarded'
    BY <1>0, <1>3, <2>3, DeliveryAssumption DEF needed, DeliveryInv, HeldIsGuarded, Transcript
  <2>6. Stamped'
    BY <1>3, <2>2 DEF needed, Stamped
  <2>7. HowIsSettled' /\ ReadyIsReset' /\ LastIsReset' /\ NudgeIsChecked' /\ JobIsHeld'
    BY <2>2 DEF HowIsSettled, ReadyIsReset, LastIsReset, NudgeIsChecked, JobIsHeld,
       Submitting
  <2>8. PastedWhereMeant'
    BY <1>0 DEF DeliveryInv, PastedWhereMeant, NudgeKeepsConversation, InRightDir
  <2> QED
    BY <2>4, <2>5, <2>6, <2>7, <2>8 DEF DeliveryInv
<1>4. PICK o \in Stamp : /\ Apply(o)
         /\ IF o.err \/ o.v.main # (job.task \in Mains) THEN Retry
              ELSE /\ Goto(IF job.how = "nudge" THEN "nudge_wait" ELSE "running")
                   /\ st' = st
  BY DEF StampRunOnMainVar
<1>5. \/ o = [v |-> [tv EXCEPT !.main = needed], err |-> FALSE, cost |-> 0]
      \/ o = [v |-> tv, err |-> FALSE, cost |-> 1]
  BY <1>0, <1>4, Writes DEF Stamp
<1>6. tv' = o.v /\ ~o.err
  BY <1>4, <1>5 DEF Apply
<1>7. [tv EXCEPT !.main = needed].main = needed
  BY <1>0 DEF UserVars
<1>8. CASE o = [v |-> [tv EXCEPT !.main = needed], err |-> FALSE, cost |-> 0]
  <2>1. o.v = [tv EXCEPT !.main = needed]
    BY <1>8
  <2> QED
    BY <1>3, <1>4, <1>6, <1>7, <2>1
<1>9. CASE o = [v |-> tv, err |-> FALSE, cost |-> 1]
  <2>1. o.v = tv
    BY <1>9
  <2> QED
    BY <1>2, <1>3, <1>4, <1>6, <2>1
<1> QED
  BY <1>5, <1>8, <1>9

\* A pane with nothing said in it any more, and clear_ready not set.
LEMMA Afresh ==
    ASSUME DeliveryInv, pane' \in PaneState, pane'.cwd = pane.cwd, Transcript' = <<>>,
           VarsKept, ~tv'.ready, pasted' = pasted, job' \in JobState,
           pc \notin Moving \cup {"dirlost"}, pc \notin {"idle", "start"},
           pc' \in {"idle", "start", "restart"},
           pc' # "idle" => job'.task = job.task,
           pc' = "restart" => pc \in Working \ {"stamp"}
    PROVE  DeliveryInv'
<1>1. DeliveryTypeOK'
  BY DEF DeliveryInv, DeliveryTypeOK, VarsKept, Working
<1>2. TrackedDir'
  BY DEF DeliveryInv, TrackedDir, VarsKept
<1>3. HeldIsGuarded' /\ LastIsHeld'
  BY NothingHeld DEF HeldIsGuarded, LastIsHeld
<1>4. PastedWhereMeant'
  BY DEF DeliveryInv, PastedWhereMeant, NudgeKeepsConversation, InRightDir
<1>5. InTaskDir' /\ Stamped'
  BY DEF DeliveryInv, InTaskDir, Stamped, VarsKept, Moving, Working
<1>6. HowIsSettled' /\ ReadyIsReset' /\ LastIsReset' /\ NudgeIsChecked' /\ JobIsHeld'
  BY DEF HowIsSettled, ReadyIsReset, LastIsReset, NudgeIsChecked, JobIsHeld, Submitting
<1> QED
  BY <1>1, <1>2, <1>3, <1>4, <1>5, <1>6 DEF DeliveryInv

LEMMA ClaudeRunningKeeps ==
    ASSUME DeliveryInv, "setvar" \notin FaultKinds, EnsureClaudeRunning
    PROVE  DeliveryInv'
<1>0. DeliveryTypeOK /\ pc = "running" /\ pasted' = pasted /\ job.task \in Tasks
      /\ job \in JobState /\ tv \in UserVars /\ pane \in PaneState
  BY DEF DeliveryInv, DeliveryTypeOK, EnsureClaudeRunning, Quiet
<1>p. pc \notin Moving \cup {"dirlost"} /\ pc \in Working \ {"stamp"} /\ pc # "idle"
  BY <1>0 DEF Moving, Working
<1>1. CASE pane' = pane /\ tv' = tv /\ Goto("restart")
  <2>1. PaneKept /\ VarsKept /\ pc' = "restart" /\ job' = job
    BY <1>1, PaneAlone, VarsAlone DEF Goto
  <2>2. InTaskDir' /\ Stamped' /\ HowIsSettled' /\ ReadyIsReset' /\ LastIsReset'
        /\ NudgeIsChecked' /\ JobIsHeld'
    BY <1>0, <1>1, <2>1 DEF DeliveryInv, InTaskDir, Stamped, HowIsSettled, ReadyIsReset,
       LastIsReset, NudgeIsChecked, JobIsHeld, Moving, Working, Submitting
  <2>3. pc' \in Working
    BY <2>1 DEF Working
  <2> QED
    BY <1>0, <1>p, <2>1, <2>2, <2>3, Advances
<1>2. CASE /\ tv' = [tv EXCEPT !.ready = FALSE, !.readyPid = "none"]
           /\ pane' \in {pane, Launched(pane)}
           /\ \/ pane' = Launched(pane) /\ Goto("restart")
              \/ Retry
  <2>1. VarsKept /\ ~tv'.ready
    BY <1>0, <1>2, Reset DEF VarsKept
  <2>2. CASE pane' = pane /\ Retry
    BY <1>0, <1>p, <2>1, <2>2, PaneAlone, RetryKeeps
  <2>3. CASE pane' = Launched(pane)
    <3>1. pane' \in PaneState /\ pane'.cwd = pane.cwd /\ Transcript' = <<>>
      BY <1>0, <2>3, LaunchedPane, NoEnvelope DEF Transcript
    <3>2. job' \in JobState /\ pc' \in {"idle", "start", "restart"}
          /\ (pc' # "idle" => job'.task = job.task)
      <4>1. CASE Goto("restart")
        BY <1>0, <4>1 DEF Goto
      <4>2. CASE Retry
        <5>1. job' \in JobState /\ pc' \in {"idle", "start"}
          BY <1>0, <4>2, RetryEnds
        <5>2. pc' # "idle" => job'.task = job.task
          BY <1>0, <4>2 DEF Retry, JobState
        <5> QED
          BY <5>1, <5>2
      <4> QED
        BY <1>2, <4>1, <4>2
    <3> QED
      BY <1>0, <1>p, <2>1, <3>1, <3>2, Afresh
  <2> QED
    BY <1>2, <2>2, <2>3
<1>3. CASE pane.agent = "up"
  BY <1>1, <1>3 DEF EnsureClaudeRunning
<1>4. CASE pane.agent # "up"
  <2>1. PICK o \in ResetClearReady :
                /\ tv' = o.v
                /\ \/ /\ pane' = Launched(pane) /\ Goto("restart") /\ st' = st
                      /\ faults' = faults + o.cost
                   \/ /\ o.cost = 0 /\ Cost("launch")
                      /\ pane' \in {pane, Launched(pane)} /\ Retry
    BY <1>4 DEF EnsureClaudeRunning
  <2>2. o.v = [tv EXCEPT !.ready = FALSE, !.readyPid = "none"]
    BY <1>0, <2>1, Writes
  <2> QED
    BY <1>2, <2>1, <2>2
<1> QED
  BY <1>3, <1>4

LEMMA RestartKeeps ==
    ASSUME DeliveryInv, "setvar" \notin FaultKinds, CheckProcessRestart
    PROVE  DeliveryInv'
<1>0. DeliveryTypeOK /\ pc = "restart" /\ pane' = pane /\ pasted' = pasted /\ job.task \in Tasks
      /\ job \in JobState /\ tv \in UserVars
  BY DEF DeliveryInv, DeliveryTypeOK, CheckProcessRestart, Quiet
<1>1. /\ pc' = "wait" /\ job' = [job EXCEPT !.how = IF tv'.ready THEN "clear" ELSE "first"]
      /\ tv' = tv \/ tv' = [tv EXCEPT !.ready = FALSE, !.readyPid = "none"]
  <2>1. CASE Restarted
    BY <1>0, <2>1, Writes DEF CheckProcessRestart, Apply
  <2>2. CASE ~Restarted
    BY <2>2 DEF CheckProcessRestart
  <2> QED
    BY <2>1, <2>2
<1>2. VarsKept
  BY <1>0, <1>1, Reset, VarsAlone DEF VarsKept
<1>3. job' \in JobState /\ job'.task = job.task
      /\ job'.how = (IF tv'.ready THEN "clear" ELSE "first")
  BY <1>0, <1>1 DEF JobState, Hows
<1>4. InTaskDir' /\ Stamped' /\ HowIsSettled' /\ ReadyIsReset' /\ LastIsReset'
      /\ NudgeIsChecked' /\ JobIsHeld'
  BY <1>0, <1>1, <1>2, <1>3 DEF DeliveryInv, VarsKept, InTaskDir, Stamped, HowIsSettled,
     ReadyIsReset, LastIsReset, NudgeIsChecked, JobIsHeld, Moving, Working, Submitting
<1>5. pc' \in Working /\ pc \notin Moving \cup {"dirlost"} /\ pc # "idle"
  BY <1>0, <1>1 DEF Working, Moving
<1> QED
  BY <1>0, <1>2, <1>3, <1>4, <1>5, PaneAlone, Advances

LEMMA WaitKeeps ==
    ASSUME DeliveryInv, WaitReady
    PROVE  DeliveryInv'
<1>0. DeliveryTypeOK /\ pc \in {"wait", "nudge_wait"} /\ pane' = pane /\ pasted' = pasted
      /\ job.task \in Tasks /\ tv' = tv /\ job' = job /\ job \in JobState
  BY DEF DeliveryInv, DeliveryTypeOK, WaitReady, Quiet, Goto
<1>1. pc' = CASE job.how = "nudge" -> "busy" [] job.how = "first" -> "send"
              [] OTHER -> "clear"
  BY DEF WaitReady, Goto
<1>2. job.how \in {"first", "clear", "nudge"} /\ (job.how = "first" => ~tv.ready)
  BY <1>0 DEF DeliveryInv, HowIsSettled, ReadyIsReset
<1>3. \/ pc' = "busy" /\ job.how = "nudge"
      \/ pc' = "send" /\ job.how = "first"
      \/ pc' = "clear" /\ job.how = "clear"
  BY <1>1, <1>2
<1>4. InTaskDir' /\ Stamped' /\ HowIsSettled' /\ ReadyIsReset' /\ LastIsReset'
      /\ NudgeIsChecked' /\ JobIsHeld'
  BY <1>0, <1>2, <1>3 DEF DeliveryInv, InTaskDir, Stamped, HowIsSettled,
     ReadyIsReset, LastIsReset, NudgeIsChecked, JobIsHeld, Moving, Working, Submitting
<1>5. pc' \in Working /\ pc \notin Moving \cup {"dirlost"} /\ pc # "idle"
  BY <1>0, <1>3 DEF Working, Moving
<1> QED
  BY <1>0, <1>4, <1>5, PaneAlone, VarsAlone, Advances


LEMMA SubmittedPane ==
    ASSUME pane \in PaneState
    PROVE  /\ Submitted(pane) \in PaneState /\ Submitted(pane).cwd = pane.cwd
           /\ Submitted(pane).agent = pane.agent
           /\ Submitted(pane).conv \o Submitted(pane).box = pane.conv \o pane.box
<1>1. <<>> \in Seq(Tasks) /\ pane.conv \in Seq(Tasks) /\ pane.box \in Seq(Tasks)
  BY DEF PaneState
<1>2. pane.conv \o pane.box \in Seq(Tasks)
  BY <1>1
<1>3. (pane.conv \o pane.box) \o <<>> = pane.conv \o pane.box
  BY <1>2
<1>4. (pane.box # <<>> \/ pane.busy) \in BOOLEAN
  OBVIOUS
<1> DEFINE b == pane.box # <<>> \/ pane.busy
<1>5. Submitted(pane) = [pane EXCEPT !.conv = pane.conv \o pane.box, !.box = <<>>, !.busy = b]
  BY DEF Submitted, PaneState
<1> HIDE DEF b
<1> QED
  BY <1>1, <1>2, <1>3, <1>4, <1>5 DEF PaneState, b

LEMMA SubmittedKept ==
    ASSUME DeliveryInv, pane' = Submitted(pane)
    PROVE  PaneKept
BY SubmittedPane DEF DeliveryInv, DeliveryTypeOK, PaneKept, Transcript

LEMMA ClearKeeps ==
    ASSUME DeliveryInv, "setvar" \notin FaultKinds, ClearAndConfirm
    PROVE  DeliveryInv'
<1> DEFINE cleared == [pane EXCEPT !.conv = <<>>]
<1>0. DeliveryTypeOK /\ pc = "clear" /\ pasted' = pasted /\ job.task \in Tasks
      /\ job \in JobState /\ tv \in UserVars /\ pane \in PaneState
  BY DEF DeliveryInv, DeliveryTypeOK, ClearAndConfirm, Quiet
<1>p. pc \notin Moving \cup {"dirlost"} /\ pc # "idle" /\ pc # "start"
  BY <1>0 DEF Moving
<1>c. /\ cleared \in PaneState /\ cleared.cwd = pane.cwd
      /\ ClearTaken => cleared.conv \o cleared.box = <<>>
  <2>1. <<>> \in Seq(Tasks)
    OBVIOUS
  <2>2. cleared \in PaneState /\ cleared.cwd = pane.cwd /\ cleared.conv = <<>>
        /\ cleared.box = pane.box
    BY <1>0, <2>1 DEF PaneState
  <2> QED
    BY <2>2, NoEnvelope DEF ClearTaken
<1>1. CASE /\ ClearTaken /\ pane' = cleared /\ tv' = [tv EXCEPT !.last = NoTask]
           /\ Goto("busy")
  <2>1. pane' \in PaneState /\ pane'.cwd = pane.cwd /\ Transcript' = <<>>
    BY <1>c, <1>1 DEF Transcript
  <2>2. /\ tv' \in UserVars /\ tv'.cwd = tv.cwd /\ tv'.last = NoTask /\ tv'.main = tv.main
    BY <1>0, <1>1 DEF UserVars
  <2>3. pc' = "busy" /\ job' = job /\ job.how = "clear"
    BY <1>0, <1>1 DEF Goto, DeliveryInv, HowIsSettled
  <2>4. DeliveryTypeOK' /\ TrackedDir' /\ HeldIsGuarded' /\ LastIsHeld'
    BY <1>0, <1>p, <2>1, <2>2, <2>3, NothingHeld DEF DeliveryInv, DeliveryTypeOK, TrackedDir,
       HeldIsGuarded, LastIsHeld, Working
  <2>5. InTaskDir' /\ Stamped' /\ HowIsSettled' /\ ReadyIsReset' /\ LastIsReset'
        /\ NudgeIsChecked' /\ JobIsHeld'
    BY <1>0, <2>1, <2>2, <2>3 DEF DeliveryInv, InTaskDir, Stamped, HowIsSettled,
       ReadyIsReset, LastIsReset, NudgeIsChecked, JobIsHeld, Moving, Working, Submitting
  <2>6. PastedWhereMeant'
    BY <1>0 DEF DeliveryInv, PastedWhereMeant, NudgeKeepsConversation, InRightDir
  <2> QED
    BY <2>4, <2>5, <2>6 DEF DeliveryInv
<1>2. CASE /\ IF ClearTaken THEN pane' \in {pane, cleared}
                  ELSE pane' = IF pane.agent = "up" THEN Submitted(pane) ELSE pane
           /\ tv' = [tv EXCEPT !.ready = FALSE, !.readyPid = "none"] /\ Retry
  <2>1. VarsKept /\ ~tv'.ready
    BY <1>0, <1>2, Reset DEF VarsKept
  <2>2. CASE ClearTaken /\ pane' = cleared
    <3>1. pane' \in PaneState /\ pane'.cwd = pane.cwd /\ Transcript' = <<>>
      BY <1>c, <2>2 DEF Transcript
    <3>2. job' \in JobState /\ pc' \in {"idle", "start"}
      BY <1>0, <1>2, RetryEnds
    <3>3. pc' # "idle" => job'.task = job.task
      BY <1>0, <1>2 DEF Retry, JobState
    <3> QED
      BY <1>0, <1>p, <2>1, <3>1, <3>2, <3>3, Afresh
  <2>3. CASE pane' = pane \/ pane' = Submitted(pane)
    BY <1>0, <1>p, <1>2, <2>1, <2>3, PaneAlone, SubmittedKept, RetryKeeps
  <2> QED
    BY <1>2, <2>2, <2>3
<1>3. ASSUME NEW n, HandleClearFailure(n)
      PROVE  tv' = [tv EXCEPT !.ready = FALSE, !.readyPid = "none"] /\ Retry
  BY <1>0, <1>3, Writes DEF HandleClearFailure
<1>4. ASSUME \E o \in SetUserVar([tv EXCEPT !.last = NoTask]) : Apply(o)
      PROVE  tv' = [tv EXCEPT !.last = NoTask]
  BY <1>0, <1>4, Writes DEF Apply
<1>5. CASE /\ ClearTaken /\ pane' = cleared
           /\ \E o \in SetUserVar([tv EXCEPT !.last = NoTask]) : Apply(o)
           /\ Goto("busy")
  BY <1>1, <1>4, <1>5
<1>6. CASE /\ IF ClearTaken THEN pane' \in {pane, cleared}
                  ELSE pane' = IF pane.agent = "up" THEN Submitted(pane) ELSE pane
           /\ HandleClearFailure(IF ClearTaken THEN 1 ELSE 0)
  BY <1>2, <1>3, <1>6
<1> QED
  BY <1>5, <1>6 DEF ClearAndConfirm

LEMMA BusyKeeps ==
    ASSUME DeliveryInv, DetectBusyWithRetry
    PROVE  DeliveryInv'
<1>0. DeliveryTypeOK /\ pc = "busy" /\ pane' = pane /\ pasted' = pasted
      /\ job.task \in Tasks /\ tv' = tv /\ job \in JobState
  BY DEF DeliveryInv, DeliveryTypeOK, DetectBusyWithRetry, Quiet
<1>1. PaneKept /\ VarsKept
  BY <1>0, PaneAlone, VarsAlone
<1>2. pc \notin Moving \cup {"dirlost"} /\ pc # "idle"
  BY <1>0 DEF Moving
<1>3. CASE Retry
  BY <1>0, <1>1, <1>2, <1>3, RetryKeeps
<1>4. CASE Goto(IF job.how = "nudge" THEN "recheck" ELSE "send")
  <2>1. pc' = (IF job.how = "nudge" THEN "recheck" ELSE "send") /\ job' = job
    BY <1>4 DEF Goto
  <2>2. InTaskDir' /\ Stamped' /\ HowIsSettled' /\ ReadyIsReset' /\ LastIsReset'
        /\ NudgeIsChecked' /\ JobIsHeld'
    BY <1>0, <2>1 DEF DeliveryInv, InTaskDir, Stamped, HowIsSettled,
       ReadyIsReset, LastIsReset, NudgeIsChecked, JobIsHeld, Moving, Working, Submitting
  <2>3. pc' \in Working
    BY <2>1 DEF Working
  <2> QED
    BY <1>0, <1>1, <1>2, <2>1, <2>2, <2>3, Advances
<1> QED
  BY <1>3, <1>4 DEF DetectBusyWithRetry

LEMMA RecheckKeeps ==
    ASSUME DeliveryInv, "setvar" \notin FaultKinds, ResumeRecheck
    PROVE  DeliveryInv'
<1>0. DeliveryTypeOK /\ pc = "recheck" /\ pane' = pane /\ pasted' = pasted
      /\ job.task \in Tasks /\ job \in JobState /\ tv \in UserVars
  BY DEF DeliveryInv, DeliveryTypeOK, ResumeRecheck, Quiet
<1>1. PaneKept
  BY <1>0, PaneAlone
<1>2. pc \notin Moving \cup {"dirlost"} /\ pc # "idle"
  BY <1>0 DEF Moving
<1>3. CASE CanResumeInPlace(job.task)
  <2>1. pc' = "send" /\ job' = job /\ tv' = tv
    BY <1>3 DEF ResumeRecheck, Goto
  <2>2. tv.readyPid = "live" /\ tv.ready /\ tv.last = job.task
    BY <1>3 DEF CanResumeInPlace
  <2>3. InTaskDir' /\ Stamped' /\ HowIsSettled' /\ ReadyIsReset' /\ LastIsReset'
        /\ NudgeIsChecked' /\ JobIsHeld'
    BY <1>0, <2>1, <2>2 DEF DeliveryInv, InTaskDir, Stamped, HowIsSettled,
       ReadyIsReset, LastIsReset, NudgeIsChecked, JobIsHeld, Moving, Working, Submitting
  <2>4. pc' \in Working
    BY <2>1 DEF Working
  <2> QED
    BY <1>0, <1>1, <1>2, <2>1, <2>3, <2>4, VarsAlone, Advances
<1>4. CASE ~CanResumeInPlace(job.task)
  <2>1. Retry
    BY <1>4 DEF ResumeRecheck
  <2>2. VarsKept
    <3>1. CASE tv' = tv
      BY <3>1, VarsAlone
    <3>2. CASE \E o \in ResetClearReady : Apply(o)
      BY <1>0, <3>2, Writes, Reset DEF Apply, VarsKept
    <3> QED
      BY <1>4, <3>1, <3>2 DEF ResumeRecheck
  <2> QED
    BY <1>0, <1>1, <1>2, <2>1, <2>2, RetryKeeps
<1> QED
  BY <1>3, <1>4

\* The paste: into the agent that was looked at, in the directory and under
\* the guard of the task.
LEMMA SendKeeps ==
    ASSUME DeliveryInv, SendText
    PROVE  DeliveryInv'
<1>0. DeliveryTypeOK /\ pc = "send" /\ tv' = tv
      /\ job.task \in Tasks /\ job \in JobState /\ tv \in UserVars /\ pane \in PaneState
  BY DEF DeliveryInv, DeliveryTypeOK, SendText
<1>1. CASE pane.agent = "shell"
  <2>1. Retry /\ pane' = pane /\ pasted' = pasted
    BY <1>1 DEF SendText
  <2>2. pc \notin Moving \cup {"dirlost"} /\ pc # "idle"
    BY <1>0 DEF Moving
  <2> QED
    BY <1>0, <2>1, <2>2, PaneAlone, VarsAlone, RetryKeeps
<1>2. CASE pane.agent # "shell"
  <2>1. /\ pane' = [pane EXCEPT !.box = Append(@, job.task)]
        /\ pasted' = [task |-> job.task, how |-> job.how, cwd |-> pane.cwd,
                      main |-> tv.main, conv |-> Transcript]
        /\ pc' = "enter" /\ job' = job
    BY <1>2 DEF SendText, Goto, Transcript
  <2>2. pane.agent = "up" /\ pane.conv \in Seq(Tasks) /\ pane.box \in Seq(Tasks)
        /\ Append(pane.box, job.task) \in Seq(Tasks)
    BY <1>0, <1>2 DEF PaneState
  <2>3. /\ pane' \in PaneState /\ pane'.cwd = pane.cwd /\ pane'.conv = pane.conv
        /\ pane'.box = Append(pane.box, job.task)
    BY <1>0, <2>1, <2>2 DEF PaneState
  <2>4. Transcript \in Seq(Tasks)
    BY <2>2 DEF Transcript
  <2>5. Transcript' = Append(Transcript, job.task)
    <3>1. Transcript' = pane.conv \o Append(pane.box, job.task)
      BY <2>3 DEF Transcript
    <3> DEFINE c == pane.conv
               e == pane.box
               t == job.task
    <3>2. c \in Seq(Tasks) /\ e \in Seq(Tasks) /\ t \in Tasks
      BY <1>0, <2>2
    <3> HIDE DEF c, e, t
    <3>3. c \o Append(e, t) = Append(c \o e, t)
      BY <3>2, Envelopes
    <3> QED
      BY <3>1, <3>3 DEF Transcript, c, e, t
  <2>6. EndsWith(Transcript', job.task) /\ Held(Transcript') = Held(Transcript) \cup {job.task}
    BY <1>0, <2>4, <2>5, Envelopes
  <2>7. pane.cwd = DirOf[job.task] /\ tv.main = (job.task \in Mains)
    BY <1>0 DEF DeliveryInv, InTaskDir, Stamped, Working
  <2>8. /\ job.how \in {"nudge", "first", "clear"}
        /\ job.how = "first" => ~tv.ready
        /\ job.how = "clear" => tv.last = NoTask
        /\ job.how = "nudge" => tv.ready /\ tv.readyPid = "live" /\ tv.last = job.task
    BY <1>0 DEF DeliveryInv, HowIsSettled, ReadyIsReset, LastIsReset, NudgeIsChecked
  <2>9. DeliveryTypeOK' /\ TrackedDir' /\ InTaskDir' /\ Stamped' /\ HowIsSettled'
    BY <1>0, <2>1, <2>3, <2>7, <2>8 DEF DeliveryInv, DeliveryTypeOK, TrackedDir, InTaskDir, Stamped,
       HowIsSettled, Moving, Working, Submitting
  <2>10. ReadyIsReset' /\ LastIsReset' /\ NudgeIsChecked' /\ JobIsHeld'
    BY <1>0, <2>1, <2>6, <2>8 DEF ReadyIsReset, LastIsReset, NudgeIsChecked, JobIsHeld
  <2>11. LastIsHeld'
    BY <1>0, <2>6, <2>8 DEF LastIsHeld
  <2>12. HeldIsGuarded'
    <3>1. CASE job.task \in Mains
      BY <1>0, <2>3, <2>7, <3>1, DeliveryAssumption DEF HeldIsGuarded
    <3>2. CASE job.task \notin Mains
      <4>1. Held(Transcript') \cap Mains = Held(Transcript) \cap Mains
        BY <2>6, <3>2
      <4> QED
        BY <1>0, <2>2, <2>3, <4>1 DEF DeliveryInv, HeldIsGuarded
    <3> QED
      BY <3>1, <3>2
  <2>13. PastedWhereMeant'
    <3>1. job.how = "nudge" => EndsWith(Transcript, job.task)
      BY <1>0, <2>2, <2>8, DeliveryAssumption DEF DeliveryInv, LastIsHeld
    <3> HIDE DEF Transcript
    <3> QED
      BY <2>1, <2>7, <3>1 DEF PastedWhereMeant, NudgeKeepsConversation, InRightDir, EndsWith
  <2> QED
    BY <2>9, <2>10, <2>11, <2>12, <2>13 DEF DeliveryInv
<1> QED
  BY <1>1, <1>2


\* A key press or a probe while the envelope is being submitted.
LEMMA Submits ==
    ASSUME DeliveryInv, PaneKept, tv' = tv, pasted' = pasted, job' = job,
           pc \in Submitting, pc' \in Submitting
    PROVE  DeliveryInv'
<1>1. DeliveryTypeOK /\ job \in JobState /\ pc # "idle" /\ pc \notin Moving \cup {"dirlost"}
      /\ pc' \in Working /\ pc \in Working \ {"stamp"} /\ pc' \in Working \ {"stamp"}
  BY DEF DeliveryInv, DeliveryTypeOK, Submitting, Moving, Working
<1>2. InTaskDir' /\ Stamped'
  BY <1>1 DEF DeliveryInv, PaneKept, InTaskDir, Stamped
<1>3. HowIsSettled' /\ ReadyIsReset' /\ LastIsReset' /\ NudgeIsChecked'
  BY DEF DeliveryInv, HowIsSettled, ReadyIsReset, LastIsReset, NudgeIsChecked, Submitting
<1>4. JobIsHeld'
  BY DEF DeliveryInv, JobIsHeld, PaneKept
<1> QED
  BY <1>1, <1>2, <1>3, <1>4, VarsAlone, Advances

LEMMA EnterKeeps ==
    ASSUME DeliveryInv, SendEnter
    PROVE  DeliveryInv'
<1>1. pc = "enter" /\ tv' = tv /\ pasted' = pasted /\ pc # "idle"
      /\ pc \notin Moving \cup {"dirlost"} /\ pc \in Submitting /\ "confirm" \in Submitting
  BY DEF SendEnter, Quiet, Moving, Submitting
<1>2. PaneKept
  BY PaneAlone, SubmittedKept DEF SendEnter
<1>3. CASE Retry
  BY <1>1, <1>2, <1>3, VarsAlone, RetryKeeps
<1>4. CASE Goto("confirm")
  BY <1>1, <1>2, <1>4, GotoKeepsJob, Submits
<1> QED
  BY <1>3, <1>4 DEF SendEnter

LEMMA ConfirmKeeps ==
    ASSUME DeliveryInv, ConfirmSubmitted
    PROVE  DeliveryInv'
<1>1. pc = "confirm" /\ tv' = tv /\ pasted' = pasted /\ pc # "idle"
      /\ pc \notin Moving \cup {"dirlost"} /\ pc \in Submitting
      /\ "confirm" \in Submitting /\ "stamped" \in Submitting
  BY DEF ConfirmSubmitted, Quiet, Moving, Submitting
<1>2. PaneKept
  <2>1. CASE pane' = pane \/ pane' = Submitted(pane)
    BY <2>1, PaneAlone, SubmittedKept
  <2>2. CASE pane' = [pane EXCEPT !.busy = FALSE]
    BY <2>2 DEF DeliveryInv, DeliveryTypeOK, PaneKept, PaneState, Transcript
  <2> QED
    BY <2>1, <2>2 DEF ConfirmSubmitted
<1>3. CASE Retry
  BY <1>1, <1>2, <1>3, VarsAlone, RetryKeeps
<1>4. CASE job' = job /\ pc' \in {"confirm", "stamped"}
  BY <1>1, <1>2, <1>4, Submits
<1>5. CASE pc' = "idle" /\ job' = NoJob
  BY <1>1, <1>2, <1>5, VarsAlone, DeliverKeeps
<1> QED
  BY <1>3, <1>4, <1>5 DEF ConfirmSubmitted, Deliver, Goto

\* What is recorded of a confirmed delivery is what the agent holds.
LEMMA LastKeeps ==
    ASSUME DeliveryInv, "setvar" \notin FaultKinds, StampLastTaskID
    PROVE  DeliveryInv'
<1>0. DeliveryTypeOK /\ pc = "stamped" /\ pane' = pane /\ pasted' = pasted /\ pc' = "idle"
      /\ job' = NoJob /\ job.task \in Tasks /\ tv \in UserVars
  BY DEF DeliveryInv, DeliveryTypeOK, StampLastTaskID, Quiet, Deliver
<1>1. CASE tv' = tv
  <2>1. pc \notin Moving \cup {"dirlost"}
    BY <1>0 DEF Moving
  <2> QED
    BY <1>0, <1>1, <2>1, PaneAlone, VarsAlone, DeliverKeeps
<1>2. CASE \E v \in {tv, [tv EXCEPT !.ready = TRUE, !.readyPid = "live"]} :
             tv' = [v EXCEPT !.last = job.task]
  <2>1. PICK v \in {tv, [tv EXCEPT !.ready = TRUE, !.readyPid = "live"]} :
             tv' = [v EXCEPT !.last = job.task]
    BY <1>2
  <2>2. v \in UserVars /\ v.main = tv.main /\ v.cwd = tv.cwd
    BY <1>0 DEF UserVars
  <2>3. tv' \in UserVars /\ tv'.main = tv.main /\ tv'.cwd = tv.cwd /\ tv'.last = job.task
    BY <1>0, <2>1, <2>2 DEF UserVars
  <2>4. pane.agent = "up" => EndsWith(Transcript, job.task)
    BY <1>0 DEF DeliveryInv, JobIsHeld, Submitting
  <2>5. LastIsHeld' /\ HeldIsGuarded'
    BY <1>0, <2>3, <2>4 DEF LastIsHeld, HeldIsGuarded, DeliveryInv, Transcript
  <2>6. DeliveryTypeOK' /\ TrackedDir'
    BY <1>0, <2>3, DeliverEnds DEF DeliveryTypeOK, TrackedDir, DeliveryInv, Moving
  <2>7. PastedWhereMeant'
    BY <1>0 DEF DeliveryInv, PastedWhereMeant, NudgeKeepsConversation, InRightDir
  <2> QED
    BY <1>0, <2>5, <2>6, <2>7, IdleInv
<1>3. CASE job.how = "nudge"
  BY <1>1, <1>3 DEF StampLastTaskID
<1>4. CASE job.how # "nudge"
  <2>1. PICK o \in (IF job.how = "first" THEN SetClearReady(tv)
                    ELSE {[v |-> tv, cost |-> 0]}) :
                \/ tv' = [o.v EXCEPT !.last = job.task] /\ faults' = faults + o.cost
                \/ /\ tv' = o.v /\ faults' = faults + o.cost + 1
                   /\ "setvar" \in FaultKinds /\ faults' <= MaxFaults
    BY <1>4 DEF StampLastTaskID
  <2>2. o.v \in {tv, [tv EXCEPT !.ready = TRUE, !.readyPid = "live"]}
    BY <1>0, <2>1, Writes
  <2> QED
    BY <1>2, <2>1, <2>2
<1> QED
  BY <1>3, <1>4

LEMMA NotFoundKeeps ==
    ASSUME DeliveryInv, PaneNotFound
    PROVE  DeliveryInv'
<1>1. pc = "start" /\ pane' = pane /\ tv' = tv /\ pasted' = pasted /\ pc' = "idle"
      /\ job' = NoJob /\ pc \notin Moving \cup {"dirlost"}
  BY DEF PaneNotFound, Quiet, Moving
<1> QED
  BY <1>1, PaneAlone, VarsAlone, DeliverKeeps

LEMMA ProbeKeeps ==
    ASSUME DeliveryInv, ProbeFails
    PROVE  DeliveryInv'
<1>1. pane' = pane /\ tv' = tv /\ pasted' = pasted /\ pc # "idle"
      /\ pc \in {"nudge_wait", "recheck", "shell", "running", "restart", "wait", "send"}
  BY DEF ProbeFails, Quiet
<1>2. CASE pc = "shell"
  <2>1. pc' = "dirlost" /\ job' = job /\ job' \in JobState
    BY <1>2, GotoKeepsJob DEF ProbeFails
  <2>2. InTaskDir' /\ Stamped' /\ HowIsSettled' /\ ReadyIsReset' /\ LastIsReset'
        /\ NudgeIsChecked' /\ JobIsHeld'
    BY <2>1 DEF InTaskDir, Stamped, HowIsSettled,
       ReadyIsReset, LastIsReset, NudgeIsChecked, JobIsHeld, Moving, Working, Submitting
  <2> QED
    BY <1>1, <2>1, <2>2, PaneAlone, VarsAlone, Advances
<1>3. CASE pc # "shell"
  <2>1. Retry /\ pc \notin Moving \cup {"dirlost"}
    BY <1>1, <1>3 DEF ProbeFails, Moving
  <2> QED
    BY <1>1, <2>1, PaneAlone, VarsAlone, RetryKeeps
<1> QED
  BY <1>2, <1>3

-----------------------------------------------------------------------------
(* The panes: the invariant holds throughout.                              *)

LEMMA DeliveryStarts ==
    ASSUME Init
    PROVE  DeliveryInv
<1>1. <<>> \in Seq(Tasks) /\ Root \in Dirs
  BY DeliveryAssumption
<1>2. NoJob \in JobState
  BY DEF NoJob, JobState, Hows
<1>3. DeliveryTypeOK
  BY <1>1, <1>2 DEF Init, DeliveryTypeOK, PaneState, UserVars
<1>4. Transcript = <<>>
  BY NoEnvelope DEF Init, Transcript
<1>5. TrackedDir /\ HeldIsGuarded /\ LastIsHeld /\ PastedWhereMeant
  BY <1>4, NothingHeld DEF Init, TrackedDir, HeldIsGuarded, LastIsHeld, PastedWhereMeant,
     NudgeKeepsConversation, InRightDir, NoPaste
<1>6. InTaskDir /\ Stamped /\ HowIsSettled /\ ReadyIsReset /\ LastIsReset
      /\ NudgeIsChecked /\ JobIsHeld
  BY DEF Init, InTaskDir, Stamped, HowIsSettled, ReadyIsReset, LastIsReset, NudgeIsChecked,
     JobIsHeld, Moving, Working, Submitting
<1> QED
  BY <1>3, <1>5, <1>6 DEF DeliveryInv

LEMMA DeliverySteps ==
    ASSUME "setvar" \notin FaultKinds, DeliveryInv, [Next]_vars
    PROVE  DeliveryInv'
<1>1. CASE \E t \in Tasks : DispatchTask(t) \/ Interrupt(t)
  BY <1>1, DispatchKeeps, InterruptKeeps
<1>2. CASE \E t \in Tasks, n \in BOOLEAN : Released(t, n)
  BY <1>2, ReleasedKeeps
<1>3. CASE \E d \in Dirs : Cleanup(d)
  BY <1>3, CleanupKeeps
<1>4. CASE AgentStops \/ AgentWakes \/ AgentCrashes \/ AgentFinishes
  BY <1>4, AgentKeeps
<1>5. CASE Executor
  BY <1>5, PreflightKeeps, WorkingDirKeeps, ResetLaunchKeeps, DirLostKeeps, LaunchKeeps,
     TrackKeeps, StampKeeps, ClaudeRunningKeeps, RestartKeeps, WaitKeeps, ClearKeeps,
     BusyKeeps, RecheckKeeps, SendKeeps, EnterKeeps, ConfirmKeeps, LastKeeps DEF Executor
<1>6. CASE PaneNotFound \/ ProbeFails
  BY <1>6, NotFoundKeeps, ProbeKeeps
<1>7. CASE UNCHANGED vars
  BY <1>7, PaneAlone, Stays DEF vars
<1> QED
  BY <1>1, <1>2, <1>3, <1>4, <1>5, <1>6, <1>7 DEF Next

LEMMA DeliveryInvariance ==
    ASSUME "setvar" \notin FaultKinds
    PROVE  Spec => []DeliveryInv
<1>1. Init => DeliveryInv
  BY DeliveryStarts
<1>2. DeliveryInv /\ [Next]_vars => DeliveryInv'
  BY DeliverySteps
<1> QED
  BY <1>1, <1>2, PTL DEF Spec

\* As long as tmux does not refuse to write its user variables, a nudge meets
\* the conversation it continues and every envelope is pasted in the
\* directory of its task, whatever crashes, gets lost or is retried
\* (canResumeInPlace, ensureWorkingDir, clearAndConfirm, stampLastTaskID).
THEOREM EnvelopesGoWhereMeant ==
    ASSUME "setvar" \notin FaultKinds
    PROVE  Spec => []PastedWhereMeant
<1>1. DeliveryInv => PastedWhereMeant
  BY DEF DeliveryInv
<1> QED
  BY <1>1, DeliveryInvariance, PTL

\* ... and an agent that remembers an envelope of a RunOnMain task is under
\* the read-only guard (stampRunOnMainVar, ensureWorkingDir).
THEOREM GuardStaysUp ==
    ASSUME "setvar" \notin FaultKinds
    PROVE  Spec => []GuardCoversAgent
<1>1. DeliveryInv => GuardCoversAgent
  <2> SUFFICES ASSUME DeliveryInv, pane.agent = "up", Held(pane.conv) \cap Mains # {}
               PROVE  tv.main
    BY DEF GuardCoversAgent
  <2>1. pane.conv \in Seq(Tasks) /\ pane.box \in Seq(Tasks)
    BY DEF DeliveryInv, DeliveryTypeOK, PaneState
  <2>2. Tasks # {}
    BY DeliveryAssumption
  <2>3. Held(pane.conv) \subseteq Held(Transcript)
    BY <2>1, <2>2, Envelopes DEF Transcript
  <2> QED
    BY <2>3 DEF DeliveryInv, HeldIsGuarded
<1> QED
  BY <1>1, DeliveryInvariance, PTL


-----------------------------------------------------------------------------
(* The panes: the console.                                                 *)

Exchanging == {"paste", "enter", "probe"}
SenderState == [pc : {"start", "lock", "sent", "unsure"} \cup Exchanging,
                tries : Nat, probe : Nat]
PaneOfConsole == [box : SUBSET Senders, turns : SUBSET SUBSET Senders,
                  working : BOOLEAN, marker : BOOLEAN, draft : {"none", "typing", "static"}]

ConsoleTypeOK ==
    /\ con \in PaneOfConsole /\ mutex \in Senders \cup {Nobody}
    /\ snd \in [Senders -> SenderState]

\* The mutex is held from before the paste until the result.
HolderIsAtPane == \A s \in Senders : snd[s].pc \in Exchanging <=> mutex = s

\* A pasted message is in the box or in a turn.
Reached(s) == \E t \in con.turns : s \in t
PastedIsThere ==
    /\ \A s \in Senders : snd[s].pc \in {"enter", "probe"} => s \in con.box \/ Reached(s)
    /\ \A s \in Senders : snd[s].pc = "sent" => Reached(s)

\* As long as no delivery ended in doubt, what is in the box is of the sender
\* at the pane, and every turn is one message.
Certain == \A s \in Senders : snd[s].pc # "unsure"
BoxIsOwn ==
    Certain => \A s \in con.box : snd[s].pc \in {"enter", "probe"}
TurnsAreSingle == Certain => \A t \in con.turns : \A s \in t : t = {s}

ConsoleInv ==
    ConsoleTypeOK /\ HolderIsAtPane /\ PastedIsThere /\ BoxIsOwn /\ TurnsAreSingle

\* A sender moves outside of the exchange.
LEMMA OutsideKeeps ==
    ASSUME ConsoleInv, NEW s \in Senders, NEW r \in SenderState,
           snd[s].pc \in {"start", "lock"}, r.pc \in {"start", "lock"},
           snd' = [snd EXCEPT ![s] = r], con' = con, mutex' = mutex
    PROVE  ConsoleInv'
<1>1. ConsoleTypeOK'
  BY DEF ConsoleInv, ConsoleTypeOK
<1>2. \A u \in Senders : u # s => snd'[u] = snd[u]
  BY DEF ConsoleInv, ConsoleTypeOK
<1>3. snd'[s] = r
  BY DEF ConsoleInv, ConsoleTypeOK
<1>4. HolderIsAtPane' /\ PastedIsThere'
  BY <1>2, <1>3 DEF ConsoleInv, HolderIsAtPane, PastedIsThere, Exchanging, Reached
<1>5. Certain' => Certain
  BY <1>2 DEF Certain
<1>6. BoxIsOwn' /\ TurnsAreSingle'
  BY <1>2, <1>5 DEF ConsoleInv, BoxIsOwn, TurnsAreSingle
<1> QED
  BY <1>1, <1>4, <1>6 DEF ConsoleInv

\* The person and the agent leave box and turns alone.
LEMMA AsideKeeps ==
    ASSUME ConsoleInv, con' \in PaneOfConsole, con'.box = con.box, con'.turns = con.turns,
           mutex' = mutex, snd' = snd
    PROVE  ConsoleInv'
BY DEF ConsoleInv, ConsoleTypeOK, HolderIsAtPane, PastedIsThere, Reached, Certain, BoxIsOwn,
       TurnsAreSingle

\* An Enter while a sender is at the pane.
LEMMA EnterPressed ==
    ASSUME ConsoleInv, NEW s \in Senders, snd[s].pc \in {"enter", "probe"}, PressEnter
    PROVE  /\ con' \in PaneOfConsole
           /\ \A u \in Senders : u \in con.box \/ Reached(u) => u \in con'.box \/ Reached(u)'
           /\ \A u \in Senders : Reached(u) => Reached(u)'
           /\ con'.box \subseteq con.box
           /\ Certain => \A t \in con'.turns : \A u \in t : t = {u}
<1>1. con \in PaneOfConsole
  BY DEF ConsoleInv, ConsoleTypeOK
<1>2. CASE con' = con
  BY <1>1, <1>2 DEF ConsoleInv, TurnsAreSingle, Reached
<1>3. CASE /\ con.box # {}
           /\ con' = [con EXCEPT !.turns = @ \cup {con.box}, !.box = {},
                                 !.working = TRUE, !.marker = TRUE]
  <2>1. /\ con' \in PaneOfConsole /\ con'.box = {}
        /\ con'.turns = con.turns \cup {con.box}
    BY <1>1, <1>3 DEF PaneOfConsole
  <2>2. \A u \in Senders : u \in con.box \/ Reached(u) => Reached(u)'
    BY <2>1 DEF Reached
  <2>3. Certain => \A u \in con.box : u = s
    <3> SUFFICES ASSUME Certain, NEW u \in con.box
                 PROVE  u = s
      OBVIOUS
    <3>1. u \in Senders /\ snd[u].pc \in {"enter", "probe"}
      BY <1>1 DEF PaneOfConsole, ConsoleInv, BoxIsOwn
    <3> QED
      BY <3>1 DEF ConsoleInv, HolderIsAtPane, Exchanging
  <2>4. Certain => \A u \in con.box : con.box = {u}
    BY <2>3
  <2> QED
    BY <2>1, <2>2, <2>4 DEF ConsoleInv, TurnsAreSingle
<1> QED
  BY <1>2, <1>3 DEF PressEnter, TurnTaken

\* The exchange goes on after an Enter.
LEMMA GoesOn ==
    ASSUME ConsoleInv, NEW s \in Senders, NEW r \in SenderState, PressEnter,
           snd[s].pc \in {"enter", "probe"}, r.pc = "probe",
           snd' = [snd EXCEPT ![s] = r], mutex' = mutex
    PROVE  ConsoleInv'
<1>1. /\ con' \in PaneOfConsole
      /\ \A u \in Senders : u \in con.box \/ Reached(u) => u \in con'.box \/ Reached(u)'
      /\ \A u \in Senders : Reached(u) => Reached(u)'
      /\ con'.box \subseteq con.box
      /\ Certain => \A t \in con'.turns : \A u \in t : t = {u}
  BY EnterPressed
<1>2. \A u \in Senders : u # s => snd'[u] = snd[u]
  BY DEF ConsoleInv, ConsoleTypeOK
<1>3. snd'[s] = r /\ snd[s].pc # "unsure"
  BY DEF ConsoleInv, ConsoleTypeOK
<1>4. ConsoleTypeOK'
  BY <1>1 DEF ConsoleInv, ConsoleTypeOK
<1>5. HolderIsAtPane'
  BY <1>2, <1>3 DEF ConsoleInv, HolderIsAtPane, Exchanging
<1>6. PastedIsThere'
  BY <1>1, <1>2, <1>3 DEF ConsoleInv, PastedIsThere
<1>7. Certain' => Certain
  BY <1>2, <1>3 DEF Certain
<1>8. BoxIsOwn' /\ TurnsAreSingle'
  <2>1. con.box \subseteq Senders
    BY DEF ConsoleInv, ConsoleTypeOK, PaneOfConsole
  <2> QED
    BY <1>1, <1>2, <1>3, <1>7, <2>1 DEF ConsoleInv, BoxIsOwn, TurnsAreSingle
<1> QED
  BY <1>4, <1>5, <1>6, <1>8 DEF ConsoleInv

\* The exchange ends: confirmed only with an empty box.
LEMMA FinishKeeps ==
    ASSUME ConsoleInv, NEW s \in Senders, NEW l, Finish(s, l), con' = con,
           snd[s].pc = "probe", l = "unsure" \/ (l = "sent" /\ con.box = {})
    PROVE  ConsoleInv'
<1> DEFINE r == [pc |-> l, tries |-> 0, probe |-> 0]
<1>1. r \in SenderState /\ r.pc = l
  BY DEF SenderState
<1>2. snd' = [snd EXCEPT ![s] = r] /\ mutex = s /\ mutex' = Nobody
  BY DEF Finish, ConsoleInv, HolderIsAtPane, Exchanging
<1> HIDE DEF r
<1>3. \A u \in Senders : u # s => snd'[u] = snd[u]
  BY <1>2 DEF ConsoleInv, ConsoleTypeOK
<1>4. snd'[s] = r
  BY <1>2 DEF ConsoleInv, ConsoleTypeOK
<1>5. ConsoleTypeOK'
  BY <1>1, <1>2 DEF ConsoleInv, ConsoleTypeOK
<1>6. HolderIsAtPane'
  BY <1>1, <1>2, <1>3, <1>4, ConsoleAssumption DEF ConsoleInv, HolderIsAtPane, Exchanging, Nobody
<1>7. PastedIsThere'
  BY <1>1, <1>3, <1>4 DEF ConsoleInv, PastedIsThere, Reached
<1>8. CASE l = "unsure"
  <2>1. ~Certain'
    BY <1>1, <1>4, <1>8 DEF Certain
  <2> QED
    BY <1>5, <1>6, <1>7, <2>1 DEF ConsoleInv, BoxIsOwn, TurnsAreSingle
<1>9. CASE l = "sent" /\ con.box = {}
  <2>1. Certain' => Certain
    BY <1>1, <1>3 DEF Certain
  <2>2. BoxIsOwn' /\ TurnsAreSingle'
    BY <1>9, <2>1 DEF ConsoleInv, BoxIsOwn, TurnsAreSingle
  <2> QED
    BY <1>5, <1>6, <1>7, <2>2 DEF ConsoleInv
<1> QED
  BY <1>8, <1>9

LEMMA SenderMoves ==
    ASSUME ConsoleTypeOK, NEW s \in Senders, NEW l \in {"lock", "paste", "enter", "probe"}
    PROVE  /\ [snd[s] EXCEPT !.pc = l] \in SenderState /\ [snd[s] EXCEPT !.pc = l].pc = l
           /\ [snd EXCEPT ![s].pc = l] = [snd EXCEPT ![s] = [snd[s] EXCEPT !.pc = l]]
           /\ [snd[s] EXCEPT !.probe = @ + 1] \in SenderState
           /\ [snd[s] EXCEPT !.probe = @ + 1].pc = snd[s].pc
           /\ [snd EXCEPT ![s].probe = @ + 1] = [snd EXCEPT ![s] = [snd[s] EXCEPT !.probe = @ + 1]]
<1>1. snd[s] \in SenderState
  BY DEF ConsoleTypeOK
<1>2. /\ [snd[s] EXCEPT !.pc = l] \in SenderState /\ [snd[s] EXCEPT !.pc = l].pc = l
  BY <1>1 DEF SenderState, Exchanging
<1>3. /\ [snd[s] EXCEPT !.probe = @ + 1] \in SenderState
      /\ [snd[s] EXCEPT !.probe = @ + 1].pc = snd[s].pc
  BY <1>1 DEF SenderState
<1> QED
  BY <1>1, <1>2, <1>3 DEF ConsoleTypeOK


LEMMA ConsoleSteps ==
    ASSUME ConsoleInv, [ConsoleNext]_consoleVars
    PROVE  ConsoleInv'
<1>0. con \in PaneOfConsole /\ ConsoleTypeOK
  BY DEF ConsoleInv, ConsoleTypeOK
<1>1. CASE TurnEnds \/ ScreenScrolls \/ PersonTypes \/ PersonStops
  <2>1. \/ con' = [con EXCEPT !.working = FALSE]
        \/ con' = [con EXCEPT !.marker = FALSE]
        \/ con' = [con EXCEPT !.draft = "typing"]
        \/ con' = [con EXCEPT !.draft = "static"]
    BY <1>1 DEF TurnEnds, ScreenScrolls, PersonTypes, PersonStops
  <2>2. con' \in PaneOfConsole /\ con'.box = con.box /\ con'.turns = con.turns
    BY <1>0, <2>1 DEF PaneOfConsole
  <2>3. mutex' = mutex /\ snd' = snd
    BY <1>1 DEF TurnEnds, ScreenScrolls, PersonTypes, PersonStops
  <2> QED
    BY <2>2, <2>3, AsideKeeps
<1>2. ASSUME NEW s \in Senders, ExecDeliver(s)
      PROVE  ConsoleInv'
  <2>1. snd[s].pc = "start" /\ con' = con /\ mutex' = mutex /\ snd[s] \in SenderState
    BY <1>0, <1>2 DEF ExecDeliver, At, Still, ConsoleTypeOK
  <2>2. CASE Go(s, "lock")
    <3>1. snd' = [snd EXCEPT ![s] = [snd[s] EXCEPT !.pc = "lock"]]
      BY <1>0, <2>2, SenderMoves DEF Go
    <3> QED
      BY <1>0, <2>1, <3>1, SenderMoves, OutsideKeeps
  <2>3. CASE Fail(s, TRUE)
    <3> DEFINE again == [pc |-> "start", tries |-> snd[s].tries + 1, probe |-> 0]
               later == [pc |-> "start", tries |-> 0, probe |-> 0]
    <3>1. again \in SenderState /\ later \in SenderState /\ again.pc = "start"
          /\ later.pc = "start"
      BY <2>1 DEF SenderState
    <3>2. \/ snd' = [snd EXCEPT ![s] = again]
          \/ snd' = [snd EXCEPT ![s] = later]
      BY <2>3 DEF Fail
    <3> HIDE DEF again, later
    <3> QED
      BY <2>1, <3>1, <3>2, OutsideKeeps
  <2> QED
    BY <1>2, <2>2, <2>3 DEF ExecDeliver
<1>3. ASSUME NEW s \in Senders, TakePaneMutex(s)
      PROVE  ConsoleInv'
  <2> DEFINE r == [snd[s] EXCEPT !.pc = "paste"]
  <2>1. snd[s].pc = "lock" /\ con' = con /\ mutex = Nobody /\ mutex' = s
        /\ snd' = [snd EXCEPT ![s] = r] /\ r \in SenderState /\ r.pc = "paste"
    BY <1>0, <1>3, SenderMoves DEF TakePaneMutex, At, Go
  <2> HIDE DEF r
  <2>2. (\A u \in Senders : u # s => snd'[u] = snd[u]) /\ snd'[s] = r
    BY <1>0, <2>1 DEF ConsoleTypeOK
  <2>3. ConsoleTypeOK'
    BY <1>0, <2>1 DEF ConsoleTypeOK
  <2>4. HolderIsAtPane'
    BY <2>1, <2>2, ConsoleAssumption DEF ConsoleInv, HolderIsAtPane, Exchanging, Nobody
  <2>5. PastedIsThere'
    BY <2>1, <2>2 DEF ConsoleInv, PastedIsThere, Reached
  <2>6. Certain' => Certain
    BY <2>1, <2>2 DEF Certain
  <2>7. BoxIsOwn' /\ TurnsAreSingle'
    BY <2>1, <2>2, <2>6 DEF ConsoleInv, BoxIsOwn, TurnsAreSingle
  <2> QED
    BY <2>3, <2>4, <2>5, <2>7 DEF ConsoleInv
<1>4. ASSUME NEW s \in Senders, PasteBuffer(s)
      PROVE  ConsoleInv'
  <2> DEFINE r == [snd[s] EXCEPT !.pc = "enter"]
  <2>1. snd[s].pc = "paste" /\ con' = [con EXCEPT !.box = @ \cup {s}] /\ mutex' = mutex
        /\ snd' = [snd EXCEPT ![s] = r] /\ r \in SenderState /\ r.pc = "enter"
    BY <1>0, <1>4, SenderMoves DEF PasteBuffer, At, Go
  <2> HIDE DEF r
  <2>2. (\A u \in Senders : u # s => snd'[u] = snd[u]) /\ snd'[s] = r
    BY <1>0, <2>1 DEF ConsoleTypeOK
  <2>c. con' \in PaneOfConsole /\ con'.box = con.box \cup {s} /\ con'.turns = con.turns
    BY <1>0, <2>1 DEF PaneOfConsole
  <2>3. ConsoleTypeOK'
    BY <1>0, <2>1, <2>c DEF ConsoleTypeOK
  <2>4. HolderIsAtPane'
    BY <2>1, <2>2 DEF ConsoleInv, HolderIsAtPane, Exchanging
  <2>5. PastedIsThere'
    BY <2>1, <2>2, <2>c DEF ConsoleInv, PastedIsThere, Reached
  <2>6. Certain' => Certain
    BY <2>1, <2>2 DEF Certain
  <2>7. BoxIsOwn' /\ TurnsAreSingle'
    BY <2>1, <2>2, <2>6, <2>c DEF ConsoleInv, BoxIsOwn, TurnsAreSingle
  <2> QED
    BY <2>3, <2>4, <2>5, <2>7 DEF ConsoleInv
<1>5. ASSUME NEW s \in Senders, SubmitEnter(s)
      PROVE  ConsoleInv'
  <2>1. snd[s].pc = "enter" /\ PressEnter /\ mutex' = mutex
        /\ snd' = [snd EXCEPT ![s] = [snd[s] EXCEPT !.pc = "probe"]]
    BY <1>0, <1>5, SenderMoves DEF SubmitEnter, At, Go
  <2> QED
    BY <1>0, <2>1, SenderMoves, GoesOn
<1>6. ASSUME NEW s \in Senders, ConfirmClaudeSubmitted(s)
      PROVE  ConsoleInv'
  <2>1. snd[s].pc = "probe"
    BY <1>6 DEF ConfirmClaudeSubmitted, At
  <2> DEFINE r == [snd[s] EXCEPT !.probe = @ + 1]
  <2>2. [snd EXCEPT ![s].probe = @ + 1] = [snd EXCEPT ![s] = r] /\ r \in SenderState
        /\ r.pc = "probe"
    BY <1>0, <2>1, SenderMoves
  <2> HIDE DEF r
  <2>3. CASE PressEnter /\ snd' = [snd EXCEPT ![s].probe = @ + 1] /\ mutex' = mutex
    BY <2>1, <2>2, <2>3, GoesOn
  <2>4. CASE /\ con' = con /\ Finish(s, "sent") /\ con.box = {}
    BY <2>1, <2>4, FinishKeeps
  <2>5. CASE con' = con /\ Finish(s, "unsure")
    BY <2>1, <2>5, FinishKeeps
  <2>6. CASE /\ con' = con /\ lost' = lost /\ con.box = {} /\ mutex' = mutex
             /\ snd' = [snd EXCEPT ![s].probe = @ + 1]
    <3>1. PressEnter
      BY <2>6 DEF PressEnter, TurnTaken
    <3> QED
      BY <2>3, <2>6, <3>1
  <2> QED
    BY <1>6, <2>3, <2>4, <2>5, <2>6 DEF ConfirmClaudeSubmitted, PlaceholderAtPrompt
<1>7. ASSUME NEW s \in Senders, ProbesExhausted(s)
      PROVE  ConsoleInv'
  <2>1. snd[s].pc = "probe" /\ con' = con /\ Finish(s, "unsure")
    BY <1>7 DEF ProbesExhausted, At
  <2> QED
    BY <2>1, FinishKeeps
<1>8. CASE UNCHANGED consoleVars
  BY <1>0, <1>8, AsideKeeps DEF consoleVars
<1> QED
  BY <1>1, <1>2, <1>3, <1>4, <1>5, <1>6, <1>7, <1>8 DEF ConsoleNext, Delivering

LEMMA ConsoleStarts ==
    ASSUME ConsoleInit
    PROVE  ConsoleInv
<1> DEFINE r == [pc |-> "start", tries |-> 0, probe |-> 0]
<1>1. r \in SenderState /\ r.pc = "start"
  BY DEF SenderState
<1>2. snd = [s \in Senders |-> r]
  BY DEF ConsoleInit
<1> HIDE DEF r
<1>3. /\ con \in PaneOfConsole /\ con.box = {} /\ con.turns = {} /\ mutex = Nobody
  BY DEF ConsoleInit, PaneOfConsole
<1>4. ConsoleTypeOK
  BY <1>1, <1>2, <1>3 DEF ConsoleTypeOK
<1>5. HolderIsAtPane
  BY <1>1, <1>2, <1>3, ConsoleAssumption DEF HolderIsAtPane, Exchanging, Nobody
<1>6. PastedIsThere /\ BoxIsOwn /\ TurnsAreSingle
  BY <1>1, <1>2, <1>3 DEF PastedIsThere, BoxIsOwn, TurnsAreSingle
<1> QED
  BY <1>4, <1>5, <1>6 DEF ConsoleInv

\* For any number of goroutines that deliver into one console pane, of lost
\* Enters and of failed captures: a delivery that reports success was taken,
\* and while none ended in doubt no two messages were submitted as one
\* (sendAndConfirm, confirmClaudeSubmittedOrRetry).
THEOREM ConsoleIsSound ==
    ConsoleSpec => []MessagesArriveWhole
<1>1. ConsoleInit => ConsoleInv
  BY ConsoleStarts
<1>2. ConsoleInv /\ [ConsoleNext]_consoleVars => ConsoleInv'
  BY ConsoleSteps
<1>3. ConsoleInv => MessagesArriveWhole
  <2>1. ConsoleInv => EnvelopesStaySeparate
    BY DEF ConsoleInv, TurnsAreSingle, Certain, EnvelopesStaySeparate, At
  <2>2. ConsoleInv => ConfirmedIsSubmitted
    BY DEF ConsoleInv, PastedIsThere, Reached, ConfirmedIsSubmitted, At
  <2> QED
    BY <2>1, <2>2 DEF MessagesArriveWhole
<1> QED
  BY <1>1, <1>2, <1>3, PTL DEF ConsoleSpec

==============================================================================
