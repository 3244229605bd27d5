------------------------------ MODULE PaneWatch ------------------------------
(***************************************************************************)
(* What the scan concludes from a worker's screen                          *)
(* (internal/daemon/paneactivity/tracker.go, queue_scan_blocked_pane.go,   *)
(* queue_scan_collect.go).                                                 *)
(*                                                                         *)
(* The tracker remembers one snapshot per agent and judges the next screen *)
(* against it, so the state of a screen is kept as its difference from the *)
(* snapshot: new words, other numbers, another transfer rate.  Ages are    *)
(* counted up to the threshold that reads them.  The hard cap on the run   *)
(* time of a task is left to TaskQueue: what this module promises does not *)
(* wait for it.                                                            *)
(***************************************************************************)
EXTENDS Naturals

CONSTANTS
    MinPrevAge,      \* half the scan interval
    ScanEvery,       \* the periodic scan
    ScanGap,         \* the least distance of two scans; 1 with file events
    BlockedAfter,    \* blockedPaneFailAfter
    HopelessAfter,   \* blockedPaneUnrecoverableFailAfter
    LeaseTicks,      \* dispatch_lease_sec
    MaxUncertainStreak

ASSUME PaneWatchAssumption ==
    /\ {MinPrevAge, ScanEvery, ScanGap, BlockedAfter, HopelessAfter, LeaseTicks,
        MaxUncertainStreak} \subseteq Nat \ {0}
    /\ ScanGap <= ScanEvery /\ MinPrevAge <= ScanEvery /\ HopelessAfter <= BlockedAfter

VARIABLES
    scr,    \* the screen, against the snapshot
    silent, \* the agent will never move again
    mem,    \* the tracker's memory of the agent
    row,    \* the worker's task and what is left of its lease
    gap,    \* time since the last scan
    held    \* ghost: how long the screen has shown a prompt without a break

watchVars == <<scr, silent, mem, row, gap, held>>

NoMemory == [snap |-> FALSE, age |-> 0, streak |-> 0, blocked |-> FALSE, since |-> 0]
Prompts == {"blocked", "hopeless"}
Screens == {"plain", "hint", "fatal"} \cup Prompts
Screen(k) == [kind |-> k, words |-> TRUE, numbers |-> TRUE, rate |-> FALSE]
UpTo(n, k) == IF n < k THEN n + 1 ELSE k

-----------------------------------------------------------------------------
(* The agent and the clock.                                                *)

WatchTick ==
    /\ gap < ScanEvery /\ gap' = gap + 1
    /\ mem' = [mem EXCEPT !.age = UpTo(@, MinPrevAge),
                          !.since = IF mem.blocked THEN UpTo(@, BlockedAfter) ELSE 0]
    /\ row' = [row EXCEPT !.lease = IF @ = 0 THEN 0 ELSE @ - 1]
    /\ held' = IF scr.kind \in Prompts THEN UpTo(held, BlockedAfter) ELSE 0
    /\ UNCHANGED <<scr, silent>>

Draw(k) ==
    /\ ~silent /\ scr' = Screen(k)
    /\ held' = IF k \in Prompts /\ scr.kind \in Prompts THEN held ELSE 0
    /\ UNCHANGED <<silent, mem, row, gap>>

\* A download in the pane moves its rate line only.
RateMoves ==
    /\ ~silent /\ ~scr.rate /\ scr' = [scr EXCEPT !.rate = TRUE]
    /\ UNCHANGED <<silent, mem, row, gap, held>>

\* The process hangs; the elapsed time on its screen goes on counting.
GoesSilent ==
    /\ ~silent /\ row.status = "running" /\ scr.kind \in {"plain"} \cup Prompts
    /\ silent' = TRUE
    /\ UNCHANGED <<scr, mem, row, gap, held>>
TimerTicks ==
    /\ silent /\ ~scr.numbers /\ scr' = [scr EXCEPT !.numbers = TRUE]
    /\ UNCHANGED <<silent, mem, row, gap, held>>

\* A dispatch replaces the screen; a result ends the task.
TaskDispatched ==
    /\ row.status = "none"
    /\ row' = [status |-> "running", lease |-> LeaseTicks]
    /\ scr' = Screen("plain") /\ silent' = FALSE /\ held' = 0
    /\ UNCHANGED <<mem, gap>>
TaskReported ==
    /\ row.status = "running" /\ ~silent
    /\ row' = [status |-> "none", lease |-> 0]
    /\ UNCHANGED <<scr, silent, mem, gap, held>>

-----------------------------------------------------------------------------
(* One scan.                                                               *)

\* normalizeForLiveness: digits do not count.
TailChanged == scr.words

\* rateLines: the lines with a rate unit keep their digits.
RateChanged == scr.rate

\* The tests of ObserveVerdict in their order; a completion summary is
\* stripped before the activity hint is looked for.
ObserveVerdict(m) ==
    CASE scr.kind = "fatal" -> "terminal"
      [] scr.kind \in Prompts -> "blocked"
      [] scr.kind = "hint" -> "active"
      [] ~m.snap -> IF m.streak >= MaxUncertainStreak THEN "idle" ELSE "uncertain"
      [] m.age < MinPrevAge -> "uncertain"
      [] TailChanged \/ RateChanged -> "active"
      [] OTHER -> "idle"

\* What the tracker remembers afterwards: the new snapshot, the streak of
\* uncertain verdicts without a baseline, the start of a blocked run.
Remembered(m, v) ==
    [snap |-> TRUE, age |-> 0,
     streak |-> CASE v # "uncertain" -> 0 [] ~m.snap -> m.streak + 1 [] OTHER -> m.streak,
     blocked |-> v = "blocked" \/ (v = "terminal" /\ m.blocked),
     since |-> IF m.blocked /\ v \in {"blocked", "terminal"} THEN m.since ELSE 0]

Observed == [scr EXCEPT !.words = FALSE, !.numbers = FALSE, !.rate = FALSE]

\* The threshold depends on what the prompt asks.
FailAfter == IF scr.kind = "hopeless" THEN HopelessAfter ELSE BlockedAfter

\* failTaskBlockedPane, failTaskTerminalError: a synthetic result, the memory
\* dropped, and the pane respawned unless that fails too.
FailTask ==
    /\ row' = [status |-> "none", lease |-> 0] /\ mem' = NoMemory
    /\ \/ scr' = Screen("plain") /\ silent' = FALSE /\ held' = 0
       \/ UNCHANGED <<scr, silent, held>>

ExtendLease == row' = [row EXCEPT !.lease = LeaseTicks]

\* The busy check of Phase B: a silent agent is idle and loses its lease.
BusyCheck ==
    \/ row' = [status |-> "none", lease |-> 0]
    \/ ~silent /\ ExtendLease

\* Mutant: the expiry path looks at the pane a second time in the same scan.
LookAgain(v) == IF v = "unknown" THEN v ELSE ObserveVerdict(Remembered(mem, v))

\* collectExpiredTaskBusyChecks reuses the verdict of the same scan.
ScanVerdict(v) == v

\* collectExpiredTaskBusyChecks for an expired lease.
Expired(v) ==
    /\ mem' = IF v = "unknown" THEN mem ELSE Remembered(mem, v)
    /\ scr' = IF v = "unknown" THEN scr ELSE Observed
    /\ IF row.lease > 0 THEN row' = row
         ELSE IF ScanVerdict(v) \in {"active", "blocked", "uncertain"} THEN ExtendLease
         ELSE BusyCheck
    /\ UNCHANGED <<silent, held>>

\* stepBlockedPaneTimeout and the expiry of the lease; a capture may fail.
\* A worker without a task is not looked at.
PaneScan ==
    /\ gap >= ScanGap /\ gap' = 0
    /\ IF row.status = "none" THEN UNCHANGED <<scr, silent, mem, row, held>>
       ELSE \E v \in {ObserveVerdict(mem), "unknown"} :
              IF \/ v = "terminal"
                 \/ v = "blocked" /\ Remembered(mem, v).since >= FailAfter
                THEN FailTask
                ELSE Expired(v)

WatchInit ==
    /\ scr = Screen("plain") /\ silent = FALSE /\ mem = NoMemory
    /\ row = [status |-> "none", lease |-> 0] /\ gap = 0 /\ held = 0

WatchNext ==
    \/ WatchTick \/ PaneScan \/ RateMoves \/ GoesSilent \/ TimerTicks
    \/ TaskDispatched \/ TaskReported \/ \E k \in Screens : Draw(k)

WatchSpec ==
    /\ WatchInit /\ [][WatchNext]_watchVars
    /\ WF_watchVars(WatchTick) /\ WF_watchVars(PaneScan)

-----------------------------------------------------------------------------
\* A task whose pane has gone silent is released or failed, although the
\* elapsed time on its screen keeps counting and every verdict needs a
\* baseline (ObserveVerdict, collectExpiredTaskBusyChecks).
SilentPaneIsReleased == silent /\ row.status = "running" ~> row.status = "none"

\* A task is failed for a blocked pane only when the prompt stood there for
\* the whole threshold (BlockedSince: "callers see only an uninterrupted
\* blocked streak").
BlockedRunIsReal ==
    [][mem.blocked /\ mem' = NoMemory
         /\ scr.kind \in Prompts => held >= HopelessAfter]_watchVars

=============================================================================
