----------------------------- MODULE ConsolePane -----------------------------
(***************************************************************************)
(* Delivery without /clear, into the planner's and the orchestrator's pane *)
(* (internal/agent/executor_core.go execDeliver, message_deliverer.go;     *)
(* internal/daemon/dispatch/dispatcher.go).                                *)
(*                                                                         *)
(* Phase B and the result handler deliver into the same pane from          *)
(* different goroutines; a person may be typing in it.  The pane keeps the *)
(* screen of the previous turn, so what a probe sees of an earlier message *)
(* looks like what it waits for.                                           *)
(***************************************************************************)
EXTENDS Naturals, Sequences

CONSTANTS
    Senders,       \* goroutines with one message each
    Retrying,      \* those that retry inline (DispatchCommand)
    SendRetries,   \* EffectiveCommandDispatchInlineRetries
    Probes,        \* submitProbeAttemptsForPane
    LostEnters,    \* Enters the runtime may swallow
    BlindProbes    \* captures that may fail

ASSUME ConsoleAssumption ==
    /\ Retrying \subseteq Senders /\ 0 \notin Senders
    /\ {SendRetries, Probes, LostEnters, BlindProbes} \subseteq Nat

VARIABLES
    con,    \* the pane: agent, box, submitted turns, working, on screen, draft
    mutex,  \* the pane's delivery lock
    snd,    \* each sender: pc, attempt, probe, whether an Enter was resent
    lost, blind

consoleVars == <<con, mutex, snd, lost, blind>>

Nobody == 0
Still == UNCHANGED <<con, mutex, lost, blind>>
At(s, l) == snd[s].pc = l
Go(s, l) == snd' = [snd EXCEPT ![s].pc = l]

-----------------------------------------------------------------------------
(* The agent and the person at the pane.                                   *)

\* What Enter does: the box becomes a turn, and its activity stays on screen.
TurnTaken ==
    con' = IF con.box = {} THEN con
           ELSE [con EXCEPT !.turns = @ \cup {con.box}, !.box = {},
                            !.working = TRUE, !.marker = TRUE]

TurnEnds ==
    /\ con.working /\ con' = [con EXCEPT !.working = FALSE]
    /\ UNCHANGED <<mutex, snd, lost, blind>>

\* The activity of the last turn scrolls out of the captured lines.
ScreenScrolls ==
    /\ con.marker /\ ~con.working /\ con' = [con EXCEPT !.marker = FALSE]
    /\ UNCHANGED <<mutex, snd, lost, blind>>

PersonTypes ==
    /\ con.draft = "none" /\ con' = [con EXCEPT !.draft = "typing"]
    /\ UNCHANGED <<mutex, snd, lost, blind>>
PersonStops ==
    /\ con.draft = "typing" /\ con' = [con EXCEPT !.draft = "static"]
    /\ UNCHANGED <<mutex, snd, lost, blind>>

-----------------------------------------------------------------------------
\* The delivery failed: an inline retry where the caller has one and the
\* result is retryable, the next scan otherwise.
Fail(s, retryable) ==
    snd' = [snd EXCEPT ![s] =
        IF s \in Retrying /\ retryable /\ snd[s].tries < SendRetries
          THEN [pc |-> "start", tries |-> snd[s].tries + 1, probe |-> 0]
          ELSE [pc |-> IF retryable THEN "start" ELSE "unsure", tries |-> 0, probe |-> 0]]

\* Mutant: text in the box, moving or not, is a person's draft.
AnyDraft == con.draft # "none"

\* detectActiveUserInput: only text that changes between two captures.
DetectActiveUserInput == con.draft = "typing"

\* execDeliver: the agent runs, is idle, and nobody is composing.
ExecDeliver(s) ==
    /\ At(s, "start")
    /\ IF con.working \/ DetectActiveUserInput THEN Fail(s, TRUE) ELSE Go(s, "lock")
    /\ Still

\* Mutant: two deliveries may interleave.
EnterUnlocked(s) ==
    /\ At(s, "lock") /\ Go(s, "paste")
    /\ UNCHANGED <<con, mutex, lost, blind>>

\* sendAndConfirm takes the pane's mutex for the whole exchange.
TakePaneMutex(s) ==
    /\ At(s, "lock") /\ mutex = Nobody
    /\ mutex' = s /\ Go(s, "paste")
    /\ UNCHANGED <<con, lost, blind>>

\* The bracketed paste lands in the input box.
PasteBuffer(s) ==
    /\ At(s, "paste")
    /\ con' = [con EXCEPT !.box = @ \cup {s}]
    /\ Go(s, "enter")
    /\ UNCHANGED <<mutex, lost, blind>>

\* Enter submits the box, unless the runtime swallows it.
PressEnter ==
    \/ TurnTaken /\ lost' = lost
    \/ lost < LostEnters /\ lost' = lost + 1 /\ con' = con

SubmitEnter(s) ==
    /\ At(s, "enter") /\ PressEnter /\ Go(s, "probe")
    /\ UNCHANGED <<mutex, blind>>

\* pastedTextPlaceholderAtPrompt: the input box is not empty.
PlaceholderAtPrompt == con.box # {}

\* The exchange is over; the mutex is given back with the result.
Finish(s, l) ==
    /\ snd' = [snd EXCEPT ![s] = [pc |-> l, tries |-> 0, probe |-> 0]]
    /\ mutex' = IF mutex = s THEN Nobody ELSE mutex

\* Mutant: an activity marker on screen confirms, whatever the box holds.
MarkerFirst(s) ==
    /\ At(s, "probe") /\ snd[s].probe < Probes
    /\ \/ /\ con.marker /\ Finish(s, "sent") /\ UNCHANGED <<con, lost, blind>>
       \/ /\ ~con.marker /\ PlaceholderAtPrompt /\ PressEnter
          /\ snd' = [snd EXCEPT ![s].probe = @ + 1] /\ UNCHANGED <<mutex, blind>>

\* confirmClaudeSubmittedOrRetry, one probe: the placeholder first, then the
\* marker, then growth of the screen; a capture that fails ends the probing.
ConfirmClaudeSubmitted(s) ==
    /\ At(s, "probe") /\ snd[s].probe < Probes
    /\ \/ /\ PlaceholderAtPrompt /\ PressEnter
          /\ snd' = [snd EXCEPT ![s].probe = @ + 1] /\ UNCHANGED <<mutex, blind>>
       \/ /\ ~PlaceholderAtPrompt /\ con.marker
          /\ Finish(s, "sent") /\ UNCHANGED <<con, lost, blind>>
       \/ /\ ~PlaceholderAtPrompt /\ ~con.marker
          /\ \/ snd' = [snd EXCEPT ![s].probe = @ + 1] /\ UNCHANGED mutex
             \/ Finish(s, "sent")
          /\ UNCHANGED <<con, lost, blind>>
       \/ /\ blind < BlindProbes /\ blind' = blind + 1
          /\ Finish(s, "unsure") /\ UNCHANGED <<con, lost>>

\* The budget is used up: uncertain, and not retryable.
ProbesExhausted(s) ==
    /\ At(s, "probe") /\ snd[s].probe = Probes
    /\ Finish(s, "unsure")
    /\ UNCHANGED <<con, lost, blind>>

ConsoleInit ==
    /\ con = [box |-> {}, turns |-> {}, working |-> FALSE, marker |-> TRUE, draft |-> "none"]
    /\ mutex = Nobody /\ lost = 0 /\ blind = 0
    /\ snd = [s \in Senders |-> [pc |-> "start", tries |-> 0, probe |-> 0]]

Delivering(s) ==
    \/ ExecDeliver(s) \/ TakePaneMutex(s) \/ PasteBuffer(s) \/ SubmitEnter(s)
    \/ ConfirmClaudeSubmitted(s) \/ ProbesExhausted(s)

ConsoleNext ==
    \/ TurnEnds \/ ScreenScrolls \/ PersonTypes \/ PersonStops
    \/ \E s \in Senders : Delivering(s)

ConsoleSpec ==
    /\ ConsoleInit /\ [][ConsoleNext]_consoleVars
    /\ WF_consoleVars(TurnEnds) /\ WF_consoleVars(PersonStops)
    /\ \A s \in Senders : WF_consoleVars(Delivering(s))

-----------------------------------------------------------------------------
\* A delivery that reports success was taken by the agent, also when the
\* screen still shows the previous turn and Enters were lost.
ConfirmedIsSubmitted ==
    \A s \in Senders : At(s, "sent") => \E t \in con.turns : s \in t

\* Two messages never reach the agent as one input, unless an uncertain
\* delivery left the first of them unsubmitted.
EnvelopesStaySeparate ==
    (\A s \in Senders : ~At(s, "unsure")) =>
        \A t \in con.turns : \A s \in t : t = {s}

\* What reaches an agent is what was sent: each envelope as an input of its own,
\* and a delivery that reports success was taken (execDeliver,
\* confirmClaudeSubmitted).
MessagesArriveWhole == EnvelopesStaySeparate /\ ConfirmedIsSubmitted

\* Every message is eventually pasted: an abandoned draft, or a planner that
\* is busy for a while, delays it only.
MessageArrives == \A s \in Senders : <>(snd[s].pc \in {"sent", "unsure"})

=============================================================================
