---------------------------- MODULE ResultChannel ----------------------------
(***************************************************************************)
(* What reporting a result promises, whatever queues and retries lie in    *)
(* between: the reader hears of every outcome, possibly more than once and *)
(* possibly of an outcome that has been corrected since, and in the end of *)
(* the outcome that stands, unless the sender has given up on the result.  *)
(***************************************************************************)
CONSTANTS Results, Types, NoType

VARIABLES
    outcome,  \* the outcome that stands
    said,     \* every outcome there ever was
    heard,    \* the outcome the reader heard of last
    excused   \* results nobody need hear of

cvars == <<outcome, said, heard, excused>>

ChannelInit ==
    /\ outcome = [r \in Results |-> NoType] /\ said = [r \in Results |-> {}]
    /\ heard = [r \in Results |-> NoType] /\ excused \subseteq Results

Decide(r, t) ==
    /\ outcome' = [outcome EXCEPT ![r] = t] /\ said' = [said EXCEPT ![r] = @ \cup {t}]
    /\ UNCHANGED <<heard, excused>>

Hear(r, t) ==
    /\ t \in said[r] /\ heard' = [heard EXCEPT ![r] = t]
    /\ UNCHANGED <<outcome, said, excused>>

Excuse(S) == excused' = excused \cup S /\ UNCHANGED <<outcome, said, heard>>

HearCurrent(r) ==
    /\ outcome[r] # NoType /\ heard[r] # outcome[r] /\ r \notin excused
    /\ Hear(r, outcome[r])

ChannelNext ==
    \/ \E r \in Results, t \in Types : Decide(r, t) \/ Hear(r, t)
    \/ \E S \in SUBSET Results : Excuse(S)

ChannelSpec ==
    /\ ChannelInit /\ [][ChannelNext]_cvars
    /\ \A r \in Results : WF_cvars(HearCurrent(r))

=============================================================================
