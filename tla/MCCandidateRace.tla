----------------------------- MODULE MCCandidateRace -----------------------------
(* What must end although it is retried: the race of two candidates and     *)
(* the publish of a merged command.  They share no state; a behaviour is of  *)
(* one of them.                                                              *)
EXTENDS CandidateRace

CONSTANTS Commands, MaxFailures, MaxUserCommits, MaxResolutions, MaxRetries,
          PublishFaultKinds, MaxPublishFaults, EditsDuringSync

VARIABLES part,
          integ, branch, forward, resolver, base, root, pending, stash, pub, signals, used, lost

P == INSTANCE WorktreePublish
         WITH FaultKinds <- PublishFaultKinds, MaxFaults <- MaxPublishFaults

publishVars ==
    <<integ, branch, forward, resolver, base, root, pending, stash, pub, signals, used, lost>>

all == <<vars, publishVars, part>>

MCInit ==
    /\ part \in {"race", "publish"} /\ Init /\ P!Init
    /\ part = "publish" => conflict = {}

Race(A) == part = "race" /\ A /\ UNCHANGED <<publishVars, part>>
Publish(A) == part = "publish" /\ A /\ UNCHANGED <<vars, part>>

MCNext == Race(Next) \/ Publish(P!Next)

\* A race and a publish never meet in a behaviour, so that their fairness
\* conditions can be stated in pairs.
MCSpec ==
    /\ MCInit /\ [][MCNext]_all
    /\ WF_all(Race(Collect) \/ Publish(P!PublishStep))
    /\ WF_all(Race(Step) \/ Publish(\E c \in Commands : P!BackoffElapses(c)))
    /\ WF_all(Race(RaceTimesOut)) /\ WF_all(Race(\E t \in Tasks : StateFollows(t)))
    /\ SF_all(Race(SelectionTimesOut) \/ Publish(\E c \in Commands : P!StartPublish(c)))
    /\ SF_all(Race(Dispatch(Canonical)) \/ Publish(\E c \in Commands : P!R8PublishFailed(c)))
    /\ SF_all(\/ Race(Dispatch(Shadow))
              \/ Publish(\E c \in Commands : P!ResolutionCompletes(c) \/ P!ResolutionFails(c)))
    /\ \A c \in Cands :
         /\ WF_all(Race(EndForeign(c)))
         /\ WF_all(Race(\E st \in {"completed", "failed"} : Report(c, st)))

\* A merged command is published or quarantined in the end, and the Planner
\* hears of every quarantine: no retry loop goes on for ever and no interrupted
\* publish is forgotten (PublishToBase, R8).
PublishEnds == part = "publish" => P!PublishSettles /\ P!QuarantineIsReported

=============================================================================
