---------------------------- MODULE MCTaskQueue ----------------------------
(***************************************************************************)
(* Two tasks of one worker.  A behaviour is of one of two kinds: both      *)
(* tasks run, each is leased once, and a queue write may fail; or the      *)
(* second waits for its dependency to the end, the first has its whole     *)
(* budget and more time, and there are crashes and orphaned results.       *)
(***************************************************************************)
EXTENDS TaskQueue

CONSTANTS t1, t2, w1

VARIABLE part

OneWorkerOwner == [t \in {t1, t2} |-> w1]
SingleOwner == [t \in {t1} |-> w1]

FlushFails == ScanPhaseAFlushFails \/ ScanPhaseCFlushFails

Both ==
    /\ part = "both"
    /\ now' <= 2 /\ \A t \in Tasks : rows'[t].epoch <= 1
    /\ faults' # faults => FlushFails

First ==
    /\ part = "first"
    /\ dep' = dep
    /\ faults' # faults => ~FlushFails

MCInit == part \in {"both", "first"} /\ Init

MCNext == Next /\ UNCHANGED part /\ (Both \/ First)

MCSpec ==
    /\ MCInit /\ [][MCNext]_<<vars, part>>
    /\ []<><<ScanStep>>_vars

\* Neither part: any interleaving of any fault, for the runs of one task.
FreeSpec == Init /\ part = "any" /\ [][Next /\ UNCHANGED part]_<<vars, part>>

=============================================================================
