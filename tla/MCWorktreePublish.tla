-------------------------- MODULE MCWorktreePublish --------------------------
(* The integration worktree and the project root: two commands that share  *)
(* the base branch and are published, and the selection between two        *)
(* candidates, which tries them on the integration worktree.  The two      *)
(* share no state; a behaviour is of one of them.                          *)
EXTENDS WorktreePublish, CandidateSelection

CONSTANTS c1, c2

VARIABLE part

Even == [dev |-> 0, lines |-> 10, files |-> 1]
\* Equal, within a tenth, apart in lines, in files and in deviations.
Measured == {Even, [Even EXCEPT !.lines = 9], [Even EXCEPT !.lines = 12],
             [Even EXCEPT !.files = 2], [Even EXCEPT !.dev = 1]}
Plain == [cands |-> {1, 2}, healthy |-> TRUE, merges |-> [i \in Ids |-> TRUE],
          suite |-> [i \in Ids |-> {2}], cross |-> [i \in Ids |-> {2}],
          tests |-> [i \in Ids |-> FALSE], met |-> [i \in Ids |-> Even]]
Suites == {{0}, {1}, {2}, {1, 2}}
MCNatures ==
    {[Plain EXCEPT !.healthy = FALSE], [Plain EXCEPT !.merges = [i \in Ids |-> FALSE]]}
    \cup {[Plain EXCEPT !.cands = {i}, !.merges[i] = b, !.suite[i] = u] :
             i \in Ids, b \in BOOLEAN, u \in Suites}
    \cup {[Plain EXCEPT !.merges[i] = FALSE, !.suite[Opponent(i)] = u, !.tests = [k \in Ids |-> TRUE],
                        !.cross[Opponent(i)] = {0}] : i \in Ids, u \in Suites}
    \cup {[Plain EXCEPT !.suite[1] = u, !.suite[2] = v, !.tests = t, !.cross = c] :
             u \in Suites, v \in Suites, t \in [Ids -> BOOLEAN], c \in [Ids -> {{0}, {2}}]}
    \cup {[Plain EXCEPT !.met[1] = m, !.met[2] = n] : m \in Measured, n \in Measured}
VotePairs == {<<1, 1>>, <<2, 2>>, <<1, 2>>, <<2, 1>>, <<1, 0>>, <<0, 2>>}

all == <<vars, selVars, part>>

MCInit ==
    /\ part \in {"publish", "selection", "recovery"} /\ Init /\ SelInit
    /\ part # "selection" => nature = [Plain EXCEPT !.tests = [i \in Ids |-> TRUE]]

Selection(A) ==
    /\ part # "publish" /\ A /\ UNCHANGED <<vars, part>>
    /\ "dirt" \in tree' => part = "recovery"

\* Of the planner's resolution and the operator's retry a behaviour has one.
Publishing ==
    /\ part = "publish" /\ Next /\ UNCHANGED <<selVars, part>>
    /\ used'.resolutions + used'.retries <= 1

MCNext ==
    \/ Publishing
    \/ Selection(SelNext)
    \/ part # "publish" /\ pc = "idle" /\ result # NoResult /\ UNCHANGED all  \* it is over

MCSpec == MCInit /\ [][MCNext]_all

=============================================================================
