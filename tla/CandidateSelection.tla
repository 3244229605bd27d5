-------------------------- MODULE CandidateSelection --------------------------
(***************************************************************************)
(* The choice between the candidates of one task                           *)
(* (internal/daemon/worktree/candidate_selection.go).                      *)
(*                                                                         *)
(* The engine borrows the command's integration worktree: it marks that,   *)
(* runs the verify commands on the untouched tree, then merges each        *)
(* candidate in turn, runs them on the result and on the result with the   *)
(* opponent's tests, and puts the tree back.  What it saw decides; a daemon *)
(* that dies meanwhile restores the tree when it starts again.             *)
(***************************************************************************)
EXTENDS Naturals, FiniteSets

CONSTANTS Total,         \* verify commands
          Natures,       \* what candidates and verifier may be like: who finished, which
                         \* merge, how many commands can pass, whose tests are new, what
                         \* the diffs measure
          Votes,         \* what the two judges may say of a tie, 0 for a judge that fails
          SelFaultKinds, MaxSelFaults

ASSUME TotalAssumption == Total \in Nat \ {0}

Ids == {1, 2}            \* the canonical is the first
Opponent(i) == 3 - i

VARIABLES
    nature,    \* what the candidates and the verifier are like
    tree,      \* what is in the integration worktree that is not its branch
    marker,    \* the durable in-flight marker
    pc,        \* where the engine is
    at,        \* the candidate it looks at
    again,     \* the candidate whose suite is run a second time
    runs,      \* what it has seen of each candidate
    old,       \* the first run of the candidate that is run again
    crossOn,   \* the cross-test layer counts
    cancelled, \* the daemon is shutting down
    tainted,   \* a verdict of this run was reached by a dying command
    soiled,    \* this run met a tree that was not as it should be
    result,    \* what it returned
    selFaults

selVars == <<nature, tree, marker, pc, at, again, runs, old, crossOn, cancelled, tainted, soiled, result,
             selFaults>>

SelFault(k) == k \in SelFaultKinds /\ selFaults < MaxSelFaults /\ selFaults' = selFaults + 1
NoSelFault == selFaults' = selFaults

NoMetrics == [dev |-> 0, lines |-> 0, files |-> 0]
Unseen == [seen |-> FALSE, merged |-> FALSE, score |-> 0, cross |-> 0, met |-> NoMetrics]
NoResult == [kind |-> "none", win |-> 0]

Metrics == [dev : Nat, lines : Nat, files : Nat]

ASSUME NaturesAssumption ==
    Natures \subseteq
        [cands : {{1}, {2}, Ids}, healthy : BOOLEAN, merges : [Ids -> BOOLEAN],
         suite : [Ids -> SUBSET (0..Total)], cross : [Ids -> SUBSET (0..Total)],
         tests : [Ids -> BOOLEAN], met : [Ids -> Metrics]]
ASSUME VotesAssumption == Votes \subseteq [Ids -> 0..2]

Both == nature.cands = Ids
Firstly == IF 1 \in nature.cands THEN 1 ELSE 2

-----------------------------------------------------------------------------
(* What is compared.                                                       *)

\* Mutant: a tenth of the first.
OfTheFirst(x, y) == x - y <= x \div 10 /\ y - x <= x \div 10

\* withinMargin: a tenth of the larger.
WithinMargin(x, y) ==
    LET larger == IF x < y THEN y ELSE x
        smaller == IF x < y THEN x ELSE y
    IN (larger - smaller) * 10 <= larger

\* stage2Tiebreak; 0 stands for tie_canonical_first.
Stage2(a, b) ==
    CASE a.dev # b.dev -> IF b.dev < a.dev THEN 2 ELSE 1
      [] a.dev = b.dev /\ ~WithinMargin(a.lines, b.lines) -> IF b.lines < a.lines THEN 2 ELSE 1
      [] a.dev = b.dev /\ WithinMargin(a.lines, b.lines) /\ ~WithinMargin(a.files, b.files) ->
            IF b.files < a.files THEN 2 ELSE 1
      [] OTHER -> 0

\* marginFreeCompare; 0 for equal.
MarginFree(a, b) ==
    CASE a.dev # b.dev -> IF b.dev < a.dev THEN 2 ELSE 1
      [] a.dev = b.dev /\ a.lines # b.lines -> IF b.lines < a.lines THEN 2 ELSE 1
      [] a.dev = b.dev /\ a.lines = b.lines /\ a.files # b.files ->
            IF b.files < a.files THEN 2 ELSE 1
      [] OTHER -> 0

\* stage3Judge: agreement, else the side that is barely better; a judge that
\* fails leaves it to the canonical.
Stage3(a, b, votes) ==
    IF 0 \in {votes[1], votes[2]} THEN 1
    ELSE IF votes[1] = votes[2] THEN votes[1]
    ELSE IF MarginFree(a, b) = 0 THEN 1 ELSE MarginFree(a, b)

\* Mutant: the opponent's tests count for more than the task's own.
CrossFirst(r, s) == r.cross > s.cross \/ (r.cross = s.cross /\ r.score > s.score)

\* The stage 1 score, lexicographic; an unmerged candidate is below any run.
Better(r, s) ==
    LET Score(x) == IF x.merged THEN x.score + 1 ELSE 0
    IN Score(r) > Score(s) \/ (Score(r) = Score(s) /\ r.cross > s.cross)

\* A candidate that does not merge takes the cross layer out for both.
Levelled(rs) ==
    IF \A i \in Ids : rs[i].merged THEN rs
    ELSE [i \in Ids |-> [rs[i] EXCEPT !.cross = Total]]

\* The choice between the two.
Choice(rs, votes) ==
    LET a == rs[1].met
        b == rs[2].met
    IN CASE Better(rs[1], rs[2]) -> 1
         [] Better(rs[2], rs[1]) -> 2
         [] OTHER -> IF Stage2(a, b) # 0 THEN Stage2(a, b) ELSE Stage3(a, b, votes)

-----------------------------------------------------------------------------
(* A run.                                                                  *)

\* Mutant: a command that dies with the daemon is like any other that fails.
IgnoreCancel == FALSE

\* ctx.Err() # nil, looked at after every batch of commands.
Interrupted == cancelled

Leave(r) == pc' = "restore" /\ result' = r

\* The idle gate, then the marker; when it cannot be written the caller takes
\* the first finisher.
Begin ==
    /\ pc = "idle" /\ result = NoResult /\ ~cancelled /\ "merge" \notin tree
    /\ runs' = [i \in Ids |-> Unseen] /\ old' = Unseen /\ at' = Firstly /\ again' = 0
    /\ crossOn' = TRUE /\ tainted' = FALSE /\ soiled' = ("dirt" \in tree)
    /\ \/ NoSelFault /\ marker' = TRUE /\ pc' = "baseline" /\ result' = result
       \/ SelFault("marker") /\ marker' \in {marker, TRUE} /\ pc' = pc
          /\ result' = [kind |-> "error", win |-> Firstly]
    /\ UNCHANGED <<nature, tree, cancelled>>

\* How many commands pass: some of those that die with the daemon do not, and
\* on a tree that is not as it should be anything may come out.
Killed(p) == cancelled /\ p < Total
Passes(p, possible) == Killed(p) \/ "dirt" \in tree \/ p \in possible
Taint(p) == tainted' = (tainted \/ Killed(p))

Baseline ==
    /\ pc = "baseline"
    /\ \E p \in 0..Total :
         /\ Passes(p, IF nature.healthy THEN {Total} ELSE {0}) /\ Taint(p)
         /\ \/ Interrupted /\ Leave(NoResult)
            \/ ~Interrupted /\ p < Total /\ Leave([kind |-> "no signal", win |-> Firstly])
            \/ ~Interrupted /\ p = Total /\ pc' = "extract" /\ result' = result
    /\ UNCHANGED <<nature, tree, marker, at, again, runs, old, crossOn, cancelled, soiled, selFaults>>

\* candidateTestFiles: a diff that cannot be read takes the layer out for both.
ExtractTests ==
    /\ pc = "extract" /\ pc' = "merge"
    /\ \/ NoSelFault /\ crossOn' = TRUE
       \/ Both /\ SelFault("extract") /\ crossOn' = FALSE
    /\ UNCHANGED <<nature, tree, marker, at, again, runs, old, cancelled, tainted, soiled, result>>

\* git merge --no-commit, and collectCandidateMetrics while it is merged.
MergeCandidate ==
    /\ pc = "merge" /\ tree' = tree \cup {"merge"}
    /\ \/ /\ nature.merges[at] /\ pc' = "suite"
          /\ \E met \in {nature.met[at], NoMetrics} :
               /\ IF met = nature.met[at] THEN NoSelFault ELSE SelFault("metrics")
               /\ runs' = [runs EXCEPT ![at] = [seen |-> TRUE, merged |-> TRUE, score |-> 0,
                                                cross |-> Total, met |-> met]]
       \/ /\ ~nature.merges[at] \/ "dirt" \in tree
          /\ NoSelFault /\ pc' = "put back"
          /\ runs' = [runs EXCEPT ![at] = [Unseen EXCEPT !.seen = TRUE, !.cross = Total]]
    /\ UNCHANGED <<nature, marker, at, again, old, crossOn, cancelled, tainted, soiled, result>>

Suite ==
    /\ pc = "suite"
    /\ \E p \in 0..Total :
         Passes(p, nature.suite[at]) /\ Taint(p) /\ runs' = [runs EXCEPT ![at].score = p]
    /\ pc' = IF ~Interrupted /\ Both /\ crossOn /\ nature.tests[Opponent(at)] THEN "cross" ELSE "put back"
    /\ UNCHANGED <<nature, tree, marker, at, again, old, crossOn, cancelled, soiled, result,
                   selFaults>>

\* The opponent's tests, over the merged tree; a layer that cannot be laid
\* leaves this candidate's score neutral.
CrossTests ==
    /\ pc = "cross" /\ pc' = "put back"
    /\ \/ /\ NoSelFault /\ tree' = tree \cup {"overlay"}
          /\ \E p \in 0..Total :
               Passes(p, nature.cross[at]) /\ Taint(p) /\ runs' = [runs EXCEPT ![at].cross = p]
       \/ SelFault("overlay") /\ UNCHANGED <<tree, runs, tainted>>
    /\ UNCHANGED <<nature, marker, at, again, old, crossOn, cancelled, soiled, result>>

\* restore: merge --abort, reset --hard and clean, whose errors are logged.
RestoreTree ==
    \/ NoSelFault /\ tree' = {}
    \/ tree # {} /\ SelFault("reset") /\ tree' = {"dirt"}

\* The flake guard: who fails while the other passes everything runs again.
Flaky ==
    {i \in nature.cands : /\ Both /\ runs[1].merged /\ runs[2].merged
                          /\ runs[i].score < Total /\ runs[Opponent(i)].score = Total}

\* The second run replaces the first only when everything passes.
Recovered(new) == new.merged /\ new.score = Total

PutBack ==
    LET unseen == {i \in nature.cands : ~runs[i].seen}
        final == IF again = 0 \/ Recovered(runs[again]) THEN runs
                 ELSE [runs EXCEPT ![again] = old]
        to(i) == at' = i /\ pc' = "merge" /\ result' = result
    IN /\ pc = "put back" /\ RestoreTree /\ soiled' = (soiled \/ "dirt" \in tree')
       /\ \/ Interrupted /\ Leave(NoResult) /\ UNCHANGED <<at, again, runs, old>>
          \/ \E i \in unseen : ~Interrupted /\ to(i) /\ UNCHANGED <<again, runs, old>>
          \/ /\ ~Interrupted /\ unseen = {} /\ again = 0
             /\ \E i \in Flaky : to(i) /\ again' = i /\ old' = runs[i] /\ runs' = runs
          \/ /\ ~Interrupted /\ unseen = {} /\ (again # 0 \/ Flaky = {})
             /\ runs' = final /\ pc' = "decide" /\ UNCHANGED <<at, again, old, result>>
       /\ UNCHANGED <<nature, marker, crossOn, cancelled, tainted>>

Decide ==
    /\ pc = "decide"
    /\ LET rs == Levelled(runs)
           one == runs[Firstly]
       IN \/ /\ ~Both /\ ~(one.merged /\ one.score = Total)
             /\ Leave([kind |-> "sole failed", win |-> 0])
          \/ ~Both /\ one.merged /\ one.score = Total /\ Leave([kind |-> "win", win |-> Firstly])
          \/ /\ Both /\ ~runs[1].merged /\ ~runs[2].merged
             /\ Leave([kind |-> "no signal", win |-> Firstly])
          \/ /\ Both /\ (runs[1].merged \/ runs[2].merged)
             /\ \E votes \in Votes :
                  \* Judges are asked on a full tie only, and not by a daemon that stops.
                  LET tie == ~Better(rs[1], rs[2]) /\ ~Better(rs[2], rs[1])
                             /\ Stage2(rs[1].met, rs[2].met) = 0
                  IN IF tie /\ Interrupted THEN Leave(NoResult)
                     ELSE Leave([kind |-> "win", win |-> Choice(rs, votes)])
    /\ UNCHANGED <<nature, tree, marker, at, again, runs, old, crossOn, cancelled, tainted, soiled,
                   selFaults>>

\* The deferred restore, then clearMarker.
Restore == pc = "restore" /\ pc' = "unmark" /\ RestoreTree /\ marker' = marker
Unmark ==
    /\ pc = "unmark" /\ pc' = "idle"
    /\ \/ NoSelFault /\ marker' = FALSE
       \/ SelFault("marker") /\ marker' = marker
    /\ tree' = tree
Leaving ==
    /\ Restore \/ Unmark
    /\ UNCHANGED <<nature, at, again, runs, old, crossOn, cancelled, tainted, soiled, result>>

-----------------------------------------------------------------------------
(* The daemon stops, dies and starts.                                      *)

Shutdown ==
    /\ pc \notin {"idle", "down"} /\ ~cancelled /\ SelFault("shutdown") /\ cancelled' = TRUE
    /\ UNCHANGED <<nature, tree, marker, pc, at, again, runs, old, crossOn, tainted, soiled, result>>

Die ==
    /\ pc \notin {"idle", "down"} /\ SelFault("crash") /\ pc' = "down" /\ result' = NoResult
    /\ UNCHANGED <<nature, tree, marker, at, again, runs, old, crossOn, cancelled, tainted, soiled>>

\* Mutant: recovery gives the worktree up when it cannot be reset.
ForgetAnyway == tree' = {"dirt"} /\ marker' = FALSE

\* reconcileABSelectionMarkerUnlocked: a tree that cannot be reset stays marked.
CannotReset == tree' = {"dirt"} /\ marker' = marker

Restart ==
    /\ pc = "down" \/ (pc = "idle" /\ cancelled)
    /\ pc' = "idle" /\ cancelled' = FALSE
    /\ \/ ~marker /\ NoSelFault /\ UNCHANGED <<tree, marker>>
       \/ marker /\ NoSelFault /\ tree' = {} /\ marker' = FALSE
       \/ marker /\ SelFault("marker") /\ tree' = {} /\ marker' = marker
       \/ marker /\ tree # {} /\ SelFault("startup reset") /\ CannotReset
    /\ UNCHANGED <<nature, at, again, runs, old, crossOn, tainted, soiled, result>>

Engine ==
    \/ Begin \/ Baseline \/ ExtractTests \/ MergeCandidate \/ Suite \/ CrossTests \/ PutBack
    \/ Decide \/ Leaving

SelInit ==
    /\ nature \in Natures /\ tree = {} /\ marker = FALSE /\ pc = "idle" /\ at = 0 /\ again = 0
    /\ runs = [i \in Ids |-> Unseen] /\ old = Unseen /\ crossOn = TRUE /\ cancelled = FALSE
    /\ tainted = FALSE /\ soiled = FALSE /\ result = NoResult /\ selFaults = 0

SelNext == Engine \/ Shutdown \/ Die \/ Restart

SelSpec == SelInit /\ [][SelNext]_selVars

-----------------------------------------------------------------------------
\* Whenever no selection runs the integration worktree is as its branch, or
\* marked for the next start (RunCandidateSelection: "always restored to its
\* pre-selection SHA, marker-guarded for crash recovery").
MarkedOrClean == pc \in {"idle", "down"} /\ ~marker => tree = {}

\* On a tree that was put back, who wins merges, and does not always fail where
\* the opponent always passes; with a sound verifier nothing that always fails
\* wins alone (RunCandidateSelection).
WinnerIsSound ==
    result.kind = "win" /\ ~soiled =>
        LET w == result.win
            o == Opponent(w)
        IN /\ w \in nature.cands /\ nature.merges[w] /\ nature.healthy
           /\ ~Both => nature.suite[w] # {0}
           /\ Both /\ nature.merges[o] /\ nature.suite[o] = {Total} => Total \in nature.suite[w]

\* Commands that die with the daemon never decide (RunCandidateSelection:
\* "RETRYABLE, not a verdict").
InterruptionIsNoVerdict == result # NoResult => ~tainted

\* Which candidate comes first matters only when a judge fails or nothing
\* tells them apart: exchanged, what was seen makes the other one win
\* (stage2Tiebreak, marginFreeCompare, stage3Judge).
OrderIsFair ==
    pc = "decide" /\ Both =>
        LET swap(f) == [i \in Ids |-> f[Opponent(i)]]
            turn(v) == IF v = 0 THEN 0 ELSE Opponent(v)
            rs == Levelled(runs)
        IN \A v \in Votes :
             LET c == Choice(rs, v)
                 d == Choice(swap(rs), [k \in Ids |-> turn(v[k])])
             IN c # Opponent(d) => \/ 0 \in {v[1], v[2]}
                                   \/ v[1] # v[2] /\ rs[1].met = rs[2].met

\* Whatever dies in the middle, the engine leaves a clean or marked worktree and
\* chooses on what it has seen of both candidates, and on nothing else.
SelectionIsSound == MarkedOrClean /\ WinnerIsSound /\ InterruptionIsNoVerdict /\ OrderIsFair

\* A measurement that fails leaves the choice to the later rules
\* (collectCandidateMetrics: "which Stage 2 treats as indistinguishable").
MetricsFaultIsNeutral ==
    pc = "decide" /\ Both =>
        LET rs == Levelled(runs)
            lost == \E i \in Ids : runs[i].merged /\ runs[i].met # nature.met[i]
        IN lost /\ ~Better(rs[1], rs[2]) /\ ~Better(rs[2], rs[1]) =>
               Stage2(rs[1].met, rs[2].met) = 0

=============================================================================
