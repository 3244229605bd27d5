--------------------------- MODULE CandidateProofs ---------------------------
(***************************************************************************)
(* Proofs about two candidates for one task (CandidateSelection,           *)
(* CandidateRace).                                                         *)
(*                                                                         *)
(* The selection: a winner that was chosen on a tree that was as it should *)
(* be merges and has the better suite, an interrupted run is no verdict    *)
(* and the order the candidates are looked at in does not matter, whatever *)
(* fails; if the tree can be put back, it is marked until it is clean.     *)
(*                                                                         *)
(* The race: a task that counts as completed has its work on a branch, one *)
(* candidate survives and a winner is merged while its worker is idle,     *)
(* whatever fails; the logical task is worked once unless two failures,    *)
(* the commit of a worktree among them, come together.                     *)
(***************************************************************************)
EXTENDS CandidateSelection, CandidateRace, FiniteSetTheorems, TLAPS

-----------------------------------------------------------------------------
(* The selection: types.                                                   *)

Runs == [seen : BOOLEAN, merged : BOOLEAN, score : 0..Total, cross : 0..Total, met : Metrics]
Results == [kind : {"none", "error", "no signal", "sole failed", "win"}, win : {0} \cup Ids]
Running == {"baseline", "extract", "merge", "suite", "cross", "put back", "decide", "restore", "unmark"}

SelTypeOK ==
    /\ nature \in Natures /\ tree \in SUBSET {"merge", "overlay", "dirt"} /\ marker \in BOOLEAN
    /\ pc \in Running \cup {"idle", "down"} /\ at \in {0} \cup Ids /\ again \in {0} \cup Ids
    /\ runs \in [Ids -> Runs] /\ old \in Runs
    /\ crossOn \in BOOLEAN /\ cancelled \in BOOLEAN /\ tainted \in BOOLEAN /\ soiled \in BOOLEAN
    /\ result \in Results /\ selFaults \in Nat

\* A run marks the tree before it touches it and unmarks it when it is put back.
MarkInv ==
    /\ marker \in BOOLEAN
    /\ pc \in Running => marker
    /\ ~marker \/ pc = "unmark" => tree = {}

\* Once commands have died with the daemon the engine is on its way out.
TaintInv ==
    /\ tainted => /\ result = NoResult
                  /\ pc \in {"put back", "restore", "unmark", "idle", "down"}
                  /\ pc = "put back" => cancelled
    /\ pc \in Running \ {"restore", "unmark"} => result = NoResult

\* What was seen of candidate i is what i is like.
SeenTruly(r, i) ==
    /\ r.seen
    /\ r.merged => nature.merges[i] /\ r.score \in nature.suite[i]
    /\ ~r.merged => ~nature.merges[i]

\* As long as the tree is as it should be: the verifier is healthy once the
\* baseline has passed, what was seen is true but for the suite that is being
\* run and the one that was killed, and nobody is chosen before both were seen.
Looking == {"merge", "suite", "cross", "put back"}
TreeIsGood == pc \in Running \ {"restore", "unmark"} => "dirt" \notin tree
LooksAtCandidate ==
    /\ pc \in Looking \cup {"extract", "decide"} => nature.healthy
    /\ pc \in Looking \cup {"baseline", "extract"} => at \in nature.cands
SeesTruly ==
    /\ pc \in {"baseline", "extract"} => again = 0 /\ \A i \in Ids : ~runs[i].seen
    /\ pc \in Looking \cup {"decide"} =>
         \A i \in nature.cands :
            runs[i].seen /\ ~tainted /\ (i = at => pc # "suite") => SeenTruly(runs[i], i)
    /\ pc = "suite" => runs[at].seen /\ runs[at].merged /\ nature.merges[at]
    /\ pc \in {"cross", "put back"} => runs[at].seen
    /\ pc = "decide" => \A i \in nature.cands : runs[i].seen
LooksAgain ==
    pc \in Looking /\ again # 0 =>
        /\ again \in nature.cands /\ at = again /\ SeenTruly(old, again)
        /\ \A i \in nature.cands : runs[i].seen
TrueInv == ~soiled => TreeIsGood /\ LooksAtCandidate /\ SeesTruly /\ LooksAgain

SelInv == SelTypeOK /\ TaintInv /\ TrueInv /\ WinnerIsSound

-----------------------------------------------------------------------------
(* The selection: what the comparisons do.                                 *)

USE TotalAssumption

\* The margin is the same from either side.
LEMMA MarginIsSymmetric ==
    ASSUME NEW x \in Nat, NEW y \in Nat
    PROVE  WithinMargin(x, y) = WithinMargin(y, x)
  BY DEF WithinMargin

\* Exchanged, the measurements make the other candidate win, or still nobody.
LEMMA StageTwoTurns ==
    ASSUME NEW a \in Metrics, NEW b \in Metrics
    PROVE  /\ Stage2(a, b) \in {0} \cup Ids
           /\ Stage2(b, a) = IF Stage2(a, b) = 0 THEN 0 ELSE Opponent(Stage2(a, b))
<1>1. /\ a.dev \in Nat /\ a.lines \in Nat /\ a.files \in Nat
      /\ b.dev \in Nat /\ b.lines \in Nat /\ b.files \in Nat
  BY DEF Metrics
<1>2. /\ WithinMargin(a.lines, b.lines) = WithinMargin(b.lines, a.lines)
      /\ WithinMargin(a.files, b.files) = WithinMargin(b.files, a.files)
  BY <1>1, MarginIsSymmetric
<1>3. /\ ~WithinMargin(a.lines, b.lines) => a.lines # b.lines
      /\ ~WithinMargin(a.files, b.files) => a.files # b.files
  BY <1>1 DEF WithinMargin
<1> QED
  BY <1>1, <1>2, <1>3 DEF Stage2, Ids, Opponent

\* The same without a margin; nobody wins only between equals.
LEMMA MarginFreeTurns ==
    ASSUME NEW a \in Metrics, NEW b \in Metrics
    PROVE  /\ MarginFree(a, b) \in {0} \cup Ids
           /\ MarginFree(b, a) = IF MarginFree(a, b) = 0 THEN 0 ELSE Opponent(MarginFree(a, b))
           /\ MarginFree(a, b) = 0 => a = b
<1>1. /\ a.dev \in Nat /\ a.lines \in Nat /\ a.files \in Nat
      /\ b.dev \in Nat /\ b.lines \in Nat /\ b.files \in Nat
  BY DEF Metrics
<1>2. MarginFree(a, b) = 0 => a.dev = b.dev /\ a.lines = b.lines /\ a.files = b.files
  BY <1>1 DEF MarginFree
<1>3. MarginFree(a, b) = 0 => a = b
  BY <1>2 DEF Metrics
<1> QED
  BY <1>1, <1>3 DEF MarginFree, Ids, Opponent

\* The judges name a candidate.
LEMMA JudgesChoose ==
    ASSUME NEW a \in Metrics, NEW b \in Metrics, NEW v \in Votes
    PROVE  Stage3(a, b, v) \in Ids
<1>1. v[1] \in 0..2 /\ v[2] \in 0..2
  BY VotesAssumption DEF Ids
<1>2. MarginFree(a, b) \in {0} \cup Ids
  BY MarginFreeTurns
<1> QED
  BY <1>1, <1>2 DEF Stage3, Ids

\* What levelling keeps of a run.
LEMMA LevelledKeeps ==
    ASSUME NEW rs \in [Ids -> Runs]
    PROVE  /\ Levelled(rs) \in [Ids -> Runs]
           /\ \A i \in Ids : /\ Levelled(rs)[i].merged = rs[i].merged
                             /\ Levelled(rs)[i].score = rs[i].score
                             /\ Levelled(rs)[i].met = rs[i].met
  BY DEF Levelled, Runs, Ids

\* A candidate is better than another or the other way round, never both, and
\* one that merges and passes everything is better than one that does not.
LEMMA BetterIsStrict ==
    ASSUME NEW r \in Runs, NEW s \in Runs
    PROVE  /\ ~(Better(r, s) /\ Better(s, r))
           /\ r.merged /\ ~s.merged => Better(r, s)
           /\ r.merged /\ s.merged /\ r.score = Total /\ s.score # Total => Better(r, s)
<1>1. r.score \in 0..Total /\ s.score \in 0..Total /\ r.cross \in 0..Total /\ s.cross \in 0..Total
      /\ r.merged \in BOOLEAN /\ s.merged \in BOOLEAN
  BY DEF Runs
<1> QED
  BY <1>1 DEF Better

\* The candidate that is chosen merges, and fails nothing the other passes.
LEMMA ChoiceIsGood ==
    ASSUME NEW rs \in [Ids -> Runs], NEW v \in Votes, NEW c, c = Choice(Levelled(rs), v),
           rs[1].merged \/ rs[2].merged
    PROVE  /\ c \in Ids /\ rs[c].merged
           /\ rs[Opponent(c)].merged /\ rs[Opponent(c)].score = Total => rs[c].score = Total
<1> DEFINE ls == Levelled(rs)
<1>1. /\ ls \in [Ids -> Runs]
      /\ \A i \in Ids : ls[i].merged = rs[i].merged /\ ls[i].score = rs[i].score
  BY LevelledKeeps
<1>2. ls[1] \in Runs /\ ls[2] \in Runs
  BY <1>1 DEF Ids
<1>3. ls[1].met \in Metrics /\ ls[2].met \in Metrics
  BY <1>2 DEF Runs
<1>4. /\ Stage2(ls[1].met, ls[2].met) \in {0} \cup Ids
      /\ Stage3(ls[1].met, ls[2].met, v) \in Ids
  BY <1>3, StageTwoTurns, JudgesChoose
<1>5. /\ ~(Better(ls[1], ls[2]) /\ Better(ls[2], ls[1]))
      /\ ls[1].merged /\ ~ls[2].merged => Better(ls[1], ls[2])
      /\ ls[2].merged /\ ~ls[1].merged => Better(ls[2], ls[1])
      /\ ls[1].merged /\ ls[2].merged /\ ls[1].score = Total /\ ls[2].score # Total
            => Better(ls[1], ls[2])
      /\ ls[2].merged /\ ls[1].merged /\ ls[2].score = Total /\ ls[1].score # Total
            => Better(ls[2], ls[1])
  BY <1>2, BetterIsStrict
<1>6. /\ Better(ls[1], ls[2]) => c = 1
      /\ Better(ls[2], ls[1]) => c = 2
      /\ c \in Ids
  BY <1>4, <1>5 DEF Choice, Ids
<1>7. Opponent(1) = 2 /\ Opponent(2) = 1 /\ 1 \in Ids /\ 2 \in Ids /\ (c = 1 \/ c = 2)
  BY <1>6 DEF Opponent, Ids
<1> HIDE DEF ls
<1> QED
  BY <1>1, <1>5, <1>6, <1>7

\* Which candidate comes first does not decide.
LEMMA ChoiceIsFair ==
    SelTypeOK => OrderIsFair
<1> SUFFICES ASSUME SelTypeOK, NEW v \in Votes
             PROVE  LET swap(f) == [i \in Ids |-> f[Opponent(i)]]
                        turn(u) == IF u = 0 THEN 0 ELSE Opponent(u)
                        rs == Levelled(runs)
                        c == Choice(rs, v)
                        d == Choice(swap(rs), [k \in Ids |-> turn(v[k])])
                    IN c # Opponent(d) => \/ 0 \in {v[1], v[2]}
                                          \/ v[1] # v[2] /\ rs[1].met = rs[2].met
  BY DEF OrderIsFair
<1> DEFINE rs == Levelled(runs)
           a == rs[1].met
           b == rs[2].met
           turned == [k \in Ids |-> IF v[k] = 0 THEN 0 ELSE Opponent(v[k])]
           swapped == [i \in Ids |-> rs[Opponent(i)]]
           c == Choice(rs, v)
           d == Choice(swapped, turned)
<1>1. rs[1] \in Runs /\ rs[2] \in Runs
  BY LevelledKeeps DEF SelTypeOK, Ids
<1>2. a \in Metrics /\ b \in Metrics
  BY <1>1 DEF Runs
<1>3. v[1] \in 0..2 /\ v[2] \in 0..2
  BY VotesAssumption DEF Ids
<1>4. swapped[1] = rs[2] /\ swapped[2] = rs[1]
  BY DEF Ids, Opponent
<1>5. /\ turned[1] = IF v[1] = 0 THEN 0 ELSE Opponent(v[1])
      /\ turned[2] = IF v[2] = 0 THEN 0 ELSE Opponent(v[2])
  BY DEF Ids
<1> HIDE DEF rs, swapped, turned
<1>6. /\ Stage2(a, b) \in {0} \cup Ids
      /\ Stage2(b, a) = IF Stage2(a, b) = 0 THEN 0 ELSE Opponent(Stage2(a, b))
      /\ MarginFree(a, b) \in {0} \cup Ids
      /\ MarginFree(b, a) = IF MarginFree(a, b) = 0 THEN 0 ELSE Opponent(MarginFree(a, b))
      /\ MarginFree(a, b) = 0 => a = b
  BY <1>2, StageTwoTurns, MarginFreeTurns
<1>7. ~(Better(rs[1], rs[2]) /\ Better(rs[2], rs[1]))
  BY <1>1, BetterIsStrict
<1>8. /\ c = IF Better(rs[1], rs[2]) THEN 1 ELSE IF Better(rs[2], rs[1]) THEN 2
             ELSE IF Stage2(a, b) # 0 THEN Stage2(a, b) ELSE Stage3(a, b, v)
      /\ d = IF Better(rs[2], rs[1]) THEN 1 ELSE IF Better(rs[1], rs[2]) THEN 2
             ELSE IF Stage2(b, a) # 0 THEN Stage2(b, a) ELSE Stage3(b, a, turned)
  BY <1>4, <1>7 DEF Choice
<1>9. c # Opponent(d) => 0 \in {v[1], v[2]} \/ (v[1] # v[2] /\ a = b)
  <2> SUFFICES ASSUME v[1] # 0, v[2] # 0 PROVE c # Opponent(d) => v[1] # v[2] /\ a = b
    OBVIOUS
  <2>1. v[1] \in Ids /\ v[2] \in Ids
    BY <1>3 DEF Ids
  <2>2. turned[1] = Opponent(v[1]) /\ turned[2] = Opponent(v[2])
    BY <1>5
  <2>3. /\ v[1] = v[2] => Stage3(a, b, v) = Opponent(Stage3(b, a, turned))
        /\ v[1] # v[2] /\ MarginFree(a, b) # 0 => Stage3(a, b, v) = Opponent(Stage3(b, a, turned))
    BY <2>1, <2>2, <1>6 DEF Stage3, Ids, Opponent
  <2> HIDE DEF c, d, a, b
  <2> QED
    BY <2>3, <1>6, <1>7, <1>8 DEF Ids, Opponent
<1> QED
  BY <1>9 DEF rs, swapped, turned

-----------------------------------------------------------------------------
(* The selection: the steps of the engine.                                 *)

\* What the candidates are like does not change.
LEMMA NatureStays ==
    SelNext => nature' = nature
  BY DEF SelNext, Engine, Begin, Baseline, ExtractTests, MergeCandidate, Suite, CrossTests, PutBack,
         Decide, Leaving, Shutdown, Die, Restart

LEMMA NatureIsTyped ==
    ASSUME SelTypeOK
    PROVE  /\ nature.cands \in {{1}, {2}, Ids} /\ nature.merges \in [Ids -> BOOLEAN]
           /\ nature.suite \in [Ids -> SUBSET (0..Total)] /\ nature.met \in [Ids -> Metrics]
           /\ nature.healthy \in BOOLEAN
           /\ Firstly \in nature.cands
  BY NaturesAssumption DEF SelTypeOK, Firstly, Ids

LEMMA Blanks ==
    /\ NoMetrics \in Metrics /\ Unseen \in Runs /\ NoResult \in Results
    /\ NoResult.kind # "win"
    /\ \A k \in {"error", "no signal", "sole failed", "win"}, w \in {0} \cup Ids :
         [kind |-> k, win |-> w] \in Results
<1>1. NoMetrics \in Metrics
  BY DEF NoMetrics, Metrics
<1>2. Unseen \in Runs
  BY <1>1 DEF Unseen, Runs
<1> QED
  BY <1>1, <1>2 DEF NoResult, Results

LEMMA BeginKeeps ==
    ASSUME SelInv, Begin PROVE SelInv'
<1>1. SelTypeOK'
  <2>1. /\ nature' = nature /\ tree' = tree /\ cancelled' = cancelled /\ pc' \in {"idle", "baseline"}
        /\ runs' = [i \in Ids |-> Unseen] /\ old' = Unseen /\ at' = Firstly /\ again' = 0
        /\ crossOn' = TRUE /\ tainted' = FALSE /\ soiled' = ("dirt" \in tree)
        /\ marker' \in {marker, TRUE} /\ selFaults' \in {selFaults, selFaults + 1}
        /\ result' \in {result, [kind |-> "error", win |-> Firstly]}
    BY DEF Begin, NoSelFault, SelFault
  <2>2. Firstly \in Ids
    BY DEF Firstly, Ids
  <2>3. result' \in Results
    BY <2>1, <2>2, Blanks DEF SelInv, SelTypeOK
  <2>4. selFaults' \in Nat
    BY <2>1 DEF SelInv, SelTypeOK
  <2>5. soiled' \in BOOLEAN /\ marker' \in BOOLEAN
    <3>1. ("dirt" \in tree) \in BOOLEAN /\ marker \in BOOLEAN
      BY DEF SelInv, SelTypeOK
    <3>2. marker' = marker \/ marker' = TRUE
      BY <2>1
    <3>3. soiled' \in BOOLEAN
      BY <2>1, <3>1
    <3> QED
      BY <3>1, <3>2, <3>3, Zenon
  <2>6. runs' \in [Ids -> Runs] /\ old' \in Runs
    BY <2>1, Blanks
  <2> QED
    BY <2>1, <2>2, <2>3, <2>4, <2>5, <2>6 DEF SelInv, SelTypeOK, Running
<1>2. TaintInv'
  BY DEF SelInv, TaintInv, Begin, Running, NoResult
<1>3. TrueInv'
  BY <1>1, NatureIsTyped DEF SelInv, TrueInv, TreeIsGood, LooksAtCandidate, SeesTruly, LooksAgain,
         Begin, Looking, Running, Unseen
<1>4. WinnerIsSound'
  <2>1. result'.kind # "win"
    <3>1. result' \in {NoResult, [kind |-> "error", win |-> Firstly]}
      BY DEF Begin
    <3> QED
      BY <3>1 DEF NoResult
  <2> QED
    BY <2>1 DEF WinnerIsSound
<1> QED
  BY <1>1, <1>2, <1>3, <1>4 DEF SelInv

LEMMA BaselineKeeps ==
    ASSUME SelInv, Baseline PROVE SelInv'
<1>1. SelTypeOK'
  <2>1. /\ pc' \in {"restore", "extract"} /\ tainted' \in BOOLEAN
        /\ result' \in {result, NoResult, [kind |-> "no signal", win |-> Firstly]}
    BY DEF Baseline, Taint, Killed, Leave, SelInv, SelTypeOK
  <2>2. result' \in Results
    <3>1. Firstly \in Ids
      BY DEF Firstly, Ids
    <3> QED
      BY <2>1, <3>1, Blanks DEF SelInv, SelTypeOK
  <2> QED
    BY <2>1, <2>2 DEF SelInv, SelTypeOK, Baseline, Running
<1>2. TaintInv'
  BY DEF SelInv, TaintInv, SelTypeOK, Baseline, Taint, Killed, Leave, Interrupted, Running, NoResult
<1>3. TrueInv'
  <2> SUFFICES ASSUME ~soiled' PROVE TrueInv'
    BY DEF TrueInv
  <2>1. /\ ~soiled /\ "dirt" \notin tree /\ at \in nature.cands
        /\ again = 0 /\ \A i \in Ids : ~runs[i].seen
    BY DEF Baseline, SelInv, TrueInv, TreeIsGood, LooksAtCandidate, SeesTruly, Running
  <2>2. pc' \in {"restore", "extract"} /\ (pc' = "extract" => nature.healthy)
    <3>1. PICK p \in 0..Total :
            /\ Passes(p, IF nature.healthy THEN {Total} ELSE {0})
            /\ \/ Interrupted /\ Leave(NoResult)
               \/ ~Interrupted /\ p < Total /\ Leave([kind |-> "no signal", win |-> Firstly])
               \/ ~Interrupted /\ p = Total /\ pc' = "extract" /\ result' = result
      BY DEF Baseline
    <3>2. CASE pc' = "extract"
      <4>1. ~Interrupted /\ p = Total
        BY <3>1, <3>2 DEF Leave
      <4>2. p \in IF nature.healthy THEN {Total} ELSE {0}
        <5>1. ~Killed(p)
          BY <4>1, TotalAssumption DEF Killed
        <5> QED
          BY <5>1, <3>1, <2>1, Zenon DEF Passes
      <4> QED
        BY <4>1, <4>2, <3>2
    <3>3. CASE pc' # "extract"
      BY <3>1, <3>3 DEF Leave
    <3> QED
      BY <3>2, <3>3
  <2>3. nature' = nature /\ tree' = tree /\ at' = at /\ runs' = runs /\ again' = again
    BY DEF Baseline
  <2> QED
    BY <2>1, <2>2, <2>3 DEF TrueInv, TreeIsGood, LooksAtCandidate, SeesTruly, LooksAgain, Looking, Running
<1>4. WinnerIsSound'
  <2>1. result = NoResult
    BY DEF SelInv, TaintInv, Baseline, Running
  <2>2. result' \in {NoResult, [kind |-> "no signal", win |-> Firstly]}
    BY <2>1 DEF Baseline, Leave
  <2>3. result'.kind # "win"
    <3>1. NoResult.kind = "none" /\ [kind |-> "no signal", win |-> Firstly].kind = "no signal"
      BY DEF NoResult
    <3> QED
      BY <2>2, <3>1
  <2> QED
    BY <2>3 DEF WinnerIsSound
<1> QED
  BY <1>1, <1>2, <1>3, <1>4 DEF SelInv

LEMMA ExtractKeeps ==
    ASSUME SelInv, ExtractTests PROVE SelInv'
<1>1. SelTypeOK'
  <2>1. selFaults' \in {selFaults, selFaults + 1} /\ crossOn' \in BOOLEAN
    BY Zenon DEF ExtractTests, NoSelFault, SelFault
  <2>2. selFaults' \in Nat
    BY <2>1 DEF SelInv, SelTypeOK
  <2> QED
    BY <2>1, <2>2 DEF SelInv, SelTypeOK, ExtractTests, Running
<1>2. TaintInv'
  BY DEF SelInv, TaintInv, ExtractTests, Running
<1>3. TrueInv'
  <2> SUFFICES ASSUME ~soiled' PROVE TrueInv'
    BY DEF TrueInv
  <2>1. /\ ~soiled /\ "dirt" \notin tree /\ at \in nature.cands /\ nature.healthy
        /\ again = 0 /\ \A i \in Ids : ~runs[i].seen
    BY DEF ExtractTests, SelInv, TrueInv, TreeIsGood, LooksAtCandidate, SeesTruly, Running
  <2>2. nature.cands \subseteq Ids
    BY NatureIsTyped DEF SelInv, Ids
  <2>3. nature' = nature /\ tree' = tree /\ at' = at /\ runs' = runs /\ pc' = "merge" /\ again' = again
    BY DEF ExtractTests
  <2> QED
    BY <2>1, <2>2, <2>3 DEF TrueInv, TreeIsGood, LooksAtCandidate, SeesTruly, LooksAgain, Looking, Running
<1>4. WinnerIsSound'
  BY DEF SelInv, TaintInv, WinnerIsSound, ExtractTests, NoResult, Running
<1> QED
  BY <1>1, <1>2, <1>3, <1>4 DEF SelInv

LEMMA NoWinnerYet ==
    ASSUME result' = NoResult PROVE WinnerIsSound'
<1>1. result'.kind = "none"
  BY DEF NoResult
<1> QED
  BY <1>1 DEF WinnerIsSound

\* What is known of a run on a good tree, at a place where the engine looks at
\* a candidate.
LEMMA Looked ==
    ASSUME SelInv, ~soiled, pc \in Looking
    PROVE  /\ "dirt" \notin tree /\ nature.healthy /\ at \in nature.cands /\ at \in Ids
           /\ nature.cands \subseteq Ids
           /\ \A i \in nature.cands :
                runs[i].seen /\ ~tainted /\ (i = at => pc # "suite") => SeenTruly(runs[i], i)
           /\ pc = "suite" => runs[at].seen /\ runs[at].merged /\ nature.merges[at]
           /\ pc \in {"cross", "put back"} => runs[at].seen
           /\ again # 0 => /\ again \in nature.cands /\ at = again /\ SeenTruly(old, again)
                           /\ \A i \in nature.cands : runs[i].seen
<1>1. nature.cands \subseteq Ids
  BY NatureIsTyped DEF SelInv, Ids
<1>2. TreeIsGood /\ LooksAtCandidate /\ SeesTruly /\ LooksAgain
  BY DEF SelInv, TrueInv
<1> QED
  BY <1>1, <1>2 DEF TreeIsGood, LooksAtCandidate, SeesTruly, LooksAgain, Looking, Running

LEMMA MergeKeeps ==
    ASSUME SelInv, MergeCandidate PROVE SelInv'
<1>0. pc = "merge" /\ nature' = nature /\ at' = at /\ again' = again /\ old' = old /\ soiled' = soiled
      /\ tainted' = tainted /\ result' = result /\ tree' = tree \cup {"merge"}
      /\ marker' = marker /\ crossOn' = crossOn /\ cancelled' = cancelled
  BY DEF MergeCandidate
<1>1. PICK r :
        /\ runs' = [runs EXCEPT ![at] = r]
        /\ r.seen /\ (at \in Ids => r \in Runs)
        /\ \/ pc' = "suite" /\ r.merged /\ nature.merges[at]
           \/ pc' = "put back" /\ ~r.merged /\ (~nature.merges[at] \/ "dirt" \in tree)
  <2>1. CASE /\ nature.merges[at] /\ pc' = "suite"
             /\ \E met \in {nature.met[at], NoMetrics} :
                  /\ IF met = nature.met[at] THEN NoSelFault ELSE SelFault("metrics")
                  /\ runs' = [runs EXCEPT ![at] = [seen |-> TRUE, merged |-> TRUE, score |-> 0,
                                                   cross |-> Total, met |-> met]]
    <3>1. PICK met \in {nature.met[at], NoMetrics} :
                  runs' = [runs EXCEPT ![at] = [seen |-> TRUE, merged |-> TRUE, score |-> 0,
                                                cross |-> Total, met |-> met]]
      BY <2>1
    <3> DEFINE r == [seen |-> TRUE, merged |-> TRUE, score |-> 0, cross |-> Total, met |-> met]
    <3>2. at \in Ids => met \in Metrics
      <4>1. at \in Ids => nature.met[at] \in Metrics
        BY NatureIsTyped DEF SelInv
      <4> QED
        BY <3>1, <4>1, Blanks
    <3>3. r.seen /\ r.merged /\ (at \in Ids => r \in Runs)
      BY <3>2 DEF Runs
    <3> QED
      BY <2>1, <3>1, <3>3
  <2>2. CASE /\ ~nature.merges[at] \/ "dirt" \in tree
             /\ NoSelFault /\ pc' = "put back"
             /\ runs' = [runs EXCEPT ![at] = [Unseen EXCEPT !.seen = TRUE, !.cross = Total]]
    <3> DEFINE r == [Unseen EXCEPT !.seen = TRUE, !.cross = Total]
    <3>1. Total \in 0..Total
      OBVIOUS
    <3>2. r \in Runs
      BY <3>1, Blanks DEF Runs
    <3>3. r.seen /\ ~r.merged
      BY DEF Unseen
    <3> QED
      BY <2>2, <3>2, <3>3
  <2> QED
    BY <2>1, <2>2 DEF MergeCandidate
<1>2. SelTypeOK'
  <2>1. selFaults' \in {selFaults, selFaults + 1}
    BY DEF MergeCandidate, NoSelFault, SelFault
  <2>2. selFaults' \in Nat
    BY <2>1 DEF SelInv, SelTypeOK
  <2>3. runs' \in [Ids -> Runs]
    BY <1>1 DEF SelInv, SelTypeOK
  <2> QED
    BY <1>0, <1>1, <2>2, <2>3 DEF SelInv, SelTypeOK, Running
<1>3. TaintInv'
  BY <1>0, <1>1 DEF SelInv, TaintInv, Running
<1>4. TrueInv'
  <2> SUFFICES ASSUME ~soiled' PROVE TrueInv'
    BY DEF TrueInv
  <2>1. /\ "dirt" \notin tree /\ nature.healthy /\ at \in nature.cands /\ at \in Ids
        /\ nature.cands \subseteq Ids
        /\ \A i \in nature.cands : runs[i].seen /\ ~tainted => SeenTruly(runs[i], i)
        /\ again # 0 => /\ again \in nature.cands /\ at = again /\ SeenTruly(old, again)
                        /\ \A i \in nature.cands : runs[i].seen
    BY <1>0, Looked DEF Looking
  <2>2. runs'[at] = r /\ \A i \in nature.cands \ {at} : runs'[i] = runs[i]
    BY <1>1, <2>1 DEF SelInv, SelTypeOK
  <2>3. TreeIsGood' /\ LooksAtCandidate'
    BY <1>0, <1>1, <2>1 DEF TreeIsGood, LooksAtCandidate, Looking
  <2>4. pc' = "put back" => SeenTruly(r, at)
    BY <1>1, <2>1 DEF SeenTruly
  <2>5. \A i \in nature.cands :
           runs'[i].seen /\ ~tainted /\ (i = at => pc' # "suite") => SeenTruly(runs'[i], i)
    BY <1>1, <2>1, <2>2, <2>4
  <2>6. pc' \in {"suite", "put back"} /\ runs'[at].seen
        /\ (pc' = "suite" => runs'[at].merged /\ nature.merges[at])
    BY <1>1, <2>2
  <2>7. SeesTruly'
    BY <1>0, <2>5, <2>6 DEF SeesTruly, SeenTruly
  <2>8. LooksAgain'
    BY <1>0, <1>1, <2>1, <2>2 DEF LooksAgain, SeenTruly
  <2> QED
    BY <2>3, <2>7, <2>8 DEF TrueInv
<1>5. WinnerIsSound'
  BY <1>0, NoWinnerYet DEF SelInv, TaintInv, Running
<1> QED
  BY <1>2, <1>3, <1>4, <1>5 DEF SelInv

LEMMA SuiteKeeps ==
    ASSUME SelInv, Suite PROVE SelInv'
<1>0. pc = "suite" /\ nature' = nature /\ at' = at /\ again' = again /\ old' = old /\ soiled' = soiled
      /\ result' = result /\ tree' = tree /\ pc' \in {"cross", "put back"}
      /\ (pc' = "cross" => ~cancelled)
  BY DEF Suite, Interrupted
<1>1. PICK p \in 0..Total :
        Passes(p, nature.suite[at]) /\ Taint(p) /\ runs' = [runs EXCEPT ![at].score = p]
  BY DEF Suite
<1>2. SelTypeOK'
  <2>1. runs' \in [Ids -> Runs]
    BY <1>1 DEF SelInv, SelTypeOK, Runs
  <2>2. tainted' \in BOOLEAN
    BY <1>1 DEF Taint, SelInv, SelTypeOK, Killed
  <2> QED
    BY <1>0, <2>1, <2>2 DEF SelInv, SelTypeOK, Suite, Running
<1>3. TaintInv'
  <2>1. result = NoResult /\ ~tainted
    BY <1>0 DEF SelInv, TaintInv, Running
  <2>2. tainted' => cancelled
    BY <2>1, <1>1 DEF Taint, Killed
  <2>3. cancelled' = cancelled
    BY DEF Suite
  <2> QED
    BY <1>0, <2>1, <2>2, <2>3 DEF TaintInv, Running
<1>4. TrueInv'
  <2> SUFFICES ASSUME ~soiled' PROVE TrueInv'
    BY DEF TrueInv
  <2>1. /\ "dirt" \notin tree /\ nature.healthy /\ at \in nature.cands /\ at \in Ids
        /\ nature.cands \subseteq Ids
        /\ \A i \in nature.cands \ {at} : runs[i].seen /\ ~tainted => SeenTruly(runs[i], i)
        /\ runs[at].seen /\ runs[at].merged /\ nature.merges[at]
        /\ again # 0 => /\ again \in nature.cands /\ at = again /\ SeenTruly(old, again)
                        /\ \A i \in nature.cands : runs[i].seen
    BY <1>0, Looked DEF Looking
  <2>2. /\ \A i \in nature.cands \ {at} : runs'[i] = runs[i]
        /\ runs'[at].seen /\ runs'[at].merged /\ runs'[at].score = p
    BY <1>1, <2>1 DEF SelInv, SelTypeOK, Runs
  <2>3. ~tainted' => ~tainted /\ p \in nature.suite[at]
    BY <1>1, <2>1 DEF Taint, Passes
  <2>4. TreeIsGood' /\ LooksAtCandidate'
    BY <1>0, <2>1 DEF TreeIsGood, LooksAtCandidate, Looking
  <2>5. ~tainted' => SeenTruly(runs'[at], at)
    BY <2>1, <2>2, <2>3 DEF SeenTruly
  <2>6. SeesTruly'
    BY <1>0, <2>1, <2>2, <2>3, <2>5 DEF SeesTruly, Looking, SeenTruly
  <2>7. LooksAgain'
    BY <1>0, <2>1, <2>2 DEF LooksAgain, SeenTruly
  <2> QED
    BY <2>4, <2>6, <2>7 DEF TrueInv
<1>5. WinnerIsSound'
  BY <1>0, NoWinnerYet DEF SelInv, TaintInv, Running
<1> QED
  BY <1>2, <1>3, <1>4, <1>5 DEF SelInv

LEMMA CrossKeeps ==
    ASSUME SelInv, CrossTests PROVE SelInv'
<1>0. pc = "cross" /\ nature' = nature /\ at' = at /\ again' = again /\ old' = old /\ soiled' = soiled
      /\ result' = result /\ pc' = "put back" /\ tree' \in {tree, tree \cup {"overlay"}}
      /\ cancelled' = cancelled
  BY DEF CrossTests
<1>1. \/ runs' = runs /\ tainted' = tainted
      \/ \E p \in 0..Total : Taint(p) /\ runs' = [runs EXCEPT ![at].cross = p]
  BY DEF CrossTests
<1>2. SelTypeOK'
  <2>1. runs' \in [Ids -> Runs]
    BY <1>1 DEF SelInv, SelTypeOK, Runs
  <2>2. tainted' \in BOOLEAN
    BY <1>1 DEF Taint, SelInv, SelTypeOK, Killed
  <2>3. selFaults' \in {selFaults, selFaults + 1}
    BY DEF CrossTests, NoSelFault, SelFault
  <2>4. selFaults' \in Nat
    BY <2>3 DEF SelInv, SelTypeOK
  <2> QED
    BY <1>0, <2>1, <2>2, <2>4 DEF SelInv, SelTypeOK, CrossTests, Running
<1>3. TaintInv'
  <2>1. result = NoResult /\ ~tainted
    BY <1>0 DEF SelInv, TaintInv, Running
  <2>2. tainted' => cancelled
    BY <2>1, <1>1 DEF Taint, Killed
  <2> QED
    BY <1>0, <2>1, <2>2 DEF TaintInv, Running
<1>4. TrueInv'
  <2> SUFFICES ASSUME ~soiled' PROVE TrueInv'
    BY DEF TrueInv
  <2>1. /\ "dirt" \notin tree /\ nature.healthy /\ at \in nature.cands /\ at \in Ids
        /\ nature.cands \subseteq Ids
        /\ \A i \in nature.cands : runs[i].seen /\ ~tainted => SeenTruly(runs[i], i)
        /\ runs[at].seen
        /\ again # 0 => /\ again \in nature.cands /\ at = again /\ SeenTruly(old, again)
                        /\ \A i \in nature.cands : runs[i].seen
    BY <1>0, Looked DEF Looking
  <2>2. \A i \in nature.cands : /\ runs'[i].seen = runs[i].seen /\ runs'[i].merged = runs[i].merged
                                /\ runs'[i].score = runs[i].score
    BY <1>1, <2>1 DEF SelInv, SelTypeOK, Runs
  <2>3. ~tainted' => ~tainted
    BY <1>1 DEF Taint
  <2>4. TreeIsGood' /\ LooksAtCandidate'
    BY <1>0, <2>1 DEF TreeIsGood, LooksAtCandidate, Looking
  <2>6. SeesTruly'
    BY <1>0, <2>1, <2>2, <2>3 DEF SeesTruly, Looking, SeenTruly
  <2>7. LooksAgain'
    BY <1>0, <2>1, <2>2 DEF LooksAgain, SeenTruly
  <2> QED
    BY <2>4, <2>6, <2>7 DEF TrueInv
<1>5. WinnerIsSound'
  BY <1>0, NoWinnerYet DEF SelInv, TaintInv, Running
<1> QED
  BY <1>2, <1>3, <1>4, <1>5 DEF SelInv

LEMMA PutBackKeeps ==
    ASSUME SelInv, PutBack PROVE SelInv'
<1> DEFINE unseen == {i \in nature.cands : ~runs[i].seen}
           final == IF again = 0 \/ Recovered(runs[again]) THEN runs
                    ELSE [runs EXCEPT ![again] = old]
<1>0. /\ pc = "put back" /\ nature' = nature /\ marker' = marker /\ crossOn' = crossOn
      /\ cancelled' = cancelled /\ tainted' = tainted
      /\ tree' \in {{}, {"dirt"}} /\ soiled' = (soiled \/ "dirt" \in tree')
  BY DEF PutBack, RestoreTree
<1>1. result = NoResult
  BY <1>0 DEF SelInv, TaintInv, Running
<1>2. nature.cands \subseteq Ids
  BY NatureIsTyped DEF SelInv, Ids
<1>3. \/ cancelled /\ pc' = "restore" /\ result' = NoResult /\ UNCHANGED <<at, again, runs, old>>
      \/ /\ ~cancelled /\ pc' = "merge" /\ result' = NoResult
         /\ at' \in unseen /\ UNCHANGED <<again, runs, old>>
      \/ /\ ~cancelled /\ pc' = "merge" /\ result' = NoResult
         /\ unseen = {} /\ at' \in Flaky /\ again' = at' /\ old' = runs[at'] /\ runs' = runs
      \/ /\ ~cancelled /\ pc' = "decide" /\ result' = NoResult
         /\ unseen = {} /\ runs' = final /\ UNCHANGED <<at, again, old>>
  BY <1>1 DEF PutBack, Leave, Interrupted
<1>4. Flaky \subseteq nature.cands
  BY DEF Flaky
<1>5. SelTypeOK'
  <2>1. final \in [Ids -> Runs]
    BY DEF SelInv, SelTypeOK
  <2>2. selFaults' \in Nat
    <3>1. selFaults' \in {selFaults, selFaults + 1}
      BY DEF PutBack, RestoreTree, NoSelFault, SelFault
    <3> QED
      BY <3>1 DEF SelInv, SelTypeOK
  <2>3. soiled' \in BOOLEAN /\ tree' \in SUBSET {"merge", "overlay", "dirt"}
    BY <1>0
  <2>4. /\ at' \in {0} \cup Ids /\ again' \in {0} \cup Ids /\ runs' \in [Ids -> Runs] /\ old' \in Runs
        /\ pc' \in {"restore", "merge", "decide"} /\ result' = NoResult
    BY <1>2, <1>3, <1>4, <2>1 DEF SelInv, SelTypeOK
  <2>5. nature' \in Natures /\ marker' \in BOOLEAN /\ crossOn' \in BOOLEAN /\ cancelled' \in BOOLEAN
        /\ tainted' \in BOOLEAN
    BY <1>0 DEF SelInv, SelTypeOK
  <2> QED
    BY <2>2, <2>3, <2>4, <2>5, Blanks DEF SelTypeOK, Running
<1>6. TaintInv'
  BY <1>0, <1>3 DEF SelInv, TaintInv, Running
<1>7. TrueInv'
  <2> SUFFICES ASSUME ~soiled' PROVE TrueInv'
    BY DEF TrueInv
  <2>1. ~soiled /\ "dirt" \notin tree'
    BY <1>0
  <2>2. /\ nature.healthy /\ at \in nature.cands /\ at \in Ids
        /\ \A i \in nature.cands : runs[i].seen /\ ~tainted => SeenTruly(runs[i], i)
        /\ again # 0 => /\ again \in nature.cands /\ at = again /\ SeenTruly(old, again)
                        /\ \A i \in nature.cands : runs[i].seen
    BY <1>0, <2>1, Looked DEF Looking
  <2>3. ~cancelled => ~tainted
    BY <1>0 DEF SelInv, TaintInv
  <2>4. TreeIsGood' /\ LooksAtCandidate'
    BY <1>0, <1>3, <1>4, <2>1, <2>2 DEF TreeIsGood, LooksAtCandidate, Looking
  <2>5. CASE pc' = "restore"
    BY <1>0, <2>4, <2>5 DEF TrueInv, SeesTruly, LooksAgain, Looking
  <2>6. CASE pc' = "merge"
    <3>1. runs' = runs /\ ~tainted /\ ~tainted'
      BY <1>0, <1>3, <2>3, <2>6
    <3>2. SeesTruly'
      BY <1>0, <2>2, <2>6, <3>1 DEF SeesTruly, Looking, SeenTruly
    <3>3. again' # 0 => /\ again' \in nature.cands /\ at' = again' /\ SeenTruly(old', again')
                        /\ \A i \in nature.cands : runs[i].seen
      <4>1. CASE at' \in unseen /\ again' = again /\ old' = old
        <5>1. again = 0
          BY <4>1, <2>2
        <5> QED
          BY <4>1, <5>1
      <4>2. CASE unseen = {} /\ at' \in Flaky /\ again' = at' /\ old' = runs[at']
        <5>1. \A i \in nature.cands : runs[i].seen
          BY <4>2
        <5>2. at' \in nature.cands
          BY <4>2, <1>4
        <5> QED
          BY <4>2, <5>1, <5>2, <2>2, <3>1
      <4> QED
        BY <4>1, <4>2, <1>3, <2>6
    <3>4. LooksAgain'
      BY <1>0, <3>1, <3>3 DEF LooksAgain, SeenTruly
    <3> QED
      BY <2>4, <3>2, <3>4 DEF TrueInv
  <2>7. CASE pc' = "decide"
    <3>1. runs' = final /\ ~tainted /\ \A i \in nature.cands : runs[i].seen
      BY <1>3, <2>3, <2>7
    <3>2. \A i \in nature.cands : SeenTruly(final[i], i)
      <4> TAKE i \in nature.cands
      <4>1. CASE final[i] = runs[i]
        BY <2>2, <3>1, <4>1
      <4>2. CASE final[i] # runs[i]
        <5>1. again # 0 /\ again = i /\ final[i] = old
          BY <1>2, <4>2 DEF SelInv, SelTypeOK
        <5> QED
          BY <5>1, <2>2
      <4> QED
        BY <4>1, <4>2
    <3> HIDE DEF final
    <3>3. \A i \in nature.cands : SeenTruly(runs'[i], i) /\ runs'[i].seen
      BY <3>1, <3>2 DEF SeenTruly
    <3>4. SeesTruly'
      BY <1>0, <2>7, <3>3 DEF SeesTruly, Looking, SeenTruly
    <3>5. LooksAgain'
      BY <2>7 DEF LooksAgain, Looking
    <3> QED
      BY <2>4, <3>4, <3>5 DEF TrueInv
  <2> QED
    BY <1>3, <2>5, <2>6, <2>7
<1>8. WinnerIsSound'
  BY <1>3, NoWinnerYet
<1> QED
  BY <1>5, <1>6, <1>7, <1>8 DEF SelInv

\* The only finisher that wins, and the winner of two, are sound.
LEMMA DecideChooses ==
    ASSUME SelInv, Decide
    PROVE  /\ result' \in Results /\ pc' = "restore"
           /\ result'.kind = "win" /\ ~soiled =>
                LET w == result'.win
                    o == Opponent(w)
                IN /\ w \in nature.cands /\ nature.merges[w] /\ nature.healthy
                   /\ ~Both => nature.suite[w] # {0}
                   /\ Both /\ nature.merges[o] /\ nature.suite[o] = {Total} => Total \in nature.suite[w]
<1>0. pc = "decide"
  BY DEF Decide
<1>1. runs \in [Ids -> Runs] /\ ~tainted /\ nature.cands \subseteq Ids /\ Firstly \in nature.cands
  <2>1. runs \in [Ids -> Runs] /\ ~tainted
    BY <1>0 DEF SelInv, SelTypeOK, TaintInv
  <2> QED
    BY <2>1, NatureIsTyped DEF SelInv, Ids
<1>2. ~soiled => nature.healthy /\ \A i \in nature.cands : SeenTruly(runs[i], i)
  BY <1>0, <1>1 DEF SelInv, TrueInv, LooksAtCandidate, SeesTruly
<1>3. CASE result' \in {NoResult, [kind |-> "sole failed", win |-> 0],
                        [kind |-> "no signal", win |-> Firstly]} /\ pc' = "restore"
  <2>1. result' \in Results
    BY <1>1, <1>3, Blanks
  <2>2. /\ NoResult.kind = "none" /\ [kind |-> "sole failed", win |-> 0].kind = "sole failed"
        /\ [kind |-> "no signal", win |-> Firstly].kind = "no signal"
    BY DEF NoResult
  <2>3. result'.kind # "win"
    BY <1>3, <2>2
  <2> QED
    BY <1>3, <2>1, <2>3
<1>4. CASE /\ ~Both /\ runs[Firstly].merged /\ runs[Firstly].score = Total
           /\ result' = [kind |-> "win", win |-> Firstly] /\ pc' = "restore"
  <2>1. result' \in Results
    BY <1>1, <1>4, Blanks
  <2>2. result'.win = Firstly
    BY <1>4
  <2>3. ~soiled => nature.merges[Firstly] /\ Total \in nature.suite[Firstly]
    BY <1>1, <1>2, <1>4 DEF SeenTruly
  <2>4. ~soiled => nature.suite[Firstly] # {0}
    BY <2>3, TotalAssumption
  <2> QED
    BY <1>1, <1>2, <1>4, <2>1, <2>2, <2>3, <2>4
<1>5. CASE /\ Both
           /\ runs[1].merged \/ runs[2].merged
           /\ pc' = "restore"
           /\ \E v \in Votes : result' = [kind |-> "win", win |-> Choice(Levelled(runs), v)]
  <2>1. PICK v \in Votes : result' = [kind |-> "win", win |-> Choice(Levelled(runs), v)]
    BY <1>5
  <2> DEFINE w == Choice(Levelled(runs), v)
             o == Opponent(w)
  <2>2. runs[1].merged \/ runs[2].merged
    BY <1>5
  <2> HIDE DEF w
  <2>3. /\ w \in Ids /\ runs[w].merged
        /\ runs[o].merged /\ runs[o].score = Total => runs[w].score = Total
    BY <1>1, <2>2, ChoiceIsGood DEF w
  <2>4. result' \in Results /\ result'.win = w
    BY <2>1, <2>3, Blanks DEF w
  <2>5. o \in Ids /\ nature.cands = Ids
    <3>1. nature.cands = Ids
      BY <1>5 DEF Both
    <3> QED
      BY <3>1, <2>3 DEF Ids, Opponent
  <2> HIDE DEF o
  <2>6. CASE ~soiled
    <3>1. SeenTruly(runs[w], w) /\ SeenTruly(runs[o], o) /\ nature.healthy
      BY <1>2, <2>3, <2>5, <2>6
    <3>2. nature.merges[w] /\ runs[w].score \in nature.suite[w]
      BY <2>3, <3>1 DEF SeenTruly
    <3>3. nature.merges[o] /\ nature.suite[o] = {Total} => Total \in nature.suite[w]
      BY <2>3, <3>1, <3>2 DEF SeenTruly
    <3>4. pc' = "restore" /\ Both
      BY <1>5
    <3> QED
      BY <2>3, <2>4, <2>5, <3>1, <3>2, <3>3, <3>4 DEF o
  <2> QED
    BY <1>5, <2>4, <2>6
<1> QED
  BY <1>3, <1>4, <1>5 DEF Decide, Leave

LEMMA DecideKeeps ==
    ASSUME SelInv, Decide PROVE SelInv'
<1>0. pc = "decide" /\ UNCHANGED <<nature, tree, marker, at, again, runs, old, crossOn, cancelled,
                                   tainted, soiled, selFaults>>
  BY DEF Decide
<1>1. result' \in Results /\ pc' = "restore"
  BY DecideChooses
<1>2. SelTypeOK'
  BY <1>0, <1>1 DEF SelInv, SelTypeOK, Running
<1>3. TaintInv'
  BY <1>0, <1>1 DEF SelInv, TaintInv, Running
<1>4. TrueInv'
  BY <1>0, <1>1 DEF TrueInv, TreeIsGood, LooksAtCandidate, SeesTruly, LooksAgain, Looking, Running
<1>5. WinnerIsSound'
  BY <1>0, DecideChooses DEF WinnerIsSound, Both
<1> QED
  BY <1>2, <1>3, <1>4, <1>5 DEF SelInv

\* The other steps leave what was seen alone and are away from the candidates,
\* or only let the shutdown begin.
LEMMA OthersKeep ==
    ASSUME SelInv, Leaving \/ Shutdown \/ Die \/ Restart PROVE SelInv'
<1>0. UNCHANGED <<nature, at, again, runs, old, crossOn, tainted, soiled>>
  BY DEF Leaving, Shutdown, Die, Restart
<1>1. /\ tree' \in {tree, {}, {"dirt"}} /\ marker' \in {marker, FALSE}
      /\ cancelled' \in {cancelled, TRUE, FALSE} /\ selFaults' \in {selFaults, selFaults + 1}
      /\ result' \in {result, NoResult}
  BY DEF Leaving, Restore, Unmark, RestoreTree, Shutdown, Die, Restart, CannotReset, NoSelFault, SelFault
<1>2. \/ pc' \in {"unmark", "idle", "down"}
      \/ pc' = pc /\ cancelled' /\ tree' = tree /\ result' = result
  <2>1. CASE Leaving
    BY <2>1 DEF Leaving, Restore, Unmark
  <2>2. CASE Shutdown
    BY <2>2 DEF Shutdown
  <2>3. CASE Die
    BY <2>3 DEF Die
  <2>4. CASE Restart
    BY <2>4 DEF Restart
  <2> QED
    BY <2>1, <2>2, <2>3, <2>4
<1>3. SelTypeOK'
  <2>1. selFaults' \in Nat
    BY <1>1 DEF SelInv, SelTypeOK
  <2>2. marker' \in BOOLEAN /\ cancelled' \in BOOLEAN
    BY <1>1 DEF SelInv, SelTypeOK
  <2>3. result' \in Results
    BY <1>1, Blanks DEF SelInv, SelTypeOK
  <2>4. tree' \in SUBSET {"merge", "overlay", "dirt"}
    BY <1>1 DEF SelInv, SelTypeOK
  <2> QED
    BY <1>0, <1>2, <2>1, <2>2, <2>3, <2>4 DEF SelInv, SelTypeOK, Running
<1>4. TaintInv'
  BY <1>0, <1>1, <1>2 DEF SelInv, TaintInv, Running
<1>5. TrueInv'
  BY <1>0, <1>1, <1>2 DEF SelInv, TrueInv, TreeIsGood, LooksAtCandidate, SeesTruly, LooksAgain, Looking,
         Running, SeenTruly
<1>6. WinnerIsSound'
  <2>1. CASE result' = NoResult
    BY <2>1, NoWinnerYet
  <2>2. CASE result' = result
    BY <1>0, <2>2 DEF SelInv, WinnerIsSound, Both
  <2> QED
    BY <1>1, <2>1, <2>2
<1> QED
  BY <1>3, <1>4, <1>5, <1>6 DEF SelInv

LEMMA SelectionStep ==
    SelInv /\ [SelNext]_selVars => SelInv'
<1> SUFFICES ASSUME SelInv, [SelNext]_selVars PROVE SelInv'
  OBVIOUS
<1>1. CASE UNCHANGED selVars
  <2> USE <1>1 DEF selVars
  <2>1. SelTypeOK'
    BY DEF SelInv, SelTypeOK
  <2>2. TaintInv'
    BY DEF SelInv, TaintInv
  <2>3. TrueInv'
    BY DEF SelInv, TrueInv, TreeIsGood, LooksAtCandidate, SeesTruly, LooksAgain, SeenTruly
  <2>4. WinnerIsSound'
    BY DEF SelInv, WinnerIsSound, Both
  <2> QED
    BY <2>1, <2>2, <2>3, <2>4 DEF SelInv
<1>2. CASE SelNext
  BY <1>2, BeginKeeps, BaselineKeeps, ExtractKeeps, MergeKeeps, SuiteKeeps, CrossKeeps, PutBackKeeps,
     DecideKeeps, OthersKeep DEF SelNext, Engine
<1> QED
  BY <1>1, <1>2

LEMMA SelectionStarts ==
    SelInit => SelInv
<1> SUFFICES ASSUME SelInit PROVE SelInv
  OBVIOUS
<1>1. SelTypeOK
  BY Blanks DEF SelInit, SelTypeOK
<1>2. result.kind # "win"
  BY Blanks DEF SelInit
<1>3. TaintInv /\ TrueInv
  BY DEF SelInit, TaintInv, TrueInv, TreeIsGood, LooksAtCandidate, SeesTruly, LooksAgain, Looking, Running
<1> QED
  BY <1>1, <1>2, <1>3 DEF SelInv, WinnerIsSound

THEOREM SelectionInvariance == SelSpec => []SelInv
<1> QED
  BY SelectionStarts, SelectionStep, PTL DEF SelSpec

\* The state of a selection always has its type.
THEOREM SelectionTypeCorrect == SelSpec => []SelTypeOK
<1>1. SelInv => SelTypeOK
  BY DEF SelInv
<1> QED
  BY <1>1, SelectionInvariance, PTL

\* Whatever fails, the winner of a run on a tree that was as it should be is a
\* candidate that merges and is no worse than its opponent, a command that dies
\* with the daemon decides nothing, and the order of the candidates does not
\* decide either (RunCandidateSelection).
THEOREM WinnersAreSound ==
    SelSpec => [](WinnerIsSound /\ InterruptionIsNoVerdict /\ OrderIsFair)
<1>1. SelInv => WinnerIsSound /\ InterruptionIsNoVerdict
  BY DEF SelInv, TaintInv, InterruptionIsNoVerdict
<1>2. SelInv => OrderIsFair
  BY ChoiceIsFair DEF SelInv
<1> QED
  BY <1>1, <1>2, SelectionInvariance, PTL

\* If git can put the tree back, a run marks the tree before it touches it and
\* unmarks it only when it is clean.
LEMMA MarkStep ==
    ASSUME "reset" \notin SelFaultKinds
    PROVE  MarkInv /\ [SelNext]_selVars => MarkInv'
<1> SUFFICES ASSUME MarkInv, [SelNext]_selVars PROVE MarkInv'
  OBVIOUS
<1>0. RestoreTree => tree' = {}
  BY DEF RestoreTree, SelFault
<1>1. CASE UNCHANGED selVars
  BY <1>1 DEF selVars, MarkInv
<1>2. CASE Begin
  <2>1. /\ marker' = marker \/ marker' = TRUE
        /\ pc' = "idle" \/ (pc' = "baseline" /\ marker' = TRUE)
        /\ tree' = tree
    BY <1>2 DEF Begin
  <2>2. CASE marker' = TRUE
    BY <2>1, <2>2 DEF MarkInv, Running
  <2>3. CASE marker' = marker /\ pc' = "idle"
    BY <2>1, <2>3 DEF MarkInv, Running
  <2> QED
    BY <2>1, <2>2, <2>3
<1>3. CASE Baseline
  BY <1>3 DEF Baseline, Leave, MarkInv, Running
<1>4. CASE ExtractTests
  BY <1>4 DEF ExtractTests, MarkInv, Running
<1>5. CASE MergeCandidate
  BY <1>5 DEF MergeCandidate, MarkInv, Running
<1>6. CASE Suite
  BY <1>6 DEF Suite, MarkInv, Running
<1>7. CASE CrossTests
  BY <1>7 DEF CrossTests, MarkInv, Running
<1>8. CASE PutBack
  BY <1>0, <1>8 DEF PutBack, Leave, MarkInv, Running
<1>9. CASE Decide
  BY <1>9 DEF Decide, Leave, MarkInv, Running
<1>10. CASE Leaving
  BY <1>0, <1>10 DEF Leaving, Restore, Unmark, MarkInv, Running
<1>11. CASE Shutdown \/ Die
  BY <1>11 DEF Shutdown, Die, MarkInv, Running
<1>12. CASE Restart
  <2>1. /\ pc' = "idle"
        /\ \/ marker' = marker /\ tree' = tree
           \/ tree' = {} /\ (marker' = FALSE \/ marker' = marker)
           \/ marker' = marker /\ marker
    BY <1>12 DEF Restart, CannotReset
  <2> QED
    BY <2>1 DEF MarkInv, Running
<1> QED
  BY <1>1, <1>2, <1>3, <1>4, <1>5, <1>6, <1>7, <1>8, <1>9, <1>10, <1>11, <1>12 DEF SelNext, Engine

\* Where git can put the tree back, the selection is sound: it leaves the
\* integration worktree clean or marked and chooses on what it has seen of both
\* candidates (RunCandidateSelection, reconcileABSelectionMarkerUnlocked).
THEOREM SelectionSound ==
    ASSUME "reset" \notin SelFaultKinds
    PROVE  SelSpec => []SelectionIsSound
<1>1. SelInit => MarkInv
  BY Zenon DEF SelInit, MarkInv, Running
<1>2. MarkInv => MarkedOrClean
  BY DEF MarkInv, MarkedOrClean
<1>3. SelSpec => []MarkInv
  BY <1>1, MarkStep, PTL DEF SelSpec
<1> QED
  BY <1>2, <1>3, WinnersAreSound, PTL DEF SelectionIsSound

-----------------------------------------------------------------------------
(* The race: types and the invariant.                                      *)

RowStates == {"absent", "pending", "in_progress", "completed", "failed", "cancelled"}
TaskStates == {"absent", "planned", "completed", "failed", "cancelled"}
Groups == [st : {"absent", "racing", "selecting", "resolved", "degraded"},
           pend : {None} \cup Cands, winner : {None} \cup Cands]
Scans == [pc : {"idle", "process", "select", "commit", "run", "mark", "intake", "degrade", "resolve"},
          row : [Cands -> RowStates], tag : SUBSET Cands, fin : SUBSET Cands,
          win : {None} \cup Cands,
          how : {None, "untagged", "both failed", "win", "superseded", "no repair"}]

RaceTypeOK ==
    /\ g \in Groups /\ ts \in [Tasks -> TaskStates] /\ member \in Tasks
    /\ row \in [Tasks -> RowStates] /\ tag \in SUBSET Cands
    /\ work \in [Cands -> {"none", "edits", "committed"}]
    /\ into \in SUBSET Cands /\ direct \in SUBSET Tasks /\ foreign \in SUBSET Cands
    /\ conflict \in SUBSET Cands /\ late \in SUBSET {"race", "selection"}
    /\ fanned \in BOOLEAN /\ sc \in Scans /\ faults \in Nat

Closed == g.st \in {"resolved", "degraded"}
Over(s) == s \in {"absent", "completed", "failed", "cancelled"}

\* Before the fan-out there is no race; without a group nothing of it is in
\* the state.
FanOutInv ==
    /\ ~fanned => g.st = "absent" /\ tag = {} /\ into = {} /\ sc.pc = "idle" /\ ~Wired
    /\ g.st = "absent" => g = NoGroup /\ ts[Shadow] = "absent"

\* What the state says of a task is what its row says; where work went.
RowInv ==
    /\ \A c \in Cands : ts[c] = "completed" => row[c] = "completed"
    /\ row[Repair] # "absent" => Wired
    /\ Repair \in direct => Wired
    /\ row[Repair] \in {"in_progress", "completed"} \/ ts[Repair] = "completed" => Repair \in direct
    /\ g.st # "absent" /\ Canonical \notin tag /\ row[Canonical] \in {"in_progress", "completed"}
          => Canonical \in direct

\* A repair takes the canonical's place as soon as it is registered, and while
\* the group is open only a candidate that was done and tagged leads to one.
MemberInv ==
    /\ Wired <=> member = Repair
    /\ member = Shadow => g.st = "resolved"
    /\ Wired /\ Unresolved => Canonical \in tag /\ \E c \in Cands : row[c] = "completed"

\* What the scan has read is still so: a row that is over stays as it is.
SnapshotInv ==
    sc.pc # "idle" =>
        /\ fanned
        /\ sc.pc = "process" \/ Unresolved
        /\ \A c \in Cands : Over(sc.row[c]) => row[c] = sc.row[c]
        /\ g.st # "absent" => sc.tag = tag

\* Past the first step both candidates are over.
ChosenInv ==
    sc.pc \notin {"idle", "process"} /\ sc.how # "untagged" =>
        /\ \A c \in Cands : Over(row[c]) /\ (c \in sc.fin <=> row[c] = "completed")
        /\ Canonical \in tag \/ row[Canonical] = "absent"

DecisionInv ==
    /\ sc.how # None => sc.pc = "resolve"
    /\ sc.pc \in {"commit", "run", "mark", "intake"} => ~Wired
    /\ sc.pc \in {"commit", "run", "mark", "intake", "degrade"} => sc.fin # {}
    /\ sc.pc \in {"commit", "run"} => g.pend = None
    /\ sc.pc \in {"mark", "intake"} => sc.win \in Cands
    /\ sc.pc = "intake" => g.pend = sc.win
    /\ sc.pc = "resolve" =>
          /\ Wired <=> sc.how = "superseded"
          /\ sc.how # None
          /\ sc.how = "win" => sc.win \in into /\ g.pend = sc.win
          /\ sc.how = "both failed" => sc.fin = {}
          /\ sc.how = "no repair" => row[Canonical] = "absent"
          /\ sc.how = "untagged" => Canonical \notin tag

\* A winner has completed.
WinnerInv ==
    /\ g.pend # None => row[g.pend] = "completed"
    /\ sc.pc = "mark" => row[sc.win] = "completed"

\* A group that is closed stays as it was closed.
ClosedInv ==
    Closed =>
        /\ \A c \in Cands \ {member} : ts[c] = "cancelled"
        /\ g.st = "resolved" => member = g.winner /\ member \in into
        /\ member = Canonical /\ g.st = "degraded" =>
             Canonical \notin tag \/ row[Canonical] \in {"absent", "failed", "cancelled"}

RaceInv ==
    /\ RaceTypeOK /\ FanOutInv /\ RowInv /\ MemberInv
    /\ SnapshotInv /\ ChosenInv /\ DecisionInv /\ WinnerInv /\ ClosedInv

\* A merge that the group does not know of yet is about to be closed, or
\* something has failed since.
MergedInv == Unresolved /\ into # {} /\ sc.pc # "resolve" => faults # 0

\* If the commit of a candidate's worktree does not fail, only the candidate
\* that was written down is ever merged, and none once there is a repair.
OnceInv ==
    /\ into \cap conflict = {}
    /\ g.st = "absent" => into \subseteq {Canonical}
    /\ Unresolved => into \subseteq {g.pend}
    /\ \A c \in into, d \in into : c = d
    /\ Wired \/ sc.pc = "degrade" => into = {}
    /\ g.st = "absent" /\ Wired => Canonical \notin tag \cup sc.tag

\* A candidate that works, or has worked and is frozen, has its worker for
\* itself; a scan knows of no tag that is gone.
IdleInv ==
    /\ \A c \in Cands : row[c] = "in_progress" => c \notin foreign
    /\ \A c \in tag : row[c] = "completed" /\ ~Closed => c \notin foreign
    /\ g.st # "absent" /\ row[Shadow] # "absent" => Shadow \in tag
    /\ ~fanned => row[Shadow] = "absent"
    /\ sc.tag \subseteq tag

LEMMA Names ==
    /\ Cands = {Canonical, Shadow} /\ Canonical # Shadow /\ Repair \notin Cands /\ None \notin Cands
    /\ Cands \subseteq Tasks /\ Repair \in Tasks /\ \A t \in Tasks : t \in Cands \/ t = Repair
  BY DEF Cands, Tasks, Canonical, Shadow, Repair, None

LEMMA Idle ==
    /\ IdleScan \in Scans /\ IdleScan.pc = "idle" /\ IdleScan.how = None /\ IdleScan.tag = {}
    /\ NoGroup \in Groups /\ NoGroup.st = "absent" /\ NoGroup.pend = None /\ NoGroup.winner = None
<1>1. [c \in Cands |-> "absent"] \in [Cands -> RowStates]
  BY DEF RowStates
<1>2. IdleScan \in Scans
  BY <1>1 DEF IdleScan, Scans
<1> QED
  BY <1>2 DEF IdleScan, NoGroup, Groups

-----------------------------------------------------------------------------
(* The race: the workers.                                                  *)

\* What a step of a worker, of the queue or of a clock does: the group and the
\* scan stay, a row that is over stays, no task appears or comes back to life.
WorkersStep ==
    /\ UNCHANGED <<g, member, tag, into, conflict, fanned, sc>>
    /\ RaceTypeOK' /\ RowInv'
    /\ \A t \in Tasks : /\ ts'[t] = "absent" <=> ts[t] = "absent"
                        /\ ts[t] = "cancelled" => ts'[t] = "cancelled"
    /\ \A c \in Cands : Over(row[c]) => row'[c] = row[c]

LEMMA WorkersKeep ==
    ASSUME RaceInv, WorkersStep PROVE RaceInv'
<1>0. UNCHANGED <<g, member, tag, into, conflict, fanned, sc>> /\ (Wired' <=> Wired)
      /\ (Unresolved' <=> Unresolved) /\ (Closed' <=> Closed)
  BY Names DEF WorkersStep, Wired, Unresolved, Closed
<1>1. RaceTypeOK' /\ RowInv'
  BY DEF WorkersStep
<1>2. FanOutInv'
  BY <1>0, Names DEF RaceInv, FanOutInv, WorkersStep
<1>3. MemberInv'
  <2>1. \A c \in Cands : row[c] = "completed" => row'[c] = "completed"
    BY DEF WorkersStep, Over
  <2>2. Wired' /\ Unresolved' => Canonical \in tag' /\ \E c \in Cands : row'[c] = "completed"
    BY <1>0, <2>1 DEF RaceInv, MemberInv
  <2> QED
    BY <1>0, <2>2 DEF RaceInv, MemberInv
<1>4. SnapshotInv'
  BY <1>0 DEF RaceInv, SnapshotInv, WorkersStep, Over
<1>5. ChosenInv'
  BY <1>0, Names DEF RaceInv, ChosenInv, WorkersStep, Over
<1>6. DecisionInv'
  BY <1>0, Names DEF RaceInv, DecisionInv, WorkersStep, Over
<1>7. ClosedInv'
  <2>1. \A c \in Cands : ts[c] = "cancelled" => ts'[c] = "cancelled"
    BY Names DEF WorkersStep
  <2>2. row[Canonical] \in {"absent", "failed", "cancelled"} => row'[Canonical] = row[Canonical]
    BY Names DEF WorkersStep, Over
  <2> QED
    BY <1>0, <2>1, <2>2 DEF RaceInv, ClosedInv
<1>8. WinnerInv'
  <2>1. g.pend # None => g.pend \in Cands
    BY DEF RaceInv, RaceTypeOK, Groups
  <2>2. sc.pc = "mark" => sc.win \in Cands
    BY DEF RaceInv, DecisionInv
  <2>3. \A c \in Cands : row[c] = "completed" => row'[c] = "completed"
    BY DEF WorkersStep, Over
  <2> QED
    BY <1>0, <2>1, <2>2, <2>3 DEF RaceInv, WinnerInv
<1> QED
  BY <1>1, <1>2, <1>3, <1>4, <1>5, <1>6, <1>7, <1>8 DEF RaceInv

LEMMA DispatchSteps ==
    ASSUME RaceInv, NEW c \in Cands, Dispatch(c) PROVE WorkersStep
<1>1. /\ UNCHANGED <<g, ts, member, tag, into, foreign, conflict, late, fanned, sc, faults>>
      /\ row[c] = "pending" /\ row' = [row EXCEPT ![c] = "in_progress"]
      /\ IF c \in tag THEN work' = [work EXCEPT ![c] = "edits"] /\ direct' = direct
         ELSE direct' = direct \cup {c} /\ work' = work
  BY DEF Dispatch
<1>2. RaceTypeOK'
  BY <1>1, Names DEF RaceInv, RaceTypeOK, RowStates
<1>3. /\ \A t \in Tasks \ {c} : row'[t] = row[t]
      /\ row'[c] = "in_progress" /\ direct \subseteq direct' /\ direct' \subseteq direct \cup {c}
      /\ c \notin tag => c \in direct'
  BY <1>1, Names DEF RaceInv, RaceTypeOK
<1>4. RowInv'
  BY <1>1, <1>3, Names DEF RaceInv, RowInv, Wired
<1> QED
  BY <1>1, <1>2, <1>3, <1>4, Names DEF WorkersStep, Over

LEMMA DispatchRepairSteps ==
    ASSUME RaceInv, DispatchRepair PROVE WorkersStep
<1>1. /\ UNCHANGED <<g, ts, member, tag, work, into, foreign, conflict, late, fanned, sc, faults>>
      /\ row[Repair] = "pending" /\ row' = [row EXCEPT ![Repair] = "in_progress"]
      /\ direct' = direct \cup {Repair}
  BY DEF DispatchRepair
<1>2. RaceTypeOK'
  BY <1>1, Names DEF RaceInv, RaceTypeOK, RowStates
<1>3. \A c \in Cands : row'[c] = row[c]
  BY <1>1, Names DEF RaceInv, RaceTypeOK
<1>4. RowInv'
  BY <1>1, <1>3, Names DEF RaceInv, RowInv, Wired
<1> QED
  BY <1>1, <1>2, <1>3, <1>4, Names DEF WorkersStep

LEMMA ReportSteps ==
    ASSUME RaceInv, NEW t \in Tasks, NEW st \in {"completed", "failed"}, Report(t, st) PROVE WorkersStep
<1>1. /\ UNCHANGED <<g, ts, member, tag, work, into, direct, foreign, conflict, late, fanned, sc, faults>>
      /\ row[t] = "in_progress" /\ row' = [row EXCEPT ![t] = st]
  BY DEF Report
<1>2. RaceTypeOK'
  BY <1>1 DEF RaceInv, RaceTypeOK, RowStates
<1>3. row'[t] = st /\ \A u \in Tasks \ {t} : row'[u] = row[u]
  BY <1>1 DEF RaceInv, RaceTypeOK
<1>4. RowInv'
  BY <1>1, <1>3, Names DEF RaceInv, RowInv, Wired
<1> QED
  BY <1>1, <1>2, <1>3, <1>4, Names DEF WorkersStep, Over

LEMMA StateFollowsSteps ==
    ASSUME RaceInv, NEW t \in Tasks, StateFollows(t) PROVE WorkersStep
<1>1. /\ UNCHANGED <<g, member, row, tag, work, into, direct, foreign, conflict, late, fanned, sc, faults>>
      /\ row[t] \in {"completed", "failed"} /\ ts[t] = "planned" /\ ts' = [ts EXCEPT ![t] = row[t]]
  BY DEF StateFollows
<1>2. RaceTypeOK'
  BY <1>1 DEF RaceInv, RaceTypeOK, TaskStates
<1>3. ts'[t] = row[t] /\ \A u \in Tasks \ {t} : ts'[u] = ts[u]
  BY <1>1 DEF RaceInv, RaceTypeOK
<1>4. RowInv'
  BY <1>1, <1>3, Names DEF RaceInv, RowInv, Wired
<1> QED
  BY <1>1, <1>2, <1>3, <1>4, Names DEF WorkersStep

LEMMA RowEndsSteps ==
    ASSUME RaceInv, NEW c \in Cands, DeadLetter(c) \/ CancelRow(c) PROVE WorkersStep
<1>1. /\ UNCHANGED <<g, member, tag, work, into, direct, foreign, conflict, late, fanned, sc, faults>>
      /\ row[c] = "pending"
  BY DEF DeadLetter, CancelRow
<1>2. PICK r \in {"absent", "cancelled"}, s \in {"failed", "cancelled"} :
        row' = [row EXCEPT ![c] = r] /\ ts' = [ts EXCEPT ![c] = IF @ = "planned" THEN s ELSE @]
  BY DEF DeadLetter, CancelRow
<1>3. /\ row'[c] = r /\ ts'[c] = IF ts[c] = "planned" THEN s ELSE ts[c]
      /\ \A t \in Tasks \ {c} : row'[t] = row[t] /\ ts'[t] = ts[t]
  BY <1>2, Names DEF RaceInv, RaceTypeOK
<1>4. RaceTypeOK'
  <2>1. r \in RowStates /\ s \in TaskStates
    BY DEF RowStates, TaskStates
  <2>2. row' \in [Tasks -> RowStates]
    BY <1>2, <2>1 DEF RaceInv, RaceTypeOK
  <2>3. ts' \in [Tasks -> TaskStates]
    BY <1>2, <2>1 DEF RaceInv, RaceTypeOK
  <2> QED
    BY <1>1, <2>2, <2>3 DEF RaceInv, RaceTypeOK
<1>5. RowInv'
  BY <1>1, <1>3, Names DEF RaceInv, RowInv, Wired
<1> QED
  BY <1>1, <1>3, <1>4, <1>5, Names DEF WorkersStep, Over

LEMMA ClockSteps ==
    ASSUME RaceInv,
           RaceTimesOut \/ SelectionTimesOut \/ \E c \in Cands : StartForeign(c) \/ EndForeign(c)
    PROVE  WorkersStep
<1>1. UNCHANGED <<g, ts, member, row, tag, work, into, direct, conflict, fanned, sc, faults>>
  BY DEF RaceTimesOut, SelectionTimesOut, StartForeign, EndForeign
<1>2. late' \in SUBSET {"race", "selection"} /\ foreign' \in SUBSET Cands
  BY DEF RaceTimesOut, SelectionTimesOut, StartForeign, EndForeign, RaceInv, RaceTypeOK
<1>3. RaceTypeOK'
  BY <1>1, <1>2 DEF RaceInv, RaceTypeOK
<1>4. RowInv'
  BY <1>1 DEF RaceInv, RowInv, Wired
<1> QED
  BY <1>1, <1>3, <1>4 DEF WorkersStep

-----------------------------------------------------------------------------
(* The race: the scan.                                                     *)

\* A scan that gives up knows nothing.
LEMMA RestKnowsNothing ==
    ASSUME sc' = IdleScan
    PROVE  SnapshotInv' /\ ChosenInv' /\ DecisionInv' /\ sc'.pc = "idle" /\ sc' \in Scans
  BY Idle DEF SnapshotInv, ChosenInv, DecisionInv, None

\* A step of the scan that leaves tasks and rows alone and the group open or
\* closed as it was.
ScanStep ==
    /\ UNCHANGED <<ts, member, row, tag, direct, conflict, fanned>> /\ fanned
    /\ RaceTypeOK' /\ SnapshotInv' /\ ChosenInv' /\ DecisionInv' /\ WinnerInv'
    /\ into \subseteq into'
    /\ ~Unresolved => g' = g /\ into' = into
    /\ Unresolved => g'.st \in {"racing", "selecting"}

LEMMA ScanKeeps ==
    ASSUME RaceInv, ScanStep PROVE RaceInv'
<1>1. (Unresolved' <=> Unresolved) /\ (Closed' <=> Closed) /\ (Wired' <=> Wired)
  BY DEF ScanStep, Unresolved, Closed, Wired
<1>2. FanOutInv'
  BY DEF RaceInv, FanOutInv, ScanStep, Unresolved
<1>3. RowInv'
  <2>1. g'.st # "absent" => g.st # "absent"
    BY DEF ScanStep, Unresolved
  <2> QED
    BY <1>1, <2>1 DEF RaceInv, RowInv, ScanStep
<1>4. MemberInv'
  <2>1. g.st = "resolved" => g'.st = "resolved"
    BY DEF ScanStep, Unresolved
  <2> QED
    BY <1>1, <2>1 DEF RaceInv, MemberInv, ScanStep
<1>5. ClosedInv'
  BY <1>1 DEF RaceInv, ClosedInv, ScanStep, Closed, Unresolved
<1> QED
  BY <1>2, <1>3, <1>4, <1>5 DEF RaceInv, ScanStep

\* A step of the scan that goes on, past its first reading.
LEMMA MovesOn ==
    ASSUME RaceInv, UNCHANGED <<ts, member, row, tag, direct, conflict, fanned>>,
           Unresolved, g'.st \in {"racing", "selecting"},
           sc.pc \notin {"idle", "process", "resolve"}, sc'.pc \notin {"idle", "process"},
           sc'.row = sc.row, sc'.tag = sc.tag, sc'.fin = sc.fin, sc'.how # "untagged"
    PROVE  SnapshotInv' /\ ChosenInv'
<1>1. SnapshotInv'
  BY DEF RaceInv, SnapshotInv, Unresolved
<1>2. sc.how # "untagged"
  BY DEF RaceInv, DecisionInv, None
<1>3. ChosenInv'
  BY <1>2 DEF RaceInv, ChosenInv
<1> QED
  BY <1>1, <1>3

\* At a step past the first reading the group is open and the candidates over.
LEMMA AtStep ==
    ASSUME RaceInv, sc.pc \notin {"idle", "process"}
    PROVE  /\ Unresolved /\ fanned /\ g.st # "absent" /\ g \in Groups /\ sc \in Scans
           /\ into \subseteq Cands /\ work \in [Cands -> {"none", "edits", "committed"}]
           /\ faults \in Nat
  BY DEF RaceInv, SnapshotInv, RaceTypeOK, Unresolved

LEMMA CommittedTyped ==
    ASSUME work \in [Cands -> {"none", "edits", "committed"}], NEW S
    PROVE  Committed(S) \in [Cands -> {"none", "edits", "committed"}]
  BY DEF Committed

LEMMA CollectSteps ==
    ASSUME RaceInv, Collect PROVE ScanStep
<1>1. /\ UNCHANGED <<g, ts, member, row, tag, work, into, direct, foreign, conflict, late, fanned, faults>>
      /\ Unresolved \/ OrphanRows
      /\ sc' = [[[IdleScan EXCEPT !.pc = "process"] EXCEPT !.row = [c \in Cands |-> row[c]]] EXCEPT !.tag = tag]
  BY DEF Collect, IdleScan
<1>2. fanned
  BY <1>1 DEF RaceInv, FanOutInv, Unresolved, OrphanRows
<1>3. [c \in Cands |-> row[c]] \in [Cands -> RowStates] /\ tag \in SUBSET Cands
  BY Names DEF RaceInv, RaceTypeOK
<1>4. /\ sc' \in Scans /\ sc'.pc = "process" /\ sc'.tag = tag /\ sc'.how = None
      /\ \A c \in Cands : sc'.row[c] = row[c]
  BY <1>1, <1>3, Idle DEF Scans
<1>5. RaceTypeOK'
  BY <1>1, <1>4 DEF RaceInv, RaceTypeOK
<1>6. SnapshotInv' /\ ChosenInv' /\ DecisionInv'
  BY <1>1, <1>2, <1>4 DEF SnapshotInv, ChosenInv, DecisionInv
<1>7. WinnerInv'
  BY <1>1, <1>4 DEF RaceInv, WinnerInv
<1> QED
  BY <1>1, <1>2, <1>5, <1>6, <1>7 DEF ScanStep, Unresolved

LEMMA GiveUpSteps ==
    ASSUME RaceInv, OrphansDone \/ Crash PROVE ScanStep
<1>1. /\ UNCHANGED <<g, ts, member, row, tag, work, into, direct, foreign, conflict, late, fanned>>
      /\ sc.pc # "idle" /\ sc' = IdleScan
  BY DEF OrphansDone, Crash, GiveUp
<1>2. faults' \in {faults, faults + 1}
  BY DEF OrphansDone, Crash, Fault
<1>3. RaceTypeOK'
  BY <1>1, <1>2, Idle DEF RaceInv, RaceTypeOK
<1>4. fanned
  BY <1>1 DEF RaceInv, SnapshotInv
<1>5. WinnerInv'
  BY <1>1, RestKnowsNothing DEF RaceInv, WinnerInv
<1> QED
  BY <1>1, <1>3, <1>4, <1>5, RestKnowsNothing DEF ScanStep, Unresolved

LEMMA CommitSteps ==
    ASSUME RaceInv, CommitFinishers PROVE ScanStep
<1>1. /\ UNCHANGED <<g, ts, member, row, tag, into, direct, foreign, conflict, late, fanned>>
      /\ sc.pc = "commit"
      /\ sc' = IdleScan \/ sc' = [sc EXCEPT !.pc = "run"]
      /\ work' = work \/ work' = Committed(sc.fin)
  BY DEF CommitFinishers, Goto, GiveUp
<1>2. faults' \in {faults, faults + 1}
  BY DEF CommitFinishers, Fault, NoFault
<1>3. Unresolved /\ fanned /\ sc \in Scans /\ work' \in [Cands -> {"none", "edits", "committed"}]
  BY <1>1, AtStep, CommittedTyped
<1>4. CASE sc' = IdleScan
  <2>1. RaceTypeOK'
    BY <1>1, <1>2, <1>3, <1>4, Idle DEF RaceInv, RaceTypeOK
  <2>2. WinnerInv'
    BY <1>1, <1>4, RestKnowsNothing DEF RaceInv, WinnerInv
  <2> QED
    BY <1>1, <1>3, <1>4, <2>1, <2>2, RestKnowsNothing DEF ScanStep, Unresolved
<1>5. CASE sc' = [sc EXCEPT !.pc = "run"]
  <2>1. /\ sc' \in Scans /\ sc'.pc = "run" /\ sc'.win = sc.win
        /\ sc'.row = sc.row /\ sc'.tag = sc.tag /\ sc'.fin = sc.fin /\ sc'.how = sc.how
    BY <1>3, <1>5 DEF Scans
  <2>2. RaceTypeOK'
    BY <1>1, <1>2, <1>3, <2>1 DEF RaceInv, RaceTypeOK
  <2>3. sc.how = None
    BY <1>1 DEF RaceInv, DecisionInv
  <2>4. SnapshotInv' /\ ChosenInv'
    BY <1>1, <1>3, <2>1, <2>3, MovesOn DEF Unresolved, None
  <2>5. DecisionInv'
    BY <1>1, <2>1, <2>3 DEF RaceInv, DecisionInv, Wired
  <2>6. WinnerInv'
    BY <1>1, <2>1 DEF RaceInv, WinnerInv
  <2> QED
    BY <1>1, <1>3, <2>2, <2>4, <2>5, <2>6 DEF ScanStep, Unresolved
<1> QED
  BY <1>1, <1>4, <1>5

\* A step of the scan that keeps the group and the tasks is a scan step if its
\* decision is right.
LEMMA GoesOn ==
    ASSUME RaceInv, UNCHANGED <<ts, member, row, tag, direct, foreign, conflict, fanned>>,
           sc.pc \in {"select", "commit", "run", "mark", "intake"},
           g' \in Groups, g'.st \in {"racing", "selecting"}, into \subseteq into', into' \subseteq Cands,
           work' \in [Cands -> {"none", "edits", "committed"}],
           late' \subseteq {"race", "selection"}, faults' \in {faults, faults + 1},
           sc' \in Scans, sc'.pc \notin {"idle", "process"}, sc'.how # "untagged",
           sc'.row = sc.row, sc'.tag = sc.tag, sc'.fin = sc.fin,
           DecisionInv', WinnerInv'
    PROVE  ScanStep
<1>1. Unresolved /\ fanned
  BY AtStep
<1>2. SnapshotInv' /\ ChosenInv'
  BY <1>1, MovesOn
<1>3. RaceTypeOK'
  BY DEF RaceInv, RaceTypeOK
<1> QED
  BY <1>1, <1>2, <1>3 DEF ScanStep

LEMMA Stops ==
    ASSUME RaceInv, UNCHANGED <<ts, member, row, tag, direct, foreign, conflict, fanned>>,
           sc.pc \in {"select", "commit", "run", "mark", "intake", "resolve"},
           g' = g, into \subseteq into', into' \subseteq Cands,
           work' \in [Cands -> {"none", "edits", "committed"}],
           late' = late, faults' \in {faults, faults + 1}, sc' = IdleScan
    PROVE  ScanStep
<1>1. Unresolved /\ fanned
  BY AtStep
<1>2. RaceTypeOK'
  BY Idle DEF RaceInv, RaceTypeOK
<1>3. WinnerInv'
  BY RestKnowsNothing DEF RaceInv, WinnerInv
<1> QED
  BY <1>1, <1>2, <1>3, RestKnowsNothing DEF ScanStep, Unresolved

LEMMA RunSteps ==
    ASSUME RaceInv, RunSelection PROVE ScanStep
<1>1. /\ UNCHANGED <<g, ts, member, row, tag, work, into, direct, foreign, conflict, late, fanned, faults>>
      /\ sc.pc = "run"
      /\ \/ sc' = IdleScan
         \/ \E w \in sc.fin : sc' = [[sc EXCEPT !.pc = "mark"] EXCEPT !.win = w]
         \/ sc' = [sc EXCEPT !.pc = "degrade"]
  BY DEF RunSelection, Goto, GiveUp
<1>2. /\ Unresolved /\ sc \in Scans /\ g \in Groups /\ into \subseteq Cands
      /\ work \in [Cands -> {"none", "edits", "committed"}] /\ sc.how = None /\ late \subseteq {"race", "selection"}
  BY <1>1, AtStep DEF RaceInv, DecisionInv, RaceTypeOK
<1>3. CASE sc' = IdleScan
  BY <1>1, <1>2, <1>3, Stops
<1>4. CASE \E w \in sc.fin : sc' = [[sc EXCEPT !.pc = "mark"] EXCEPT !.win = w]
  <2>1. PICK w \in sc.fin : sc' = [[sc EXCEPT !.pc = "mark"] EXCEPT !.win = w]
    BY <1>4
  <2>2. w \in Cands
    BY <1>2 DEF Scans
  <2>3. /\ sc' \in Scans /\ sc'.pc = "mark" /\ sc'.win = w
        /\ sc'.row = sc.row /\ sc'.tag = sc.tag /\ sc'.fin = sc.fin /\ sc'.how = None
    BY <1>2, <2>1, <2>2 DEF Scans
  <2>4. DecisionInv'
    BY <1>1, <2>2, <2>3 DEF RaceInv, DecisionInv, Wired
  <2>5. WinnerInv'
    BY <1>1, <1>2, <2>2, <2>3 DEF RaceInv, WinnerInv, ChosenInv, None
  <2> QED
    BY <1>1, <1>2, <2>3, <2>4, <2>5, GoesOn DEF Unresolved, None
<1>5. CASE sc' = [sc EXCEPT !.pc = "degrade"]
  <2>1. /\ sc' \in Scans /\ sc'.pc = "degrade" /\ sc'.win = sc.win
        /\ sc'.row = sc.row /\ sc'.tag = sc.tag /\ sc'.fin = sc.fin /\ sc'.how = None
    BY <1>2, <1>5 DEF Scans
  <2>2. DecisionInv'
    BY <1>1, <2>1 DEF RaceInv, DecisionInv
  <2>3. WinnerInv'
    BY <1>1, <2>1 DEF RaceInv, WinnerInv
  <2> QED
    BY <1>1, <1>2, <2>1, <2>2, <2>3, GoesOn DEF Unresolved, None
<1> QED
  BY <1>1, <1>3, <1>4, <1>5

LEMMA MarkSteps ==
    ASSUME RaceInv, MarkPendingWinner PROVE ScanStep
<1>1. /\ UNCHANGED <<ts, member, row, tag, work, into, direct, foreign, conflict, fanned>>
      /\ sc.pc = "mark"
      /\ \/ g' = [g EXCEPT !.pend = sc.win] /\ late' \subseteq late /\ sc' = [sc EXCEPT !.pc = "intake"]
         \/ g' = g /\ late' = late /\ sc' = IdleScan
  BY DEF MarkPendingWinner, AfterMark, Goto, GiveUp
<1>2. faults' \in {faults, faults + 1}
  BY DEF MarkPendingWinner, Fault, NoFault
<1>3. /\ Unresolved /\ sc \in Scans /\ g \in Groups /\ into \subseteq Cands
      /\ work \in [Cands -> {"none", "edits", "committed"}] /\ sc.how = None
      /\ late \subseteq {"race", "selection"} /\ sc.win \in Cands
  BY <1>1, AtStep DEF RaceInv, DecisionInv, RaceTypeOK
<1>4. CASE sc' = IdleScan /\ g' = g /\ late' = late
  BY <1>1, <1>2, <1>3, <1>4, Stops
<1>5. CASE g' = [g EXCEPT !.pend = sc.win] /\ late' \subseteq late /\ sc' = [sc EXCEPT !.pc = "intake"]
  <2>1. /\ sc' \in Scans /\ sc'.pc = "intake" /\ sc'.win = sc.win
        /\ sc'.row = sc.row /\ sc'.tag = sc.tag /\ sc'.fin = sc.fin /\ sc'.how = None
    BY <1>3, <1>5 DEF Scans
  <2>2. g' \in Groups /\ g'.st = g.st /\ g'.pend = sc.win
    BY <1>3, <1>5 DEF Groups
  <2>3. DecisionInv'
    BY <1>1, <1>3, <2>1, <2>2 DEF RaceInv, DecisionInv, Wired
  <2>4. WinnerInv'
    BY <1>1, <2>1, <2>2 DEF RaceInv, WinnerInv
  <2> QED
    BY <1>1, <1>2, <1>3, <1>5, <2>1, <2>2, <2>3, <2>4, GoesOn DEF Unresolved, None
<1> QED
  BY <1>1, <1>4, <1>5

LEMMA IntakeSteps ==
    ASSUME RaceInv, Intake PROVE ScanStep
<1>1. /\ UNCHANGED <<g, ts, member, row, tag, direct, foreign, conflict, late, fanned>>
      /\ sc.pc = "intake"
      /\ work' = work \/ work' = Committed({sc.win})
      /\ \/ sc' = [[sc EXCEPT !.pc = "resolve"] EXCEPT !.how = "win"] /\ into' = into \cup {sc.win}
         \/ sc' = IdleScan /\ into' \in {into, into \cup {sc.win}}
         \/ sc' = [sc EXCEPT !.pc = "degrade"] /\ into' = into
  BY DEF Intake, CommitAndMerge, Close, Goto, GiveUp
<1>2. faults' \in {faults, faults + 1}
  BY DEF Intake, Fault, NoFault
<1>3. /\ Unresolved /\ sc \in Scans /\ g \in Groups /\ into \subseteq Cands
      /\ work' \in [Cands -> {"none", "edits", "committed"}] /\ sc.how = None
      /\ late \subseteq {"race", "selection"} /\ sc.win \in Cands /\ sc.fin # {}
  <2>1. work \in [Cands -> {"none", "edits", "committed"}]
    BY <1>1, AtStep
  <2>2. work' \in [Cands -> {"none", "edits", "committed"}]
    BY <1>1, <2>1, CommittedTyped
  <2> QED
    BY <1>1, <2>2, AtStep DEF RaceInv, DecisionInv, RaceTypeOK
<1>4. into \subseteq into' /\ into' \subseteq Cands
  BY <1>1, <1>3
<1>5. CASE sc' = IdleScan
  BY <1>1, <1>2, <1>3, <1>4, <1>5, Stops
<1>6. CASE sc' = [sc EXCEPT !.pc = "degrade"]
  <2>1. /\ sc' \in Scans /\ sc'.pc = "degrade" /\ sc'.win = sc.win
        /\ sc'.row = sc.row /\ sc'.tag = sc.tag /\ sc'.fin = sc.fin /\ sc'.how = None
    BY <1>3, <1>6 DEF Scans
  <2>2. DecisionInv'
    BY <1>1, <1>3, <2>1 DEF DecisionInv
  <2>3. WinnerInv'
    BY <1>1, <2>1 DEF RaceInv, WinnerInv
  <2> QED
    BY <1>1, <1>2, <1>3, <1>4, <2>1, <2>2, <2>3, GoesOn DEF Unresolved, None
<1>7. CASE sc' = [[sc EXCEPT !.pc = "resolve"] EXCEPT !.how = "win"] /\ into' = into \cup {sc.win}
  <2>1. /\ sc' \in Scans /\ sc'.pc = "resolve" /\ sc'.win = sc.win
        /\ sc'.row = sc.row /\ sc'.tag = sc.tag /\ sc'.fin = sc.fin /\ sc'.how = "win"
    BY <1>3, <1>7 DEF Scans
  <2>2. ~Wired'
    BY <1>1 DEF RaceInv, DecisionInv, Wired
  <2>3. g'.pend = sc'.win
    BY <1>1, <2>1 DEF RaceInv, DecisionInv
  <2>4. DecisionInv'
    BY <1>1, <1>7, <2>1, <2>2, <2>3 DEF DecisionInv, None
  <2>5. WinnerInv'
    BY <1>1, <2>1 DEF RaceInv, WinnerInv
  <2> QED
    BY <1>1, <1>2, <1>3, <1>4, <2>1, <2>4, <2>5, GoesOn DEF Unresolved, None
<1> QED
  BY <1>1, <1>5, <1>6, <1>7

LEMMA SelectSteps ==
    ASSUME RaceInv, SelectFirst PROVE ScanStep
<1>1. /\ UNCHANGED <<ts, member, row, tag, into, direct, foreign, conflict, fanned>>
      /\ sc.pc = "select"
  BY DEF SelectFirst
<1>2. /\ Unresolved /\ sc \in Scans /\ g \in Groups /\ into \subseteq Cands
      /\ sc.how = None /\ late \subseteq {"race", "selection"}
  BY <1>1, AtStep DEF RaceInv, DecisionInv, RaceTypeOK
<1>3. faults' \in {faults, faults + 1} /\ late' \subseteq {"race", "selection"}
      /\ work' \in [Cands -> {"none", "edits", "committed"}]
  <2>1. \E S \in SUBSET Cands : work' \in {work, Committed(S)}
    <3>1. g.pend \in Cands => {g.pend} \in SUBSET Cands
      OBVIOUS
    <3>2. {First(sc.fin)} \in SUBSET Cands
      BY Names DEF First
    <3>3. WinnerIsPending => g.pend \in Cands
      BY <1>2 DEF WinnerIsPending, Groups
    <3> QED
      BY <3>1, <3>2, <3>3 DEF SelectFirst
  <2>2. work \in [Cands -> {"none", "edits", "committed"}]
    BY <1>1, AtStep
  <2>3. work' \in [Cands -> {"none", "edits", "committed"}]
    BY <2>1, <2>2, CommittedTyped
  <2>4. faults' \in {faults, faults + 1}
    BY DEF SelectFirst, Fault, NoFault
  <2>5. late' \in {late, late \ {"selection"}}
    BY DEF SelectFirst
  <2> QED
    BY <1>2, <2>3, <2>4, <2>5
<1>4. \/ sc' = IdleScan /\ g' = g /\ late' = late
      \/ sc' = [[sc EXCEPT !.pc = "resolve"] EXCEPT !.how = "both failed"] /\ sc.fin = {} /\ g' = g
      \/ sc.fin # {} /\ sc' = [sc EXCEPT !.pc = "degrade"] /\ g' = g
      \/ /\ sc.fin # {} /\ ~Wired /\ g' = g
         /\ \E w \in Cands : /\ sc' = [[sc EXCEPT !.pc = "mark"] EXCEPT !.win = w]
                             /\ w = g.pend \/ w \in sc.fin
      \/ /\ sc.fin # {} /\ ~Wired /\ g.pend = None /\ g' \in {g, [g EXCEPT !.st = "selecting"]}
         /\ sc' = [sc EXCEPT !.pc = "commit"]
  <2>1. CASE sc.fin = {} /\ Close("both failed") /\ UNCHANGED <<g, late, work, faults>>
    BY <2>1 DEF Close
  <2>2. CASE sc.fin # {} /\ RepairIsWired /\ Goto("degrade") /\ UNCHANGED <<g, late, work, faults>>
    BY <2>2 DEF Goto
  <2>3. CASE sc.fin # {} /\ ~RepairIsWired /\ WinnerIsPending /\ SelectFirst
    <3>1. g.pend \in Cands
      BY <1>2, <2>3 DEF WinnerIsPending, Groups
    <3> QED
      BY <3>1, <2>3 DEF SelectFirst, Goto, RepairIsWired
  <2>4. CASE sc.fin # {} /\ ~RepairIsWired /\ ~WinnerIsPending /\ g.st = "racing" /\ SelectFirst
    BY <2>4 DEF SelectFirst, Goto, GiveUp, RepairIsWired, WinnerIsPending
  <2>5. CASE sc.fin # {} /\ ~RepairIsWired /\ ~WinnerIsPending /\ g.st = "selecting" /\ SelectFirst
    <3>1. First(sc.fin) \in sc.fin /\ sc.fin \subseteq Cands
      <4>1. sc.fin \subseteq Cands
        BY <1>2 DEF Scans
      <4>2. sc.fin # {} /\ (Canonical \in sc.fin \/ Shadow \in sc.fin)
        BY <2>5, <4>1, Names
      <4> QED
        BY <4>1, <4>2 DEF First
    <3> QED
      BY <3>1, <2>5 DEF SelectFirst, Goto, RepairIsWired, WinnerIsPending
  <2> QED
    BY <2>1, <2>2, <2>3, <2>4, <2>5 DEF SelectFirst
<1>5. CASE sc' = IdleScan /\ g' = g /\ late' = late
  BY <1>1, <1>2, <1>3, <1>5, Stops
<1>6. CASE sc' = [[sc EXCEPT !.pc = "resolve"] EXCEPT !.how = "both failed"] /\ sc.fin = {} /\ g' = g
  <2>1. /\ sc' \in Scans /\ sc'.pc = "resolve" /\ sc'.win = sc.win
        /\ sc'.row = sc.row /\ sc'.tag = sc.tag /\ sc'.fin = sc.fin /\ sc'.how = "both failed"
    BY <1>2, <1>6 DEF Scans
  <2>2. \A c \in Cands : row[c] # "completed"
    BY <1>1, <1>2, <1>6 DEF RaceInv, ChosenInv, None
  <2>3. ~Wired'
    BY <1>1, <1>2, <2>2 DEF RaceInv, MemberInv, Wired
  <2>4. DecisionInv'
    BY <1>6, <2>1, <2>3 DEF DecisionInv, None
  <2>5. WinnerInv'
    BY <1>1, <1>6, <2>1 DEF RaceInv, WinnerInv
  <2> QED
    BY <1>1, <1>2, <1>3, <1>6, <2>1, <2>4, <2>5, GoesOn DEF Unresolved
<1>7. CASE sc.fin # {} /\ sc' = [sc EXCEPT !.pc = "degrade"] /\ g' = g
  <2>1. /\ sc' \in Scans /\ sc'.pc = "degrade"
        /\ sc'.row = sc.row /\ sc'.tag = sc.tag /\ sc'.fin = sc.fin /\ sc'.how = None
    BY <1>2, <1>7 DEF Scans
  <2>2. DecisionInv'
    BY <1>7, <2>1 DEF DecisionInv
  <2>3. WinnerInv'
    BY <1>1, <1>7, <2>1 DEF RaceInv, WinnerInv
  <2> QED
    BY <1>1, <1>2, <1>3, <1>7, <2>1, <2>2, <2>3, GoesOn DEF Unresolved, None
<1>8. CASE /\ sc.fin # {} /\ ~Wired /\ g' = g
           /\ \E w \in Cands : /\ sc' = [[sc EXCEPT !.pc = "mark"] EXCEPT !.win = w]
                               /\ w = g.pend \/ w \in sc.fin
  <2>1. PICK w \in Cands : /\ sc' = [[sc EXCEPT !.pc = "mark"] EXCEPT !.win = w]
                           /\ w = g.pend \/ w \in sc.fin
    BY <1>8
  <2>2. /\ sc' \in Scans /\ sc'.pc = "mark" /\ sc'.win = w
        /\ sc'.row = sc.row /\ sc'.tag = sc.tag /\ sc'.fin = sc.fin /\ sc'.how = None
    BY <1>2, <2>1 DEF Scans
  <2>3. DecisionInv'
    BY <1>1, <1>8, <2>2 DEF DecisionInv, Wired
  <2>4. row[w] = "completed"
    <3>1. CASE w = g.pend
      BY <3>1, Names DEF RaceInv, WinnerInv
    <3>2. CASE w \in sc.fin
      BY <1>1, <1>2, <3>2 DEF RaceInv, ChosenInv, None
    <3> QED
      BY <2>1, <3>1, <3>2
  <2>5. WinnerInv'
    BY <1>1, <1>8, <2>2, <2>4 DEF RaceInv, WinnerInv
  <2> QED
    BY <1>1, <1>2, <1>3, <1>8, <2>2, <2>3, <2>5, GoesOn DEF Unresolved, None
<1>9. CASE /\ sc.fin # {} /\ ~Wired /\ g.pend = None /\ g' \in {g, [g EXCEPT !.st = "selecting"]}
           /\ sc' = [sc EXCEPT !.pc = "commit"]
  <2>1. /\ sc' \in Scans /\ sc'.pc = "commit"
        /\ sc'.row = sc.row /\ sc'.tag = sc.tag /\ sc'.fin = sc.fin /\ sc'.how = None
    BY <1>2, <1>9 DEF Scans
  <2>2. g' \in Groups /\ g'.st \in {"racing", "selecting"} /\ g'.pend = None
    BY <1>2, <1>9 DEF Groups, Unresolved
  <2>3. DecisionInv'
    BY <1>1, <1>9, <2>1, <2>2 DEF DecisionInv, Wired
  <2>4. WinnerInv'
    BY <2>1, <2>2 DEF WinnerInv
  <2> QED
    BY <1>1, <1>2, <1>3, <2>1, <2>2, <2>3, <2>4, GoesOn DEF None
<1> QED
  BY <1>4, <1>5, <1>6, <1>7, <1>8, <1>9

-----------------------------------------------------------------------------
(* The race: the steps that start it and end it.                           *)

LEMMA FanOutKeeps ==
    ASSUME RaceInv, FanOut PROVE RaceInv'
<1>1. /\ UNCHANGED <<member, work, into, direct, foreign, conflict, late>>
      /\ ~fanned /\ fanned' = TRUE /\ row[Canonical] = "pending" /\ sc' \in {sc, IdleScan}
      /\ \/ Register /\ tag' \in SUBSET Cands /\ row' \in {row, [row EXCEPT ![Shadow] = "pending"]}
         \/ /\ UNCHANGED <<g, ts>>
            /\ tag' \in SUBSET Cands /\ row' \in {row, [row EXCEPT ![Shadow] = "pending"]}
  BY Names DEF FanOut, RaceInv, RaceTypeOK
<1>2. faults' \in {faults, faults + 1}
  BY DEF FanOut, Fault, NoFault
<1>3. g.st = "absent" /\ g = NoGroup /\ sc.pc = "idle" /\ ts[Shadow] = "absent" /\ into = {}
  BY <1>1 DEF RaceInv, FanOutInv
<1>4. /\ g' \in Groups /\ ts' \in [Tasks -> TaskStates] /\ ts'[Canonical] = ts[Canonical]
      /\ ts'[Repair] = ts[Repair] /\ ts'[Shadow] \in {"absent", ts[Canonical]}
      /\ g'.st \in {"absent", "racing"} /\ (g'.st = "absent" => g' = g /\ ts' = ts)
  BY <1>1, <1>3, Names, Idle DEF Register, RaceInv, RaceTypeOK, Groups
<1>5. row' \in [Tasks -> RowStates] /\ row'[Canonical] = "pending" /\ row'[Repair] = row[Repair]
  BY <1>1, Names DEF RaceInv, RaceTypeOK, RowStates
<1>6. sc' \in Scans /\ sc'.pc = "idle" /\ sc'.how = None
  BY <1>1, <1>3, Idle DEF RaceInv, RaceTypeOK, DecisionInv
<1>7. RaceTypeOK'
  BY <1>1, <1>2, <1>4, <1>5, <1>6 DEF RaceInv, RaceTypeOK
<1>8. ts[Canonical] # "completed"
  BY <1>1, Names DEF RaceInv, RowInv
<1>9. FanOutInv'
  BY <1>1, <1>3, <1>4 DEF FanOutInv
<1>10. RowInv'
  BY <1>1, <1>4, <1>5, <1>8, Names DEF RaceInv, RowInv, Wired
<1>11. ~Wired /\ member = Canonical
  <2>1. ~Wired
    BY <1>1 DEF RaceInv, FanOutInv
  <2>2. member # Repair /\ member # Shadow
    BY <1>3, <2>1 DEF RaceInv, MemberInv
  <2>3. member \in Tasks
    BY DEF RaceInv, RaceTypeOK
  <2> QED
    BY <2>1, <2>2, <2>3, Names
<1>12. MemberInv'
  BY <1>1, <1>4, <1>11, Names DEF MemberInv, Wired
<1>13. SnapshotInv' /\ ChosenInv' /\ DecisionInv'
  BY <1>6 DEF SnapshotInv, ChosenInv, DecisionInv
<1>14. ClosedInv'
  BY <1>4 DEF ClosedInv, Closed
<1>15. WinnerInv'
  <2>1. g' = [NoGroup EXCEPT !.st = "racing"] \/ g' = NoGroup
    BY <1>1, <1>3 DEF Register
  <2>2. g'.pend = None
    BY <2>1, Idle DEF Groups
  <2> QED
    BY <1>6, <2>2 DEF WinnerInv
<1> QED
  BY <1>7, <1>9, <1>10, <1>12, <1>13, <1>14, <1>15 DEF RaceInv

\* What the first step of a scan does to tasks and rows.
LEMMA ProcessDoes ==
    ASSUME RaceInv, Process
    PROVE  /\ sc.pc = "process" /\ g.st # "absent" /\ fanned
           /\ UNCHANGED <<g, member, tag, work, into, direct, foreign, conflict, late, fanned>>
           /\ faults' \in {faults, faults + 1}
           /\ row' \in [Tasks -> RowStates] /\ ts' \in [Tasks -> TaskStates]
           /\ row'[Repair] = row[Repair] /\ ts'[Repair] = ts[Repair]
           /\ \A c \in Cands :
                \/ row'[c] = row[c] /\ ts'[c] \in {ts[c], "cancelled"}
                \/ row[c] = "pending" /\ row'[c] = "cancelled" /\ ts'[c] \in {ts[c], "cancelled"}
           /\ ~Unresolved => row' = row /\ ts' = ts
           /\ sc'.pc # "idle" => row' = row /\ ts' = ts
<1>1. /\ sc.pc = "process" /\ g.st # "absent" /\ fanned
      /\ UNCHANGED <<g, member, tag, work, into, direct, foreign, conflict, late, fanned>>
  BY DEF Process, RaceInv, SnapshotInv
<1>2. /\ ts \in [Tasks -> TaskStates] /\ row \in [Tasks -> RowStates] /\ sc \in Scans
      /\ "cancelled" \in TaskStates /\ "cancelled" \in RowStates
  BY DEF RaceInv, RaceTypeOK, TaskStates, RowStates
<1>3. \/ row' = row /\ ts' = ts
      \/ /\ Unresolved /\ sc' = IdleScan
         /\ \/ \E c \in Cands : CancelStateOnly(c) /\ row' = row
            \/ \E c \in Cands : /\ row[c] = "pending" /\ row' = [row EXCEPT ![c] = "cancelled"]
                                /\ ts' \in {ts, [ts EXCEPT ![c] = "cancelled"]}
  BY Names DEF Process, GiveUp
<1>4. faults' \in {faults, faults + 1}
  BY DEF Process, CancelStateOnly, Fault, NoFault
<1>5. CASE row' = row /\ ts' = ts
  BY <1>1, <1>2, <1>4, <1>5
<1>6. ASSUME NEW c \in Cands, Unresolved, sc' = IdleScan, CancelStateOnly(c), row' = row
      PROVE  /\ ts' \in [Tasks -> TaskStates] /\ ts'[Repair] = ts[Repair]
             /\ \A d \in Cands : ts'[d] \in {ts[d], "cancelled"}
  BY <1>2, <1>6, Names DEF CancelStateOnly
<1>7. ASSUME NEW c \in Cands, Unresolved, sc' = IdleScan, row[c] = "pending",
             row' = [row EXCEPT ![c] = "cancelled"], ts' \in {ts, [ts EXCEPT ![c] = "cancelled"]}
      PROVE  /\ ts' \in [Tasks -> TaskStates] /\ ts'[Repair] = ts[Repair]
             /\ row' \in [Tasks -> RowStates] /\ row'[Repair] = row[Repair]
             /\ \A d \in Cands :
                \/ row'[d] = row[d] /\ ts'[d] \in {ts[d], "cancelled"}
                \/ row[d] = "pending" /\ row'[d] = "cancelled" /\ ts'[d] \in {ts[d], "cancelled"}
  BY <1>2, <1>7, Names
<1> QED
  BY <1>1, <1>2, <1>3, <1>4, <1>5, <1>6, <1>7, Idle

\* How the first step of a scan goes on.
LEMMA ProcessGoes ==
    ASSUME RaceInv, Process
    PROVE  \/ sc' = IdleScan
           \/ /\ Unresolved /\ Canonical \notin tag
              /\ sc' = [[sc EXCEPT !.pc = "resolve"] EXCEPT !.how = "untagged"]
           \/ /\ Unresolved
              /\ sc.row[Canonical] = "absent" \/ Canonical \in tag
              /\ \A c \in Cands : Ended(Eff(c))
              /\ sc' = [[sc EXCEPT !.pc = "select"] EXCEPT !.fin = {c \in Cands : Eff(c) = "completed"}]
<1>1. sc.tag = tag
  BY DEF Process, RaceInv, SnapshotInv
<1> QED
  BY <1>1 DEF Process, GiveUp, Close

LEMMA ProcessKeeps ==
    ASSUME RaceInv, Process PROVE RaceInv'
<1>1. /\ sc.pc = "process" /\ g.st # "absent" /\ fanned
      /\ UNCHANGED <<g, member, tag, work, into, direct, foreign, conflict, late, fanned>>
      /\ faults' \in {faults, faults + 1}
      /\ row' \in [Tasks -> RowStates] /\ ts' \in [Tasks -> TaskStates]
      /\ row'[Repair] = row[Repair] /\ ts'[Repair] = ts[Repair]
      /\ ~Unresolved => row' = row /\ ts' = ts
      /\ sc'.pc # "idle" => row' = row /\ ts' = ts
  BY ProcessDoes
<1>2. \A c \in Cands :
        \/ row'[c] = row[c] /\ ts'[c] \in {ts[c], "cancelled"}
        \/ row[c] = "pending" /\ row'[c] = "cancelled" /\ ts'[c] \in {ts[c], "cancelled"}
  BY ProcessDoes
<1>3. sc \in Scans /\ sc.how = None
  BY <1>1 DEF RaceInv, RaceTypeOK, DecisionInv
<1>4. FanOutInv'
  BY <1>1 DEF FanOutInv
<1>5. RowInv'
  BY <1>1, <1>2, Names DEF RaceInv, RowInv, Wired
<1>6. MemberInv'
  <2>1. \A c \in Cands : row[c] = "completed" => row'[c] = "completed"
    BY <1>2
  <2> QED
    BY <1>1, <2>1 DEF RaceInv, MemberInv, Wired, Unresolved
<1>7. ClosedInv'
  <2>1. CASE Unresolved
    BY <1>1, <2>1 DEF ClosedInv, Closed, Unresolved
  <2>2. CASE ~Unresolved
    BY <1>1, <2>2 DEF RaceInv, ClosedInv, Closed
  <2> QED
    BY <2>1, <2>2
<1>11. sc'.pc # "mark" => WinnerInv'
  <2>1. g.pend # None => g.pend \in Cands
    BY DEF RaceInv, RaceTypeOK, Groups
  <2>2. \A c \in Cands : row[c] = "completed" => row'[c] = "completed"
    BY <1>2
  <2> QED
    BY <1>1, <2>1, <2>2 DEF RaceInv, WinnerInv
<1>8. CASE sc' = IdleScan
  <2>1. RaceTypeOK'
    BY <1>1, <1>8, Idle DEF RaceInv, RaceTypeOK
  <2> QED
    BY <1>4, <1>5, <1>6, <1>7, <1>8, <1>11, <2>1, RestKnowsNothing DEF RaceInv
<1>9. CASE /\ Unresolved /\ Canonical \notin tag
           /\ sc' = [[sc EXCEPT !.pc = "resolve"] EXCEPT !.how = "untagged"]
  <2>1. /\ sc' \in Scans /\ sc'.pc = "resolve" /\ sc'.how = "untagged" /\ sc'.row = sc.row
        /\ sc'.tag = sc.tag
    BY <1>3, <1>9 DEF Scans
  <2>2. row' = row /\ ts' = ts
    BY <1>1, <2>1
  <2>3. RaceTypeOK'
    BY <1>1, <2>1 DEF RaceInv, RaceTypeOK
  <2>4. SnapshotInv' /\ ChosenInv'
    BY <1>1, <1>9, <2>1, <2>2 DEF RaceInv, SnapshotInv, ChosenInv, Unresolved
  <2>5. ~Wired'
    BY <1>9, <2>2 DEF RaceInv, MemberInv, Wired
  <2>6. DecisionInv'
    BY <1>1, <1>9, <2>1, <2>5 DEF DecisionInv, None
  <2> QED
    BY <1>4, <1>5, <1>6, <1>7, <1>11, <2>1, <2>3, <2>4, <2>6 DEF RaceInv
<1>10. CASE /\ Unresolved
            /\ sc.row[Canonical] = "absent" \/ Canonical \in tag
            /\ \A c \in Cands : Ended(Eff(c))
            /\ sc' = [[sc EXCEPT !.pc = "select"] EXCEPT !.fin = {c \in Cands : Eff(c) = "completed"}]
  <2>1. /\ sc' \in Scans /\ sc'.pc = "select" /\ sc'.how = None /\ sc'.row = sc.row
        /\ sc'.tag = sc.tag /\ sc'.fin = {c \in Cands : Eff(c) = "completed"}
    BY <1>3, <1>10 DEF Scans
  <2>2. row' = row /\ ts' = ts
    BY <1>1, <2>1
  <2>3. RaceTypeOK'
    BY <1>1, <2>1 DEF RaceInv, RaceTypeOK
  <2>4. SnapshotInv'
    BY <1>1, <1>10, <2>1, <2>2 DEF RaceInv, SnapshotInv, Unresolved
  <2>5. \A c \in Cands : Over(row[c]) /\ (Eff(c) = "completed" <=> row[c] = "completed")
    <3> SUFFICES ASSUME NEW c \in Cands
                 PROVE  Over(row[c]) /\ (Eff(c) = "completed" <=> row[c] = "completed")
      OBVIOUS
    <3>1. /\ Over(sc.row[c]) => row[c] = sc.row[c]
          /\ ts[c] = "completed" => row[c] = "completed"
      BY <1>1 DEF RaceInv, SnapshotInv, RowInv
    <3>2. Ended(Eff(c))
      BY <1>10
    <3> QED
      BY <3>1, <3>2 DEF Eff, Ended, Over
  <2>6. row[Canonical] = "absent" \/ Canonical \in tag
    BY <1>1, <1>10, Names DEF RaceInv, SnapshotInv, Over
  <2>7. ChosenInv'
    BY <1>1, <2>1, <2>2, <2>5, <2>6, Names DEF ChosenInv, Over
  <2>8. DecisionInv'
    BY <2>1 DEF DecisionInv
  <2> QED
    BY <1>4, <1>5, <1>6, <1>7, <1>11, <2>1, <2>3, <2>4, <2>7, <2>8 DEF RaceInv
<1> QED
  BY <1>8, <1>9, <1>10, ProcessGoes

\* A repair that is registered and queued.
LEMMA RepairQueued ==
    ASSUME RaceInv, EnqueueRepair, ~Wired
    PROVE  /\ ts' \in [Tasks -> TaskStates] /\ row' \in [Tasks -> RowStates] /\ member' \in Tasks
           /\ \A c \in Cands : ts'[c] = ts[c] /\ row'[c] = row[c]
           /\ ts'[Repair] = "planned" /\ row'[Repair] = "pending" /\ Wired'
           /\ member = Canonical => member' = Repair
           /\ member # Canonical => member' = member
<1>1. ts \in [Tasks -> TaskStates] /\ row \in [Tasks -> RowStates] /\ member \in Tasks
  BY DEF RaceInv, RaceTypeOK
<1>2. "planned" \in TaskStates /\ "pending" \in RowStates
  BY DEF TaskStates, RowStates
<1> QED
  BY <1>1, <1>2, Names DEF EnqueueRepair, Wired

LEMMA DegradeKeeps ==
    ASSUME RaceInv, Degrade PROVE RaceInv'
<1>1. /\ UNCHANGED <<g, tag, work, into, direct, foreign, conflict, late, fanned>> /\ sc.pc = "degrade"
      /\ \/ Wired /\ Close("superseded") /\ UNCHANGED <<ts, row, member>>
         \/ ~Wired /\ row[Canonical] = "absent" /\ Close("no repair") /\ UNCHANGED <<ts, row, member>>
         \/ sc' = IdleScan /\ UNCHANGED <<ts, row, member>>
         \/ ~Wired /\ row[Canonical] # "absent" /\ EnqueueRepair /\ (Close("superseded") \/ sc' = IdleScan)
  BY DEF Degrade, GiveUp
<1>2. faults' \in {faults, faults + 1}
  BY DEF Degrade, Fault, NoFault
<1>3. Unresolved /\ fanned /\ sc \in Scans /\ sc.how = None /\ sc.fin # {} /\ g.st # "absent" /\ faults \in Nat
  BY <1>1, AtStep DEF RaceInv, DecisionInv
<1>4. \E c \in Cands : row[c] = "completed"
  BY <1>1, <1>3 DEF RaceInv, ChosenInv, Scans, None
<1>5. ASSUME NEW h \in {"superseded", "no repair"}, Close(h)
      PROVE  /\ sc' \in Scans /\ sc'.pc = "resolve" /\ sc'.how = h /\ sc'.win = sc.win
             /\ sc'.row = sc.row /\ sc'.tag = sc.tag /\ sc'.fin = sc.fin
  BY <1>3, <1>5 DEF Close, Scans
<1>6. \/ sc' = IdleScan
      \/ /\ sc' \in Scans /\ sc'.pc = "resolve" /\ sc'.how \in {"superseded", "no repair"}
         /\ sc'.row = sc.row /\ sc'.tag = sc.tag /\ sc'.fin = sc.fin
  BY <1>1, <1>5
<1>9. sc'.pc # "mark"
  BY <1>6, Idle
<1>10. g.pend # None => g.pend \in Cands
  BY DEF RaceInv, RaceTypeOK, Groups
<1>7. CASE UNCHANGED <<ts, row, member>>
  <2>1. RaceTypeOK'
    <3>1. sc' \in Scans
      BY <1>6, Idle
    <3>2. faults' \in Nat
      BY <1>2, <1>3
    <3> QED
      BY <1>1, <1>7, <3>1, <3>2 DEF RaceInv, RaceTypeOK
  <2>2. FanOutInv' /\ RowInv' /\ MemberInv' /\ ClosedInv'
    BY <1>1, <1>3, <1>7 DEF RaceInv, FanOutInv, RowInv, MemberInv, ClosedInv, Wired, Unresolved, Closed
  <2>3. SnapshotInv' /\ ChosenInv'
    <3>1. CASE sc' = IdleScan
      BY <3>1, RestKnowsNothing
    <3>2. CASE sc' # IdleScan
      BY <1>1, <1>3, <1>6, <1>7, <3>2, MovesOn DEF Unresolved
    <3> QED
      BY <3>1, <3>2
  <2>4. DecisionInv'
    <3>1. CASE sc' = IdleScan
      BY <3>1, RestKnowsNothing
    <3>2. CASE Close("superseded") /\ Wired
      <4>1. sc'.pc = "resolve" /\ sc'.how = "superseded" /\ Wired'
        BY <1>5, <1>7, <3>2 DEF Wired
      <4> QED
        BY <4>1 DEF DecisionInv, None
    <3>3. CASE Close("no repair") /\ ~Wired /\ row[Canonical] = "absent"
      <4>1. sc'.pc = "resolve" /\ sc'.how = "no repair" /\ ~Wired' /\ row'[Canonical] = "absent"
        BY <1>5, <1>7, <3>3 DEF Wired
      <4> QED
        BY <4>1 DEF DecisionInv, None
    <3>4. ~(~Wired /\ EnqueueRepair)
      <4>1. ~Wired /\ EnqueueRepair => Wired'
        BY RepairQueued
      <4> QED
        BY <4>1, <1>7 DEF Wired
    <3> QED
      BY <1>1, <3>1, <3>2, <3>3, <3>4
  <2>5. WinnerInv'
    BY <1>1, <1>7, <1>9 DEF RaceInv, WinnerInv
  <2> QED
    BY <2>1, <2>2, <2>3, <2>4, <2>5 DEF RaceInv
<1>8. CASE ~Wired /\ row[Canonical] # "absent" /\ EnqueueRepair /\ (Close("superseded") \/ sc' = IdleScan)
  <2>1. /\ ts' \in [Tasks -> TaskStates] /\ row' \in [Tasks -> RowStates] /\ member' \in Tasks
        /\ \A c \in Cands : ts'[c] = ts[c] /\ row'[c] = row[c]
        /\ ts'[Repair] = "planned" /\ row'[Repair] = "pending" /\ Wired'
        /\ member = Canonical => member' = Repair
        /\ member # Canonical => member' = member
    BY <1>8, RepairQueued
  <2>2. member' = Repair
    <3>1. member \notin {Repair, Shadow}
      BY <1>3, <1>8 DEF RaceInv, MemberInv, Unresolved
    <3> QED
      BY <3>1, <2>1, Names DEF RaceInv, RaceTypeOK
  <2>3. Canonical \in tag
    BY <1>1, <1>3, <1>8 DEF RaceInv, ChosenInv, None
  <2>4. RaceTypeOK'
    <3>1. sc' \in Scans
      BY <1>6, Idle
    <3>2. faults' \in Nat
      BY <1>2, <1>3
    <3> QED
      BY <1>1, <2>1, <3>1, <3>2 DEF RaceInv, RaceTypeOK
  <2>5. FanOutInv'
    BY <1>1, <1>3 DEF FanOutInv
  <2>6. RowInv'
    BY <1>1, <2>1, <2>3, Names DEF RaceInv, RowInv
  <2>7. MemberInv'
    BY <1>1, <1>4, <2>1, <2>2, <2>3, Names DEF MemberInv
  <2>8. ClosedInv'
    BY <1>1, <1>3 DEF ClosedInv, Closed, Unresolved
  <2>9. SnapshotInv' /\ ChosenInv' /\ DecisionInv'
    <3>1. CASE sc' = IdleScan
      BY <3>1, RestKnowsNothing
    <3>2. CASE Close("superseded")
      <4>1. /\ sc'.pc = "resolve" /\ sc'.how = "superseded"
            /\ sc'.row = sc.row /\ sc'.tag = sc.tag /\ sc'.fin = sc.fin
        BY <1>5, <3>2
      <4>2. DecisionInv'
        BY <2>1, <4>1 DEF DecisionInv, None
      <4>3. SnapshotInv'
        BY <1>1, <1>3, <2>1, <4>1 DEF RaceInv, SnapshotInv, Unresolved, Over
      <4>4. ChosenInv'
        BY <1>1, <1>3, <2>1, <2>3, <4>1 DEF RaceInv, ChosenInv, Over, None
      <4> QED
        BY <4>2, <4>3, <4>4
    <3> QED
      BY <1>8, <3>1, <3>2
  <2>10. WinnerInv'
    BY <1>1, <1>9, <1>10, <2>1 DEF RaceInv, WinnerInv
  <2> QED
    BY <2>4, <2>5, <2>6, <2>7, <2>8, <2>9, <2>10 DEF RaceInv
<1> QED
  BY <1>1, <1>7, <1>8

\* A group that is closed: one candidate stands for the task, the repair, or
\* the canonical that did not work out.
LEMMA ResolveKeeps ==
    ASSUME RaceInv, Resolve PROVE RaceInv'
<1>1. /\ UNCHANGED <<row, tag, work, into, direct, foreign, conflict, late, fanned>>
      /\ sc.pc = "resolve" /\ sc' = IdleScan
      /\ \/ UNCHANGED <<g, ts, member>>
         \/ /\ sc.how = "win" /\ ts' = WinStates
            /\ g' = [st |-> "resolved", pend |-> None, winner |-> sc.win]
            /\ member' = IF sc.win = Shadow /\ member = Canonical THEN Shadow ELSE member
         \/ /\ sc.how # "win" /\ ts' = LossStates /\ member' = member
            /\ g' = [st |-> "degraded", pend |-> None, winner |-> None]
  BY DEF Resolve, GiveUp
<1>2. faults' \in {faults, faults + 1}
  BY DEF Resolve, Fault, NoFault
<1>3. /\ Unresolved /\ fanned /\ sc \in Scans /\ g \in Groups /\ g.st # "absent" /\ into \subseteq Cands
      /\ work \in [Cands -> {"none", "edits", "committed"}] /\ faults \in Nat
  BY <1>1, AtStep
<1>4. ts \in [Tasks -> TaskStates] /\ member \in Tasks /\ sc'.pc = "idle" /\ sc' \in Scans
  BY <1>1, Idle DEF RaceInv, RaceTypeOK
<1>5. faults' \in Nat
  BY <1>2, <1>3
<1>6. member # Shadow
  BY <1>3 DEF RaceInv, MemberInv, Unresolved
<1>7. SnapshotInv' /\ ChosenInv' /\ DecisionInv'
  BY <1>1, RestKnowsNothing
<1>8. CASE UNCHANGED <<g, ts, member>>
  <2>1. ScanStep
    BY <1>1, <1>2, <1>3, <1>8, Stops
  <2> QED
    BY <2>1, ScanKeeps
<1>9. CASE /\ sc.how = "win" /\ ts' = WinStates
           /\ g' = [st |-> "resolved", pend |-> None, winner |-> sc.win]
           /\ member' = IF sc.win = Shadow /\ member = Canonical THEN Shadow ELSE member
  <2>1. sc.win \in into /\ sc.win \in Cands /\ row[sc.win] = "completed" /\ ~Wired
    <3>1. sc.win \in into /\ g.pend = sc.win /\ ~Wired
      BY <1>1, <1>9 DEF RaceInv, DecisionInv
    <3>2. sc.win \in Cands
      BY <1>3, <3>1
    <3>3. row[sc.win] = "completed"
      BY <3>1, <3>2, Names DEF RaceInv, WinnerInv
    <3> QED
      BY <3>1, <3>2, <3>3
  <2>2. member = Canonical
    <3>1. member # Repair
      BY <2>1 DEF RaceInv, MemberInv
    <3> QED
      BY <3>1, <1>4, <1>6, Names
  <2>3. member' = sc.win
    BY <1>9, <2>1, <2>2, Names
  <2>4. g' \in Groups /\ g'.st = "resolved" /\ g'.pend = None /\ g'.winner = sc.win
    BY <1>9, <2>1 DEF Groups
  <2>5. /\ ts' \in [Tasks -> TaskStates] /\ ts'[Repair] = ts[Repair]
        /\ \A c \in Cands : IF c = sc.win THEN ts'[c] \in {"completed", ts[c]} ELSE ts'[c] = "cancelled"
    <3>1. "completed" \in TaskStates /\ "cancelled" \in TaskStates
      BY DEF TaskStates
    <3> QED
      BY <1>4, <1>9, <2>1, <3>1, Names DEF WinStates, Other
  <2>6. RaceTypeOK'
    BY <1>1, <1>4, <1>5, <2>1, <2>3, <2>4, <2>5, Names DEF RaceInv, RaceTypeOK
  <2>7. FanOutInv'
    BY <1>1, <1>3, <2>4 DEF FanOutInv
  <2>8. RowInv'
    BY <1>1, <1>3, <2>1, <2>5, Names DEF RaceInv, RowInv, Wired
  <2>9. MemberInv'
    BY <2>1, <2>3, <2>4, <2>5, Names DEF MemberInv, Wired, Unresolved
  <2>10. ClosedInv'
    BY <1>1, <2>1, <2>3, <2>4, <2>5, Names DEF ClosedInv
  <2>11. WinnerInv'
    BY <1>4, <2>4 DEF WinnerInv
  <2> QED
    BY <1>7, <2>6, <2>7, <2>8, <2>9, <2>10, <2>11 DEF RaceInv
<1>10. CASE /\ sc.how # "win" /\ ts' = LossStates /\ member' = member
            /\ g' = [st |-> "degraded", pend |-> None, winner |-> None]
  <2>1. g' \in Groups /\ g'.st = "degraded" /\ g'.pend = None
    BY <1>10 DEF Groups
  <2>2. /\ ts' \in [Tasks -> TaskStates] /\ ts'[Repair] = ts[Repair] /\ ts'[Shadow] = "cancelled"
        /\ sc.how = "superseded" => ts'[Canonical] = "cancelled"
        /\ ts'[Canonical] \in {ts[Canonical], "cancelled"}
    <3>1. "cancelled" \in TaskStates
      BY DEF TaskStates
    <3> QED
      BY <1>4, <1>10, <3>1, Names DEF LossStates
  <2>3. /\ sc.how = "superseded" => member = Repair
        /\ sc.how # "superseded" => member = Canonical
    <3>1. Wired <=> sc.how = "superseded"
      BY <1>1 DEF RaceInv, DecisionInv
    <3>2. Wired <=> member = Repair
      BY DEF RaceInv, MemberInv
    <3> QED
      BY <3>1, <3>2, <1>4, <1>6, Names
  <2>4. sc.how # "superseded" =>
          Canonical \notin tag \/ row[Canonical] \in {"absent", "failed", "cancelled"}
    <3>1. sc.how \in {"untagged", "both failed", "no repair", "superseded"}
      BY <1>1, <1>3, <1>10 DEF RaceInv, DecisionInv, Scans
    <3>2. sc.how = "both failed" => Over(row[Canonical]) /\ row[Canonical] # "completed"
      BY <1>1, Names DEF RaceInv, DecisionInv, ChosenInv
    <3> QED
      BY <1>1, <3>1, <3>2 DEF RaceInv, DecisionInv, Over
  <2>5. RaceTypeOK'
    BY <1>1, <1>4, <1>5, <1>10, <2>1, <2>2 DEF RaceInv, RaceTypeOK
  <2>6. FanOutInv'
    BY <1>1, <1>3, <2>1 DEF FanOutInv
  <2>7. RowInv'
    BY <1>1, <1>3, <2>2, Names DEF RaceInv, RowInv, Wired
  <2>8. MemberInv'
    BY <1>6, <1>10, <2>1, <2>2 DEF RaceInv, MemberInv, Wired, Unresolved
  <2>9. ClosedInv'
    BY <1>1, <1>10, <2>1, <2>2, <2>3, <2>4, Names DEF ClosedInv
  <2>10. WinnerInv'
    BY <1>4, <2>1 DEF WinnerInv
  <2> QED
    BY <1>7, <2>5, <2>6, <2>7, <2>8, <2>9, <2>10 DEF RaceInv
<1> QED
  BY <1>1, <1>8, <1>9, <1>10

\* What a scan does with a tagged row that has no group.
LEMMA OrphansDo ==
    ASSUME RaceInv, RepairOrphans
    PROVE  /\ sc.pc = "process" /\ g.st = "absent" /\ fanned
           /\ UNCHANGED <<g, direct, foreign, conflict, late, fanned>>
           /\ faults' \in {faults, faults + 1}
           /\ \E c \in Cands :
                /\ c \in sc.tag /\ sc' = [sc EXCEPT !.tag = sc.tag \ {c}]
                /\ \/ UNCHANGED <<tag, row, ts, member, work, into>>
                   \/ /\ tag' = tag \ {c} /\ UNCHANGED <<ts, member, work, into>>
                      /\ row' = row \/ (row[c] = "pending" /\ row' = [row EXCEPT ![c] = "cancelled"])
                   \/ /\ c = Canonical /\ sc.row[c] = "completed" /\ c \notin conflict
                      /\ tag' = tag \ {c} /\ UNCHANGED <<row, ts, member>>
                      /\ work' = Committed({c}) /\ into' = into \cup {c}
                   \/ /\ c = Canonical /\ sc.row[c] = "completed" /\ c \in conflict
                      /\ tag' = tag \ {c} /\ UNCHANGED <<work, into>>
                      /\ ts' = [ts EXCEPT ![Repair] = "planned"]
                      /\ row' = [row EXCEPT ![Repair] = "pending"] /\ member' = Repair
<1>1. /\ sc.pc = "process" /\ g.st = "absent" /\ fanned /\ ts[Shadow] = "absent"
      /\ UNCHANGED <<g, direct, foreign, conflict, late, fanned>>
  BY DEF RepairOrphans, RaceInv, SnapshotInv, FanOutInv
<1>2. faults' \in {faults, faults + 1}
  BY DEF RepairOrphans, Fault, NoFault
<1>3. PICK c \in Cands :
         /\ c \in sc.tag /\ sc.row[c] # "absent"
         /\ sc' = [sc EXCEPT !.tag = @ \ {c}]
         /\ \/ /\ sc.row[c] = "in_progress"
               /\ UNCHANGED <<tag, row, ts, member, work, into, faults>>
            \/ /\ ts[c] # "absent" /\ sc.row[c] = "completed"
               /\ IF c \notin conflict
                    THEN /\ NoFault /\ work' = Committed({c}) /\ into' = into \cup {c}
                         /\ Strip(c, FALSE) /\ UNCHANGED <<ts, member>>
                    ELSE /\ UNCHANGED <<work, into>>
                         /\ \/ /\ NoFault /\ c = Canonical
                               /\ ts' = [ts EXCEPT ![Repair] = "planned"]
                               /\ row' = [row EXCEPT ![Repair] = "pending"]
                               /\ member' = Repair /\ tag' = tag \ {c}
                            \/ Fault("write") /\ UNCHANGED <<tag, row, ts, member>>
            \/ /\ ts[c] # "absent" /\ sc.row[c] \in {"pending", "failed", "cancelled"}
               /\ NoFault /\ Strip(c, FALSE) /\ UNCHANGED <<ts, member, work, into>>
            \/ /\ ts[c] = "absent" /\ sc.row[c] # "in_progress"
               /\ NoFault /\ Strip(c, TRUE) /\ UNCHANGED <<ts, member, work, into>>
  BY DEF RepairOrphans
<1>4. ts[c] # "absent" => c = Canonical
  BY <1>1, <1>3, Names
<1>5. row \in [Tasks -> RowStates] /\ c \in Tasks
  BY <1>3, Names DEF RaceInv, RaceTypeOK
<1>6. /\ Strip(c, FALSE) => tag' = tag \ {c} /\ row' = row
      /\ Strip(c, TRUE) => /\ tag' = tag \ {c}
                           /\ row' = row \/ (row[c] = "pending" /\ row' = [row EXCEPT ![c] = "cancelled"])
  BY <1>5 DEF Strip
<1> QED
  BY <1>1, <1>2, <1>3, <1>4, <1>6

LEMMA OrphansKeep ==
    ASSUME RaceInv, RepairOrphans PROVE RaceInv'
<1>1. /\ sc.pc = "process" /\ g.st = "absent" /\ fanned
      /\ UNCHANGED <<g, direct, foreign, conflict, late, fanned>>
      /\ faults' \in {faults, faults + 1}
  BY OrphansDo
<1>2. PICK c \in Cands :
                /\ c \in sc.tag /\ sc' = [sc EXCEPT !.tag = sc.tag \ {c}]
                /\ \/ UNCHANGED <<tag, row, ts, member, work, into>>
                   \/ /\ tag' = tag \ {c} /\ UNCHANGED <<ts, member, work, into>>
                      /\ row' = row \/ (row[c] = "pending" /\ row' = [row EXCEPT ![c] = "cancelled"])
                   \/ /\ c = Canonical /\ sc.row[c] = "completed" /\ c \notin conflict
                      /\ tag' = tag \ {c} /\ UNCHANGED <<row, ts, member>>
                      /\ work' = Committed({c}) /\ into' = into \cup {c}
                   \/ /\ c = Canonical /\ sc.row[c] = "completed" /\ c \in conflict
                      /\ tag' = tag \ {c} /\ UNCHANGED <<work, into>>
                      /\ ts' = [ts EXCEPT ![Repair] = "planned"]
                      /\ row' = [row EXCEPT ![Repair] = "pending"] /\ member' = Repair
  BY OrphansDo
<1>3. /\ g \in Groups /\ ts \in [Tasks -> TaskStates] /\ member \in Tasks
      /\ row \in [Tasks -> RowStates] /\ tag \subseteq Cands /\ into \subseteq Cands
      /\ work \in [Cands -> {"none", "edits", "committed"}] /\ sc \in Scans /\ faults \in Nat
      /\ "cancelled" \in RowStates /\ "pending" \in RowStates /\ "planned" \in TaskStates
      /\ sc.how = None /\ g = NoGroup /\ ts[Shadow] = "absent"
  BY <1>1 DEF RaceInv, RaceTypeOK, RowStates, TaskStates, DecisionInv, FanOutInv
<1>4. sc' \in Scans /\ sc'.pc = "process" /\ sc'.row = sc.row /\ sc'.how = None
  BY <1>1, <1>2, <1>3 DEF Scans
<1>5. tag' \subseteq tag /\ into' \subseteq Cands /\ work' \in [Cands -> {"none", "edits", "committed"}]
  <2>1. work' \in {work, Committed({c})}
    BY <1>2
  <2>2. work' \in [Cands -> {"none", "edits", "committed"}]
    BY <1>3, <2>1, CommittedTyped
  <2> QED
    BY <1>2, <1>3, <2>2
<1>6. /\ row' \in [Tasks -> RowStates] /\ ts' \in [Tasks -> TaskStates] /\ member' \in Tasks
      /\ \A d \in Cands : ts'[d] = ts[d] /\ (row[d] # "pending" => row'[d] = row[d])
                          /\ (row[d] = "pending" => row'[d] \in {"pending", "cancelled"})
      /\ \/ row'[Repair] = row[Repair] /\ ts'[Repair] = ts[Repair] /\ member' = member
         \/ row'[Repair] = "pending" /\ ts'[Repair] = "planned" /\ member' = Repair
  <2>1. CASE UNCHANGED <<row, ts, member>>
    BY <1>3, <2>1
  <2>2. CASE row[c] = "pending" /\ row' = [row EXCEPT ![c] = "cancelled"] /\ UNCHANGED <<ts, member>>
    BY <1>3, <2>2, Names
  <2>3. CASE /\ ts' = [ts EXCEPT ![Repair] = "planned"]
             /\ row' = [row EXCEPT ![Repair] = "pending"] /\ member' = Repair
    BY <1>3, <2>3, Names
  <2> QED
    BY <1>2, <2>1, <2>2, <2>3
<1>7. RaceTypeOK'
  <2>1. faults' \in Nat
    BY <1>1, <1>3
  <2> QED
    BY <1>1, <1>3, <1>4, <1>5, <1>6, <2>1 DEF RaceInv, RaceTypeOK
<1>8. FanOutInv'
  BY <1>1, <1>3, <1>6, Names DEF FanOutInv
<1>9. RowInv'
  BY <1>1, <1>6, Names DEF RaceInv, RowInv, Wired
<1>10. MemberInv'
  BY <1>1, <1>6, Names DEF RaceInv, MemberInv, Wired, Unresolved
<1>11. SnapshotInv'
  BY <1>1, <1>4, <1>6 DEF RaceInv, SnapshotInv, Over
<1>12. ChosenInv' /\ DecisionInv' /\ WinnerInv' /\ ClosedInv'
  BY <1>1, <1>3, <1>4, Idle DEF ChosenInv, DecisionInv, WinnerInv, ClosedInv, Closed
<1> QED
  BY <1>7, <1>8, <1>9, <1>10, <1>11, <1>12 DEF RaceInv

LEMMA RaceStarts == Init => RaceInv
<1> SUFFICES ASSUME Init PROVE RaceInv
  OBVIOUS
<1>1. ts[Repair] = "absent" /\ ts[Shadow] = "absent" /\ ts[Canonical] = "planned"
      /\ row[Repair] = "absent" /\ row[Shadow] = "absent" /\ row[Canonical] = "pending"
  BY Names DEF Init
<1>2. ts \in [Tasks -> TaskStates] /\ row \in [Tasks -> RowStates]
  BY DEF Init, TaskStates, RowStates
<1>3. RaceTypeOK
  BY <1>2, Names, Idle DEF Init, RaceTypeOK
<1>4. ~Wired /\ ~Unresolved /\ ~Closed
  BY <1>1, Idle DEF Init, Wired, Unresolved, Closed
<1>5. FanOutInv /\ SnapshotInv /\ ChosenInv /\ DecisionInv /\ WinnerInv /\ ClosedInv
  BY <1>1, <1>4, Idle DEF Init, FanOutInv, SnapshotInv, ChosenInv, DecisionInv, WinnerInv, ClosedInv, None
<1>6. RowInv
  BY <1>1, <1>4, Names DEF Init, RowInv
<1>7. MemberInv
  BY <1>4, Names DEF Init, MemberInv, Canonical, Repair, Shadow
<1> QED
  BY <1>3, <1>5, <1>6, <1>7 DEF RaceInv

LEMMA ScanSteps ==
    ASSUME RaceInv,
           \/ SelectFirst \/ CommitFinishers \/ RunSelection \/ MarkPendingWinner
           \/ Intake \/ OrphansDone \/ Collect \/ Crash
    PROVE  ScanStep
  BY SelectSteps, CommitSteps, RunSteps, MarkSteps, IntakeSteps, GiveUpSteps, CollectSteps

LEMMA WorkerSteps ==
    ASSUME RaceInv,
           \/ RaceTimesOut \/ SelectionTimesOut \/ DispatchRepair
           \/ \E c \in Cands : Dispatch(c) \/ StartForeign(c) \/ EndForeign(c) \/ DeadLetter(c) \/ CancelRow(c)
           \/ \E t \in Tasks : StateFollows(t) \/ \E st \in {"completed", "failed"} : Report(t, st)
    PROVE  WorkersStep
<1>1. CASE RaceTimesOut \/ SelectionTimesOut \/ \E c \in Cands : StartForeign(c) \/ EndForeign(c)
  BY <1>1, ClockSteps
<1>2. CASE DispatchRepair
  BY <1>2, DispatchRepairSteps
<1>3. CASE \E c \in Cands : Dispatch(c) \/ DeadLetter(c) \/ CancelRow(c)
  BY <1>3, DispatchSteps, RowEndsSteps
<1>4. CASE \E t \in Tasks : StateFollows(t) \/ \E st \in {"completed", "failed"} : Report(t, st)
  BY <1>4, StateFollowsSteps, ReportSteps
<1> QED
  BY <1>1, <1>2, <1>3, <1>4

LEMMA RaceStep == RaceInv /\ [Next]_vars => RaceInv'
<1> SUFFICES ASSUME RaceInv, [Next]_vars PROVE RaceInv'
  OBVIOUS
<1>1. CASE UNCHANGED vars
  <2>1. UNCHANGED vars /\ (Wired' <=> Wired) /\ (Unresolved' <=> Unresolved) /\ (Closed' <=> Closed)
    BY <1>1 DEF vars, Wired, Unresolved, Closed
  <2>2. RaceTypeOK' /\ FanOutInv'
    BY <2>1 DEF vars, RaceInv, RaceTypeOK, FanOutInv
  <2>3. RowInv' /\ MemberInv'
    BY <2>1 DEF vars, RaceInv, RowInv, MemberInv
  <2>4. SnapshotInv' /\ ChosenInv'
    BY <2>1 DEF vars, RaceInv, SnapshotInv, ChosenInv
  <2>5. DecisionInv' /\ WinnerInv' /\ ClosedInv'
    BY <2>1 DEF vars, RaceInv, DecisionInv, WinnerInv, ClosedInv
  <2> QED
    BY <2>2, <2>3, <2>4, <2>5 DEF RaceInv
<1>2. CASE \/ SelectFirst \/ CommitFinishers \/ RunSelection \/ MarkPendingWinner
           \/ Intake \/ OrphansDone \/ Collect \/ Crash
  BY <1>2, ScanSteps, ScanKeeps
<1>3. CASE \/ RaceTimesOut \/ SelectionTimesOut \/ DispatchRepair
           \/ \E c \in Cands : Dispatch(c) \/ StartForeign(c) \/ EndForeign(c) \/ DeadLetter(c) \/ CancelRow(c)
           \/ \E t \in Tasks : StateFollows(t) \/ \E st \in {"completed", "failed"} : Report(t, st)
  BY <1>3, WorkerSteps, WorkersKeep
<1>4. CASE FanOut \/ Process \/ Degrade \/ Resolve \/ RepairOrphans
  BY <1>4, FanOutKeeps, ProcessKeeps, DegradeKeeps, ResolveKeeps, OrphansKeep
<1> QED
  BY <1>1, <1>2, <1>3, <1>4 DEF Next, Step

-----------------------------------------------------------------------------
(* The race: what the code promises of it, whatever fails.                 *)

\* The invariant of the race holds for every set of faults and every number
\* of them.
THEOREM RaceInvariance == Spec => []RaceInv
<1>1. Init => RaceInv
  BY RaceStarts
<1>2. RaceInv /\ [Next]_vars => RaceInv'
  BY RaceStep
<1> QED
  BY <1>1, <1>2, PTL DEF Spec

\* A task that counts as completed has its work on a branch, and one candidate
\* is left of a group that is closed (resolveABGroup, repairOrphanABRows).
LEMMA WorkCounts == RaceInv => CountedWorkIsThere /\ OneSurvivor
<1> SUFFICES ASSUME RaceInv PROVE CountedWorkIsThere /\ OneSurvivor
  OBVIOUS
<1>1. OneSurvivor
  BY DEF RaceInv, ClosedInv, OneSurvivor, Closed
<1>2. ASSUME g.st # "absent", ~Masked, ts[member] = "completed" PROVE member \in into \cup direct
  <2>1. Closed /\ member \in Tasks
    <3>1. g \in Groups /\ member \in Tasks
      BY DEF RaceInv, RaceTypeOK
    <3> QED
      BY <1>2, <3>1 DEF Groups, Masked, Unresolved, Closed
  <2>2. CASE g.st = "resolved"
    BY <2>1, <2>2 DEF RaceInv, ClosedInv
  <2>3. CASE member = Repair
    BY <1>2, <2>3 DEF RaceInv, RowInv
  <2>4. CASE g.st # "resolved" /\ member # Repair
    <3>1. member = Canonical
      BY <2>1, <2>4, Names DEF RaceInv, MemberInv
    <3>2. row[Canonical] = "completed"
      BY <1>2, <3>1, Names DEF RaceInv, RowInv
    <3>3. Canonical \notin tag
      BY <2>1, <2>4, <3>1, <3>2 DEF RaceInv, ClosedInv, Closed
    <3> QED
      BY <1>2, <3>1, <3>2, <3>3 DEF RaceInv, RowInv
  <2> QED
    BY <2>2, <2>3, <2>4
<1> QED
  BY <1>1, <1>2 DEF CountedWorkIsThere

THEOREM RaceCounts == Spec => [](CountedWorkIsThere /\ OneSurvivor)
  BY RaceInvariance, WorkCounts, PTL

-----------------------------------------------------------------------------
(* The race: a winner's branch is merged while its worker is idle.         *)

\* A step that starts nobody else's task and no candidate's row.
LEMMA IdleFrames ==
    ASSUME RaceTypeOK, IdleInv, foreign' = foreign,
           \A c \in Cands : \/ row'[c] = row[c]
                            \/ row[c] \in {"pending", "in_progress"} /\ row'[c] \notin {"in_progress", "completed"},
           tag' \subseteq tag, sc'.tag \subseteq tag', fanned => fanned',
           g'.st # "absent" => g.st # "absent" /\ tag' = tag, Closed => Closed'
    PROVE  IdleInv'
<1>0. Shadow \in Cands /\ tag \subseteq Cands
  BY Names DEF RaceTypeOK
<1>1. \A c \in Cands : row'[c] = "in_progress" => c \notin foreign'
  BY DEF IdleInv
<1>2. \A c \in tag' : row'[c] = "completed" /\ ~Closed' => c \notin foreign'
  BY <1>0 DEF IdleInv
<1>3. g'.st # "absent" /\ row'[Shadow] # "absent" => Shadow \in tag'
  BY <1>0 DEF IdleInv
<1>4. ~fanned' => row'[Shadow] = "absent"
  BY <1>0 DEF IdleInv
<1> QED
  BY <1>1, <1>2, <1>3, <1>4 DEF IdleInv

\* A scan knows of no other tags than those it has read.
LEMMA ScanTags ==
    ASSUME RaceInv, IdleInv,
           \/ Process \/ SelectFirst \/ CommitFinishers \/ RunSelection \/ MarkPendingWinner
           \/ Intake \/ Degrade \/ Resolve \/ OrphansDone \/ Collect \/ Crash
    PROVE  sc'.tag \subseteq tag' /\ UNCHANGED <<tag, foreign, fanned>>
<1>0. sc \in Scans /\ sc.tag \subseteq tag
  BY DEF RaceInv, RaceTypeOK, IdleInv
<1>1. CASE Process
  <2>1. UNCHANGED <<tag, foreign, fanned>>
    BY <1>1 DEF Process
  <2>2. sc'.tag \in {sc.tag, {}}
    BY <1>0, <1>1, ProcessGoes, Idle DEF Scans
  <2> QED
    BY <1>0, <2>1, <2>2
<1>2. CASE SelectFirst
  <2>1. UNCHANGED <<tag, foreign, fanned>>
    BY <1>2 DEF SelectFirst
  <2>2. sc' = IdleScan \/ sc'.tag = sc.tag
    BY <1>0, <1>2 DEF SelectFirst, Close, Goto, GiveUp, Scans
  <2> QED
    BY <1>0, <2>1, <2>2, Idle
<1>3. CASE CommitFinishers \/ RunSelection
  <2>1. UNCHANGED <<tag, foreign, fanned>>
    BY <1>3 DEF CommitFinishers, RunSelection
  <2>2. sc' = IdleScan \/ sc'.tag = sc.tag
    BY <1>0, <1>3 DEF CommitFinishers, RunSelection, Goto, GiveUp, Scans
  <2> QED
    BY <1>0, <2>1, <2>2, Idle
<1>4. CASE MarkPendingWinner \/ Intake
  <2>1. UNCHANGED <<tag, foreign, fanned>>
    BY <1>4 DEF MarkPendingWinner, Intake
  <2>2. sc' = IdleScan \/ sc'.tag = sc.tag
    BY <1>0, <1>4 DEF MarkPendingWinner, AfterMark, Intake, Close, Goto, GiveUp, Scans
  <2> QED
    BY <1>0, <2>1, <2>2, Idle
<1>5. CASE Degrade
  <2>1. UNCHANGED <<tag, foreign, fanned>>
    BY <1>5 DEF Degrade
  <2>2. sc' = IdleScan \/ sc'.tag = sc.tag
    BY <1>0, <1>5 DEF Degrade, Close, GiveUp, Scans
  <2> QED
    BY <1>0, <2>1, <2>2, Idle
<1>6. CASE Resolve \/ OrphansDone \/ Crash
  BY <1>6, Idle DEF Resolve, OrphansDone, Crash, GiveUp
<1>7. CASE Collect
  <2>1. UNCHANGED <<tag, foreign, fanned>>
    BY <1>7 DEF Collect
  <2>2. sc' = [[[IdleScan EXCEPT !.pc = "process"] EXCEPT !.row = [c \in Cands |-> row[c]]] EXCEPT !.tag = tag]
    BY <1>7 DEF Collect, IdleScan
  <2>3. sc'.tag = tag
    BY <2>2, Idle DEF Scans
  <2> QED
    BY <2>1, <2>3
<1> QED
  BY <1>1, <1>2, <1>3, <1>4, <1>5, <1>6, <1>7

LEMMA IdleStep == RaceInv /\ IdleInv /\ [Next]_vars => IdleInv'
<1> SUFFICES ASSUME RaceInv, IdleInv, [Next]_vars PROVE IdleInv'
  OBVIOUS
<1>0. /\ row \in [Tasks -> RowStates] /\ tag \subseteq Cands /\ foreign \subseteq Cands
      /\ sc \in Scans /\ g \in Groups
  BY DEF RaceInv, RaceTypeOK
<1>1. CASE UNCHANGED <<g, row, tag, foreign, fanned, sc>>
  BY <1>1 DEF IdleInv, Closed
<1>2. ASSUME NEW c \in Cands, Dispatch(c) PROVE IdleInv'
  <2>1. UNCHANGED <<g, tag, foreign, fanned, sc>> /\ row' = [row EXCEPT ![c] = "in_progress"]
        /\ row[c] = "pending" /\ c \notin foreign
    BY <1>2 DEF Dispatch, Free
  <2>2. row'[c] = "in_progress" /\ \A d \in Cands \ {c} : row'[d] = row[d]
    BY <1>0, <2>1, Names
  <2> QED
    BY <1>0, <2>1, <2>2, Names DEF IdleInv, Closed
<1>3. ASSUME NEW c \in Cands, StartForeign(c) PROVE IdleInv'
  <2>1. UNCHANGED <<g, row, tag, sc, fanned>> /\ foreign' = foreign \cup {c}
        /\ row[c] # "in_progress" /\ ~Frozen(c)
    BY <1>3 DEF StartForeign, Free
  <2>2. c \in tag /\ row[c] = "completed" => Closed
    BY <2>1 DEF Frozen, Closed
  <2> QED
    BY <1>0, <2>1, <2>2 DEF IdleInv, Closed
<1>4. ASSUME NEW c \in Cands, EndForeign(c) PROVE IdleInv'
  <2>1. UNCHANGED <<g, row, tag, sc, fanned>> /\ foreign' = foreign \ {c}
    BY <1>4 DEF EndForeign
  <2> QED
    BY <2>1 DEF IdleInv, Closed
<1>5. ASSUME NEW c \in Cands, DeadLetter(c) \/ CancelRow(c) PROVE IdleInv'
  <2>1. UNCHANGED <<g, tag, foreign, fanned, sc>> /\ row[c] = "pending"
        /\ \E r \in {"absent", "cancelled"} : row' = [row EXCEPT ![c] = r]
    BY <1>5 DEF DeadLetter, CancelRow
  <2>2. row'[c] \in {"absent", "cancelled"} /\ \A d \in Cands \ {c} : row'[d] = row[d]
    BY <1>0, <2>1, Names
  <2> QED
    BY <1>0, <2>1, <2>2, IdleFrames DEF RaceInv, IdleInv, Closed
<1>6. ASSUME NEW t \in Tasks, NEW st \in {"completed", "failed"}, Report(t, st) PROVE IdleInv'
  <2>1. UNCHANGED <<g, tag, foreign, fanned, sc>> /\ row[t] = "in_progress" /\ row' = [row EXCEPT ![t] = st]
    BY <1>6 DEF Report
  <2>2. row'[t] = st /\ \A d \in Cands \ {t} : row'[d] = row[d]
    BY <1>0, <2>1, Names
  <2> QED
    BY <1>0, <2>1, <2>2, Names DEF IdleInv, Closed
<1>7. CASE DispatchRepair
  <2>1. UNCHANGED <<g, tag, foreign, fanned, sc>> /\ \A d \in Cands : row'[d] = row[d]
    BY <1>0, <1>7, Names DEF DispatchRepair
  <2> QED
    BY <1>0, <2>1, Names, IdleFrames DEF RaceInv, IdleInv, Closed
<1>8. CASE FanOut
  <2>1. /\ tag = {} /\ g.st = "absent" /\ foreign' = foreign /\ row[Canonical] = "pending"
        /\ sc'.tag = {} /\ tag' \subseteq Cands
    <3>1. sc.pc = "idle" /\ tag = {} /\ g.st = "absent"
      BY <1>8 DEF FanOut, RaceInv, FanOutInv
    <3>2. sc' \in {sc, IdleScan} /\ tag' \subseteq Cands /\ foreign' = foreign /\ row[Canonical] = "pending"
      BY <1>8, <1>0, Names DEF FanOut
    <3>3. sc.tag = {}
      BY <3>1 DEF IdleInv
    <3> QED
      BY <3>1, <3>2, <3>3, Idle
  <2>2. \/ row' = row
        \/ row' = [row EXCEPT ![Shadow] = "pending"] /\ Shadow \in tag'
    BY <1>8, Names DEF FanOut
  <2>3. row'[Canonical] = "pending" /\ (row' = row \/ (row'[Shadow] = "pending" /\ Shadow \in tag'))
    <3>1. CASE row' = row
      BY <2>1, <3>1
    <3>2. CASE row' = [row EXCEPT ![Shadow] = "pending"] /\ Shadow \in tag'
      BY <1>0, <2>1, <3>2, Names
    <3> QED
      BY <2>2, <3>1, <3>2
  <2>4. row[Shadow] = "absent" /\ fanned'
    BY <1>8 DEF FanOut, IdleInv
  <2>5. \A c \in Cands : row'[c] \notin {"in_progress", "completed"}
    BY <2>3, <2>4, Names
  <2> QED
    BY <1>0, <2>1, <2>3, <2>4, <2>5, Names DEF IdleInv
<1>9. CASE RepairOrphans
  <2>1. /\ g.st = "absent" /\ UNCHANGED <<g, foreign, fanned>>
    BY <1>9, OrphansDo
  <2>2. PICK c \in Cands :
          /\ sc' = [sc EXCEPT !.tag = sc.tag \ {c}] /\ tag' \in {tag, tag \ {c}}
          /\ \/ row' = row
             \/ row[c] = "pending" /\ row' = [row EXCEPT ![c] = "cancelled"]
             \/ row' = [row EXCEPT ![Repair] = "pending"]
    BY <1>9, OrphansDo
  <2>3. sc'.tag \subseteq tag' /\ tag' \subseteq tag
    <3>1. sc'.tag = sc.tag \ {c}
      BY <1>0, <2>2 DEF Scans
    <3> QED
      BY <2>2, <3>1 DEF IdleInv
  <2>4. \A d \in Cands : row'[d] = row[d] \/ (row[d] = "pending" /\ row'[d] = "cancelled")
    BY <1>0, <2>2, Names
  <2> QED
    BY <2>1, <2>3, <2>4, IdleFrames DEF Closed, RaceInv
<1>10. CASE \/ SelectFirst \/ CommitFinishers \/ RunSelection \/ MarkPendingWinner
            \/ Intake \/ OrphansDone \/ Collect \/ Crash
  <2>1. ScanStep
    BY <1>10, ScanSteps
  <2>2. sc'.tag \subseteq tag' /\ UNCHANGED <<tag, foreign, fanned>>
    BY <1>10, ScanTags
  <2>3. row' = row /\ (g'.st # "absent" => g.st # "absent") /\ (Closed => Closed')
    BY <2>1 DEF ScanStep, Unresolved, Closed
  <2> QED
    BY <2>2, <2>3, IdleFrames DEF RaceInv
<1>11. CASE Process \/ Degrade \/ Resolve
  <2>1. sc'.tag \subseteq tag' /\ UNCHANGED <<tag, foreign, fanned>>
    BY <1>11, ScanTags
  <2>2. g' = g \/ (Unresolved /\ Closed')
    <3>1. CASE Process \/ Degrade
      BY <3>1 DEF Process, Degrade
    <3>2. CASE Resolve
      <4>1. Unresolved
        BY <3>2, AtStep DEF Resolve
      <4>2. \/ g' = g
            \/ g' = [st |-> "resolved", pend |-> None, winner |-> sc.win]
            \/ g' = [st |-> "degraded", pend |-> None, winner |-> None]
        BY <3>2 DEF Resolve
      <4> QED
        BY <4>1, <4>2 DEF Closed
    <3> QED
      BY <1>11, <3>1, <3>2
  <2>3. \A c \in Cands : row'[c] = row[c] \/ (row[c] = "pending" /\ row'[c] = "cancelled")
    <3>1. CASE Process
      BY <3>1, ProcessDoes
    <3>2. CASE Degrade
      <4>1. row' = row \/ (EnqueueRepair /\ ~Wired)
        BY <3>2 DEF Degrade
      <4> QED
        BY <4>1, RepairQueued
    <3>3. CASE Resolve
      BY <3>3 DEF Resolve
    <3> QED
      BY <1>11, <3>1, <3>2, <3>3
  <2> QED
    BY <2>1, <2>2, <2>3, IdleFrames DEF RaceInv, Unresolved, Closed
<1>12. CASE RaceTimesOut \/ SelectionTimesOut \/ \E t \in Tasks : StateFollows(t)
  BY <1>1, <1>12 DEF RaceTimesOut, SelectionTimesOut, StateFollows
<1>13. CASE UNCHANGED vars
  BY <1>1, <1>13 DEF vars
<1> QED
  BY <1>2, <1>3, <1>4, <1>5, <1>6, <1>7, <1>8, <1>9, <1>10, <1>11, <1>12, <1>13 DEF Next, Step

\* Only two steps merge a candidate, each a candidate that is done and frozen.
LEMMA MergesIdle ==
    ASSUME RaceInv, IdleInv, Next, NEW c \in Cands, c \in into' \ into
    PROVE  c \notin foreign /\ row[c] # "in_progress"
<1>1. CASE Intake
  <2>1. c = sc.win /\ sc.pc = "intake"
    BY <1>1 DEF Intake, CommitAndMerge
  <2>2. row[c] = "completed" /\ ~Closed /\ g.st # "absent"
    <3>1. g.pend = c
      BY <2>1 DEF RaceInv, DecisionInv
    <3>2. row[c] = "completed"
      BY <3>1, Names DEF RaceInv, WinnerInv
    <3>3. Unresolved
      BY <2>1, AtStep
    <3> QED
      BY <3>2, <3>3 DEF Unresolved, Closed
  <2>3. c \in tag
    <3>1. CASE c = Canonical
      BY <2>1, <2>2, <3>1 DEF RaceInv, ChosenInv, DecisionInv, None
    <3>2. CASE c = Shadow
      BY <2>2, <3>2 DEF IdleInv
    <3> QED
      BY <3>1, <3>2, Names
  <2> QED
    BY <2>2, <2>3 DEF IdleInv
<1>2. CASE RepairOrphans
  <2>1. g.st = "absent" /\ sc.pc = "process" /\ c \in sc.tag /\ sc.row[c] = "completed"
    BY <1>2, OrphansDo
  <2>2. row[c] = "completed"
    BY <2>1 DEF RaceInv, SnapshotInv, Over
  <2> QED
    BY <2>1, <2>2 DEF IdleInv, Closed
<1>3. CASE ~(Intake \/ RepairOrphans)
  <2>1. into' = into
    <3>1. CASE FanOut
      BY <3>1 DEF FanOut
    <3>2. CASE Process \/ Resolve \/ Degrade
      BY <3>2 DEF Process, Resolve, Degrade
    <3>3. CASE SelectFirst \/ CommitFinishers \/ RunSelection \/ MarkPendingWinner
      BY <3>3 DEF SelectFirst, CommitFinishers, RunSelection, MarkPendingWinner
    <3>4. CASE OrphansDone \/ Collect \/ Crash
      BY <3>4 DEF OrphansDone, Collect, Crash
    <3>5. CASE \/ RaceTimesOut \/ SelectionTimesOut \/ DispatchRepair
               \/ \E d \in Cands : Dispatch(d) \/ StartForeign(d) \/ EndForeign(d) \/ DeadLetter(d) \/ CancelRow(d)
               \/ \E t \in Tasks : StateFollows(t) \/ \E st \in {"completed", "failed"} : Report(t, st)
      BY <3>5, WorkerSteps DEF WorkersStep
    <3> QED
      BY <1>3, <3>1, <3>2, <3>3, <3>4, <3>5 DEF Next, Step
  <2> QED
    BY <2>1
<1> QED
  BY <1>1, <1>2, <1>3

\* The winner's branch is merged while its worker runs nothing, for every set
\* of faults (computeABFreeze).
THEOREM MergesOnIdleWorkers == Spec => IntakeOnIdleWorker
<1>1. Init => RaceInv /\ IdleInv
  <2>1. Init => IdleInv
    BY Names, Idle DEF Init, IdleInv
  <2> QED
    BY <2>1, RaceStarts
<1>2. RaceInv /\ IdleInv /\ [Next]_vars => (RaceInv /\ IdleInv)'
  BY RaceStep, IdleStep
<1>3. RaceInv /\ IdleInv /\ [Next]_vars =>
        [\A c \in Cands : c \in into' \ into => c \notin foreign /\ row[c] # "in_progress"]_vars
  BY MergesIdle
<1> QED
  BY <1>1, <1>2, <1>3, PTL DEF Spec, IntakeOnIdleWorker

-----------------------------------------------------------------------------
(* The race: the logical task is worked once.                              *)

\* The premise: a commit may fail if nothing else fails before or after it.
FewIfCommits == "commit" \in FaultKinds => MaxFaults \in {0, 1}

LEMMA FaultsCount == RaceInv /\ [Next]_vars => faults' \in Nat /\ (faults # 0 => faults' # 0)
<1> SUFFICES ASSUME RaceInv, [Next]_vars PROVE faults' \in Nat /\ (faults # 0 => faults' # 0)
  OBVIOUS
<1>1. faults' \in {faults, faults + 1}
  <2>1. CASE UNCHANGED vars \/ FanOut \/ RaceTimesOut \/ SelectionTimesOut \/ Collect \/ DispatchRepair
    BY <2>1 DEF vars, FanOut, RaceTimesOut, SelectionTimesOut, Collect, DispatchRepair, Fault, NoFault
  <2>2. CASE \E c \in Cands : Dispatch(c) \/ StartForeign(c) \/ EndForeign(c) \/ DeadLetter(c) \/ CancelRow(c)
    BY <2>2 DEF Dispatch, StartForeign, EndForeign, DeadLetter, CancelRow
  <2>3. CASE \E t \in Tasks : StateFollows(t) \/ \E st \in {"completed", "failed"} : Report(t, st)
    BY <2>3 DEF StateFollows, Report
  <2>4. CASE Process \/ RepairOrphans
    BY <2>4, ProcessDoes, OrphansDo
  <2>5. CASE SelectFirst \/ CommitFinishers \/ RunSelection \/ MarkPendingWinner
    BY <2>5 DEF SelectFirst, CommitFinishers, RunSelection, MarkPendingWinner, Fault, NoFault
  <2>6. CASE Intake \/ Degrade \/ Resolve \/ OrphansDone \/ Crash
    BY <2>6 DEF Intake, Degrade, Resolve, OrphansDone, Crash, Fault, NoFault
  <2> QED
    BY <2>1, <2>2, <2>3, <2>4, <2>5, <2>6 DEF Next, Step
<1>2. faults \in Nat
  BY DEF RaceInv, RaceTypeOK
<1> QED
  BY <1>1, <1>2

LEMMA MergedStep == RaceInv /\ MergedInv /\ [Next]_vars => MergedInv'
<1> SUFFICES ASSUME RaceInv, MergedInv, [Next]_vars PROVE MergedInv'
  OBVIOUS
<1>0. sc \in Scans /\ faults \in Nat /\ faults' \in Nat /\ (faults # 0 => faults' # 0)
  BY FaultsCount DEF RaceInv, RaceTypeOK
<1>1. CASE into' = into /\ (Unresolved' => Unresolved) /\ (sc.pc = "resolve" => sc'.pc = "resolve")
  BY <1>0, <1>1 DEF MergedInv
<1>2. CASE UNCHANGED vars
  BY <1>1, <1>2 DEF vars, Unresolved
<1>3. CASE \/ RaceTimesOut \/ SelectionTimesOut \/ DispatchRepair
           \/ \E c \in Cands : Dispatch(c) \/ StartForeign(c) \/ EndForeign(c) \/ DeadLetter(c) \/ CancelRow(c)
           \/ \E t \in Tasks : StateFollows(t) \/ \E st \in {"completed", "failed"} : Report(t, st)
  BY <1>1, <1>3, WorkerSteps DEF WorkersStep, Unresolved
<1>4. CASE FanOut
  BY <1>4 DEF FanOut, RaceInv, FanOutInv, MergedInv
<1>5. CASE Process \/ Collect \/ Degrade
  BY <1>1, <1>5 DEF Process, Collect, Degrade, Unresolved
<1>6. CASE SelectFirst \/ CommitFinishers \/ RunSelection \/ MarkPendingWinner
  <2>1. into' = into /\ sc.pc \in {"select", "commit", "run", "mark"}
    BY <1>6 DEF SelectFirst, CommitFinishers, RunSelection, MarkPendingWinner
  <2>2. Unresolved
    BY <2>1, AtStep
  <2> QED
    BY <1>1, <2>1, <2>2
<1>7. CASE Intake
  <2>1. g' = g /\ sc.pc = "intake"
    BY <1>7 DEF Intake
  <2>2. \/ into' = into
        \/ sc' = [[sc EXCEPT !.pc = "resolve"] EXCEPT !.how = "win"]
        \/ faults' = faults + 1
    BY <1>7 DEF Intake, Close, Fault
  <2>3. sc' = [[sc EXCEPT !.pc = "resolve"] EXCEPT !.how = "win"] => sc'.pc = "resolve"
    BY <1>0 DEF Scans
  <2>4. faults' = faults + 1 => faults' # 0
    BY <1>0
  <2> QED
    BY <1>1, <2>1, <2>2, <2>3, <2>4 DEF MergedInv, Unresolved
<1>8. CASE Resolve
  <2>1. ~Unresolved' \/ faults' = faults + 1
    BY <1>8 DEF Resolve, Fault, Unresolved
  <2>2. faults' = faults + 1 => faults' # 0
    BY <1>0
  <2> QED
    BY <2>1, <2>2 DEF MergedInv
<1>9. CASE Crash
  <2>1. faults' = faults + 1
    BY <1>9 DEF Crash, Fault
  <2>2. faults' # 0
    BY <1>0, <2>1
  <2> QED
    BY <2>2 DEF MergedInv
<1>10. CASE RepairOrphans \/ OrphansDone
  BY <1>10 DEF RepairOrphans, OrphansDone, MergedInv, Unresolved
<1> QED
  BY <1>2, <1>3, <1>4, <1>5, <1>6, <1>7, <1>8, <1>9, <1>10 DEF Next, Step

\* A step that merges nothing and leaves the group and the repair alone.
LEMMA OnceFrames ==
    ASSUME OnceInv, into' = into, conflict' = conflict, Wired' <=> Wired,
           g'.st = "absent" => g.st = "absent" /\ tag' = tag /\ sc'.tag \subseteq tag \cup sc.tag,
           Unresolved' => Unresolved /\ g'.pend = g.pend,
           sc'.pc = "degrade" => sc.pc = "degrade" \/ into = {}
    PROVE  OnceInv'
  BY DEF OnceInv

LEMMA OnceSelects ==
    ASSUME RaceInv, OnceInv, MergedInv, FewIfCommits, SelectFirst PROVE OnceInv'
<1>1. /\ UNCHANGED <<ts, tag, into, conflict>> /\ sc.pc = "select" /\ sc \in Scans /\ g \in Groups
      /\ into \subseteq Cands /\ Unresolved /\ faults \in Nat
  BY AtStep DEF SelectFirst
<1>2. /\ g' = g \/ g' = [g EXCEPT !.st = "selecting"]
      /\ sc'.pc = "degrade" => Wired \/ g.pend = None \/ into = {}
  <2>1. CASE sc.fin = {} /\ Close("both failed") /\ UNCHANGED <<g, late, work, faults>>
    <3>1. sc'.pc = "resolve"
      BY <1>1, <2>1 DEF Close, Scans
    <3> QED
      BY <2>1, <3>1
  <2>2. CASE sc.fin # {} /\ RepairIsWired /\ Goto("degrade") /\ UNCHANGED <<g, late, work, faults>>
    BY <2>2 DEF RepairIsWired
  <2>3. CASE sc.fin # {} /\ ~RepairIsWired /\ WinnerIsPending /\ SelectFirst
    <3>1. \/ g' = g /\ \E w \in Cands : sc' = [[sc EXCEPT !.pc = "mark"] EXCEPT !.win = w]
          \/ g' = g /\ Fault("commit")
      <4>1. g.pend \in Cands
        BY <1>1, <2>3 DEF WinnerIsPending, Groups
      <4> QED
        BY <2>3, <4>1 DEF SelectFirst
    <3>2. CASE g' = g /\ \E w \in Cands : sc' = [[sc EXCEPT !.pc = "mark"] EXCEPT !.win = w]
      <4>1. sc'.pc = "mark"
        BY <1>1, <3>2 DEF Scans
      <4> QED
        BY <3>2, <4>1
    <3>3. CASE g' = g /\ Fault("commit")
      <4>1. faults = 0
        BY <1>1, <3>3 DEF Fault, FewIfCommits
      <4> QED
        BY <1>1, <3>3, <4>1 DEF MergedInv
    <3> QED
      BY <3>1, <3>2, <3>3
  <2>4. CASE sc.fin # {} /\ ~RepairIsWired /\ ~WinnerIsPending /\ SelectFirst
    BY <2>4 DEF SelectFirst, WinnerIsPending
  <2> QED
    BY <2>1, <2>2, <2>3, <2>4 DEF SelectFirst
<1>3. g'.pend = g.pend /\ g'.st # "absent"
  BY <1>1, <1>2 DEF Groups, Unresolved
<1>4. Wired' <=> Wired
  BY <1>1 DEF Wired
<1>5. Wired \/ g.pend = None \/ into = {} => into = {}
  BY <1>1, Names DEF OnceInv
<1> QED
  BY <1>1, <1>2, <1>3, <1>4, <1>5, OnceFrames

LEMMA OnceMarks ==
    ASSUME RaceInv, OnceInv, MarkPendingWinner PROVE OnceInv'
<1>1. /\ UNCHANGED <<ts, tag, into, conflict>> /\ sc.pc = "mark" /\ sc \in Scans /\ g \in Groups
      /\ into \subseteq Cands /\ Unresolved
      /\ \/ g.pend \in {None, sc.win} /\ g' = [g EXCEPT !.pend = sc.win] /\ sc' = [sc EXCEPT !.pc = "intake"]
         \/ g' = g /\ sc' = IdleScan
  BY AtStep DEF MarkPendingWinner, AfterMark, Goto, GiveUp
<1>2. Wired' <=> Wired
  BY <1>1 DEF Wired
<1>3. CASE g' = g /\ sc' = IdleScan
  BY <1>1, <1>2, <1>3, Idle, OnceFrames DEF Unresolved
<1>4. CASE g.pend \in {None, sc.win} /\ g' = [g EXCEPT !.pend = sc.win] /\ sc' = [sc EXCEPT !.pc = "intake"]
  <2>1. g'.st = g.st /\ g'.pend = sc.win /\ g'.st # "absent" /\ sc'.pc = "intake"
    BY <1>1, <1>4 DEF Groups, Unresolved, Scans
  <2>2. into \subseteq {sc.win}
    BY <1>1, <1>4, Names DEF OnceInv
  <2> QED
    BY <1>1, <1>2, <2>1, <2>2 DEF OnceInv
<1> QED
  BY <1>1, <1>3, <1>4

LEMMA OnceMerges ==
    ASSUME RaceInv, OnceInv, Intake PROVE OnceInv'
<1>1. /\ UNCHANGED <<g, ts, tag, conflict>> /\ sc.pc = "intake" /\ sc \in Scans
      /\ into \subseteq Cands /\ Unresolved /\ g.pend = sc.win /\ ~Wired /\ g.st # "absent"
  BY AtStep DEF Intake, RaceInv, DecisionInv
<1>2. Wired' <=> Wired
  BY <1>1 DEF Wired
<1>3. into \subseteq {sc.win}
  BY <1>1 DEF OnceInv
<1>4. \/ /\ sc.win \notin conflict /\ into' = into \cup {sc.win}
         /\ sc' = IdleScan \/ sc' = [[sc EXCEPT !.pc = "resolve"] EXCEPT !.how = "win"]
      \/ sc.win \in conflict /\ into' = into /\ sc' = [sc EXCEPT !.pc = "degrade"]
      \/ into' = into /\ sc' = IdleScan
  BY DEF Intake, CommitAndMerge, Close, Goto, GiveUp
<1>5. CASE /\ sc.win \notin conflict /\ into' = into \cup {sc.win}
           /\ sc' = IdleScan \/ sc' = [[sc EXCEPT !.pc = "resolve"] EXCEPT !.how = "win"]
  <2>1. sc'.pc # "degrade"
    BY <1>1, <1>5, Idle DEF Scans
  <2> QED
    BY <1>1, <1>2, <1>3, <1>5, <2>1 DEF OnceInv, Unresolved
<1>6. CASE sc.win \in conflict /\ into' = into /\ sc' = [sc EXCEPT !.pc = "degrade"]
  <2>1. into = {}
    BY <1>3, <1>6 DEF OnceInv
  <2> QED
    BY <1>1, <1>2, <1>6, <2>1, OnceFrames DEF Unresolved
<1>7. CASE into' = into /\ sc' = IdleScan
  BY <1>1, <1>2, <1>7, Idle, OnceFrames DEF Unresolved
<1> QED
  BY <1>4, <1>5, <1>6, <1>7

LEMMA OnceOrphans ==
    ASSUME RaceInv, OnceInv, RepairOrphans PROVE OnceInv'
<1>1. g.st = "absent" /\ g' = g /\ conflict' = conflict /\ sc.pc = "process"
  BY OrphansDo
<1>2. PICK c \in Cands :
        /\ c \in sc.tag /\ sc' = [sc EXCEPT !.tag = sc.tag \ {c}]
        /\ \/ UNCHANGED <<ts, into>> /\ tag' \in {tag, tag \ {c}}
           \/ c = Canonical /\ c \notin conflict /\ ts' = ts /\ into' = into \cup {c} /\ tag' = tag \ {c}
           \/ c = Canonical /\ c \in conflict /\ into' = into /\ tag' = tag \ {c}
  BY OrphansDo
<1>3. sc'.tag = sc.tag \ {c} /\ sc'.pc = "process"
  BY <1>1, <1>2 DEF RaceInv, RaceTypeOK, Scans
<1>4. into \subseteq {Canonical} /\ ~Unresolved
  BY <1>1 DEF OnceInv, Unresolved
<1>5. CASE UNCHANGED <<ts, into>> /\ tag' \in {tag, tag \ {c}}
  <2>1. Wired' <=> Wired
    BY <1>5 DEF Wired
  <2> QED
    BY <1>1, <1>3, <1>4, <1>5, <2>1 DEF OnceInv, Unresolved
<1>6. CASE c = Canonical /\ c \notin conflict /\ ts' = ts /\ into' = into \cup {c} /\ tag' = tag \ {c}
  <2>1. ~Wired /\ ~Wired'
    BY <1>1, <1>2, <1>6 DEF OnceInv, Wired
  <2> QED
    BY <1>1, <1>3, <1>4, <1>6, <2>1 DEF OnceInv, Unresolved
<1>7. CASE c = Canonical /\ c \in conflict /\ into' = into /\ tag' = tag \ {c}
  <2>1. into = {}
    BY <1>4, <1>7 DEF OnceInv
  <2> QED
    BY <1>1, <1>3, <1>4, <1>7, <2>1 DEF OnceInv, Unresolved
<1> QED
  BY <1>2, <1>5, <1>6, <1>7

LEMMA OnceStep ==
    ASSUME FewIfCommits PROVE RaceInv /\ OnceInv /\ MergedInv /\ [Next]_vars => OnceInv'
<1> SUFFICES ASSUME RaceInv, OnceInv, MergedInv, [Next]_vars PROVE OnceInv'
  OBVIOUS
<1>0. /\ sc \in Scans /\ g \in Groups /\ into \subseteq Cands /\ ts \in [Tasks -> TaskStates]
  BY DEF RaceInv, RaceTypeOK
<1>1. CASE UNCHANGED vars
  BY <1>1, OnceFrames DEF vars, Wired, Unresolved
<1>2. CASE \/ RaceTimesOut \/ SelectionTimesOut \/ DispatchRepair
           \/ \E c \in Cands : Dispatch(c) \/ StartForeign(c) \/ EndForeign(c) \/ DeadLetter(c) \/ CancelRow(c)
           \/ \E t \in Tasks : StateFollows(t) \/ \E st \in {"completed", "failed"} : Report(t, st)
  <2>1. WorkersStep
    BY <1>2, WorkerSteps
  <2>2. UNCHANGED <<g, tag, into, conflict, sc>> /\ (Wired' <=> Wired)
    BY <2>1, Names DEF WorkersStep, Wired
  <2> QED
    BY <2>2, OnceFrames DEF Unresolved
<1>3. CASE FanOut
  <2>1. into = {} /\ ~fanned /\ g.st = "absent" /\ sc.pc = "idle" /\ ~Wired
    BY <1>3 DEF FanOut, RaceInv, FanOutInv
  <2>2. into' = {} /\ conflict' = conflict /\ sc'.pc = "idle" /\ ts'[Repair] = ts[Repair]
    <3>1. into' = into /\ conflict' = conflict /\ sc' \in {sc, IdleScan}
      BY <1>3 DEF FanOut
    <3>2. ts' = ts \/ ts' = [ts EXCEPT ![Shadow] = ts[Canonical]]
      BY <1>3 DEF FanOut, Register
    <3>3. ts'[Repair] = ts[Repair]
      BY <1>0, <3>2, Names
    <3> QED
      BY <2>1, <3>1, <3>3, Idle
  <2> QED
    BY <2>1, <2>2 DEF OnceInv, Wired
<1>4. CASE Process
  <2>1. UNCHANGED <<g, tag, into, conflict>> /\ g.st # "absent" /\ ts'[Repair] = ts[Repair]
    BY <1>4, ProcessDoes
  <2>2. sc'.pc # "degrade"
    BY <1>0, <1>4, ProcessGoes, Idle DEF Scans
  <2> QED
    BY <2>1, <2>2, OnceFrames DEF Wired, Unresolved
<1>5. CASE SelectFirst \/ MarkPendingWinner \/ Intake \/ RepairOrphans
  BY <1>5, OnceSelects, OnceMarks, OnceMerges, OnceOrphans
<1>6. CASE CommitFinishers \/ RunSelection
  <2>1. UNCHANGED <<g, ts, tag, into, conflict>> /\ sc.pc \in {"commit", "run"}
    BY <1>6 DEF CommitFinishers, RunSelection
  <2>2. g.pend = None /\ Unresolved /\ g.st # "absent"
    BY <2>1, AtStep DEF RaceInv, DecisionInv
  <2>3. into = {}
    BY <1>0, <2>2, Names DEF OnceInv
  <2> QED
    BY <2>1, <2>2, <2>3, OnceFrames DEF Wired, Unresolved
<1>7. CASE OrphansDone \/ Crash
  <2>1. UNCHANGED <<g, ts, tag, into, conflict>> /\ sc' = IdleScan
    BY <1>7 DEF OrphansDone, Crash, GiveUp
  <2> QED
    BY <2>1, Idle, OnceFrames DEF Wired, Unresolved
<1>8. CASE Collect
  <2>1. UNCHANGED <<g, ts, tag, into, conflict>>
        /\ sc' = [[[IdleScan EXCEPT !.pc = "process"] EXCEPT !.row = [c \in Cands |-> row[c]]] EXCEPT !.tag = tag]
    BY <1>8 DEF Collect, IdleScan
  <2>2. sc'.pc = "process" /\ sc'.tag = tag
    BY <2>1, Idle DEF Scans
  <2> QED
    BY <2>1, <2>2, OnceFrames DEF Wired, Unresolved
<1>9. CASE Degrade
  <2>1. UNCHANGED <<g, tag, into, conflict>> /\ sc.pc = "degrade" /\ into = {}
    BY <1>9 DEF Degrade, OnceInv
  <2>2. g.st # "absent"
    BY <2>1, AtStep
  <2> QED
    BY <2>1, <2>2 DEF OnceInv, Unresolved
<1>10. CASE Resolve
  <2>1. UNCHANGED <<tag, into, conflict>> /\ sc' = IdleScan /\ sc.pc = "resolve"
        /\ \/ UNCHANGED <<g, ts>>
           \/ g' = [st |-> "resolved", pend |-> None, winner |-> sc.win] /\ ts' \in {WinStates, LossStates}
           \/ g' = [st |-> "degraded", pend |-> None, winner |-> None] /\ ts' \in {WinStates, LossStates}
    BY <1>10 DEF Resolve, GiveUp
  <2>2. g.st # "absent" /\ Unresolved
    BY <2>1, AtStep
  <2>3. CASE UNCHANGED <<g, ts>>
    BY <2>1, <2>2, <2>3, Idle, OnceFrames DEF Wired, Unresolved
  <2>4. CASE g'.st \in {"resolved", "degraded"} /\ ts' \in {WinStates, LossStates}
    <3>1. ts'[Repair] # "absent" <=> ts[Repair] # "absent"
      <4>1. CASE ts' = LossStates
        BY <4>1, Names DEF LossStates
      <4>2. CASE ts' = WinStates
        BY <4>2, Names DEF WinStates, Other, Repair, Shadow
      <4> QED
        BY <2>4, <4>1, <4>2
    <3> QED
      BY <2>1, <2>2, <2>4, <3>1, Idle, OnceFrames DEF Wired, Unresolved
  <2>5. \/ UNCHANGED <<g, ts>>
        \/ g'.st \in {"resolved", "degraded"} /\ ts' \in {WinStates, LossStates}
    BY <2>1
  <2> QED
    BY <2>3, <2>4, <2>5
<1> QED
  BY <1>1, <1>2, <1>3, <1>4, <1>5, <1>6, <1>7, <1>8, <1>9, <1>10 DEF Next, Step

\* At most one execution of the logical task reaches the branches.
LEMMA OnceIsOnce == RaceInv /\ OnceInv => WorkedOnce
<1> SUFFICES ASSUME RaceInv, OnceInv PROVE WorkedOnce
  OBVIOUS
<1>1. Cardinality(into) <= 1
  <2>1. CASE into = {}
    BY <2>1, FS_EmptySet
  <2>2. CASE into # {}
    <3>1. PICK c \in into : TRUE
      BY <2>2
    <3>2. into = {c}
      BY <3>1 DEF OnceInv
    <3>3. Cardinality(into) = 1
      BY <3>2, FS_Singleton
    <3> QED
      BY <3>3
  <2> QED
    BY <2>1, <2>2
<1>2. into # {} => Repair \notin direct
  BY DEF RaceInv, RowInv, OnceInv
<1> QED
  BY <1>1, <1>2 DEF WorkedOnce

\* The logical task is worked once (runABSelectionAndResolve), its work is where
\* it counts and one candidate is left, whatever fails and how often; if the
\* commit of a candidate's worktree is among what fails, for a single fault.
\* With two, a merge that was not written down yet, then a commit that fails
\* past the deadline, hand a merged task to a repair.
THEOREM RaceSound ==
    ASSUME FewIfCommits PROVE Spec => []RaceIsSound
<1>1. Init => RaceInv /\ OnceInv /\ MergedInv
  <2>1. Init => OnceInv /\ MergedInv
    <3> SUFFICES ASSUME Init PROVE OnceInv /\ MergedInv
      OBVIOUS
    <3>1. into = {} /\ tag = {} /\ sc = IdleScan /\ ~Wired
      BY Names DEF Init, Wired
    <3> QED
      BY <3>1, Idle DEF OnceInv, MergedInv
  <2> QED
    BY <2>1, RaceStarts
<1>2. RaceInv /\ OnceInv /\ MergedInv /\ [Next]_vars => (RaceInv /\ OnceInv /\ MergedInv)'
  BY RaceStep, OnceStep, MergedStep
<1>3. RaceInv /\ OnceInv /\ MergedInv => RaceIsSound
  BY WorkCounts, OnceIsOnce DEF RaceIsSound
<1> QED
  BY <1>1, <1>2, <1>3, PTL DEF Spec

==============================================================================
