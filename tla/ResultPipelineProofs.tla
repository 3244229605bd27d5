------------------------ MODULE ResultPipelineProofs ------------------------
(***************************************************************************)
(* Theorems about ResultPipeline, for any length of the lineage, all        *)
(* budgets, every setup and any number of faults of every kind, unless a    *)
(* hypothesis says otherwise.                                               *)
(***************************************************************************)
EXTENDS ResultPipeline, FiniteSetTheorems, WellFoundedInduction, TLAPS

-----------------------------------------------------------------------------
(* Walks of a bounded length, for the retry chains.  They rest on the least *)
(* number principle, which needs no induction over an operator: a set of    *)
(* naturals that is not empty has a least element.                          *)

Below == {p \in Nat \X Nat : p[1] < p[2]}

\* What holds at the start of an interval, and after n whenever it holds at n,
\* holds everywhere in it.
LEMMA StepByStep ==
    ASSUME NEW N \in Nat, NEW Good \in SUBSET (0 .. N), 0 \in Good,
           \A n \in 1 .. N : n - 1 \in Good => n \in Good
    PROVE  Good = 0 .. N
<1> SUFFICES ASSUME Good # 0 .. N PROVE FALSE
  OBVIOUS
<1> DEFINE T == (0 .. N) \ Good
<1>1. T \in SUBSET Nat /\ T # {}
  <2>1. 0 .. N \subseteq Nat
    OBVIOUS
  <2> QED
    BY <2>1
<1>2. PICK x \in T : \A y \in T : x <= y
  <2>1. IsWellFoundedOn(Below, Nat)
    BY NatLessThanWellFounded, Zenon DEF OpToRel, Below
  <2> HIDE DEF T
  <2>2. PICK x \in T : \A y \in T : <<y, x>> \notin Below
    BY <1>1, <2>1, WFMin
  <2>3. \A y \in T : ~(y < x)
    BY <1>1, <2>2 DEF Below
  <2> QED
    BY <1>1, <2>3
<1>3. x \in 1 .. N /\ x - 1 \in 0 .. N
  BY <1>2
<1>4. x - 1 \in Good
  BY <1>2, <1>3
<1> QED
  BY <1>2, <1>3, <1>4

\* The walk of n steps from x along h, all in S.
HasWalk(n, S, x, h) ==
    \E g \in [0 .. n -> S] : g[0] = x /\ \A i \in 1 .. n : g[i] = h[g[i - 1]]

\* A function on a set can be iterated from any of its points.
LEMMA Iterates ==
    ASSUME NEW N \in Nat, NEW S, NEW x \in S, NEW h \in [S -> S]
    PROVE  HasWalk(N, S, x, h)
<1> DEFINE Walks(g, k) == g[0] = x /\ \A n \in 1 .. k : g[n] = h[g[n - 1]]
           Good == {k \in 0 .. N : \E g \in [0 .. k -> S] : Walks(g, k)}
<1>1. 0 \in Good
  <2> DEFINE f == [n \in 0 .. 0 |-> x]
  <2>1. f \in [0 .. 0 -> S] /\ f[0] = x /\ 1 .. 0 = {} /\ 0 \in 0 .. N
    OBVIOUS
  <2> HIDE DEF f
  <2>2. Walks(f, 0)
    BY <2>1
  <2> QED
    BY <2>1, <2>2
<1>2. ASSUME NEW k \in 1 .. N, k - 1 \in Good PROVE k \in Good
  <2>1. PICK g \in [0 .. k - 1 -> S] : Walks(g, k - 1)
    BY <1>2
  <2> DEFINE f == [n \in 0 .. k |-> IF n = k THEN h[g[k - 1]] ELSE g[n]]
  <2>2. k - 1 \in 0 .. k - 1 /\ 0 \in 0 .. k /\ 0 # k
    OBVIOUS
  <2>3. h[g[k - 1]] \in S
    BY <2>2
  <2>4. f \in [0 .. k -> S]
    BY <2>3
  <2>5. /\ f[k] = h[g[k - 1]] /\ f[0] = x
        /\ \A n \in 0 .. k - 1 : f[n] = g[n]
    BY <2>1, <2>2
  <2> HIDE DEF f
  <2>6. ASSUME NEW n \in 1 .. k PROVE f[n] = h[f[n - 1]]
    <3>1. CASE n = k
      BY <3>1, <2>2, <2>5
    <3>2. CASE n # k
      <4>1. n \in 1 .. k - 1 /\ n \in 0 .. k - 1 /\ n - 1 \in 0 .. k - 1
        BY <3>2
      <4> QED
        BY <4>1, <2>1, <2>5
    <3> QED
      BY <3>1, <3>2
  <2>7. Walks(f, k) /\ k \in 0 .. N
    BY <2>5, <2>6
  <2> QED
    BY <2>4, <2>7
<1> HIDE DEF Good
<1>3. Good \in SUBSET (0 .. N)
  BY DEF Good
<1>4. N \in Good
  BY <1>1, <1>2, <1>3, StepByStep
<1> QED
  BY <1>4 DEF Good, HasWalk

-----------------------------------------------------------------------------
(* Types.                                                                   *)

Budget == [faults : Nat, limit : Nat, planner : BOOLEAN]

\* Everything but the backoff counter, which is a power of two.  A row is never
\* dead_letter: it is deleted.
TypeInv ==
    /\ state \in CommandState /\ clock \in Clock
    /\ rows \in [Ids -> Row] /\ results \in [Ids -> ResultEntry]
    /\ handlers \in [Ids -> Handler]
    /\ \A t \in Ids : handlers[t].sync # "dead_letter"
    /\ nextID \in 1 .. MaxTasks /\ suspects \subseteq Ids /\ verified \subseteq Ids
    /\ budget \in Budget

-----------------------------------------------------------------------------
(* The inductive invariant.                                                *)

\* A row that has been settled: it is never deleted and never leased again.
Done == {"completed", "failed", "cancelled"}

\* What goes together in the entries of one task: its status, row, result,
\* handler, the age of the result and whether it has been applied.
Fits(st, row, res, h, age, applied) ==
    /\ row.retries <= MaxRetries
    /\ st \in {"verify_pending", "completed"} => res.status = "completed"
    /\ res.status = "completed" => row.status \in Done
    /\ res.status = "none" => age = 0 /\ ~res.stamped
    /\ res.stamped => st \notin {"planned", "verify_pending"}
    /\ h.step # "none" => row.status \in Done /\ res.status # "none" /\ st # "none"
    /\ h.step = "phaseB" => /\ ~applied /\ age = 0 /\ ~res.stamped /\ st # "verify_pending"
                            /\ h.replacement # NoTask =>
                                 res.status = "failed" /\ row.retries < MaxRetries
    /\ h.step = "register" =>
         /\ st \in TerminalStatuses /\ row.retries < MaxRetries /\ h.replacement # NoTask
         /\ res.status = "failed"
    /\ h.step \notin {"phaseB", "register"} => h.replacement = NoTask
    /\ h.step = "repair" => st \notin {"planned", "verify_pending", "completed"}

TaskFits(t) == Fits(state.status[t], rows[t], results[t], handlers[t], clock.age[t],
                    t \in state.applied)

\* No file and no handler knows the task.
Blank(t) ==
    /\ state.status[t] = "none" /\ rows[t].status = "absent" /\ results[t].status = "none"
    /\ handlers[t].step = "none" /\ state.marker[t] = -1

\* A task that has been created and not registered belongs to one handler.
Reserved(t) ==
    LET r == handlers[t].replacement
    IN  r # NoTask => /\ t < r /\ r < nextID /\ Blank(r)
                      /\ \A u \in Ids : handlers[u].replacement = r => u = t

\* The row of a marked task's predecessor is settled, and it may be retried.
Linked(t) ==
    LET p == state.lineage[t]
    IN  state.marker[t] >= 0 =>
            p \in Ids /\ rows[p].status \in Done /\ rows[p].retries < MaxRetries

FilesInv ==
    /\ \A t \in Ids : t >= nextID => Blank(t)
    /\ \A t \in Ids : TaskFits(t) /\ Reserved(t) /\ Linked(t)

\* An attempt is under way or may still be started from the task.
MayRun(t) ==
    \/ rows[t].status = "live"
    \/ state.status[t] = "verify_pending"
    \/ state.marker[t] >= 0 /\ rows[t].status = "absent"
    \/ handlers[t].step \in {"phaseB", "register", "repair"}

\* The tasks of the plan form one chain from the root, each younger than the one
\* it replaces, and m is its last link.
ChainEndsAt(m) ==
    /\ state.required \cup state.optional = {m}
    /\ state.required \cap state.optional = {}
    /\ state.status[m] # "none" /\ state.status[0] # "none"
    /\ \A t \in Ids : MayRun(t) => t = m
    /\ \A t \in Ids : state.lineage[t] # NoTask =>
          /\ state.status[t] # "none" /\ state.status[state.lineage[t]] # "none"
          /\ state.lineage[t] < t
    /\ \A t \in Ids : state.lineage[t] # m
    /\ \A t \in Ids \ {m} : state.status[t] # "none" =>
          \E d \in Ids : \A e \in Ids : state.lineage[e] = t <=> e = d

\* The work of the slot's required tasks is done.
PhaseDone(s) == \A t \in s.required \cap s.phaseTasks : s.status[t] = "completed"

\* A required task is known and has not been replaced, whoever replaces tasks;
\* a completed phase stays done.
MembersInv ==
    /\ \A t \in state.required : /\ state.status[t] # "none"
                                 /\ \A d \in Ids : state.lineage[d] # t
    /\ \A t \in state.phaseTasks : state.status[t] # "none"
    /\ \A d \in Ids : state.lineage[d] # NoTask => state.status[state.lineage[d]] # "none"
    /\ state.phase = "completed" => PhaseDone(state)

OneInv == ~budget.planner => \E m \in Ids : ChainEndsAt(m)

\* No write is lost, so a recorded result is in the state or in its handler.
NothingLost ==
    budget.faults = 0 =>
        \A t \in Ids :
            /\ state.marker[t] = -1
            /\ results[t].status # "none" /\ state.status[t] = "planned"
                  => handlers[t].step = "phaseB"
            /\ rows[t].gated /\ state.status[t] = "completed" => t \in verified


-----------------------------------------------------------------------------
(* What a step does to a task.                                              *)

\* The status is kept, or the task is closed or handed to another pipeline.
StatusMoves(x, y) ==
    \/ y = x
    \/ /\ y \notin {"none", "planned", "verify_pending"}
       /\ x \in TerminalStatuses => y \in TerminalStatuses

RowSettles(t) == rows[t].status \in Done =>
    rows'[t].status \in Done /\ rows'[t].retries = rows[t].retries

\* A bystander: its handler goes on or is forgotten, and a stamp or an entry in
\* applied_result_ids comes only with a result that has aged.
Bystands(t) ==
    /\ StatusMoves(state.status[t], state'.status[t])
    /\ state'.status[t] = "completed" =>
         \/ state.status[t] = "completed"
         \/ state.status[t] = "planned" /\ results[t].status = "completed"
    /\ results'[t].status = "completed" => results[t].status = "completed"
    /\ rows'[t].retries <= MaxRetries
    /\ handlers'[t] = handlers[t] \/ handlers'[t] = NoHandler
    /\ results[t].status # "none" => results'[t].status = results[t].status
    /\ results'[t].stamped =>
         \/ results[t].stamped
         \/ /\ results[t].status # "none" /\ clock.age[t] > 0
            /\ state'.status[t] \notin {"planned", "verify_pending"}
    /\ \/ clock'.age[t] = clock.age[t]
       \/ results[t].status # "none" /\ handlers[t].step # "phaseB"
    /\ t \in state'.applied => t \in state.applied \/ clock.age[t] > 0

StaysBlank(t) == Blank(t) => Blank(t)'

MarkerStays(t) ==
    state'.marker[t] >= 0 => state.marker[t] >= 0 /\ state'.lineage[t] = state.lineage[t]

\* A terminal status stays terminal, and stays as it is without a marker or when
\* it is completed.
TerminalKept(t) ==
    IsTerminal(state.status[t]) =>
        /\ IsTerminal(state'.status[t])
        /\ state.marker[t] = -1 \/ state.status[t] = "completed" =>
              state'.status[t] = state.status[t]

\* The step leaves the members of the phase alone and completes it only when
\* their work is done.
PhaseRests ==
    /\ state'.phaseTasks = state.phaseTasks
    /\ state'.phase = "completed" => state.phase = "completed" \/ PhaseDone(state')

StaysKnown(t) == state.status[t] # "none" => state'.status[t] # "none"

\* A marker is set only when both files could not be written.
MarkerComes(t) ==
    state'.marker[t] >= 0 => state.marker[t] >= 0 \/ {"queue", "state"} \subseteq FaultKinds

LEMMA IdsAre == /\ Ids \subseteq Nat /\ 0 \in Ids /\ NoTask \notin Ids /\ NoTask \in Int
                /\ MaxTasks \in Nat /\ MaxRetries \in Nat \ {0} /\ MaxEnqueue \in Nat
                /\ MaxPasses \in Nat \ {0}
BY TaskBoundAssumption, RetryAssumption DEF Ids, NoTask

LEMMA BystanderFits ==
    ASSUME NEW t \in Ids, TypeInv, TypeInv', TaskFits(t), Bystands(t), RowSettles(t)
    PROVE  TaskFits(t)'
<1>1. /\ clock.age[t] \in 0 .. 2 /\ clock'.age[t] \in 0 .. 2
      /\ rows[t].retries \in Nat /\ rows'[t].retries \in Nat
  BY DEF TypeInv, Clock, Row
<1> DEFINE st == state.status[t]  st2 == state'.status[t]
           row == rows[t]  row2 == rows'[t]  res == results[t]  res2 == results'[t]
           h == handlers[t]  h2 == handlers'[t]  age == clock.age[t]  age2 == clock'.age[t]
           ap == t \in state.applied  ap2 == t \in state'.applied
<1>2. Fits(st, row, res, h, age, ap)
  BY DEF TaskFits
<1>3. /\ StatusMoves(st, st2) /\ row2.retries <= MaxRetries
      /\ h2 = h \/ h2 = NoHandler
      /\ res.status # "none" => res2.status = res.status
      /\ row.status \in Done => row2.status \in Done /\ row2.retries = row.retries
  BY DEF Bystands, RowSettles
<1>10. /\ st2 = "completed" =>
            \/ st = "completed"
            \/ st = "planned" /\ res.status = "completed"
       /\ res2.status = "completed" => res.status = "completed"
  BY DEF Bystands
<1>4. /\ res2.stamped => \/ res.stamped
                         \/ /\ res.status # "none" /\ age > 0
                            /\ st2 \notin {"planned", "verify_pending"}
      /\ age2 = age \/ (res.status # "none" /\ h.step # "phaseB")
      /\ ap2 => ap \/ age > 0
  BY DEF Bystands
<1>5. NoHandler.step = "none" /\ NoHandler.replacement = NoTask
  BY DEF NoHandler
<1> HIDE DEF st, st2, row, row2, res, res2, h, h2, age, age2, ap, ap2
<1>6. /\ res2.status = "none" => age2 = 0 /\ ~res2.stamped
      /\ res2.stamped => st2 \notin {"planned", "verify_pending"}
  BY <1>2, <1>3, <1>4 DEF Fits, StatusMoves
<1>11. st2 \in {"verify_pending", "completed"} => res2.status = "completed"
  <2>1. st2 = "verify_pending" => st = "verify_pending"
    BY <1>3 DEF StatusMoves
  <2> QED
    BY <1>2, <1>3, <1>10, <2>1 DEF Fits
<1>12. res2.status = "completed" => row2.status \in Done
  BY <1>2, <1>3, <1>10 DEF Fits
<1>7. h2 = h => Fits(st2, row2, res2, h2, age2, ap2)
  <2> SUFFICES ASSUME h2 = h PROVE Fits(st2, row2, res2, h, age2, ap2)
    OBVIOUS
  <2>1. h.step # "none" => row2.status \in Done /\ row2.retries = row.retries
                           /\ res2.status = res.status /\ res.status # "none" /\ st2 # "none"
    BY <1>2, <1>3 DEF Fits, StatusMoves
  <2>2. h.step = "phaseB" => ~ap2 /\ age2 = 0 /\ ~res2.stamped /\ st2 # "verify_pending"
    BY <1>2, <1>3, <1>4 DEF Fits, StatusMoves
  <2>3. h.step = "phaseB" /\ h.replacement # NoTask =>
            res2.status = "failed" /\ row2.retries < MaxRetries
    BY <1>2, <2>1 DEF Fits
  <2>4. h.step = "register" =>
           /\ st2 \in TerminalStatuses /\ row2.retries < MaxRetries /\ h.replacement # NoTask
           /\ res2.status = "failed"
    BY <1>2, <1>3, <2>1 DEF Fits, StatusMoves
  <2>5. h.step = "repair" => st2 \notin {"planned", "verify_pending", "completed"}
    BY <1>2, <1>3, <1>10 DEF Fits, StatusMoves
  <2>6. h.step \notin {"phaseB", "register"} => h.replacement = NoTask
    BY <1>2 DEF Fits
  <2> QED
    BY <1>3, <1>6, <1>11, <1>12, <2>1, <2>2, <2>3, <2>4, <2>5, <2>6 DEF Fits
<1>8. h2 = NoHandler => Fits(st2, row2, res2, h2, age2, ap2)
  BY <1>3, <1>5, <1>6, <1>11, <1>12 DEF Fits
<1>9. Fits(st2, row2, res2, h2, age2, ap2)
  BY <1>3, <1>7, <1>8
<1> QED
  BY <1>9 DEF TaskFits, st2, row2, res2, h2, age2, ap2


\* A handler keeps what it has reserved, drops it, or reserves a fresh ID.
Reserves(t) ==
    \/ handlers'[t].replacement \in {NoTask, handlers[t].replacement}
    \/ handlers'[t].replacement = nextID /\ nextID' = nextID + 1

\* One step: own is the task whose handler runs or which the scan repairs, new
\* the task it creates; all others stand by.
LEMMA FilesStep ==
    ASSUME TypeInv, TypeInv', FilesInv,
           NEW own, NEW new,
           nextID' \in {nextID, nextID + 1},
           \A t \in Ids \ {own, new} : Bystands(t),
           \A t \in Ids \ {new} : StaysBlank(t) /\ MarkerStays(t),
           \A t \in Ids : RowSettles(t),
           own \in Ids => TaskFits(own)' /\ Reserves(own),
           new \in Ids => /\ new < nextID' /\ TaskFits(new)' /\ Linked(new)'
                          /\ handlers'[new].replacement = NoTask
                          /\ \A t \in Ids : handlers'[t].replacement # new
    PROVE  FilesInv'
<1>0. nextID \in Nat /\ nextID' \in Nat /\ Ids \subseteq Nat /\ NoTask \notin Ids
  BY IdsAre DEF TypeInv
<1>1. ASSUME NEW t \in Ids PROVE t >= nextID' => Blank(t)'
  <2> SUFFICES ASSUME t >= nextID' PROVE Blank(t)'
    OBVIOUS
  <2>1. t >= nextID /\ t # new
    BY <1>0
  <2> QED
    BY <2>1 DEF FilesInv, StaysBlank
<1>2. ASSUME NEW t \in Ids PROVE TaskFits(t)'
  BY BystanderFits DEF FilesInv
<1>3. ASSUME NEW t \in Ids PROVE Linked(t)'
  <2> DEFINE p == state.lineage[t]
  <2>1. CASE t = new
    BY <2>1
  <2>2. CASE t # new /\ state'.marker[t] >= 0
    <3>1. state.marker[t] >= 0 /\ state'.lineage[t] = p
      BY <2>2 DEF MarkerStays
    <3>2. p \in Ids /\ rows[p].status \in Done /\ rows[p].retries < MaxRetries
      BY <3>1 DEF FilesInv, Linked
    <3>3. rows'[p].status \in Done /\ rows'[p].retries = rows[p].retries
      BY <3>2 DEF RowSettles
    <3> HIDE DEF p
    <3> QED
      BY <3>1, <3>2, <3>3 DEF Linked
  <2>3. CASE t # new /\ ~(state'.marker[t] >= 0)
    BY <2>3 DEF Linked
  <2> QED
    BY <2>1, <2>2, <2>3
<1>4. ASSUME NEW t \in Ids
      PROVE  /\ t # own => handlers'[t].replacement \in {NoTask, handlers[t].replacement}
             /\ handlers'[t].replacement \in Ids \cup {NoTask}
  <2>1. handlers' \in [Ids -> Handler]
    BY DEF TypeInv
  <2>2. handlers'[t].replacement \in Ids \cup {NoTask}
    BY <2>1 DEF Handler
  <2>3. CASE t = new
    BY <2>2, <2>3
  <2>4. CASE t # own /\ t # new
    <3>1. handlers'[t] = handlers[t] \/ handlers'[t] = NoHandler
      BY <2>4 DEF Bystands
    <3> QED
      BY <3>1, <2>2 DEF NoHandler
  <2> QED
    BY <2>2, <2>3, <2>4
<1>5. ASSUME NEW t \in Ids PROVE Reserved(t)'
  <2> SUFFICES ASSUME NEW r \in Ids, handlers'[t].replacement = r
               PROVE  /\ t < r /\ r < nextID' /\ Blank(r)'
                      /\ \A u \in Ids : handlers'[u].replacement = r => u = t
    BY <1>4 DEF Reserved, Blank
  <2>1. r # new
    OBVIOUS
  <2>2. r = handlers[t].replacement \/ (t = own /\ r = nextID /\ nextID' = nextID + 1)
    BY <1>0, <1>4 DEF Reserves
  <2>3. CASE r = handlers[t].replacement
    <3>1. t < r /\ r < nextID /\ Blank(r) /\ \A u \in Ids : handlers[u].replacement = r => u = t
      BY <2>3, <1>0 DEF FilesInv, Reserved
    <3>2. Blank(r)'
      BY <3>1, <2>1 DEF StaysBlank
    <3>3. ASSUME NEW u \in Ids, handlers'[u].replacement = r PROVE u = t
      <4>1. CASE handlers'[u].replacement \in {NoTask, handlers[u].replacement}
        BY <4>1, <3>1, <3>3, <1>0
      <4>2. CASE handlers'[u].replacement \notin {NoTask, handlers[u].replacement}
        <5>1. u = own /\ r = nextID
          BY <4>2, <1>4, <3>3 DEF Reserves
        <5> QED
          BY <5>1, <3>1, <1>0
      <4> QED
        BY <4>1, <4>2
    <3>4. r \in Nat /\ r < nextID
      BY <3>1, <1>0
    <3>5. r < nextID'
      BY <3>4, <1>0
    <3> QED
      BY <3>1, <3>2, <3>3, <3>5
  <2>4. CASE t = own /\ r = nextID /\ nextID' = nextID + 1
    <3>1. Blank(r)
      BY <2>4, <2>1, <1>0 DEF FilesInv
    <3>2. Blank(r)'
      BY <3>1, <2>1 DEF StaysBlank
    <3>3. ASSUME NEW u \in Ids, handlers'[u].replacement = r PROVE u = t
      <4>1. CASE u # own
        <5>1. handlers[u].replacement = r
          BY <4>1, <1>4, <3>3, <1>0
        <5>2. r < nextID
          BY <5>1, <2>1, <1>0 DEF FilesInv, Reserved
        <5> QED
          BY <5>2, <2>4, <1>0
      <4> QED
        BY <4>1, <2>4
    <3>4. t < r
      <4>1. CASE t >= nextID
        <5>1. t # new /\ handlers'[t].step = "none"
          BY <4>1, <2>1, <1>0 DEF FilesInv, StaysBlank, Blank
        <5>2. handlers'[t].replacement = NoTask
          BY <5>1, <1>2 DEF TaskFits, Fits
        <5> QED
          BY <5>2, <1>0
      <4>2. CASE ~(t >= nextID)
        BY <4>2, <2>4, <1>0
      <4> QED
        BY <4>1, <4>2
    <3> QED
      BY <3>2, <3>3, <3>4, <2>4, <1>0
  <2> QED
    BY <2>2, <2>3, <2>4
<1> QED
  BY <1>1, <1>2, <1>3, <1>5 DEF FilesInv


-----------------------------------------------------------------------------
(* The chain of replacements.                                               *)

SameKnown(t) == state'.status[t] = "none" <=> state.status[t] = "none"

LEMMA ChainKept ==
    ASSUME OneInv, budget'.planner = budget.planner,
           \A t \in Ids : state.lineage[t] \in Ids \cup {NoTask},
           ~budget.planner =>
               /\ state'.required = state.required /\ state'.optional = state.optional
               /\ \A t \in Ids : state'.lineage[t] = state.lineage[t] /\ SameKnown(t),
           \A t \in Ids : MayRun(t)' => MayRun(t)
    PROVE  OneInv'
<1> SUFFICES ASSUME ~budget.planner
             PROVE  \E m \in Ids : ChainEndsAt(m)'
  BY DEF OneInv
<1>1. PICK m \in Ids : ChainEndsAt(m)
  BY DEF OneInv
<1>2. /\ state'.required \cup state'.optional = {m}
      /\ state'.required \cap state'.optional = {}
      /\ state'.status[m] # "none" /\ state'.status[0] # "none"
      /\ \A t \in Ids : MayRun(t)' => t = m
  BY <1>1, IdsAre DEF ChainEndsAt, SameKnown
<1>3. \A t \in Ids : state'.lineage[t] # NoTask =>
          /\ state'.status[t] # "none" /\ state'.status[state'.lineage[t]] # "none"
          /\ state'.lineage[t] < t
  BY <1>1 DEF ChainEndsAt, SameKnown
<1>4. \A t \in Ids : state'.lineage[t] # m
  BY <1>1 DEF ChainEndsAt
<1>5. \A t \in Ids \ {m} : state'.status[t] # "none" =>
          \E d \in Ids : \A e \in Ids : state'.lineage[e] = t <=> e = d
  <2> SUFFICES ASSUME NEW t \in Ids \ {m}, state'.status[t] # "none"
               PROVE  \E d \in Ids : \A e \in Ids : state'.lineage[e] = t <=> e = d
    OBVIOUS
  <2>1. state.status[t] # "none"
    BY DEF SameKnown
  <2>2. PICK d \in Ids : \A e \in Ids : state.lineage[e] = t <=> e = d
    BY <1>1, <2>1 DEF ChainEndsAt
  <2> QED
    BY <2>2
<1>6. ChainEndsAt(m)'
  BY <1>2, <1>3, <1>4, <1>5 DEF ChainEndsAt
<1> QED
  BY <1>6

\* The daemon replaces the last link, since nothing else may run.
LEMMA ChainGrows ==
    ASSUME OneInv, budget'.planner = budget.planner,
           NEW t \in Ids, NEW r \in Ids, t < r, r # t, MayRun(t),
           state.status[r] = "none", state'.status[r] # "none",
           state.status[t] # "none", NoTask \notin Ids,
           \A u \in Ids : state.lineage[u] \in Ids \cup {NoTask},
           \A u \in Ids \ {r} : state'.lineage[u] = state.lineage[u] /\ SameKnown(u),
           state'.lineage[r] = t,
           ~budget.planner /\ state.required \cup state.optional = {t}
                           /\ state.required \cap state.optional = {} =>
               \/ state'.required = {r} /\ state'.optional = {}
               \/ state'.required = {} /\ state'.optional = {r},
           \A u \in Ids : MayRun(u)' => u = r \/ (u # t /\ MayRun(u))
    PROVE  OneInv'
<1> SUFFICES ASSUME ~budget.planner
             PROVE  \E m \in Ids : ChainEndsAt(m)'
  BY DEF OneInv
<1>1. PICK m \in Ids : ChainEndsAt(m)
  BY DEF OneInv
<1>2. m = t
  BY <1>1 DEF ChainEndsAt
<1>3. /\ state'.required \cup state'.optional = {r}
      /\ state'.required \cap state'.optional = {}
      /\ state'.status[r] # "none" /\ state'.status[0] # "none"
      /\ \A u \in Ids : MayRun(u)' => u = r
  BY <1>1, <1>2, IdsAre DEF ChainEndsAt, SameKnown
<1>4. \A u \in Ids : state'.lineage[u] # NoTask =>
          /\ state'.status[u] # "none" /\ state'.status[state'.lineage[u]] # "none"
          /\ state'.lineage[u] < u
  <2> SUFFICES ASSUME NEW u \in Ids, state'.lineage[u] # NoTask
               PROVE  /\ state'.status[u] # "none" /\ state'.status[state'.lineage[u]] # "none"
                      /\ state'.lineage[u] < u
    OBVIOUS
  <2>1. state'.status[t] # "none"
    BY DEF SameKnown
  <2>2. CASE u = r
    BY <2>1, <2>2
  <2>3. CASE u # r
    <3>1. /\ state'.lineage[u] = state.lineage[u] /\ state.lineage[u] \in Ids
          /\ state.status[u] # "none" /\ state.status[state.lineage[u]] # "none"
          /\ state.lineage[u] < u
      BY <1>1, <2>3 DEF ChainEndsAt
    <3>2. state.lineage[u] # r
      BY <3>1
    <3> QED
      BY <3>1, <3>2, <2>3 DEF SameKnown
  <2> QED
    BY <2>2, <2>3
<1>5. \A u \in Ids : state.lineage[u] # r
  BY <1>1 DEF ChainEndsAt
<1>6. \A u \in Ids : state'.lineage[u] # r
  BY <1>5
<1>7. \A u \in Ids \ {r} : state'.status[u] # "none" =>
          \E d \in Ids : \A e \in Ids : state'.lineage[e] = u <=> e = d
  <2> SUFFICES ASSUME NEW u \in Ids \ {r}, state'.status[u] # "none"
               PROVE  \E d \in Ids : \A e \in Ids : state'.lineage[e] = u <=> e = d
    OBVIOUS
  <2>1. CASE u = t
    <3>1. \A e \in Ids : state.lineage[e] # t
      BY <1>1, <1>2 DEF ChainEndsAt
    <3>2. \A e \in Ids : state'.lineage[e] = t <=> e = r
      BY <3>1
    <3> QED
      BY <3>2, <2>1
  <2>2. CASE u # t
    <3>1. state.status[u] # "none"
      BY DEF SameKnown
    <3>2. PICK d \in Ids : \A e \in Ids : state.lineage[e] = u <=> e = d
      BY <1>1, <1>2, <2>2, <3>1 DEF ChainEndsAt
    <3>3. d # r
      <4>1. state.lineage[d] = u
        BY <3>2
      <4>2. state.status[d] # "none"
        BY <4>1, <1>1 DEF ChainEndsAt
      <4> QED
        BY <4>2
    <3>4. \A e \in Ids : state'.lineage[e] = u <=> e = d
      BY <3>2, <3>3, <2>2
    <3> QED
      BY <3>4
  <2> QED
    BY <2>1, <2>2
<1>8. ChainEndsAt(r)'
  BY <1>3, <1>4, <1>6, <1>7 DEF ChainEndsAt
<1> QED
  BY <1>8

-----------------------------------------------------------------------------
(* The members of the plan and of its phase.                                *)

LEMMA MembersStay ==
    ASSUME MembersInv, PhaseRests, state'.required = state.required,
           state.required \subseteq Ids, state.phaseTasks \subseteq Ids,
           \A t \in Ids : /\ state.lineage[t] \in Ids \cup {NoTask}
                          /\ state'.lineage[t] \in {NoTask, state.lineage[t]}
                          /\ StaysKnown(t) /\ TerminalKept(t)
    PROVE  MembersInv'
<1>0. NoTask \notin Ids
  BY IdsAre
<1>1. \A t \in state.required : /\ state'.status[t] # "none"
                                /\ \A d \in Ids : state'.lineage[d] # t
  BY <1>0 DEF MembersInv, StaysKnown
<1>2. \A t \in state.phaseTasks : state'.status[t] # "none"
  BY DEF MembersInv, StaysKnown
<1>3. \A d \in Ids : state'.lineage[d] # NoTask => state'.status[state'.lineage[d]] # "none"
  BY DEF MembersInv, StaysKnown
<1>4. state'.phase = "completed" => PhaseDone(state')
  <2>1. \A t \in Ids : state.status[t] = "completed" => state'.status[t] = "completed"
    BY DEF TerminalKept, IsTerminal, TerminalStatuses
  <2>2. PhaseDone(state) => PhaseDone(state')
    BY <2>1 DEF PhaseDone, PhaseRests
  <2> QED
    BY <2>2 DEF PhaseRests, MembersInv
<1> QED
  BY <1>1, <1>2, <1>3, <1>4 DEF MembersInv, PhaseRests

\* new takes over from pred in the plan and in the phase, which is not completed
\* by that.
JoinsSlot(s, s2, new, pred) ==
    /\ s2.required = IF pred \in s.required
                     THEN (s.required \ {pred}) \cup {new} ELSE s.required
    /\ s2.phaseTasks = IF pred \in s.phaseTasks
                       THEN s.phaseTasks \cup {new} ELSE s.phaseTasks
    /\ s2.phase = "completed" => s.phase = "completed"

\* The members stay, and the phase is not completed.
KeepsSlot(s, s2) ==
    /\ s2.required = s.required /\ s2.phaseTasks = s.phaseTasks
    /\ s2.phase = "completed" => s.phase = "completed"

\* A task that has not completed is replaced by one nobody knew.
LEMMA MembersJoin ==
    ASSUME MembersInv, NEW t \in Ids, NEW r \in Ids, r # t,
           JoinsSlot(state, state', r, t),
           state.required \subseteq Ids, state.phaseTasks \subseteq Ids,
           state.status[r] = "none", state'.status[r] # "none", state'.lineage[r] = t,
           state.status[t] \notin {"none", "completed"},
           \A u \in Ids \ {r} : state'.lineage[u] = state.lineage[u],
           \A u \in Ids : /\ state.lineage[u] \in Ids \cup {NoTask}
                          /\ StaysKnown(u) /\ TerminalKept(u)
    PROVE  MembersInv'
<1>0. NoTask \notin Ids
  BY IdsAre
<1>1. /\ r \notin state.required /\ r \notin state.phaseTasks
      /\ \A d \in Ids : state.lineage[d] # r
      /\ \A u \in Ids : state.status[u] # "none" => state'.status[u] # "none"
      /\ state'.status[t] # "none"
  BY <1>0 DEF MembersInv, StaysKnown
<1>2. ASSUME NEW u \in state'.required
      PROVE  /\ state'.status[u] # "none" /\ \A d \in Ids : state'.lineage[d] # u
  <2>1. CASE u = r
    BY <2>1, <1>1
  <2>2. CASE u # r
    <3>1. u \in state.required /\ u # t
      BY <2>2 DEF JoinsSlot
    <3> QED
      BY <3>1, <1>1 DEF MembersInv
  <2> QED
    BY <2>1, <2>2
<1>3. \A u \in state'.phaseTasks : state'.status[u] # "none"
  <2>1. state'.phaseTasks \subseteq state.phaseTasks \cup {r}
    BY DEF JoinsSlot
  <2> QED
    BY <2>1, <1>1 DEF MembersInv
<1>4. \A d \in Ids : state'.lineage[d] # NoTask => state'.status[state'.lineage[d]] # "none"
  BY <1>0, <1>1 DEF MembersInv
<1>5. state'.phase = "completed" => PhaseDone(state')
  <2> SUFFICES ASSUME state'.phase = "completed", NEW u \in state'.required \cap state'.phaseTasks
               PROVE  state'.status[u] = "completed"
    BY DEF PhaseDone
  <2>1. PhaseDone(state)
    BY DEF JoinsSlot, MembersInv
  <2>2. t \notin state.required \cap state.phaseTasks
    BY <2>1 DEF PhaseDone
  <2>3. u \in state.required \cap state.phaseTasks
    BY <1>1, <2>2 DEF JoinsSlot
  <2>4. state.status[u] = "completed" /\ u \in Ids
    BY <2>1, <2>3 DEF PhaseDone
  <2> QED
    BY <2>4 DEF TerminalKept, IsTerminal, TerminalStatuses
<1> QED
  BY <1>2, <1>3, <1>4, <1>5 DEF MembersInv

-----------------------------------------------------------------------------
(* The writes.                                                              *)

LEMMA Saved ==
    ASSUME clock \in Clock, NEW s, SaveState(s) \/ UpdateState(s)
    PROVE  state' = s /\ clock' \in Clock /\ clock'.age = clock.age
<1>1. clock' = clock \/ clock' = [clock EXCEPT !.quiet = FALSE,
                              !.stale = {t \in @ : s.status[t] = "paused_for_replan"}]
  BY DEF SaveState, UpdateState
<1>2. state' = s
  BY DEF SaveState, UpdateState
<1> QED
  BY <1>1, <1>2 DEF Clock

LEMMA Written ==
    ASSUME clock \in Clock, NEW s, NEW lost, WriteState(s, lost)
    PROVE  /\ state' = IF lost = {} THEN s ELSE state
           /\ clock' \in Clock /\ clock'.age = clock.age
<1>1. CASE lost = {}
  BY <1>1, Saved DEF WriteState
<1>2. CASE lost # {}
  BY <1>2 DEF WriteState
<1> QED
  BY <1>1, <1>2

LEMMA Paid ==
    ASSUME budget \in Budget, NEW kinds, Costs(kinds)
    PROVE  /\ budget' \in Budget /\ budget'.planner = budget.planner
           /\ kinds \subseteq FaultKinds
           /\ budget'.faults = 0 => budget.faults = 0 /\ kinds = {}
<1>1. /\ kinds \subseteq FaultKinds
      /\ budget' = [budget EXCEPT !.faults = @ + Cardinality(kinds)]
  BY DEF Costs
<1>2. IsFiniteSet(AllFaultKinds)
  <2>1. IsFiniteSet({} \cup {"crash"} \cup {"state"})
    BY FS_EmptySet, FS_AddElement
  <2>2. IsFiniteSet({} \cup {"crash"} \cup {"state"} \cup {"queue"} \cup {"marker"})
    BY <2>1, FS_AddElement
  <2>3. IsFiniteSet({} \cup {"crash"} \cup {"state"} \cup {"queue"} \cup {"marker"}
                       \cup {"command"})
    BY <2>2, FS_AddElement
  <2>4. AllFaultKinds = {} \cup {"crash"} \cup {"state"} \cup {"queue"} \cup {"marker"}
                           \cup {"command"}
    BY DEF AllFaultKinds
  <2> QED
    BY <2>3, <2>4
<1>3. IsFiniteSet(kinds)
  <2>1. kinds \subseteq AllFaultKinds
    BY <1>1, FaultAssumption
  <2> QED
    BY <1>2, <2>1, FS_Subset
<1>4. Cardinality(kinds) \in Nat /\ (Cardinality(kinds) = 0 <=> kinds = {})
  BY <1>3, FS_CardinalityType, FS_EmptySet
<1> HIDE DEF Costs
<1>5. /\ budget' = [budget EXCEPT !.faults = budget.faults + Cardinality(kinds)]
      /\ budget.faults \in Nat
  BY <1>1 DEF Budget
<1> DEFINE n == Cardinality(kinds)
<1> HIDE DEF n
<1>6. n \in Nat /\ (n = 0 <=> kinds = {}) /\ budget' = [budget EXCEPT !.faults = budget.faults + n]
  BY <1>4, <1>5 DEF n
<1> QED
  BY <1>1, <1>5, <1>6 DEF Budget

LEMMA Forgotten ==
    ASSUME Restart
    PROVE  /\ \A t \in Ids : handlers'[t] = NoHandler
           /\ handlers' \in [Ids -> Handler] /\ suspects' = {}
           /\ \A t \in Ids : handlers'[t].sync # "dead_letter"
BY DEF Restart, NoHandler, Handler, TerminalStatuses


-----------------------------------------------------------------------------
(* Wiring a replacement into the plan.                                      *)

\* s2 agrees with s on everything but the members, the phase and task r.
OnlyWires(s, s2, r) ==
    /\ s2.applied = s.applied /\ s2.superseded = s.superseded
    /\ \A d \in Ids \ {r} : /\ s2.status[d] = s.status[d] /\ s2.marker[d] = s.marker[d]
                            /\ s2.lineage[d] = s.lineage[d]

\* new takes the place of old among the members, and nothing else moves.
Swaps(s, s2, old, new) ==
    /\ s2 \in CommandState /\ s2.status = s.status /\ s2.lineage = s.lineage
    /\ s2.marker = s.marker /\ s2.applied = s.applied
    /\ s2.superseded = s.superseded
    /\ s2.phaseTasks = s.phaseTasks /\ s2.phase = s.phase
    /\ s2.required = IF old \in s.required
                     THEN (s.required \ {old}) \cup {new} ELSE s.required
    /\ s2.optional = IF old \in s.optional /\ old \notin s.required
                     THEN (s.optional \ {old}) \cup {new} ELSE s.optional

LEMMA MembershipReplaced ==
    ASSUME NEW s \in CommandState, NEW old \in Ids, NEW new \in Ids
    PROVE  Swaps(s, ReplaceMembership(s, old, new), old, new)
BY DEF ReplaceMembership, CommandState, Swaps

\* new joins the phase of pred, which reopens if it had failed.
JoinsPhase(s, s2, new, pred) ==
    /\ s2 \in CommandState /\ s2.status = s.status /\ s2.lineage = s.lineage
    /\ s2.marker = s.marker /\ s2.applied = s.applied
    /\ s2.superseded = s.superseded /\ s2.required = s.required
    /\ s2.optional = s.optional
    /\ s2.phaseTasks = IF pred \in s.phaseTasks
                       THEN s.phaseTasks \cup {new} ELSE s.phaseTasks
    /\ s2.phase = IF pred \in s.phaseTasks /\ s.phase = "failed"
                  THEN "active" ELSE s.phase

LEMMA PhaseAppended ==
    ASSUME NEW s \in CommandState, NEW new \in Ids, NEW pred \in Ids
    PROVE  JoinsPhase(s, AppendToPhase(s, new, pred), new, pred)
<1>1. CASE pred \in s.phaseTasks
  <2> DEFINE tasks == s.phaseTasks \cup {new}
             phase == IF s.phase = "failed" THEN "active" ELSE s.phase
  <2>1. AppendToPhase(s, new, pred) = [s EXCEPT !.phaseTasks = tasks, !.phase = phase]
    BY <1>1 DEF AppendToPhase
  <2>2. /\ tasks \in SUBSET Ids
        /\ phase \in {"none", "active", "completed", "failed", "cancelled"}
    BY DEF CommandState
  <2>3. /\ tasks = IF pred \in s.phaseTasks THEN s.phaseTasks \cup {new} ELSE s.phaseTasks
        /\ phase = IF pred \in s.phaseTasks /\ s.phase = "failed" THEN "active" ELSE s.phase
    BY <1>1
  <2> HIDE DEF tasks, phase
  <2> QED
    BY <2>1, <2>2, <2>3 DEF CommandState, JoinsPhase
<1>2. CASE pred \notin s.phaseTasks
  BY <1>2 DEF AppendToPhase, JoinsPhase
<1> QED
  BY <1>1, <1>2

\* A task that is a member hands its membership on.
HandsOn(s, s2, old, new) ==
    s.required \cup s.optional = {old} /\ s.required \cap s.optional = {} =>
        \/ old \in s.required /\ s2.required = {new} /\ s2.optional = {}
        \/ old \notin s.required /\ s2.required = {} /\ s2.optional = {new}

LEMMA Wired ==
    ASSUME NEW s \in CommandState, NEW new \in Ids, NEW pred \in Ids, new # pred,
           NEW s2, s2 = WireRetryTask(s, new, pred)
    PROVE  /\ s2 \in CommandState /\ OnlyWires(s, s2, new)
           /\ s2.status[new] = "planned" /\ s2.lineage[new] = pred
           /\ s2.marker[new] = s.marker[new]
           /\ HandsOn(s, s2, pred, new) /\ JoinsSlot(s, s2, new, pred)
<1> DEFINE membered == IF pred \in s.required \cup s.optional
                       THEN ReplaceMembership(s, pred, new)
                       ELSE [s EXCEPT !.optional = @ \cup {new}]
           placed == AppendToPhase(membered, new, pred)
<1>1. /\ membered \in CommandState /\ membered.status = s.status
      /\ membered.lineage = s.lineage /\ membered.marker = s.marker
      /\ membered.applied = s.applied /\ membered.superseded = s.superseded
      /\ membered.phaseTasks = s.phaseTasks /\ membered.phase = s.phase
      /\ membered.required = IF pred \in s.required
                             THEN (s.required \ {pred}) \cup {new} ELSE s.required
  <2>1. CASE pred \in s.required \cup s.optional
    <3>1. membered = ReplaceMembership(s, pred, new)
      BY <2>1
    <3> HIDE DEF membered
    <3>2. Swaps(s, membered, pred, new)
      BY <3>1, MembershipReplaced
    <3> QED
      BY <3>2 DEF Swaps
  <2>2. CASE pred \notin s.required \cup s.optional
    BY <2>2 DEF CommandState
  <2> QED
    BY <2>1, <2>2
<1>2. HandsOn(s, membered, pred, new)
  <2> SUFFICES ASSUME s.required \cup s.optional = {pred}, s.required \cap s.optional = {}
               PROVE  \/ pred \in s.required /\ membered.required = {new}
                                              /\ membered.optional = {}
                      \/ pred \notin s.required /\ membered.required = {}
                                                 /\ membered.optional = {new}
    BY DEF HandsOn
  <2>1. membered = ReplaceMembership(s, pred, new)
    OBVIOUS
  <2> HIDE DEF membered
  <2>2. /\ membered.required = IF pred \in s.required
                               THEN (s.required \ {pred}) \cup {new} ELSE s.required
        /\ membered.optional = IF pred \in s.optional /\ pred \notin s.required
                               THEN (s.optional \ {pred}) \cup {new} ELSE s.optional
    <3>1. Swaps(s, membered, pred, new)
      BY <2>1, MembershipReplaced
    <3> QED
      BY <3>1 DEF Swaps
  <2>3. CASE pred \in s.required
    <3>1. s.required = {pred} /\ s.optional = {}
      BY <2>3
    <3> QED
      BY <2>2, <3>1
  <2>4. CASE pred \notin s.required
    <3>1. s.required = {} /\ s.optional = {pred}
      BY <2>4
    <3> QED
      BY <2>2, <3>1
  <2> QED
    BY <2>3, <2>4
<1>3. s2 = [placed EXCEPT !.lineage[new] = pred, !.status[new] = "planned"]
  BY DEF WireRetryTask
<1> HIDE DEF membered
<1>4. /\ placed \in CommandState /\ placed.status = s.status /\ placed.lineage = s.lineage
      /\ placed.marker = s.marker /\ placed.applied = s.applied
      /\ placed.superseded = s.superseded
      /\ placed.required = membered.required /\ placed.optional = membered.optional
      /\ placed.phaseTasks = IF pred \in s.phaseTasks
                             THEN s.phaseTasks \cup {new} ELSE s.phaseTasks
      /\ placed.phase = "completed" => s.phase = "completed"
  <2>1. JoinsPhase(membered, placed, new, pred)
    BY <1>1, PhaseAppended
  <2> HIDE DEF placed
  <2> QED
    BY <1>1, <2>1 DEF JoinsPhase
<1> HIDE DEF placed
<1>6. /\ placed.status \in [Ids -> TaskStatuses \cup {"none"}]
      /\ placed.lineage \in [Ids -> Ids \cup {NoTask}]
  BY <1>4 DEF CommandState
<1>7. /\ [placed.status EXCEPT ![new] = "planned"] \in [Ids -> TaskStatuses \cup {"none"}]
      /\ [placed.lineage EXCEPT ![new] = pred] \in [Ids -> Ids \cup {NoTask}]
  BY <1>6 DEF TaskStatuses
<1>8. s2 = [placed EXCEPT !.lineage = [placed.lineage EXCEPT ![new] = pred],
                          !.status = [placed.status EXCEPT ![new] = "planned"]]
  BY <1>3
<1>5. /\ s2 \in CommandState /\ s2.status = [placed.status EXCEPT ![new] = "planned"]
      /\ s2.lineage = [placed.lineage EXCEPT ![new] = pred]
      /\ s2.marker = placed.marker /\ s2.applied = placed.applied
      /\ s2.superseded = placed.superseded
      /\ s2.required = placed.required /\ s2.optional = placed.optional
      /\ s2.phaseTasks = placed.phaseTasks /\ s2.phase = placed.phase
  <2> DEFINE f == [placed.status EXCEPT ![new] = "planned"]
             g == [placed.lineage EXCEPT ![new] = pred]
  <2>1. /\ f \in [Ids -> TaskStatuses \cup {"none"}] /\ g \in [Ids -> Ids \cup {NoTask}]
        /\ s2 = [placed EXCEPT !.lineage = g, !.status = f]
    BY <1>7, <1>8
  <2> HIDE DEF f, g
  <2>2. /\ s2 \in CommandState /\ s2.status = f /\ s2.lineage = g
        /\ s2.marker = placed.marker /\ s2.applied = placed.applied
        /\ s2.superseded = placed.superseded
        /\ s2.required = placed.required /\ s2.optional = placed.optional
        /\ s2.phaseTasks = placed.phaseTasks /\ s2.phase = placed.phase
    BY ZenonT(40), <1>4, <2>1 DEF CommandState
  <2> QED
    BY <2>2 DEF f, g
<1> QED
  <2>1. JoinsSlot(s, s2, new, pred)
    BY <1>1, <1>4, <1>5 DEF JoinsSlot
  <2> QED
    BY <2>1, <1>2, <1>4, <1>5, <1>6 DEF OnlyWires, HandsOn

\* Taking the task out again restores the members of a one-member slot.
Unwires(s, s2, new, pred) ==
    /\ s2 \in CommandState /\ OnlyWires(s, s2, new)
    /\ s2.status[new] = "none" /\ s2.lineage[new] = NoTask
    /\ s2.marker[new] = s.marker[new]
    /\ s2.required = IF new \in s.required
                     THEN (s.required \ {new}) \cup {pred} ELSE s.required
    /\ s2.optional = IF new \in s.optional /\ new \notin s.required
                     THEN (s.optional \ {new}) \cup {pred} ELSE s.optional
    /\ s2.phaseTasks = s.phaseTasks \ {new} /\ s2.phase = s.phase

LEMMA Unwired ==
    ASSUME NEW s \in CommandState, NEW new \in Ids, NEW pred \in Ids, new # pred,
           NEW s2, s2 = UnwireRetryTask(s, new, pred)
    PROVE  Unwires(s, s2, new, pred)
<1> DEFINE replaced == ReplaceMembership(s, new, pred)
<1>1. /\ replaced \in CommandState /\ replaced.status = s.status
      /\ replaced.lineage = s.lineage /\ replaced.marker = s.marker
      /\ replaced.applied = s.applied /\ replaced.superseded = s.superseded
      /\ replaced.required = IF new \in s.required
                             THEN (s.required \ {new}) \cup {pred} ELSE s.required
      /\ replaced.optional = IF new \in s.optional /\ new \notin s.required
                             THEN (s.optional \ {new}) \cup {pred} ELSE s.optional
      /\ replaced.phaseTasks = s.phaseTasks /\ replaced.phase = s.phase
  <2>1. Swaps(s, replaced, new, pred)
    BY MembershipReplaced
  <2> HIDE DEF replaced
  <2> QED
    BY <2>1 DEF Swaps
<1>2. s2 = [replaced EXCEPT !.lineage[new] = NoTask, !.status[new] = "none",
                            !.phaseTasks = @ \ {new}]
  BY DEF UnwireRetryTask
<1> HIDE DEF replaced
<1>4. /\ replaced.status \in [Ids -> TaskStatuses \cup {"none"}]
      /\ replaced.lineage \in [Ids -> Ids \cup {NoTask}]
  BY <1>1 DEF CommandState
<1>5. /\ [replaced.status EXCEPT ![new] = "none"] \in [Ids -> TaskStatuses \cup {"none"}]
      /\ [replaced.lineage EXCEPT ![new] = NoTask] \in [Ids -> Ids \cup {NoTask}]
      /\ replaced.phaseTasks \ {new} \in SUBSET Ids
  BY <1>1, <1>4 DEF CommandState
<1>6. s2 = [replaced EXCEPT !.lineage = [replaced.lineage EXCEPT ![new] = NoTask],
                            !.status = [replaced.status EXCEPT ![new] = "none"],
                            !.phaseTasks = replaced.phaseTasks \ {new}]
  BY <1>2
<1>3. /\ s2 \in CommandState /\ s2.status = [replaced.status EXCEPT ![new] = "none"]
      /\ s2.lineage = [replaced.lineage EXCEPT ![new] = NoTask]
      /\ s2.marker = replaced.marker /\ s2.applied = replaced.applied
      /\ s2.superseded = replaced.superseded
      /\ s2.required = replaced.required /\ s2.optional = replaced.optional
      /\ s2.phaseTasks = replaced.phaseTasks \ {new} /\ s2.phase = replaced.phase
  <2> DEFINE f == [replaced.status EXCEPT ![new] = "none"]
             g == [replaced.lineage EXCEPT ![new] = NoTask]
             p == replaced.phaseTasks \ {new}
  <2>1. /\ f \in [Ids -> TaskStatuses \cup {"none"}] /\ g \in [Ids -> Ids \cup {NoTask}]
        /\ p \in SUBSET Ids
        /\ s2 = [replaced EXCEPT !.lineage = g, !.status = f, !.phaseTasks = p]
    BY <1>5, <1>6
  <2> HIDE DEF f, g, p
  <2>2. /\ s2 \in CommandState /\ s2.status = f /\ s2.lineage = g
        /\ s2.marker = replaced.marker /\ s2.applied = replaced.applied
        /\ s2.superseded = replaced.superseded
        /\ s2.required = replaced.required /\ s2.optional = replaced.optional
        /\ s2.phaseTasks = p /\ s2.phase = replaced.phase
    BY ZenonT(40), <1>1, <2>1 DEF CommandState
  <2> QED
    BY <2>2 DEF f, g, p
<1> QED
  BY <1>1, <1>3, <1>4 DEF OnlyWires, Unwires

\* The outcomes that leave the new task in the plan.
Kept == {"ok", "marked", "stranded", "crash"}

\* What registering new as the replacement of pred does to the state.
Registers(s, s2, new, pred, outcome) ==
    /\ s2 \in CommandState /\ OnlyWires(s, s2, new)
    /\ outcome = "refused" => s2 = s
    /\ outcome = "rolled_back" => s2.status[new] = "none" /\ s2.lineage[new] = NoTask
    /\ outcome \in Kept => s2.status[new] = "planned" /\ s2.lineage[new] = pred
    /\ s2.marker[new] = IF outcome = "marked" THEN 0 ELSE s.marker[new]
    /\ outcome \in Kept => HandsOn(s, s2, pred, new)
    /\ outcome \notin Kept /\ s.required \cup s.optional = {pred}
                           /\ s.required \cap s.optional = {} =>
           s2.required = s.required /\ s2.optional = s.optional
    /\ outcome \in Kept => JoinsSlot(s, s2, new, pred)
    /\ outcome \notin Kept /\ new \notin s.required /\ new \notin s.phaseTasks =>
           KeepsSlot(s, s2)

LEMMA Registered ==
    ASSUME NEW s \in CommandState, NEW new \in Ids, NEW pred \in Ids, new # pred,
           NEW outcome \in RegisterOutcomes
    PROVE  Registers(s, RetryTaskAtomically(s, new, pred, outcome), new, pred, outcome)
<1> DEFINE wired == WireRetryTask(s, new, pred)
           s2 == RetryTaskAtomically(s, new, pred, outcome)
<1> SUFFICES Registers(s, s2, new, pred, outcome)
  OBVIOUS
<1>1. /\ wired \in CommandState /\ OnlyWires(s, wired, new)
      /\ wired.status[new] = "planned" /\ wired.lineage[new] = pred
      /\ wired.marker[new] = s.marker[new]
      /\ HandsOn(s, wired, pred, new) /\ JoinsSlot(s, wired, new, pred)
  BY Wired
<1>2. CASE outcome = "refused"
  <2>1. s2 = s
    BY <1>2 DEF RetryTaskAtomically
  <2> HIDE DEF s2
  <2> QED
    BY <2>1, <1>2 DEF Registers, OnlyWires, Kept, KeepsSlot
<1>3. CASE outcome = "rolled_back"
  <2>1. s2 = UnwireRetryTask(wired, new, pred)
    BY <1>3 DEF RetryTaskAtomically
  <2> HIDE DEF s2, wired
  <2>5. Unwires(wired, s2, new, pred)
    BY <2>1, <1>1, Unwired
  <2>2. /\ s2 \in CommandState /\ OnlyWires(wired, s2, new)
        /\ s2.status[new] = "none" /\ s2.lineage[new] = NoTask
        /\ s2.marker[new] = wired.marker[new]
        /\ s2.required = IF new \in wired.required
                         THEN (wired.required \ {new}) \cup {pred} ELSE wired.required
        /\ s2.optional = IF new \in wired.optional /\ new \notin wired.required
                         THEN (wired.optional \ {new}) \cup {pred} ELSE wired.optional
        /\ s2.phaseTasks = wired.phaseTasks \ {new} /\ s2.phase = wired.phase
    BY <2>5 DEF Unwires
  <2>3. ASSUME s.required \cup s.optional = {pred}, s.required \cap s.optional = {}
        PROVE  s2.required = s.required /\ s2.optional = s.optional
    <3>1. CASE pred \in s.required
      <4>1. wired.required = {new} /\ wired.optional = {}
        BY <1>1, <2>3, <3>1 DEF HandsOn
      <4>2. s2.required = {pred} /\ s2.optional = {}
        BY <2>2, <4>1
      <4> QED
        BY <2>3, <3>1, <4>2
    <3>2. CASE pred \notin s.required
      <4>1. wired.required = {} /\ wired.optional = {new}
        BY <1>1, <2>3, <3>2 DEF HandsOn
      <4>2. s2.required = {} /\ s2.optional = {pred}
        BY <2>2, <4>1
      <4> QED
        BY <2>3, <3>2, <4>2
    <3> QED
      BY <3>1, <3>2
  <2>4. OnlyWires(s, s2, new)
    BY <1>1, <2>2 DEF OnlyWires
  <2>6. ASSUME new \notin s.required, new \notin s.phaseTasks PROVE KeepsSlot(s, s2)
    <3>1. s2.required = s.required
      <4>1. CASE pred \in s.required
        <5>1. wired.required = (s.required \ {pred}) \cup {new}
          BY <1>1, <4>1 DEF JoinsSlot
        <5> QED
          BY <2>2, <2>6, <4>1, <5>1
      <4>2. CASE pred \notin s.required
        <5>1. wired.required = s.required
          BY <1>1, <4>2 DEF JoinsSlot
        <5> QED
          BY <2>2, <2>6, <5>1
      <4> QED
        BY <4>1, <4>2
    <3>2. s2.phaseTasks = s.phaseTasks
      <4>1. wired.phaseTasks = s.phaseTasks \/ wired.phaseTasks = s.phaseTasks \cup {new}
        BY <1>1 DEF JoinsSlot
      <4> QED
        BY <2>2, <2>6, <4>1
    <3>3. s2.phase = "completed" => s.phase = "completed"
      BY <1>1, <2>2 DEF JoinsSlot
    <3> QED
      BY <3>1, <3>2, <3>3 DEF KeepsSlot
  <2> QED
    BY <1>1, <1>3, <2>2, <2>3, <2>4, <2>6 DEF Registers, Kept
<1>4. CASE outcome = "marked"
  <2>1. s2 = [wired EXCEPT !.marker[new] = 0]
    BY <1>4 DEF RetryTaskAtomically
  <2> HIDE DEF s2, wired
  <2>2. wired.marker \in [Ids -> -1 .. MaxEnqueue] /\ 0 \in -1 .. MaxEnqueue
    BY <1>1, IdsAre DEF CommandState
  <2>3. /\ s2 \in CommandState /\ s2.marker = [wired.marker EXCEPT ![new] = 0]
        /\ s2.status = wired.status /\ s2.lineage = wired.lineage
        /\ s2.applied = wired.applied /\ s2.superseded = wired.superseded
        /\ s2.required = wired.required /\ s2.optional = wired.optional
        /\ s2.phaseTasks = wired.phaseTasks /\ s2.phase = wired.phase
    BY <1>1, <2>1, <2>2 DEF CommandState
  <2>4. JoinsSlot(s, s2, new, pred)
    BY <1>1, <2>3 DEF JoinsSlot
  <2> QED
    BY <1>1, <1>4, <2>2, <2>3, <2>4 DEF Registers, OnlyWires, Kept, HandsOn
<1>5. CASE outcome \in {"ok", "stranded", "crash"}
  <2>1. s2 = wired
    BY <1>5 DEF RetryTaskAtomically
  <2> HIDE DEF s2, wired
  <2> QED
    BY <1>1, <1>5, <2>1 DEF Registers, Kept
<1> QED
  BY <1>2, <1>3, <1>4, <1>5 DEF RegisterOutcomes


-----------------------------------------------------------------------------
(* Steps that create no task.                                               *)

Inv == TypeInv /\ FilesInv /\ OneInv /\ MembersInv /\ NothingLost

StepHolds == Inv' /\ \A t \in Ids : TerminalKept(t) /\ MarkerComes(t)

LEMMA NoMarkerComes ==
    ASSUME \A t \in Ids : MarkerStays(t) PROVE \A t \in Ids : MarkerComes(t)
BY DEF MarkerStays, MarkerComes

LEMMA LineageType ==
    ASSUME TypeInv PROVE \A t \in Ids : state.lineage[t] \in Ids \cup {NoTask}
BY DEF TypeInv, CommandState

LEMMA PlainStep ==
    ASSUME Inv, TypeInv', NEW own, nextID' = nextID, budget'.planner = budget.planner,
           state'.required = state.required, state'.optional = state.optional,
           state'.lineage = state.lineage, PhaseRests,
           \A t \in Ids \ {own} : Bystands(t),
           \A t \in Ids : StaysBlank(t) /\ MarkerStays(t) /\ RowSettles(t) /\ TerminalKept(t),
           ~budget.planner => \A t \in Ids : SameKnown(t),
           \A t \in Ids : MayRun(t)' => MayRun(t),
           own \in Ids => TaskFits(own)' /\ Reserves(own) /\ StaysKnown(own)
    PROVE  FilesInv' /\ OneInv' /\ MembersInv'
<1>1. OneInv'
  BY ChainKept, LineageType DEF Inv
<1>2. NoTask \notin Ids
  BY IdsAre
<1>3. FilesInv'
  <2>1. /\ TypeInv /\ FilesInv /\ nextID' \in {nextID, nextID + 1}
        /\ \A t \in Ids \ {own, NoTask} : Bystands(t)
        /\ \A t \in Ids \ {NoTask} : StaysBlank(t) /\ MarkerStays(t)
        /\ \A t \in Ids : RowSettles(t)
    BY DEF Inv
  <2> HIDE DEF Inv
  <2> QED
    BY <1>2, <2>1, FilesStep
<1>4. MembersInv'
  <2>1. ASSUME NEW t \in Ids PROVE StaysKnown(t)
    <3>1. CASE t = own
      BY <3>1
    <3>2. CASE t # own
      BY <3>2 DEF Bystands, StatusMoves, StaysKnown
    <3> QED
      BY <3>1, <3>2
  <2>2. state.required \subseteq Ids /\ state.phaseTasks \subseteq Ids
    BY DEF Inv, TypeInv, CommandState
  <2>3. \A t \in Ids : state.lineage[t] \in Ids \cup {NoTask}
    BY LineageType DEF Inv
  <2>4. MembersInv
    BY DEF Inv
  <2> QED
    BY <2>1, <2>2, <2>3, <2>4, MembersStay
<1> QED
  BY <1>1, <1>3, <1>4

LEMMA FilesUntouched ==
    ASSUME Inv, TypeInv', nextID' = nextID, rows' = rows, results' = results,
           verified' = verified, budget'.planner = budget.planner,
           state'.status = state.status, state'.marker = state.marker,
           state'.lineage = state.lineage, state'.required = state.required,
           state'.optional = state.optional, state'.applied = state.applied,
           state'.phaseTasks = state.phaseTasks, state'.phase = state.phase,
           \A t \in Ids : handlers'[t] = handlers[t] \/ handlers'[t] = NoHandler,
           \A t \in Ids : \/ clock'.age[t] = clock.age[t]
                          \/ results[t].status # "none" /\ handlers[t].step # "phaseB",
           budget'.faults = 0 =>
               /\ budget.faults = 0
               /\ \A t \in Ids : handlers'[t] = handlers[t] \/ handlers[t].step # "phaseB"
    PROVE  StepHolds
<1> USE DEF Inv
<1>0. NoHandler.step = "none"
  BY DEF NoHandler
<1>1. \A t \in Ids : Bystands(t)
  BY DEF Bystands, StatusMoves, FilesInv, TaskFits, Fits
<1>2. \A t \in Ids : StaysBlank(t) /\ MarkerStays(t) /\ RowSettles(t)
  BY <1>0 DEF StaysBlank, Blank, MarkerStays, RowSettles
<1>3. \A t \in Ids : SameKnown(t) /\ (MayRun(t)' => MayRun(t))
  BY <1>0 DEF SameKnown, MayRun
<1>4. NoTask \notin Ids
  BY IdsAre
<1>7. PhaseRests /\ \A t \in Ids : TerminalKept(t)
  BY DEF TerminalKept, PhaseRests
<1>5. FilesInv' /\ OneInv' /\ MembersInv'
  BY <1>1, <1>2, <1>3, <1>4, <1>7, PlainStep
<1>6. NothingLost'
  BY <1>0 DEF NothingLost
<1> QED
  BY <1>2, <1>5, <1>6, <1>7, NoMarkerComes DEF StepHolds

LEMMA HandlerSet ==
    ASSUME handlers \in [Ids -> Handler], \A t \in Ids : handlers[t].sync # "dead_letter",
           NEW t \in Ids, NEW h \in Handler, h.sync # "dead_letter", Proceed(t, h)
    PROVE  /\ handlers' \in [Ids -> Handler] /\ handlers'[t] = h
           /\ \A d \in Ids \ {t} : handlers'[d] = handlers[d]
           /\ \A d \in Ids : handlers'[d].sync # "dead_letter"
           /\ suspects' = suspects
BY DEF Proceed, scanVars

LEMMA NoHandlerIs ==
    /\ NoHandler \in Handler /\ NoHandler.step = "none" /\ NoHandler.replacement = NoTask
    /\ NoHandler.sync = "completed" /\ NoHandler.sync # "dead_letter"
BY DEF NoHandler, Handler, TerminalStatuses

LEMMA QuietStep == ASSUME Inv, Quiet PROVE StepHolds
<1> USE DEF Quiet
<1>1. TypeInv'
  BY DEF Inv, TypeInv, Clock, scanVars
<1>2. clock'.age = clock.age
  BY DEF Inv, TypeInv, Clock
<1> QED
  BY <1>1, <1>2, FilesUntouched

LEMMA StaleStep == ASSUME Inv, NEW t \in Ids, Stale(t) PROVE StepHolds
<1> USE DEF Stale
<1>1. TypeInv'
  BY DEF Inv, TypeInv, Clock, scanVars
<1>2. clock'.age = clock.age
  BY DEF Inv, TypeInv, Clock
<1> QED
  BY <1>1, <1>2, FilesUntouched

LEMMA AgeStep == ASSUME Inv, NEW t \in Ids, Age(t) PROVE StepHolds
<1> USE DEF Age
<1>1. clock.age \in [Ids -> 0 .. 2]
  BY DEF Inv, TypeInv, Clock
<1>2. clock'.age = [clock.age EXCEPT ![t] = @ + 1]
  BY DEF Inv, TypeInv, Clock
<1>3. clock'.age \in [Ids -> 0 .. 2]
  BY <1>1, <1>2
<1>4. clock' \in Clock
  BY <1>3 DEF Inv, TypeInv, Clock
<1>5. TypeInv'
  BY <1>4 DEF Inv, TypeInv, scanVars
<1> QED
  BY <1>1, <1>2, <1>5, FilesUntouched

LEMMA BeginReconcileStep == ASSUME Inv, BeginReconcile PROVE StepHolds
<1>1. TypeInv'
  BY DEF Inv, TypeInv, BeginReconcile
<1> QED
  BY <1>1, FilesUntouched DEF BeginReconcile

LEMMA R9DoneStep == ASSUME Inv, R9Done PROVE StepHolds
<1>1. TypeInv'
  BY DEF Inv, TypeInv, R9Done
<1> QED
  BY <1>1, FilesUntouched DEF R9Done

LEMMA R3Step == ASSUME Inv, R3PlannerQueue PROVE StepHolds
<1>1. clock \in Clock
  BY DEF Inv, TypeInv
<1>2. state' = state /\ clock' \in Clock /\ clock'.age = clock.age
  BY <1>1, Saved DEF R3PlannerQueue
<1>3. TypeInv'
  BY <1>2 DEF Inv, TypeInv, R3PlannerQueue
<1> QED
  BY <1>2, <1>3, FilesUntouched DEF R3PlannerQueue

LEMMA CrashStep == ASSUME Inv, Crash PROVE StepHolds
<1>1. /\ budget' \in Budget /\ budget'.planner = budget.planner
      /\ budget'.faults # 0
  BY Paid DEF Inv, TypeInv, Crash
<1>2. /\ \A t \in Ids : handlers'[t] = NoHandler
      /\ handlers' \in [Ids -> Handler] /\ suspects' = {}
      /\ \A t \in Ids : handlers'[t].sync # "dead_letter"
  BY Forgotten DEF Crash
<1>3. TypeInv'
  BY <1>1, <1>2 DEF Inv, TypeInv, Crash
<1> QED
  BY <1>1, <1>2, <1>3, FilesUntouched DEF Crash

\* A handler that gives up, as after a failed write of the state.
LEMMA HandlerDropped ==
    ASSUME Inv, NEW t \in Ids, Proceed(t, NoHandler),
           nextID' = nextID, rows' = rows, results' = results, state' = state,
           clock' = clock, verified' = verified,
           \/ Costs({"state"})
           \/ handlers[t].step # "phaseB" /\ budget' = budget
    PROVE  StepHolds
<1>1. /\ budget' \in Budget /\ budget'.planner = budget.planner
      /\ budget'.faults = 0 => budget.faults = 0 /\ handlers[t].step # "phaseB"
  BY Paid DEF Inv, TypeInv
<1>2. /\ handlers' \in [Ids -> Handler] /\ handlers'[t] = NoHandler
      /\ \A d \in Ids \ {t} : handlers'[d] = handlers[d]
      /\ \A d \in Ids : handlers'[d].sync # "dead_letter"
      /\ suspects' = suspects
  BY HandlerSet, NoHandlerIs DEF Inv, TypeInv
<1>3. TypeInv'
  BY <1>1, <1>2 DEF Inv, TypeInv
<1> QED
  BY <1>1, <1>2, <1>3, FilesUntouched

LEMMA PhaseBFailsStep == ASSUME Inv, NEW t \in Ids, ResultWritePhaseBFails(t) PROVE StepHolds
BY HandlerDropped DEF ResultWritePhaseBFails

LEMMA VerifyFailsStep == ASSUME Inv, NEW t \in Ids, VerifyFails(t) PROVE StepHolds
BY HandlerDropped DEF VerifyFails


LEMMA R4Step == ASSUME Inv, R4PlanStatus PROVE StepHolds
<1>0. clock \in Clock /\ state \in CommandState /\ budget \in Budget
  BY DEF Inv, TypeInv
<1>1. /\ rows' = rows /\ results' = results /\ handlers' = handlers /\ nextID' = nextID
      /\ suspects' = suspects /\ verified' = verified
  BY DEF R4PlanStatus
<1>2. \/ state' = state /\ clock' = clock /\ budget' = budget
      \/ \E outcome \in {"completed", "failed", "cancelled"}, lost \in SUBSET {"state"} :
            Costs(lost) /\ WriteState([state EXCEPT !.plan = outcome], lost)
  BY DEF R4PlanStatus
<1>3. /\ \E p \in {"sealed", "completed", "failed", "cancelled"} :
            state' = [state EXCEPT !.plan = p]
      /\ clock' \in Clock /\ clock'.age = clock.age
      /\ budget' \in Budget /\ budget'.planner = budget.planner
      /\ budget'.faults = 0 => budget.faults = 0
  <2>1. state = [state EXCEPT !.plan = state.plan]
        /\ state.plan \in {"sealed", "completed", "failed", "cancelled"}
    BY <1>0 DEF CommandState
  <2>2. CASE state' = state /\ clock' = clock /\ budget' = budget
    BY <2>1, <2>2, <1>0
  <2>3. ASSUME NEW outcome \in {"completed", "failed", "cancelled"}, NEW lost,
               Costs(lost), WriteState([state EXCEPT !.plan = outcome], lost)
        PROVE  /\ \E p \in {"sealed", "completed", "failed", "cancelled"} :
                     state' = [state EXCEPT !.plan = p]
               /\ clock' \in Clock /\ clock'.age = clock.age
               /\ budget' \in Budget /\ budget'.planner = budget.planner
               /\ budget'.faults = 0 => budget.faults = 0
    <3>1. state' = [state EXCEPT !.plan = outcome] \/ state' = state
      BY <2>3, <1>0, Written
    <3>2. clock' \in Clock /\ clock'.age = clock.age
      BY <2>3, <1>0, Written
    <3>3. /\ budget' \in Budget /\ budget'.planner = budget.planner
          /\ budget'.faults = 0 => budget.faults = 0
      BY <2>3, <1>0, Paid
    <3> QED
      BY <3>1, <3>2, <3>3, <2>1
  <2> QED
    BY <1>2, <2>2, <2>3
<1>4. /\ state' \in CommandState /\ state'.status = state.status
      /\ state'.marker = state.marker /\ state'.lineage = state.lineage
      /\ state'.required = state.required /\ state'.optional = state.optional
      /\ state'.applied = state.applied
      /\ state'.phaseTasks = state.phaseTasks /\ state'.phase = state.phase
  BY <1>0, <1>3 DEF CommandState
<1>5. TypeInv'
  BY <1>1, <1>3, <1>4 DEF Inv, TypeInv
<1> QED
  BY <1>1, <1>3, <1>4, <1>5, FilesUntouched

\* The row of a settled task is overwritten with another final status.
LEMMA SyncStep == ASSUME Inv, NEW t \in Ids, SyncQueueStatus(t) PROVE StepHolds
<1> USE DEF Inv
<1>0. /\ handlers[t].step = "sync" /\ state' = state /\ results' = results /\ nextID' = nextID
      /\ clock' = clock /\ budget' = budget /\ verified' = verified
      /\ rows' = IF HasRow(t) THEN [rows EXCEPT ![t].status = handlers[t].sync] ELSE rows
      /\ Proceed(t, NoHandler)
  BY DEF SyncQueueStatus
<1>1. handlers[t].sync \in Done
  <2>1. handlers[t] \in Handler /\ handlers[t].sync # "dead_letter"
    BY DEF TypeInv
  <2> QED
    BY <2>1 DEF Handler, TerminalStatuses, Done
<1>2. /\ rows' \in [Ids -> Row] /\ rows'[t].retries = rows[t].retries
      /\ rows'[t].gated = rows[t].gated
      /\ rows[t].status \in Done => rows'[t].status \in Done
      /\ rows[t].status = "absent" => rows'[t].status = "absent"
      /\ rows'[t].status = "live" => rows[t].status = "live"
      /\ rows'[t].status = "absent" => rows[t].status = "absent"
      /\ \A d \in Ids \ {t} : rows'[d] = rows[d]
  <2>1. rows \in [Ids -> Row] /\ rows[t] \in Row
    BY DEF TypeInv
  <2>2. [rows[t] EXCEPT !.status = handlers[t].sync] \in Row
    BY <1>1, <2>1 DEF Row, Done, TerminalStatuses
  <2>3. CASE HasRow(t)
    <3>1. rows' = [rows EXCEPT ![t] = [rows[t] EXCEPT !.status = handlers[t].sync]]
      BY <1>0, <2>3
    <3>2. /\ rows' \in [Ids -> Row] /\ rows'[t] = [rows[t] EXCEPT !.status = handlers[t].sync]
          /\ \A d \in Ids \ {t} : rows'[d] = rows[d]
      BY <2>1, <2>2, <3>1
    <3>3. /\ rows'[t].status = handlers[t].sync /\ rows'[t].retries = rows[t].retries
          /\ rows'[t].gated = rows[t].gated
      BY <2>1, <3>2 DEF Row
    <3> QED
      BY <3>2, <3>3, <2>3, <1>1 DEF HasRow, Done
  <2>4. CASE ~HasRow(t)
    BY <1>0, <2>1, <2>4
  <2> QED
    BY <2>3, <2>4
<1>3. /\ handlers' \in [Ids -> Handler] /\ handlers'[t] = NoHandler
      /\ \A d \in Ids \ {t} : handlers'[d] = handlers[d]
      /\ \A d \in Ids : handlers'[d].sync # "dead_letter"
      /\ suspects' = suspects
  BY <1>0, HandlerSet, NoHandlerIs DEF TypeInv
<1>4. TypeInv'
  BY <1>0, <1>2, <1>3 DEF TypeInv
<1>5. \A d \in Ids : Bystands(d)
  BY <1>0, <1>2, <1>3 DEF Bystands, StatusMoves, FilesInv, TaskFits, Fits
<1>6. \A d \in Ids : StaysBlank(d) /\ MarkerStays(d) /\ RowSettles(d)
  BY <1>0, <1>2, <1>3, NoHandlerIs DEF StaysBlank, Blank, MarkerStays, RowSettles
<1>7. \A d \in Ids : SameKnown(d) /\ (MayRun(d)' => MayRun(d))
  BY <1>0, <1>2, <1>3, NoHandlerIs DEF SameKnown, MayRun
<1>8. NoTask \notin Ids
  BY IdsAre
<1>11. PhaseRests /\ \A d \in Ids : TerminalKept(d)
  BY <1>0 DEF PhaseRests, TerminalKept
<1>9. FilesInv' /\ OneInv' /\ MembersInv'
  BY <1>0, <1>4, <1>5, <1>6, <1>7, <1>8, <1>11, PlainStep
<1>10. NothingLost'
  BY <1>0, <1>2, <1>3, NoHandlerIs DEF NothingLost
<1> QED
  BY <1>4, <1>6, <1>9, <1>10, <1>11, NoMarkerComes DEF StepHolds

LEMMA ReportStep == ASSUME Inv, NEW t \in Ids, ReportResult(t) PROVE StepHolds
<1> USE DEF Inv
<1>0. /\ rows[t].status = "live" /\ results[t].status = "none"
      /\ state.status[t] # "none" /\ t \notin state.applied
      /\ state' = state /\ clock' = clock /\ budget' = budget /\ verified' = verified
  BY DEF ReportResult
<1>1. PICK status \in {"completed", "failed"}, retry \in BOOLEAN :
        /\ retry => status = "failed" /\ rows[t].retries < MaxRetries /\ nextID \in Ids
        /\ results' = [results EXCEPT ![t].status = status]
        /\ rows' = [rows EXCEPT ![t].status = status]
        /\ nextID' = IF retry THEN nextID + 1 ELSE nextID
        /\ Proceed(t, [NoHandler EXCEPT !.step = "phaseB",
                                        !.replacement = IF retry THEN nextID ELSE NoTask])
  BY DEF ReportResult
<1> DEFINE h == [NoHandler EXCEPT !.step = "phaseB",
                                  !.replacement = IF retry THEN nextID ELSE NoTask]
<1>2. /\ h \in Handler /\ h.step = "phaseB" /\ h.sync # "dead_letter"
      /\ h.replacement = IF retry THEN nextID ELSE NoTask
  BY <1>1 DEF NoHandler, Handler, TerminalStatuses
<1> HIDE DEF h
<1>3. /\ handlers' \in [Ids -> Handler] /\ handlers'[t] = h
      /\ \A d \in Ids \ {t} : handlers'[d] = handlers[d]
      /\ \A d \in Ids : handlers'[d].sync # "dead_letter"
      /\ suspects' = suspects
  BY <1>1, <1>2, HandlerSet DEF TypeInv, h
<1>4. /\ rows' \in [Ids -> Row] /\ rows'[t].status = status
      /\ rows'[t].retries = rows[t].retries /\ rows'[t].gated = rows[t].gated
      /\ \A d \in Ids \ {t} : rows'[d] = rows[d]
  BY <1>1 DEF TypeInv, Row, TerminalStatuses
<1>5. /\ results' \in [Ids -> ResultEntry] /\ results'[t].status = status
      /\ results'[t].stamped = results[t].stamped
      /\ \A d \in Ids \ {t} : results'[d] = results[d]
  BY <1>1 DEF TypeInv, ResultEntry
<1>6. nextID \in Nat /\ nextID' \in {nextID, nextID + 1} /\ nextID' \in 1 .. MaxTasks
  BY <1>1, IdsAre DEF TypeInv, Ids
<1>7. TypeInv'
  BY <1>0, <1>3, <1>4, <1>5, <1>6 DEF TypeInv
<1>8. handlers[t].step = "none"
  BY <1>0 DEF FilesInv, TaskFits, Fits, Done
<1>9. \A d \in Ids \ {t} : Bystands(d)
  BY <1>0, <1>3, <1>4, <1>5 DEF Bystands, StatusMoves, FilesInv, TaskFits, Fits
<1>10. \A d \in Ids : StaysBlank(d) /\ MarkerStays(d) /\ RowSettles(d)
  BY <1>0, <1>3, <1>4, <1>5 DEF StaysBlank, Blank, MarkerStays, RowSettles, Done
<1>11. \A d \in Ids : SameKnown(d) /\ (MayRun(d)' => MayRun(d))
  BY <1>0, <1>3, <1>4, <1>5 DEF SameKnown, MayRun
<1>12. TaskFits(t)'
  <2>1. /\ rows[t].retries <= MaxRetries /\ clock.age[t] = 0 /\ ~results[t].stamped
        /\ state.status[t] \notin {"verify_pending", "completed"}
    BY <1>0 DEF FilesInv, TaskFits, Fits
  <2> QED
    BY <1>0, <1>1, <1>2, <1>3, <1>4, <1>5, <2>1 DEF TaskFits, Fits, Done
<1>13. Reserves(t)
  BY <1>1, <1>2, <1>3 DEF Reserves
<1>14. FilesInv'
  <2>1. NoTask \notin Ids
    BY IdsAre
  <2> QED
    BY <1>6, <1>7, <1>9, <1>10, <1>12, <1>13, <2>1, FilesStep
<1>15. OneInv'
  BY <1>0, <1>11, ChainKept, LineageType
<1>16. NothingLost'
  BY <1>0, <1>2, <1>3, <1>4, <1>5 DEF NothingLost
<1>17. MembersInv' /\ \A d \in Ids : TerminalKept(d)
  BY <1>0 DEF MembersInv, PhaseDone, TerminalKept
<1> QED
  BY <1>7, <1>10, <1>14, <1>15, <1>16, <1>17, NoMarkerComes DEF StepHolds


-----------------------------------------------------------------------------
(* Phase B of the result write.                                             *)

\* Nothing of the plan but statuses, reasons and the status of the phase differs.
SameMembers(s, s2) ==
    /\ s2.marker = s.marker /\ s2.lineage = s.lineage
    /\ s2.required = s.required /\ s2.optional = s.optional
    /\ s2.phaseTasks = s.phaseTasks

SameLinks(s, s2) == SameMembers(s, s2) /\ s2.phase = s.phase

Closes(x, y) == y = x \/ (x \notin TerminalStatuses \cup {"none"} /\ y = "cancelled")

LEMMA OriginalClosed ==
    ASSUME NEW s \in CommandState, NEW original \in Ids \cup {NoTask},
           NEW s2, s2 = CloseOriginal(s, original)
    PROVE  /\ s2 \in CommandState /\ SameLinks(s, s2) /\ s2.applied = s.applied
           /\ \A d \in Ids : Closes(s.status[d], s2.status[d])
<1>1. CASE s2 = s
  BY <1>1 DEF SameLinks, SameMembers, Closes
<1>2. CASE /\ original \in Ids /\ ~IsTerminal(s.status[original])
           /\ s.status[original] # "none"
           /\ s2 = [s EXCEPT !.status[original] = "cancelled"]
  <2> DEFINE f == [s.status EXCEPT ![original] = "cancelled"]
  <2>1. s.status \in [Ids -> TaskStatuses \cup {"none"}]
    BY DEF CommandState
  <2>2. f \in [Ids -> TaskStatuses \cup {"none"}]
    BY <1>2, <2>1 DEF TaskStatuses, TerminalStatuses
  <2>3. \A d \in Ids : Closes(s.status[d], f[d])
    BY <1>2, <2>1 DEF Closes, IsTerminal
  <2>4. s2 = [s EXCEPT !.status = f]
    BY <1>2
  <2> HIDE DEF f
  <2>5. s2 \in CommandState /\ SameLinks(s, s2) /\ s2.applied = s.applied /\ s2.status = f
    BY <2>2, <2>4 DEF CommandState, SameLinks, SameMembers
  <2> QED
    BY <2>3, <2>5
<1> QED
  BY <1>1, <1>2 DEF CloseOriginal

\* The status Phase B gives a task that is not settled yet.
LEMMA Progressed ==
    ASSUME TypeInv, NEW t \in Ids, NEW retry \in BOOLEAN, results[t].status # "none",
           retry => results[t].status = "failed", state.status[t] # "none",
           NEW s2, s2 = TaskStateProgression(state, t,
                            ResolveRecordedStatus(state, t, results[t].status), retry)
    PROVE  /\ s2 \in CommandState /\ SameLinks(state, s2) /\ s2.applied = state.applied
           /\ \A d \in Ids \ {t} : s2.status[d] = state.status[d]
           /\ IsTerminal(state.status[t]) => s2.status[t] = state.status[t]
           /\ ~IsTerminal(state.status[t]) =>
                /\ s2.status[t] \in {"verify_pending", "cancelled", "paused_for_replan"}
                /\ s2.status[t] = "verify_pending" => results[t].status = "completed"
           /\ retry => IsTerminal(s2.status[t])
<1> DEFINE recorded == ResolveRecordedStatus(state, t, results[t].status)
<1>0. /\ state \in CommandState /\ results[t].status \in {"completed", "failed"}
      /\ state.status \in [Ids -> TaskStatuses \cup {"none"}]
  <2>1. results[t] \in ResultEntry /\ state \in CommandState
    BY DEF TypeInv
  <2> QED
    BY <2>1 DEF ResultEntry, CommandState
<1>1. CASE IsTerminal(state.status[t])
  BY <1>0, <1>1 DEF TaskStateProgression, SameLinks, SameMembers
<1>2. CASE ~IsTerminal(state.status[t])
  <2>1. \/ recorded = "cancelled"
        \/ recorded = results[t].status
    BY <1>2 DEF ResolveRecordedStatus
  <2>2. \/ /\ s2 = [state EXCEPT !.status[t] = "verify_pending"]
           /\ ~retry /\ results[t].status = "completed"
        \/ s2 = [state EXCEPT !.status[t] = "cancelled"]
        \/ s2 = [state EXCEPT !.status[t] = "cancelled", !.superseded = @ \cup {t}]
        \/ s2 = [state EXCEPT !.status[t] = "paused_for_replan"] /\ ~retry
    <3>1. CASE recorded = "cancelled"
      BY <1>2, <3>1 DEF TaskStateProgression
    <3>2. CASE recorded = "completed"
      BY <1>0, <1>2, <2>1, <3>2 DEF TaskStateProgression
    <3>3. CASE recorded = "failed"
      BY <1>2, <3>3 DEF TaskStateProgression
    <3> QED
      BY <1>0, <2>1, <3>1, <3>2, <3>3
  <2>3. PICK x \in {"verify_pending", "cancelled", "paused_for_replan"}, S \in SUBSET Ids :
           /\ s2 = [state EXCEPT !.status = [state.status EXCEPT ![t] = x],
                                 !.superseded = S]
           /\ retry => x = "cancelled"
           /\ x = "verify_pending" => results[t].status = "completed"
    <3>1. state.superseded \in SUBSET Ids /\ state = [state EXCEPT !.superseded = state.superseded]
      BY <1>0 DEF CommandState
    <3>2. state.superseded \cup {t} \in SUBSET Ids
      BY <3>1
    <3>3. ASSUME NEW x, s2 = [state EXCEPT !.status[t] = x]
          PROVE  s2 = [state EXCEPT !.status = [state.status EXCEPT ![t] = x],
                                    !.superseded = state.superseded]
      BY <3>1, <3>3, <1>0 DEF CommandState
    <3>4. ASSUME s2 = [state EXCEPT !.status[t] = "cancelled", !.superseded = @ \cup {t}]
          PROVE  s2 = [state EXCEPT !.status = [state.status EXCEPT ![t] = "cancelled"],
                                    !.superseded = state.superseded \cup {t}]
      BY <3>4
    <3> DEFINE Is(x, S) == s2 = [state EXCEPT !.status = [state.status EXCEPT ![t] = x],
                                              !.superseded = S]
    <3>5. \/ Is("verify_pending", state.superseded) /\ ~retry /\ results[t].status = "completed"
          \/ Is("cancelled", state.superseded)
          \/ Is("cancelled", state.superseded \cup {t})
          \/ Is("paused_for_replan", state.superseded) /\ ~retry
      BY <2>2, <3>3, <3>4
    <3>6. \E x \in {"verify_pending", "cancelled", "paused_for_replan"}, S \in SUBSET Ids :
              /\ Is(x, S) /\ (retry => x = "cancelled")
              /\ x = "verify_pending" => results[t].status = "completed"
      <4> HIDE DEF Is
      <4> QED
        BY <3>1, <3>2, <3>5
    <3> QED
      BY <3>6
  <2> DEFINE f == [state.status EXCEPT ![t] = x]
  <2>4. /\ f \in [Ids -> TaskStatuses \cup {"none"}] /\ f[t] = x
        /\ \A d \in Ids \ {t} : f[d] = state.status[d]
    BY <1>0, <2>3 DEF TaskStatuses, TerminalStatuses
  <2>5. s2 = [state EXCEPT !.status = f, !.superseded = S]
    BY <2>3
  <2> HIDE DEF f
  <2>6. /\ s2 \in CommandState /\ SameLinks(state, s2) /\ s2.applied = state.applied
        /\ s2.status = f
    <3>1. S \in SUBSET Ids
      BY <2>3
    <3>2. s2 \in CommandState
      BY <1>0, <2>4, <2>5, <3>1 DEF CommandState
    <3>3. s2.applied = state.applied /\ s2.status = f
      BY <1>0, <2>5 DEF CommandState
    <3>4. SameLinks(state, s2)
      BY <1>0, <2>5 DEF CommandState, SameLinks, SameMembers
    <3> QED
      BY <3>2, <3>3, <3>4
  <2> QED
    BY <1>2, <2>3, <2>4, <2>6 DEF IsTerminal, TerminalStatuses
<1> QED
  BY <1>1, <1>2

LEMMA PhaseBStep == ASSUME Inv, NEW t \in Ids, ResultWritePhaseB(t) PROVE StepHolds
<1> USE DEF Inv
<1> DEFINE recorded   == ResolveRecordedStatus(state, t, results[t].status)
           retry      == handlers[t].replacement # NoTask
           progressed == TaskStateProgression(state, t, recorded, retry)
           verify     == t \notin state.applied /\ progressed.status[t] = "verify_pending"
           entered    == [progressed EXCEPT !.applied = @ \cup {t}]
           updated    == CloseOriginal(entered, rows[t].original)
           step       == IF retry THEN "register" ELSE IF verify THEN "verify" ELSE "none"
           h          == [handlers[t] EXCEPT !.step = step]
<1>0. /\ handlers[t].step = "phaseB"
      /\ UpdateState(IF t \in state.applied THEN state ELSE updated)
      /\ Proceed(t, h)
      /\ rows' = rows /\ results' = results /\ nextID' = nextID /\ budget' = budget
      /\ verified' = verified
  BY DEF ResultWritePhaseB
<1>1. Fits(state.status[t], rows[t], results[t], handlers[t], clock.age[t],
           t \in state.applied)
  BY DEF FilesInv, TaskFits
<1>2. /\ rows[t].status \in Done /\ results[t].status # "none" /\ state.status[t] # "none"
      /\ t \notin state.applied /\ clock.age[t] = 0 /\ ~results[t].stamped
      /\ state.status[t] # "verify_pending"
      /\ retry => results[t].status = "failed" /\ rows[t].retries < MaxRetries
      /\ rows[t].retries <= MaxRetries
  BY <1>0, <1>1 DEF Fits
<1>3. /\ clock \in Clock /\ state \in CommandState /\ rows[t].original \in Ids \cup {NoTask}
      /\ handlers[t] \in Handler /\ handlers[t].sync # "dead_letter"
  <2>1. rows[t] \in Row
    BY DEF TypeInv
  <2> QED
    BY <2>1 DEF TypeInv, Row
<1>4. /\ progressed \in CommandState /\ SameLinks(state, progressed)
      /\ progressed.applied = state.applied
      /\ \A d \in Ids \ {t} : progressed.status[d] = state.status[d]
      /\ IsTerminal(state.status[t]) => progressed.status[t] = state.status[t]
      /\ ~IsTerminal(state.status[t]) =>
           /\ progressed.status[t] \in {"verify_pending", "cancelled", "paused_for_replan"}
           /\ progressed.status[t] = "verify_pending" => results[t].status = "completed"
      /\ retry => IsTerminal(progressed.status[t])
  <2>1. retry \in BOOLEAN
    OBVIOUS
  <2>2. progressed = TaskStateProgression(state, t,
                         ResolveRecordedStatus(state, t, results[t].status), retry)
    OBVIOUS
  <2>3. retry => results[t].status = "failed"
    BY <1>2
  <2> HIDE DEF progressed, retry
  <2> QED
    BY <1>2, <2>1, <2>2, <2>3, Progressed
<1>5. /\ entered \in CommandState /\ SameLinks(state, entered)
      /\ entered.status = progressed.status /\ entered.applied = state.applied \cup {t}
  <2> HIDE DEF progressed
  <2> QED
    BY <1>4 DEF CommandState, SameLinks, SameMembers
<1>6. /\ updated \in CommandState /\ SameLinks(entered, updated)
      /\ updated.applied = entered.applied
      /\ \A d \in Ids : Closes(entered.status[d], updated.status[d])
  <2> HIDE DEF entered
  <2> QED
    BY <1>3, <1>5, OriginalClosed
<1>7. state' = updated /\ clock' \in Clock /\ clock'.age = clock.age
  BY <1>0, <1>2, <1>3, Saved
<1>8. /\ h \in Handler /\ h.sync # "dead_letter" /\ h.step = step
      /\ h.replacement = handlers[t].replacement
  BY <1>3 DEF Handler
<1>9. verify <=> progressed.status[t] = "verify_pending"
  BY <1>2
<1> HIDE DEF progressed, entered, updated, recorded
<1>10. /\ state' \in CommandState /\ SameLinks(state, state')
       /\ state'.applied = state.applied \cup {t}
       /\ \A d \in Ids \ {t} : Closes(state.status[d], state'.status[d])
       /\ IsTerminal(state.status[t]) => state'.status[t] = state.status[t]
       /\ ~IsTerminal(state.status[t]) =>
            /\ state'.status[t] \in {"verify_pending", "cancelled", "paused_for_replan"}
            /\ state'.status[t] = "verify_pending" => results[t].status = "completed"
       /\ retry => IsTerminal(state'.status[t])
  <2>1. Closes(progressed.status[t], state'.status[t])
    BY <1>5, <1>6, <1>7
  <2>2. state' \in CommandState /\ SameLinks(state, state') /\ state'.applied = state.applied \cup {t}
    BY <1>5, <1>6, <1>7 DEF SameLinks, SameMembers
  <2>3. \A d \in Ids \ {t} : Closes(state.status[d], state'.status[d])
    BY <1>4, <1>5, <1>6, <1>7
  <2> QED
    BY <1>4, <2>1, <2>2, <2>3 DEF Closes, IsTerminal, TerminalStatuses
<1> HIDE DEF h
<1>11. /\ handlers' \in [Ids -> Handler] /\ handlers'[t] = h
       /\ \A d \in Ids \ {t} : handlers'[d] = handlers[d]
       /\ \A d \in Ids : handlers'[d].sync # "dead_letter"
       /\ suspects' = suspects
  BY <1>0, <1>8, HandlerSet DEF TypeInv
<1>12. TypeInv'
  BY <1>0, <1>7, <1>10, <1>11 DEF TypeInv
<1>13. \A d \in Ids \ {t} : Bystands(d)
  BY <1>0, <1>7, <1>10, <1>11
  DEF Bystands, StatusMoves, Closes, TerminalStatuses, FilesInv, TaskFits, Fits
<1>14. ASSUME NEW d \in Ids PROVE StaysBlank(d) /\ MarkerStays(d) /\ RowSettles(d)
  <2>1. MarkerStays(d) /\ RowSettles(d)
    BY <1>0, <1>10 DEF MarkerStays, RowSettles, SameLinks, SameMembers
  <2>2. StaysBlank(d)
    <3>1. CASE d = t
      BY <3>1, <1>0, <1>2 DEF StaysBlank, Blank, Done
    <3>2. CASE d # t
      BY <3>2, <1>0, <1>10, <1>11 DEF StaysBlank, Blank, Closes, SameLinks, SameMembers
    <3> QED
      BY <3>1, <3>2
  <2> QED
    BY <2>1, <2>2
<1>15. ASSUME NEW d \in Ids PROVE SameKnown(d) /\ (MayRun(d)' => MayRun(d))
  <2>1. CASE d = t
    <3>1. MayRun(t)
      BY <1>0 DEF MayRun
    <3>2. state'.status[t] # "none"
      BY <1>2, <1>10
    <3> QED
      BY <2>1, <3>1, <3>2, <1>2 DEF SameKnown
  <2>2. CASE d # t
    <3>1. Closes(state.status[d], state'.status[d]) /\ handlers'[d] = handlers[d]
      BY <1>10, <1>11, <2>2
    <3> QED
      BY <3>1, <1>0, <1>10 DEF SameKnown, Closes, MayRun, SameLinks, SameMembers
  <2> QED
    BY <2>1, <2>2
<1>16. TaskFits(t)'
  <2>1. step \in {"register", "verify", "none"}
        /\ (step = "register" <=> retry)
    OBVIOUS
  <2>2. state'.status[t] # "none"
    BY <1>2, <1>10
  <2>3. state'.status[t] \in {"verify_pending", "completed"} => results[t].status = "completed"
    BY <1>1, <1>10 DEF Fits, IsTerminal, TerminalStatuses
  <2>4. h.step = "register" => IsTerminal(state'.status[t]) /\ retry
    BY <1>8, <1>10, <2>1
  <2> QED
    BY <1>0, <1>2, <1>7, <1>8, <1>10, <1>11, <2>1, <2>2, <2>3, <2>4
    DEF TaskFits, Fits, IsTerminal
<1>17. Reserves(t)
  BY <1>8, <1>11 DEF Reserves
<1>20. ASSUME NEW d \in Ids PROVE TerminalKept(d)
  BY <1>10 DEF TerminalKept, Closes, IsTerminal
<1>21. PhaseRests /\ StaysKnown(t)
  BY <1>2, <1>10 DEF PhaseRests, StaysKnown, SameLinks, SameMembers
<1>18. FilesInv' /\ OneInv' /\ MembersInv'
  <2>1. /\ state'.required = state.required /\ state'.optional = state.optional
        /\ state'.lineage = state.lineage
    BY <1>10 DEF SameLinks, SameMembers
  <2> QED
    BY <1>0, <1>12, <1>13, <1>14, <1>15, <1>16, <1>17, <1>20, <1>21, <2>1, PlainStep
<1>19. NothingLost'
  <2> SUFFICES ASSUME budget.faults = 0, NEW d \in Ids
               PROVE /\ state'.marker[d] = -1
                     /\ results[d].status # "none" /\ state'.status[d] = "planned"
                           => handlers'[d].step = "phaseB"
                     /\ rows[d].gated /\ state'.status[d] = "completed" => d \in verified
    BY <1>0 DEF NothingLost
  <2>1. /\ state.marker[d] = -1
        /\ results[d].status # "none" /\ state.status[d] = "planned"
              => handlers[d].step = "phaseB"
        /\ rows[d].gated /\ state.status[d] = "completed" => d \in verified
    BY DEF NothingLost
  <2>2. CASE d = t
    <3>1. /\ state'.status[t] # "planned"
          /\ state'.status[t] = "completed" => state.status[t] = "completed"
      BY <1>10 DEF IsTerminal, TerminalStatuses
    <3> QED
      BY <2>1, <2>2, <3>1, <1>10 DEF SameLinks, SameMembers
  <2>3. CASE d # t
    <3>1. Closes(state.status[d], state'.status[d]) /\ handlers'[d] = handlers[d]
      BY <1>10, <1>11, <2>3
    <3> QED
      BY <3>1, <2>1, <1>10 DEF SameLinks, SameMembers, Closes
  <2> QED
    BY <2>2, <2>3
<1> QED
  BY <1>12, <1>14, <1>18, <1>19, <1>20, NoMarkerComes DEF StepHolds


-----------------------------------------------------------------------------
(* Verification.                                                            *)

\* Only the status of t differs.
SetsStatus(s, s2, t, x) ==
    /\ s2 \in CommandState /\ SameLinks(s, s2) /\ s2.applied = s.applied
    /\ s2.superseded = s.superseded
    /\ s2.status[t] = x /\ \A d \in Ids \ {t} : s2.status[d] = s.status[d]

LEMMA StatusSet ==
    ASSUME NEW s \in CommandState, NEW t \in Ids, NEW x \in TaskStatuses
    PROVE  SetsStatus(s, [s EXCEPT !.status[t] = x], t, x)
<1> DEFINE s2 == [s EXCEPT !.status[t] = x]
<1> DEFINE f == [s.status EXCEPT ![t] = x]
<1>1. /\ f \in [Ids -> TaskStatuses \cup {"none"}] /\ f[t] = x
      /\ \A d \in Ids \ {t} : f[d] = s.status[d]
  BY DEF CommandState
<1>2. s2 = [s EXCEPT !.status = f]
  OBVIOUS
<1> HIDE DEF f, s2
<1>3. /\ s2 \in CommandState /\ SameLinks(s, s2) /\ s2.applied = s.applied
      /\ s2.superseded = s.superseded /\ s2.status = f
  BY <1>1, <1>2 DEF CommandState, SameLinks, SameMembers
<1>4. SetsStatus(s, s2, t, x)
  BY <1>1, <1>3 DEF SetsStatus
<1> QED
  BY <1>4 DEF s2

\* The handlers after a step of task t's: either t's goes on with h, or there
\* was a crash.
HandlersAfter(t, step, sync) ==
    /\ handlers' \in [Ids -> Handler] /\ suspects' \subseteq Ids
    /\ \A d \in Ids : handlers'[d].sync # "dead_letter"
    /\ \A d \in Ids \ {t} : handlers'[d] = handlers[d] \/ handlers'[d] = NoHandler
    /\ handlers'[t].replacement = NoTask
    /\ \/ handlers'[t].step = step /\ \A d \in Ids \ {t} : handlers'[d] = handlers[d]
       \/ budget'.faults # 0 /\ handlers'[t].step = "none"

LEMMA StampedResult ==
    ASSUME results \in [Ids -> ResultEntry], NEW t \in Ids,
           results' = results \/ StampResult(t)
    PROVE  /\ results' \in [Ids -> ResultEntry] /\ results'[t].status = results[t].status
           /\ \A d \in Ids \ {t} : results'[d] = results[d]
BY DEF StampResult, ResultEntry

\* An outcome: x is the new status of t.
LEMMA VerifyOutcome ==
    ASSUME Inv, NEW t \in Ids, NEW x \in {"completed", "repair_pending"},
           NEW step \in {"none", "sync", "repair"},
           handlers[t].step = "verify", state.status[t] = "verify_pending",
           SaveState([state EXCEPT !.status[t] = x]),
           results' = results \/ StampResult(t),
           rows' = rows, nextID' = nextID,
           budget' \in Budget, budget'.planner = budget.planner,
           budget'.faults = 0 => budget.faults = 0,
           verified' = verified \/ verified' = verified \cup {t},
           x = "completed" /\ rows[t].gated => t \in verified',
           step = "repair" => x = "repair_pending",
           HandlersAfter(t, step, "completed")
    PROVE  StepHolds
<1> USE DEF Inv
<1>1. /\ clock \in Clock /\ state \in CommandState /\ results \in [Ids -> ResultEntry]
      /\ x \in TaskStatuses
  BY DEF TypeInv, TaskStatuses, TerminalStatuses
<1>2. /\ state' = [state EXCEPT !.status[t] = x]
      /\ clock' \in Clock /\ clock'.age = clock.age
  BY <1>1, Saved
<1>3. /\ state' \in CommandState /\ SameLinks(state, state') /\ state'.applied = state.applied
      /\ state'.status[t] = x /\ \A d \in Ids \ {t} : state'.status[d] = state.status[d]
  <2>1. SetsStatus(state, state', t, x)
    BY <1>1, <1>2, StatusSet
  <2> QED
    BY <2>1 DEF SetsStatus
<1>4. /\ results' \in [Ids -> ResultEntry] /\ results'[t].status = results[t].status
      /\ \A d \in Ids \ {t} : results'[d] = results[d]
  BY <1>1, StampedResult
<1>5. /\ rows[t].status \in Done /\ results[t].status = "completed"
      /\ rows[t].retries <= MaxRetries
  BY DEF FilesInv, TaskFits, Fits
<1>6. TypeInv'
  BY <1>2, <1>3, <1>4 DEF TypeInv, HandlersAfter
<1>7. \A d \in Ids \ {t} : Bystands(d)
  BY <1>2, <1>3, <1>4 DEF Bystands, StatusMoves, FilesInv, TaskFits, Fits, HandlersAfter
<1>8. ASSUME NEW d \in Ids PROVE StaysBlank(d) /\ MarkerStays(d) /\ RowSettles(d)
  <2>1. MarkerStays(d) /\ RowSettles(d)
    BY <1>3 DEF MarkerStays, RowSettles, SameLinks, SameMembers
  <2>2. StaysBlank(d)
    <3>1. CASE d = t
      BY <3>1, <1>5 DEF StaysBlank, Blank, Done
    <3>2. CASE d # t
      BY <3>2, <1>3, <1>4, NoHandlerIs DEF StaysBlank, Blank, SameLinks, SameMembers, HandlersAfter
    <3> QED
      BY <3>1, <3>2
  <2> QED
    BY <2>1, <2>2
<1>9. ASSUME NEW d \in Ids PROVE SameKnown(d) /\ (MayRun(d)' => MayRun(d))
  <2>1. CASE d = t
    BY <2>1, <1>3 DEF SameKnown, MayRun
  <2>2. CASE d # t
    BY <2>2, <1>3, NoHandlerIs DEF SameKnown, MayRun, SameLinks, SameMembers, HandlersAfter
  <2> QED
    BY <2>1, <2>2
<1>10. TaskFits(t)' /\ Reserves(t)
  <2>1. handlers'[t].step \in {"none", "sync", "repair"} /\ handlers'[t].replacement = NoTask
        /\ (handlers'[t].step = "repair" => x = "repair_pending")
    BY DEF HandlersAfter
  <2> QED
    BY <2>1, <1>3, <1>4, <1>5 DEF TaskFits, Fits, Reserves
<1>13. \A d \in Ids : TerminalKept(d)
  BY <1>3 DEF TerminalKept, IsTerminal, TerminalStatuses
<1>14. PhaseRests /\ StaysKnown(t)
  BY <1>3 DEF PhaseRests, StaysKnown, SameLinks, SameMembers
<1>11. FilesInv' /\ OneInv' /\ MembersInv'
  <2>1. /\ state'.required = state.required /\ state'.optional = state.optional
        /\ state'.lineage = state.lineage
    BY <1>3 DEF SameLinks, SameMembers
  <2> QED
    BY <1>6, <1>7, <1>8, <1>9, <1>10, <1>13, <1>14, <2>1, PlainStep
<1>12. NothingLost'
  <2> SUFFICES ASSUME budget'.faults = 0, NEW d \in Ids
               PROVE /\ state'.marker[d] = -1
                     /\ results'[d].status # "none" /\ state'.status[d] = "planned"
                           => handlers'[d].step = "phaseB"
                     /\ rows[d].gated /\ state'.status[d] = "completed" => d \in verified'
    BY DEF NothingLost
  <2>1. /\ state.marker[d] = -1
        /\ results[d].status # "none" /\ state.status[d] = "planned"
              => handlers[d].step = "phaseB"
        /\ rows[d].gated /\ state.status[d] = "completed" => d \in verified
    BY DEF NothingLost
  <2>2. CASE d = t
    BY <2>1, <2>2, <1>3 DEF SameLinks, SameMembers
  <2>3. CASE d # t
    BY <2>1, <2>3, <1>3, <1>4 DEF SameLinks, SameMembers, HandlersAfter
  <2> QED
    BY <2>2, <2>3
<1> QED
  BY <1>6, <1>8, <1>11, <1>12, <1>13, NoMarkerComes DEF StepHolds

LEMMA HandlerGoesOn ==
    ASSUME TypeInv, NEW t \in Ids, NEW step \in {"none", "sync", "repair"},
           NEW sync \in Done, NEW h, Proceed(t, h),
           h.step = step, h.replacement = NoTask, h.sync = sync, h \in Handler
    PROVE  HandlersAfter(t, step, sync)
<1>1. sync # "dead_letter"
  BY DEF Done
<1>2. /\ handlers' \in [Ids -> Handler] /\ handlers'[t] = h
      /\ \A d \in Ids \ {t} : handlers'[d] = handlers[d]
      /\ \A d \in Ids : handlers'[d].sync # "dead_letter"
      /\ suspects' = suspects
  BY <1>1, HandlerSet DEF TypeInv
<1> QED
  BY <1>2 DEF HandlersAfter, TypeInv

LEMMA HandlersForgotten ==
    ASSUME Restart, budget'.faults # 0, NEW t \in Ids, NEW step, NEW sync
    PROVE  HandlersAfter(t, step, sync)
<1>1. /\ \A d \in Ids : handlers'[d] = NoHandler
      /\ handlers' \in [Ids -> Handler] /\ suspects' = {}
      /\ \A d \in Ids : handlers'[d].sync # "dead_letter"
  BY Forgotten
<1> QED
  BY <1>1, NoHandlerIs DEF HandlersAfter

LEMMA VerifyStep == ASSUME Inv, NEW t \in Ids, Verify(t) PROVE StepHolds
<1>0. /\ handlers[t].step = "verify" /\ rows' = rows /\ nextID' = nextID
      /\ budget \in Budget /\ TypeInv
  BY DEF Verify, Inv, TypeInv
<1>1. CASE /\ Proceed(t, NoHandler)
           /\ UNCHANGED <<state, results, clock, budget, verified>>
  BY <1>0, <1>1, HandlerDropped
<1>2. CASE /\ state.status[t] = "verify_pending" /\ ~rows[t].gated
           /\ SaveState([state EXCEPT !.status[t] = "completed"])
           /\ StampResult(t)
           /\ Proceed(t, NoHandler)
           /\ UNCHANGED <<budget, verified>>
  <2>1. HandlersAfter(t, "none", "completed")
    <3>1. "completed" \in Done
      BY DEF Done
    <3> QED
      BY <1>0, <1>2, <3>1, NoHandlerIs, HandlerGoesOn
  <2> QED
    BY <1>0, <1>2, <2>1, VerifyOutcome
<1>3. CASE /\ state.status[t] = "verify_pending" /\ rows[t].gated
           /\ \E passed \in BOOLEAN, lost \in {"none", "stamp", "crash"} :
              /\ SaveState([state EXCEPT
                     !.status[t] = IF passed THEN "completed" ELSE "repair_pending"])
              /\ verified' = IF passed THEN verified \cup {t} ELSE verified
              /\ IF lost = "none" THEN StampResult(t) ELSE results' = results
              /\ Costs(CASE lost = "none" -> {} [] lost = "stamp" -> {"queue"}
                         [] lost = "crash" -> {"crash"})
              /\ IF lost = "crash" THEN Restart
                 ELSE Proceed(t, [NoHandler EXCEPT
                                    !.step = IF passed THEN "sync" ELSE "repair"])
  <2>1. PICK passed \in BOOLEAN, lost \in {"none", "stamp", "crash"} :
              /\ SaveState([state EXCEPT
                     !.status[t] = IF passed THEN "completed" ELSE "repair_pending"])
              /\ verified' = IF passed THEN verified \cup {t} ELSE verified
              /\ IF lost = "none" THEN StampResult(t) ELSE results' = results
              /\ Costs(CASE lost = "none" -> {} [] lost = "stamp" -> {"queue"}
                         [] lost = "crash" -> {"crash"})
              /\ IF lost = "crash" THEN Restart
                 ELSE Proceed(t, [NoHandler EXCEPT
                                    !.step = IF passed THEN "sync" ELSE "repair"])
    BY <1>3
  <2> DEFINE x == IF passed THEN "completed" ELSE "repair_pending"
             step == IF passed THEN "sync" ELSE "repair"
             kinds == CASE lost = "none" -> {} [] lost = "stamp" -> {"queue"}
                        [] lost = "crash" -> {"crash"}
  <2>2. /\ budget' \in Budget /\ budget'.planner = budget.planner
        /\ budget'.faults = 0 => budget.faults = 0 /\ kinds = {}
    BY <1>0, <2>1, Paid
  <2>3. /\ x \in {"completed", "repair_pending"} /\ step \in {"sync", "repair"}
        /\ step = "repair" => x = "repair_pending"
        /\ x = "completed" => t \in verified'
        /\ verified' = verified \/ verified' = verified \cup {t}
    BY <2>1
  <2>4. results' = results \/ StampResult(t)
    BY <2>1
  <2>5. HandlersAfter(t, step, "completed")
    <3>1. CASE lost = "crash"
      <4>1. Restart /\ kinds # {}
        BY <2>1, <3>1
      <4> HIDE DEF kinds, step
      <4> QED
        BY <4>1, <2>2, HandlersForgotten
    <3>2. CASE lost # "crash"
      <4> DEFINE h == [NoHandler EXCEPT !.step = step]
      <4>1. Proceed(t, h)
        BY <2>1, <3>2
      <4>2. /\ h \in Handler /\ h.step = step /\ h.replacement = NoTask /\ h.sync = "completed"
        BY <2>3 DEF NoHandler, Handler, TerminalStatuses
      <4>3. "completed" \in Done
        BY DEF Done
      <4> HIDE DEF h, step
      <4> QED
        BY <4>1, <4>2, <4>3, <1>0, <2>3, HandlerGoesOn
    <3> QED
      BY <3>1, <3>2
  <2>6. SaveState([state EXCEPT !.status[t] = x])
    BY <2>1
  <2> HIDE DEF x, step, kinds
  <2> QED
    BY <1>0, <1>3, <2>2, <2>3, <2>4, <2>5, <2>6, VerifyOutcome
<1> QED
  BY <1>1, <1>2, <1>3 DEF Verify


-----------------------------------------------------------------------------
(* The scan, Phase A.                                                       *)

\* The tasks of D are failed, other known tasks may be cancelled.
Settles(s, s2, D) ==
    /\ s2 \in CommandState /\ SameMembers(s, s2) /\ s2.applied = s.applied
    /\ \A t \in Ids : \/ s2.status[t] = s.status[t]
                      \/ /\ ~IsTerminal(s.status[t]) /\ s2.status[t] \in {"failed", "cancelled"}
                         /\ t \in D \/ s.status[t] # "none"
    /\ \A t \in D : IsTerminal(s2.status[t])

LEMMA DeadLettersFailed ==
    ASSUME NEW s \in CommandState, NEW D \in SUBSET Ids
    PROVE  Settles(s, FailDeadLetters(s, D), D) /\ FailDeadLetters(s, D).phase = s.phase
<1> DEFINE f == [t \in Ids |-> IF t \in D /\ ~IsTerminal(s.status[t]) THEN "failed"
                               ELSE s.status[t]]
           s2 == FailDeadLetters(s, D)
<1>1. /\ f \in [Ids -> TaskStatuses \cup {"none"}]
      /\ \A t \in Ids : f[t] = s.status[t] \/ (t \in D /\ ~IsTerminal(s.status[t]) /\ f[t] = "failed")
      /\ \A t \in D : IsTerminal(f[t])
  BY DEF CommandState, TaskStatuses, TerminalStatuses, IsTerminal
<1>2. s2 = [s EXCEPT !.status = f]
  BY DEF FailDeadLetters
<1> HIDE DEF f, s2
<1>3. s2 \in CommandState /\ SameMembers(s, s2) /\ s2.applied = s.applied /\ s2.status = f
  BY <1>1, <1>2 DEF CommandState, SameMembers
<1>4. Settles(s, s2, D)
  BY <1>1, <1>3 DEF Settles
<1>5. s2.phase = s.phase
  BY <1>2 DEF CommandState
<1> QED
  BY <1>4, <1>5 DEF s2

\* What follows the dead letters in Phase A keeps what they settled.
LEMMA SettlesThen ==
    ASSUME NEW s \in CommandState, NEW D \in SUBSET Ids, NEW s2, NEW s3 \in CommandState,
           Settles(s, s2, D), SameMembers(s2, s3), s3.applied = s2.applied,
           \A t \in Ids : \/ s3.status[t] = s2.status[t]
                          \/ /\ ~IsTerminal(s2.status[t]) /\ s2.status[t] # "none"
                             /\ s3.status[t] = "cancelled"
    PROVE  Settles(s, s3, D)
<1>1. SameMembers(s, s3) /\ s3.applied = s.applied
  BY DEF Settles, SameMembers
<1>2. ASSUME NEW t \in Ids
      PROVE  \/ s3.status[t] = s.status[t]
             \/ /\ ~IsTerminal(s.status[t]) /\ s3.status[t] \in {"failed", "cancelled"}
                /\ t \in D \/ s.status[t] # "none"
  <2>1. CASE s3.status[t] = s2.status[t]
    BY <2>1 DEF Settles
  <2>2. CASE /\ ~IsTerminal(s2.status[t]) /\ s2.status[t] # "none"
             /\ s3.status[t] = "cancelled"
    <3>1. s2.status[t] = s.status[t]
      BY <2>2 DEF Settles, IsTerminal, TerminalStatuses
    <3> QED
      BY <2>2, <3>1
  <2> QED
    BY <2>1, <2>2
<1>3. ASSUME NEW t \in D PROVE IsTerminal(s3.status[t])
  BY DEF Settles, IsTerminal, TerminalStatuses
<1> QED
  BY <1>1, <1>2, <1>3 DEF Settles

\* The walk along the newest replacements stays at a task without one.
LEMMA WalkStays ==
    ASSUME NEW s, NEW t, Successors(s, t) = {}
    PROVE  LatestDescendant(s, t) = t /\ EffectiveStatus(s, t) = s.status[t]
<1> DEFINE Walk(g) == g = [n \in 0 .. MaxTasks |-> IF n = 0 THEN t
                                                   ELSE IF Successors(s, g[n - 1]) = {}
                                                        THEN g[n - 1]
                                                        ELSE Newest(Successors(s, g[n - 1]))]
           step == CHOOSE g : Walk(g)
           Good == {n \in 0 .. MaxTasks : step[n] = t}
<1>1. LatestDescendant(s, t) = step[MaxTasks]
  BY DEF LatestDescendant
<1>2. MaxTasks \in Nat
  BY IdsAre
<1>3. Walk([n \in 0 .. MaxTasks |-> t])
  <2> DEFINE g == [n \in 0 .. MaxTasks |-> t]
  <2>1. ASSUME NEW n \in 0 .. MaxTasks
        PROVE  t = IF n = 0 THEN t
                   ELSE IF Successors(s, g[n - 1]) = {} THEN g[n - 1]
                        ELSE Newest(Successors(s, g[n - 1]))
    <3>1. n # 0 => n - 1 \in 0 .. MaxTasks
      BY <1>2
    <3>2. n # 0 => g[n - 1] = t
      BY <3>1
    <3> QED
      BY <3>2
  <2> QED
    BY <2>1
<1>4. Walk(step)
  BY <1>3
<1> HIDE DEF step
<1>5. 0 \in Good
  BY <1>2, <1>4
<1>6. ASSUME NEW n \in 1 .. MaxTasks, n - 1 \in Good PROVE n \in Good
  <2>1. n \in 0 .. MaxTasks /\ n # 0 /\ step[n - 1] = t
    BY <1>2, <1>6
  <2>2. step[n] = IF Successors(s, step[n - 1]) = {} THEN step[n - 1]
                  ELSE Newest(Successors(s, step[n - 1]))
    BY <1>4, <2>1
  <2> QED
    BY <2>1, <2>2
<1>7. step[MaxTasks] = t
  <2>1. Good \in SUBSET (0 .. MaxTasks)
    OBVIOUS
  <2>2. MaxTasks \in 0 .. MaxTasks
    BY <1>2
  <2>3. Good = 0 .. MaxTasks
    <3> HIDE DEF Good
    <3> QED
      BY <1>2, <1>5, <1>6, <2>1, StepByStep
  <2> QED
    BY <2>2, <2>3
<1> QED
  BY <1>1, <1>7 DEF EffectiveStatus

\* A phase completes when its required tasks have, replacements counted.
MovesPhase(s, s2) ==
    /\ s2 \in CommandState /\ SameMembers(s, s2) /\ s2.applied = s.applied
    /\ s2.status = s.status
    /\ s2.phase = "completed" =>
         \/ s.phase = "completed"
         \/ \A t \in s.required \cap s.phaseTasks : EffectiveStatus(s, t) = "completed"

LEMMA PhasesMoved ==
    ASSUME NEW s \in CommandState
    PROVE  MovesPhase(s, PhaseTransitions(s))
<1> DEFINE outcome == ActivePhaseOutcome(s)
           s2 == PhaseTransitions(s)
<1>1. outcome \in {"failed", "cancelled", "completed", "active"}
  BY DEF ActivePhaseOutcome
<1>2. outcome = "completed" =>
          \A t \in s.required \cap s.phaseTasks : EffectiveStatus(s, t) = "completed"
  <2> DEFINE done == s.phaseTasks \cap s.required
  <2>1. outcome = "completed" =>
          /\ \A t \in done : EffectiveStatus(s, t) \notin {"failed", "cancelled"}
          /\ \A t \in s.phaseTasks :
                 EffectiveStatus(s, t) \in {"completed", "failed", "cancelled"}
    BY DEF ActivePhaseOutcome
  <2> QED
    BY <2>1
<1> HIDE DEF outcome
<1>3. \/ s2 = s
      \/ s2 = [s EXCEPT !.phase = outcome]
  BY DEF PhaseTransitions, outcome
<1> HIDE DEF s2
<1>4. MovesPhase(s, s2)
  BY <1>1, <1>2, <1>3 DEF MovesPhase, CommandState, SameMembers
<1> QED
  BY <1>4 DEF s2

\* Tasks that are not settled may be cancelled, and the phase may fail.
ClearsPhantoms(s, s2) ==
    /\ s2 \in CommandState /\ SameMembers(s, s2) /\ s2.applied = s.applied
    /\ s2.phase = "completed" => s.phase = "completed"
    /\ \A t \in Ids : \/ s2.status[t] = s.status[t]
                      \/ /\ ~IsTerminal(s.status[t]) /\ s.status[t] # "none"
                         /\ s2.status[t] = "cancelled"

LEMMA PhantomsCleared ==
    ASSUME NEW s \in CommandState, NEW seen \in SUBSET NonTerminalTasks(s)
    PROVE  ClearsPhantoms(s, ForceFailStuckPhases(ClearPhantoms(s, seen)))
<1> DEFINE cleared == seen \cap suspects \cap (s.required \cup s.optional)
           f == [t \in Ids |-> IF t \in cleared THEN "cancelled" ELSE s.status[t]]
           S == s.superseded \ cleared
           c == ClearPhantoms(s, seen)
           s2 == ForceFailStuckPhases(c)
<1>1. /\ f \in [Ids -> TaskStatuses \cup {"none"}] /\ S \in SUBSET Ids
      /\ \A t \in Ids : f[t] = s.status[t]
                        \/ (~IsTerminal(s.status[t]) /\ s.status[t] # "none" /\ f[t] = "cancelled")
  BY DEF CommandState, TaskStatuses, TerminalStatuses, NonTerminalTasks
<1>2. c = [s EXCEPT !.status = f, !.superseded = S]
  BY DEF ClearPhantoms
<1> HIDE DEF f, S, c
<1>3. /\ c \in CommandState /\ SameMembers(s, c) /\ c.applied = s.applied /\ c.status = f
      /\ c.phase = s.phase
  BY <1>1, <1>2 DEF CommandState, SameMembers
<1>4. /\ s2 \in CommandState /\ SameMembers(c, s2) /\ s2.applied = c.applied
      /\ s2.status = c.status
      /\ s2.phase = "completed" => c.phase = "completed"
  BY <1>3 DEF ForceFailStuckPhases, CommandState, SameMembers
<1> HIDE DEF s2
<1>5. SameMembers(s, s2) /\ s2.applied = s.applied /\ s2.status = f
  BY <1>3, <1>4 DEF SameMembers
<1>6. ClearsPhantoms(s, s2)
  BY <1>1, <1>3, <1>4, <1>5 DEF ClearsPhantoms
<1> QED
  BY <1>6 DEF s2, c


LEMMA PhaseAStep == ASSUME Inv, PhaseA PROVE StepHolds
<1> USE DEF Inv
<1>1. PICK D \in SUBSET {t \in Ids : rows[t].status = "live"}, stalled \in BOOLEAN,
           dead \in SUBSET {"command"}, lost \in SUBSET {"state"} :
        /\ Costs(dead \cup lost)
        /\ dead # {} => command = "in_progress"
        /\ lost # {} => D # {}
        /\ LET q        == [t \in Ids |-> IF t \in D THEN NoRow ELSE rows[t]]
               buried   == IF lost = {} THEN FailDeadLetters(state, D) ELSE state
               doomed   == IF dead # {} /\ buried.plan = "sealed"
                           THEN [buried EXCEPT !.plan = "failed"] ELSE buried
               active   == command = "in_progress" /\ dead = {}
               moved    == IF active THEN PhaseTransitions(doomed) ELSE doomed
               cleanup  == active /\ WorktreeMode /\ stalled /\ AllRowsTerminal(q)
               seen     == Phantoms(moved, q)
           IN  /\ stalled => cleanup
               /\ rows' = q
               /\ results' = [t \in Ids |->
                                IF t \in D /\ results[t].status = "none"
                                THEN [results[t] EXCEPT !.status = "failed"] ELSE results[t]]
               /\ command' = IF dead # {} THEN "dead_letter" ELSE command
               /\ UpdateState(IF cleanup
                              THEN ForceFailStuckPhases(ClearPhantoms(moved, seen))
                              ELSE moved)
               /\ suspects' = IF cleanup THEN (suspects \cup seen) \ (suspects \cap seen)
                              ELSE suspects
  BY DEF PhaseA
<1> DEFINE q        == [t \in Ids |-> IF t \in D THEN NoRow ELSE rows[t]]
           buried   == IF lost = {} THEN FailDeadLetters(state, D) ELSE state
           doomed   == IF dead # {} /\ buried.plan = "sealed"
                       THEN [buried EXCEPT !.plan = "failed"] ELSE buried
           active   == command = "in_progress" /\ dead = {}
           moved    == IF active THEN PhaseTransitions(doomed) ELSE doomed
           cleanup  == active /\ WorktreeMode /\ stalled /\ AllRowsTerminal(q)
           seen     == Phantoms(moved, q)
           final    == IF cleanup THEN ForceFailStuckPhases(ClearPhantoms(moved, seen)) ELSE moved
           E        == IF lost = {} THEN D ELSE {}
<1>2. /\ rows' = q /\ UpdateState(final)
      /\ results' = [t \in Ids |-> IF t \in D /\ results[t].status = "none"
                                   THEN [results[t] EXCEPT !.status = "failed"] ELSE results[t]]
      /\ suspects' = IF cleanup THEN (suspects \cup seen) \ (suspects \cap seen) ELSE suspects
      /\ Costs(dead \cup lost)
  BY <1>1
<1>3. /\ handlers' = handlers /\ nextID' = nextID /\ verified' = verified
  BY DEF PhaseA
<1>4. /\ state \in CommandState /\ clock \in Clock /\ budget \in Budget
      /\ D \in SUBSET Ids /\ E \in SUBSET D
  BY DEF TypeInv
<1>5. Settles(state, buried, E) /\ buried.phase = state.phase
  <2>1. CASE lost = {}
    BY <1>4, <2>1, DeadLettersFailed
  <2>2. CASE lost # {}
    BY <1>4, <2>2 DEF Settles, SameMembers
  <2> QED
    BY <2>1, <2>2
<1> HIDE DEF buried, E
<1>6. /\ doomed \in CommandState /\ SameMembers(buried, doomed)
      /\ doomed.applied = buried.applied /\ doomed.status = buried.status
      /\ doomed.phase = buried.phase
  BY <1>5 DEF Settles, CommandState, SameMembers
<1> HIDE DEF doomed
<1>24. MovesPhase(doomed, moved)
  <2>1. CASE active
    BY <1>6, <2>1, PhasesMoved
  <2>2. CASE ~active
    BY <1>6, <2>2 DEF SameMembers, MovesPhase
  <2> QED
    BY <2>1, <2>2
<1>7. /\ moved \in CommandState /\ SameMembers(doomed, moved)
      /\ moved.applied = doomed.applied /\ moved.status = doomed.status
  BY <1>24 DEF MovesPhase
<1> HIDE DEF moved
<1>8. /\ final \in CommandState /\ SameMembers(moved, final) /\ final.applied = moved.applied
      /\ final.phase = "completed" => moved.phase = "completed"
      /\ \A t \in Ids : \/ final.status[t] = moved.status[t]
                        \/ /\ ~IsTerminal(moved.status[t]) /\ moved.status[t] # "none"
                           /\ final.status[t] = "cancelled"
  <2>1. CASE cleanup
    <3>1. seen \in SUBSET NonTerminalTasks(moved)
      BY DEF Phantoms
    <3> HIDE DEF seen
    <3> QED
      BY <1>7, <2>1, <3>1, PhantomsCleared DEF ClearsPhantoms
  <2>2. CASE ~cleanup
    BY <1>7, <2>2 DEF SameMembers
  <2> QED
    BY <2>1, <2>2
<1>9. seen \in SUBSET Ids /\ suspects' \in SUBSET Ids
  BY <1>2 DEF Phantoms, NonTerminalTasks, TypeInv
<1> HIDE DEF final, seen, cleanup
<1>10. Settles(state, final, E)
  <2>1. /\ SameMembers(buried, final) /\ final.applied = buried.applied
        /\ \A t \in Ids : \/ final.status[t] = buried.status[t]
                          \/ /\ ~IsTerminal(buried.status[t]) /\ buried.status[t] # "none"
                             /\ final.status[t] = "cancelled"
    BY <1>6, <1>7, <1>8 DEF SameMembers
  <2> QED
    BY <1>4, <1>5, <1>8, <2>1, SettlesThen
<1>11. state' = final /\ clock' \in Clock /\ clock'.age = clock.age
  BY <1>2, <1>4, Saved
<1>12. /\ state' \in CommandState /\ SameMembers(state, state') /\ state'.applied = state.applied
       /\ \A t \in Ids : \/ state'.status[t] = state.status[t]
                         \/ /\ ~IsTerminal(state.status[t])
                            /\ state'.status[t] \in {"failed", "cancelled"}
                            /\ t \in E \/ state.status[t] # "none"
       /\ \A t \in E : IsTerminal(state'.status[t])
  BY <1>10, <1>11 DEF Settles
<1>13. /\ rows' \in [Ids -> Row]
       /\ \A t \in Ids : \/ rows'[t] = rows[t] /\ t \notin D
                         \/ t \in D /\ rows'[t] = NoRow /\ rows[t].status = "live"
       /\ NoRow.retries = 0 /\ NoRow.status = "absent" /\ NoRow.gated = FALSE
  <2>1. NoRow \in Row /\ NoRow.retries = 0 /\ NoRow.status = "absent" /\ NoRow.gated = FALSE
    BY DEF NoRow, Row
  <2> QED
    BY <1>2, <2>1 DEF TypeInv
<1>14. /\ results' \in [Ids -> ResultEntry]
       /\ \A t \in Ids : /\ results'[t].stamped = results[t].stamped
                         /\ \/ results'[t].status = results[t].status
                            \/ /\ results[t].status = "none" /\ t \in D
                               /\ results'[t].status = "failed"
  <2>1. \A t \in Ids : results[t] \in ResultEntry
    BY DEF TypeInv
  <2>2. \A t \in Ids : [results[t] EXCEPT !.status = "failed"] \in ResultEntry
    BY <2>1 DEF ResultEntry
  <2> QED
    BY <1>2, <2>1, <2>2 DEF ResultEntry
<1>15. /\ budget' \in Budget /\ budget'.planner = budget.planner
       /\ budget'.faults = 0 => budget.faults = 0 /\ lost = {}
  BY <1>2, <1>4, Paid
<1> HIDE DEF q
<1>16. TypeInv'
  BY <1>3, <1>9, <1>11, <1>12, <1>13, <1>14, <1>15 DEF TypeInv
<1>17. ASSUME NEW t \in Ids PROVE Bystands(t)
  <2>1. StatusMoves(state.status[t], state'.status[t])
    BY <1>12 DEF StatusMoves, TerminalStatuses, IsTerminal
  <2>2. rows'[t].retries <= MaxRetries
    BY <1>13, IdsAre DEF FilesInv, TaskFits, Fits
  <2> QED
    BY <1>3, <1>11, <1>12, <1>14, <2>1, <2>2 DEF Bystands
<1>18. ASSUME NEW t \in Ids PROVE StaysBlank(t) /\ MarkerStays(t) /\ RowSettles(t)
  <2>1. MarkerStays(t)
    BY <1>12 DEF MarkerStays, SameMembers
  <2>2. RowSettles(t)
    BY <1>13 DEF RowSettles, Done
  <2>3. StaysBlank(t)
    <3> SUFFICES ASSUME Blank(t) PROVE Blank(t)'
      BY DEF StaysBlank
    <3>1. t \notin D /\ state.status[t] = "none"
      BY DEF Blank
    <3>2. state'.status[t] = "none"
      BY <3>1, <1>4, <1>12
    <3> QED
      BY <3>1, <3>2, <1>3, <1>12, <1>13, <1>14 DEF Blank, SameMembers
  <2> QED
    BY <2>1, <2>2, <2>3
<1>19. ASSUME ~budget.planner, NEW t \in Ids PROVE SameKnown(t)
  <2>1. CASE state.status[t] # "none"
    BY <2>1, <1>12 DEF SameKnown
  <2>2. CASE state.status[t] = "none"
    <3>1. PICK m \in Ids : ChainEndsAt(m)
      BY <1>19 DEF OneInv
    <3>2. t \notin D
      BY <2>2, <3>1 DEF ChainEndsAt, MayRun
    <3> QED
      BY <2>2, <3>2, <1>4, <1>12 DEF SameKnown
  <2> QED
    BY <2>1, <2>2
<1>20. ASSUME NEW t \in Ids, MayRun(t)' PROVE MayRun(t)
  <2>1. state'.status[t] = "verify_pending" => state.status[t] = "verify_pending"
    BY <1>12
  <2>2. CASE t \in D
    BY <2>2 DEF MayRun
  <2>3. CASE t \notin D
    BY <2>1, <2>3, <1>3, <1>12, <1>13, <1>20 DEF MayRun, SameMembers
  <2> QED
    BY <2>2, <2>3
<1>23. \A t \in Ids : TerminalKept(t)
  BY <1>12 DEF TerminalKept
<1>25. PhaseRests
  <2>1. state'.phaseTasks = state.phaseTasks
    BY <1>12 DEF SameMembers
  <2>2. ASSUME state'.phase = "completed", state.phase # "completed",
               NEW t \in state'.required \cap state'.phaseTasks
        PROVE  state'.status[t] = "completed"
    <3>1. t \in doomed.required \cap doomed.phaseTasks /\ doomed.lineage = state.lineage
      BY <2>2, <1>5, <1>6, <1>12 DEF SameMembers, Settles
    <3>2. EffectiveStatus(doomed, t) = "completed"
      BY <2>2, <3>1, <1>5, <1>6, <1>8, <1>11, <1>24 DEF MovesPhase
    <3>3. t \in Ids /\ t \in state.required
      BY <2>2, <1>4, <1>12 DEF SameMembers, CommandState
    <3>4. Successors(doomed, t) = {}
      BY <3>1, <3>3 DEF MembersInv, Successors
    <3>5. doomed.status[t] = "completed"
      BY <3>2, <3>4, WalkStays
    <3> QED
      BY <3>3, <3>5, <1>7, <1>8, <1>11 DEF IsTerminal, TerminalStatuses
  <2> QED
    BY <2>1, <2>2 DEF PhaseRests, PhaseDone
<1>21. FilesInv' /\ OneInv' /\ MembersInv'
  <2>1. /\ state'.required = state.required /\ state'.optional = state.optional
        /\ state'.lineage = state.lineage
    BY <1>12 DEF SameMembers
  <2>2. NoTask \notin Ids
    BY IdsAre
  <2> QED
    BY <1>3, <1>15, <1>16, <1>17, <1>18, <1>19, <1>20, <1>23, <1>25, <2>1, <2>2, PlainStep
<1>22. NothingLost'
  <2> SUFFICES ASSUME budget'.faults = 0, NEW t \in Ids
               PROVE /\ state'.marker[t] = -1
                     /\ results'[t].status # "none" /\ state'.status[t] = "planned"
                           => handlers'[t].step = "phaseB"
                     /\ rows'[t].gated /\ state'.status[t] = "completed" => t \in verified'
    BY DEF NothingLost
  <2>1. /\ state.marker[t] = -1
        /\ results[t].status # "none" /\ state.status[t] = "planned"
              => handlers[t].step = "phaseB"
        /\ rows[t].gated /\ state.status[t] = "completed" => t \in verified
    BY <1>15 DEF NothingLost
  <2>2. E = D
    BY <1>15 DEF E
  <2>3. t \in D => state'.status[t] # "planned"
    BY <2>2, <1>12 DEF IsTerminal, TerminalStatuses
  <2>4. results'[t].status # "none" /\ state'.status[t] = "planned"
           => handlers'[t].step = "phaseB"
    BY <2>1, <2>3, <1>3, <1>12, <1>14
  <2>5. rows'[t].gated /\ state'.status[t] = "completed" => t \in verified'
    BY <2>1, <1>3, <1>12, <1>13
  <2> QED
    BY <2>1, <2>4, <2>5, <1>12 DEF SameMembers
<1> QED
  BY <1>16, <1>18, <1>21, <1>22, <1>23, NoMarkerComes DEF StepHolds


-----------------------------------------------------------------------------
(* The scan, Phase C: the patterns that create no task.                     *)

\* A step of the reconciler that settles tasks, perhaps with a crash.
LEMMA PatternStep ==
    ASSUME Inv, TypeInv', nextID' = nextID, budget'.planner = budget.planner,
           state'.required = state.required, state'.optional = state.optional,
           state'.lineage = state.lineage, PhaseRests,
           \A t \in Ids : Bystands(t) /\ MarkerStays(t) /\ RowSettles(t) /\ TerminalKept(t),
           \A t \in Ids : Blank(t) => /\ state'.status[t] = "none" /\ rows'[t].status = "absent"
                                      /\ results'[t].status = "none" /\ state'.marker[t] = -1,
           \A t \in Ids : state.status[t] # "none" => state'.status[t] # "none",
           \A t \in Ids : ~MayRun(t) /\ state.status[t] = "none" => state'.status[t] = "none",
           \A t \in Ids : MayRun(t)' => MayRun(t),
           NothingLost'
    PROVE  StepHolds
<1>1. \A t \in Ids : StaysBlank(t)
  BY NoHandlerIs DEF StaysBlank, Blank, Bystands
<1>2. ASSUME ~budget.planner, NEW t \in Ids PROVE SameKnown(t)
  <2>1. PICK m \in Ids : ChainEndsAt(m)
    BY <1>2 DEF Inv, OneInv
  <2>2. MayRun(t) => state.status[t] # "none"
    BY <2>1 DEF ChainEndsAt
  <2> QED
    BY <2>2 DEF SameKnown
<1>3. NoTask \notin Ids
  BY IdsAre
<1>4. FilesInv' /\ OneInv' /\ MembersInv'
  BY <1>1, <1>2, <1>3, PlainStep
<1> QED
  BY <1>4, NoMarkerComes DEF StepHolds, Inv

LEMMA RetryRowType ==
    ASSUME TypeInv, NEW p \in Ids
    PROVE  /\ RetryRow(p) \in Row /\ RetryRow(p).status = "live"
           /\ RetryRow(p).retries = rows[p].retries + 1
           /\ RetryRow(p).gated = rows[p].gated
<1>1. rows[p] \in Row
  BY DEF TypeInv
<1> QED
  BY <1>1 DEF RetryRow, Row

LEMMA R1Step == ASSUME Inv, R1ReEnqueue PROVE StepHolds
<1> USE DEF Inv
<1> DEFINE present == {t \in Marked(state) : HasRow(t)}
           spent   == {t \in Marked(state) \ present : state.marker[t] >= MaxEnqueue}
           source  == {t \in Marked(state) : state.lineage[t] # NoTask
                                             /\ HasRow(state.lineage[t])}
           addable == (Marked(state) \ (present \cup spent)) \cap source
           barren  == Marked(state) \ (present \cup spent \cup addable)
<1>1. PICK failed \in SUBSET addable, lost \in SUBSET {"state"} :
        /\ Costs(lost \cup IF failed = {} THEN {} ELSE {"queue"})
        /\ rows' = [t \in Ids |-> IF t \in addable \ failed
                                  THEN RetryRow(state.lineage[t]) ELSE rows[t]]
        /\ WriteState([state EXCEPT
               !.status = [t \in Ids |-> IF t \in spent THEN "dead_letter"
                                         ELSE IF t \in barren THEN "failed" ELSE @[t]],
               !.marker = [t \in Ids |-> IF t \in failed THEN @[t] + 1 ELSE -1]], lost)
  BY DEF R1ReEnqueue
<1>2. /\ results' = results /\ handlers' = handlers /\ nextID' = nextID
      /\ suspects' = suspects /\ verified' = verified
  BY DEF R1ReEnqueue
<1> DEFINE f == [t \in Ids |-> IF t \in spent THEN "dead_letter"
                               ELSE IF t \in barren THEN "failed" ELSE state.status[t]]
           mk == [t \in Ids |-> IF t \in failed THEN state.marker[t] + 1 ELSE -1]
           s2 == [state EXCEPT !.status = f, !.marker = mk]
<1>3. /\ state \in CommandState /\ clock \in Clock /\ budget \in Budget
      /\ state.status \in [Ids -> TaskStatuses \cup {"none"}]
      /\ state.marker \in [Ids -> -1 .. MaxEnqueue]
      /\ MaxEnqueue \in Nat
  BY IdsAre DEF TypeInv, CommandState
<1>4. \A t \in Ids : t \in Marked(state) <=> state.marker[t] >= 0
  BY DEF Marked
<1>5. /\ f \in [Ids -> TaskStatuses \cup {"none"}]
      /\ \A t \in Ids : \/ f[t] = state.status[t]
                        \/ /\ t \in Marked(state) /\ ~HasRow(t)
                           /\ f[t] \in {"failed", "dead_letter"}
  BY <1>3 DEF TaskStatuses, TerminalStatuses
<1>6. /\ mk \in [Ids -> -1 .. MaxEnqueue]
      /\ \A t \in Ids : t \notin failed => mk[t] = -1
      /\ \A t \in failed : t \in Marked(state) /\ ~HasRow(t)
  <2>1. ASSUME NEW t \in failed PROVE /\ t \in Ids /\ t \in Marked(state) /\ ~HasRow(t)
                                      /\ state.marker[t] + 1 \in -1 .. MaxEnqueue
    <3>1. t \in Marked(state) /\ t \notin present /\ t \notin spent
      OBVIOUS
    <3>2. t \in Ids /\ state.marker[t] >= 0 /\ ~(state.marker[t] >= MaxEnqueue) /\ ~HasRow(t)
      BY <3>1 DEF Marked
    <3> QED
      BY <3>1, <3>2, <1>3
  <2>2. -1 \in -1 .. MaxEnqueue
    BY <1>3
  <2> QED
    BY <2>1, <2>2
<1>7. /\ WriteState(s2, lost)
      /\ \A t \in Ids : \/ rows'[t] = rows[t]
                        \/ /\ t \in Marked(state) /\ ~HasRow(t) /\ state.lineage[t] \in Ids
                           /\ rows'[t] = RetryRow(state.lineage[t])
  <2>1. WriteState(s2, lost)
    BY <1>1
  <2>2. ASSUME NEW t \in addable
        PROVE  t \in Marked(state) /\ ~HasRow(t) /\ state.lineage[t] \in Ids
    <3>1. state.lineage[t] \in Ids \cup {NoTask} /\ state.lineage[t] # NoTask
      BY LineageType DEF Marked
    <3> QED
      BY <3>1
  <2> QED
    BY <1>1, <2>1, <2>2
<1>8. rows' \in [Ids -> Row]
  BY <1>1, <1>7, RetryRowType DEF TypeInv
<1>9. /\ budget' \in Budget /\ budget'.planner = budget.planner
      /\ budget'.faults = 0 => budget.faults = 0
  BY <1>1, <1>3, Paid
<1> HIDE DEF f, mk, addable, spent, barren, source, present
<1>10. /\ s2 \in CommandState /\ s2.status = f /\ s2.marker = mk
       /\ s2.lineage = state.lineage /\ s2.required = state.required
       /\ s2.optional = state.optional /\ s2.applied = state.applied
       /\ s2.phaseTasks = state.phaseTasks /\ s2.phase = state.phase
  BY <1>3, <1>5, <1>6 DEF CommandState
<1>11. /\ state' = IF lost = {} THEN s2 ELSE state
       /\ clock' \in Clock /\ clock'.age = clock.age
  BY <1>3, <1>7, Written
<1> HIDE DEF s2
<1>12. /\ state' \in CommandState
       /\ state'.lineage = state.lineage /\ state'.required = state.required
       /\ state'.optional = state.optional /\ state'.applied = state.applied
       /\ state'.phaseTasks = state.phaseTasks /\ state'.phase = state.phase
       /\ \A t \in Ids : /\ \/ state'.status[t] = state.status[t]
                            \/ /\ t \in Marked(state) /\ ~HasRow(t)
                               /\ state'.status[t] \in {"failed", "dead_letter"}
                         /\ state'.marker[t] >= 0 => t \in Marked(state)
                         /\ t \notin Marked(state) => state'.marker[t] = -1
  <2>1. CASE lost = {}
    <3>1. state' = s2
      BY <2>1, <1>11
    <3>2. \A t \in Ids : mk[t] >= 0 => t \in Marked(state)
      BY <1>6
    <3>3. \A t \in Ids : t \notin Marked(state) => mk[t] = -1
      BY <1>6
    <3> QED
      BY <3>1, <3>2, <3>3, <1>5, <1>10
  <2>2. CASE lost # {}
    <3>1. \A t \in Ids : t \notin Marked(state) => state.marker[t] = -1
      BY <1>3, <1>4
    <3> QED
      BY <2>2, <3>1, <1>3, <1>4, <1>11
  <2> QED
    BY <2>1, <2>2
<1>13. TypeInv'
  BY <1>2, <1>8, <1>9, <1>11, <1>12 DEF TypeInv
<1>14. ASSUME NEW t \in Ids
       PROVE /\ rows'[t].retries <= MaxRetries
             /\ rows[t].status # "absent" => rows'[t] = rows[t]
  <2>1. CASE rows'[t] = rows[t]
    BY <2>1 DEF FilesInv, TaskFits, Fits
  <2>2. CASE /\ t \in Marked(state) /\ ~HasRow(t) /\ state.lineage[t] \in Ids
             /\ rows'[t] = RetryRow(state.lineage[t])
    <3>1. rows[state.lineage[t]].retries < MaxRetries
      BY <2>2, <1>4 DEF FilesInv, Linked
    <3>2. /\ rows'[t].retries = rows[state.lineage[t]].retries + 1
          /\ rows[state.lineage[t]].retries \in Nat
      BY <2>2, RetryRowType DEF TypeInv, Row
    <3> QED
      BY <2>2, <3>1, <3>2, IdsAre DEF HasRow
  <2> QED
    BY <1>7, <2>1, <2>2
<1>15. ASSUME NEW t \in Ids
       PROVE  Bystands(t) /\ MarkerStays(t) /\ RowSettles(t) /\ TerminalKept(t)
  <2>1. StatusMoves(state.status[t], state'.status[t])
    BY <1>12 DEF StatusMoves, TerminalStatuses
  <2>2. Bystands(t)
    BY <2>1, <1>2, <1>11, <1>12, <1>14 DEF Bystands
  <2>3. MarkerStays(t)
    BY <1>4, <1>12 DEF MarkerStays
  <2>4. RowSettles(t)
    BY <1>14 DEF RowSettles, Done
  <2>5. TerminalKept(t)
    <3>1. state.marker[t] = -1 => t \notin Marked(state)
      BY <1>4
    <3>2. state.status[t] = "completed" => HasRow(t)
      BY DEF FilesInv, TaskFits, Fits, HasRow, Done
    <3> QED
      BY <3>1, <3>2, <1>12 DEF TerminalKept, IsTerminal, TerminalStatuses
  <2> QED
    BY <2>2, <2>3, <2>4, <2>5
<1>16. ASSUME NEW t \in Ids, Blank(t)
       PROVE /\ state'.status[t] = "none" /\ rows'[t].status = "absent"
             /\ results'[t].status = "none" /\ state'.marker[t] = -1
  <2>1. t \notin Marked(state)
    BY <1>4, <1>16 DEF Blank
  <2> QED
    BY <2>1, <1>2, <1>7, <1>12, <1>16 DEF Blank
<1>17. ASSUME NEW t \in Ids, t \in Marked(state), ~HasRow(t) PROVE MayRun(t)
  BY <1>4, <1>17 DEF MayRun, HasRow
<1>18. ASSUME NEW t \in Ids
       PROVE  /\ ~MayRun(t) /\ state.status[t] = "none" => state'.status[t] = "none"
              /\ state.status[t] # "none" => state'.status[t] # "none"
  BY <1>12, <1>17
<1>19. ASSUME NEW t \in Ids, MayRun(t)' PROVE MayRun(t)
  <2>1. CASE rows'[t] = rows[t]
    <3>1. state'.status[t] = "verify_pending" => state.status[t] = "verify_pending"
      BY <1>12
    <3>2. state'.marker[t] >= 0 => state.marker[t] >= 0
      BY <1>4, <1>12
    <3> QED
      BY <2>1, <3>1, <3>2, <1>2, <1>19 DEF MayRun
  <2>2. CASE t \in Marked(state) /\ ~HasRow(t)
    BY <2>2, <1>17
  <2> QED
    BY <2>1, <2>2, <1>7
<1>20. NothingLost'
  <2> SUFFICES ASSUME budget'.faults = 0, NEW t \in Ids
               PROVE /\ state'.marker[t] = -1
                     /\ results'[t].status # "none" /\ state'.status[t] = "planned"
                           => handlers'[t].step = "phaseB"
                     /\ rows'[t].gated /\ state'.status[t] = "completed" => t \in verified'
    BY DEF NothingLost
  <2>1. /\ state.marker[t] = -1
        /\ results[t].status # "none" /\ state.status[t] = "planned"
              => handlers[t].step = "phaseB"
        /\ rows[t].gated /\ state.status[t] = "completed" => t \in verified
    BY <1>9 DEF NothingLost
  <2>2. t \notin Marked(state)
    BY <2>1, <1>4
  <2> QED
    BY <2>1, <2>2, <1>2, <1>7, <1>12
<1>21. PhaseRests
  BY <1>12 DEF PhaseRests
<1> QED
  BY <1>2, <1>9, <1>12, <1>21, <1>13, <1>15, <1>16, <1>18, <1>19, <1>20, PatternStep


LEMMA R2Step == ASSUME Inv, R2ResultState PROVE StepHolds
<1> USE DEF Inv
<1> DEFINE old     == {t \in Ids : results[t].status # "none" /\ clock.age[t] > 0}
           late    == {t \in old : LateResult(t)}
           stamps  == {t \in old : results[t].status = "completed" /\ rows[t].gated}
           settled == {t \in stamps \ late : StampOnly(t)}
           f       == [t \in Ids |-> IF t \in late THEN results[t].status ELSE state.status[t]]
           s2      == [state EXCEPT !.status = f, !.applied = state.applied \cup late]
<1>1. PICK lost \in SUBSET {"state"} :
        /\ Costs(lost)
        /\ WriteState(s2, lost)
        /\ results' = [t \in Ids |->
                          IF t \in settled \/ (t \in stamps \cap late /\ lost = {})
                          THEN [results[t] EXCEPT !.stamped = TRUE] ELSE results[t]]
  BY DEF R2ResultState
<1>2. /\ rows' = rows /\ handlers' = handlers /\ nextID' = nextID
      /\ suspects' = suspects /\ verified' = verified
  BY DEF R2ResultState
<1>3. /\ state \in CommandState /\ clock \in Clock /\ budget \in Budget
      /\ state.status \in [Ids -> TaskStatuses \cup {"none"}]
      /\ \A t \in Ids : results[t] \in ResultEntry
  BY DEF TypeInv, CommandState
<1>4. /\ \A t \in Ids : t \in late => /\ results[t].status \in {"completed", "failed"}
                                      /\ clock.age[t] > 0 /\ state.status[t] = "planned"
      /\ \A t \in Ids : t \in settled => /\ results[t].status = "completed"
                                         /\ clock.age[t] > 0 /\ state.status[t] = "completed"
      /\ \A t \in Ids : t \in stamps => results[t].status = "completed"
      /\ late \in SUBSET Ids
  BY <1>3 DEF LateResult, StampOnly, ResultEntry
<1>5. /\ f \in [Ids -> TaskStatuses \cup {"none"}]
      /\ \A t \in Ids : f[t] = IF t \in late THEN results[t].status ELSE state.status[t]
  BY <1>3, <1>4 DEF TaskStatuses, TerminalStatuses
<1> HIDE DEF f, late, settled, stamps
<1>6. /\ s2 \in CommandState /\ s2.status = f /\ s2.marker = state.marker
      /\ s2.lineage = state.lineage /\ s2.required = state.required
      /\ s2.optional = state.optional /\ s2.applied = state.applied \cup late
      /\ s2.phaseTasks = state.phaseTasks /\ s2.phase = state.phase
  BY <1>3, <1>4, <1>5 DEF CommandState
<1>7. /\ state' = IF lost = {} THEN s2 ELSE state
      /\ clock' \in Clock /\ clock'.age = clock.age
  BY <1>1, <1>3, Written
<1> HIDE DEF s2
<1>8. /\ state' \in CommandState /\ state'.marker = state.marker
      /\ state'.lineage = state.lineage /\ state'.required = state.required
      /\ state'.optional = state.optional
      /\ state'.phaseTasks = state.phaseTasks /\ state'.phase = state.phase
      /\ \A t \in Ids : t \in state'.applied => t \in state.applied \/ t \in late
      /\ \A t \in Ids : state'.status[t] = IF t \in late /\ lost = {} THEN results[t].status
                                           ELSE state.status[t]
  BY <1>3, <1>5, <1>6, <1>7
<1>9. /\ results' \in [Ids -> ResultEntry]
      /\ \A t \in Ids : /\ results'[t].status = results[t].status
                        /\ results'[t].stamped => \/ results[t].stamped
                                                  \/ t \in settled
                                                  \/ t \in stamps /\ t \in late /\ lost = {}
  <2>1. \A t \in Ids : [results[t] EXCEPT !.stamped = TRUE] \in ResultEntry
                       /\ [results[t] EXCEPT !.stamped = TRUE].status = results[t].status
    BY <1>3 DEF ResultEntry
  <2> QED
    BY <1>1, <1>3, <2>1
<1>10. /\ budget' \in Budget /\ budget'.planner = budget.planner
       /\ budget'.faults = 0 => budget.faults = 0
  BY <1>1, <1>3, Paid
<1>11. TypeInv'
  BY <1>2, <1>7, <1>8, <1>9, <1>10 DEF TypeInv
<1>12. ASSUME NEW t \in Ids
       PROVE  Bystands(t) /\ MarkerStays(t) /\ RowSettles(t) /\ TerminalKept(t)
  <2>1. StatusMoves(state.status[t], state'.status[t])
    BY <1>4, <1>8 DEF StatusMoves, TerminalStatuses
  <2>2. results'[t].stamped =>
         \/ results[t].stamped
         \/ /\ results[t].status # "none" /\ clock.age[t] > 0
            /\ state'.status[t] \notin {"planned", "verify_pending"}
    <3>1. CASE t \in settled
      <4>1. state'.status[t] = "completed"
        BY <3>1, <1>4, <1>8
      <4> QED
        BY <3>1, <4>1, <1>4
    <3>2. CASE t \in stamps /\ t \in late /\ lost = {}
      BY <3>2, <1>4, <1>8
    <3> QED
      BY <3>1, <3>2, <1>9
  <2>3. rows'[t].retries <= MaxRetries
    BY <1>2 DEF FilesInv, TaskFits, Fits
  <2>4. Bystands(t)
    BY <2>1, <2>2, <2>3, <1>2, <1>4, <1>7, <1>8, <1>9 DEF Bystands
  <2>5. MarkerStays(t) /\ RowSettles(t)
    BY <1>2, <1>8 DEF MarkerStays, RowSettles
  <2>6. TerminalKept(t)
    BY <1>4, <1>8 DEF TerminalKept, IsTerminal, TerminalStatuses
  <2> QED
    BY <2>4, <2>5, <2>6
<1>13. ASSUME NEW t \in Ids, Blank(t)
       PROVE /\ state'.status[t] = "none" /\ rows'[t].status = "absent"
             /\ results'[t].status = "none" /\ state'.marker[t] = -1
  BY <1>2, <1>4, <1>8, <1>9, <1>13 DEF Blank
<1>14. ASSUME NEW t \in Ids
       PROVE  state'.status[t] = "none" <=> state.status[t] = "none"
  BY <1>4, <1>8
<1>15. ASSUME NEW t \in Ids, MayRun(t)' PROVE MayRun(t)
  <2>1. state'.status[t] = "verify_pending" => state.status[t] = "verify_pending"
    BY <1>4, <1>8
  <2> QED
    BY <2>1, <1>2, <1>8, <1>15 DEF MayRun
<1>16. NothingLost'
  <2> SUFFICES ASSUME budget'.faults = 0, NEW t \in Ids
               PROVE /\ state'.marker[t] = -1
                     /\ results'[t].status # "none" /\ state'.status[t] = "planned"
                           => handlers'[t].step = "phaseB"
                     /\ rows'[t].gated /\ state'.status[t] = "completed" => t \in verified'
    BY DEF NothingLost
  <2>1. /\ state.marker[t] = -1
        /\ results[t].status # "none" /\ state.status[t] = "planned"
              => handlers[t].step = "phaseB"
        /\ rows[t].gated /\ state.status[t] = "completed" => t \in verified
    BY <1>10 DEF NothingLost
  <2>2. t \notin late
    <3>1. handlers[t].step = "phaseB" => clock.age[t] = 0
      BY DEF FilesInv, TaskFits, Fits
    <3>2. t \in late => results[t].status # "none"
      BY <1>4
    <3> QED
      BY <3>1, <3>2, <2>1, <1>4
  <2> QED
    BY <2>1, <2>2, <1>2, <1>8, <1>9
<1>17. PhaseRests
  BY <1>8 DEF PhaseRests
<1> QED
  BY <1>2, <1>8, <1>10, <1>17, <1>11, <1>12, <1>13, <1>14, <1>15, <1>16, PatternStep

\* The tasks of a set change to one status.
SetsAll(s, s2, S, x) ==
    /\ s2 \in CommandState /\ SameLinks(s, s2) /\ s2.applied = s.applied
    /\ \A t \in Ids : s2.status[t] = IF t \in S THEN x ELSE s.status[t]

LEMMA StatusesSet ==
    ASSUME NEW s \in CommandState, NEW S \in SUBSET Ids,
           NEW x \in TaskStatuses, NEW s2,
           s2 = [s EXCEPT !.status = [t \in Ids |-> IF t \in S THEN x ELSE @[t]]]
    PROVE  SetsAll(s, s2, S, x)
<1> DEFINE f == [t \in Ids |-> IF t \in S THEN x ELSE s.status[t]]
<1>1. /\ f \in [Ids -> TaskStatuses \cup {"none"}]
      /\ \A t \in Ids : f[t] = IF t \in S THEN x ELSE s.status[t]
  BY DEF CommandState
<1>2. s2 = [s EXCEPT !.status = f]
  OBVIOUS
<1> HIDE DEF f
<1>3. s2 \in CommandState /\ SameLinks(s, s2) /\ s2.applied = s.applied /\ s2.status = f
  BY <1>1, <1>2 DEF CommandState, SameLinks, SameMembers
<1> QED
  BY <1>1, <1>3 DEF SetsAll

LEMMA R9OrphansStep == ASSUME Inv, R9ReclaimOrphans PROVE StepHolds
<1> USE DEF Inv
<1> DEFINE orphans == {t \in Ids : /\ state.status[t] = "repair_pending"
                                   /\ Successors(state, t) = {}
                                   /\ t \notin Marked(state)
                                   /\ clock.age[t] = 2
                                   /\ clock.quiet}
           s2 == [state EXCEPT
                   !.status = [t \in Ids |-> IF t \in orphans THEN "paused_for_replan"
                                             ELSE @[t]]]
<1>1. PICK lost \in SUBSET {"state"} : Costs(lost) /\ WriteState(s2, lost)
  BY DEF R9ReclaimOrphans
<1>2. /\ rows' = rows /\ results' = results /\ handlers' = handlers /\ nextID' = nextID
      /\ suspects' = suspects /\ verified' = verified
  BY DEF R9ReclaimOrphans
<1>3. /\ state \in CommandState /\ clock \in Clock /\ budget \in Budget
      /\ orphans \in SUBSET Ids /\ \A t \in orphans : state.status[t] = "repair_pending"
      /\ "paused_for_replan" \in TaskStatuses
  BY DEF TypeInv, TaskStatuses
<1> HIDE DEF orphans
<1>4. /\ s2 \in CommandState /\ SameLinks(state, s2) /\ s2.applied = state.applied
      /\ \A t \in Ids : s2.status[t] = IF t \in orphans THEN "paused_for_replan"
                                       ELSE state.status[t]
  <2>1. SetsAll(state, s2, orphans, "paused_for_replan")
    BY <1>3, StatusesSet
  <2> HIDE DEF s2
  <2> QED
    BY <2>1 DEF SetsAll
<1>5. /\ state' = IF lost = {} THEN s2 ELSE state
      /\ clock' \in Clock /\ clock'.age = clock.age
  BY <1>1, <1>3, Written
<1> HIDE DEF s2
<1>6. /\ state' \in CommandState /\ SameLinks(state, state') /\ state'.applied = state.applied
      /\ \A t \in Ids : \/ state'.status[t] = state.status[t]
                        \/ /\ state.status[t] = "repair_pending"
                           /\ state'.status[t] = "paused_for_replan"
  <2>1. SameLinks(state, state)
    BY DEF SameLinks, SameMembers
  <2> QED
    BY <1>3, <1>4, <1>5, <2>1
<1>7. /\ budget' \in Budget /\ budget'.planner = budget.planner
      /\ budget'.faults = 0 => budget.faults = 0
  BY <1>1, <1>3, Paid
<1>8. TypeInv'
  BY <1>2, <1>5, <1>6, <1>7 DEF TypeInv
<1>9. ASSUME NEW t \in Ids
      PROVE  Bystands(t) /\ MarkerStays(t) /\ RowSettles(t) /\ TerminalKept(t)
  <2>1. StatusMoves(state.status[t], state'.status[t])
    BY <1>6 DEF StatusMoves, TerminalStatuses
  <2>2. rows'[t].retries <= MaxRetries
    BY <1>2 DEF FilesInv, TaskFits, Fits
  <2>3. Bystands(t)
    BY <2>1, <2>2, <1>2, <1>5, <1>6 DEF Bystands
  <2>4. MarkerStays(t) /\ RowSettles(t)
    BY <1>2, <1>6 DEF MarkerStays, RowSettles, SameLinks, SameMembers
  <2>5. TerminalKept(t)
    BY <1>6 DEF TerminalKept, IsTerminal, TerminalStatuses
  <2> QED
    BY <2>3, <2>4, <2>5
<1>10. ASSUME NEW t \in Ids
       PROVE  state'.status[t] = "none" <=> state.status[t] = "none"
  BY <1>6
<1>11. ASSUME NEW t \in Ids, MayRun(t)' PROVE MayRun(t)
  <2>1. state'.status[t] = "verify_pending" => state.status[t] = "verify_pending"
    BY <1>6
  <2> QED
    BY <2>1, <1>2, <1>6, <1>11 DEF MayRun, SameLinks, SameMembers
<1>12. NothingLost'
  <2>1. \A t \in Ids : /\ state'.status[t] = "planned" => state.status[t] = "planned"
                       /\ state'.status[t] = "completed" => state.status[t] = "completed"
    BY <1>6
  <2> QED
    BY <2>1, <1>2, <1>6, <1>7 DEF NothingLost, SameLinks, SameMembers
<1>13. PhaseRests
  BY <1>6 DEF PhaseRests, SameLinks, SameMembers
<1> QED
  BY <1>2, <1>6, <1>13, <1>7, <1>8, <1>9, <1>10, <1>11, <1>12, PatternStep DEF SameLinks, SameMembers, Blank

LEMMA RowClosed ==
    ASSUME NEW q \in [Ids -> Row], NEW t \in Ids, NEW status \in Done,
           NEW q2, q2 = CloseRow(q, t, status)
    PROVE  /\ q2 \in [Ids -> Row] /\ \A d \in Ids \ {t} : q2[d] = q[d]
           /\ q2[t].retries = q[t].retries /\ q2[t].gated = q[t].gated
           /\ q[t].status # "live" => q2[t] = q[t]
           /\ q[t].status = "live" => q2[t].status = status
BY DEF CloseRow, Row, Done, TerminalStatuses

LEMMA R10Step == ASSUME Inv, R10Deadletter PROVE StepHolds
<1> USE DEF Inv
<1> DEFINE overdue == {t \in clock.stale : state.status[t] = "paused_for_replan"}
           s2 == [state EXCEPT !.status = [t \in Ids |-> IF t \in overdue THEN "failed"
                                                         ELSE @[t]]]
<1>1. /\ rows' = [t \in Ids |-> IF t \in overdue THEN CloseRow(rows, t, "failed")[t]
                                ELSE rows[t]]
      /\ \/ Costs({"crash"}) /\ SaveState(s2) /\ Restart
         \/ /\ \E lost \in SUBSET {"state"} : Costs(lost) /\ WriteState(s2, lost)
            /\ UNCHANGED <<handlers, suspects, backoff>>
      /\ results' = results /\ nextID' = nextID /\ verified' = verified
  BY DEF R10Deadletter
<1>3. /\ state \in CommandState /\ clock \in Clock /\ budget \in Budget
      /\ rows \in [Ids -> Row]
      /\ overdue \in SUBSET Ids /\ \A t \in overdue : state.status[t] = "paused_for_replan"
      /\ "failed" \in TaskStatuses
  BY DEF TypeInv, TaskStatuses, TerminalStatuses, Clock
<1> HIDE DEF overdue
<1>4. /\ s2 \in CommandState /\ SameLinks(state, s2) /\ s2.applied = state.applied
      /\ \A t \in Ids : s2.status[t] = IF t \in overdue THEN "failed" ELSE state.status[t]
  <2>1. SetsAll(state, s2, overdue, "failed")
    BY <1>3, StatusesSet
  <2> HIDE DEF s2
  <2> QED
    BY <2>1 DEF SetsAll
<1> HIDE DEF s2
<1>5. /\ state' = s2 \/ state' = state
      /\ clock' \in Clock /\ clock'.age = clock.age
      /\ budget' \in Budget /\ budget'.planner = budget.planner
      /\ budget'.faults = 0 => budget.faults = 0 /\ handlers' = handlers
      /\ handlers' \in [Ids -> Handler] /\ suspects' \subseteq Ids
      /\ \A t \in Ids : handlers'[t].sync # "dead_letter"
      /\ \A t \in Ids : handlers'[t] = handlers[t] \/ handlers'[t] = NoHandler
  <2>1. CASE Costs({"crash"}) /\ SaveState(s2) /\ Restart
    <3>1. state' = s2 /\ clock' \in Clock /\ clock'.age = clock.age
      BY <2>1, <1>3, Saved
    <3>2. budget' \in Budget /\ budget'.planner = budget.planner /\ budget'.faults # 0
      BY <2>1, <1>3, Paid
    <3>3. /\ \A t \in Ids : handlers'[t] = NoHandler
          /\ handlers' \in [Ids -> Handler] /\ suspects' = {}
          /\ \A t \in Ids : handlers'[t].sync # "dead_letter"
      BY <2>1, Forgotten
    <3> QED
      BY <3>1, <3>2, <3>3
  <2>2. CASE /\ \E lost \in SUBSET {"state"} : Costs(lost) /\ WriteState(s2, lost)
             /\ UNCHANGED <<handlers, suspects, backoff>>
    <3>1. PICK lost \in SUBSET {"state"} : Costs(lost) /\ WriteState(s2, lost)
      BY <2>2
    <3>2. (state' = s2 \/ state' = state) /\ clock' \in Clock /\ clock'.age = clock.age
      BY <3>1, <1>3, Written
    <3>3. /\ budget' \in Budget /\ budget'.planner = budget.planner
          /\ budget'.faults = 0 => budget.faults = 0
      BY <3>1, <1>3, Paid
    <3> QED
      BY <3>2, <3>3, <2>2 DEF TypeInv
  <2> QED
    BY <1>1, <2>1, <2>2
<1>6. /\ state' \in CommandState /\ SameLinks(state, state') /\ state'.applied = state.applied
      /\ \A t \in Ids : \/ state'.status[t] = state.status[t]
                        \/ /\ state.status[t] = "paused_for_replan"
                           /\ state'.status[t] = "failed"
  <2>1. SameLinks(state, state)
    BY DEF SameLinks, SameMembers
  <2> QED
    BY <1>3, <1>4, <1>5, <2>1
<1>7. /\ rows' \in [Ids -> Row]
      /\ \A t \in Ids : /\ rows'[t].retries = rows[t].retries
                        /\ rows'[t].gated = rows[t].gated
                        /\ rows[t].status # "live" => rows'[t].status = rows[t].status
                        /\ rows[t].status = "live" => rows'[t].status \in {"live", "failed"}
  <2>1. "failed" \in Done
    BY DEF Done
  <2>2. ASSUME NEW t \in Ids
        PROVE LET r == CloseRow(rows, t, "failed")[t]
              IN  /\ r \in Row /\ r.retries = rows[t].retries /\ r.gated = rows[t].gated
                  /\ rows[t].status # "live" => r.status = rows[t].status
                  /\ rows[t].status = "live" => r.status \in {"live", "failed"}
    BY <1>3, <2>1, RowClosed
  <2> QED
    BY <1>1, <1>3, <2>2
<1>8. TypeInv'
  BY <1>1, <1>5, <1>6, <1>7 DEF TypeInv
<1>9. ASSUME NEW t \in Ids
      PROVE  Bystands(t) /\ MarkerStays(t) /\ RowSettles(t) /\ TerminalKept(t)
  <2>1. StatusMoves(state.status[t], state'.status[t])
    BY <1>6 DEF StatusMoves, TerminalStatuses
  <2>2. rows'[t].retries <= MaxRetries
    BY <1>7 DEF FilesInv, TaskFits, Fits
  <2>3. Bystands(t)
    BY <2>1, <2>2, <1>1, <1>5, <1>6 DEF Bystands
  <2>4. MarkerStays(t) /\ RowSettles(t)
    BY <1>6, <1>7 DEF MarkerStays, RowSettles, SameLinks, SameMembers, Done
  <2>5. TerminalKept(t)
    BY <1>6 DEF TerminalKept, IsTerminal, TerminalStatuses
  <2> QED
    BY <2>3, <2>4, <2>5
<1>10. ASSUME NEW t \in Ids
       PROVE  state'.status[t] = "none" <=> state.status[t] = "none"
  BY <1>6
<1>11. ASSUME NEW t \in Ids, MayRun(t)' PROVE MayRun(t)
  <2>1. state'.status[t] = "verify_pending" => state.status[t] = "verify_pending"
    BY <1>6
  <2>2. /\ rows'[t].status = "live" => rows[t].status = "live"
        /\ rows'[t].status = "absent" => rows[t].status = "absent"
    BY <1>7
  <2>3. handlers'[t].step \in {"phaseB", "register", "repair"} => handlers'[t] = handlers[t]
    BY <1>5, NoHandlerIs
  <2> QED
    BY <2>1, <2>2, <2>3, <1>6, <1>11 DEF MayRun, SameLinks, SameMembers
<1>12. NothingLost'
  <2>1. \A t \in Ids : /\ state'.status[t] = "planned" => state.status[t] = "planned"
                       /\ state'.status[t] = "completed" => state.status[t] = "completed"
    BY <1>6
  <2> QED
    BY <2>1, <1>1, <1>5, <1>6, <1>7 DEF NothingLost, SameLinks, SameMembers
<1>13. ASSUME NEW t \in Ids, Blank(t)
       PROVE /\ state'.status[t] = "none" /\ rows'[t].status = "absent"
             /\ results'[t].status = "none" /\ state'.marker[t] = -1
  BY <1>1, <1>6, <1>7, <1>10, <1>13 DEF Blank, SameLinks, SameMembers
<1>14. /\ state'.required = state.required /\ state'.optional = state.optional
       /\ state'.lineage = state.lineage /\ nextID' = nextID
  BY <1>1, <1>6 DEF SameLinks, SameMembers
<1>15. PhaseRests
  BY <1>6 DEF PhaseRests, SameLinks, SameMembers
<1> QED
  BY <1>5, <1>8, <1>15, <1>9, <1>10, <1>11, <1>12, <1>13, <1>14, PatternStep


-----------------------------------------------------------------------------
(* Steps that create a task.                                                *)

\* Only t's status differs, and perhaps the reasons: it is closed, handed on or
\* left alone.
ClosesOwn(s, s2, t) ==
    /\ s2 \in CommandState /\ SameLinks(s, s2) /\ s2.applied = s.applied
    /\ \A d \in Ids \ {t} : s2.status[d] = s.status[d]
    /\ \/ s2.status[t] = s.status[t]
       \/ /\ ~IsTerminal(s.status[t])
          /\ s2.status[t] \in {"cancelled", "paused_for_replan", "repair_pending"}

LEMMA OwnClosed ==
    ASSUME NEW s \in CommandState, NEW t \in Ids
    PROVE  /\ ClosesOwn(s, s, t)
           /\ ClosesOwn(s, ToReplan(s, t), t)
           /\ ClosesOwn(s, CancelSupersededPredecessor(s, t), t)
           /\ ~IsTerminal(s.status[t]) =>
                ClosesOwn(s, [s EXCEPT !.status[t] = "repair_pending"], t)
<1>1. ClosesOwn(s, s, t)
  BY DEF ClosesOwn, SameLinks, SameMembers
<1>2. ASSUME NEW x \in {"paused_for_replan", "repair_pending"}, ~IsTerminal(s.status[t])
      PROVE ClosesOwn(s, [s EXCEPT !.status[t] = x], t)
  <2>1. x \in TaskStatuses
    BY DEF TaskStatuses
  <2>2. SetsStatus(s, [s EXCEPT !.status[t] = x], t, x)
    BY <2>1, StatusSet
  <2> QED
    BY <2>2, <1>2 DEF SetsStatus, ClosesOwn
<1>3. ClosesOwn(s, ToReplan(s, t), t)
  <2>1. s.status[t] = "repair_pending" => ~IsTerminal(s.status[t])
    BY DEF IsTerminal, TerminalStatuses
  <2> QED
    BY <1>1, <1>2, <2>1 DEF ToReplan
<1>4. ClosesOwn(s, CancelSupersededPredecessor(s, t), t)
  <2>1. CASE IsTerminal(s.status[t])
    BY <2>1, <1>1 DEF CancelSupersededPredecessor
  <2>2. CASE ~IsTerminal(s.status[t])
    <3> DEFINE f == [s.status EXCEPT ![t] = "cancelled"]
               S == s.superseded \cup {t}
               s2 == CancelSupersededPredecessor(s, t)
    <3>1. /\ f \in [Ids -> TaskStatuses \cup {"none"}] /\ f[t] = "cancelled"
          /\ \A d \in Ids \ {t} : f[d] = s.status[d]
          /\ S \in SUBSET Ids
      BY DEF CommandState, TaskStatuses, TerminalStatuses
    <3>2. s2 = [s EXCEPT !.status = f, !.superseded = S]
      BY <2>2 DEF CancelSupersededPredecessor
    <3> HIDE DEF f, S, s2
    <3>3. s2 \in CommandState /\ SameLinks(s, s2) /\ s2.applied = s.applied /\ s2.status = f
      BY <3>1, <3>2 DEF CommandState, SameLinks, SameMembers
    <3>4. ClosesOwn(s, s2, t)
      BY <2>2, <3>1, <3>3 DEF ClosesOwn
    <3> QED
      BY <3>4 DEF s2
  <2> QED
    BY <2>1, <2>2
<1> QED
  BY <1>1, <1>2, <1>3, <1>4

\* t is replaced by r: registered in the state, and enqueued if that went well.
LEMMA SpawnStep ==
    ASSUME Inv, TypeInv', NEW t \in Ids, NEW r \in Ids, t < r,
           NEW outcome \in RegisterOutcomes, NEW s0, NEW s1,
           ClosesOwn(state, s0, t), Registers(s0, s1, r, t, outcome), ClosesOwn(s1, state', t),
           MayRun(t), Blank(r), results[t].status # "none", handlers[t].step # "phaseB",
           state.status[t] \notin {"none", "completed"}, state'.status[t] # "verify_pending",
           outcome \in {"ok", "marked"} => rows[t].retries < MaxRetries,
           outcome = "marked" => {"queue", "state"} \subseteq FaultKinds,
           nextID' \in {nextID, nextID + 1}, r < nextID',
           \A u \in Ids : handlers'[u].replacement # r,
           rows'[r] = IF outcome = "ok" THEN RetryRow(t) ELSE rows[r],
           rows'[t].status \in Done, rows'[t].retries = rows[t].retries,
           rows'[t].gated = rows[t].gated,
           \A u \in Ids \ {t, r} : rows'[u] = rows[u],
           results' = results, verified' = verified, clock'.age = clock.age,
           handlers'[t].step \in {"none", "verify", "sync"}, handlers'[t].replacement = NoTask,
           \A u \in Ids \ {t} : handlers'[u] = handlers[u] \/ handlers'[u] = NoHandler,
           budget'.planner = budget.planner,
           budget'.faults = 0 => /\ budget.faults = 0 /\ outcome = "ok"
                                 /\ \A u \in Ids \ {t} : handlers'[u] = handlers[u]
    PROVE  StepHolds
<1> USE DEF Inv
<1>0. NoTask \notin Ids /\ Ids \subseteq Nat /\ r # t
  BY IdsAre
<1>1. /\ state.status[r] = "none" /\ rows[r].status = "absent" /\ results[r].status = "none"
      /\ handlers[r].step = "none" /\ state.marker[r] = -1
  BY DEF Blank
<1>2. /\ state'.applied = state.applied
      /\ \A d \in Ids \ {r} : /\ state'.marker[d] = state.marker[d]
                              /\ state'.lineage[d] = state.lineage[d]
      /\ \A d \in Ids \ {r, t} : state'.status[d] = state.status[d]
  BY DEF ClosesOwn, Registers, OnlyWires, SameLinks, SameMembers
<1>3. /\ state'.status[t] = state.status[t]
            \/ state'.status[t] \in {"cancelled", "paused_for_replan", "repair_pending"}
      /\ IsTerminal(state.status[t]) => state'.status[t] = state.status[t]
  BY <1>0 DEF ClosesOwn, Registers, OnlyWires
<1>4. /\ state'.status[r] = s1.status[r] /\ state'.marker[r] = s1.marker[r]
      /\ s0.status[r] = "none" /\ s0.marker[r] = -1
      /\ state'.lineage[r] = s1.lineage[r] /\ s0.lineage[r] = state.lineage[r]
  BY <1>1 DEF ClosesOwn, SameLinks, SameMembers
<1>5. /\ state'.status[r] = IF outcome \in Kept THEN "planned" ELSE "none"
      /\ state'.marker[r] = IF outcome = "marked" THEN 0 ELSE -1
      /\ outcome \in Kept => state'.lineage[r] = t
      /\ outcome = "refused" => state'.lineage[r] = state.lineage[r]
      /\ outcome = "rolled_back" => state'.lineage[r] = NoTask
  BY <1>4 DEF Registers, RegisterOutcomes, Kept
<1>6. /\ rows'[r].retries <= MaxRetries
      /\ rows'[r].status = IF outcome = "ok" THEN "live" ELSE "absent"
      /\ rows[t].retries <= MaxRetries
  <2>1. rows[t].retries <= MaxRetries /\ rows[r].retries <= MaxRetries
        /\ rows[t].retries \in Nat
    BY DEF FilesInv, TaskFits, Fits, TypeInv, Row
  <2> QED
    BY <2>1, <1>1, RetryRowType, IdsAre
<1>7. ASSUME NEW d \in Ids \ {t, r} PROVE Bystands(d)
  <2>1. StatusMoves(state.status[d], state'.status[d]) /\ rows'[d] = rows[d]
    BY <1>2 DEF StatusMoves
  <2>2. rows'[d].retries <= MaxRetries
    BY <2>1 DEF FilesInv, TaskFits, Fits
  <2> QED
    BY <2>1, <2>2, <1>2 DEF Bystands
<1>8. ASSUME NEW d \in Ids \ {r} PROVE StaysBlank(d) /\ MarkerStays(d)
  <2>1. MarkerStays(d)
    BY <1>2 DEF MarkerStays
  <2>2. CASE d = t
    BY <2>1, <2>2 DEF StaysBlank, Blank
  <2>3. CASE d # t
    BY <2>1, <2>3, <1>2, NoHandlerIs DEF StaysBlank, Blank
  <2> QED
    BY <2>2, <2>3
<1>9. ASSUME NEW d \in Ids PROVE RowSettles(d)
  <2>1. d = r => rows[d].status \notin Done
    BY <1>1 DEF Done
  <2> QED
    BY <2>1 DEF RowSettles
<1>10. TaskFits(t)' /\ Reserves(t)
  <2>1. Fits(state.status[t], rows[t], results[t], handlers[t], clock.age[t],
             t \in state.applied)
    BY DEF FilesInv, TaskFits
  <2>2. results[t].stamped => state'.status[t] \notin {"planned", "verify_pending"}
    BY <2>1, <1>3 DEF Fits
  <2>3. state'.status[t] # "none"
    BY <1>3
  <2>4. state'.status[t] \in {"verify_pending", "completed"} => results[t].status = "completed"
    BY <2>1, <1>3 DEF Fits
  <2> QED
    BY <2>1, <2>2, <2>3, <2>4, <1>2, <1>6 DEF Fits, TaskFits, Reserves
<1>11. /\ handlers'[r].step = "none" /\ handlers'[r].replacement = NoTask
       /\ TaskFits(r)'
  <2>1. Fits(state.status[r], rows[r], results[r], handlers[r], clock.age[r],
             r \in state.applied)
    BY DEF FilesInv, TaskFits
  <2>2. handlers'[r].step = "none" /\ handlers'[r].replacement = NoTask
    BY <1>1, <2>1, NoHandlerIs DEF Fits
  <2>3. clock.age[r] = 0 /\ ~results[r].stamped
    BY <1>1, <2>1 DEF Fits
  <2> QED
    BY <2>2, <2>3, <1>1, <1>5, <1>6 DEF TaskFits, Fits
<1>12. Linked(r)'
  <2>1. CASE outcome = "marked"
    BY <2>1, <1>5 DEF Linked, Kept
  <2>2. CASE outcome # "marked"
    BY <2>2, <1>5 DEF Linked
  <2> QED
    BY <2>1, <2>2
<1>13. FilesInv'
  BY <1>7, <1>8, <1>9, <1>10, <1>11, <1>12, FilesStep
<1>14. ~MayRun(t)'
  BY <1>2, <1>3 DEF MayRun, Done
<1>15. ASSUME NEW u \in Ids, MayRun(u)' PROVE u = r \/ (u # t /\ MayRun(u))
  BY <1>14, <1>15, <1>2, NoHandlerIs DEF MayRun
<1>16. OneInv'
  <2>1. \A u \in Ids : state.lineage[u] \in Ids \cup {NoTask}
    BY LineageType
  <2>2. \A u \in Ids \ {r} : SameKnown(u)
    BY <1>2, <1>3 DEF SameKnown
  <2>3. CASE outcome \in Kept
    <3>1. ASSUME state.required \cup state.optional = {t},
                 state.required \cap state.optional = {}
          PROVE  \/ state'.required = {r} /\ state'.optional = {}
                 \/ state'.required = {} /\ state'.optional = {r}
      <4>1. s0.required = state.required /\ s0.optional = state.optional
            /\ state'.required = s1.required /\ state'.optional = s1.optional
        BY DEF ClosesOwn, SameLinks, SameMembers
      <4>2. HandsOn(s0, s1, t, r)
        BY <2>3 DEF Registers
      <4> QED
        BY <3>1, <4>1, <4>2 DEF HandsOn
    <3>2. state'.status[r] # "none" /\ state'.lineage[r] = t
      BY <2>3, <1>5
    <3> QED
      BY <1>0, <1>1, <1>2, <1>15, <2>1, <2>2, <3>1, <3>2, ChainGrows
  <2>4. CASE outcome \notin Kept
    <3>1. ASSUME ~budget.planner
          PROVE  /\ state'.required = state.required /\ state'.optional = state.optional
                 /\ \A d \in Ids : state'.lineage[d] = state.lineage[d] /\ SameKnown(d)
      <4>1. PICK m \in Ids : ChainEndsAt(m)
        BY <3>1 DEF OneInv
      <4>2. m = t /\ state.lineage[r] = NoTask
        BY <4>1, <1>1 DEF ChainEndsAt
      <4>3. state.required \cup state.optional = {t} /\ state.required \cap state.optional = {}
        BY <4>1, <4>2 DEF ChainEndsAt
      <4>4. s0.required = state.required /\ s0.optional = state.optional
            /\ state'.required = s1.required /\ state'.optional = s1.optional
        BY DEF ClosesOwn, SameLinks, SameMembers
      <4>5. s1.required = s0.required /\ s1.optional = s0.optional
        BY <2>4, <4>3, <4>4 DEF Registers
      <4>6. state'.lineage[r] = state.lineage[r]
        BY <2>4, <4>2, <1>5 DEF RegisterOutcomes, Kept
      <4>7. SameKnown(r)
        BY <2>4, <1>1, <1>5 DEF SameKnown
      <4> QED
        BY <4>4, <4>5, <4>6, <4>7, <1>2, <2>2
    <3>2. ~MayRun(r)'
      BY <2>4, <1>5, <1>6, <1>11 DEF MayRun, Kept
    <3> QED
      BY <1>15, <2>1, <3>1, <3>2, ChainKept
  <2> QED
    BY <2>3, <2>4
<1>17. NothingLost'
  <2> SUFFICES ASSUME budget'.faults = 0, NEW d \in Ids
               PROVE /\ state'.marker[d] = -1
                     /\ results'[d].status # "none" /\ state'.status[d] = "planned"
                           => handlers'[d].step = "phaseB"
                     /\ rows'[d].gated /\ state'.status[d] = "completed" => d \in verified'
    BY DEF NothingLost
  <2>1. /\ state.marker[d] = -1
        /\ results[d].status # "none" /\ state.status[d] = "planned"
              => handlers[d].step = "phaseB"
        /\ rows[d].gated /\ state.status[d] = "completed" => d \in verified
    BY DEF NothingLost
  <2>2. CASE d = r
    BY <2>2, <1>1, <1>5 DEF Kept
  <2>3. CASE d = t
    BY <2>1, <2>3, <1>0, <1>2, <1>3
  <2>4. CASE d # r /\ d # t
    BY <2>1, <2>4, <1>2
  <2> QED
    BY <2>2, <2>3, <2>4
<1>18. ASSUME NEW d \in Ids PROVE TerminalKept(d)
  BY <1>1, <1>2, <1>3 DEF TerminalKept, IsTerminal, TerminalStatuses
<1>19. ASSUME NEW d \in Ids PROVE MarkerComes(d)
  BY <1>2, <1>5 DEF MarkerComes
<1>20. MembersInv'
  <2>1. /\ r \notin state.required /\ r \notin state.phaseTasks
        /\ state.required \subseteq Ids /\ state.phaseTasks \subseteq Ids
    BY <1>1 DEF MembersInv, TypeInv, CommandState
  <2>2. \A u \in Ids : state.lineage[u] \in Ids \cup {NoTask}
    BY LineageType
  <2>3. \A u \in Ids : StaysKnown(u)
    BY <1>1, <1>2, <1>3 DEF StaysKnown
  <2>4. /\ s0.required = state.required /\ s0.phaseTasks = state.phaseTasks
        /\ s0.phase = state.phase
        /\ state'.required = s1.required /\ state'.phaseTasks = s1.phaseTasks
        /\ state'.phase = s1.phase
    BY DEF ClosesOwn, SameLinks, SameMembers
  <2>5. CASE outcome \in Kept
    <3>1. JoinsSlot(s0, s1, r, t)
      BY <2>5 DEF Registers
    <3>2. JoinsSlot(state, state', r, t)
      BY <2>4, <3>1 DEF JoinsSlot
    <3>3. state'.status[r] # "none" /\ state'.lineage[r] = t
      BY <2>5, <1>5
    <3> QED
      BY <1>0, <1>1, <1>2, <1>18, <2>1, <2>2, <2>3, <3>2, <3>3, MembersJoin
  <2>6. CASE outcome \notin Kept
    <3>1. KeepsSlot(s0, s1)
      BY <2>1, <2>4, <2>6 DEF Registers
    <3>2. PhaseRests /\ state'.required = state.required
      BY <2>4, <3>1 DEF KeepsSlot, PhaseRests
    <3>3. \A u \in Ids : state'.lineage[u] \in {NoTask, state.lineage[u]}
      BY <2>6, <1>2, <1>5 DEF Kept, RegisterOutcomes
    <3> QED
      BY <1>18, <2>1, <2>2, <2>3, <3>2, <3>3, MembersStay
  <2> QED
    BY <2>5, <2>6
<1> QED
  BY <1>13, <1>16, <1>17, <1>18, <1>19, <1>20 DEF StepHolds


\* t is closed or handed to the planner, and nothing is created.
LEMMA CloseStep ==
    ASSUME Inv, TypeInv', NEW t \in Ids, ClosesOwn(state, state', t), MayRun(t),
           results[t].status # "none", state.status[t] # "none", handlers[t].step # "phaseB",
           rows'[t].retries = rows[t].retries, rows'[t].gated = rows[t].gated, RowSettles(t),
           \A u \in Ids \ {t} : rows'[u] = rows[u],
           handlers'[t].step # "none" => rows'[t].status \in Done,
           handlers'[t].step \in {"none", "verify", "sync"}, handlers'[t].replacement = NoTask,
           \A u \in Ids \ {t} : handlers'[u] = handlers[u] \/ handlers'[u] = NoHandler,
           nextID' = nextID, results' = results, verified' = verified,
           clock'.age = clock.age, budget'.planner = budget.planner,
           budget'.faults = 0 => /\ budget.faults = 0
                                 /\ \A u \in Ids \ {t} : handlers'[u] = handlers[u]
    PROVE  StepHolds
<1> USE DEF Inv
<1>1. /\ state'.applied = state.applied /\ SameLinks(state, state')
      /\ \A d \in Ids \ {t} : state'.status[d] = state.status[d]
      /\ state'.status[t] = state.status[t]
            \/ state'.status[t] \in {"cancelled", "paused_for_replan", "repair_pending"}
      /\ IsTerminal(state.status[t]) => state'.status[t] = state.status[t]
  BY DEF ClosesOwn
<1>2. ASSUME NEW d \in Ids \ {t} PROVE Bystands(d)
  <2>1. StatusMoves(state.status[d], state'.status[d]) /\ rows'[d] = rows[d]
    BY <1>1 DEF StatusMoves
  <2>2. rows'[d].retries <= MaxRetries
    BY <2>1 DEF FilesInv, TaskFits, Fits
  <2> QED
    BY <2>1, <2>2, <1>1 DEF Bystands
<1>3. ASSUME NEW d \in Ids PROVE StaysBlank(d) /\ MarkerStays(d) /\ RowSettles(d)
  <2>1. MarkerStays(d)
    BY <1>1 DEF MarkerStays, SameLinks, SameMembers
  <2>2. RowSettles(d)
    BY DEF RowSettles
  <2>3. StaysBlank(d)
    <3>1. CASE d = t
      BY <3>1 DEF StaysBlank, Blank
    <3>2. CASE d # t
      BY <3>2, <1>1, NoHandlerIs DEF StaysBlank, Blank, SameLinks, SameMembers
    <3> QED
      BY <3>1, <3>2
  <2> QED
    BY <2>1, <2>2, <2>3
<1>4. TaskFits(t)' /\ Reserves(t)
  <2>1. Fits(state.status[t], rows[t], results[t], handlers[t], clock.age[t],
             t \in state.applied)
    BY DEF FilesInv, TaskFits
  <2>2. results[t].stamped => state'.status[t] \notin {"planned", "verify_pending"}
    BY <2>1, <1>1 DEF Fits
  <2>3. state'.status[t] # "none"
    BY <1>1
  <2>4. /\ results[t].status = "completed" => rows'[t].status \in Done
        /\ state'.status[t] \in {"verify_pending", "completed"} => results[t].status = "completed"
    BY <2>1, <1>1 DEF Fits, RowSettles
  <2> QED
    BY <2>1, <2>2, <2>3, <2>4, <1>1 DEF Fits, TaskFits, Reserves
<1>5. ASSUME NEW d \in Ids PROVE SameKnown(d) /\ (MayRun(d)' => MayRun(d))
  <2>1. CASE d = t
    BY <2>1, <1>1 DEF SameKnown
  <2>2. CASE d # t
    BY <2>2, <1>1, NoHandlerIs DEF SameKnown, MayRun, SameLinks, SameMembers
  <2> QED
    BY <2>1, <2>2
<1>8. \A d \in Ids : TerminalKept(d)
  BY <1>1 DEF TerminalKept
<1>9. PhaseRests /\ StaysKnown(t)
  BY <1>1 DEF PhaseRests, StaysKnown, SameLinks, SameMembers
<1>6. FilesInv' /\ OneInv' /\ MembersInv'
  <2>1. NoTask \notin Ids
    BY IdsAre
  <2>2. /\ state'.required = state.required /\ state'.optional = state.optional
        /\ state'.lineage = state.lineage
    BY <1>1 DEF SameLinks, SameMembers
  <2> QED
    BY <1>2, <1>3, <1>4, <1>5, <1>8, <1>9, <2>1, <2>2, PlainStep
<1>7. NothingLost'
  <2> SUFFICES ASSUME budget'.faults = 0, NEW d \in Ids
               PROVE /\ state'.marker[d] = -1
                     /\ results'[d].status # "none" /\ state'.status[d] = "planned"
                           => handlers'[d].step = "phaseB"
                     /\ rows'[d].gated /\ state'.status[d] = "completed" => d \in verified'
    BY DEF NothingLost
  <2>1. /\ state.marker[d] = -1
        /\ results[d].status # "none" /\ state.status[d] = "planned"
              => handlers[d].step = "phaseB"
        /\ rows[d].gated /\ state.status[d] = "completed" => d \in verified
    BY DEF NothingLost
  <2>2. CASE d = t
    BY <2>1, <2>2, <1>1 DEF SameLinks, SameMembers
  <2>3. CASE d # t
    BY <2>1, <2>3, <1>1 DEF SameLinks, SameMembers
  <2> QED
    BY <2>2, <2>3
<1> QED
  BY <1>3, <1>6, <1>7, <1>8, NoMarkerComes DEF StepHolds

LEMMA FaultsOfOutcome ==
    ASSUME budget \in Budget, NEW outcome \in RegisterOutcomes, Costs(RegisterFaults(outcome))
    PROVE  /\ budget' \in Budget /\ budget'.planner = budget.planner
           /\ budget'.faults = 0 => budget.faults = 0 /\ outcome = "ok"
           /\ outcome = "marked" => {"queue", "state"} \subseteq FaultKinds
<1>1. /\ budget' \in Budget /\ budget'.planner = budget.planner
      /\ budget'.faults = 0 => budget.faults = 0 /\ RegisterFaults(outcome) = {}
      /\ RegisterFaults(outcome) \subseteq FaultKinds
  BY Paid
<1>2. /\ RegisterFaults(outcome) = {} => outcome = "ok"
      /\ outcome = "marked" => RegisterFaults(outcome) = {"queue", "state"}
  BY DEF RegisterFaults, RegisterOutcomes
<1> QED
  BY <1>1, <1>2

LEMMA Enqueued ==
    ASSUME TypeInv, NEW new \in Ids, NEW pred \in Ids, NEW outcome,
           NEW q, q = EnqueueRetry(new, pred, outcome)
    PROVE  /\ q \in [Ids -> Row]
           /\ q[new] = IF outcome = "ok" THEN RetryRow(pred) ELSE rows[new]
           /\ \A u \in Ids \ {new} : q[u] = rows[u]
BY RetryRowType DEF EnqueueRetry, TypeInv

LEMMA RegisterRetryStep == ASSUME Inv, NEW t \in Ids, RegisterRetry(t) PROVE StepHolds
<1> USE DEF Inv
<1> DEFINE r == handlers[t].replacement
<1>1. PICK outcome \in RegisterOutcomes :
        /\ Costs(RegisterFaults(outcome))
        /\ IF outcome = "refused" THEN UNCHANGED <<state, clock>>
           ELSE SaveState(RetryTaskAtomically(state, r, t, outcome))
        /\ rows' = EnqueueRetry(r, t, outcome)
        /\ IF outcome = "crash" THEN Restart ELSE Proceed(t, NoHandler)
  BY DEF RegisterRetry
<1>2. /\ handlers[t].step = "register" /\ results' = results /\ nextID' = nextID
      /\ verified' = verified
  BY DEF RegisterRetry
<1>3. /\ state \in CommandState /\ clock \in Clock /\ budget \in Budget
      /\ handlers[t] \in Handler
  BY DEF TypeInv
<1>4. /\ rows[t].status \in Done /\ results[t].status # "none" /\ state.status[t] \notin {"none", "completed"}
      /\ IsTerminal(state.status[t]) /\ rows[t].retries < MaxRetries /\ r # NoTask
  BY <1>2 DEF FilesInv, TaskFits, Fits, IsTerminal
<1>5. /\ r \in Ids /\ r < nextID /\ Blank(r)
      /\ \A u \in Ids : handlers[u].replacement = r => u = t
      /\ t < r /\ r # t /\ NoTask \notin Ids
  <2>1. r \in Ids
    BY <1>3, <1>4 DEF Handler
  <2>2. t < r /\ r < nextID /\ Blank(r) /\ \A u \in Ids : handlers[u].replacement = r => u = t
    BY <1>4 DEF FilesInv, Reserved
  <2>3. handlers[r].step = "none"
    BY <2>2 DEF Blank
  <2> QED
    BY <1>2, <2>1, <2>2, <2>3, IdsAre
<1> DEFINE s1 == RetryTaskAtomically(state, r, t, outcome)
<1> HIDE DEF r
<1>6. Registers(state, s1, r, t, outcome)
  BY <1>3, <1>5, Registered
<1>7. state' = s1 /\ clock' \in Clock /\ clock'.age = clock.age
  <2>1. CASE outcome = "refused"
    BY <2>1, <1>1, <1>3, <1>6 DEF Registers
  <2>2. CASE outcome # "refused"
    BY <2>2, <1>1, <1>3, Saved
  <2> QED
    BY <2>1, <2>2
<1> HIDE DEF s1
<1>8. s1 \in CommandState /\ ClosesOwn(state, state, t) /\ ClosesOwn(s1, state', t)
      /\ s1.status[t] = state.status[t]
  <2>1. s1 \in CommandState /\ s1.status[t] = state.status[t]
    BY <1>5, <1>6 DEF Registers, OnlyWires
  <2> QED
    BY <2>1, <1>3, <1>7, OwnClosed
<1>9. /\ budget' \in Budget /\ budget'.planner = budget.planner
      /\ budget'.faults = 0 => budget.faults = 0 /\ outcome = "ok"
      /\ outcome = "marked" => {"queue", "state"} \subseteq FaultKinds
  BY <1>1, <1>3, FaultsOfOutcome
<1>10. /\ rows' \in [Ids -> Row]
       /\ rows'[r] = IF outcome = "ok" THEN RetryRow(t) ELSE rows[r]
       /\ \A u \in Ids \ {r} : rows'[u] = rows[u]
  BY <1>1, <1>5, Enqueued DEF r
<1>11. /\ handlers' \in [Ids -> Handler] /\ suspects' \subseteq Ids
       /\ \A u \in Ids : handlers'[u].sync # "dead_letter"
       /\ handlers'[t] = NoHandler
       /\ \A u \in Ids \ {t} : handlers'[u] = handlers[u] \/ handlers'[u] = NoHandler
       /\ outcome # "crash" => \A u \in Ids \ {t} : handlers'[u] = handlers[u]
  <2>1. CASE outcome = "crash"
    <3>1. Restart
      BY <1>1, <2>1
    <3> QED
      BY <2>1, <3>1, Forgotten
  <2>2. CASE outcome # "crash"
    <3>1. Proceed(t, NoHandler)
      BY <1>1, <2>2
    <3> QED
      BY <3>1, HandlerSet, NoHandlerIs DEF TypeInv
  <2> QED
    BY <2>1, <2>2
<1>12. TypeInv'
  BY <1>2, <1>7, <1>8, <1>9, <1>10, <1>11 DEF TypeInv
<1>13. \A u \in Ids : handlers'[u].replacement # r
  BY <1>5, <1>11, NoHandlerIs
<1>14. MayRun(t) /\ state'.status[t] # "verify_pending"
  BY <1>2, <1>4, <1>7, <1>8 DEF MayRun, IsTerminal, TerminalStatuses
<1>15. nextID' \in {nextID, nextID + 1} /\ r < nextID'
  BY <1>2, <1>5
<1> QED
  BY <1>2, <1>4, <1>5, <1>6, <1>7, <1>8, <1>9, <1>10, <1>11, <1>12, <1>13, <1>14, <1>15,
     NoHandlerIs, SpawnStep


LEMMA SyncHandler ==
    ASSUME NEW sync \in Done
    PROVE  LET h == [NoHandler EXCEPT !.step = "sync", !.sync = sync]
           IN  /\ h \in Handler /\ h.step = "sync" /\ h.replacement = NoTask /\ h.sync = sync
BY DEF NoHandler, Handler, Done, TerminalStatuses

LEMMA RegisterRepairStep == ASSUME Inv, NEW t \in Ids, RegisterRepair(t) PROVE StepHolds
<1> USE DEF Inv
<1>1. /\ handlers[t].step = "repair" /\ results' = results /\ verified' = verified
  BY DEF RegisterRepair
<1>2. /\ state \in CommandState /\ clock \in Clock /\ budget \in Budget
      /\ nextID \in Nat /\ NoTask \notin Ids /\ Ids \subseteq Nat
      /\ "failed" \in Done /\ "cancelled" \in Done
  BY IdsAre DEF TypeInv, Done
<1>3. /\ rows[t].status \in Done /\ results[t].status # "none" /\ state.status[t] # "none"
      /\ state.status[t] \notin {"none", "completed"} /\ state.status[t] # "verify_pending"
  BY <1>1 DEF FilesInv, TaskFits, Fits
<1>4. MayRun(t)
  BY <1>1 DEF MayRun
<1>5. CASE /\ UpdateState(ToReplan(state, t))
           /\ Proceed(t, [NoHandler EXCEPT !.step = "sync", !.sync = "failed"])
           /\ UNCHANGED <<rows, nextID, budget>>
  <2>1. ClosesOwn(state, ToReplan(state, t), t)
    BY <1>2, OwnClosed
  <2>2. state' = ToReplan(state, t) /\ clock' \in Clock /\ clock'.age = clock.age
    BY <1>2, <1>5, Saved
  <2>3. HandlersAfter(t, "sync", "failed") /\ \A u \in Ids \ {t} : handlers'[u] = handlers[u]
        /\ handlers'[t].step = "sync"
    <3> DEFINE h == [NoHandler EXCEPT !.step = "sync", !.sync = "failed"]
    <3>1. /\ h \in Handler /\ h.step = "sync" /\ h.replacement = NoTask /\ h.sync = "failed"
          /\ Proceed(t, h)
      BY <1>2, <1>5, SyncHandler
    <3> HIDE DEF h
    <3>2. HandlersAfter(t, "sync", "failed")
      BY <1>2, <3>1, HandlerGoesOn
    <3> QED
      BY <3>1, <3>2 DEF Proceed, TypeInv
  <2>4. ClosesOwn(state, state', t)
    BY <2>1, <2>2
  <2>5. TypeInv'
    BY <1>1, <1>5, <2>2, <2>3, <2>4 DEF TypeInv, HandlersAfter, ClosesOwn
  <2>6. RowSettles(t)
    BY <1>5 DEF RowSettles
  <2> QED
    BY <1>1, <1>3, <1>4, <1>5, <2>2, <2>3, <2>4, <2>5, <2>6, CloseStep DEF HandlersAfter
<1>6. CASE /\ RepairBudgetAllows(t) /\ nextID \in Ids /\ nextID' = nextID + 1
           /\ \E outcome \in RegisterOutcomes, closed \in BOOLEAN :
              /\ ~closed => outcome = "ok"
              /\ Costs(IF closed THEN RegisterFaults(outcome) ELSE {"state"})
              /\ LET s == RetryTaskAtomically(state, nextID, t, outcome)
                 IN  CASE outcome = "ok" ->
                            SaveState(IF closed THEN CancelSupersededPredecessor(s, t) ELSE s)
                       [] outcome = "refused" -> UpdateState(ToReplan(s, t))
                       [] outcome = "crash" -> SaveState(s)
                       [] OTHER -> SaveState(ToReplan(s, t))
              /\ rows' = EnqueueRetry(nextID, t, outcome)
              /\ IF outcome = "crash" THEN Restart
                 ELSE Proceed(t, [NoHandler EXCEPT
                        !.step = "sync",
                        !.sync = IF outcome = "ok" THEN "cancelled" ELSE "failed"])
  <2>1. PICK outcome \in RegisterOutcomes, closed \in BOOLEAN :
              /\ ~closed => outcome = "ok"
              /\ Costs(IF closed THEN RegisterFaults(outcome) ELSE {"state"})
              /\ LET s == RetryTaskAtomically(state, nextID, t, outcome)
                 IN  CASE outcome = "ok" ->
                            SaveState(IF closed THEN CancelSupersededPredecessor(s, t) ELSE s)
                       [] outcome = "refused" -> UpdateState(ToReplan(s, t))
                       [] outcome = "crash" -> SaveState(s)
                       [] OTHER -> SaveState(ToReplan(s, t))
              /\ rows' = EnqueueRetry(nextID, t, outcome)
              /\ IF outcome = "crash" THEN Restart
                 ELSE Proceed(t, [NoHandler EXCEPT
                        !.step = "sync",
                        !.sync = IF outcome = "ok" THEN "cancelled" ELSE "failed"])
    BY <1>6
  <2> DEFINE s1 == RetryTaskAtomically(state, nextID, t, outcome)
             sync == IF outcome = "ok" THEN "cancelled" ELSE "failed"
  <2>2. nextID # t /\ t < nextID /\ Blank(nextID)
    <3>1. Blank(nextID)
      BY <1>2, <1>6 DEF FilesInv
    <3>2. ~(t >= nextID)
      BY <1>1 DEF FilesInv, Blank
    <3> QED
      BY <3>1, <3>2, <1>2
  <2>3. Registers(state, s1, nextID, t, outcome)
    BY <1>2, <1>6, <2>2, Registered
  <2>4. \E s2 \in {s1, ToReplan(s1, t), CancelSupersededPredecessor(s1, t)} :
            SaveState(s2) \/ UpdateState(s2)
    <3>1. CASE outcome = "ok"
      BY <2>1, <3>1
    <3>2. CASE outcome = "refused"
      BY <2>1, <3>2
    <3>3. CASE outcome = "crash"
      BY <2>1, <3>3
    <3>4. CASE outcome \notin {"ok", "refused", "crash"}
      BY <2>1, <3>4
    <3> QED
      BY <3>1, <3>2, <3>3, <3>4
  <2> HIDE DEF s1
  <2>5. s1 \in CommandState /\ s1.status[t] = state.status[t]
    BY <2>2, <2>3 DEF Registers, OnlyWires
  <2>6. ClosesOwn(s1, state', t) /\ clock' \in Clock /\ clock'.age = clock.age
    <3>1. PICK s2 \in {s1, ToReplan(s1, t), CancelSupersededPredecessor(s1, t)} :
              SaveState(s2) \/ UpdateState(s2)
      BY <2>4
    <3>2. state' = s2 /\ clock' \in Clock /\ clock'.age = clock.age
      BY <1>2, <3>1, Saved
    <3>3. ClosesOwn(s1, s2, t)
      BY <2>5, <3>1, OwnClosed
    <3> QED
      BY <3>2, <3>3
  <2>7. /\ budget' \in Budget /\ budget'.planner = budget.planner
        /\ budget'.faults = 0 => budget.faults = 0 /\ outcome = "ok"
        /\ outcome = "marked" => {"queue", "state"} \subseteq FaultKinds
    <3>1. CASE closed
      BY <1>2, <2>1, <3>1, FaultsOfOutcome
    <3>2. CASE ~closed
      <4>1. Costs({"state"}) /\ outcome = "ok"
        BY <2>1, <3>2
      <4> QED
        BY <4>1, <1>2, Paid
    <3> QED
      BY <3>1, <3>2
  <2>8. /\ rows' \in [Ids -> Row]
        /\ rows'[nextID] = IF outcome = "ok" THEN RetryRow(t) ELSE rows[nextID]
        /\ \A u \in Ids \ {nextID} : rows'[u] = rows[u]
    BY <1>6, <2>1, Enqueued
  <2>9. /\ handlers' \in [Ids -> Handler] /\ suspects' \subseteq Ids
        /\ \A u \in Ids : handlers'[u].sync # "dead_letter"
        /\ handlers'[t].step \in {"none", "sync"} /\ handlers'[t].replacement = NoTask
        /\ \A u \in Ids \ {t} : handlers'[u] = handlers[u] \/ handlers'[u] = NoHandler
        /\ outcome # "crash" => \A u \in Ids \ {t} : handlers'[u] = handlers[u]
    <3>1. CASE outcome = "crash"
      <4>1. Restart
        BY <2>1, <3>1
      <4> QED
        BY <3>1, <4>1, Forgotten, NoHandlerIs
    <3>2. CASE outcome # "crash"
      <4> DEFINE h == [NoHandler EXCEPT !.step = "sync", !.sync = sync]
      <4>1. Proceed(t, h) /\ sync \in Done
        BY <1>2, <2>1, <3>2
      <4> HIDE DEF sync
      <4>2. h \in Handler /\ h.step = "sync" /\ h.replacement = NoTask /\ h.sync = sync
        BY <4>1, SyncHandler
      <4>3. h.sync # "dead_letter"
        BY <4>1, <4>2 DEF Done
      <4> HIDE DEF h
      <4> QED
        BY <4>1, <4>2, <4>3, HandlerSet DEF TypeInv
    <3> QED
      BY <3>1, <3>2
  <2>10. TypeInv'
    <3>1. nextID' \in 1 .. MaxTasks
      BY <1>2, <1>6, IdsAre DEF Ids
    <3> QED
      BY <1>1, <2>6, <2>7, <2>8, <2>9, <3>1 DEF TypeInv, ClosesOwn
  <2>11. \A u \in Ids : handlers'[u].replacement # nextID
    <3>1. \A u \in Ids : handlers[u].replacement # nextID
      BY <1>2, <1>6 DEF FilesInv, Reserved
    <3>2. nextID # NoTask
      BY <1>2, <1>6
    <3> QED
      BY <2>9, <3>1, <3>2, NoHandlerIs
  <2>12. state'.status[t] # "verify_pending"
    BY <1>3, <2>5, <2>6 DEF ClosesOwn
  <2>13. rows[t].retries < MaxRetries
    BY <1>6 DEF RepairBudgetAllows
  <2>14. ClosesOwn(state, state, t)
    BY <1>2, OwnClosed
  <2>15. nextID' \in {nextID, nextID + 1} /\ nextID < nextID'
    BY <1>2, <1>6
  <2> QED
    BY <1>1, <1>3, <1>4, <1>6, <2>2, <2>3, <2>6, <2>7, <2>8, <2>9, <2>10, <2>11, <2>12,
       <2>13, <2>14, <2>15, SpawnStep
<1> QED
  BY <1>5, <1>6 DEF RegisterRepair

LEMMA R9VerifyStallStep == ASSUME Inv, NEW t \in Ids, R9VerifyStall(t) PROVE StepHolds
<1> USE DEF Inv
<1> DEFINE stalled == [state EXCEPT !.status[t] = "repair_pending"]
           canRepair == HasRow(t) /\ RepairBudgetAllows(t) /\ nextID \in Ids
<1>1. /\ results' = results /\ verified' = verified /\ state.status[t] = "verify_pending"
      /\ state \in CommandState /\ clock \in Clock /\ budget \in Budget
      /\ nextID \in Nat /\ NoTask \notin Ids /\ Ids \subseteq Nat
      /\ rows \in [Ids -> Row] /\ "failed" \in Done /\ "cancelled" \in Done
  BY IdsAre DEF R9VerifyStall, Stalled, TypeInv, Done
<1>2. /\ rows[t].status \in Done /\ results[t].status # "none"
      /\ handlers[t].step \in {"none", "verify", "sync"} /\ handlers[t].replacement = NoTask
      /\ MayRun(t) /\ ~IsTerminal(state.status[t])
  <2>1. Fits(state.status[t], rows[t], results[t], handlers[t], clock.age[t],
             t \in state.applied) /\ handlers[t] \in Handler
    BY DEF FilesInv, TaskFits, TypeInv
  <2> QED
    BY <2>1, <1>1 DEF Fits, Handler, TerminalStatuses, IsTerminal, MayRun
<1>3. /\ ClosesOwn(state, state, t) /\ ClosesOwn(state, stalled, t)
      /\ stalled \in CommandState /\ stalled.status[t] = "repair_pending"
  <2>1. ClosesOwn(state, state, t) /\ ClosesOwn(state, stalled, t)
    BY <1>1, <1>2, OwnClosed
  <2>2. stalled \in CommandState
    BY <2>1 DEF ClosesOwn
  <2>3. stalled.status[t] = "repair_pending"
    BY <1>1 DEF CommandState
  <2> QED
    BY <2>1, <2>2, <2>3
<1>4. \/ Costs({"state"}) /\ UNCHANGED <<state, clock, rows, nextID, handlers, suspects>>
      \/ Costs({"crash"}) /\ SaveState(stalled) /\ Restart /\ UNCHANGED <<rows, nextID>>
      \/ /\ SaveState(ToReplan(stalled, t))
         /\ rows' = CloseRow(rows, t, "failed")
         /\ UNCHANGED <<budget, nextID, handlers, suspects>>
      \/ /\ canRepair
         /\ nextID' = nextID + 1
         /\ \E outcome \in RegisterOutcomes :
             /\ Costs(RegisterFaults(outcome))
             /\ LET s == RetryTaskAtomically(stalled, nextID, t, outcome)
                    q == EnqueueRetry(nextID, t, outcome)
                IN  CASE outcome = "ok" ->
                           /\ SaveState(s)
                           /\ rows' = CloseRow(q, t, "cancelled")
                      [] outcome = "crash" -> SaveState(s) /\ rows' = q
                      [] OTHER ->
                           /\ SaveState(ToReplan(s, t))
                           /\ rows' = CloseRow(q, t, "failed")
             /\ IF outcome = "crash" THEN Restart
                ELSE Advance("R9", TRUE) /\ UNCHANGED <<handlers, suspects, backoff>>
  BY DEF R9VerifyStall
<1>5. CASE Costs({"state"}) /\ UNCHANGED <<state, clock, rows, nextID, handlers, suspects>>
  <2>1. budget' \in Budget /\ budget'.planner = budget.planner /\ budget'.faults # 0
    BY <1>1, <1>5, Paid
  <2>2. TypeInv'
    BY <1>1, <1>5, <2>1 DEF TypeInv
  <2>3. RowSettles(t)
    BY <1>5 DEF RowSettles
  <2> QED
    BY <1>1, <1>2, <1>3, <1>5, <2>1, <2>2, <2>3, CloseStep
<1> HIDE DEF stalled, canRepair
<1>6. CASE Costs({"crash"}) /\ SaveState(stalled) /\ Restart /\ UNCHANGED <<rows, nextID>>
  <2>1. budget' \in Budget /\ budget'.planner = budget.planner /\ budget'.faults # 0
    BY <1>1, <1>6, Paid
  <2>2. state' = stalled /\ clock' \in Clock /\ clock'.age = clock.age
    BY <1>1, <1>6, Saved
  <2>3. /\ \A u \in Ids : handlers'[u] = NoHandler
        /\ handlers' \in [Ids -> Handler] /\ suspects' = {}
        /\ \A u \in Ids : handlers'[u].sync # "dead_letter"
    BY <1>6, Forgotten
  <2>4. TypeInv'
    BY <1>1, <1>3, <1>6, <2>1, <2>2, <2>3 DEF TypeInv
  <2>5. RowSettles(t)
    BY <1>6 DEF RowSettles
  <2>6. ClosesOwn(state, state', t) /\ \A u \in Ids \ {t} : rows'[u] = rows[u]
        /\ rows'[t] = rows[t]
    BY <1>3, <1>6, <2>2
  <2> QED
    BY <1>1, <1>2, <1>6, <2>1, <2>2, <2>3, <2>4, <2>5, <2>6, NoHandlerIs, CloseStep
<1>7. CASE /\ SaveState(ToReplan(stalled, t))
           /\ rows' = CloseRow(rows, t, "failed")
           /\ UNCHANGED <<budget, nextID, handlers, suspects>>
  <2>1. state' = ToReplan(stalled, t) /\ clock' \in Clock /\ clock'.age = clock.age
    BY <1>1, <1>7, Saved
  <2>2. rows' = rows
    BY <1>2, <1>7 DEF CloseRow, Done
  <2>3. ClosesOwn(state, state', t)
    <3>1. ClosesOwn(stalled, state', t)
      BY <1>3, <2>1, OwnClosed
    <3>2. state'.status[t] # "none" /\ state'.status[t] \in {"cancelled", "paused_for_replan", "repair_pending"}
      BY <3>1, <1>3 DEF ClosesOwn
    <3> QED
      BY <1>2, <1>3, <3>1, <3>2 DEF ClosesOwn, SameLinks, SameMembers
  <2>4. TypeInv'
    BY <1>1, <1>7, <2>1, <2>2, <2>3 DEF TypeInv, ClosesOwn
  <2>5. RowSettles(t)
    BY <2>2 DEF RowSettles
  <2> QED
    BY <1>1, <1>2, <1>7, <2>1, <2>2, <2>3, <2>4, <2>5, CloseStep

<1>8. CASE /\ canRepair
           /\ nextID' = nextID + 1
           /\ \E outcome \in RegisterOutcomes :
               /\ Costs(RegisterFaults(outcome))
               /\ LET s == RetryTaskAtomically(stalled, nextID, t, outcome)
                      q == EnqueueRetry(nextID, t, outcome)
                  IN  CASE outcome = "ok" ->
                             /\ SaveState(s)
                             /\ rows' = CloseRow(q, t, "cancelled")
                        [] outcome = "crash" -> SaveState(s) /\ rows' = q
                        [] OTHER ->
                             /\ SaveState(ToReplan(s, t))
                             /\ rows' = CloseRow(q, t, "failed")
               /\ IF outcome = "crash" THEN Restart
                  ELSE Advance("R9", TRUE) /\ UNCHANGED <<handlers, suspects, backoff>>
  <2>1. PICK outcome \in RegisterOutcomes :
               /\ Costs(RegisterFaults(outcome))
               /\ LET s == RetryTaskAtomically(stalled, nextID, t, outcome)
                      q == EnqueueRetry(nextID, t, outcome)
                  IN  CASE outcome = "ok" ->
                             /\ SaveState(s)
                             /\ rows' = CloseRow(q, t, "cancelled")
                        [] outcome = "crash" -> SaveState(s) /\ rows' = q
                        [] OTHER ->
                             /\ SaveState(ToReplan(s, t))
                             /\ rows' = CloseRow(q, t, "failed")
               /\ IF outcome = "crash" THEN Restart
                  ELSE Advance("R9", TRUE) /\ UNCHANGED <<handlers, suspects, backoff>>
    BY <1>8
  <2> DEFINE s1 == RetryTaskAtomically(stalled, nextID, t, outcome)
             q == EnqueueRetry(nextID, t, outcome)
  <2>2. /\ nextID \in Ids /\ rows[t].retries < MaxRetries /\ t < nextID /\ nextID # t /\ Blank(nextID)
        /\ nextID' = nextID + 1
    <3>1. nextID \in Ids /\ RepairBudgetAllows(t)
      BY <1>8 DEF canRepair
    <3>2. Blank(nextID)
      BY <3>1, <1>1 DEF FilesInv
    <3>3. ~(t >= nextID)
      BY <1>1 DEF FilesInv, Blank
    <3>4. t < nextID /\ nextID # t
      BY <3>3, <1>1
    <3> QED
      BY <3>1, <3>2, <3>4, <1>8 DEF RepairBudgetAllows
  <2>3. Registers(stalled, s1, nextID, t, outcome)
    BY <1>3, <2>2, Registered
  <2>4. /\ q \in [Ids -> Row] /\ q[t] = rows[t]
        /\ q[nextID] = IF outcome = "ok" THEN RetryRow(t) ELSE rows[nextID]
        /\ \A u \in Ids \ {nextID} : q[u] = rows[u]
    <3> DEFINE o == outcome
    <3>1. /\ EnqueueRetry(nextID, t, outcome) \in [Ids -> Row]
          /\ EnqueueRetry(nextID, t, outcome)[nextID]
                = IF outcome = "ok" THEN RetryRow(t) ELSE rows[nextID]
          /\ \A u \in Ids \ {nextID} : EnqueueRetry(nextID, t, outcome)[u] = rows[u]
      BY <2>2, Enqueued
    <3> QED
      BY <3>1, <2>2
  <2>5. /\ SaveState(s1) \/ SaveState(ToReplan(s1, t))
        /\ rows' \in {q, CloseRow(q, t, "cancelled"), CloseRow(q, t, "failed")}
    BY <2>1
  <2> HIDE DEF s1, q
  <2>6. rows' = q
    BY <1>2, <2>4, <2>5 DEF CloseRow, Done
  <2>7. s1 \in CommandState /\ s1.status[t] = "repair_pending"
    BY <1>3, <2>2, <2>3 DEF Registers, OnlyWires
  <2>8. ClosesOwn(s1, state', t) /\ clock' \in Clock /\ clock'.age = clock.age
    <3>1. PICK s2 \in {s1, ToReplan(s1, t)} : SaveState(s2)
      BY <2>5
    <3>2. state' = s2 /\ clock' \in Clock /\ clock'.age = clock.age
      BY <1>1, <3>1, Saved
    <3>3. ClosesOwn(s1, s2, t)
      BY <2>7, <3>1, OwnClosed
    <3> QED
      BY <3>2, <3>3
  <2>9. /\ budget' \in Budget /\ budget'.planner = budget.planner
        /\ budget'.faults = 0 => budget.faults = 0 /\ outcome = "ok"
        /\ outcome = "marked" => {"queue", "state"} \subseteq FaultKinds
    BY <1>1, <2>1, FaultsOfOutcome
  <2>10. /\ handlers' \in [Ids -> Handler] /\ suspects' \subseteq Ids
         /\ \A u \in Ids : handlers'[u].sync # "dead_letter"
         /\ handlers'[t].step \in {"none", "verify", "sync"}
         /\ handlers'[t].replacement = NoTask
         /\ \A u \in Ids : handlers'[u] = handlers[u] \/ handlers'[u] = NoHandler
         /\ outcome # "crash" => \A u \in Ids : handlers'[u] = handlers[u]
    <3>1. CASE outcome = "crash"
      <4>1. Restart
        BY <2>1, <3>1
      <4> QED
        BY <3>1, <4>1, Forgotten, NoHandlerIs
    <3>2. CASE outcome # "crash"
      <4>1. handlers' = handlers /\ suspects' = suspects
        BY <2>1, <3>2
      <4> QED
        BY <1>2, <3>2, <4>1 DEF TypeInv
    <3> QED
      BY <3>1, <3>2
  <2>11. TypeInv'
    <3>1. nextID' \in 1 .. MaxTasks
      BY <1>1, <2>2, IdsAre DEF Ids
    <3> QED
      BY <1>1, <2>4, <2>6, <2>8, <2>9, <2>10, <3>1 DEF TypeInv, ClosesOwn
  <2>12. \A u \in Ids : handlers'[u].replacement # nextID
    <3>2. nextID # NoTask
      BY <2>2, IdsAre
    <3>1. ASSUME NEW u \in Ids, handlers[u].replacement = nextID
          PROVE  FALSE
      <4>1. Reserved(u) /\ nextID \in Nat
        BY <1>1, <2>2, IdsAre DEF FilesInv
      <4> QED
        BY <3>1, <3>2, <4>1 DEF Reserved
    <3> QED
      BY <2>10, <3>1, <3>2, NoHandlerIs
  <2>13. state'.status[t] # "verify_pending"
    BY <2>7, <2>8 DEF ClosesOwn
  <2>14. nextID' \in {nextID, nextID + 1} /\ nextID < nextID'
    BY <1>1, <2>2
  <2>15. handlers[t].step # "phaseB" /\ state.status[t] # "none"
    BY <1>1, <1>2
  <2>16. /\ rows'[nextID] = IF outcome = "ok" THEN RetryRow(t) ELSE rows[nextID]
         /\ rows'[t] = rows[t]
         /\ \A u \in Ids \ {t, nextID} : rows'[u] = rows[u]
    BY <2>4, <2>6
  <2> QED
    BY <1>1, <1>2, <1>3, <2>2, <2>3, <2>8, <2>9, <2>10, <2>11, <2>12, <2>13, <2>14, <2>15,
       <2>16, SpawnStep
<1> QED
  BY <1>4, <1>5, <1>6, <1>7, <1>8

-----------------------------------------------------------------------------
(* The planner's retry.                                                     *)

\* The new task is planned, and the task it replaces is closed if it waited.
PlannerRetries(s, s2, new, t) ==
    /\ s2 \in CommandState /\ s2.applied = s.applied /\ s2.marker = s.marker
    /\ \A d \in Ids \ {new} : s2.lineage[d] = s.lineage[d]
    /\ \A d \in Ids \ {new, t} : s2.status[d] = s.status[d]
    /\ s2.status[new] = "planned" /\ s2.lineage[new] = t
    /\ \/ s2.status[t] = s.status[t]
       \/ s.status[t] = "paused_for_replan" /\ s2.status[t] = "cancelled"
    /\ JoinsSlot(s, s2, new, t)

LEMMA Retried ==
    ASSUME NEW s \in CommandState, NEW new \in Ids, NEW t \in Ids, new # t
    PROVE  PlannerRetries(s, ApplyRetryStateChanges(s, new, t), new, t)
<1> DEFINE placed == AppendToPhase(ReplaceMembership(s, t, new), new, t)
           wired  == [placed EXCEPT !.lineage[new] = t, !.status[new] = "planned"]
           closed == IF s.status[t] = "paused_for_replan"
                     THEN [wired EXCEPT !.status[t] = "cancelled", !.superseded = @ \cup {t}]
                     ELSE wired
           s2 == ApplyRetryStateChanges(s, new, t)
<1>1. s2 = [closed EXCEPT !.superseded = {d \in @ : Successors(closed, d) = {}
                                                 \/ ~IsTerminal(closed.status[d])}]
  BY DEF ApplyRetryStateChanges
<1>2. /\ placed \in CommandState /\ placed.status = s.status /\ placed.lineage = s.lineage
      /\ placed.marker = s.marker /\ placed.applied = s.applied
      /\ JoinsSlot(s, placed, new, t)
  <2> DEFINE m == ReplaceMembership(s, t, new)
  <2>1. /\ m \in CommandState /\ m.status = s.status /\ m.lineage = s.lineage
        /\ m.marker = s.marker /\ m.applied = s.applied
        /\ m.phaseTasks = s.phaseTasks /\ m.phase = s.phase
        /\ m.required = IF t \in s.required THEN (s.required \ {t}) \cup {new} ELSE s.required
    <3>1. Swaps(s, m, t, new)
      BY MembershipReplaced
    <3> HIDE DEF m
    <3> QED
      BY <3>1 DEF Swaps
  <2>2. placed = AppendToPhase(m, new, t)
    OBVIOUS
  <2> HIDE DEF m
  <2>3. JoinsPhase(m, placed, new, t)
    BY <2>1, <2>2, PhaseAppended
  <2> HIDE DEF placed
  <2> QED
    BY <2>1, <2>3 DEF JoinsPhase, JoinsSlot
<1> HIDE DEF placed, s2
<1>3. /\ wired \in CommandState /\ wired.marker = s.marker /\ wired.applied = s.applied
      /\ wired.status = [s.status EXCEPT ![new] = "planned"]
      /\ wired.lineage = [s.lineage EXCEPT ![new] = t]
      /\ JoinsSlot(s, wired, new, t)
  <2> DEFINE f == [s.status EXCEPT ![new] = "planned"]
             g == [s.lineage EXCEPT ![new] = t]
  <2>1. /\ f \in [Ids -> TaskStatuses \cup {"none"}] /\ g \in [Ids -> Ids \cup {NoTask}]
        /\ wired = [placed EXCEPT !.lineage = g, !.status = f]
    BY <1>2 DEF CommandState, TaskStatuses
  <2> HIDE DEF f, g, wired
  <2>2. /\ wired \in CommandState /\ wired.marker = s.marker /\ wired.applied = s.applied
        /\ wired.status = f /\ wired.lineage = g
        /\ wired.required = placed.required /\ wired.phaseTasks = placed.phaseTasks
        /\ wired.phase = placed.phase
    BY <1>2, <2>1 DEF CommandState
  <2>3. JoinsSlot(s, wired, new, t)
    BY <1>2, <2>2 DEF JoinsSlot
  <2> QED
    BY <2>2, <2>3 DEF f, g
<1> HIDE DEF wired
<1>4. /\ wired.status \in [Ids -> TaskStatuses \cup {"none"}] /\ wired.superseded \in SUBSET Ids
      /\ wired.status[new] = "planned" /\ wired.lineage[new] = t
      /\ \A d \in Ids \ {new} : /\ wired.lineage[d] = s.lineage[d]
                                /\ wired.status[d] = s.status[d]
  BY <1>3 DEF CommandState
<1>5. PlannerRetries(s, closed, new, t) /\ closed \in CommandState
  <2>1. CASE s.status[t] = "paused_for_replan"
    <3> DEFINE f == [wired.status EXCEPT ![t] = "cancelled"]
               S == wired.superseded \cup {t}
    <3>1. /\ f \in [Ids -> TaskStatuses \cup {"none"}] /\ S \in SUBSET Ids
          /\ f[t] = "cancelled" /\ f[new] = "planned"
          /\ \A d \in Ids \ {new, t} : f[d] = s.status[d]
          /\ closed = [wired EXCEPT !.status = f, !.superseded = S]
      BY <1>4, <2>1 DEF TaskStatuses, TerminalStatuses
    <3> HIDE DEF f, S, closed
    <3>2. /\ closed \in CommandState /\ closed.status = f /\ closed.marker = s.marker
          /\ closed.applied = s.applied /\ closed.lineage = wired.lineage
          /\ closed.required = wired.required /\ closed.phaseTasks = wired.phaseTasks
          /\ closed.phase = wired.phase
      BY <1>3, <3>1 DEF CommandState
    <3>3. JoinsSlot(s, closed, new, t)
      BY <1>3, <3>2 DEF JoinsSlot
    <3> QED
      BY <3>3, <1>4, <2>1, <3>1, <3>2 DEF PlannerRetries
  <2>2. CASE s.status[t] # "paused_for_replan"
    <3>1. closed = wired
      BY <2>2
    <3> HIDE DEF closed
    <3> QED
      BY <1>3, <1>4, <3>1 DEF PlannerRetries
  <2> QED
    BY <2>1, <2>2
<1> DEFINE kept == {d \in closed.superseded : Successors(closed, d) = {}
                                              \/ ~IsTerminal(closed.status[d])}
<1> HIDE DEF closed
<1>6. kept \in SUBSET Ids /\ s2 = [closed EXCEPT !.superseded = kept]
  BY <1>1, <1>5 DEF CommandState
<1> HIDE DEF kept
<1>7. /\ s2 \in CommandState /\ s2.status = closed.status /\ s2.marker = closed.marker
      /\ s2.applied = closed.applied /\ s2.lineage = closed.lineage
      /\ s2.required = closed.required /\ s2.phaseTasks = closed.phaseTasks
      /\ s2.phase = closed.phase
  BY <1>5, <1>6 DEF CommandState
<1>8. PlannerRetries(s, s2, new, t)
  <2>1. JoinsSlot(s, s2, new, t)
    BY <1>5, <1>7 DEF PlannerRetries, JoinsSlot
  <2> QED
    BY <2>1, <1>5, <1>7 DEF PlannerRetries
<1> QED
  BY <1>8 DEF s2

LEMMA AddRetryTaskStep == ASSUME Inv, NEW t \in Ids, AddRetryTask(t) PROVE StepHolds
<1> USE DEF Inv
<1> SUFFICES ASSUME NEW r, r = nextID PROVE StepHolds
  OBVIOUS
<1>1. /\ budget.planner = TRUE /\ r \in Ids /\ RetryAllowed(t) /\ nextID' = r + 1
      /\ rows' = [d \in Ids |->
                  IF d = r THEN [NoRow EXCEPT !.status = "live"]
                  ELSE IF d = t /\ HasRow(t) THEN [rows[t] EXCEPT !.status = "cancelled"]
                  ELSE rows[d]]
      /\ \/ SaveState(ApplyRetryStateChanges(state, r, t)) /\ UNCHANGED <<handlers, suspects, budget>>
         \/ Costs({"crash"}) /\ Restart /\ UNCHANGED <<state, clock>>
      /\ results' = results /\ verified' = verified
  <2>1. budget.planner \in BOOLEAN
    BY DEF TypeInv, Budget
  <2> QED
    BY <2>1 DEF AddRetryTask, scanVars
<1>2. /\ state \in CommandState /\ clock \in Clock /\ budget \in Budget
      /\ nextID \in Nat /\ NoTask \notin Ids /\ Ids \subseteq Nat /\ rows \in [Ids -> Row]
  BY IdsAre DEF TypeInv
<1>3. Blank(r) /\ \A u \in Ids : handlers[u].replacement # r
  BY <1>1, <1>2 DEF FilesInv, Reserved
<1>4. state.status[t] \notin {"none", "completed"} /\ r # t
  BY <1>1, <1>3 DEF RetryAllowed, Blank
<1>5. /\ rows' \in [Ids -> Row] /\ rows'[r] = [NoRow EXCEPT !.status = "live"]
      /\ \A d \in Ids \ {r, t} : rows'[d] = rows[d]
      /\ rows'[t] = rows[t] \/ rows'[t] = [rows[t] EXCEPT !.status = "cancelled"]
  BY ZenonT(40), <1>1, <1>2, <1>4 DEF Row, NoRow, TerminalStatuses
<1>6. /\ PlannerRetries(state, state', r, t) \/ state' = state
      /\ clock' \in Clock /\ clock'.age = clock.age
      /\ budget' \in Budget /\ budget'.planner = TRUE
      /\ budget'.faults = 0 => budget.faults = 0 /\ handlers' = handlers
      /\ handlers' \in [Ids -> Handler] /\ suspects' \subseteq Ids
      /\ \A u \in Ids : handlers'[u].sync # "dead_letter"
      /\ \A u \in Ids : handlers'[u] = handlers[u] \/ handlers'[u] = NoHandler
  <2>1. CASE SaveState(ApplyRetryStateChanges(state, r, t)) /\ UNCHANGED <<handlers, suspects, budget>>
    <3>1. PlannerRetries(state, ApplyRetryStateChanges(state, r, t), r, t)
      BY <1>1, <1>2, <1>4, Retried
    <3>2. /\ state' = ApplyRetryStateChanges(state, r, t)
          /\ clock' \in Clock /\ clock'.age = clock.age
      BY <1>2, <2>1, Saved
    <3> QED
      BY <1>1, <1>2, <2>1, <3>1, <3>2 DEF TypeInv
  <2>2. CASE Costs({"crash"}) /\ Restart /\ UNCHANGED <<state, clock>>
    <3>1. budget' \in Budget /\ budget'.planner = budget.planner /\ budget'.faults # 0
      BY <1>2, <2>2, Paid
    <3>2. /\ \A u \in Ids : handlers'[u] = NoHandler
          /\ handlers' \in [Ids -> Handler] /\ suspects' = {}
          /\ \A u \in Ids : handlers'[u].sync # "dead_letter"
      BY <2>2, Forgotten
    <3> QED
      BY <1>1, <1>2, <2>2, <3>1, <3>2
  <2> QED
    BY <1>1, <2>1, <2>2
<1>7. /\ state' \in CommandState /\ state'.applied = state.applied
      /\ state'.marker = state.marker
      /\ \A d \in Ids \ {r} : state'.lineage[d] = state.lineage[d]
      /\ \A d \in Ids \ {r, t} : state'.status[d] = state.status[d]
      /\ state'.status[r] \in {"planned", "none"}
      /\ \/ state'.status[t] = state.status[t]
         \/ state.status[t] = "paused_for_replan" /\ state'.status[t] = "cancelled"
  BY <1>2, <1>3, <1>6 DEF PlannerRetries, Blank
<1>8. TypeInv'
  <2>1. nextID' \in 1 .. MaxTasks
    BY <1>1, <1>2, IdsAre DEF Ids
  <2> QED
    BY <1>1, <1>5, <1>6, <1>7, <2>1 DEF TypeInv
<1>9. ASSUME NEW d \in Ids \ {r}
      PROVE  Bystands(d) /\ StaysBlank(d) /\ MarkerStays(d) /\ RowSettles(d)
  <2>1. StatusMoves(state.status[d], state'.status[d])
    BY <1>7 DEF StatusMoves, TerminalStatuses
  <2>2. /\ rows'[d].retries = rows[d].retries /\ rows'[d].gated = rows[d].gated
        /\ rows'[d].status = rows[d].status
              \/ (d = t /\ rows'[d].status = "cancelled")
    BY <1>2, <1>5 DEF Row
  <2>3. rows[d].retries <= MaxRetries
    BY DEF FilesInv, TaskFits, Fits
  <2>4. Bystands(d)
    BY <2>1, <2>2, <2>3, <1>1, <1>6, <1>7 DEF Bystands
  <2>5. MarkerStays(d) /\ RowSettles(d)
    BY <2>2, <1>7 DEF MarkerStays, RowSettles, Done
  <2>6. StaysBlank(d)
    BY <2>2, <1>1, <1>4, <1>6, <1>7, NoHandlerIs DEF StaysBlank, Blank
  <2> QED
    BY <2>4, <2>5, <2>6
<1>10. /\ rows'[r].retries = 0 /\ rows'[r].gated = FALSE /\ rows'[r].status = "live"
  BY <1>5 DEF NoRow
<1>11. /\ handlers'[r].step = "none" /\ handlers'[r].replacement = NoTask
       /\ TaskFits(r)' /\ Linked(r)' /\ RowSettles(r)
  <2>1. Fits(state.status[r], rows[r], results[r], handlers[r], clock.age[r],
             r \in state.applied)
    BY <1>1 DEF FilesInv, TaskFits
  <2>2. /\ rows[r].status = "absent" /\ results[r].status = "none"
        /\ handlers[r].step = "none" /\ state.marker[r] = -1
    BY <1>3 DEF Blank
  <2>3. handlers'[r].step = "none" /\ handlers'[r].replacement = NoTask
    BY <1>1, <1>6, <2>1, <2>2, NoHandlerIs DEF Fits
  <2>4. clock.age[r] = 0 /\ ~results[r].stamped
    BY <2>1, <2>2 DEF Fits
  <2>5. 0 <= MaxRetries
    BY IdsAre
  <2>6. Linked(r)'
    BY <1>7, <2>2 DEF Linked
  <2>7. RowSettles(r)
    BY <2>2 DEF RowSettles, Done
  <2>8. TaskFits(r)'
    BY <1>1, <1>6, <1>7, <1>10, <2>2, <2>3, <2>4, <2>5 DEF TaskFits, Fits
  <2> QED
    BY <2>3, <2>6, <2>7, <2>8
<1>12. FilesInv'
  <2>1. \A u \in Ids : handlers'[u].replacement # r
    BY <1>1, <1>2, <1>3, <1>6, NoHandlerIs
  <2>2. NoTask \notin Ids /\ r < nextID' /\ nextID' \in {nextID, nextID + 1}
    BY <1>1, <1>2
  <2>3. \A d \in Ids : RowSettles(d)
    BY <1>9, <1>11
  <2>4. /\ \A d \in Ids \ {NoTask, r} : Bystands(d)
        /\ \A d \in Ids \ {r} : StaysBlank(d) /\ MarkerStays(d)
    BY <1>9
  <2> QED
    BY <1>8, <1>11, <2>1, <2>2, <2>3, <2>4, FilesStep
<1>13. OneInv'
  BY <1>6 DEF OneInv
<1>14. NothingLost'
  <2> SUFFICES ASSUME budget'.faults = 0, NEW d \in Ids
               PROVE /\ state'.marker[d] = -1
                     /\ results'[d].status # "none" /\ state'.status[d] = "planned"
                           => handlers'[d].step = "phaseB"
                     /\ rows'[d].gated /\ state'.status[d] = "completed" => d \in verified'
    BY DEF NothingLost
  <2>1. /\ state.marker[d] = -1
        /\ results[d].status # "none" /\ state.status[d] = "planned"
              => handlers[d].step = "phaseB"
        /\ rows[d].gated /\ state.status[d] = "completed" => d \in verified
    BY <1>6 DEF NothingLost
  <2>2. CASE d = r
    BY <2>1, <2>2, <1>1, <1>3, <1>7 DEF Blank
  <2>3. CASE d # r
    <3>1. rows'[d].gated = rows[d].gated
      BY <2>3, <1>2, <1>5 DEF Row
    <3> QED
      BY <2>1, <2>3, <3>1, <1>1, <1>6, <1>7
  <2> QED
    BY <2>2, <2>3
<1>15. ASSUME NEW d \in Ids PROVE TerminalKept(d)
  <2>1. state.status[r] = "none"
    BY <1>3 DEF Blank
  <2> QED
    BY <2>1, <1>7 DEF TerminalKept, IsTerminal, TerminalStatuses
<1>16. MembersInv'
  <2>1. CASE state' = state
    BY <2>1 DEF MembersInv, PhaseDone
  <2>2. CASE PlannerRetries(state, state', r, t)
    <3>1. /\ JoinsSlot(state, state', r, t)
          /\ state'.status[r] = "planned" /\ state'.lineage[r] = t
      BY <2>2 DEF PlannerRetries
    <3>2. state.required \subseteq Ids /\ state.phaseTasks \subseteq Ids
      BY <1>2 DEF CommandState
    <3>3. \A u \in Ids : state.lineage[u] \in Ids \cup {NoTask}
      BY LineageType
    <3>4. state.status[r] = "none" /\ state'.status[r] # "none"
      BY <1>3, <3>1 DEF Blank
    <3>5. \A u \in Ids : StaysKnown(u)
      BY <1>7, <3>4 DEF StaysKnown
    <3> QED
      BY <1>1, <1>4, <1>7, <1>15, <3>1, <3>2, <3>3, <3>4, <3>5, MembersJoin
  <2> QED
    BY <1>6, <2>1, <2>2
<1> QED
  BY <1>7, <1>8, <1>12, <1>13, <1>14, <1>15, <1>16 DEF StepHolds, MarkerComes

-----------------------------------------------------------------------------
(* The specification.                                                       *)

LEMMA InitHolds == ASSUME Init PROVE Inv
<1>1. PICK setup \in Setups :
        /\ state = [status     |-> [t \in Ids |-> IF t = 0 THEN "planned" ELSE "none"],
                    lineage    |-> [t \in Ids |-> NoTask],
                    required   |-> IF setup.required THEN {0} ELSE {},
                    optional   |-> IF setup.required THEN {} ELSE {0},
                    applied    |-> {},
                    superseded |-> {},
                    marker     |-> [t \in Ids |-> -1],
                    phase      |-> IF setup.phased THEN "active" ELSE "none",
                    phaseTasks |-> IF setup.phased THEN {0} ELSE {},
                    plan       |-> "sealed"]
        /\ rows = [t \in Ids |-> IF t = 0 THEN [NoRow EXCEPT !.status = "live",
                                                            !.gated = setup.gated]
                                 ELSE NoRow]
        /\ budget = [faults |-> 0, limit |-> setup.limit, planner |-> setup.planner]
  BY DEF Init
<1>2. /\ results = [t \in Ids |-> [status |-> "none", stamped |-> FALSE]]
      /\ handlers = [t \in Ids |-> NoHandler] /\ nextID = 1 /\ suspects = {}
      /\ clock = [age |-> [t \in Ids |-> 0], stale |-> {}, quiet |-> FALSE]
      /\ verified = {}
  BY DEF Init
<1>3. /\ setup.required \in BOOLEAN /\ setup.phased \in BOOLEAN /\ setup.gated \in BOOLEAN
      /\ setup.limit \in Nat /\ setup.planner \in BOOLEAN
  BY SetupAssumption DEF AllSetups
<1>4. 0 \in Ids /\ NoTask \notin Ids /\ Ids \subseteq Nat
      /\ MaxTasks \in Nat \ {0} /\ MaxRetries \in Nat /\ MaxEnqueue \in Nat
  BY IdsAre, TaskBoundAssumption
<1>5. state \in CommandState
  BY <1>1, <1>3, <1>4 DEF CommandState, TaskStatuses
<1>6. clock \in Clock
  BY <1>2 DEF Clock
<1>7. /\ rows \in [Ids -> Row]
      /\ \A t \in Ids : rows[t].retries = 0 /\ rows[t].status = IF t = 0 THEN "live" ELSE "absent"
  BY <1>1, <1>3 DEF Row, NoRow
<1>8. results \in [Ids -> ResultEntry] /\ handlers \in [Ids -> Handler]
  BY <1>2, NoHandlerIs DEF ResultEntry
<1>9. TypeInv
  BY <1>1, <1>2, <1>3, <1>4, <1>5, <1>6, <1>7, <1>8, NoHandlerIs DEF TypeInv, Budget
<1>10. ASSUME NEW t \in Ids
       PROVE  /\ state.status[t] = IF t = 0 THEN "planned" ELSE "none"
              /\ state.lineage[t] = NoTask /\ state.marker[t] = -1 /\ t \notin state.applied
              /\ results[t].status = "none" /\ ~results[t].stamped
              /\ handlers[t] = NoHandler /\ clock.age[t] = 0
  BY <1>1, <1>2
<1>11. FilesInv
  <2>1. ASSUME NEW t \in Ids PROVE TaskFits(t)
    BY <1>4, <1>7, <1>10, NoHandlerIs DEF TaskFits, Fits
  <2>2. ASSUME NEW t \in Ids PROVE Reserved(t) /\ Linked(t)
    BY <1>10, NoHandlerIs DEF Reserved, Linked
  <2>3. ASSUME NEW t \in Ids, t >= nextID PROVE Blank(t)
    BY <1>2, <1>7, <1>10, <2>3, NoHandlerIs DEF Blank
  <2> QED
    BY <2>1, <2>2, <2>3 DEF FilesInv
<1>12. ChainEndsAt(0)
  <2>1. state.required \cup state.optional = {0} /\ state.required \cap state.optional = {}
    BY <1>1
  <2>2. ASSUME NEW t \in Ids, MayRun(t) PROVE t = 0
    BY <1>7, <1>10, <2>2, NoHandlerIs DEF MayRun
  <2>3. 0 # NoTask
    BY <1>4
  <2> QED
    BY <1>4, <1>10, <2>1, <2>2, <2>3 DEF ChainEndsAt
<1>13. OneInv
  BY <1>4, <1>12 DEF OneInv
<1>14. NothingLost
  BY <1>10 DEF NothingLost
<1>15. MembersInv
  <2>1. /\ state.required \subseteq {0} /\ state.phaseTasks \subseteq {0}
        /\ state.phase # "completed"
    BY <1>1
  <2>2. \A d \in Ids : state.lineage[d] = NoTask
    BY <1>10
  <2> QED
    BY <1>4, <1>10, <2>1, <2>2 DEF MembersInv
<1> QED
  BY <1>9, <1>11, <1>13, <1>14, <1>15 DEF Inv

LEMMA StutterHolds == ASSUME Inv, UNCHANGED vars PROVE StepHolds
<1>1. TypeInv'
  BY DEF Inv, TypeInv, vars
<1> QED
  BY <1>1, FilesUntouched DEF vars

\* Whatever the next step is.
LEMMA StepsHold == ASSUME Inv, [Next]_vars PROVE StepHolds
<1>1. CASE UNCHANGED vars
  BY <1>1, StutterHolds
<1>2. ASSUME NEW t \in Ids, ReportResult(t) PROVE StepHolds
  BY <1>2, ReportStep
<1>3. ASSUME NEW t \in Ids, HandlerStep(t) PROVE StepHolds
  BY <1>3, PhaseBStep, PhaseBFailsStep, RegisterRetryStep, VerifyStep, VerifyFailsStep,
     RegisterRepairStep, SyncStep DEF HandlerStep
<1>4. ASSUME NEW t \in Ids, AddRetryTask(t) PROVE StepHolds
  BY <1>4, AddRetryTaskStep
<1>5. CASE PhaseA
  BY <1>5, PhaseAStep
<1>6. CASE ReconcileStep
  BY <1>6, BeginReconcileStep, R1Step, R2Step, R3Step, R4Step, R9VerifyStallStep, R9DoneStep,
     R9OrphansStep, R10Step DEF ReconcileStep
<1>7. CASE TimeStep
  BY <1>7, QuietStep, AgeStep, StaleStep DEF TimeStep
<1>8. CASE Crash
  BY <1>8, CrashStep
<1> QED
  BY <1>1, <1>2, <1>3, <1>4, <1>5, <1>6, <1>7, <1>8 DEF Next

\* The files, the handlers and the clock always fit together, the daemon keeps
\* one chain of tasks per slot, and no result is lost while no write is.
THEOREM PipelineInvariance == Spec => []Inv
<1>1. Init => Inv
  BY InitHolds
<1>2. Inv /\ [Next]_vars => Inv'
  BY StepsHold DEF StepHolds
<1> QED
  BY <1>1, <1>2, PTL DEF Spec

\* A stamp never precedes the outcome: the planner is told of a result (the
\* stamp releases the notification) only after the state file has settled it,
\* whoever stamps it, the verifier or R2.
THEOREM StampsFollow == Spec => []StampFollowsOutcome
<1>1. Inv => StampFollowsOutcome
  BY DEF Inv, FilesInv, TaskFits, Fits, StampFollowsOutcome
<1> QED
  BY <1>1, PipelineInvariance, PTL

LEMMA OneLives == ASSUME Inv PROVE DaemonKeepsOneAttempt
<1> SUFFICES ASSUME ~budget.planner PROVE Cardinality(LiveRows) <= 1
  BY DEF DaemonKeepsOneAttempt, OneActiveAttempt
<1>1. PICK m \in Ids : ChainEndsAt(m)
  BY DEF Inv, OneInv
<1>2. LiveRows \subseteq {m}
  BY <1>1 DEF ChainEndsAt, MayRun, LiveRows
<1>3. IsFiniteSet({m}) /\ Cardinality({m}) = 1
  BY FS_Singleton
<1>4. Cardinality(LiveRows) <= Cardinality({m})
  BY <1>2, <1>3, FS_Subset
<1> QED
  BY <1>3, <1>4

\* Retry, repair, R1's re-enqueue and R9's stall repair together start one
\* attempt at a time, and none beyond max_retries.
THEOREM DaemonRetriesBounded == Spec => []DaemonRetriesWithinBudget
<1>1. Inv => RetryBudget
  BY DEF Inv, FilesInv, TaskFits, Fits, RetryBudget
<1>2. Inv => DaemonRetriesWithinBudget
  BY <1>1, OneLives DEF DaemonRetriesWithinBudget
<1> QED
  BY <1>2, PipelineInvariance, PTL

\* The walk along the replacements reaches the end of the chain: each of its
\* tasks is younger than the one before.
LEMMA WalkReachesEnd ==
    ASSUME Inv, NEW m \in Ids, ChainEndsAt(m)
    PROVE  LatestDescendant(state, 0) = m
<1> DEFINE Known == {t \in Ids : state.status[t] # "none"}
           after(t) == IF Successors(state, t) = {} THEN t ELSE Newest(Successors(state, t))
<1>1. /\ 0 \in Known /\ m \in Known /\ Known \subseteq Ids /\ Ids = 0 .. (MaxTasks - 1)
      /\ MaxTasks \in Nat /\ NoTask \notin Ids /\ Known \subseteq Nat
  BY IdsAre DEF ChainEndsAt, Ids
<1>2. Successors(state, m) = {}
  BY DEF ChainEndsAt, Successors
<1>3. ASSUME NEW t \in Known \ {m}
      PROVE  after(t) \in Known /\ t < after(t)
  <2>1. PICK d \in Ids : \A e \in Ids : state.lineage[e] = t <=> e = d
    BY DEF ChainEndsAt
  <2>2. Successors(state, t) = {d}
    BY <2>1 DEF Successors
  <2>3. Newest({d}) = d
    <3>1. d <= d
      BY <1>1
    <3>2. \E x \in {d} : \A e \in {d} : e <= x
      BY <3>1
    <3> QED
      BY <3>2 DEF Newest
  <2>4. after(t) = d
    BY <2>2, <2>3
  <2>5. d \in Known /\ t < d
    <3>1. state.lineage[d] = t
      BY <2>1
    <3>2. t # NoTask
      BY <1>1
    <3> QED
      BY <3>1, <3>2 DEF ChainEndsAt
  <2> HIDE DEF after
  <2> QED
    BY <2>4, <2>5
<1>4. after(m) = m
  BY <1>2
<1> HIDE DEF Known
<1>5. PICK h \in [Known -> Known] : \A t \in Known : h[t] = after(t)
  <2> HIDE DEF after
  <2>1. \A t \in Known : after(t) \in Known
    BY <1>1, <1>3, <1>4
  <2>2. [t \in Known |-> after(t)] \in [Known -> Known]
    BY <2>1
  <2> QED
    BY <2>2
<1> DEFINE Walk(g) == g = [n \in 0 .. MaxTasks |-> IF n = 0 THEN 0
                                                   ELSE IF Successors(state, g[n - 1]) = {}
                                                        THEN g[n - 1]
                                                        ELSE Newest(Successors(state, g[n - 1]))]
           step == CHOOSE g : Walk(g)
<1>6. LatestDescendant(state, 0) = step[MaxTasks]
  BY DEF LatestDescendant
<1>7. \E g : Walk(g)
  <2>1. PICK g \in [0 .. MaxTasks -> Known] :
            g[0] = 0 /\ \A n \in 1 .. MaxTasks : g[n] = h[g[n - 1]]
    <3>1. h \in [Known -> Known] /\ 0 \in Known /\ MaxTasks \in Nat
      BY <1>1, <1>5
    <3>2. HasWalk(MaxTasks, Known, 0, h)
      BY <3>1, Iterates
    <3> QED
      BY <3>2 DEF HasWalk
  <2>2. ASSUME NEW n \in 1 .. MaxTasks
        PROVE  g[n] = after(g[n - 1])
    <3>1. n - 1 \in 0 .. MaxTasks
      BY <1>1
    <3>2. g[n - 1] \in Known
      BY <3>1
    <3> HIDE DEF after
    <3> QED
      BY <2>1, <3>2, <1>5
  <2>3. Walk(g)
    <3>1. ASSUME NEW n \in 0 .. MaxTasks
          PROVE  g[n] = IF n = 0 THEN 0
                        ELSE IF Successors(state, g[n - 1]) = {} THEN g[n - 1]
                             ELSE Newest(Successors(state, g[n - 1]))
      <4>1. n # 0 => n \in 1 .. MaxTasks
        BY <1>1
      <4> QED
        BY <2>1, <2>2, <4>1
    <3> QED
      BY <3>1
  <2> QED
    BY <2>3
<1>8. Walk(step)
  BY <1>7
<1> HIDE DEF step
<1>9. /\ step[0] = 0
      /\ \A n \in 1 .. MaxTasks : step[n] = after(step[n - 1])
  <2>1. ASSUME NEW n \in 0 .. MaxTasks
        PROVE  step[n] = IF n = 0 THEN 0
                         ELSE IF Successors(state, step[n - 1]) = {} THEN step[n - 1]
                              ELSE Newest(Successors(state, step[n - 1]))
    BY <1>8
  <2>2. ASSUME NEW n \in 1 .. MaxTasks PROVE n \in 0 .. MaxTasks /\ n # 0
    BY <1>1
  <2> QED
    BY <1>1, <2>1, <2>2
<1> DEFINE Good == {n \in 0 .. MaxTasks : step[n] \in Known /\ (step[n] = m \/ n <= step[n])}
<1> HIDE DEF after
<1>10. 0 \in Good
  BY <1>1, <1>9
<1>11. ASSUME NEW n \in 1 .. MaxTasks, n - 1 \in Good PROVE n \in Good
  <2>1. /\ step[n - 1] \in Known /\ step[n - 1] \in Nat
        /\ step[n - 1] = m \/ n - 1 <= step[n - 1]
        /\ step[n] = after(step[n - 1]) /\ n \in Nat
    <3>1. step[n - 1] \in Known /\ (step[n - 1] = m \/ n - 1 <= step[n - 1])
      BY <1>11
    <3>2. step[n] = after(step[n - 1])
      BY <1>9
    <3>3. n \in Nat
      BY <1>1
    <3>4. step[n - 1] \in Nat
      BY <1>1, <3>1
    <3> QED
      BY <3>1, <3>2, <3>3, <3>4
  <2>2. CASE step[n - 1] = m
    BY <2>1, <2>2, <1>1, <1>4
  <2>3. CASE step[n - 1] # m
    <3> DEFINE x == step[n - 1]
    <3>1. x \in Known \ {m} /\ step[n] = after(x)
      BY <2>1, <2>3
    <3> HIDE DEF x
    <3>2. step[n] \in Known /\ x < step[n] /\ step[n] \in Nat
      BY <3>1, <1>1, <1>3
    <3> QED
      BY <2>1, <2>3, <3>2, <1>1 DEF x
  <2> QED
    BY <2>2, <2>3
<1>12. Good = 0 .. MaxTasks
  <2>1. Good \in SUBSET (0 .. MaxTasks)
    OBVIOUS
  <2> HIDE DEF Good
  <2> QED
    BY <1>1, <1>10, <1>11, <2>1, StepByStep
<1>13. step[MaxTasks] = m
  <2>1. MaxTasks \in Good
    BY <1>1, <1>12
  <2>2. step[MaxTasks] \in Known /\ (step[MaxTasks] = m \/ MaxTasks <= step[MaxTasks])
    BY <2>1
  <2> DEFINE x == step[MaxTasks]
  <2>3. x \in 0 .. (MaxTasks - 1) /\ (x = m \/ MaxTasks <= x)
    BY <2>2, <1>1
  <2> HIDE DEF x
  <2>4. x = m
    BY <2>3, <1>1
  <2> QED
    BY <2>4 DEF x
<1> QED
  BY <1>6, <1>13

\* While the planner leaves the slot alone, the plan counts exactly one task for
\* it, the newest of the chain, through wiring, rollback, re-enqueue and crashes.
THEOREM SlotKeepsNewest == Spec => []SlotKeepsMember
<1>1. Inv => SlotKeepsMember
  <2> SUFFICES ASSUME Inv, ~budget.planner
               PROVE  state.required \cup state.optional = {LatestDescendant(state, 0)}
    BY DEF SlotKeepsMember
  <2>1. PICK m \in Ids : ChainEndsAt(m)
    BY DEF Inv, OneInv
  <2>2. LatestDescendant(state, 0) = m
    BY <2>1, WalkReachesEnd
  <2> QED
    BY <2>1, <2>2 DEF ChainEndsAt
<1> QED
  BY <1>1, PipelineInvariance, PTL

\* Nothing counts as completed that is not.  While no write is lost, a task the
\* daemon verifies is completed only by a verification that passed, in whatever
\* order Phase B, R2, R9, the verifier and the planner get to it; and, whatever
\* is lost, a phase of the slot that completed has completed the work of its
\* required tasks, while retries, repairs and the planner replace them.
THEOREM CompletionEarned == Spec => []CompletionIsEarned
<1>1. Inv => VerifiedCompletion
  BY DEF Inv, NothingLost, VerifiedCompletion
<1>2. Inv => CompletedPhaseIsDone
  <2> SUFFICES ASSUME Inv, state.phase = "completed",
                      NEW t \in state.phaseTasks \cap state.required
               PROVE  EffectiveStatus(state, t) = "completed"
    BY DEF CompletedPhaseIsDone
  <2>1. state.status[t] = "completed" /\ Successors(state, t) = {}
    BY DEF Inv, MembersInv, PhaseDone, Successors
  <2> QED
    BY <2>1, WalkStays
<1> QED
  BY <1>1, <1>2, PipelineInvariance, PTL DEF CompletionIsEarned

\* No step reopens a settled task.  Only a task whose retry could not be
\* enqueued and which carries a RetryEnqueueFailed entry may change its terminal
\* status: R1 gives it up whatever it has become, unless it has completed.
THEOREM SettledStaysSettled == Spec => [][\A t \in Ids : TerminalKept(t)]_vars
<1>1. Inv /\ [Next]_vars => \A t \in Ids : TerminalKept(t)
  BY StepsHold DEF StepHolds
<1> QED
  BY <1>1, PipelineInvariance, PTL DEF Spec

NoMarks == \A t \in Ids : state.marker[t] = -1

\* Unless both the queue file and the state file can fail to be written, a
\* terminal entry of task_states never changes.
THEOREM SettledStaysAsItIs ==
    ASSUME ~({"queue", "state"} \subseteq FaultKinds)
    PROVE  Spec => TaskStateFinal
<1>1. Init => Inv /\ NoMarks
  <2>1. Init => Inv
    BY InitHolds
  <2>2. Init => NoMarks
    BY DEF Init, NoMarks
  <2> QED
    BY <2>1, <2>2
<1>2. Inv /\ NoMarks /\ [Next]_vars =>
          /\ (Inv /\ NoMarks)'
          /\ \A t \in Ids : IsTerminal(state.status[t]) => state'.status[t] = state.status[t]
  <2> SUFFICES ASSUME Inv, NoMarks, [Next]_vars
               PROVE  /\ (Inv /\ NoMarks)'
                      /\ \A t \in Ids : IsTerminal(state.status[t])
                                            => state'.status[t] = state.status[t]
    OBVIOUS
  <2>1. Inv' /\ \A t \in Ids : TerminalKept(t) /\ MarkerComes(t)
    BY StepsHold DEF StepHolds
  <2>2. ASSUME NEW t \in Ids PROVE state'.marker[t] = -1
    <3>1. state'.marker[t] \in -1 .. MaxEnqueue
      BY <2>1 DEF Inv, TypeInv, CommandState
    <3>2. ~(state'.marker[t] >= 0)
      BY <2>1 DEF NoMarks, MarkerComes
    <3> QED
      BY <3>1, <3>2, IdsAre
  <2>3. NoMarks'
    BY <2>2 DEF NoMarks
  <2> QED
    BY <2>1, <2>3 DEF NoMarks, TerminalKept
<1> QED
  BY <1>1, <1>2, PTL DEF Spec, TaskStateFinal
=============================================================================
