-------------------------- MODULE CommandPlanProofs --------------------------
(***************************************************************************)
(* Theorems about CommandPlan, for any phases and dependencies, any number *)
(* of tasks and requests and any faults.                                   *)
(***************************************************************************)
EXTENDS CommandPlan, FiniteSetTheorems, SequenceTheorems,
        WellFoundedInduction, TLAPS

-----------------------------------------------------------------------------
(* Types.                                                                  *)

Phase == [status : PhaseStatus, ids : SUBSET Tasks,
          cause : Phases \cup {NoPhase}, clock : BOOLEAN]
Filling == {"filling", "filled", "undo_queue", "undo_state"}
Request == [pc : {"idle", "planned", "queued"} \cup Filling,
            phase : Phases \cup {NoPhase}, tasks : SUBSET Tasks, bad : BOOLEAN]
TransOf(P) == [phase : P, new : PhaseStatus \cup {"mark"},
               cause : Phases \cup {NoPhase}]

TypeInv ==
    /\ TypeOK /\ op \in Request /\ next \in Nat \ {0}
    /\ trans \in Seq(TransOf(Phases))

-----------------------------------------------------------------------------
(* The inductive invariant.                                                *)

\* Nobody knows an ID that has not been drawn.
Fresh ==
    \A t \in Tasks : t >= next =>
        /\ q[t] = "none" /\ tst[t] = "none" /\ t \notin first
        /\ \A p \in Phases : t \notin phases[p].ids

\* What goes with the step a request is at.  The one task of a fill is in no
\* phase before the write that activates the phase.
OpFits ==
    /\ op.pc = "idle" => op = Idle
    /\ op.pc # "idle" => \E x \in Tasks : op.tasks = {x} /\ x < next
    /\ op.pc \in {"planned", "queued"} =>
          plan = "planning" /\ \A t \in Tasks : tst[t] = "planned" => t \in op.tasks
    /\ op.pc \in {"queued", "filled"} => \A t \in op.tasks : q[t] = "pending"
    /\ op.pc \in Filling =>
          /\ plan = "sealed" /\ op.phase \in Deferred
          /\ \A t \in op.tasks : /\ tst[t] = "none" /\ t \notin first
                                 /\ \A p \in Phases : t \notin phases[p].ids

\* Only deferred phases are filled, and they share no task with another phase.
PhasesInv ==
    /\ \A p \in Phases : phases[p].status = "filling" => p \in Deferred
    /\ \A p \in Deferred, r \in Phases : r # p => phases[p].ids \cap phases[r].ids = {}

\* A phase that a fill left filling, and that only R0b takes out of it: no
\* request, no transition of the running scan and no cached view moves it.
Stuck(p) ==
    /\ phases[p].status = "filling" /\ op.phase # p
    /\ trans \in Seq(TransOf(Phases \ {p}))
    /\ cache = NoCache \/ cache.phases[p].status = "filling"

\* A task whose row R0b took, before it died, waits in a stuck phase.
RowsInv ==
    plan = "sealed" =>
        \A p \in Phases : \A t \in phases[p].ids :
            tst[t] = "planned" /\ ~Live(t) => Stuck(p)

\* The rows of one initial submission at most wait or run, and none without a
\* state file.
FirstInv ==
    /\ \A t, u \in first : Live(t) /\ Live(u) => t = u
    /\ plan = "none" \/ op.pc = "planned" => \A t \in first : ~Live(t)
    /\ op.pc = "queued" => \A t \in first : Live(t) => t \in op.tasks

Inv == TypeInv /\ Fresh /\ OpFits /\ PhasesInv /\ RowsInv /\ FirstInv


-----------------------------------------------------------------------------
(* The sort of the transitions.                                            *)

LEMMA PriorityIs == \A s : Priority(s) \in Nat
BY DEF Priority

\* Transitions of different phases are ordered by Before, strictly.
LEMMA BeforeOrders ==
    ASSUME NEW T \in SUBSET TransOf(Phases),
           \A a, b \in T : a.phase = b.phase => a = b
    PROVE  /\ \A a \in T : ~Before(a, a)
           /\ \A a, b \in T : a # b => Before(a, b) \/ Before(b, a)
           /\ \A a, b, c \in T : Before(a, b) /\ Before(b, c) => Before(a, c)
<1>1. \A a \in T : Priority(a.new) \in Nat /\ a.phase \in Nat
  BY PriorityIs, PlanAssumption DEF TransOf
<1> QED
  BY <1>1 DEF Before

\* T in the order of Before.
InOrder(s, T) ==
    /\ s \in [1 .. Cardinality(T) -> T]
    /\ \A i, j \in DOMAIN s : i < j => Before(s[i], s[j])

\* There is such an order: the place of a transition is the number of those
\* that come before it.
LEMMA OrderExists ==
    ASSUME NEW T \in SUBSET TransOf(Phases), IsFiniteSet(T),
           \A a, b \in T : a.phase = b.phase => a = b
    PROVE  \E s : InOrder(s, T)
<1> DEFINE n == Cardinality(T)
           Under(x) == {y \in T : Before(y, x)}
           rank == [x \in T |-> Cardinality(Under(x)) + 1]
<1>1. n \in Nat
  BY FS_CardinalityType
<1>2. /\ \A a \in T : ~Before(a, a)
      /\ \A a, b \in T : a # b => Before(a, b) \/ Before(b, a)
      /\ \A a, b, c \in T : Before(a, b) /\ Before(b, c) => Before(a, c)
  BY BeforeOrders
<1>3. ASSUME NEW x \in T
      PROVE  IsFiniteSet(Under(x)) /\ Cardinality(Under(x)) \in 0 .. (n - 1)
  <2>1. Under(x) \in SUBSET T /\ x \notin Under(x)
    BY <1>2
  <2>2. /\ IsFiniteSet(Under(x)) /\ Cardinality(Under(x)) <= n
        /\ n = Cardinality(Under(x)) => T = Under(x)
    BY <2>1, FS_Subset
  <2>3. Cardinality(Under(x)) \in Nat
    BY <2>2, FS_CardinalityType
  <2> HIDE DEF Under, n
  <2> QED
    BY <1>1, <2>1, <2>2, <2>3
<1>4. ASSUME NEW x \in T, NEW y \in T, Before(x, y)
      PROVE  Cardinality(Under(x)) < Cardinality(Under(y))
  <2>1. Under(x) \in SUBSET Under(y) /\ x \in Under(y) /\ x \notin Under(x)
    BY <1>2, <1>4
  <2>2. /\ Cardinality(Under(x)) <= Cardinality(Under(y))
        /\ Cardinality(Under(y)) = Cardinality(Under(x)) => Under(y) = Under(x)
    BY <1>3, <2>1, FS_Subset
  <2> HIDE DEF Under, n
  <2>3. Cardinality(Under(x)) \in Int /\ Cardinality(Under(y)) \in Int
    BY <1>1, <1>3
  <2> QED
    BY <2>1, <2>2, <2>3
<1> HIDE DEF n, Under
<1>5. rank \in [T -> 1 .. n] /\ \A x \in T : rank[x] = Cardinality(Under(x)) + 1
  BY <1>1, <1>3
<1> HIDE DEF rank
<1>6. ASSUME NEW x \in T, NEW y \in T, Before(x, y) PROVE rank[x] < rank[y]
  <2>1. Cardinality(Under(x)) \in Int /\ Cardinality(Under(y)) \in Int
    BY <1>1, <1>3
  <2> QED
    BY <2>1, <1>4, <1>5, <1>6
<1>7. rank \in Surjection(T, 1 .. n)
  <2>1. ASSUME NEW x \in T, NEW y \in T, rank[x] = rank[y] PROVE x = y
    <3>1. rank[x] \in 1 .. n /\ rank[y] \in 1 .. n
      BY <1>5
    <3>2. ~(rank[x] < rank[y]) /\ ~(rank[y] < rank[x])
      BY <2>1, <3>1
    <3> QED
      BY <1>2, <1>6, <3>2
  <2>2. rank \in Injection(T, 1 .. n)
    BY <1>5, <2>1 DEF Injection, IsInjective
  <2>3. IsFiniteSet(1 .. n) /\ Cardinality(1 .. n) = n
    BY <1>1, FS_Interval
  <2>4. n = Cardinality(1 .. n) <=> rank \in Surjection(T, 1 .. n)
    BY <2>2, <2>3, FS_Injection DEF n
  <2> QED
    BY <2>3, <2>4
<1>8. \A i \in 1 .. n : \E x \in T : rank[x] = i
  BY <1>7 DEF Surjection
<1> DEFINE s == [i \in 1 .. n |-> CHOOSE x \in T : rank[x] = i]
<1>9. s \in [1 .. n -> T] /\ \A i \in 1 .. n : rank[s[i]] = i
  BY <1>8
<1> HIDE DEF s
<1>10. ASSUME NEW i \in 1 .. n, NEW j \in 1 .. n, i < j PROVE Before(s[i], s[j])
  <2>1. s[i] \in T /\ s[j] \in T /\ rank[s[i]] = i /\ rank[s[j]] = j
    BY <1>9
  <2>2. s[i] # s[j] /\ ~(rank[s[j]] < rank[s[i]])
    BY <1>1, <1>10, <2>1
  <2> QED
    BY <1>2, <1>6, <2>1, <2>2
<1> QED
  BY <1>9, <1>10 DEF InOrder, n

\* sortPhaseTransitions returns the transitions it is given, by priority.
LEMMA SortedIs ==
    ASSUME NEW T \in SUBSET TransOf(Phases), IsFiniteSet(T),
           \A a, b \in T : a.phase = b.phase => a = b
    PROVE  InOrder(Sorted(T), T) /\ Sorted(T) \in Seq(T)
<1>1. \E s : InOrder(s, T)
  BY OrderExists
<1>2. InOrder(Sorted(T), T)
  BY <1>1 DEF Sorted, InOrder
<1>3. Cardinality(T) \in Nat
  BY FS_CardinalityType
<1>4. Sorted(T) \in [1 .. Cardinality(T) -> T]
  BY <1>2 DEF InOrder
<1> QED
  BY <1>2, <1>3, <1>4, IsASeq


Below == {p \in Nat \X Nat : p[1] < p[2]}

\* Every set of naturals that is not empty has a least element.
LEMMA LeastElement ==
    ASSUME NEW T \in SUBSET Nat, T # {}
    PROVE  \E x \in T : \A y \in T : x <= y
<1>1. IsWellFoundedOn(Below, Nat)
  BY NatLessThanWellFounded, Zenon DEF OpToRel, Below
<1>2. PICK x \in T : \A y \in T : <<y, x>> \notin Below
  BY <1>1, WFMin
<1>3. \A y \in T : ~(y < x)
  BY <1>2 DEF Below
<1> QED
  BY <1>3

\* A check asks for one transition of a phase at most, and for none of a phase
\* that its view shows filling.
LEMMA ChecksOnce ==
    ASSUME NEW v, NEW gated, NEW late \in SUBSET Timed,
           NEW T, T = CheckPhaseTransitions(v, gated, late)
    PROVE  /\ T \in SUBSET TransOf({p \in Phases : v.phases[p].status # "filling"})
           /\ IsFiniteSet(T)
           /\ \A a, b \in T : a.phase = b.phase => a = b
<1> DEFINE st == Reflected(v, gated)
<1>1. late \subseteq Phases /\ IsFiniteSet(Phases) /\ NoPhase \notin Phases
      /\ \A p \in Phases : DependsOn[p] \subseteq Phases
  BY PlanAssumption DEF NoPhase
<1>2. ASSUME NEW p \in Phases, v.phases[p].status = "active"
      PROVE  st[p] \in {"failed", "completed", "active"}
  BY <1>2 DEF Reflected, ActivePhaseNext
<1>3. ASSUME NEW p \in Phases, DeadDeps(st, p) # {}
      PROVE  (CHOOSE d \in DeadDeps(st, p) : \A e \in DeadDeps(st, p) : d <= e) \in Phases
  <2>1. DeadDeps(st, p) \in SUBSET Nat /\ DeadDeps(st, p) \subseteq Phases
    BY <1>1, PlanAssumption DEF DeadDeps
  <2>2. \E d \in DeadDeps(st, p) : \A e \in DeadDeps(st, p) : d <= e
    BY <1>3, <2>1, LeastElement
  <2> QED
    BY <2>1, <2>2
<1> HIDE DEF st
<1> DEFINE P == {p \in Phases : v.phases[p].status # "filling"}
           C == CompletionResults(v, st)
           O == TimeoutResults(v, late)
           D == CascadeResults(v, st)
           A == ActivationResults(v, st)
           R == RecoveryResults(v, st)
<1>4. T = C \cup O \cup D \cup A \cup R
  BY DEF CheckPhaseTransitions, st
<1>5. \A a \in C : /\ a \in TransOf(P) /\ v.phases[a.phase].status = "active"
                   /\ a = Transition(a.phase, st[a.phase], NoPhase)
  <2>1. ASSUME NEW p \in Phases, v.phases[p].status = "active", st[p] # "active"
        PROVE  Transition(p, st[p], NoPhase) \in TransOf(P)
    BY <1>2, <2>1 DEF Transition, TransOf, PhaseStatus
  <2> QED
    BY <2>1 DEF CompletionResults, Transition
<1>6. \A a \in O : /\ a \in TransOf(P) /\ v.phases[a.phase].status = "awaiting_fill"
                   /\ a = Transition(a.phase, "timed_out", NoPhase)
  <2>1. ASSUME NEW p \in late, v.phases[p].status = "awaiting_fill"
        PROVE  Transition(p, "timed_out", NoPhase) \in TransOf(P)
    BY <1>1, <2>1 DEF Transition, TransOf, PhaseStatus
  <2> QED
    BY <2>1 DEF TimeoutResults, Transition
<1>7. \A a \in D : /\ a \in TransOf(P) /\ v.phases[a.phase].status = "pending"
                   /\ DeadDeps(st, a.phase) # {}
                   /\ a = Transition(a.phase, "cancelled",
                                     CHOOSE d \in DeadDeps(st, a.phase) :
                                        \A e \in DeadDeps(st, a.phase) : d <= e)
  <2>1. ASSUME NEW p \in Phases, v.phases[p].status = "pending", DeadDeps(st, p) # {}
        PROVE  Transition(p, "cancelled", CHOOSE d \in DeadDeps(st, p) :
                                             \A e \in DeadDeps(st, p) : d <= e)
                  \in TransOf(P)
    BY <1>3, <2>1 DEF Transition, TransOf, PhaseStatus
  <2> QED
    BY <2>1 DEF CascadeResults, Transition
<1>8. \A a \in A : /\ a \in TransOf(P) /\ v.phases[a.phase].status = "pending"
                   /\ \A d \in DependsOn[a.phase] : st[d] = "completed"
                   /\ a = Transition(a.phase, "awaiting_fill", NoPhase)
  <2>1. ASSUME NEW p \in Phases, v.phases[p].status = "pending"
        PROVE  Transition(p, "awaiting_fill", NoPhase) \in TransOf(P)
    BY <2>1 DEF Transition, TransOf, PhaseStatus
  <2> QED
    BY <2>1 DEF ActivationResults, Transition
<1>9. \A a \in R : /\ a \in TransOf(P) /\ v.phases[a.phase].status = "cancelled"
                   /\ a = Transition(a.phase, "pending", NoPhase)
  <2>1. ASSUME NEW p \in Phases, v.phases[p].status = "cancelled"
        PROVE  Transition(p, "pending", NoPhase) \in TransOf(P)
    BY <2>1 DEF Transition, TransOf, PhaseStatus
  <2> QED
    BY <2>1 DEF RecoveryResults, Transition
<1>10. \A p : DeadDeps(st, p) # {} => ~\A d \in DependsOn[p] : st[d] = "completed"
  BY DEF DeadDeps
<1> HIDE DEF C, O, D, A, R
<1>11. T \in SUBSET TransOf(P)
  BY <1>4, <1>5, <1>6, <1>7, <1>8, <1>9
<1>12. \A a, b \in T : a.phase = b.phase => a = b
  <2> SUFFICES ASSUME NEW a \in T, NEW b \in T, a.phase = b.phase PROVE a = b
    OBVIOUS
  <2>1. CASE a \in C
    <3>1. b \in C
      BY <2>1, <1>4, <1>5, <1>6, <1>7, <1>8, <1>9
    <3> QED
      BY <2>1, <3>1, <1>5
  <2>2. CASE a \in O
    <3>1. b \in O
      BY <2>2, <1>4, <1>5, <1>6, <1>7, <1>8, <1>9
    <3> QED
      BY <2>2, <3>1, <1>6
  <2>3. CASE a \in D
    <3>1. b \in D
      <4>1. v.phases[b.phase].status = "pending" /\ DeadDeps(st, b.phase) # {}
        BY <2>3, <1>7
      <4>2. b \notin C \cup O \cup R
        BY <4>1, <1>5, <1>6, <1>9
      <4>3. b \notin A
        BY <4>1, <1>8, <1>10
      <4> QED
        BY <4>2, <4>3, <1>4
    <3> QED
      BY <2>3, <3>1, <1>7
  <2>4. CASE a \in A
    <3>1. b \in A
      <4>1. /\ v.phases[b.phase].status = "pending"
            /\ \A d \in DependsOn[b.phase] : st[d] = "completed"
        BY <2>4, <1>8
      <4>2. b \notin C \cup O \cup R
        BY <4>1, <1>5, <1>6, <1>9
      <4>3. b \notin D
        BY <4>1, <1>7, <1>10
      <4> QED
        BY <4>2, <4>3, <1>4
    <3> QED
      BY <2>4, <3>1, <1>8
  <2>5. CASE a \in R
    <3>1. b \in R
      BY <2>5, <1>4, <1>5, <1>6, <1>7, <1>8, <1>9
    <3> QED
      BY <2>5, <3>1, <1>9
  <2> QED
    BY <1>4, <2>1, <2>2, <2>3, <2>4, <2>5
<1>13. IsFiniteSet(T)
  <2> DEFINE f == [a \in T |-> a.phase]
  <2>1. f \in [T -> Phases] /\ \A a, b \in T : f[a] = f[b] => a = b
    BY <1>11, <1>12 DEF TransOf
  <2>2. f \in Injection(T, Phases)
    BY <2>1 DEF Injection, IsInjective
  <2> QED
    BY <1>1, <2>2, FS_Injection
<1> QED
  BY <1>11, <1>12, <1>13

LEMMA ChecksSorted ==
    ASSUME NEW v, NEW gated, NEW late \in SUBSET Timed
    PROVE  Sorted(CheckPhaseTransitions(v, gated, late))
              \in Seq(TransOf({p \in Phases : v.phases[p].status # "filling"}))
<1> DEFINE T == CheckPhaseTransitions(v, gated, late)
           P == {p \in Phases : v.phases[p].status # "filling"}
<1>1. /\ T \in SUBSET TransOf(P) /\ IsFiniteSet(T)
      /\ \A a, b \in T : a.phase = b.phase => a = b
  BY ChecksOnce
<1> HIDE DEF T
<1>2. TransOf(P) \subseteq TransOf(Phases)
  BY DEF TransOf
<1>3. Sorted(T) \in Seq(T)
  BY <1>1, <1>2, SortedIs
<1> HIDE DEF P
<1>4. Sorted(T) \in Seq(TransOf(P))
  BY <1>1, <1>3, SeqMonotonic
<1> QED
  BY <1>4 DEF T, P

\* The dependents of a phase wait, themselves.
LEMMA DependentsWait ==
    ASSUME NEW p \in Phases, NEW r \in Dependents(p)
    PROVE  r \in Phases /\ phases[r].status \in {"pending", "awaiting_fill"}
<1> DEFINE Waiting == {e \in Phases : phases[e].status \in {"pending", "awaiting_fill"}}
           X == {p} \cup Waiting
<1>1. r \in Phases \ {p} /\ X \in SUBSET Phases /\ p \in X
  BY DEF Dependents
<1>2. r \in X
  BY <1>1 DEF Dependents
<1> QED
  BY <1>1, <1>2


-----------------------------------------------------------------------------
(* Steps that move no task.                                                *)

LEMMA PhasesAre == NoPhase \notin Phases /\ Deferred \subseteq Phases /\ Timed \subseteq Phases
BY PlanAssumption DEF NoPhase

LEMMA BoundsAre == EscalateAfter \in Nat /\ MaxTasks \in Nat
BY PlanAssumption

\* Phases change their status, or requests, transitions and the cache go on.
LEMMA PhasesMove ==
    ASSUME Inv, TypeInv', UNCHANGED <<plan, tst, q, first>>, next' \in {next, next + 1},
           op' \in {op, Idle},
           \A p \in Phases : /\ phases'[p].ids = phases[p].ids
                             /\ phases'[p].status = "filling" => phases[p].status = "filling"
                             /\ Stuck(p) => Stuck(p)'
    PROVE  Inv'
<1> USE DEF Inv
<1> Tasks \subseteq Nat /\ next \in Nat
  BY DEF TypeInv, Tasks
<1>1. Fresh'
  BY DEF Fresh
<1>2. OpFits'
  <2>1. CASE op' = op
    BY <2>1, PhasesAre DEF OpFits
  <2>2. CASE op' = Idle
    BY <2>2 DEF OpFits, Idle, Filling
  <2> QED
    BY <2>1, <2>2
<1>3. PhasesInv'
  BY PhasesAre DEF PhasesInv
<1>4. RowsInv'
  BY DEF RowsInv, Live
<1>5. FirstInv'
  <2>1. op'.pc \in {"planned", "queued"} => op' = op
    BY DEF Idle
  <2> QED
    BY <2>1 DEF FirstInv, Live
<1> QED
  BY <1>1, <1>2, <1>3, <1>4, <1>5

LEMMA QuietStep ==
    ASSUME Inv,
           \/ DispatchCommand \/ R0Dispatch \/ CancelRequest \/ CancelApply
           \/ \E p \in Phases : WatchdogReset(p)
    PROVE  Inv'
<1> USE DEF Inv
<1>1. UNCHANGED <<plan, phases, tst, req, q, first, next, cache, op, trans>>
  BY DEF DispatchCommand, R0Dispatch, CancelRequest, CancelApply, WatchdogReset
<1>2. /\ row' \in {"pending", "in_progress", "cancelled", "absent"}
      /\ {seen', cancel'} \subseteq BOOLEAN
      /\ cancelAt' \in {"idle", "submitted", "unsubmitted"}
      /\ fires' \in [Phases -> 0 .. EscalateAfter]
  <2>1. fires \in [Phases -> 0 .. EscalateAfter] /\ 0 \in 0 .. EscalateAfter
    BY BoundsAre DEF TypeInv, TypeOK
  <2>2. CASE DispatchCommand \/ R0Dispatch
    BY <2>1, <2>2 DEF DispatchCommand, R0Dispatch, TypeInv, TypeOK
  <2>3. CASE CancelRequest
    BY <2>1, <2>3 DEF CancelRequest, TypeInv, TypeOK
  <2>4. CASE CancelApply
    <3>1. cancel' \in BOOLEAN /\ row' \in {row, "cancelled"} /\ cancelAt' = "idle"
          /\ UNCHANGED <<seen, fires>>
      BY <2>4 DEF CancelApply
    <3> QED
      BY <2>1, <3>1 DEF TypeInv, TypeOK
  <2>5. CASE \E p \in Phases : WatchdogReset(p)
    BY <2>1, <2>5 DEF WatchdogReset, TypeInv, TypeOK
  <2> QED
    BY <2>2, <2>3, <2>4, <2>5
<1>3. TypeInv'
  BY <1>1, <1>2 DEF TypeInv, TypeOK
<1>4. \A p \in Phases : Stuck(p) => Stuck(p)'
  BY <1>1 DEF Stuck
<1> QED
  BY <1>1, <1>3, <1>4, PhasesMove

LEMMA ScanCheckStep ==
    ASSUME Inv, NEW gated \in SUBSET Phases, NEW late \in SUBSET Timed,
           ScanCheck(gated, late)
    PROVE  Inv'
<1> USE DEF Inv
<1>1. PICK v \in Views : /\ trans' = Sorted(CheckPhaseTransitions(v, gated, late))
                         /\ cache' = IF Cached THEN v ELSE NoCache
  BY DEF ScanCheck
<1>2. UNCHANGED <<row, seen, plan, cancel, cancelAt, phases, tst, req, q, first, next, op, fires>>
  BY DEF ScanCheck
<1>3. trans' \in Seq(TransOf({p \in Phases : v.phases[p].status # "filling"}))
  BY <1>1, ChecksSorted
<1>4. ASSUME NEW p \in Phases, Stuck(p) PROVE Stuck(p)'
  <2>1. v.phases[p].status = "filling"
    <3>1. CASE v = Disk
      BY <3>1, <1>4 DEF Disk, Stuck
    <3>2. CASE v # Disk
      <4>1. v = cache /\ cache # NoCache
        BY <3>2 DEF Views
      <4> QED
        BY <4>1, <1>4 DEF Stuck
    <3> QED
      BY <3>1, <3>2
  <2>2. TransOf({r \in Phases : v.phases[r].status # "filling"})
           \subseteq TransOf(Phases \ {p})
    BY <2>1 DEF TransOf
  <2>3. trans' \in Seq(TransOf(Phases \ {p}))
    BY <1>3, <2>2, SeqMonotonic
  <2>4. cache' = NoCache \/ cache'.phases[p].status = "filling"
    BY <1>1, <2>1
  <2> QED
    BY <1>2, <1>4, <2>3, <2>4 DEF Stuck
<1>5. TypeInv'
  <2>1. TransOf({p \in Phases : v.phases[p].status # "filling"}) \subseteq TransOf(Phases)
    BY DEF TransOf
  <2>2. trans' \in Seq(TransOf(Phases))
    BY <1>3, <2>1, SeqMonotonic
  <2> QED
    BY <1>2, <2>2 DEF TypeInv, TypeOK
<1> QED
  BY <1>2, <1>4, <1>5, PhasesMove

LEMMA PhaseAfterIs ==
    ASSUME NEW ph \in Phase, NEW new \in PhaseStatus
    PROVE  /\ PhaseAfter(ph, new) \in Phase /\ PhaseAfter(ph, new).ids = ph.ids
           /\ PhaseAfter(ph, new).status = new
<1> DEFINE c == \/ new = "awaiting_fill"
                \/ ph.clock /\ ph.status # "awaiting_fill"
<1>1. c \in BOOLEAN /\ PhaseAfter(ph, new) = [ph EXCEPT !.status = new, !.clock = c]
  BY DEF PhaseAfter
<1> HIDE DEF c
<1> QED
  BY <1>1 DEF Phase

LEMMA NextTransition ==
    ASSUME NEW S, trans \in Seq(S), trans # <<>>
    PROVE  Head(trans) \in S /\ Tail(trans) \in Seq(S)
BY HeadTailProperties

LEMMA ScanApplyStep == ASSUME Inv, ScanApply PROVE Inv'
<1> USE DEF Inv
<1> DEFINE tr == Head(trans)
           p == tr.phase
           more == IF tr.new = "pending" \/ tr.cause # NoPhase
                   THEN <<[tr EXCEPT !.new = "mark"]>> ELSE <<>>
<1>1. /\ trans # <<>>
      /\ \/ /\ ValidPhaseTransition(phases[p].status, tr.new)
            /\ phases' = [phases EXCEPT ![p] = PhaseAfter(@, tr.new)]
            /\ cache' = NoCache /\ trans' = more \o Tail(trans)
         \/ trans' = Tail(trans) /\ UNCHANGED <<phases, cache>>
      /\ UNCHANGED <<row, seen, plan, cancel, cancelAt, tst, req, q, first, next, op, fires>>
  BY DEF ScanApply
<1>2. ASSUME NEW P \in SUBSET Phases, trans \in Seq(TransOf(P))
      PROVE  tr \in TransOf(P) /\ trans' \in Seq(TransOf(P))
  <2>1. tr \in TransOf(P) /\ Tail(trans) \in Seq(TransOf(P))
    BY <1>1, <1>2, NextTransition
  <2> HIDE DEF tr
  <2>2. [tr EXCEPT !.new = "mark"] \in TransOf(P)
    BY <2>1 DEF TransOf
  <2>3. more \in Seq(TransOf(P))
    BY <2>2
  <2> HIDE DEF more
  <2>4. more \o Tail(trans) \in Seq(TransOf(P))
    BY <2>1, <2>3, ConcatProperties
  <2> QED
    BY <1>1, <2>1, <2>4
<1>3. tr \in TransOf(Phases) /\ trans' \in Seq(TransOf(Phases))
  BY <1>2 DEF TypeInv
<1>4. p \in Phases /\ phases \in [Phases -> Phase]
  BY <1>3 DEF TransOf, TypeInv, TypeOK, Phase
<1>5. /\ phases' \in [Phases -> Phase]
      /\ \A r \in Phases : /\ phases'[r].ids = phases[r].ids
                           /\ phases'[r].status = "filling" => phases[r].status = "filling"
                           /\ r # p => phases'[r] = phases[r]
  <2>1. CASE /\ ValidPhaseTransition(phases[p].status, tr.new)
             /\ phases' = [phases EXCEPT ![p] = PhaseAfter(@, tr.new)]
    <3> HIDE DEF tr, p
    <3>1. tr.new \in PhaseStatus /\ tr.new # "filling"
      BY <2>1 DEF ValidPhaseTransition, PhaseStatus
    <3>2. PhaseAfter(phases[p], tr.new) \in Phase
          /\ PhaseAfter(phases[p], tr.new).ids = phases[p].ids
          /\ PhaseAfter(phases[p], tr.new).status = tr.new
      BY <1>4, <3>1, PhaseAfterIs
    <3> QED
      BY <1>4, <2>1, <3>1, <3>2
  <2>2. CASE phases' = phases
    BY <1>4, <2>2
  <2> QED
    BY <1>1, <2>1, <2>2
<1> HIDE DEF tr, p, more
<1>6. ASSUME NEW r \in Phases, Stuck(r) PROVE Stuck(r)'
  <2>1. tr \in TransOf(Phases \ {r}) /\ trans' \in Seq(TransOf(Phases \ {r}))
    BY <1>2, <1>6 DEF Stuck
  <2>2. r # p
    BY <2>1 DEF TransOf, p
  <2>3. cache' \in {cache, NoCache}
    BY <1>1
  <2> QED
    BY <1>1, <1>5, <1>6, <2>1, <2>2, <2>3 DEF Stuck
<1>7. TypeInv'
  BY <1>1, <1>3, <1>5 DEF TypeInv, TypeOK, Phase
<1> QED
  BY <1>1, <1>5, <1>6, <1>7, PhasesMove

LEMMA MarkStep == ASSUME Inv, SetPhaseCancelledReason PROVE Inv'
<1> USE DEF Inv
<1> DEFINE tr == Head(trans)
<1>1. /\ trans # <<>> /\ trans' = Tail(trans)
      /\ \/ phases' = [phases EXCEPT ![tr.phase].cause = tr.cause] /\ cache' = NoCache
         \/ UNCHANGED <<phases, cache>>
      /\ UNCHANGED <<row, seen, plan, cancel, cancelAt, tst, req, q, first, next, op, fires>>
  BY DEF SetPhaseCancelledReason
<1>2. tr \in TransOf(Phases) /\ trans' \in Seq(TransOf(Phases))
      /\ \A P : trans \in Seq(TransOf(P)) => trans' \in Seq(TransOf(P))
  BY <1>1, NextTransition DEF TypeInv
<1> HIDE DEF tr
<1>3. phases \in [Phases -> Phase]
  BY DEF TypeInv, TypeOK, Phase
<1>4. /\ phases' \in [Phases -> Phase]
      /\ \A r \in Phases : /\ phases'[r].ids = phases[r].ids
                           /\ phases'[r].status = phases[r].status
  <2> DEFINE new == [phases[tr.phase] EXCEPT !.cause = tr.cause]
  <2>1. tr.phase \in Phases /\ tr.cause \in Phases \cup {NoPhase}
    BY <1>2 DEF TransOf
  <2>2. new \in Phase /\ new.ids = phases[tr.phase].ids /\ new.status = phases[tr.phase].status
    BY <1>3, <2>1 DEF Phase
  <2>3. phases' \in {phases, [phases EXCEPT ![tr.phase] = new]}
    BY <1>1
  <2> HIDE DEF new
  <2> QED
    BY <1>3, <2>1, <2>2, <2>3
<1>5. ASSUME NEW r \in Phases, Stuck(r) PROVE Stuck(r)'
  <2>1. cache' \in {cache, NoCache}
    BY <1>1
  <2> QED
    BY <2>1, <1>1, <1>2, <1>4, <1>5 DEF Stuck
<1>6. TypeInv'
  BY <1>1, <1>2, <1>4 DEF TypeInv, TypeOK, Phase
<1> QED
  BY <1>1, <1>4, <1>5, <1>6, PhasesMove

LEMMA WatchdogStep == ASSUME Inv, NEW p \in Phases, Watchdog(p) PROVE Inv'
<1> USE DEF Inv
<1>1. /\ phases' = phases \/ Escalate(p)
      /\ fires' \in [Phases -> 0 .. EscalateAfter] /\ cache' = NoCache
      /\ UNCHANGED <<row, seen, plan, cancel, cancelAt, tst, req, q, first, next, op, trans>>
  <2>1. fires \in [Phases -> 0 .. EscalateAfter] /\ EscalateAfter \in Nat
    BY BoundsAre DEF TypeInv, TypeOK
  <2>2. fires' \in [Phases -> 0 .. EscalateAfter]
    <3>1. CASE fires[p] + 1 < EscalateAfter /\ fires' = [fires EXCEPT ![p] = @ + 1]
      <4>1. fires[p] + 1 \in 0 .. EscalateAfter
        BY <2>1, <3>1
      <4> QED
        BY <2>1, <3>1, <4>1
    <3>2. CASE fires' = [fires EXCEPT ![p] = 0]
      BY <2>1, <3>2
    <3> QED
      BY <3>1, <3>2 DEF Watchdog
  <2> QED
    BY <2>2 DEF Watchdog
<1>2. \E v \in Views : v.phases[p].status = "awaiting_fill"
  BY DEF Watchdog
<1>3. phases \in [Phases -> Phase] /\ "failed" \in PhaseStatus
  BY DEF TypeInv, TypeOK, Phase, PhaseStatus
<1>4. ~Stuck(p)
  BY <1>2 DEF Views, Disk, Stuck
<1>5. /\ phases' \in [Phases -> Phase]
      /\ \A r \in Phases : /\ phases'[r].ids = phases[r].ids
                           /\ phases'[r].status = "filling" => phases[r].status = "filling"
                           /\ r # p => phases'[r] = phases[r]
  <2>1. /\ PhaseAfter(phases[p], "failed") \in Phase
        /\ PhaseAfter(phases[p], "failed").ids = phases[p].ids
        /\ PhaseAfter(phases[p], "failed").status = "failed"
    BY <1>3, PhaseAfterIs
  <2> QED
    BY <1>1, <1>3, <2>1 DEF Escalate
<1>6. \A r \in Phases : Stuck(r) => Stuck(r)'
  BY <1>1, <1>4, <1>5 DEF Stuck
<1>7. TypeInv'
  BY <1>1, <1>5 DEF TypeInv, TypeOK, Phase
<1> QED
  BY <1>1, <1>5, <1>6, <1>7, PhasesMove

LEMMA R6Step == ASSUME Inv, NEW p \in Phases, R6FillTimeout(p) PROVE Inv'
<1> USE DEF Inv
<1>1. /\ phases[p].status = "awaiting_fill"
      /\ \/ phases' = [r \in Phases |->
                IF r = p THEN [phases[r] EXCEPT !.status = "timed_out"]
                ELSE IF r \in Dependents(p)
                THEN [phases[r] EXCEPT !.status = "cancelled"]
                ELSE phases[r]]
         \/ phases' = phases
      /\ UNCHANGED <<row, seen, plan, cancel, cancelAt, tst, req, q, first, next, cache, op,
                     trans, fires>>
  BY DEF R6FillTimeout
<1>2. phases \in [Phases -> Phase] /\ {"timed_out", "cancelled"} \subseteq PhaseStatus
  BY DEF TypeInv, TypeOK, Phase, PhaseStatus
<1>3. \A r \in Dependents(p) : phases[r].status \in {"pending", "awaiting_fill"}
  BY DependentsWait
<1>4. /\ phases' \in [Phases -> Phase]
      /\ \A r \in Phases : /\ phases'[r].ids = phases[r].ids
                           /\ phases'[r].status = "filling" <=> phases[r].status = "filling"
  BY <1>1, <1>2, <1>3 DEF Phase
<1>5. \A r \in Phases : Stuck(r) => Stuck(r)'
  BY <1>1, <1>4 DEF Stuck
<1>6. TypeInv'
  BY <1>1, <1>4 DEF TypeInv, TypeOK, Phase
<1> QED
  BY <1>1, <1>4, <1>5, <1>6, PhasesMove

LEMMA CrashStep == ASSUME Inv, Crash PROVE Inv'
<1> USE DEF Inv
<1>1. /\ op' = Idle /\ trans' = <<>> /\ cache' = NoCache
      /\ fires' = [p \in Phases |-> 0] /\ cancelAt' = "idle"
      /\ UNCHANGED <<row, seen, plan, cancel, phases, tst, req, q, first, next>>
  BY DEF Crash
<1>2. \A r \in Phases : Stuck(r) => Stuck(r)'
  BY <1>1, PhasesAre, EmptySeq DEF Stuck, Idle
<1>3. TypeInv'
  BY <1>1, PlanAssumption, EmptySeq DEF TypeInv, TypeOK, Idle, Request
<1> QED
  BY <1>1, <1>2, <1>3, PhasesMove


-----------------------------------------------------------------------------
(* The initial submission.                                                 *)

LEMMA SubmitStartStep == ASSUME Inv, SubmitStart PROVE Inv'
<1> USE DEF Inv
<1>1. /\ op = Idle /\ trans = <<>> /\ plan = "none" /\ next \in Tasks /\ next' = next + 1
      /\ first' = first \cup {next}
      /\ \/ BuildState({next}) /\ op' = [Idle EXCEPT !.pc = "planned", !.tasks = {next}]
         \/ UNCHANGED planVars /\ op' = op
      /\ UNCHANGED <<row, seen, cancel, cancelAt, q, cache, trans, fires>>
  BY DEF SubmitStart, Exclusive, InitialAllowed
<1>2. /\ next \in Nat \ {0} /\ next' \in Nat \ {0} /\ Tasks \subseteq Nat
      /\ first' \subseteq Tasks
  BY <1>1 DEF TypeInv, TypeOK, Tasks
<1>3. /\ q[next] = "none" /\ tst[next] = "none" /\ next \notin first
      /\ \A p \in Phases : next \notin phases[p].ids
  BY <1>1, <1>2 DEF Fresh
<1>4. FirstInv'
  <2>1. \A t \in first' : ~Live(t)
    BY <1>1, <1>3 DEF FirstInv, Live
  <2>2. \A t \in first' : ~Live(t)'
    BY <1>1, <2>1 DEF Live
  <2> QED
    BY <2>2 DEF FirstInv
<1>5. CASE BuildState({next}) /\ op' = [Idle EXCEPT !.pc = "planned", !.tasks = {next}]
  <2>1. /\ plan' = "planning" /\ req' = {next}
        /\ phases' = [p \in Phases |->
              [status |-> IF p \in Deferred THEN "pending" ELSE "active",
               ids |-> IF p \in Deferred THEN {} ELSE {next},
               cause |-> NoPhase, clock |-> FALSE]]
        /\ tst' = [t \in Tasks |-> IF t \in {next} THEN "planned" ELSE "none"]
    BY <1>5 DEF BuildState
  <2>2. phases' \in [Phases -> Phase]
    BY <1>1, <2>1 DEF Phase, PhaseStatus
  <2>3. op' \in Request /\ op'.pc = "planned" /\ op'.tasks = {next}
    BY <1>1, <1>5 DEF Idle, Request
  <2>4. TypeInv'
    BY <1>1, <1>2, <2>1, <2>2, <2>3 DEF TypeInv, TypeOK, Phase
  <2>5. Fresh'
    BY <1>1, <1>2, <2>1 DEF Fresh
  <2>6. OpFits'
    BY <1>1, <1>2, <2>1, <2>3 DEF OpFits, Filling
  <2>7. PhasesInv'
    BY <2>1, PhasesAre DEF PhasesInv
  <2>8. RowsInv'
    BY <2>1 DEF RowsInv
  <2> QED
    BY <1>4, <2>4, <2>5, <2>6, <2>7, <2>8
<1>6. CASE UNCHANGED planVars /\ op' = op
  <2>1. UNCHANGED <<plan, phases, tst, req, op>>
    BY <1>6 DEF planVars
  <2>2. TypeInv'
    BY <1>1, <1>2, <2>1 DEF TypeInv, TypeOK
  <2>3. Fresh'
    BY <1>1, <1>2, <2>1 DEF Fresh
  <2>4. OpFits'
    BY <1>1, <2>1 DEF OpFits, Idle, Filling
  <2>5. PhasesInv' /\ RowsInv'
    BY <1>1, <2>1 DEF PhasesInv, RowsInv
  <2> QED
    BY <1>4, <2>2, <2>3, <2>4, <2>5
<1> QED
  BY <1>1, <1>5, <1>6

\* Rows of a set of tasks are written or taken back.
LEMMA RowsWritten ==
    ASSUME q \in [Tasks -> {"none", "pending", "active", "done"}], NEW T \in SUBSET Tasks,
           AppendRows(T) \/ AppendSome(T) \/ RemoveRows(T)
    PROVE  /\ q' \in [Tasks -> {"none", "pending", "active", "done"}]
           /\ \A t \in Tasks \ T : q'[t] = q[t]
           /\ AppendRows(T) => \A t \in T : q'[t] = "pending"
           /\ RemoveRows(T) => \A t \in T : q'[t] = "none"
BY DEF AppendRows, AppendSome, RemoveRows

LEMMA RollbackStep ==
    ASSUME Inv, op.pc \in {"planned", "queued"}, SubmitRollback,
           UNCHANGED <<row, seen, cancel, cancelAt, next, cache, trans, fires>>
    PROVE  Inv'
<1> USE DEF Inv
<1>1. /\ op' = Idle /\ plan' = "none" /\ req' = {}
      /\ phases' = [p \in Phases |-> [status |-> "absent", ids |-> {},
                                      cause |-> NoPhase, clock |-> FALSE]]
      /\ tst' = [t \in Tasks |-> "none"]
      /\ \/ RemoveRows(op.tasks) /\ first' = first
         \/ AppendSome(op.tasks) /\ first' = first \ op.tasks
  BY DEF SubmitRollback, NoState
<1>2. /\ q \in [Tasks -> {"none", "pending", "active", "done"}] /\ op.tasks \in SUBSET Tasks
      /\ next \in Nat \ {0} /\ Tasks \subseteq Nat
  BY DEF TypeInv, TypeOK, Request, Tasks
<1>3. /\ q' \in [Tasks -> {"none", "pending", "active", "done"}]
      /\ \A t \in Tasks \ op.tasks : q'[t] = q[t]
      /\ RemoveRows(op.tasks) => \A t \in op.tasks : q'[t] = "none"
  BY <1>1, <1>2, RowsWritten
<1>4. \A t \in op.tasks : t < next
  BY DEF OpFits
<1>5. TypeInv'
  <2>1. phases' \in [Phases -> Phase]
    BY <1>1 DEF Phase, PhaseStatus
  <2>2. first' \subseteq Tasks
    BY <1>1 DEF TypeInv, TypeOK
  <2> QED
    BY <1>1, <1>3, <2>1, <2>2 DEF TypeInv, TypeOK, Phase, Idle, Request
<1>6. Fresh'
  BY <1>1, <1>2, <1>3, <1>4 DEF Fresh
<1>7. OpFits'
  BY <1>1 DEF OpFits, Idle, Filling
<1>8. PhasesInv' /\ RowsInv'
  BY <1>1, PhasesAre DEF PhasesInv, RowsInv
<1>9. FirstInv'
  <2>1. \A t \in first : Live(t) => t \in op.tasks
    BY DEF FirstInv
  <2>2. \A t \in first' : t \in first /\ t \in Tasks
    BY <1>1 DEF TypeInv, TypeOK
  <2>3. \A t \in first' : ~Live(t)'
    BY <1>1, <1>3, <2>1, <2>2 DEF Live
  <2> QED
    BY <2>3 DEF FirstInv
<1> QED
  BY <1>5, <1>6, <1>7, <1>8, <1>9

LEMMA SubmitQueueStep == ASSUME Inv, SubmitQueue PROVE Inv'
<1> USE DEF Inv
<1>1. op.pc = "planned" /\ UNCHANGED <<row, seen, cancel, cancelAt, next, cache, trans, fires>>
  BY DEF SubmitQueue
<1>2. CASE /\ AppendRows(op.tasks) /\ op' = [op EXCEPT !.pc = "queued"]
           /\ UNCHANGED <<planVars, first>>
  <2>1. UNCHANGED <<plan, phases, tst, req, first>>
    BY <1>2 DEF planVars
  <2>2. /\ q \in [Tasks -> {"none", "pending", "active", "done"}] /\ op.tasks \in SUBSET Tasks
        /\ op \in Request /\ Tasks \subseteq Nat /\ next \in Nat
    BY DEF TypeInv, TypeOK, Request, Tasks
  <2>3. /\ q' \in [Tasks -> {"none", "pending", "active", "done"}]
        /\ \A t \in Tasks \ op.tasks : q'[t] = q[t]
        /\ \A t \in op.tasks : q'[t] = "pending"
    BY <1>2, <2>2, RowsWritten
  <2>4. op' \in Request /\ op'.pc = "queued" /\ op'.tasks = op.tasks
    BY <1>2, <2>2 DEF Request
  <2>5. /\ \E x \in Tasks : op.tasks = {x} /\ x < next
        /\ plan = "planning" /\ \A t \in Tasks : tst[t] = "planned" => t \in op.tasks
    BY <1>1 DEF OpFits
  <2>6. TypeInv'
    BY <1>1, <2>1, <2>3, <2>4 DEF TypeInv, TypeOK
  <2>7. Fresh'
    <3>1. \A t \in op.tasks : t \in Nat /\ t < next
      BY <2>2, <2>5
    <3>2. \A t \in Tasks : t >= next => q'[t] = q[t]
      BY <2>2, <2>3, <3>1
    <3> QED
      BY <1>1, <2>1, <3>2 DEF Fresh
  <2>8. OpFits'
    BY <1>1, <2>1, <2>3, <2>4, <2>5 DEF OpFits, Filling
  <2>9. PhasesInv' /\ RowsInv'
    BY <2>1, <2>5 DEF PhasesInv, RowsInv
  <2>10. FirstInv'
    <3>1. \A t \in first : t \in Tasks /\ ~Live(t)
      BY <1>1 DEF FirstInv, TypeInv, TypeOK
    <3>2. \A t \in first' : Live(t)' => t \in op.tasks
      BY <2>1, <2>3, <3>1 DEF Live
    <3> QED
      BY <2>1, <2>4, <2>5, <3>2 DEF FirstInv
  <2> QED
    BY <2>6, <2>7, <2>8, <2>9, <2>10
<1>3. CASE SubmitRollback
  BY <1>1, <1>3, RollbackStep
<1> QED
  BY <1>2, <1>3 DEF SubmitQueue

LEMMA SubmitSealStep == ASSUME Inv, SubmitSeal PROVE Inv'
<1> USE DEF Inv
<1>1. op.pc = "queued" /\ UNCHANGED <<row, seen, cancel, cancelAt, next, cache, trans, fires>>
  BY DEF SubmitSeal
<1>2. CASE plan' = "sealed" /\ op' = Idle /\ UNCHANGED <<phases, tst, req, q, first>>
  <2>1. TypeInv'
    BY <1>1, <1>2 DEF TypeInv, TypeOK, Idle, Request
  <2>2. Fresh' /\ PhasesInv'
    BY <1>1, <1>2 DEF Fresh, PhasesInv
  <2>3. OpFits'
    BY <1>2 DEF OpFits, Idle, Filling
  <2>4. \A t \in Tasks : tst[t] = "planned" => q[t] = "pending"
    BY <1>1 DEF OpFits
  <2>5. \A p \in Phases : phases[p].ids \subseteq Tasks
    BY DEF TypeInv, TypeOK
  <2>6. RowsInv'
    BY <1>2, <2>4, <2>5 DEF RowsInv, Live
  <2>7. FirstInv'
    BY <1>2 DEF FirstInv, Live, Idle
  <2> QED
    BY <2>1, <2>2, <2>3, <2>6, <2>7
<1>3. CASE SubmitRollback
  BY <1>1, <1>3, RollbackStep
<1> QED
  BY <1>2, <1>3 DEF SubmitSeal


-----------------------------------------------------------------------------
(* Phase fills.                                                            *)

LEMMA FillStartStep == ASSUME Inv, NEW p \in Phases, FillStart(p) PROVE Inv'
<1> USE DEF Inv
<1> DEFINE new == [pc |-> "filling", phase |-> p, tasks |-> {next}, bad |-> FALSE]
<1>1. /\ op = Idle /\ trans = <<>> /\ plan = "sealed"
      /\ p \in Deferred /\ phases[p].status = "awaiting_fill"
      /\ next \in Tasks /\ next' = next + 1
      /\ \/ phases' = [phases EXCEPT ![p].clock = TRUE]
         \/ phases' = [phases EXCEPT ![p] = [@ EXCEPT !.status = "filling", !.clock = FALSE]]
      /\ op' \in {Idle, new}
      /\ UNCHANGED <<row, seen, plan, cancel, cancelAt, tst, req, q, first, cache, trans, fires>>
  BY DEF FillStart, FillAllowed, FillRejected, Exclusive, Idle
<1>2. /\ phases \in [Phases -> Phase] /\ next \in Nat \ {0} /\ Tasks \subseteq Nat
      /\ "filling" \in PhaseStatus
  BY DEF TypeInv, TypeOK, Phase, Tasks, PhaseStatus
<1>3. /\ phases' \in [Phases -> Phase]
      /\ \A r \in Phases : phases'[r].ids = phases[r].ids /\ (r # p => phases'[r] = phases[r])
  <2>1. phases[p] \in Phase
    BY <1>2
  <2>2. CASE phases' = [phases EXCEPT ![p].clock = TRUE]
    <3>1. [phases[p] EXCEPT !.clock = TRUE] \in Phase
          /\ [phases[p] EXCEPT !.clock = TRUE].ids = phases[p].ids
      BY <2>1 DEF Phase
    <3> QED
      BY <1>2, <2>2, <3>1
  <2>3. CASE phases' = [phases EXCEPT ![p] = [@ EXCEPT !.status = "filling", !.clock = FALSE]]
    <3>1. [phases[p] EXCEPT !.status = "filling", !.clock = FALSE] \in Phase
          /\ [phases[p] EXCEPT !.status = "filling", !.clock = FALSE].ids = phases[p].ids
      BY <1>2, <2>1 DEF Phase
    <3> QED
      BY <1>2, <2>3, <3>1
  <2> QED
    BY <1>1, <2>2, <2>3
<1>4. /\ q[next] = "none" /\ tst[next] = "none" /\ next \notin first
      /\ \A r \in Phases : next \notin phases[r].ids
  BY <1>1, <1>2 DEF Fresh
<1>5. op' \in Request
  <2>1. Idle \in Request
    BY DEF Request, Idle
  <2>2. new \in Request
    BY <1>1 DEF Request, Filling
  <2> QED
    BY <1>1, <2>1, <2>2
<1>6. ASSUME NEW r \in Phases, Stuck(r) PROVE Stuck(r)'
  <2>1. r # p
    BY <1>1, <1>6 DEF Stuck
  <2>2. op'.phase # r
    BY <1>1, <2>1, PhasesAre DEF Idle
  <2> QED
    BY <1>1, <1>3, <1>6, <2>1, <2>2 DEF Stuck
<1>7. TypeInv'
  BY <1>1, <1>2, <1>3, <1>5 DEF TypeInv, TypeOK, Phase
<1>8. Fresh'
  BY <1>1, <1>2, <1>3 DEF Fresh
<1>9. OpFits'
  <2>1. CASE op' = Idle
    BY <2>1 DEF OpFits, Idle, Filling
  <2>2. CASE op' = new
    BY <2>2, <1>1, <1>2, <1>3, <1>4 DEF OpFits, Filling
  <2> QED
    BY <1>1, <2>1, <2>2
<1>10. PhasesInv'
  BY <1>1, <1>3, PhasesAre DEF PhasesInv
<1>11. RowsInv'
  BY <1>1, <1>3, <1>6 DEF RowsInv, Live
<1>12. FirstInv'
  BY <1>1 DEF FirstInv, Live, Idle
<1> QED
  BY <1>7, <1>8, <1>9, <1>10, <1>11, <1>12

\* A fill that goes on, or back, without touching the state.
LEMMA FillMoves ==
    ASSUME Inv, op.pc \in Filling, op' \in Request, op'.pc \in Filling,
           op'.phase = op.phase, op'.tasks = op.tasks,
           q' \in [Tasks -> {"none", "pending", "active", "done"}],
           \A t \in Tasks \ op.tasks : q'[t] = q[t],
           op'.pc = "filled" => \A t \in op.tasks : q'[t] = "pending",
           UNCHANGED <<row, seen, plan, cancel, cancelAt, phases, tst, req, first, next, cache,
                       trans, fires>>
    PROVE  Inv'
<1> USE DEF Inv
<1>1. /\ \A p \in Phases : phases[p].ids \subseteq Tasks \ op.tasks
      /\ first \subseteq Tasks \ op.tasks
      /\ \E x \in Tasks : op.tasks = {x} /\ x < next
      /\ plan = "sealed" /\ op.phase \in Deferred
      /\ \A t \in op.tasks : tst[t] = "none"
  BY DEF OpFits, TypeInv, TypeOK, Filling
<1>2. next \in Nat /\ Tasks \subseteq Nat
  BY DEF TypeInv, Tasks
<1>3. \A t \in Tasks : t >= next => q'[t] = q[t]
  BY <1>1, <1>2
<1>4. TypeInv'
  BY DEF TypeInv, TypeOK, Filling
<1>5. Fresh'
  BY <1>3 DEF Fresh
<1>6. OpFits'
  BY <1>1 DEF OpFits, Filling
<1>7. PhasesInv'
  BY DEF PhasesInv
<1>8. RowsInv'
  <2>1. \A p \in Phases : Stuck(p) => Stuck(p)'
    BY DEF Stuck
  <2>2. \A p \in Phases : \A t \in phases[p].ids : q'[t] = q[t]
    BY <1>1
  <2> QED
    BY <2>1, <2>2 DEF RowsInv, Live
<1>9. FirstInv'
  <2>1. \A t \in first : q'[t] = q[t]
    BY <1>1
  <2> QED
    BY <1>1, <2>1 DEF FirstInv, Live, Filling
<1> QED
  BY <1>4, <1>5, <1>6, <1>7, <1>8, <1>9

LEMMA FillQueueStep == ASSUME Inv, FillQueue PROVE Inv'
<1> USE DEF Inv
<1>1. /\ op.pc = "filling"
      /\ \/ AppendRows(op.tasks) /\ op' = [op EXCEPT !.pc = "filled"]
         \/ AppendSome(op.tasks) /\ op' = [op EXCEPT !.pc = "undo_queue"]
         \/ AppendSome(op.tasks) /\ op' = [op EXCEPT !.pc = "undo_queue", !.bad = TRUE]
      /\ UNCHANGED <<row, seen, plan, cancel, cancelAt, phases, tst, req, first, next, cache,
                     trans, fires>>
  BY DEF FillQueue, Undo
<1>2. /\ q \in [Tasks -> {"none", "pending", "active", "done"}] /\ op.tasks \in SUBSET Tasks
      /\ op \in Request
  BY DEF TypeInv, TypeOK, Request
<1>3. /\ op' \in Request /\ op'.pc \in Filling /\ op'.phase = op.phase /\ op'.tasks = op.tasks
      /\ op'.pc = "filled" => AppendRows(op.tasks)
  <2>1. CASE AppendRows(op.tasks) /\ op' = [op EXCEPT !.pc = "filled"]
    BY <1>2, <2>1 DEF Request, Filling
  <2>2. CASE op' = [op EXCEPT !.pc = "undo_queue"]
    BY <1>2, <2>2 DEF Request, Filling
  <2>3. CASE op' = [op EXCEPT !.pc = "undo_queue", !.bad = TRUE]
    BY <1>2, <2>3 DEF Request, Filling
  <2> QED
    BY <1>1, <2>1, <2>2, <2>3
<1>4. /\ q' \in [Tasks -> {"none", "pending", "active", "done"}]
      /\ \A t \in Tasks \ op.tasks : q'[t] = q[t]
      /\ AppendRows(op.tasks) => \A t \in op.tasks : q'[t] = "pending"
  BY <1>1, <1>2, RowsWritten
<1> QED
  BY <1>1, <1>3, <1>4, FillMoves DEF Filling

LEMMA FillUndoQueueStep == ASSUME Inv, FillUndoQueue PROVE Inv'
<1> USE DEF Inv
<1>1. /\ op.pc = "undo_queue" /\ op' = [op EXCEPT !.pc = "undo_state"]
      /\ q' = q \/ RemoveRows(op.tasks)
      /\ UNCHANGED <<row, seen, plan, cancel, cancelAt, phases, tst, req, first, next, cache,
                     trans, fires>>
  BY DEF FillUndoQueue
<1>2. /\ q \in [Tasks -> {"none", "pending", "active", "done"}] /\ op.tasks \in SUBSET Tasks
      /\ op \in Request
  BY DEF TypeInv, TypeOK, Request
<1>3. op' \in Request /\ op'.pc = "undo_state" /\ op'.phase = op.phase /\ op'.tasks = op.tasks
  BY <1>1, <1>2 DEF Request, Filling
<1>4. /\ q' \in [Tasks -> {"none", "pending", "active", "done"}]
      /\ \A t \in Tasks \ op.tasks : q'[t] = q[t]
  BY <1>1, <1>2, RowsWritten
<1> QED
  BY <1>1, <1>3, <1>4, FillMoves DEF Filling

LEMMA FillActivateStep == ASSUME Inv, FillActivate PROVE Inv'
<1> USE DEF Inv
<1>1. /\ op.pc = "filled"
      /\ UNCHANGED <<row, seen, plan, cancel, cancelAt, q, first, next, cache, trans, fires>>
  BY DEF FillActivate
<1>2. /\ phases \in [Phases -> Phase] /\ op \in Request /\ op.tasks \in SUBSET Tasks
      /\ req \in SUBSET Tasks /\ next \in Nat /\ Tasks \subseteq Nat
      /\ tst \in [Tasks -> {"none", "planned", "completed", "failed"}]
      /\ q \in [Tasks -> {"none", "pending", "active", "done"}]
  BY DEF TypeInv, TypeOK, Phase, Request, Tasks
<1>3. CASE FillStillMine /\ ApplyFillTasks /\ op' = Idle
  <2> DEFINE p == op.phase
  <2>1. PICK x \in Tasks :
            /\ op.tasks = {x} /\ x < next /\ tst[x] = "none" /\ q[x] = "pending"
            /\ x \notin first /\ plan = "sealed" /\ p \in Deferred
            /\ \A r \in Phases : x \notin phases[r].ids
    BY <1>1 DEF OpFits, Filling
  <2>2. p \in Phases
    BY <2>1, PhasesAre
  <2>3. /\ phases' = [phases EXCEPT ![p] = [@ EXCEPT
              !.status = "active", !.ids = phases[p].ids \cup {x}]]
        /\ tst' = [t \in Tasks |-> IF t = x THEN "planned" ELSE tst[t]]
        /\ req' = req \cup {x}
    BY <1>3, <2>1 DEF ApplyFillTasks
  <2> HIDE DEF p
  <2>4. /\ phases' \in [Phases -> Phase]
        /\ phases'[p].status = "active" /\ phases'[p].ids = phases[p].ids \cup {x}
        /\ \A r \in Phases : r # p => phases'[r] = phases[r]
    <3> DEFINE new == [phases[p] EXCEPT !.status = "active", !.ids = phases[p].ids \cup {x}]
    <3>1. phases[p] \in Phase /\ phases' = [phases EXCEPT ![p] = new]
      BY <1>2, <2>2, <2>3
    <3>2. phases[p].ids \cup {x} \in SUBSET Tasks /\ "active" \in PhaseStatus
      BY <3>1 DEF Phase, PhaseStatus
    <3>3. new \in Phase /\ new.status = "active" /\ new.ids = phases[p].ids \cup {x}
      BY <3>1, <3>2 DEF Phase
    <3> HIDE DEF new
    <3> QED
      BY <1>2, <2>2, <3>1, <3>3
  <2>5. ASSUME NEW r \in Phases, Stuck(r) PROVE r # p /\ Stuck(r)'
    <3>1. r # p
      BY <2>5 DEF Stuck, p
    <3>2. op'.phase # r
      BY <1>3, PhasesAre DEF Idle
    <3> QED
      BY <1>1, <2>4, <2>5, <3>1, <3>2 DEF Stuck
  <2>6. TypeInv'
    <3>1. op' \in Request /\ op'.pc = "idle"
      BY <1>3 DEF Request, Idle
    <3>2. tst' \in [Tasks -> {"none", "planned", "completed", "failed"}] /\ req' \in SUBSET Tasks
      BY <1>2, <2>3
    <3> QED
      BY <1>1, <2>4, <3>1, <3>2 DEF TypeInv, TypeOK, Phase
  <2>7. Fresh'
    <3>1. \A t \in Tasks : t >= next => t # x
      BY <1>2, <2>1
    <3>2. \A t \in Tasks : t >= next => tst'[t] = tst[t]
      BY <2>3, <3>1
    <3> QED
      BY <1>1, <2>2, <2>4, <3>1, <3>2 DEF Fresh
  <2>8. OpFits'
    BY <1>3 DEF OpFits, Idle, Filling
  <2>9. PhasesInv'
    <3>1. ASSUME NEW d \in Deferred, NEW r \in Phases, r # d
          PROVE  phases'[d].ids \cap phases'[r].ids = {}
      <4>1. phases[d].ids \cap phases[r].ids = {} /\ d \in Phases
        BY <3>1, PhasesAre DEF PhasesInv
      <4> QED
        BY <2>1, <2>4, <3>1, <4>1
    <3> QED
      BY <2>4, <3>1 DEF PhasesInv
  <2>10. RowsInv'
    <3> SUFFICES ASSUME NEW r \in Phases, NEW t \in phases'[r].ids,
                        tst'[t] = "planned", ~Live(t)'
                 PROVE  Stuck(r)'
      BY DEF RowsInv
    <3>1. t # x /\ ~Live(t)
      BY <1>1, <2>1 DEF Live
    <3>2. t \in phases[r].ids
      BY <2>4, <3>1
    <3>3. t \in Tasks
      BY <1>2, <3>2 DEF Phase
    <3>4. tst[t] = "planned"
      BY <2>3, <3>1, <3>3
    <3> QED
      BY <2>1, <2>5, <3>1, <3>2, <3>4 DEF RowsInv
  <2>11. FirstInv'
    BY <1>1, <1>3, <2>1 DEF FirstInv, Live, Idle
  <2> QED
    BY <2>6, <2>7, <2>8, <2>9, <2>10, <2>11
<1>4. CASE Undo("save") /\ UNCHANGED <<phases, tst, req>>
  <2>1. \/ op' = [op EXCEPT !.pc = "undo_queue"]
        \/ op' = [op EXCEPT !.pc = "undo_queue", !.bad = TRUE]
    BY <1>4 DEF Undo
  <2>2. /\ op' \in Request /\ op'.pc = "undo_queue" /\ op'.phase = op.phase
        /\ op'.tasks = op.tasks
    BY <1>2, <2>1 DEF Request, Filling
  <2> QED
    BY <1>1, <1>2, <1>4, <2>2, FillMoves DEF Filling
<1> QED
  BY <1>3, <1>4 DEF FillActivate

\* The undone fill's task was in no phase, so only its phase changes.
LEMMA FillUndoStateStep == ASSUME Inv, FillUndoState PROVE Inv'
<1> USE DEF Inv
<1> DEFINE p == op.phase
           c == phases[p].clock \/ phases[p].status = "filling"
           s == IF phases[p].status = "filling" THEN "awaiting_fill" ELSE phases[p].status
<1>1. /\ op.pc = "undo_state" /\ op' = Idle /\ StripTasks(p, op.tasks)
      /\ UNCHANGED <<row, seen, plan, cancel, cancelAt, q, first, next, cache, trans, fires>>
  BY DEF FillUndoState
<1>2. /\ \A t \in op.tasks : tst[t] = "none" /\ \A r \in Phases : t \notin phases[r].ids
      /\ p \in Phases
  BY <1>1, PhasesAre DEF OpFits, Filling
<1>3. /\ phases \in [Phases -> Phase] /\ req \in SUBSET Tasks
      /\ tst \in [Tasks -> {"none", "planned", "completed", "failed"}]
  BY DEF TypeInv, TypeOK, Phase
<1>4. tst' = tst /\ req' \in SUBSET Tasks
  BY <1>1, <1>2, <1>3 DEF StripTasks
<1>5. phases[p].ids \ op.tasks = phases[p].ids
  BY <1>2
<1>6. phases' = [phases EXCEPT ![p] =
                    [@ EXCEPT !.ids = phases[p].ids, !.clock = c, !.status = s]]
  BY <1>1, <1>5 DEF StripTasks
<1>7. c \in BOOLEAN /\ s \in PhaseStatus /\ s # "filling"
  BY <1>2, <1>3 DEF Phase, PhaseStatus
<1> HIDE DEF c, s
<1>8. /\ phases' \in [Phases -> Phase]
      /\ phases'[p].status # "filling" /\ phases'[p].ids = phases[p].ids
      /\ \A r \in Phases : r # p => phases'[r] = phases[r]
  <2> DEFINE new == [phases[p] EXCEPT !.ids = phases[p].ids, !.clock = c, !.status = s]
  <2>1. new \in Phase /\ new.status = s /\ new.ids = phases[p].ids
    <3>1. phases[p] \in Phase
      BY <1>2, <1>3
    <3> HIDE DEF p
    <3> QED
      BY <1>7, <3>1 DEF Phase
  <2>2. phases' = [phases EXCEPT ![p] = new]
    BY <1>6
  <2> HIDE DEF new, p
  <2> QED
    BY <1>2, <1>3, <1>7, <2>1, <2>2
<1>9. \A r \in Phases : Stuck(r) => Stuck(r)'
  BY <1>1, <1>8, PhasesAre DEF Stuck, Idle
<1>10. TypeInv'
  <2>1. op' \in Request /\ op'.pc = "idle"
    BY <1>1 DEF Idle, Request
  <2> QED
    BY <1>1, <1>3, <1>4, <1>8, <2>1 DEF TypeInv, TypeOK, Phase
<1> QED
  BY <1>1, <1>4, <1>8, <1>9, <1>10, PhasesMove


-----------------------------------------------------------------------------
(* Tasks that are added, dispatched and ended.                             *)

\* The daemon stops between the row of a new task and the state.
LEMMA RowOnly ==
    ASSUME Inv, next \in Tasks, next' = next + 1, q' = [q EXCEPT ![next] = "pending"],
           op' = Idle, cache' = NoCache, fires' = [p \in Phases |-> 0],
           UNCHANGED <<row, seen, plan, cancel, cancelAt, phases, tst, req, first, trans>>,
           op.pc \notin {"planned", "queued"}
    PROVE  Inv'
<1> USE DEF Inv
<1>1. /\ next \in Nat \ {0} /\ Tasks \subseteq Nat
      /\ q \in [Tasks -> {"none", "pending", "active", "done"}]
  BY DEF TypeInv, TypeOK, Tasks
<1>2. next \notin first /\ \A p \in Phases : next \notin phases[p].ids
  BY <1>1 DEF Fresh
<1>3. /\ q' \in [Tasks -> {"none", "pending", "active", "done"}]
      /\ \A t \in Tasks : t # next => q'[t] = q[t]
  BY <1>1
<1>4. first \subseteq Tasks /\ \A p \in Phases : phases[p].ids \subseteq Tasks
  BY DEF TypeInv, TypeOK
<1>5. TypeInv'
  BY <1>1, <1>3, BoundsAre DEF TypeInv, TypeOK, Idle, Request
<1>6. Fresh'
  BY <1>1, <1>3 DEF Fresh
<1>7. OpFits' /\ PhasesInv'
  BY DEF OpFits, PhasesInv, Idle, Filling
<1>8. RowsInv'
  <2>1. \A p \in Phases : Stuck(p) => Stuck(p)'
    BY PhasesAre DEF Stuck, Idle
  <2>2. \A p \in Phases : \A t \in phases[p].ids : q'[t] = q[t]
    BY <1>2, <1>3, <1>4
  <2> QED
    BY <2>1, <2>2 DEF RowsInv, Live
<1>9. FirstInv'
  <2>1. \A t \in first : q'[t] = q[t]
    BY <1>2, <1>3, <1>4
  <2> QED
    BY <2>1 DEF FirstInv, Live, Idle
<1> QED
  BY <1>5, <1>6, <1>7, <1>8, <1>9

\* Phase p, and no other, gets a new task that waits, and may lose one.
LEMMA TaskAdded ==
    ASSUME Inv, next \in Tasks, next' = next + 1, q' = [q EXCEPT ![next] = "pending"],
           plan = "sealed", op.pc \notin {"planned", "queued"},
           NEW p \in Phases, phases' \in [Phases -> Phase],
           \A r \in Phases : /\ phases'[r].status = "filling" <=> phases[r].status = "filling"
                             /\ phases'[r].ids \subseteq phases[r].ids \cup {next}
                             /\ r # p => phases'[r] = phases[r],
           tst' = [tst EXCEPT ![next] = "planned"], req' \in SUBSET Tasks,
           UNCHANGED <<row, seen, plan, cancel, cancelAt, first, op, cache, fires, trans>>
    PROVE  Inv'
<1> USE DEF Inv
<1>1. /\ next \in Nat \ {0} /\ Tasks \subseteq Nat
      /\ q \in [Tasks -> {"none", "pending", "active", "done"}]
      /\ tst \in [Tasks -> {"none", "planned", "completed", "failed"}]
      /\ phases \in [Phases -> Phase] /\ first \subseteq Tasks
  BY DEF TypeInv, TypeOK, Tasks, Phase
<1>2. next \notin first /\ \A r \in Phases : next \notin phases[r].ids
  BY <1>1 DEF Fresh
<1>3. /\ q' \in [Tasks -> {"none", "pending", "active", "done"}] /\ q'[next] = "pending"
      /\ tst' \in [Tasks -> {"none", "planned", "completed", "failed"}]
      /\ \A t \in Tasks : t # next => q'[t] = q[t] /\ tst'[t] = tst[t]
  BY <1>1
<1>5. /\ phases' \in [Phases -> Phase]
      /\ \A r \in Phases : /\ phases'[r].status = "filling" <=> phases[r].status = "filling"
                           /\ phases'[r].ids \subseteq phases[r].ids \cup {next}
                           /\ r # p => phases'[r] = phases[r]
  OBVIOUS
<1>6. TypeInv'
  BY <1>1, <1>3, <1>5 DEF TypeInv, TypeOK, Phase
<1>7. Fresh'
  <2>1. ASSUME NEW t \in Tasks, t >= next' PROVE t # next /\ t >= next
    BY <1>1, <2>1
  <2> QED
    BY <1>3, <1>5, <2>1 DEF Fresh
<1>8. OpFits'
  <2>1. CASE op.pc = "idle"
    BY <2>1 DEF OpFits, Filling
  <2>2. CASE op.pc \in Filling
    <3>1. /\ \E x \in Tasks : op.tasks = {x} /\ x < next
          /\ op.pc = "filled" => \A t \in op.tasks : q[t] = "pending"
          /\ plan = "sealed" /\ op.phase \in Deferred
          /\ \A t \in op.tasks : /\ tst[t] = "none" /\ t \notin first
                                 /\ \A r \in Phases : t \notin phases[r].ids
      BY <2>2 DEF OpFits, Filling
    <3>2. \A t \in op.tasks : t \in Tasks /\ t # next
      BY <1>1, <3>1
    <3>3. \A t \in op.tasks : /\ q'[t] = q[t] /\ tst'[t] = tst[t]
                              /\ \A r \in Phases : t \notin phases'[r].ids
      BY <1>3, <1>5, <3>1, <3>2
    <3>4. \E x \in Tasks : op.tasks = {x} /\ x < next'
      BY <1>1, <3>1
    <3> QED
      BY <2>2, <3>1, <3>3, <3>4 DEF OpFits, Filling
  <2> QED
    BY <2>1, <2>2 DEF TypeInv, Request
<1>9. PhasesInv'
  <2>1. ASSUME NEW d \in Deferred, NEW r \in Phases, r # d
        PROVE  phases'[d].ids \cap phases'[r].ids = {}
    <3>1. phases[d].ids \cap phases[r].ids = {} /\ d \in Phases
      BY <2>1, PhasesAre DEF PhasesInv
    <3> QED
      BY <1>2, <1>5, <2>1, <3>1
  <2> QED
    BY <1>5, <2>1 DEF PhasesInv
<1>10. RowsInv'
  <2> SUFFICES ASSUME NEW r \in Phases, NEW t \in phases'[r].ids,
                      tst'[t] = "planned", ~Live(t)'
               PROVE  Stuck(r)'
    BY DEF RowsInv
  <2>1. t # next
    BY <1>3 DEF Live
  <2>2. t \in phases[r].ids /\ t \in Tasks
    BY <1>1, <1>5, <2>1 DEF Phase
  <2>3. tst[t] = "planned" /\ ~Live(t)
    BY <1>3, <2>1, <2>2 DEF Live
  <2>4. Stuck(r)
    BY <2>2, <2>3 DEF RowsInv
  <2> QED
    BY <1>5, <2>4 DEF Stuck
<1>11. FirstInv'
  <2>1. \A t \in first : q'[t] = q[t]
    BY <1>1, <1>2, <1>3
  <2> QED
    BY <2>1 DEF FirstInv, Live
<1> QED
  BY <1>6, <1>7, <1>8, <1>9, <1>10, <1>11

LEMMA AddTaskStep ==
    ASSUME Inv, NEW p \in Phases, NEW required \in BOOLEAN, AddTask(p, required)
    PROVE  Inv'
<1> USE DEF Inv
<1>1. /\ trans = <<>> /\ op.pc \notin {"planned", "queued"} /\ next \in Tasks
      /\ plan = "sealed" /\ next' = next + 1 /\ q' = [q EXCEPT ![next] = "pending"]
      /\ UNCHANGED <<row, seen, cancel, cancelAt, first, trans>>
      /\ \/ /\ phases' = [phases EXCEPT ![p] = [@ EXCEPT
                  !.ids = phases[p].ids \cup {next},
                  !.status = ReopenForTask(phases[p].status)]]
            /\ tst' = [tst EXCEPT ![next] = "planned"]
            /\ req' \in {req, req \cup {next}}
            /\ UNCHANGED <<plan, op, cache, fires>>
         \/ /\ op' = Idle /\ cache' = NoCache /\ fires' = [r \in Phases |-> 0]
            /\ UNCHANGED planVars
  BY DEF AddTask, Shared, InjectAllowed, WriteTask
<1>2. CASE /\ phases' = [phases EXCEPT ![p] = [@ EXCEPT
                  !.ids = phases[p].ids \cup {next},
                  !.status = ReopenForTask(phases[p].status)]]
            /\ tst' = [tst EXCEPT ![next] = "planned"]
            /\ req' \in {req, req \cup {next}}
            /\ UNCHANGED <<plan, op, cache, fires>>
  <2> DEFINE s == ReopenForTask(phases[p].status)
             new == [phases[p] EXCEPT !.ids = phases[p].ids \cup {next}, !.status = s]
  <2>1. phases' = [phases EXCEPT ![p] = new] /\ phases \in [Phases -> Phase]
    BY <1>2 DEF TypeInv, TypeOK, Phase
  <2>2. s \in PhaseStatus /\ (s = "filling" <=> phases[p].status = "filling")
    BY <2>1 DEF ReopenForTask, Phase, PhaseStatus
  <2>3. req' \in SUBSET Tasks /\ phases[p].ids \cup {next} \in SUBSET Tasks
    BY <1>1, <1>2, <2>1 DEF TypeInv, TypeOK, Phase
  <2> HIDE DEF s
  <2>4. new \in Phase /\ new.ids = phases[p].ids \cup {next} /\ new.status = s
    BY <2>1, <2>2, <2>3 DEF Phase
  <2> HIDE DEF new
  <2>5. /\ phases' \in [Phases -> Phase]
        /\ \A r \in Phases : /\ phases'[r].status = "filling" <=> phases[r].status = "filling"
                             /\ phases'[r].ids \subseteq phases[r].ids \cup {next}
                             /\ r # p => phases'[r] = phases[r]
    BY <2>1, <2>2, <2>4
  <2> QED
    BY <1>1, <1>2, <2>3, <2>5, TaskAdded
<1>3. CASE /\ op' = Idle /\ cache' = NoCache /\ fires' = [r \in Phases |-> 0]
           /\ UNCHANGED planVars
  BY <1>1, <1>3, RowOnly DEF planVars
<1> QED
  BY <1>1, <1>2, <1>3

LEMMA AddRetryTaskStep == ASSUME Inv, NEW t \in Tasks, AddRetryTask(t) PROVE Inv'
<1> USE DEF Inv
<1>1. PICK p \in Phases :
       /\ t \in phases[p].ids /\ phases[p].status \in {"active", "failed"}
       /\ WriteTask(
             /\ phases' = [phases EXCEPT ![p] = [@ EXCEPT
                   !.ids = (phases[p].ids \ {t}) \cup {next}, !.status = "active"]]
             /\ tst' = [tst EXCEPT ![next] = "planned"]
             /\ req' = IF t \in req THEN (req \ {t}) \cup {next} ELSE req
             /\ UNCHANGED <<plan, op, cache, fires>>)
  BY DEF AddRetryTask
<1>2. /\ trans = <<>> /\ op.pc \notin {"planned", "queued"} /\ next \in Tasks
      /\ plan = "sealed" /\ next' = next + 1 /\ q' = [q EXCEPT ![next] = "pending"]
      /\ UNCHANGED <<row, seen, cancel, cancelAt, first, trans>>
  BY <1>1 DEF AddRetryTask, Shared, WriteTask
<1>3. CASE /\ phases' = [phases EXCEPT ![p] = [@ EXCEPT
                 !.ids = (phases[p].ids \ {t}) \cup {next}, !.status = "active"]]
           /\ tst' = [tst EXCEPT ![next] = "planned"]
           /\ req' = IF t \in req THEN (req \ {t}) \cup {next} ELSE req
           /\ UNCHANGED <<plan, op, cache, fires>>
  <2> DEFINE I == (phases[p].ids \ {t}) \cup {next}
             new == [phases[p] EXCEPT !.ids = I, !.status = "active"]
  <2>1. phases' = [phases EXCEPT ![p] = new] /\ phases \in [Phases -> Phase]
    BY <1>3 DEF TypeInv, TypeOK, Phase
  <2>2. req' \in SUBSET Tasks /\ I \in SUBSET Tasks /\ I \subseteq phases[p].ids \cup {next}
    BY <1>2, <1>3, <2>1 DEF TypeInv, TypeOK, Phase
  <2> HIDE DEF I
  <2>3. new \in Phase /\ new.ids = I /\ new.status = "active"
    BY <2>1, <2>2 DEF Phase, PhaseStatus
  <2> HIDE DEF new
  <2>4. /\ phases' \in [Phases -> Phase]
        /\ \A r \in Phases : /\ phases'[r].status = "filling" <=> phases[r].status = "filling"
                             /\ phases'[r].ids \subseteq phases[r].ids \cup {next}
                             /\ r # p => phases'[r] = phases[r]
    BY <1>1, <2>1, <2>2, <2>3
  <2> QED
    BY <1>2, <1>3, <2>2, <2>4, TaskAdded
<1>4. CASE /\ op' = Idle /\ cache' = NoCache /\ fires' = [r \in Phases |-> 0]
           /\ UNCHANGED planVars
  BY <1>2, <1>4, RowOnly DEF planVars
<1> QED
  BY <1>1, <1>3, <1>4 DEF WriteTask

LEMMA DispatchTaskStep == ASSUME Inv, NEW t \in Tasks, DispatchTask(t) PROVE Inv'
<1> USE DEF Inv
<1>1. /\ op = Idle /\ q[t] = "pending" /\ q' = [q EXCEPT ![t] = "active"]
      /\ UNCHANGED <<row, seen, plan, cancel, cancelAt, phases, tst, req, first, next, cache,
                     op, trans, fires>>
  BY DEF DispatchTask, Exclusive
<1>2. q \in [Tasks -> {"none", "pending", "active", "done"}]
  BY DEF TypeInv, TypeOK
<1>3. /\ q' \in [Tasks -> {"none", "pending", "active", "done"}]
      /\ \A u : Live(u)' <=> Live(u)
      /\ \A u \in Tasks : q[u] = "none" => q'[u] = "none"
  <2>1. ASSUME NEW u PROVE Live(u)' <=> Live(u)
    <3>1. CASE u = t
      BY <1>1, <1>2, <3>1 DEF Live
    <3>2. CASE u # t /\ u \in Tasks
      BY <1>1, <1>2, <3>2 DEF Live
    <3>3. CASE u \notin Tasks
      BY <1>1, <1>2, <3>3 DEF Live
    <3> QED
      BY <3>1, <3>2, <3>3
  <2> QED
    BY <1>1, <1>2, <2>1
<1>4. TypeInv'
  BY <1>1, <1>3 DEF TypeInv, TypeOK
<1>5. Fresh'
  BY <1>1, <1>3 DEF Fresh
<1>6. OpFits' /\ PhasesInv'
  BY <1>1 DEF OpFits, PhasesInv, Idle, Filling
<1>7. RowsInv'
  BY <1>1, <1>3 DEF RowsInv, Stuck
<1>8. FirstInv'
  BY <1>1, <1>3 DEF FirstInv
<1> QED
  BY <1>4, <1>5, <1>6, <1>7, <1>8

LEMMA ResultStep ==
    ASSUME Inv, NEW t \in Tasks, NEW s \in {"completed", "failed"}, Result(t, s)
    PROVE  Inv'
<1> USE DEF Inv
<1>1. /\ op.pc \notin {"planned", "queued"} /\ q[t] = "active"
      /\ q' = [q EXCEPT ![t] = "done"]
      /\ tst' = IF tst[t] = "planned" THEN [tst EXCEPT ![t] = s] ELSE tst
      /\ UNCHANGED <<row, seen, plan, cancel, cancelAt, phases, req, first, next, cache, op,
                     trans, fires>>
  BY DEF Result, Shared
<1>2. /\ q \in [Tasks -> {"none", "pending", "active", "done"}]
      /\ tst \in [Tasks -> {"none", "planned", "completed", "failed"}]
      /\ first \subseteq Tasks /\ \A p \in Phases : phases[p].ids \subseteq Tasks
      /\ op \in Request
  BY DEF TypeInv, TypeOK
<1>3. /\ q' \in [Tasks -> {"none", "pending", "active", "done"}]
      /\ tst' \in [Tasks -> {"none", "planned", "completed", "failed"}]
      /\ \A u \in Tasks : /\ u # t => q'[u] = q[u] /\ tst'[u] = tst[u]
                          /\ tst[u] = "none" => tst'[u] = "none"
                          /\ tst'[u] = "planned" => u # t
      /\ q'[t] = "done"
  BY <1>1, <1>2
<1>4. TypeInv'
  BY <1>1, <1>3 DEF TypeInv, TypeOK
<1>5. Fresh'
  <2>1. \A u \in Tasks : u >= next => u # t
    BY <1>1 DEF Fresh
  <2> QED
    BY <1>1, <1>3, <2>1 DEF Fresh
<1>6. OpFits'
  <2>1. CASE op.pc = "idle"
    BY <1>1, <2>1 DEF OpFits, Filling
  <2>2. CASE op.pc \in Filling
    <3>1. /\ \E x \in Tasks : op.tasks = {x} /\ x < next
          /\ op.pc = "filled" => \A u \in op.tasks : q[u] = "pending"
          /\ plan = "sealed" /\ op.phase \in Deferred
          /\ \A u \in op.tasks : /\ tst[u] = "none" /\ u \notin first
                                 /\ \A r \in Phases : u \notin phases[r].ids
      BY <2>2 DEF OpFits, Filling
    <3>2. \A u \in op.tasks : u \in Tasks /\ tst'[u] = "none"
      BY <1>3, <3>1
    <3>3. op.pc = "filled" => \A u \in op.tasks : q'[u] = "pending"
      BY <1>1, <1>3, <3>1, <3>2
    <3> QED
      BY <1>1, <2>2, <3>1, <3>2, <3>3 DEF OpFits, Filling
  <2> QED
    BY <1>1, <1>2, <2>1, <2>2 DEF Request
<1>7. PhasesInv'
  BY <1>1 DEF PhasesInv
<1>8. RowsInv'
  <2>1. ASSUME NEW p \in Phases, NEW u \in phases[p].ids, tst'[u] = "planned", ~Live(u)'
        PROVE  tst[u] = "planned" /\ ~Live(u)
    BY <1>2, <1>3, <2>1 DEF Live
  <2>2. \A p \in Phases : Stuck(p) => Stuck(p)'
    BY <1>1 DEF Stuck
  <2> QED
    BY <1>1, <2>1, <2>2 DEF RowsInv
<1>9. FirstInv'
  <2>1. \A u \in first : Live(u)' => Live(u)
    BY <1>2, <1>3 DEF Live
  <2> QED
    BY <1>1, <2>1 DEF FirstInv
<1> QED
  BY <1>4, <1>5, <1>6, <1>7, <1>8, <1>9


-----------------------------------------------------------------------------
(* The reconcilers.                                                        *)

\* Rows that were not sent are taken back, and no other row is changed.
LEMMA RowsTaken ==
    ASSUME Inv, NEW T \in SUBSET Tasks, NoneActive(T), q' = Without(Unsent(T))
    PROVE  /\ q' \in [Tasks -> {"none", "pending", "active", "done"}]
           /\ \A t \in T : q'[t] \notin {"pending", "active"}
           /\ \A t \in Tasks : /\ q'[t] \in {q[t], "none"}
                               /\ t \notin T => q'[t] = q[t]
<1>1. q \in [Tasks -> {"none", "pending", "active", "done"}]
  BY DEF Inv, TypeInv, TypeOK
<1> QED
  BY <1>1 DEF NoneActive, Without, Unsent

LEMMA R0Step == ASSUME Inv, R0PlanningStuck PROVE Inv'
<1> USE DEF Inv
<1>1. /\ op = Idle /\ plan = "planning" /\ NoneActive(Tasks) /\ q' = Without(Unsent(Tasks))
      /\ row' = "absent"
      /\ TearDown \/ StopHere
      /\ UNCHANGED <<seen, cancel, cancelAt, first, next, op, trans>>
  BY DEF R0PlanningStuck, Exclusive
<1>2. /\ q' \in [Tasks -> {"none", "pending", "active", "done"}]
      /\ \A t \in Tasks : q'[t] \notin {"pending", "active"} /\ q'[t] \in {q[t], "none"}
  BY <1>1, RowsTaken
<1>3. \/ /\ plan' = "none" /\ req' = {} /\ tst' = [t \in Tasks |-> "none"]
         /\ phases' = [p \in Phases |-> [status |-> "absent", ids |-> {},
                                         cause |-> NoPhase, clock |-> FALSE]]
         /\ UNCHANGED <<cache, fires>>
      \/ /\ UNCHANGED <<plan, phases, tst, req>>
         /\ cache' = NoCache /\ fires' = [p \in Phases |-> 0]
  BY <1>1 DEF TearDown, StopHere, NoState, planVars
<1>4. /\ phases' \in [Phases -> Phase] /\ req' \in SUBSET Tasks
      /\ tst' \in [Tasks -> {"none", "planned", "completed", "failed"}]
      /\ fires' \in [Phases -> 0 .. EscalateAfter]
      /\ plan' \in {"none", "planning"}
      /\ \A p \in Phases : phases'[p].status = "filling" => p \in Deferred
      /\ \A p \in Phases : phases'[p].ids \subseteq phases[p].ids
      /\ \A t \in Tasks : tst'[t] \in {"none", tst[t]}
  <2>1. /\ phases \in [Phases -> Phase] /\ req \in SUBSET Tasks
        /\ tst \in [Tasks -> {"none", "planned", "completed", "failed"}]
        /\ fires \in [Phases -> 0 .. EscalateAfter] /\ 0 \in 0 .. EscalateAfter
    BY BoundsAre DEF TypeInv, TypeOK, Phase
  <2>2. [status |-> "absent", ids |-> {}, cause |-> NoPhase, clock |-> FALSE] \in Phase
    BY DEF Phase, PhaseStatus
  <2>3. CASE UNCHANGED <<plan, phases, tst, req>> /\ fires' = [p \in Phases |-> 0]
    BY <1>1, <2>1, <2>3 DEF PhasesInv
  <2>4. CASE /\ plan' = "none" /\ req' = {} /\ tst' = [t \in Tasks |-> "none"]
             /\ phases' = [p \in Phases |-> [status |-> "absent", ids |-> {},
                                             cause |-> NoPhase, clock |-> FALSE]]
             /\ UNCHANGED <<cache, fires>>
    BY <2>1, <2>2, <2>4
  <2> QED
    BY <1>3, <2>3, <2>4
<1>5. TypeInv'
  <2>1. /\ row' = "absent" /\ plan' \in {"none", "planning"}
        /\ UNCHANGED <<seen, cancel, cancelAt, first, next, op, trans>>
    BY <1>1, <1>4
  <2> QED
    BY <1>2, <1>4, <2>1 DEF TypeInv, TypeOK, Phase
<1>6. Fresh'
  BY <1>1, <1>2, <1>4 DEF Fresh
<1>7. OpFits'
  BY <1>1 DEF OpFits, Idle, Filling
<1>8. PhasesInv' /\ RowsInv'
  BY <1>4, PhasesAre DEF PhasesInv, RowsInv
<1>9. FirstInv'
  <2>1. \A t \in first' : ~Live(t)'
    BY <1>1, <1>2 DEF TypeInv, TypeOK, Live
  <2> QED
    BY <2>1 DEF FirstInv
<1> QED
  BY <1>5, <1>6, <1>7, <1>8, <1>9

LEMMA R0bStep == ASSUME Inv, NEW p \in Phases, R0bFillingStuck(p) PROVE Inv'
<1> USE DEF Inv
<1> DEFINE I == phases[p].ids
<1>1. /\ op = Idle /\ trans = <<>> /\ phases[p].status = "filling" /\ NoneActive(I)
      /\ q' = Without(Unsent(I))
      /\ RevertToAwaiting(p) \/ StopHere
      /\ UNCHANGED <<row, seen, cancel, cancelAt, first, next, op, trans>>
  BY DEF R0bFillingStuck, Exclusive
<1>2. /\ phases \in [Phases -> Phase] /\ I \in SUBSET Tasks /\ req \in SUBSET Tasks
      /\ tst \in [Tasks -> {"none", "planned", "completed", "failed"}]
      /\ fires \in [Phases -> 0 .. EscalateAfter] /\ 0 \in 0 .. EscalateAfter
  BY BoundsAre DEF TypeInv, TypeOK, Phase
<1>3. /\ q' \in [Tasks -> {"none", "pending", "active", "done"}]
      /\ \A t \in Tasks : /\ q'[t] \in {q[t], "none"}
                          /\ t \notin I => q'[t] = q[t]
  <2> HIDE DEF I
  <2> QED
    BY <1>1, <1>2, RowsTaken
<1>4. /\ p \in Deferred
      /\ \A r \in Phases : r # p => I \cap phases[r].ids = {}
  BY <1>1 DEF PhasesInv
<1>5. /\ plan' = plan
      /\ \/ /\ phases' = [phases EXCEPT ![p] =
                             [@ EXCEPT !.status = "awaiting_fill", !.ids = {}]]
            /\ tst' = [t \in Tasks |-> IF t \in I THEN "none" ELSE tst[t]]
            /\ req' = req \ I
            /\ UNCHANGED <<cache, fires>>
         \/ /\ UNCHANGED <<phases, tst, req>>
            /\ cache' = NoCache /\ fires' = [r \in Phases |-> 0]
  BY <1>1 DEF RevertToAwaiting, StopHere, planVars
<1>6. /\ phases' \in [Phases -> Phase]
      /\ \A r \in Phases : r # p => phases'[r] = phases[r]
      /\ phases'[p].ids \subseteq I
      /\ \/ phases'[p].ids = {} /\ phases'[p].status = "awaiting_fill"
         \/ phases'[p] = phases[p] /\ cache' = NoCache
  <2> DEFINE new == [phases[p] EXCEPT !.status = "awaiting_fill", !.ids = {}]
  <2>1. new \in Phase /\ new.status = "awaiting_fill" /\ new.ids = {}
    BY <1>2 DEF Phase, PhaseStatus
  <2>2. CASE phases' = [phases EXCEPT ![p] =
                           [@ EXCEPT !.status = "awaiting_fill", !.ids = {}]]
    <3>1. phases' = [phases EXCEPT ![p] = new]
      BY <2>2
    <3> HIDE DEF new, I
    <3> QED
      BY <1>2, <2>1, <3>1
  <2>3. CASE phases' = phases /\ cache' = NoCache
    BY <1>2, <2>3
  <2> QED
    BY <1>5, <2>2, <2>3
<1> HIDE DEF I
<1>7. /\ tst' \in [Tasks -> {"none", "planned", "completed", "failed"}]
      /\ \A t \in Tasks : /\ tst'[t] \in {tst[t], "none"}
                          /\ t \notin I => tst'[t] = tst[t]
      /\ req' \in SUBSET Tasks
      /\ fires' \in [Phases -> 0 .. EscalateAfter]
      /\ cache' \in {cache, NoCache}
  <2>1. CASE /\ tst' = [t \in Tasks |-> IF t \in I THEN "none" ELSE tst[t]]
             /\ req' = req \ I
             /\ UNCHANGED <<cache, fires>>
    BY <1>2, <2>1
  <2>2. CASE /\ UNCHANGED <<phases, tst, req>>
             /\ cache' = NoCache /\ fires' = [r \in Phases |-> 0]
    BY <1>2, <2>2
  <2> QED
    BY <1>5, <2>1, <2>2
<1>8. TypeInv'
  BY <1>1, <1>3, <1>5, <1>6, <1>7 DEF TypeInv, TypeOK, Phase
<1>9. Fresh'
  <2>1. \A r \in Phases : phases'[r].ids \subseteq phases[r].ids
    BY <1>6 DEF I
  <2> QED
    BY <1>1, <1>3, <1>7, <2>1 DEF Fresh
<1>10. OpFits'
  BY <1>1 DEF OpFits, Idle, Filling
<1>11. PhasesInv'
  <2>1. \A r \in Phases : /\ phases'[r].ids \subseteq phases[r].ids
                          /\ phases'[r].status = "filling" => phases[r].status = "filling"
    BY <1>6 DEF I
  <2> QED
    BY <2>1, PhasesAre DEF PhasesInv
<1>12. RowsInv'
  <2> SUFFICES ASSUME plan = "sealed", NEW r \in Phases, NEW t \in phases'[r].ids,
                      tst'[t] = "planned", ~Live(t)'
               PROVE  Stuck(r)'
    BY <1>5 DEF RowsInv
  <2>1. op'.phase # r
    BY <1>1, PhasesAre DEF Idle
  <2>2. trans' \in Seq(TransOf(Phases \ {r}))
    BY <1>1, EmptySeq
  <2>3. CASE r = p
    <3>1. phases'[p] = phases[p] /\ cache' = NoCache
      BY <1>6, <2>3
    <3> QED
      BY <1>1, <2>1, <2>2, <2>3, <3>1 DEF Stuck
  <2>4. CASE r # p
    <3>1. phases'[r] = phases[r] /\ t \in phases[r].ids
      BY <1>6, <2>4
    <3>2. t \in Tasks /\ t \notin I
      BY <1>2, <1>4, <2>4, <3>1 DEF Phase
    <3>3. tst[t] = "planned" /\ ~Live(t)
      BY <1>3, <1>7, <3>2 DEF Live
    <3>4. Stuck(r)
      BY <3>1, <3>3 DEF RowsInv
    <3> QED
      BY <1>7, <2>1, <2>2, <3>1, <3>4 DEF Stuck
  <2> QED
    BY <2>3, <2>4
<1>13. FirstInv'
  <2>1. \A t \in first : Live(t)' => Live(t)
    BY <1>3 DEF Live, TypeInv, TypeOK
  <2> QED
    BY <1>1, <1>5, <2>1 DEF FirstInv, Idle
<1> QED
  BY <1>8, <1>9, <1>10, <1>11, <1>12, <1>13


-----------------------------------------------------------------------------
(* The theorems.                                                           *)

LEMMA InitHolds == Init => Inv
<1> SUFFICES ASSUME Init PROVE Inv
  OBVIOUS
<1> USE DEF Init
<1>1. TypeInv
  <2>1. [status |-> "absent", ids |-> {}, cause |-> NoPhase, clock |-> FALSE] \in Phase
    BY DEF Phase, PhaseStatus
  <2>2. op \in Request
    BY DEF Idle, Request
  <2>3. op.pc = "idle"
    BY DEF Idle
  <2>4. fires \in [Phases -> 0 .. EscalateAfter]
    BY BoundsAre
  <2>5. phases \in [Phases -> Phase]
    BY <2>1
  <2>6. {seen, cancel} \subseteq BOOLEAN
    <3>1. seen \in BOOLEAN /\ cancel \in BOOLEAN
      OBVIOUS
    <3> QED
      BY <3>1
  <2>7. /\ row = "pending" /\ plan = "none" /\ cancelAt = "idle" /\ next \in Nat \ {0}
        /\ {req, first} \subseteq SUBSET Tasks
        /\ tst \in [Tasks -> {"none", "planned", "completed", "failed"}]
        /\ q \in [Tasks -> {"none", "pending", "active", "done"}]
    OBVIOUS
  <2>8. trans \in Seq(TransOf(Phases))
    BY EmptySeq
  <2>9. TypeOK
    BY <2>3, <2>4, <2>5, <2>6, <2>7 DEF TypeOK, Phase
  <2> QED
    BY <2>2, <2>7, <2>8, <2>9 DEF TypeInv
<1>2. Fresh
  BY DEF Fresh
<1>3. OpFits
  BY DEF OpFits, Idle, Filling
<1>4. PhasesInv /\ RowsInv /\ FirstInv
  BY PhasesAre DEF PhasesInv, RowsInv, FirstInv
<1> QED
  BY <1>1, <1>2, <1>3, <1>4 DEF Inv

LEMMA StepsHold == Inv /\ [Next]_vars => Inv'
<1> SUFFICES ASSUME Inv, [Next]_vars PROVE Inv'
  OBVIOUS
<1>1. CASE DispatchCommand \/ R0Dispatch \/ CancelRequest \/ CancelApply
  BY <1>1, QuietStep
<1>2. CASE Submission
  BY <1>2, SubmitStartStep, SubmitQueueStep, SubmitSealStep DEF Submission
<1>3. CASE FillStep
  BY <1>3, FillQueueStep, FillActivateStep, FillUndoQueueStep, FillUndoStateStep DEF FillStep
<1>4. CASE ScanStep
  BY <1>4, ScanApplyStep, MarkStep DEF ScanStep
<1>5. ASSUME NEW p \in Phases,
             \/ FillStart(p) \/ Watchdog(p) \/ WatchdogReset(p)
             \/ R0bFillingStuck(p) \/ R6FillTimeout(p)
             \/ \E required \in BOOLEAN : AddTask(p, required)
      PROVE  Inv'
  BY <1>5, FillStartStep, WatchdogStep, QuietStep, R0bStep, R6Step, AddTaskStep
<1>6. ASSUME NEW t \in Tasks,
             \/ AddRetryTask(t) \/ DispatchTask(t)
             \/ \E s \in {"completed", "failed"} : Result(t, s)
      PROVE  Inv'
  BY <1>6, AddRetryTaskStep, DispatchTaskStep, ResultStep
<1>7. ASSUME NEW gated \in SUBSET Phases, NEW late \in SUBSET Timed, ScanCheck(gated, late)
      PROVE  Inv'
  BY <1>7, ScanCheckStep
<1>8. CASE R0PlanningStuck \/ Crash
  BY <1>8, R0Step, CrashStep
<1>9. CASE UNCHANGED vars
  <2>1. TypeInv' /\ UNCHANGED <<plan, tst, q, first, next, phases, op, trans, cache>>
    BY <1>9 DEF vars, Inv, TypeInv, TypeOK
  <2>2. \A p \in Phases : Stuck(p) => Stuck(p)'
    BY <2>1 DEF Stuck
  <2> QED
    BY <2>1, <2>2, PhasesMove
<1> QED
  BY <1>1, <1>2, <1>3, <1>4, <1>5, <1>6, <1>7, <1>8, <1>9 DEF Next

\* The invariant above holds in every behaviour of the plan.
THEOREM PlanInvariance == Spec => []Inv
  BY InitHolds, StepsHold, PTL DEF Spec

\* Every variable keeps its type: the state file, the rows, the requests and
\* the watchdog's counters.
THEOREM PlanTypeCorrect == Spec => []TypeOK
<1>1. Inv => TypeOK
  BY DEF Inv, TypeInv
<1> QED
  BY <1>1, PlanInvariance, PTL

\* A task that a sealed plan counts as planned in an active phase has a row
\* that waits or runs.  R0b may take the row and die before it writes the
\* state: the phase is then filling, and no fill, scan or stale view makes it
\* active before R0b has come back and dropped the task (ApplyPhaseTransition,
\* submitPhaseFill, rollbackFullPhaseFill, R0b's phase 3).
THEOREM RowsAreThere == Spec => []PlannedHasRow
<1>1. Inv => PlannedHasRow
  BY DEF Inv, RowsInv, Stuck, PlannedHasRow
<1> QED
  BY <1>1, PlanInvariance, PTL

\* However often the Planner submits, one initial submission's rows at most are
\* there to run between requests: a second one needs the state file gone, and
\* the file goes only after the rows (rollbackStateAndQueueLocked,
\* R0PlanningStuck), but for the rows a rollback is known to have left.
THEOREM OneSubmission == Spec => []OneInitialPlan
<1>1. ASSUME Inv PROVE OneInitialPlan
  <2> DEFINE L == {t \in first : Live(t)}
  <2>1. \A t, u \in L : t = u
    BY <1>1 DEF Inv, FirstInv
  <2>2. L = {} \/ \E t \in L : L = {t}
    BY <2>1
  <2> HIDE DEF L
  <2>3. CASE L = {}
    <3>1. Cardinality(L) = 0
      BY <2>3, FS_EmptySet
    <3> QED
      BY <3>1 DEF OneInitialPlan, L
  <2>4. CASE \E t \in L : L = {t}
    <3>1. Cardinality(L) = 1
      BY <2>4, FS_Singleton
    <3> QED
      BY <3>1 DEF OneInitialPlan, L
  <2> QED
    BY <2>2, <2>3, <2>4
<1> QED
  BY <1>1, PlanInvariance, PTL
=============================================================================
