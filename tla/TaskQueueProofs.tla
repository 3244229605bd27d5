-------------------------- MODULE TaskQueueProofs --------------------------
(***************************************************************************)
(* Proofs about TaskQueue for every number of tasks and workers and every  *)
(* value of the durations, budgets and fault bounds.                       *)
(*                                                                         *)
(* Every operator of the scan maps one row to one row, so the argument is  *)
(* made on single rows: RowInv is preserved by each row operator (one      *)
(* lemma each), and an action preserves it because the rows it writes are  *)
(* images of old rows under these operators.                               *)
(***************************************************************************)
EXTENDS TaskQueue, TLAPS

\* The strengthening that holds of a row by itself: the lease counter is paid
\* for by the three budgets, and a lease is anchored at its acquisition.
RowInv(r) ==
    /\ r \in Row
    /\ r.epoch <= r.attempts + r.resumeAttempts + r.interrupts
    /\ r.resumeAttempts <= MaxResume
    /\ r.interrupts <= MaxProgressInterrupts
    /\ r.epoch <= MaxAttempts + MaxResume + MaxProgressInterrupts
    /\ r.status = "pending" => r.inProgressAt = Nil
    /\ InProgress(r) =>
         /\ r.expiresAt \in Nat
         /\ r.inProgressAt = r.updatedAt
         /\ r.expiresAt < r.updatedAt + MaxInProgress + MaxTTL

\* A busy check was taken from an expired lease and carries its acquisition
\* time.
SnapshotInv ==
    \A t \in Tasks : work[t].busyCheck =>
        /\ work[t].expiresAt = Nil \/ now > work[t].expiresAt
        /\ InProgress(rows[t]) /\ rows[t].epoch = work[t].epoch
             => work[t].updatedAt = rows[t].updatedAt

IInv ==
    /\ TypeOK
    /\ \A t \in Tasks : RowInv(rows[t])
    /\ SnapshotInv
    /\ OneInProgressPerWorker

-----------------------------------------------------------------------------

\* The largest extension of a lease bounds both configured durations.
LEMMA TTLFact == MaxTTL \in Nat /\ MaxTTL >= DispatchLease /\ MaxTTL >= GraceTTL
BY DurationAssumption DEF MaxTTL

\* The lease operations of lease.Manager keep the invariant of a row.
LEMMA TerminateRow ==
    ASSUME NEW r, RowInv(r), now \in Nat, NEW s \in TerminalStatuses
    PROVE  RowInv(Terminate(r, s)) /\ ~InProgress(Terminate(r, s))
             /\ Terminate(r, s).epoch = r.epoch
BY DurationAssumption, BudgetAssumption, TTLFact
DEF RowInv, Row, Terminate, InProgress, TerminalStatuses, Nil

\* A released lease is pending without expiry and owes no anchor.
LEMMA ReleaseRow ==
    ASSUME NEW r, RowInv(r), now \in Nat
    PROVE  RowInv(ReleaseTaskLease(r)) /\ ~InProgress(ReleaseTaskLease(r))
BY DurationAssumption, BudgetAssumption, TTLFact
DEF RowInv, Row, ReleaseTaskLease, InProgress, TerminalStatuses, Nil

\* An extension made before max_in_progress stays within the cap.
LEMMA ExtendRow ==
    ASSUME NEW r, RowInv(r), InProgress(r), now \in Nat,
           NEW ttl \in Nat, ttl <= MaxTTL,
           now - r.updatedAt < MaxInProgress
    PROVE  RowInv(ExtendTaskLease(r, ttl))
BY DurationAssumption, BudgetAssumption, TTLFact
DEF RowInv, Row, ExtendTaskLease, InProgress, TerminalStatuses, Nil

\* A lease acquired within the budgets is paid for by one of them.
LEMMA AcquireRow ==
    ASSUME NEW r, RowInv(r), r.status = "pending", r.attempts < MaxAttempts,
           now \in Nat
    PROVE  /\ RowInv(ChargeAcquisition(AcquireTaskLease(r)))
           /\ ChargeAcquisition(AcquireTaskLease(r)).epoch = r.epoch + 1
<1> DEFINE a == AcquireTaskLease(r)
<1> DEFINE c == ChargeAcquisition(a)
<1>1. /\ a \in Row /\ a.status = "in_progress" /\ a.epoch = r.epoch + 1
      /\ a.expiresAt = now + DispatchLease
      /\ a.updatedAt = now /\ a.inProgressAt = now
      /\ a.attempts = r.attempts /\ a.interrupts = r.interrupts
      /\ a.resumeAttempts = r.resumeAttempts
  <2>1. now + DispatchLease \in Nat /\ r.epoch + 1 \in Nat /\ r \in Row
    BY DurationAssumption DEF RowInv, Row
  <2>2. a = [r EXCEPT !.status = "in_progress", !.epoch = r.epoch + 1,
                      !.expiresAt = now + DispatchLease, !.updatedAt = now,
                      !.inProgressAt = now]
    BY DEF RowInv, AcquireTaskLease
  <2>3. a \in Row
    <3>1. /\ now + DispatchLease \in Nat \cup {Nil} /\ now \in Nat \cup {Nil}
          /\ "in_progress" \in {"pending", "in_progress"} \cup TerminalStatuses
      BY <2>1
    <3> QED
      BY <2>1, <2>2, <3>1 DEF Row
  <2> QED
    BY <2>1, <2>2, <2>3 DEF Row
<1> HIDE DEF a
<1>2. /\ c \in Row /\ c.status = "in_progress" /\ c.epoch = a.epoch
      /\ c.expiresAt = a.expiresAt
      /\ c.updatedAt = now /\ c.inProgressAt = now
      /\ c.interrupts = a.interrupts
      /\ c.attempts + c.resumeAttempts = a.attempts + a.resumeAttempts + 1
      /\ c.resumeAttempts <= MaxResume
      /\ c.attempts <= a.attempts + 1
  <2>1. a.attempts + 1 \in Nat /\ a.resumeAttempts + 1 \in Nat /\ a \in Row
    BY <1>1 DEF Row
  <2>2. CASE a.resumeRequested /\ a.resumeAttempts < MaxResume
    <3>1. c = [a EXCEPT !.resumeRequested = FALSE,
                        !.resumeAttempts = a.resumeAttempts + 1]
      BY <2>2 DEF ChargeAcquisition
    <3>2. c \in Row
      BY <2>1, <3>1 DEF Row
    <3> QED
      BY <1>1, <2>1, <2>2, <3>1, <3>2, BudgetAssumption DEF Row
  <2>3. CASE ~(a.resumeRequested /\ a.resumeAttempts < MaxResume)
    <3>1. c = [a EXCEPT !.resumeRequested = FALSE, !.attempts = a.attempts + 1,
                        !.chargedEpoch = a.epoch]
      BY <2>3 DEF ChargeAcquisition
    <3>2. c \in Row
      BY <2>1, <3>1 DEF Row
    <3> QED
      BY <1>1, <2>1, <3>1, <3>2, BudgetAssumption DEF Row, RowInv
  <2> QED
    BY <2>2, <2>3
<1> HIDE DEF c
<1>3. c.expiresAt < c.updatedAt + MaxInProgress + MaxTTL
  BY <1>1, <1>2, TTLFact, DurationAssumption
<1>4. /\ c.epoch <= c.attempts + c.resumeAttempts + c.interrupts
      /\ c.attempts <= MaxAttempts
      /\ c.interrupts <= MaxProgressInterrupts
  BY <1>1, <1>2, BudgetAssumption DEF RowInv, Row
<1>5. c.epoch <= MaxAttempts + MaxResume + MaxProgressInterrupts
  BY <1>2, <1>4, BudgetAssumption DEF Row
<1>6. RowInv(c)
  BY <1>1, <1>2, <1>3, <1>4, <1>5, DurationAssumption DEF RowInv, InProgress
<1> QED
  BY <1>1, <1>2, <1>6 DEF a, c

\* The accounting of a hang-release moves charges between the budgets.
LEMMA HangReleaseRow ==
    ASSUME NEW r, RowInv(r), now \in Nat
    PROVE  RowInv(HangRelease(ReleaseTaskLease(r)))
             /\ HangRelease(ReleaseTaskLease(r)).status = "pending"
             /\ HangRelease(ReleaseTaskLease(r)).epoch = r.epoch
<1> DEFINE p == ReleaseTaskLease(r)
<1>1. RowInv(p) /\ p.status = "pending" /\ p.epoch = r.epoch
  <2>1. p.status = "pending" /\ p.epoch = r.epoch
    BY DEF ReleaseTaskLease, RowInv, Row
  <2> QED
    BY <2>1, ReleaseRow
<1> HIDE DEF p
<1> DEFINE h == HangRelease(p)
<1> DEFINE exempt == /\ p.progressEpoch = p.epoch /\ p.epoch > 0
                     /\ p.interrupts < MaxProgressInterrupts
<1> DEFINE refund == exempt /\ p.chargedEpoch = p.epoch /\ p.attempts > 0
<1> SUFFICES RowInv(h) /\ h.status = "pending" /\ h.epoch = p.epoch
  BY <1>1 DEF p
<1>2. /\ p \in Row /\ now + HangCooldown \in Nat /\ p.interrupts + 1 \in Nat
      /\ p.attempts + 1 \in Nat /\ (p.attempts > 0 => p.attempts - 1 \in Nat)
  BY <1>1, DurationAssumption DEF RowInv, Row
<1>3. CASE refund
  <2>1. h = [p EXCEPT !.notBefore = now + HangCooldown,
                      !.interrupts = p.interrupts + 1,
                      !.attempts = p.attempts - 1,
                      !.chargedEpoch = 0]
    BY <1>3 DEF HangRelease
  <2>2. p.attempts - 1 \in Nat
    BY <1>2, <1>3
  <2> HIDE DEF refund, h
  <2>3. h \in Row
    BY <1>2, <2>1, <2>2 DEF Row
  <2>4. /\ h.status = "pending" /\ h.epoch = p.epoch
        /\ h.attempts = p.attempts - 1 /\ h.interrupts = p.interrupts + 1
        /\ h.resumeAttempts = p.resumeAttempts
        /\ h.inProgressAt = p.inProgressAt
    BY <1>1, <1>2, <2>1 DEF Row
  <2> QED
    BY <1>1, <1>2, <1>3, <2>3, <2>4, BudgetAssumption
    DEF RowInv, Row, InProgress, refund
<1>4. CASE exempt /\ ~refund
  <2>1. h = [p EXCEPT !.notBefore = now + HangCooldown,
                      !.interrupts = p.interrupts + 1,
                      !.attempts = p.attempts,
                      !.chargedEpoch = p.chargedEpoch]
    BY <1>4 DEF HangRelease
  <2> HIDE DEF h
  <2>2. h \in Row
    BY <1>2, <2>1 DEF Row
  <2>3. /\ h.status = "pending" /\ h.epoch = p.epoch
        /\ h.attempts = p.attempts /\ h.interrupts = p.interrupts + 1
        /\ h.resumeAttempts = p.resumeAttempts
        /\ h.inProgressAt = p.inProgressAt
    BY <1>1, <1>2, <2>1 DEF Row
  <2> QED
    BY <1>1, <1>2, <1>4, <2>2, <2>3, BudgetAssumption DEF RowInv, Row, InProgress
<1>5. CASE ~exempt
  <2>1. h = [p EXCEPT !.notBefore = now + HangCooldown,
                      !.interrupts = p.interrupts,
                      !.attempts = p.attempts + 1,
                      !.chargedEpoch = p.chargedEpoch]
    BY <1>5 DEF HangRelease
  <2> HIDE DEF h
  <2>2. h \in Row
    BY <1>2, <2>1 DEF Row
  <2>3. /\ h.status = "pending" /\ h.epoch = p.epoch
        /\ h.attempts = p.attempts + 1 /\ h.interrupts = p.interrupts
        /\ h.resumeAttempts = p.resumeAttempts
        /\ h.inProgressAt = p.inProgressAt
    BY <1>1, <1>2, <2>1 DEF Row
  <2> QED
    BY <1>1, <1>2, <2>2, <2>3, BudgetAssumption DEF RowInv, Row, InProgress
<1> QED
  BY <1>3, <1>4, <1>5

-----------------------------------------------------------------------------
(* What a step may do to a row that it does not lease: end it, release it  *)
(* or extend it, within the same epoch, and nothing once it is terminal.   *)

Settles(r, n) ==
    /\ RowInv(n)
    /\ n.epoch = r.epoch
    /\ InProgress(n) => InProgress(r) /\ n.updatedAt = r.updatedAt
    /\ IsTerminal(r.status) => n = r

\* A row that a step leaves alone is settled.
LEMMA SettlesSelf ==
    ASSUME NEW r, RowInv(r) PROVE Settles(r, r)
BY DEF Settles

\* The sub-steps of one scan phase compose.
LEMMA SettlesTrans ==
    ASSUME NEW r, NEW m, NEW n, Settles(r, m), Settles(m, n)
    PROVE  Settles(r, n)
BY DEF Settles

\* Ending a row (result, cancel, dead letter) settles it.
LEMMA TerminateSettles ==
    ASSUME NEW r, RowInv(r), now \in Nat, NEW s \in TerminalStatuses,
           ~IsTerminal(r.status)
    PROVE  Settles(r, Terminate(r, s))
BY TerminateRow DEF Settles

\* Releasing a lease settles the row.
LEMMA ReleaseSettles ==
    ASSUME NEW r, RowInv(r), now \in Nat, InProgress(r)
    PROVE  Settles(r, ReleaseTaskLease(r))
<1>1. ReleaseTaskLease(r).epoch = r.epoch
  BY DEF RowInv, Row, ReleaseTaskLease
<1> QED
  BY <1>1, ReleaseRow DEF Settles, InProgress, IsTerminal, TerminalStatuses

\* Extending a lease before max_in_progress settles the row.
LEMMA ExtendSettles ==
    ASSUME NEW r, RowInv(r), InProgress(r), now \in Nat,
           NEW ttl \in Nat, ttl <= MaxTTL,
           now - r.updatedAt < MaxInProgress
    PROVE  Settles(r, ExtendTaskLease(r, ttl))
<1>1. /\ ExtendTaskLease(r, ttl).epoch = r.epoch
      /\ ExtendTaskLease(r, ttl).updatedAt = r.updatedAt
  BY DEF RowInv, Row, ExtendTaskLease
<1> QED
  BY <1>1, ExtendRow DEF Settles, InProgress, IsTerminal, TerminalStatuses

\* Stamping the epoch of observed progress changes nothing the invariant reads.
LEMMA StampSettles ==
    ASSUME NEW r, RowInv(r), InProgress(r)
    PROVE  LET n == [r EXCEPT !.progressEpoch = r.epoch]
           IN  Settles(r, n) /\ InProgress(n)
<1> DEFINE n == [r EXCEPT !.progressEpoch = r.epoch]
<1>1. r \in Row /\ r.epoch \in Nat
  BY DEF RowInv, Row
<1>2. /\ n \in Row /\ n.status = r.status /\ n.epoch = r.epoch
      /\ n.attempts = r.attempts /\ n.resumeAttempts = r.resumeAttempts
      /\ n.interrupts = r.interrupts /\ n.expiresAt = r.expiresAt
      /\ n.updatedAt = r.updatedAt /\ n.inProgressAt = r.inProgressAt
  BY <1>1 DEF Row
<1> SUFFICES Settles(r, n) /\ InProgress(n)
  OBVIOUS
<1> HIDE DEF n
<1> QED
  BY <1>1, <1>2 DEF Settles, RowInv, InProgress, IsTerminal, TerminalStatuses

-----------------------------------------------------------------------------
(* Phase A.                                                                *)

\* The dead-letter step of Phase A settles a row.
LEMMA DeadLetterSettles ==
    ASSUME NEW r, RowInv(r)
    PROVE  /\ Settles(r, DeadLetterStep(r))
           /\ DeadLetterStep(r).status = "pending"
                => DeadLetterStep(r) = r /\ r.attempts < MaxAttempts
<1>1. CASE r.status = "pending" /\ r.attempts >= MaxAttempts
  <2> DEFINE n == [r EXCEPT !.status = "dead_letter"]
  <2>1. DeadLetterStep(r) = n
    BY <1>1 DEF DeadLetterStep
  <2>2. /\ n \in Row /\ n.status = "dead_letter" /\ n.epoch = r.epoch
        /\ n.attempts = r.attempts /\ n.resumeAttempts = r.resumeAttempts
        /\ n.interrupts = r.interrupts
    BY DEF RowInv, Row, TerminalStatuses
  <2> HIDE DEF n
  <2> QED
    BY <1>1, <2>1, <2>2
    DEF Settles, RowInv, InProgress, IsTerminal, TerminalStatuses
<1>2. CASE ~(r.status = "pending" /\ r.attempts >= MaxAttempts)
  BY <1>2, SettlesSelf, BudgetAssumption DEF DeadLetterStep, RowInv, Row
<1> QED
  BY <1>1, <1>2

\* The rows stepDispatchOrRecovery looks at: settled, unchanged where they are
\* pending or in progress, and within the dispatch budget where pending.
LEMMA BeforeDispatchRow ==
    ASSUME NEW t \in Tasks, RowInv(rows[t]), now \in Nat, NEW verdict
    PROVE  LET b == BeforeDispatch(verdict)[t]
           IN  /\ Settles(rows[t], b)
               /\ b.status = "pending" =>
                    b = rows[t] /\ b.attempts < MaxAttempts /\ ~cancelRequested
               /\ InProgress(b) => b = rows[t]
<1> DEFINE r == rows[t]
           d == DeadLetterStep(r)
           c == CancelPendingTasks(d)
           b == BlockedPaneTimeout(c, verdict[OwnerOf[t]])
<1>0. BeforeDispatch(verdict)[t] = b
  BY DEF BeforeDispatch
<1>1. /\ Settles(r, d)
      /\ d.status = "pending" => d = r /\ r.attempts < MaxAttempts
      /\ InProgress(d) => d = r
  BY DeadLetterSettles DEF DeadLetterStep, InProgress, RowInv, Row
<1>2. /\ Settles(d, c)
      /\ c.status = "pending" => c = d /\ ~cancelRequested
      /\ InProgress(c) => c = d
  <2>1. CASE cancelRequested /\ d.status = "pending"
    <3>1. c = Terminate(d, "cancelled")
      BY <2>1 DEF CancelPendingTasks
    <3>2. Settles(d, c) /\ ~InProgress(c)
      BY <1>1, <2>1, <3>1, TerminateSettles, TerminateRow
      DEF Settles, IsTerminal, TerminalStatuses
    <3>3. c.status = "cancelled"
      BY <1>1, <3>1 DEF Terminate, Settles, RowInv, Row
    <3> QED
      BY <3>2, <3>3
  <2>2. CASE ~(cancelRequested /\ d.status = "pending")
    BY <1>1, <2>2, SettlesSelf DEF CancelPendingTasks, Settles
  <2> QED
    BY <2>1, <2>2
<1>3. /\ Settles(c, b)
      /\ b.status = "pending" => b = c
      /\ InProgress(b) => b = c
  <2>1. CASE InProgress(c) /\ verdict[OwnerOf[t]] = "fatal"
    <3>1. b = Terminate(c, "failed")
      BY <2>1 DEF BlockedPaneTimeout
    <3>2. Settles(c, b) /\ ~InProgress(b)
      BY <1>2, <2>1, <3>1, TerminateSettles, TerminateRow
      DEF Settles, IsTerminal, TerminalStatuses, InProgress
    <3>3. b.status = "failed"
      BY <1>2, <3>1 DEF Terminate, Settles, RowInv, Row
    <3> QED
      BY <3>2, <3>3
  <2>2. CASE ~(InProgress(c) /\ verdict[OwnerOf[t]] = "fatal")
    BY <1>2, <2>2, SettlesSelf DEF BlockedPaneTimeout, Settles
  <2> QED
    BY <2>1, <2>2
<1> HIDE DEF d, c, b
<1>4. Settles(r, b)
  BY <1>1, <1>2, <1>3, SettlesTrans
<1> QED
  BY <1>0, <1>1, <1>2, <1>3, <1>4

\* The recovery of an expired lease in Phase A settles the row.
LEMMA RecoverSettles ==
    ASSUME NEW r, RowInv(r), now \in Nat, NEW verdict
    PROVE  Settles(r, RecoverExpired(r, verdict))
<1> DEFINE e == ExtendTaskLease(r, DispatchLease)
<1>1. CASE /\ InProgress(r) /\ IsLeaseExpired(r)
           /\ ~IsMaxInProgressTimeout(r.updatedAt)
           /\ verdict \in {"active", "blocked", "uncertain"}
  <2>1. now - r.updatedAt < MaxInProgress
    BY <1>1, DurationAssumption DEF IsMaxInProgressTimeout, RowInv, Row
  <2>2. Settles(r, e)
    BY <1>1, <2>1, ExtendSettles, TTLFact, DurationAssumption
  <2>3. InProgress(e) /\ e.epoch = r.epoch /\ e.progressEpoch = r.progressEpoch
    BY <1>1 DEF ExtendTaskLease, RowInv, Row, InProgress
  <2> HIDE DEF e
  <2>4. CASE verdict = "active"
    <3> DEFINE n == [e EXCEPT !.progressEpoch = e.epoch]
    <3>1. RecoverExpired(r, verdict) = n
      BY <1>1, <2>3, <2>4 DEF RecoverExpired, e
    <3>2. Settles(e, n)
      BY <2>2, <2>3, StampSettles DEF Settles
    <3> QED
      BY <2>2, <3>1, <3>2, SettlesTrans
  <2>5. CASE verdict # "active"
    <3>1. RecoverExpired(r, verdict) = [e EXCEPT !.progressEpoch = e.progressEpoch]
      BY <1>1, <2>5 DEF RecoverExpired, e
    <3>2. [e EXCEPT !.progressEpoch = e.progressEpoch] = e
      BY <2>2 DEF Settles, RowInv, Row
    <3> QED
      BY <2>2, <3>1, <3>2
  <2> QED
    BY <2>4, <2>5
<1>2. CASE ~ /\ InProgress(r) /\ IsLeaseExpired(r)
             /\ ~IsMaxInProgressTimeout(r.updatedAt)
             /\ verdict \in {"active", "blocked", "uncertain"}
  BY <1>2, SettlesSelf DEF RecoverExpired
<1> QED
  BY <1>1, <1>2

\* The dependency-failure step of Phase A settles a row.
LEMMA DependencySettles ==
    ASSUME NEW r, NEW t, RowInv(r), now \in Nat
    PROVE  Settles(r, DependencyFailures(r, t))
<1>1. CASE /\ dep[t] = "failed"
           /\ \/ r.status = "pending"
              \/ InProgress(r) /\ ~IsLeaseExpired(r)
  <2>1. DependencyFailures(r, t) = Terminate(r, "cancelled")
    BY <1>1 DEF DependencyFailures
  <2>2. ~IsTerminal(r.status)
    BY <1>1 DEF InProgress, IsTerminal, TerminalStatuses
  <2> QED
    BY <2>1, <2>2, TerminateSettles DEF TerminalStatuses
<1>2. CASE ~ /\ dep[t] = "failed"
             /\ \/ r.status = "pending"
                \/ InProgress(r) /\ ~IsLeaseExpired(r)
  BY <1>2, SettlesSelf DEF DependencyFailures
<1> QED
  BY <1>1, <1>2

\* A task that this scan leases: its row was pending, and it is now one epoch
\* further (and ended again if a dependency failed).
Leases(r, n) ==
    /\ r.status = "pending"
    /\ RowInv(n)
    /\ n.epoch = r.epoch + 1

\* What Phase A does to each row.
LEMMA AfterPhaseARow ==
    ASSUME NEW t \in Tasks, RowInv(rows[t]), now \in Nat, NEW verdict,
           NEW D \in DispatchSets(BeforeDispatch(verdict))
    PROVE  LET b == BeforeDispatch(verdict)[t]
               n == AfterPhaseA(D, verdict)[t]
           IN  /\ t \in D => Leases(rows[t], n) /\ ~cancelRequested
               /\ t \notin D => Settles(rows[t], n) /\ Settles(b, n)
               /\ t \notin D /\ n.status = "pending" => rows[t].status = "pending"
               /\ NeedsBusyCheck(b, verdict[OwnerOf[t]])
                    => n = rows[t] /\ IsLeaseExpired(n)
<1> DEFINE b == BeforeDispatch(verdict)[t]
           q == DispatchOrRecovery(BeforeDispatch(verdict), D, verdict)[t]
           n == DependencyFailures(q, t)
<1>0. AfterPhaseA(D, verdict)[t] = n
  BY DEF AfterPhaseA
<1>1. /\ Settles(rows[t], b)
      /\ b.status = "pending" =>
           b = rows[t] /\ b.attempts < MaxAttempts /\ ~cancelRequested
      /\ InProgress(b) => b = rows[t]
  BY BeforeDispatchRow
<1>2. CASE t \in D
  <2>1. b.status = "pending"
    BY <1>2 DEF DispatchSets, Dispatchable
  <2>2. q = ChargeAcquisition(AcquireTaskLease(b))
    BY <1>2 DEF DispatchOrRecovery
  <2>3. RowInv(q) /\ q.epoch = b.epoch + 1
    BY <1>1, <2>1, <2>2, AcquireRow
  <2>4. Settles(q, n)
    BY <2>3, DependencySettles
  <2>5. ~NeedsBusyCheck(b, verdict[OwnerOf[t]])
    BY <2>1 DEF NeedsBusyCheck, InProgress
  <2> QED
    BY <1>0, <1>1, <1>2, <2>1, <2>3, <2>4, <2>5 DEF Leases, Settles
<1>3. CASE t \notin D
  <2>1. q = RecoverExpired(b, verdict[OwnerOf[t]])
    BY <1>3 DEF DispatchOrRecovery
  <2>2. Settles(b, q)
    BY <1>1, <2>1, RecoverSettles DEF Settles
  <2>3. Settles(q, n)
    BY <2>2, DependencySettles DEF Settles
  <2>4. n.status = "pending" => rows[t].status = "pending"
    <3> SUFFICES ASSUME n.status = "pending" PROVE rows[t].status = "pending"
      OBVIOUS
    <3>1. q.status = "pending"
      BY <2>2 DEF DependencyFailures, Terminate, Settles, RowInv, Row
    <3>2. b.status = "pending"
      <4>1. CASE InProgress(b)
        BY <1>1, <2>1, <3>1, <4>1
        DEF RecoverExpired, ExtendTaskLease, InProgress, Settles, RowInv, Row
      <4>2. CASE ~InProgress(b)
        BY <2>1, <3>1, <4>2 DEF RecoverExpired
      <4> QED
        BY <4>1, <4>2
    <3> QED
      BY <1>1, <3>2
  <2>5. ASSUME NeedsBusyCheck(b, verdict[OwnerOf[t]])
        PROVE  n = rows[t] /\ IsLeaseExpired(n)
    <3>1. InProgress(b) /\ b = rows[t] /\ IsLeaseExpired(b)
      BY <1>1, <2>5 DEF NeedsBusyCheck
    <3>2. q = b
      BY <2>1, <2>5 DEF NeedsBusyCheck, RecoverExpired
    <3>3. n = q
      BY <3>1, <3>2 DEF DependencyFailures, InProgress
    <3> QED
      BY <3>1, <3>2, <3>3
  <2> HIDE DEF n, q
  <2> QED
    BY <1>0, <1>1, <1>3, <2>2, <2>3, <2>4, <2>5, SettlesTrans
<1> QED
  BY <1>2, <1>3

-----------------------------------------------------------------------------
(* Phase C.                                                                *)

\* Applying a cancel mark in Phase C settles the row.
LEMMA CancelMarkSettles ==
    ASSUME NEW r, NEW w, RowInv(r), now \in Nat
    PROVE  /\ Settles(r, ApplyCancelMark(r, w))
           /\ InProgress(ApplyCancelMark(r, w)) => ApplyCancelMark(r, w) = r
           /\ InProgress(r) => ApplyCancelMark(r, w).status # "pending"
<1>1. CASE w.mark /\ r.status \in {"in_progress", "pending"} /\ r.epoch = w.epoch
  <2>1. ApplyCancelMark(r, w) = Terminate(r, "cancelled")
    BY <1>1 DEF ApplyCancelMark
  <2>2. Settles(r, Terminate(r, "cancelled")) /\ ~InProgress(Terminate(r, "cancelled"))
    BY <1>1, TerminateSettles, TerminateRow DEF IsTerminal, TerminalStatuses
  <2>3. Terminate(r, "cancelled").status = "cancelled"
    BY DEF Terminate, RowInv, Row
  <2> QED
    BY <2>1, <2>2, <2>3
<1>2. CASE ~(w.mark /\ r.status \in {"in_progress", "pending"} /\ r.epoch = w.epoch)
  BY <1>2, SettlesSelf DEF ApplyCancelMark, InProgress
<1> QED
  BY <1>1, <1>2

\* Applying the outcome of a delivery settles the row.
LEMMA DispatchResultSettles ==
    ASSUME NEW r, NEW w, RowInv(r), now \in Nat
    PROVE  /\ Settles(r, ApplyTaskDispatchResult(r, w))
           /\ InProgress(ApplyTaskDispatchResult(r, w))
                => ApplyTaskDispatchResult(r, w) = r
           /\ InProgress(r) /\ ApplyTaskDispatchResult(r, w).status = "pending"
                => w.dispatch = "failed"
<1>1. CASE w.dispatch = "failed" /\ FenceValid(r, w)
  <2>1. ApplyTaskDispatchResult(r, w) = ReleaseTaskLease(r)
    BY <1>1 DEF ApplyTaskDispatchResult
  <2> QED
    BY <1>1, <2>1, ReleaseSettles, ReleaseRow DEF FenceValid
<1>2. CASE w.dispatch = "rejected" /\ FenceValid(r, w)
  <2>1. ApplyTaskDispatchResult(r, w) = Terminate(r, "failed")
    BY <1>2 DEF ApplyTaskDispatchResult
  <2>2. ~IsTerminal(r.status)
    BY <1>2 DEF FenceValid, InProgress, IsTerminal, TerminalStatuses
  <2>3. Terminate(r, "failed").status = "failed"
    BY DEF Terminate, RowInv, Row
  <2> QED
    BY <2>1, <2>2, <2>3, TerminateSettles, TerminateRow DEF TerminalStatuses
<1>3. CASE ~FenceValid(r, w) \/ w.dispatch \notin {"failed", "rejected"}
  <2>1. ApplyTaskDispatchResult(r, w) = r
    BY <1>3 DEF ApplyTaskDispatchResult
  <2> QED
    BY <2>1, SettlesSelf DEF InProgress
<1> QED
  BY <1>1, <1>2, <1>3

\* Releasing a hung task, with its refund or charge, settles the row.
LEMMA HangReleaseSettles ==
    ASSUME NEW r, NEW t, RowInv(r), InProgress(r), now \in Nat
    PROVE  Settles(r, RequestResume(t, HangRelease(ReleaseTaskLease(r)), r))
<1> DEFINE h == HangRelease(ReleaseTaskLease(r))
           n == [h EXCEPT !.resumeRequested = TRUE]
<1>1. RowInv(h) /\ h.status = "pending" /\ h.epoch = r.epoch
  BY HangReleaseRow
<1> HIDE DEF h
<1>2. /\ n \in Row /\ n.status = h.status /\ n.epoch = h.epoch
      /\ n.attempts = h.attempts /\ n.resumeAttempts = h.resumeAttempts
      /\ n.interrupts = h.interrupts /\ n.inProgressAt = h.inProgressAt
  BY <1>1 DEF RowInv, Row
<1>3. RequestResume(t, h, r) = h \/ RequestResume(t, h, r) = n
  BY DEF RequestResume
<1> HIDE DEF n
<1>4. RowInv(n) /\ n.status = "pending" /\ n.epoch = r.epoch
  BY <1>1, <1>2 DEF RowInv, InProgress
<1>5. ~IsTerminal(r.status)
  BY DEF InProgress, IsTerminal, TerminalStatuses
<1> QED
  BY <1>1, <1>3, <1>4, <1>5 DEF Settles, InProgress, h

\* The fence makes the snapshot's times those of the row.
LEMMA BusyCheckSettles ==
    ASSUME NEW t, NEW r, NEW w, NEW probe, RowInv(r), now \in Nat,
           w.busyCheck /\ InProgress(r) /\ r.epoch = w.epoch
              => w.updatedAt = r.updatedAt
    PROVE  /\ Settles(r, ApplyTaskBusyCheckResult(t, r, w, probe))
           /\ ApplyTaskBusyCheckResult(t, r, w, probe) # r
                => w.busyCheck /\ FenceValid(r, w)
<1> DEFINE n == ApplyTaskBusyCheckResult(t, r, w, probe)
           s == [r EXCEPT !.progressEpoch = r.epoch]
           stamped == IF probe = "busy" THEN s ELSE r
<1>1. CASE ~w.busyCheck \/ ~FenceValid(r, w)
  BY <1>1, SettlesSelf DEF ApplyTaskBusyCheckResult
<1>2. CASE w.busyCheck /\ FenceValid(r, w)
  <2>1. InProgress(r) /\ w.updatedAt = r.updatedAt
    BY <1>2 DEF FenceValid
  <2>2. Settles(r, stamped) /\ InProgress(stamped) /\ stamped.updatedAt = r.updatedAt
    <3>1. Settles(r, s) /\ InProgress(s)
      BY <2>1, StampSettles
    <3>2. Settles(r, r)
      BY SettlesSelf
    <3> HIDE DEF s
    <3> QED
      BY <2>1, <3>1, <3>2 DEF Settles
  <2>3. CASE probe = "busy" /\ ~IsMaxInProgressTimeout(w.updatedAt)
    <3>1. n = ExtendTaskLease(stamped, DispatchLease)
      BY <1>2, <2>3 DEF ApplyTaskBusyCheckResult
    <3>2. now - stamped.updatedAt < MaxInProgress
      <4>1. now - r.updatedAt < MaxInProgress
        BY <2>1, <2>3, DurationAssumption DEF IsMaxInProgressTimeout, RowInv, Row
      <4> HIDE DEF stamped
      <4> QED
        BY <2>2, <4>1
    <3> HIDE DEF stamped
    <3>3. Settles(stamped, ExtendTaskLease(stamped, DispatchLease))
      BY <2>2, <3>2, ExtendSettles, TTLFact, DurationAssumption DEF Settles
    <3> QED
      BY <1>2, <2>2, <3>1, <3>3, SettlesTrans
  <2>4. CASE /\ probe = "undecided" /\ ~IsMaxInProgressTimeout(w.updatedAt)
             /\ ~IsGraceLeaseExceeded(w.updatedAt)
    <3>1. n = ExtendTaskLease(r, GraceTTL)
      BY <1>2, <2>4 DEF ApplyTaskBusyCheckResult
    <3>2. now - r.updatedAt < MaxInProgress
      BY <2>1, <2>4, DurationAssumption DEF IsMaxInProgressTimeout, RowInv, Row
    <3> QED
      BY <1>2, <2>1, <3>1, <3>2, ExtendSettles, TTLFact, DurationAssumption
  <2>5. CASE probe = "idle"
    <3>1. n = RequestResume(t, HangRelease(ReleaseTaskLease(r)), r)
      BY <1>2, <2>5 DEF ApplyTaskBusyCheckResult
    <3> QED
      BY <1>2, <2>1, <3>1, HangReleaseSettles
  <2>6. CASE /\ ~(probe = "busy" /\ ~IsMaxInProgressTimeout(w.updatedAt))
             /\ ~ /\ probe = "undecided" /\ ~IsMaxInProgressTimeout(w.updatedAt)
                  /\ ~IsGraceLeaseExceeded(w.updatedAt)
             /\ probe # "idle"
    <3>1. n = ReleaseTaskLease(stamped)
      BY <1>2, <2>6 DEF ApplyTaskBusyCheckResult
    <3> HIDE DEF stamped
    <3>2. Settles(stamped, ReleaseTaskLease(stamped))
      BY <2>2, ReleaseSettles DEF Settles
    <3> QED
      BY <1>2, <2>2, <3>1, <3>2, SettlesTrans
  <2> QED
    BY <2>3, <2>4, <2>5, <2>6
<1> QED
  BY <1>1, <1>2

\* What Phase C does to each row before R1 runs.
LEMMA AfterPhaseCRow ==
    ASSUME NEW t \in Tasks, RowInv(rows[t]), now \in Nat, SnapshotInv, NEW probe
    PROVE  /\ Settles(rows[t], AfterPhaseC(probe)[t])
           /\ InProgress(rows[t]) /\ AfterPhaseC(probe)[t].status = "pending"
                => IsLeaseExpired(rows[t]) \/ work[t].dispatch = "failed"
<1> DEFINE r == rows[t]
           w == work[t]
           c == ApplyCancelMark(r, w)
           d == ApplyTaskDispatchResult(c, w)
           n == ApplyTaskBusyCheckResult(t, d, w, probe[t])
<1>0. AfterPhaseC(probe)[t] = n
  BY DEF AfterPhaseC
<1>1. /\ Settles(r, c) /\ (InProgress(c) => c = r)
      /\ InProgress(r) => c.status # "pending"
  BY CancelMarkSettles
<1> HIDE DEF c
<1>2. /\ Settles(c, d) /\ (InProgress(d) => d = c)
      /\ InProgress(c) /\ d.status = "pending" => w.dispatch = "failed"
  BY <1>1, DispatchResultSettles DEF Settles
<1> HIDE DEF d
<1>3. /\ Settles(d, n)
      /\ n # d => w.busyCheck /\ FenceValid(d, w)
  <2>1. w.busyCheck /\ InProgress(d) /\ d.epoch = w.epoch => w.updatedAt = d.updatedAt
    BY <1>1, <1>2 DEF SnapshotInv
  <2> QED
    BY <1>2, <2>1, BusyCheckSettles DEF Settles
<1> HIDE DEF n
<1>4. Settles(r, n)
  BY <1>1, <1>2, <1>3, SettlesTrans
<1>5. ASSUME InProgress(r), n.status = "pending"
      PROVE  IsLeaseExpired(r) \/ w.dispatch = "failed"
  <2>1. CASE n = d
    <3>1. InProgress(c)
      <4>1. CASE IsTerminal(c.status)
        BY <1>2, <1>5, <2>1, <4>1 DEF Settles, IsTerminal, TerminalStatuses
      <4>2. CASE ~IsTerminal(c.status)
        BY <1>1, <1>5, <4>2 DEF Settles, RowInv, Row, IsTerminal, InProgress
      <4> QED
        BY <4>1, <4>2
    <3> QED
      BY <1>2, <1>5, <2>1, <3>1
  <2>2. CASE n # d
    <3>1. d = r /\ w.busyCheck /\ FenceValid(r, w)
      BY <1>1, <1>2, <1>3, <2>2 DEF FenceValid
    <3> QED
      BY <3>1 DEF FenceValid, SnapshotInv, IsLeaseExpired
  <2> QED
    BY <2>1, <2>2
<1> QED
  BY <1>0, <1>4, <1>5

\* R1's repair of a row in progress settles it.
LEMMA R1Settles ==
    ASSUME NEW t, NEW r, NEW rs, RowInv(r), now \in Nat, rs \subseteq Result,
           NEW n \in R1Outcomes(t, r, rs)
    PROVE  Settles(r, n) /\ (n.status = "pending" => n = r)
<1>1. CASE R1Statuses(t, r, rs) = {}
  BY <1>1, SettlesSelf DEF R1Outcomes
<1>2. CASE R1Statuses(t, r, rs) # {}
  <2>1. PICK s \in R1Statuses(t, r, rs) : n = Terminate(r, s)
    BY <1>2 DEF R1Outcomes
  <2>2. s \in ResultStatuses /\ InProgress(r)
    BY DEF R1Statuses, R1Candidates, Result
  <2>3. s \in TerminalStatuses /\ ~IsTerminal(r.status) /\ s # "pending"
    BY <2>2 DEF ResultStatuses, TerminalStatuses, IsTerminal, InProgress
  <2>4. Terminate(r, s).status = s
    BY DEF Terminate, RowInv, Row
  <2> QED
    BY <2>1, <2>3, <2>4, TerminateSettles
<1> QED
  BY <1>1, <1>2

-----------------------------------------------------------------------------
(* The inductive invariant.                                                *)

\* An action that only settles rows, and forgets deferred work or changes
\* nothing of it but delivery outcomes, preserves the invariant.
LEMMA SettlingStep ==
    ASSUME IInv, TypeOK',
           \A t \in Tasks : Settles(rows[t], rows'[t]),
           \A t \in Tasks : work'[t].busyCheck =>
              /\ work[t].busyCheck
              /\ work'[t].epoch = work[t].epoch
              /\ work'[t].updatedAt = work[t].updatedAt
              /\ work'[t].expiresAt = work[t].expiresAt,
           now' >= now
    PROVE  IInv'
<1>1. \A t \in Tasks : RowInv(rows'[t])
  BY DEF Settles
<1>2. OneInProgressPerWorker'
  BY DEF IInv, OneInProgressPerWorker, Settles
<1>3. SnapshotInv'
  <2> SUFFICES ASSUME NEW t \in Tasks, work'[t].busyCheck
               PROVE  /\ work'[t].expiresAt = Nil \/ now' > work'[t].expiresAt
                      /\ InProgress(rows'[t]) /\ rows'[t].epoch = work'[t].epoch
                           => work'[t].updatedAt = rows'[t].updatedAt
    BY DEF SnapshotInv
  <2>1. /\ work[t].busyCheck
        /\ work[t].expiresAt = Nil \/ now > work[t].expiresAt
        /\ InProgress(rows[t]) /\ rows[t].epoch = work[t].epoch
             => work[t].updatedAt = rows[t].updatedAt
    BY DEF IInv, SnapshotInv
  <2>2. now \in Nat /\ now' \in Nat /\ work[t].expiresAt \in Nat \cup {Nil}
    BY DEF IInv, TypeOK, Work
  <2>3. work'[t].expiresAt = Nil \/ now' > work'[t].expiresAt
    BY <2>1, <2>2
  <2> QED
    BY <2>1, <2>3 DEF Settles
<1> QED
  BY <1>1, <1>2, <1>3 DEF IInv

\* An idle scan has no deferred work.
LEMMA NoWorkFact == NoWork \in [Tasks -> Work] /\ \A t \in Tasks : ~NoWork[t].busyCheck
BY DEF NoWork, Work, Nil

\* A result written for a row of the queue is well-typed.
LEMMA NewResultType ==
    ASSUME NEW t \in Tasks, NEW r, RowInv(r), NEW s \in ResultStatuses, now \in Nat
    PROVE  NewResult(t, r, s) \in Result
BY DEF NewResult, Result, RowInv, Row

\* The files a scan step writes hold rows and results of the right type.
LEMMA PhaseAResultsType ==
    ASSUME NEW new, \A t \in Tasks : RowInv(new[t]), now \in Nat
    PROVE  PhaseAResults(new) \subseteq Result
<1> SUFFICES ASSUME NEW t \in Tasks, IsTerminal(new[t].status)
             PROVE  NewResult(t, new[t], IF new[t].status = "dead_letter"
                                         THEN "failed" ELSE new[t].status) \in Result
  BY DEF PhaseAResults
<1> DEFINE s == IF new[t].status = "dead_letter" THEN "failed" ELSE new[t].status
<1>1. s \in ResultStatuses
  BY DEF IsTerminal, TerminalStatuses, ResultStatuses
<1> HIDE DEF s
<1>2. NewResult(t, new[t], s) \in Result
  BY <1>1, NewResultType
<1> QED
  BY <1>2 DEF s

\* So are the results Phase C writes for rejected and cancelled tasks.
LEMMA PhaseCResultsType ==
    ASSUME NEW new, \A t \in Tasks : RowInv(new[t]), now \in Nat
    PROVE  PreflightResults(new) \subseteq Result /\ CancelResults(new) \subseteq Result
BY NewResultType DEF PreflightResults, CancelResults, ResultStatuses

\* The invariant gives each row its type and its own invariant.
LEMMA RowsType ==
    ASSUME IInv PROVE \A t \in Tasks : RowInv(rows[t])
BY DEF IInv

\* Phase A's rows, and the work it defers, once they are (partly) written.
LEMMA PhaseAStep ==
    ASSUME IInv, NEW verdict, NEW D \in DispatchSets(BeforeDispatch(verdict)),
           NEW W,
           rows' = Flushed(AfterPhaseA(D, verdict), W),
           \/ work' = PhaseAWork(AfterPhaseA(D, verdict), D, verdict)
           \/ work' = NoWork,
           now' = now
    PROVE  /\ rows' \in [Tasks -> Row]
           /\ work' \in [Tasks -> Work]
           /\ \A t \in Tasks : RowInv(rows'[t])
           /\ SnapshotInv'
           /\ OneInProgressPerWorker'
<1> DEFINE new == AfterPhaseA(D, verdict)
           b == BeforeDispatch(verdict)
<1>0. now \in Nat /\ \A t \in Tasks : RowInv(rows[t])
  BY DEF IInv, TypeOK
<1>1. \A t \in Tasks :
         /\ t \in D => Leases(rows[t], new[t]) /\ ~cancelRequested
         /\ t \notin D => Settles(rows[t], new[t]) /\ Settles(b[t], new[t])
         /\ NeedsBusyCheck(b[t], verdict[OwnerOf[t]])
              => new[t] = rows[t] /\ IsLeaseExpired(new[t])
  BY <1>0, AfterPhaseARow
<1>2. \A t \in Tasks : RowInv(new[t])
  BY <1>1 DEF Leases, Settles
<1>3. \A t \in Tasks : rows'[t] = IF OwnerOf[t] \in W THEN new[t] ELSE rows[t]
  BY DEF Flushed
<1>4. \A t, u \in D : OwnerOf[t] = OwnerOf[u] => t = u
  BY DEF DispatchSets
<1>5. \A t \in D, u \in Tasks : OwnerOf[u] = OwnerOf[t] => ~InProgress(b[u])
  <2>1. SUFFICES ASSUME NEW t \in D, NEW u \in Tasks, OwnerOf[u] = OwnerOf[t],
                        InProgress(b[u])
                 PROVE  FALSE
    OBVIOUS
  <2>2. ~HasExpiredLeases(b) /\ Dispatchable(b, t)
    BY DEF DispatchSets
  <2> QED
    BY <2>1, <2>2 DEF HasExpiredLeases, Dispatchable, InFlight
<1>6. D \subseteq Tasks
  BY DEF DispatchSets
<1> HIDE DEF new, b
<1>7. \A t \in Tasks : RowInv(rows'[t])
  BY <1>0, <1>2, <1>3
<1>8. rows' \in [Tasks -> Row]
  BY <1>7 DEF Flushed, RowInv
<1>9. OneInProgressPerWorker'
  <2> SUFFICES ASSUME NEW t \in Tasks, NEW u \in Tasks, OwnerOf[t] = OwnerOf[u],
                      InProgress(rows'[t]), InProgress(rows'[u])
               PROVE  t = u
    BY DEF OneInProgressPerWorker
  <2>1. CASE OwnerOf[t] \notin W
    BY <1>3, <2>1 DEF IInv, OneInProgressPerWorker
  <2>2. CASE OwnerOf[t] \in W
    <3>1. InProgress(new[t]) /\ InProgress(new[u])
      BY <1>3, <2>2
    <3>2. CASE t \in D \/ u \in D
      <4>1. ~InProgress(b[t]) /\ ~InProgress(b[u])
        BY <1>5, <3>2
      <4>2. t \in D /\ u \in D
        BY <1>1, <3>1, <4>1 DEF Settles
      <4> QED
        BY <1>4, <4>2
    <3>3. CASE t \notin D /\ u \notin D
      BY <1>1, <3>1, <3>3 DEF Settles, IInv, OneInProgressPerWorker
    <3> QED
      BY <3>2, <3>3
  <2> QED
    BY <2>1, <2>2
<1>10. CASE work' = NoWork
  <2>1. SnapshotInv'
    BY <1>10, NoWorkFact DEF SnapshotInv
  <2> QED
    BY <1>7, <1>8, <1>9, <1>10, <2>1, NoWorkFact
<1>11. CASE work' = PhaseAWork(AfterPhaseA(D, verdict), D, verdict)
  <2>1. \A t \in Tasks :
           /\ work'[t].busyCheck = NeedsBusyCheck(b[t], verdict[OwnerOf[t]])
           /\ work'[t].epoch = new[t].epoch
           /\ work'[t].updatedAt = new[t].updatedAt
           /\ work'[t].expiresAt = new[t].expiresAt
    BY <1>11 DEF PhaseAWork, new, b
  <2>2. work' \in [Tasks -> Work]
    <3> SUFFICES ASSUME NEW t \in Tasks
                 PROVE  [dispatch  |-> IF t \in D THEN "todo" ELSE "none",
                         busyCheck |-> NeedsBusyCheck(b[t], verdict[OwnerOf[t]]),
                         mark      |-> cancelRequested /\ InProgress(rows[t]),
                         epoch     |-> new[t].epoch,
                         updatedAt |-> new[t].updatedAt,
                         expiresAt |-> new[t].expiresAt] \in Work
      BY <1>11 DEF PhaseAWork, new, b
    <3>1. /\ NeedsBusyCheck(b[t], verdict[OwnerOf[t]]) \in BOOLEAN
          /\ (cancelRequested /\ InProgress(rows[t])) \in BOOLEAN
      BY DEF NeedsBusyCheck
    <3>2. /\ new[t].epoch \in Nat /\ new[t].updatedAt \in Nat
          /\ new[t].expiresAt \in Nat \cup {Nil}
      BY <1>2 DEF RowInv, Row
    <3> QED
      BY <3>1, <3>2 DEF Work
  <2>3. SnapshotInv'
    <3> SUFFICES ASSUME NEW t \in Tasks, work'[t].busyCheck
                 PROVE  /\ work'[t].expiresAt = Nil \/ now' > work'[t].expiresAt
                        /\ work'[t].updatedAt = rows'[t].updatedAt
      BY DEF SnapshotInv
    <3>1. new[t] = rows[t] /\ IsLeaseExpired(new[t])
      BY <1>1, <2>1
    <3> QED
      BY <1>3, <2>1, <3>1 DEF IsLeaseExpired
  <2> QED
    BY <1>7, <1>8, <1>9, <2>2, <2>3
<1> QED
  BY <1>10, <1>11

\* What one step may do to the row of a task: settle it, or lease it while no
\* cancel is recorded; and a lease goes back to pending only when it expired
\* or its delivery failed.
RowStep(t) ==
    /\ \/ Settles(rows[t], rows'[t])
       \/ Leases(rows[t], rows'[t]) /\ ~cancelRequested
    /\ InProgress(rows[t]) /\ rows'[t].status = "pending"
         => IsLeaseExpired(rows[t]) \/ work[t].dispatch = "failed"

\* A row written, or not written, by Phase A takes a RowStep.
LEMMA PhaseARowStep ==
    ASSUME IInv, NEW verdict, NEW D \in DispatchSets(BeforeDispatch(verdict)),
           NEW W, rows' = Flushed(AfterPhaseA(D, verdict), W)
    PROVE  \A t \in Tasks : RowStep(t)
<1> SUFFICES ASSUME NEW t \in Tasks PROVE RowStep(t)
  OBVIOUS
<1> DEFINE n == AfterPhaseA(D, verdict)[t]
<1>1. now \in Nat /\ RowInv(rows[t])
  BY DEF IInv, TypeOK
<1>2. /\ t \in D => Leases(rows[t], n) /\ ~cancelRequested
      /\ t \notin D => Settles(rows[t], n)
      /\ t \notin D /\ n.status = "pending" => rows[t].status = "pending"
  BY <1>1, AfterPhaseARow
<1>3. rows'[t] = n \/ rows'[t] = rows[t]
  BY DEF Flushed
<1> HIDE DEF n
<1> QED
  BY <1>1, <1>2, <1>3, SettlesSelf DEF RowStep, Leases, InProgress

\* A row an action leaves alone takes a RowStep.
LEMMA UnchangedRowStep ==
    ASSUME IInv, rows' = rows
    PROVE  \A t \in Tasks : Settles(rows[t], rows'[t]) /\ RowStep(t)
BY RowsType, SettlesSelf DEF RowStep, InProgress

\* Phase C's rows once they are (partly) written, and the results with them.
LEMMA PhaseCRows ==
    ASSUME IInv, NEW probe, NEW W
    PROVE  LET new == AfterPhaseC(probe)
           IN  /\ \A t \in Tasks :
                    /\ Settles(rows[t], new[t])
                    /\ Settles(rows[t], Flushed(new, W)[t])
                    /\ InProgress(rows[t]) /\ Flushed(new, W)[t].status = "pending"
                         => IsLeaseExpired(rows[t]) \/ work[t].dispatch = "failed"
               /\ PreflightResults(new) \subseteq Result
               /\ CancelResults(new) \subseteq Result
<1> DEFINE new == AfterPhaseC(probe)
<1>1. now \in Nat /\ SnapshotInv /\ \A t \in Tasks : RowInv(rows[t])
  BY DEF IInv, TypeOK
<1>2. \A t \in Tasks :
         /\ Settles(rows[t], new[t])
         /\ InProgress(rows[t]) /\ new[t].status = "pending"
              => IsLeaseExpired(rows[t]) \/ work[t].dispatch = "failed"
  BY <1>1, AfterPhaseCRow
<1> HIDE DEF new
<1>3. \A t \in Tasks : Flushed(new, W)[t] = new[t] \/ Flushed(new, W)[t] = rows[t]
  BY DEF Flushed
<1>4. \A t \in Tasks :
         /\ Settles(rows[t], Flushed(new, W)[t])
         /\ InProgress(rows[t]) /\ Flushed(new, W)[t].status = "pending"
              => IsLeaseExpired(rows[t]) \/ work[t].dispatch = "failed"
  BY <1>1, <1>2, <1>3, SettlesSelf DEF InProgress
<1>5. PreflightResults(new) \subseteq Result /\ CancelResults(new) \subseteq Result
  BY <1>1, <1>2, PhaseCResultsType DEF Settles
<1> QED
  BY <1>2, <1>4, <1>5 DEF new

\* Phase C as a whole: R1 runs on the rows that were written.
LEMMA PhaseCStep ==
    ASSUME IInv, NEW probe, NEW W, NEW rs,
           rs = results \cup PreflightResults(AfterPhaseC(probe))
                        \cup CancelResults(AfterPhaseC(probe)),
           NEW f, \A t \in Tasks :
                     f[t] \in R1Outcomes(t, Flushed(AfterPhaseC(probe), W)[t], rs),
           rows' = f
    PROVE  /\ rs \subseteq Result
           /\ \A t \in Tasks : Settles(rows[t], rows'[t]) /\ RowStep(t)
<1> DEFINE q == Flushed(AfterPhaseC(probe), W)
<1>1. /\ \A t \in Tasks :
           /\ Settles(rows[t], q[t])
           /\ InProgress(rows[t]) /\ q[t].status = "pending"
                => IsLeaseExpired(rows[t]) \/ work[t].dispatch = "failed"
      /\ rs \subseteq Result
  BY PhaseCRows DEF IInv, TypeOK
<1> HIDE DEF q
<1>2. \A t \in Tasks : Settles(q[t], f[t]) /\ (f[t].status = "pending" => f[t] = q[t])
  <2> SUFFICES ASSUME NEW t \in Tasks
               PROVE  Settles(q[t], f[t]) /\ (f[t].status = "pending" => f[t] = q[t])
    OBVIOUS
  <2>1. now \in Nat /\ RowInv(q[t]) /\ f[t] \in R1Outcomes(t, q[t], rs)
    BY <1>1 DEF IInv, TypeOK, Settles, q
  <2> QED
    BY <1>1, <2>1, R1Settles
<1>3. \A t \in Tasks : Settles(rows[t], f[t])
  BY <1>1, <1>2, SettlesTrans
<1> QED
  BY <1>1, <1>2, <1>3 DEF RowStep

\* The whole queue written is what Phase A and Phase C leave.
LEMMA FlushedAll ==
    ASSUME NEW new, new = [t \in Tasks |-> new[t]]
    PROVE  Flushed(new, Workers) = new
<1>1. \A t \in Tasks : OwnerOf[t] \in Workers
  BY OwnerAssumption
<1> QED
  BY <1>1 DEF Flushed

\* The freshly submitted queue satisfies the invariant.
LEMMA InitIInv == Init => IInv
<1> SUFFICES ASSUME Init PROVE IInv
  OBVIOUS
<1> DEFINE r0 == [status |-> "pending", epoch |-> 0, expiresAt |-> Nil,
                  updatedAt |-> 0, inProgressAt |-> Nil, attempts |-> 0,
                  chargedEpoch |-> 0, progressEpoch |-> 0, interrupts |-> 0,
                  resumeAttempts |-> 0, resumeRequested |-> FALSE,
                  notBefore |-> 0]
<1>1. RowInv(r0)
  BY BudgetAssumption DEF RowInv, Row, InProgress, Nil
<1>2. rows = [t \in Tasks |-> r0]
  BY DEF Init
<1>3. ~InProgress(r0)
  BY DEF InProgress
<1> HIDE DEF r0
<1>4. \A t \in Tasks : RowInv(rows[t]) /\ ~InProgress(rows[t])
  BY <1>1, <1>2, <1>3
<1>5. OneInProgressPerWorker
  BY <1>4 DEF OneInProgressPerWorker
<1>6. SnapshotInv
  BY NoWorkFact DEF Init, SnapshotInv
<1>7. TypeOK
  BY <1>1, <1>2, NoWorkFact DEF TypeOK, Init, RowInv
<1> QED
  BY <1>4, <1>5, <1>6, <1>7 DEF IInv

\* Every step preserves the invariant and does to each row what RowStep allows.
LEMMA NextStep ==
    ASSUME IInv, Next
    PROVE  IInv' /\ \A t \in Tasks : RowStep(t)
<1> USE DEF Fault, ForgetScan, scanVars
<1>0. TypeOK /\ now \in Nat /\ results \subseteq Result
  BY DEF IInv, TypeOK
<1>1. CASE ScanPhaseA
  <2>a. PICK verdict \in PaneVerdicts :
          \E D \in DispatchSets(BeforeDispatch(verdict)) :
               /\ rows' = AfterPhaseA(D, verdict)
               /\ results' = results \cup PhaseAResults(AfterPhaseA(D, verdict))
               /\ work' = PhaseAWork(AfterPhaseA(D, verdict), D, verdict)
    BY <1>1 DEF ScanPhaseA
  <2>1. PICK D \in DispatchSets(BeforeDispatch(verdict)) :
               /\ rows' = AfterPhaseA(D, verdict)
               /\ results' = results \cup PhaseAResults(AfterPhaseA(D, verdict))
               /\ work' = PhaseAWork(AfterPhaseA(D, verdict), D, verdict)
    BY <2>a
  <2>2. rows' = Flushed(AfterPhaseA(D, verdict), Workers)
    BY <2>1, FlushedAll DEF AfterPhaseA
  <2>3. UNCHANGED <<cancelRequested, dep, delivered, now, faults>>
        /\ phase' = "B" /\ cancelSeen' \in BOOLEAN
    BY <1>1 DEF ScanPhaseA
  <2>4. /\ rows' \in [Tasks -> Row] /\ work' \in [Tasks -> Work]
        /\ \A t \in Tasks : RowInv(rows'[t])
        /\ SnapshotInv' /\ OneInProgressPerWorker'
    BY <2>1, <2>2, <2>3, PhaseAStep
  <2>5. results' \subseteq Result
    BY <1>0, <2>1, <2>4, PhaseAResultsType
  <2>6. TypeOK'
    BY <1>0, <2>3, <2>4, <2>5 DEF TypeOK
  <2>7. \A t \in Tasks : RowStep(t)
    BY <2>2, PhaseARowStep
  <2> QED
    BY <2>4, <2>6, <2>7 DEF IInv
<1>2. CASE ScanPhaseAFlushFails
  <2>a. PICK verdict \in PaneVerdicts :
          \E D \in DispatchSets(BeforeDispatch(verdict)), W \in SUBSET Workers :
               /\ rows' = Flushed(AfterPhaseA(D, verdict), W)
               /\ results' = results \cup PhaseAResults(AfterPhaseA(D, verdict))
               /\ work' = PhaseAWork(AfterPhaseA(D, verdict), D, verdict)
    BY <1>2 DEF ScanPhaseAFlushFails
  <2>1. PICK D \in DispatchSets(BeforeDispatch(verdict)), W \in SUBSET Workers :
               /\ rows' = Flushed(AfterPhaseA(D, verdict), W)
               /\ results' = results \cup PhaseAResults(AfterPhaseA(D, verdict))
               /\ work' = PhaseAWork(AfterPhaseA(D, verdict), D, verdict)
    BY <2>a
  <2>2. UNCHANGED <<cancelRequested, dep, delivered, now>> /\ faults' = faults + 1
        /\ phase' = "B" /\ cancelSeen' \in BOOLEAN
    BY <1>2 DEF ScanPhaseAFlushFails
  <2>3. /\ rows' \in [Tasks -> Row] /\ work' \in [Tasks -> Work]
        /\ \A t \in Tasks : RowInv(rows'[t])
        /\ SnapshotInv' /\ OneInProgressPerWorker'
    BY <2>1, <2>2, PhaseAStep
  <2>4. \A t \in Tasks : RowInv(AfterPhaseA(D, verdict)[t])
    BY <1>0, RowsType, AfterPhaseARow DEF Leases, Settles
  <2>5. results' \subseteq Result
    BY <1>0, <2>1, <2>4, PhaseAResultsType
  <2>6. TypeOK'
    BY <1>0, <2>2, <2>3, <2>5 DEF TypeOK
  <2>7. \A t \in Tasks : RowStep(t)
    BY <2>1, PhaseARowStep
  <2> QED
    BY <2>3, <2>6, <2>7 DEF IInv
<1>3. CASE CrashInPhaseA
  <2>a. PICK verdict \in PaneVerdicts :
          \E D \in DispatchSets(BeforeDispatch(verdict)) :
               \/ \E R \in SUBSET PhaseAResults(AfterPhaseA(D, verdict)) :
                     results' = results \cup R /\ UNCHANGED rows
               \/ \E W \in SUBSET Workers :
                     /\ results' = results \cup PhaseAResults(AfterPhaseA(D, verdict))
                     /\ rows' = Flushed(AfterPhaseA(D, verdict), W)
    BY <1>3 DEF CrashInPhaseA
  <2>1. PICK D \in DispatchSets(BeforeDispatch(verdict)) :
               \/ \E R \in SUBSET PhaseAResults(AfterPhaseA(D, verdict)) :
                     results' = results \cup R /\ UNCHANGED rows
               \/ \E W \in SUBSET Workers :
                     /\ results' = results \cup PhaseAResults(AfterPhaseA(D, verdict))
                     /\ rows' = Flushed(AfterPhaseA(D, verdict), W)
    BY <2>a
  <2>2. /\ UNCHANGED <<cancelRequested, dep, delivered, now>> /\ faults' = faults + 1
        /\ phase' = "idle" /\ work' = NoWork /\ cancelSeen' \in BOOLEAN
    BY <1>3 DEF CrashInPhaseA
  <2>3. \A t \in Tasks : RowInv(AfterPhaseA(D, verdict)[t])
    BY <1>0, RowsType, AfterPhaseARow DEF Leases, Settles
  <2>4. PhaseAResults(AfterPhaseA(D, verdict)) \subseteq Result
    BY <1>0, <2>3, PhaseAResultsType
  <2>5. results' \subseteq Result
    BY <1>0, <2>1, <2>4
  <2>6. CASE UNCHANGED rows
    <3>1. TypeOK'
      BY <1>0, <2>2, <2>5, <2>6, NoWorkFact DEF TypeOK
    <3>2. \A t \in Tasks : Settles(rows[t], rows'[t]) /\ RowStep(t)
      BY <2>6, UnchangedRowStep
    <3> QED
      BY <1>0, <2>2, <3>1, <3>2, SettlingStep, NoWorkFact
  <2>7. ASSUME NEW W, rows' = Flushed(AfterPhaseA(D, verdict), W)
        PROVE  IInv' /\ \A t \in Tasks : RowStep(t)
    <3>1. /\ rows' \in [Tasks -> Row] /\ work' \in [Tasks -> Work]
          /\ \A t \in Tasks : RowInv(rows'[t])
          /\ SnapshotInv' /\ OneInProgressPerWorker'
      BY <2>2, <2>7, PhaseAStep
    <3>2. TypeOK'
      BY <1>0, <2>2, <2>5, <3>1 DEF TypeOK
    <3>3. \A t \in Tasks : RowStep(t)
      BY <2>7, PhaseARowStep
    <3> QED
      BY <3>1, <3>2, <3>3 DEF IInv
  <2> QED
    BY <2>1, <2>6, <2>7
<1>4. ASSUME NEW t \in Tasks, NEW outcome \in {"ok", "failed", "uncertain", "rejected"},
             NEW received \in BOOLEAN, DispatchTask(t, outcome, received)
      PROVE  IInv' /\ \A u \in Tasks : RowStep(u)
  <2>1. /\ UNCHANGED <<rows, results, phase, cancelSeen, cancelRequested, dep, now,
                       faults>>
        /\ work' = [work EXCEPT ![t].dispatch = outcome]
        /\ delivered' = delivered \cup
              IF received THEN {[task |-> t, epoch |-> work[t].epoch]} ELSE {}
    BY <1>4 DEF DispatchTask
  <2>2. work' \in [Tasks -> Work]
    BY <1>0, <2>1 DEF TypeOK, Work
  <2>3. delivered' \subseteq Token
    BY <1>0, <2>1 DEF TypeOK, Work, Token
  <2>4. TypeOK'
    BY <1>0, <2>1, <2>2, <2>3 DEF TypeOK
  <2>5. \A u \in Tasks : /\ work'[u].busyCheck = work[u].busyCheck
                         /\ work'[u].epoch = work[u].epoch
                         /\ work'[u].updatedAt = work[u].updatedAt
                         /\ work'[u].expiresAt = work[u].expiresAt
    BY <1>0, <2>1 DEF TypeOK, Work
  <2>6. \A u \in Tasks : Settles(rows[u], rows'[u]) /\ RowStep(u)
    BY <2>1, UnchangedRowStep
  <2> QED
    BY <1>0, <2>1, <2>4, <2>5, <2>6, SettlingStep
<1>5. CASE ScanPhaseC
  <2>1. PICK probe \in ProbeAnswers :
          LET new == AfterPhaseC(probe)
              rs  == results \cup PreflightResults(new) \cup CancelResults(new)
          IN  /\ rows' \in {f \in [Tasks -> UNION {R1Outcomes(t, new[t], rs) : t \in Tasks}] :
                              \A t \in Tasks : f[t] \in R1Outcomes(t, new[t], rs)}
              /\ results' = rs
    BY <1>5 DEF ScanPhaseC
  <2>2. /\ UNCHANGED <<cancelSeen, cancelRequested, dep, delivered, now, faults>>
        /\ phase' = "idle" /\ work' = NoWork
    BY <1>5 DEF ScanPhaseC
  <2>3. Flushed(AfterPhaseC(probe), Workers) = AfterPhaseC(probe)
    BY FlushedAll DEF AfterPhaseC
  <2>4. /\ results' \subseteq Result
        /\ \A t \in Tasks : Settles(rows[t], rows'[t]) /\ RowStep(t)
    BY <2>1, <2>3, PhaseCStep
  <2>5. rows' \in [Tasks -> Row]
    BY <2>1, <2>4 DEF Settles, RowInv
  <2>6. TypeOK'
    BY <1>0, <2>2, <2>4, <2>5, NoWorkFact DEF TypeOK
  <2> QED
    BY <1>0, <2>2, <2>4, <2>6, SettlingStep, NoWorkFact
<1>6. CASE ScanPhaseCFlushFails
  <2>1. PICK probe \in ProbeAnswers, W \in SUBSET Workers :
          LET new == AfterPhaseC(probe)
              q   == Flushed(new, W)
              rs  == results \cup PreflightResults(new) \cup CancelResults(new)
          IN  /\ rows' \in {f \in [Tasks -> UNION {R1Outcomes(t, q[t], rs) : t \in Tasks}] :
                              \A t \in Tasks : f[t] \in R1Outcomes(t, q[t], rs)}
              /\ results' = rs
    BY <1>6 DEF ScanPhaseCFlushFails
  <2>2. /\ UNCHANGED <<cancelSeen, cancelRequested, dep, delivered, now>>
        /\ faults' = faults + 1 /\ phase' = "idle" /\ work' = NoWork
    BY <1>6 DEF ScanPhaseCFlushFails
  <2>3. /\ results' \subseteq Result
        /\ \A t \in Tasks : Settles(rows[t], rows'[t]) /\ RowStep(t)
    BY <2>1, PhaseCStep
  <2>4. rows' \in [Tasks -> Row]
    BY <2>1, <2>3 DEF Settles, RowInv
  <2>5. TypeOK'
    BY <1>0, <2>2, <2>3, <2>4, NoWorkFact DEF TypeOK
  <2> QED
    BY <1>0, <2>2, <2>3, <2>5, SettlingStep, NoWorkFact
<1>7. CASE CrashInPhaseC
  <2>1. PICK probe \in ProbeAnswers :
          LET new == AfterPhaseC(probe)
          IN  \/ \E R \in SUBSET PreflightResults(new) :
                    results' = results \cup R /\ UNCHANGED rows
              \/ \E W \in SUBSET Workers :
                    /\ results' = results \cup PreflightResults(new)
                    /\ rows' = Flushed(new, W)
              \/ \E R \in SUBSET CancelResults(new) :
                    /\ results' = results \cup PreflightResults(new) \cup R
                    /\ rows' = new
    BY <1>7 DEF CrashInPhaseC
  <2>2. /\ UNCHANGED <<cancelRequested, dep, delivered, now>> /\ faults' = faults + 1
        /\ phase' = "idle" /\ work' = NoWork /\ cancelSeen' \in BOOLEAN
    BY <1>7 DEF CrashInPhaseC
  <2>3. /\ PreflightResults(AfterPhaseC(probe)) \subseteq Result
        /\ CancelResults(AfterPhaseC(probe)) \subseteq Result
    BY PhaseCRows
  <2>4. results' \subseteq Result
    BY <1>0, <2>1, <2>3
  <2>5. Flushed(AfterPhaseC(probe), Workers) = AfterPhaseC(probe)
    BY FlushedAll DEF AfterPhaseC
  <2>6. UNCHANGED rows \/ \E W : rows' = Flushed(AfterPhaseC(probe), W)
    BY <2>1, <2>5
  <2>7. \A t \in Tasks : Settles(rows[t], rows'[t]) /\ RowStep(t)
    <3>1. CASE UNCHANGED rows
      BY <3>1, UnchangedRowStep
    <3>2. ASSUME NEW W, rows' = Flushed(AfterPhaseC(probe), W)
          PROVE  \A t \in Tasks : Settles(rows[t], rows'[t]) /\ RowStep(t)
      BY <3>2, PhaseCRows DEF RowStep
    <3> QED
      BY <2>6, <3>1, <3>2
  <2>8. rows' \in [Tasks -> Row]
    BY <1>0, <2>6, <2>7 DEF Settles, RowInv, Flushed, TypeOK
  <2>9. TypeOK'
    BY <1>0, <2>2, <2>4, <2>8, NoWorkFact DEF TypeOK
  <2> QED
    BY <1>0, <2>2, <2>7, <2>9, SettlingStep, NoWorkFact
<1>8. CASE Crash
  <2>1. /\ UNCHANGED <<rows, results, cancelRequested, dep, delivered, now>>
        /\ faults' = faults + 1
        /\ phase' = "idle" /\ work' = NoWork /\ cancelSeen' \in BOOLEAN
    BY <1>8 DEF Crash
  <2>2. TypeOK'
    BY <1>0, <2>1, NoWorkFact DEF TypeOK
  <2>3. \A t \in Tasks : Settles(rows[t], rows'[t]) /\ RowStep(t)
    BY <2>1, UnchangedRowStep
  <2> QED
    BY <1>0, <2>1, <2>2, <2>3, SettlingStep, NoWorkFact
<1>9. ASSUME NEW tok \in delivered, Heartbeat(tok)
      PROVE  IInv' /\ \A t \in Tasks : RowStep(t)
  <2> DEFINE t == tok.task
             n == ExtendTaskLease(rows[t], DispatchLease)
  <2>1. /\ InProgress(rows[t])
        /\ now - (IF rows[t].inProgressAt # Nil THEN rows[t].inProgressAt
                  ELSE rows[t].updatedAt) < MaxInProgress
        /\ rows' = [rows EXCEPT ![t] = n]
        /\ UNCHANGED <<results, phase, work, cancelSeen, cancelRequested, dep,
                       delivered, now, faults>>
    BY <1>9 DEF Heartbeat
  <2>2. t \in Tasks
    BY <1>0 DEF TypeOK, Token
  <2>3. RowInv(rows[t])
    BY <2>2, RowsType
  <2>4. now - rows[t].updatedAt < MaxInProgress
    BY <2>1, <2>3 DEF RowInv
  <2>5. Settles(rows[t], n) /\ n.status = "in_progress"
    <3>1. n.status = "in_progress"
      BY <2>1, <2>3 DEF ExtendTaskLease, InProgress, RowInv, Row
    <3> QED
      BY <1>0, <2>1, <2>3, <2>4, <3>1, ExtendSettles, TTLFact, DurationAssumption
  <2> HIDE DEF n, t
  <2>6. \A u \in Tasks : rows'[u] = IF u = t THEN n ELSE rows[u]
    BY <1>0, <2>1 DEF TypeOK
  <2>7. \A u \in Tasks : Settles(rows[u], rows'[u]) /\ RowStep(u)
    BY <2>5, <2>6, RowsType, SettlesSelf DEF RowStep, InProgress
  <2>8. TypeOK'
    BY <1>0, <2>1, <2>5 DEF TypeOK, Settles, RowInv
  <2> QED
    BY <1>0, <2>1, <2>7, <2>8, SettlingStep
<1>10. ASSUME NEW tok \in delivered, NEW status \in ReportStatuses,
              ResultWrite(tok, status)
       PROVE  IInv' /\ \A t \in Tasks : RowStep(t)
  <2> DEFINE t == tok.task
             n == Terminate(rows[t], status)
  <2>1. /\ InProgress(rows[t])
        /\ results' = results \cup {NewResult(t, rows[t], status)}
        /\ rows' = [rows EXCEPT ![t] = n]
        /\ UNCHANGED <<phase, work, cancelSeen, cancelRequested, dep,
                       delivered, now, faults>>
    BY <1>10 DEF ResultWrite, ResultAccepted
  <2>2. t \in Tasks
    BY <1>0 DEF TypeOK, Token
  <2>3. RowInv(rows[t])
    BY <2>2, RowsType
  <2>4. /\ status \in TerminalStatuses /\ status \in ResultStatuses
        /\ status # "pending" /\ ~IsTerminal(rows[t].status)
    BY <2>1 DEF ReportStatuses, TerminalStatuses, ResultStatuses, IsTerminal, InProgress
  <2>5. Settles(rows[t], n) /\ n.status # "pending"
    <3>1. n.status = status
      BY <2>3 DEF Terminate, RowInv, Row
    <3> QED
      BY <1>0, <2>3, <2>4, <3>1, TerminateSettles
  <2>6. results' \subseteq Result
    BY <1>0, <2>1, <2>2, <2>3, <2>4, NewResultType
  <2> HIDE DEF n, t
  <2>7. \A u \in Tasks : rows'[u] = IF u = t THEN n ELSE rows[u]
    BY <1>0, <2>1 DEF TypeOK
  <2>8. \A u \in Tasks : Settles(rows[u], rows'[u]) /\ RowStep(u)
    BY <2>5, <2>7, RowsType, SettlesSelf DEF RowStep, InProgress
  <2>9. TypeOK'
    BY <1>0, <2>1, <2>5, <2>6 DEF TypeOK, Settles, RowInv
  <2> QED
    BY <1>0, <2>1, <2>8, <2>9, SettlingStep
<1>11. ASSUME NEW tok \in delivered, NEW status \in ReportStatuses,
              ResultWriteOrphaned(tok, status) \/ CrashInResultWrite(tok, status)
       PROVE  IInv' /\ \A t \in Tasks : RowStep(t)
  <2>1. /\ results' = results \cup {NewResult(tok.task, rows[tok.task], status)}
        /\ UNCHANGED <<rows, cancelRequested, dep, delivered, now>>
        /\ faults' = faults + 1
        /\ \/ UNCHANGED <<phase, work, cancelSeen>>
           \/ phase' = "idle" /\ work' = NoWork /\ cancelSeen' \in BOOLEAN
    BY <1>11 DEF ResultWriteOrphaned, CrashInResultWrite
  <2>2. tok.task \in Tasks /\ status \in ResultStatuses
    BY <1>0 DEF TypeOK, Token, ReportStatuses, ResultStatuses
  <2>3. results' \subseteq Result
    BY <1>0, <2>1, <2>2, RowsType, NewResultType
  <2>4. TypeOK'
    BY <1>0, <2>1, <2>3, NoWorkFact DEF TypeOK
  <2>5. \A t \in Tasks : Settles(rows[t], rows'[t]) /\ RowStep(t)
    BY <2>1, UnchangedRowStep
  <2> QED
    BY <1>0, <2>1, <2>4, <2>5, SettlingStep, NoWorkFact
<1>12. CASE CancelRequest
  <2>1. /\ UNCHANGED <<rows, results, phase, work, cancelSeen, dep, delivered, now,
                       faults>>
        /\ cancelRequested' = TRUE
    BY <1>12 DEF CancelRequest
  <2>2. TypeOK'
    BY <1>0, <2>1 DEF TypeOK
  <2>3. \A t \in Tasks : Settles(rows[t], rows'[t]) /\ RowStep(t)
    BY <2>1, UnchangedRowStep
  <2> QED
    BY <1>0, <2>1, <2>2, <2>3, SettlingStep
<1>13. ASSUME NEW t \in Tasks, NEW outcome \in {"met", "failed"},
              DependencyResolves(t, outcome)
       PROVE  IInv' /\ \A u \in Tasks : RowStep(u)
  <2>1. /\ UNCHANGED <<rows, results, phase, work, cancelSeen, cancelRequested,
                       delivered, now, faults>>
        /\ dep' = [dep EXCEPT ![t] = outcome]
    BY <1>13 DEF DependencyResolves
  <2>2. TypeOK'
    BY <1>0, <2>1 DEF TypeOK
  <2>3. \A u \in Tasks : Settles(rows[u], rows'[u]) /\ RowStep(u)
    BY <2>1, UnchangedRowStep
  <2> QED
    BY <1>0, <2>1, <2>2, <2>3, SettlingStep
<1>14. CASE Tick
  <2>1. /\ UNCHANGED <<rows, results, phase, work, cancelSeen, cancelRequested, dep,
                       delivered, faults>>
        /\ now' = now + 1
    BY <1>14 DEF Tick
  <2>2. TypeOK'
    BY <1>0, <2>1 DEF TypeOK
  <2>3. \A t \in Tasks : Settles(rows[t], rows'[t]) /\ RowStep(t)
    BY <2>1, UnchangedRowStep
  <2> QED
    BY <1>0, <2>1, <2>2, <2>3, SettlingStep
<1> QED
  BY <1>1, <1>2, <1>3, <1>4, <1>5, <1>6, <1>7, <1>8, <1>9, <1>10, <1>11, <1>12,
     <1>13, <1>14
  DEF Next, ScanStep, WorkerStep

\* So does a state in which nothing changed.
LEMMA StutterStep ==
    ASSUME IInv, UNCHANGED vars
    PROVE  IInv' /\ \A t \in Tasks : RowStep(t)
<1>1. UNCHANGED <<rows, results, phase, work, cancelSeen, cancelRequested, dep,
                  delivered, now, faults>>
  BY DEF vars
<1>2. TypeOK' /\ now \in Nat
  BY <1>1 DEF IInv, TypeOK
<1>3. \A t \in Tasks : Settles(rows[t], rows'[t]) /\ RowStep(t)
  BY <1>1, UnchangedRowStep
<1> QED
  BY <1>1, <1>2, <1>3, SettlingStep

-----------------------------------------------------------------------------
(* Theorems.                                                               *)

\* The strengthened invariant of the task queues holds in every reachable
\* state: the scan, the handlers and every fault preserve it.
THEOREM Invariance == Spec => []IInv
BY InitIInv, NextStep, StutterStep, PTL DEF Spec

\* Rows, results, deferred work and tokens keep their types.
THEOREM TypeCorrect == Spec => []TypeOK
BY Invariance, PTL DEF IInv

\* A worker never has two rows in progress: the in-flight set of a scan ignores
\* expired leases, and the scan dispatches nothing while one is expired.
THEOREM OneInProgress == Spec => []OneInProgressPerWorker
BY Invariance, PTL DEF IInv

\* The charges of a row bound its epoch.
LEMMA BudgetFact == IInv => DispatchBudget
BY DEF IInv, RowInv, DispatchBudget

\* However dispatches fail, hang, are refunded or resumed, the epoch of a task
\* is bounded by the sum of the three budgets of the retry configuration.
THEOREM BudgetBoundsLeases == Spec => []DispatchBudget
BY Invariance, BudgetFact, PTL

\* The anchor of a lease bounds its expiry.
LEMMA CapFact == IInv => RuntimeCap
BY DEF IInv, RowInv, RuntimeCap

\* No sequence of heartbeats, busy verdicts and grace extensions carries a
\* lease beyond max_in_progress and one extension.
THEOREM LeasesAreCapped == Spec => []RuntimeCap
BY Invariance, CapFact, PTL

\* What a step of the specification may do to a row.
LEMMA StepFacts ==
    ASSUME IInv, [Next]_vars
    PROVE  /\ \A t \in Tasks : IsTerminal(rows[t].status) => rows'[t].status = rows[t].status
           /\ \A t \in Tasks :
                cancelRequested /\ ~InProgress(rows[t]) => ~InProgress(rows'[t])
           /\ \A t \in Tasks :
                InProgress(rows[t]) /\ rows'[t].status = "pending"
                    => IsLeaseExpired(rows[t]) \/ work[t].dispatch = "failed"
<1>1. \A t \in Tasks : RowStep(t)
  BY NextStep, StutterStep
<1> QED
  BY <1>1 DEF RowStep, Settles, Leases, IsTerminal, TerminalStatuses

\* A row that reached completed, failed, cancelled or dead_letter keeps its
\* status through every later scan, result, cancel mark, crash and repair.
THEOREM TerminalStays == Spec => TerminalIsFinal
BY Invariance, StepFacts, PTL DEF Spec, TerminalIsFinal

\* Once a cancel is recorded no scan leases a task of the command.
THEOREM CancelStopsLeasing == Spec => NoLeaseAfterCancel
BY Invariance, StepFacts, PTL DEF Spec, NoLeaseAfterCancel

\* Phase C never takes a lease that was extended while it was being probed.
THEOREM ProbesSpareLiveLeases == Spec => LiveLeaseKept
BY Invariance, StepFacts, PTL DEF Spec, LiveLeaseKept

-----------------------------------------------------------------------------
(* Delivery.  Epochs only grow, so a lease that Phase A persisted carries a *)
(* token no worker has seen; this needs the flush not to fail.              *)

DeliveryInv ==
    /\ \A tok \in delivered : tok.epoch <= rows[tok.task].epoch
    /\ \A t \in Tasks : phase = "B" /\ work[t].dispatch = "todo" =>
         /\ work[t].epoch <= rows[t].epoch
         /\ [task |-> t, epoch |-> work[t].epoch] \notin delivered

\* No step lowers the epoch of a row.
LEMMA EpochsGrow ==
    ASSUME IInv, IInv', NEW t \in Tasks, RowStep(t)
    PROVE  rows[t].epoch \in Nat /\ rows'[t].epoch \in Nat
             /\ rows[t].epoch <= rows'[t].epoch
<1>1. rows[t].epoch \in Nat /\ rows'[t].epoch \in Nat
  BY DEF IInv, RowInv, Row
<1> QED
  BY <1>1 DEF RowStep, Settles, Leases

\* Every action but Phase A and a delivery leaves the tokens alone and either
\* keeps the deferred work or ends the scan.
LEMMA OtherSteps ==
    ASSUME [Next]_vars, "flush" \notin FaultKinds, ~ScanPhaseA,
           ~\E t \in Tasks : \E received \in BOOLEAN :
               \E outcome \in {"ok", "failed", "uncertain", "rejected"} :
                  DispatchTask(t, outcome, received)
    PROVE  /\ delivered' = delivered
           /\ phase' = "idle" \/ (phase' = phase /\ work' = work)
BY DEF Next, ScanStep, WorkerStep, ScanPhaseAFlushFails, CrashInPhaseA, ScanPhaseC,
       ScanPhaseCFlushFails, CrashInPhaseC, Crash, Heartbeat, ResultWrite,
       ResultWriteOrphaned, CrashInResultWrite, CancelRequest,
       DependencyResolves, Tick, Fault, ForgetScan, vars, scanVars

\* Every step keeps delivered tokens below, and pending dispatches above, what
\* workers have seen.
LEMMA DeliveryStep ==
    ASSUME "flush" \notin FaultKinds, IInv, IInv', DeliveryInv, [Next]_vars
    PROVE  DeliveryInv'
<1>0. \A t \in Tasks : RowStep(t)
  BY NextStep, StutterStep
<1>1. \A t \in Tasks : /\ rows[t].epoch \in Nat /\ rows'[t].epoch \in Nat
                       /\ rows[t].epoch <= rows'[t].epoch
  BY <1>0, EpochsGrow
<1>2. /\ delivered \subseteq Token /\ work \in [Tasks -> Work] /\ delivered' \subseteq Token
      /\ now \in Nat /\ \A t \in Tasks : RowInv(rows[t])
  BY DEF IInv, TypeOK
<1>3. \A tok \in delivered : tok.task \in Tasks /\ tok.epoch \in Nat
                               /\ tok.epoch <= rows'[tok.task].epoch
  BY <1>1, <1>2 DEF DeliveryInv, Token
<1>4. CASE ScanPhaseA
  <2>1. PICK verdict \in PaneVerdicts :
          \E D \in DispatchSets(BeforeDispatch(verdict)) :
             /\ rows' = AfterPhaseA(D, verdict)
             /\ work' = PhaseAWork(AfterPhaseA(D, verdict), D, verdict)
    BY <1>4 DEF ScanPhaseA
  <2>2. PICK D \in DispatchSets(BeforeDispatch(verdict)) :
             /\ rows' = AfterPhaseA(D, verdict)
             /\ work' = PhaseAWork(AfterPhaseA(D, verdict), D, verdict)
    BY <2>1
  <2>3. delivered' = delivered
    BY <1>4 DEF ScanPhaseA
  <2>4. ASSUME NEW t \in Tasks, work'[t].dispatch = "todo"
        PROVE  /\ work'[t].epoch <= rows'[t].epoch
               /\ [task |-> t, epoch |-> work'[t].epoch] \notin delivered'
    <3>1. t \in D
      BY <2>2, <2>4 DEF PhaseAWork
    <3>2. Leases(rows[t], rows'[t])
      BY <1>2, <2>2, <3>1, AfterPhaseARow
    <3>3. work'[t].epoch = rows'[t].epoch
      BY <2>2 DEF PhaseAWork
    <3>4. work'[t].epoch > rows[t].epoch
      BY <1>1, <3>2, <3>3 DEF Leases
    <3>5. [task |-> t, epoch |-> work'[t].epoch] \notin delivered
      <4> SUFFICES ASSUME NEW tok \in delivered,
                          tok = [task |-> t, epoch |-> work'[t].epoch]
                   PROVE  FALSE
        OBVIOUS
      <4>1. tok.task = t /\ tok.epoch = work'[t].epoch
        OBVIOUS
      <4>2. tok.epoch <= rows[t].epoch
        BY <4>1 DEF DeliveryInv
      <4> QED
        BY <1>1, <3>3, <3>4, <4>1, <4>2
    <3> QED
      BY <1>1, <2>3, <3>3, <3>5
  <2> QED
    BY <1>3, <2>3, <2>4 DEF DeliveryInv
<1>5. ASSUME NEW t \in Tasks, NEW outcome \in {"ok", "failed", "uncertain", "rejected"},
             NEW received \in BOOLEAN, DispatchTask(t, outcome, received)
      PROVE  DeliveryInv'
  <2>1. /\ phase = "B" /\ work[t].dispatch = "todo" /\ rows' = rows /\ phase' = phase
        /\ work' = [work EXCEPT ![t].dispatch = outcome]
        /\ delivered' = delivered \cup
              IF received THEN {[task |-> t, epoch |-> work[t].epoch]} ELSE {}
    BY <1>5 DEF DispatchTask
  <2>2. work[t].epoch <= rows[t].epoch /\ outcome # "todo"
    BY <2>1 DEF DeliveryInv
  <2>3. \A tok \in delivered' : tok.epoch <= rows'[tok.task].epoch
    BY <2>1, <2>2 DEF DeliveryInv
  <2>4. ASSUME NEW u \in Tasks, work'[u].dispatch = "todo"
        PROVE  /\ work'[u].epoch <= rows'[u].epoch
               /\ [task |-> u, epoch |-> work'[u].epoch] \notin delivered'
    <3>1. u # t /\ work'[u] = work[u]
      BY <1>2, <2>1, <2>2, <2>4 DEF Work
    <3> QED
      BY <2>1, <2>4, <3>1 DEF DeliveryInv
  <2> QED
    BY <2>3, <2>4 DEF DeliveryInv
<1>6. CASE /\ ~ScanPhaseA
           /\ ~\E t \in Tasks : \E received \in BOOLEAN :
                 \E outcome \in {"ok", "failed", "uncertain", "rejected"} :
                    DispatchTask(t, outcome, received)
  <2>1. /\ delivered' = delivered
        /\ phase' = "idle" \/ (phase' = phase /\ work' = work)
    BY <1>6, OtherSteps
  <2>2. ASSUME NEW t \in Tasks, phase' = "B", work'[t].dispatch = "todo"
        PROVE  /\ work'[t].epoch <= rows'[t].epoch
               /\ [task |-> t, epoch |-> work'[t].epoch] \notin delivered'
    <3>1. phase = "B" /\ work' = work
      BY <2>1, <2>2
    <3>2. work[t].epoch <= rows[t].epoch /\ work[t].epoch \in Nat
      BY <1>2, <2>2, <3>1 DEF DeliveryInv, Work
    <3> QED
      BY <1>1, <2>1, <2>2, <3>1, <3>2 DEF DeliveryInv
  <2> QED
    BY <1>3, <2>1, <2>2 DEF DeliveryInv
<1> QED
  BY <1>4, <1>5, <1>6

\* While queue writes do not fail, every dispatch carries a fresh fencing
\* token, across crashes, restarts, repairs and orphaned results.
THEOREM TokensAreFresh ==
    ASSUME "flush" \notin FaultKinds
    PROVE  Spec => []NoDoubleDelivery
<1>1. Init => DeliveryInv
  BY DEF Init, DeliveryInv
<1>2. IInv /\ IInv' /\ DeliveryInv /\ [Next]_vars => DeliveryInv'
  BY DeliveryStep
<1>3. DeliveryInv => NoDoubleDelivery
  BY DEF DeliveryInv, NoDoubleDelivery
<1> QED
  BY <1>1, <1>2, <1>3, Invariance, PTL DEF Spec

-----------------------------------------------------------------------------
(* Queue and result files agree.  Every step that ends a row writes one     *)
(* result for it, under the row's final epoch, and no step writes a result  *)
(* for a row it does not end; so the files agree row by row, and R1 finds   *)
(* nothing to repair.                                                       *)

\* The status a result records for a row.
Recorded(status) == IF status = "dead_letter" THEN "failed" ELSE status

\* The row r of task t agrees with the results rs.
Agrees(t, r, rs) ==
    /\ IsTerminal(r.status) <=> \E res \in rs : res.task = t
    /\ \A res \in rs : res.task = t =>
         res.epoch = r.epoch /\ res.status = Recorded(r.status)

AgreeInv == faults = 0 => \A t \in Tasks : Agrees(t, rows[t], results)

\* The two statements of agreement are the same for results of known tasks.
LEMMA AgreeFact == IInv /\ AgreeInv => QueueResultAgree
<1> SUFFICES ASSUME IInv, AgreeInv, faults = 0
             PROVE  /\ \A t \in Tasks : IsTerminal(rows[t].status) <=> HasResult(t)
                    /\ \A res \in results :
                         /\ res.epoch = rows[res.task].epoch
                         /\ res.status = Recorded(rows[res.task].status)
  BY DEF QueueResultAgree, Recorded
<1>1. \A res \in results : res.task \in Tasks
  BY DEF IInv, TypeOK, Result
<1> QED
  BY <1>1 DEF AgreeInv, Agrees, HasResult

\* A row that ends together with a result of its own agrees again, and so does
\* a row that goes on without one.
LEMMA AgreeStep ==
    ASSUME NEW t, NEW r, NEW n, NEW rs, NEW rs2,
           Agrees(t, r, rs), rs \subseteq rs2,
           IsTerminal(r.status) => n = r,
           \A res \in rs2 : res.task = t =>
              \/ res \in rs
              \/ /\ ~IsTerminal(r.status) /\ IsTerminal(n.status)
                 /\ res.epoch = n.epoch /\ res.status = Recorded(n.status),
           IsTerminal(n.status) /\ ~IsTerminal(r.status)
              => \E res \in rs2 : res.task = t
    PROVE  Agrees(t, n, rs2)
BY DEF Agrees

\* The fields of a new result.
LEMMA NewResultFields ==
    ASSUME NEW t, NEW r, NEW s
    PROVE  /\ NewResult(t, r, s).task = t /\ NewResult(t, r, s).epoch = r.epoch
           /\ NewResult(t, r, s).status = s
BY DEF NewResult

\* Phase A records a result exactly for the rows it ends.
LEMMA PhaseAAgrees ==
    ASSUME IInv, NEW verdict, NEW D \in DispatchSets(BeforeDispatch(verdict)),
           NEW new, new = AfterPhaseA(D, verdict),
           NEW t \in Tasks, Agrees(t, rows[t], results)
    PROVE  Agrees(t, new[t], results \cup PhaseAResults(new))
<1> DEFINE rs2 == results \cup PhaseAResults(new)
<1>1. IsTerminal(rows[t].status) => new[t] = rows[t]
  <2>1. RowInv(rows[t]) /\ now \in Nat
    BY DEF IInv, TypeOK
  <2>2. /\ t \in D => Leases(rows[t], new[t])
        /\ t \notin D => Settles(rows[t], new[t])
    BY <2>1, AfterPhaseARow
  <2> QED
    BY <2>2 DEF Leases, Settles, IsTerminal, TerminalStatuses
<1>2. ASSUME NEW res \in rs2, res.task = t
      PROVE  \/ res \in results
             \/ /\ ~IsTerminal(rows[t].status) /\ IsTerminal(new[t].status)
                /\ res.epoch = new[t].epoch /\ res.status = Recorded(new[t].status)
  BY <1>2, NewResultFields DEF PhaseAResults, Recorded
<1>3. ASSUME IsTerminal(new[t].status), ~IsTerminal(rows[t].status)
      PROVE  \E res \in rs2 : res.task = t
  <2>1. ~HasResult(t)
    BY <1>3 DEF Agrees, HasResult
  <2>2. NewResult(t, new[t], IF new[t].status = "dead_letter" THEN "failed"
                             ELSE new[t].status) \in PhaseAResults(new)
    BY <1>3, <2>1 DEF PhaseAResults
  <2> QED
    BY <2>2, NewResultFields
<1> QED
  BY <1>1, <1>2, <1>3, AgreeStep

\* What Phase C ends is cancelled, or a task in progress whose preflight failed.
LEMMA PhaseCEnds ==
    ASSUME NEW t \in Tasks, RowInv(rows[t]), now \in Nat, NEW probe,
           ~IsTerminal(rows[t].status), IsTerminal(AfterPhaseC(probe)[t].status)
    PROVE  \/ AfterPhaseC(probe)[t].status = "cancelled"
           \/ AfterPhaseC(probe)[t].status = "failed" /\ InProgress(rows[t])
<1> DEFINE r == rows[t]
           w == work[t]
           c == ApplyCancelMark(r, w)
           d == ApplyTaskDispatchResult(c, w)
           n == ApplyTaskBusyCheckResult(t, d, w, probe[t])
<1>0. AfterPhaseC(probe)[t] = n
  BY DEF AfterPhaseC
<1>1. c = r \/ c = Terminate(r, "cancelled")
  BY DEF ApplyCancelMark
<1>2. Terminate(r, "cancelled").status = "cancelled"
  BY DEF Terminate, RowInv, Row
<1>3. RowInv(c) /\ c \in Row
  BY CancelMarkSettles DEF Settles, RowInv
<1> HIDE DEF c
<1>4. \/ d = c
      \/ d.status = "pending"
      \/ d.status = "failed" /\ InProgress(c)
  <2>1. ReleaseTaskLease(c).status = "pending" /\ Terminate(c, "failed").status = "failed"
    BY <1>3 DEF ReleaseTaskLease, Terminate, Row
  <2> QED
    BY <2>1 DEF ApplyTaskDispatchResult, FenceValid
<1>5. d \in Row
  BY <1>3, DispatchResultSettles DEF Settles, RowInv
<1> HIDE DEF d
<1>6. n = d \/ n.status \in {"pending", "in_progress"}
  <2> SUFFICES ASSUME w.busyCheck, FenceValid(d, w)
               PROVE  n.status \in {"pending", "in_progress"}
    BY DEF ApplyTaskBusyCheckResult
  <2> DEFINE stamped == IF probe[t] = "busy" THEN [d EXCEPT !.progressEpoch = d.epoch] ELSE d
  <2>1. stamped \in Row /\ stamped.status = "in_progress"
    BY <1>5 DEF FenceValid, InProgress, Row
  <2>2. RequestResume(t, HangRelease(ReleaseTaskLease(d)), d).status = "pending"
    <3>1. ReleaseTaskLease(d).status = "pending"
      BY <1>5 DEF ReleaseTaskLease, Row
    <3>2. HangRelease(ReleaseTaskLease(d)).status = "pending"
      BY <1>5, <3>1 DEF HangRelease, ReleaseTaskLease, Row
    <3> DEFINE h == HangRelease(ReleaseTaskLease(d))
    <3>3. [h EXCEPT !.resumeRequested = TRUE].status = h.status
      BY <1>5 DEF HangRelease, ReleaseTaskLease, Row
    <3> HIDE DEF h
    <3>4. RequestResume(t, h, d) = h \/ RequestResume(t, h, d) = [h EXCEPT !.resumeRequested = TRUE]
      BY DEF RequestResume
    <3>5. h.status = "pending"
      BY <3>2 DEF h
    <3>6. RequestResume(t, h, d).status = "pending"
      BY <3>3, <3>4, <3>5
    <3> QED
      BY <3>6 DEF h
  <2>3. /\ n = ExtendTaskLease(stamped, DispatchLease)
        \/ n = ExtendTaskLease(d, GraceTTL)
        \/ n = RequestResume(t, HangRelease(ReleaseTaskLease(d)), d)
        \/ n = ReleaseTaskLease(stamped)
    BY DEF ApplyTaskBusyCheckResult
  <2> HIDE DEF stamped, n
  <2>4. ExtendTaskLease(stamped, DispatchLease).status = "in_progress"
    BY <2>1 DEF ExtendTaskLease, Row
  <2>5. ExtendTaskLease(d, GraceTTL).status = "in_progress"
    BY <1>5 DEF ExtendTaskLease, Row, FenceValid, InProgress
  <2>6. ReleaseTaskLease(stamped).status = "pending"
    BY <2>1 DEF ReleaseTaskLease, Row
  <2> QED
    BY <2>2, <2>3, <2>4, <2>5, <2>6
<1> HIDE DEF n
<1>7. n = d
  BY <1>0, <1>6 DEF IsTerminal, TerminalStatuses
<1>8. CASE d = c
  BY <1>0, <1>1, <1>2, <1>7, <1>8
<1>9. CASE d.status = "pending"
  BY <1>0, <1>7, <1>9 DEF IsTerminal, TerminalStatuses
<1>10. CASE d.status = "failed" /\ InProgress(c)
  BY <1>0, <1>1, <1>2, <1>7, <1>10 DEF InProgress
<1> QED
  BY <1>4, <1>8, <1>9, <1>10

\* Phase C records a result exactly for the rows it ends, and R1 then finds
\* every row in progress without a result.
LEMMA PhaseCAgrees ==
    ASSUME IInv, NEW probe, NEW new, new = AfterPhaseC(probe),
           NEW rs2, rs2 = results \cup PreflightResults(new) \cup CancelResults(new),
           NEW t \in Tasks, Agrees(t, rows[t], results),
           NEW n \in R1Outcomes(t, new[t], rs2)
    PROVE  Agrees(t, n, rs2)
<1>1. RowInv(rows[t]) /\ Settles(rows[t], new[t]) /\ now \in Nat
  BY RowsType, PhaseCRows DEF IInv, TypeOK
<1>2. ASSUME NEW res \in rs2, res.task = t
      PROVE  \/ res \in results
             \/ /\ ~IsTerminal(rows[t].status) /\ IsTerminal(new[t].status)
                /\ res.epoch = new[t].epoch /\ res.status = Recorded(new[t].status)
  <2>1. CASE res \in PreflightResults(new)
    BY <1>2, <2>1, NewResultFields
    DEF PreflightResults, Recorded, InProgress, IsTerminal, TerminalStatuses
  <2>2. CASE res \in CancelResults(new)
    BY <1>2, <2>2, NewResultFields DEF CancelResults, Recorded, IsTerminal, TerminalStatuses
  <2> QED
    BY <1>2, <2>1, <2>2
<1>3. ASSUME IsTerminal(new[t].status), ~IsTerminal(rows[t].status)
      PROVE  \E res \in rs2 : res.task = t
  <2>1. \/ new[t].status = "cancelled"
        \/ new[t].status = "failed" /\ InProgress(rows[t])
    BY <1>1, <1>3, PhaseCEnds
  <2>2. \/ NewResult(t, new[t], "cancelled") \in CancelResults(new)
        \/ NewResult(t, new[t], "failed") \in PreflightResults(new)
    BY <1>3, <2>1 DEF CancelResults, PreflightResults
  <2> QED
    BY <2>2, NewResultFields
<1>4. IsTerminal(rows[t].status) => new[t] = rows[t]
  BY <1>1 DEF Settles
<1>5. results \subseteq rs2
  OBVIOUS
<1>6. Agrees(t, new[t], rs2)
  BY <1>2, <1>3, <1>4, <1>5, AgreeStep
<1>7. n = new[t]
  <2>1. InProgress(new[t]) => R1Candidates(t, rs2) = {}
    BY <1>6 DEF Agrees, R1Candidates, InProgress, IsTerminal, TerminalStatuses
  <2>2. R1Statuses(t, new[t], rs2) = {}
    BY <2>1 DEF R1Statuses
  <2> QED
    BY <2>2 DEF R1Outcomes
<1> QED
  BY <1>6, <1>7

\* Every step keeps the files in agreement, or is a fault.
LEMMA AgreementStep ==
    ASSUME IInv, AgreeInv, [Next]_vars
    PROVE  AgreeInv'
<1> SUFFICES ASSUME faults' = 0, NEW t \in Tasks
             PROVE  Agrees(t, rows'[t], results')
  BY DEF AgreeInv, Agrees
<1>0. rows \in [Tasks -> Row] /\ delivered \subseteq Token /\ faults \in Nat
  BY DEF IInv, TypeOK
<1>1. faults' # faults + 1
  BY <1>0
<1>2. faults' = faults => Agrees(t, rows[t], results)
  BY DEF AgreeInv
<1>3. CASE ScanPhaseA
  <2>1. PICK verdict \in PaneVerdicts :
          \E D \in DispatchSets(BeforeDispatch(verdict)) :
             /\ rows' = AfterPhaseA(D, verdict)
             /\ results' = results \cup PhaseAResults(AfterPhaseA(D, verdict))
    BY <1>3 DEF ScanPhaseA
  <2>2. faults' = faults
    BY <1>3 DEF ScanPhaseA
  <2> QED
    BY <1>2, <2>1, <2>2, PhaseAAgrees
<1>4. CASE ScanPhaseC
  <2>1. PICK probe \in ProbeAnswers :
          LET new == AfterPhaseC(probe)
              rs  == results \cup PreflightResults(new) \cup CancelResults(new)
          IN  /\ rows' \in {f \in [Tasks -> UNION {R1Outcomes(u, new[u], rs) : u \in Tasks}] :
                              \A u \in Tasks : f[u] \in R1Outcomes(u, new[u], rs)}
              /\ results' = rs
    BY <1>4 DEF ScanPhaseC
  <2>2. faults' = faults
    BY <1>4 DEF ScanPhaseC
  <2> QED
    BY <1>2, <2>1, <2>2, PhaseCAgrees
<1>5. ASSUME NEW tok \in delivered, NEW status \in ReportStatuses, ResultWrite(tok, status)
      PROVE  Agrees(t, rows'[t], results')
  <2> DEFINE r == rows[tok.task]
  <2>1. /\ InProgress(r) /\ faults' = faults
        /\ results' = results \cup {NewResult(tok.task, r, status)}
        /\ rows' = [rows EXCEPT ![tok.task] = Terminate(r, status)]
    BY <1>5 DEF ResultWrite, ResultAccepted
  <2>2. tok.task \in Tasks
    BY <1>0 DEF Token
  <2>3. CASE t # tok.task
    <3>1. rows'[t] = rows[t]
      BY <1>0, <2>1, <2>3
    <3> QED
      BY <1>2, <2>1, <2>3, <3>1, NewResultFields DEF Agrees
  <2>4. CASE t = tok.task
    <3> DEFINE n == Terminate(r, status)
    <3>1. n.status = status /\ n.epoch = r.epoch /\ rows'[t] = n
      BY <1>0, <2>1, <2>2, <2>4 DEF Terminate, Row
    <3>2. Recorded(status) = status /\ IsTerminal(status) /\ ~IsTerminal(r.status)
      BY <2>1 DEF Recorded, IsTerminal, TerminalStatuses, ReportStatuses, InProgress
    <3>3. \A res \in results' : res.task = t =>
             res \in results \/ (res.epoch = n.epoch /\ res.status = Recorded(n.status))
      BY <2>1, <2>4, <3>1, <3>2, NewResultFields
    <3>4. \E res \in results' : res.task = t
      BY <2>1, <2>4, NewResultFields
    <3> HIDE DEF n, r
    <3>5. IsTerminal(n.status) /\ ~IsTerminal(rows[t].status)
      BY <2>4, <3>1, <3>2 DEF r
    <3> QED
      BY <1>2, <2>1, <3>1, <3>3, <3>4, <3>5, AgreeStep
  <2> QED
    BY <2>3, <2>4
<1>6. CASE UNCHANGED <<rows, results, faults>>
  BY <1>2, <1>6
<1>7. \/ ScanPhaseA \/ ScanPhaseC \/ UNCHANGED <<rows, results, faults>>
      \/ \E tok \in delivered : \E status \in ReportStatuses : ResultWrite(tok, status)
      \/ \E tok \in delivered : Heartbeat(tok)
  BY <1>1 DEF Next, ScanStep, WorkerStep, ScanPhaseAFlushFails, CrashInPhaseA,
       ScanPhaseCFlushFails, CrashInPhaseC, Crash, DispatchTask, ResultWriteOrphaned,
       CrashInResultWrite, CancelRequest, DependencyResolves, Tick, Fault, vars
<1>8. ASSUME NEW tok \in delivered, Heartbeat(tok)
      PROVE  Agrees(t, rows'[t], results')
  <2> DEFINE r == rows[tok.task]
  <2>1. /\ InProgress(r) /\ UNCHANGED <<results, faults>>
        /\ rows' = [rows EXCEPT ![tok.task] = ExtendTaskLease(r, DispatchLease)]
    BY <1>8 DEF Heartbeat
  <2>2. tok.task \in Tasks /\ r \in Row
    BY <1>0 DEF Token
  <2>3. ExtendTaskLease(r, DispatchLease).status = r.status
          /\ ExtendTaskLease(r, DispatchLease).epoch = r.epoch
    BY <2>2 DEF ExtendTaskLease, Row
  <2>4. \/ rows'[t] = rows[t]
        \/ t = tok.task /\ rows'[t] = ExtendTaskLease(r, DispatchLease)
    BY <1>0, <2>1, <2>2
  <2>5. rows'[t].status = rows[t].status /\ rows'[t].epoch = rows[t].epoch
    BY <2>3, <2>4
  <2> QED
    BY <1>2, <2>1, <2>5 DEF Agrees
<1> QED
  BY <1>3, <1>4, <1>5, <1>6, <1>7, <1>8

\* Without faults a row is terminal exactly when a result with its epoch and
\* status is recorded: no step of a scan or a handler, in whatever order,
\* ends a row without its result or records a result beside it.
THEOREM FilesAgree == Spec => []QueueResultAgree
<1>1. Init => AgreeInv
  <2> SUFFICES ASSUME Init, NEW t \in Tasks PROVE Agrees(t, rows[t], results)
    BY DEF AgreeInv
  <2>1. results = {} /\ rows[t].status = "pending"
    BY DEF Init
  <2> QED
    BY <2>1 DEF Agrees, IsTerminal, TerminalStatuses
<1>2. IInv /\ AgreeInv /\ [Next]_vars => AgreeInv'
  BY AgreementStep
<1> QED
  BY <1>1, <1>2, AgreeFact, Invariance, PTL DEF Spec

=============================================================================
