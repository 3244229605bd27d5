---------------------- MODULE WorktreeIntegrationProofs ----------------------
(***************************************************************************)
(* Theorems about WorktreeIntegration, for any number of workers, tasks,   *)
(* commits, recovery commands and git failures.                            *)
(***************************************************************************)
EXTENDS WorktreeIntegration, WellFoundedInduction, TLAPS

-----------------------------------------------------------------------------
(* Types.                                                                  *)

WorkerRow == [status : WorkerStatus, branchHead : Int, integHead : [Workers -> Int],
              attempts : Nat, escalated : BOOLEAN]
File == [integ : IntegrationStatus, failures : Nat, wk : [Workers -> WorkerRow],
         commitFailed : SUBSET Workers]
Tally == [merged : BOOLEAN, skipped : BOOLEAN, conflictSkipped : BOOLEAN,
          conflicts : SUBSET Workers, pre : IntegrationStatus \cup {"none"},
          set : SUBSET Workers]
ScanPc == {"idle", "dispatch", "commit", "merge", "sync", "publish", "apply",
           "reconcile", "r7"}
Scan == [pc : ScanPc, leased : SUBSET Workers, items : SUBSET Workers,
         ok : SUBSET Workers, conflicts : SUBSET Workers, publish : BOOLEAN]

FileTypes ==
    /\ disk \in File
    /\ mu \in {"free", "merge", "resume"}
    /\ IF mu = "free" THEN mem = NoState ELSE mem \in File
    /\ r7 \in File \cup {NoState}
    /\ todo \in SUBSET Workers /\ tally \in Tally
    /\ scan \in Scan

GitTypes ==
    /\ branch \in [Workers -> Nat] /\ intg \in [Workers -> Nat]
    /\ base \in [Workers -> Nat] /\ dirty \in [Workers -> BOOLEAN]
    /\ seen \in [Workers -> [Workers -> Nat]]

TaskTypes ==
    /\ task \in [Workers -> {"none", "queued", "run", "resolve"}]
    /\ left \in [Workers -> Int]
    /\ completed \in BOOLEAN /\ taskFailed \in BOOLEAN
    /\ fresh \in SUBSET Workers /\ sig \in SUBSET Workers
    /\ asked \in SUBSET Workers /\ reporter \in SUBSET Workers
    /\ resumeReq \in BOOLEAN
    /\ faults \in Nat /\ calls \in AllBudgets

TypeInv == FileTypes /\ GitTypes /\ TaskTypes

-----------------------------------------------------------------------------
(* The inductive invariant.                                                *)

Merged(s) == \A w \in Workers : s.wk[w].status = "integrated" => branch[w] = intg[w]
\* What s calls integrated, t does too.
Within(s, t) == \A w \in Workers : s.wk[w].status = "integrated"
                                       => t.wk[w].status = "integrated"

\* The state R7 writes back and the one ResumeMerge writes back are both read
\* before the other changes the file: neither calls a worker integrated that
\* the other may be merging.
IntegratedInv ==
    /\ \A w \in Workers : intg[w] <= branch[w]
    /\ Merged(disk)
    /\ mu # "free" => Merged(mem)
    /\ mu = "resume" => /\ Within(disk, mem)
                        /\ r7 # NoState => Within(r7, mem)
                        /\ \A w \in Workers : w \in todo => mem.wk[w].status # "integrated"
    /\ r7 # NoState => scan.pc = "r7" /\ Within(r7, disk)
    /\ mu = "merge" <=> scan.pc = "merge"

Untroubled(s) == s.commitFailed = {} /\ \A w \in Workers : s.wk[w].status # "failed"

\* Only a git failure makes a commit or a worker fail.
QuietInv ==
    faults = 0 => /\ Untroubled(disk)
                  /\ mu # "free" => Untroubled(mem)
                  /\ r7 # NoState => Untroubled(r7)

\* Nothing is merged before the first task has completed.
StartedInv ==
    ~completed => /\ disk.integ = "created" /\ mu = "free" /\ r7 = NoState
                  /\ scan.items = {} /\ scan.ok = {}

NotStarted(s) ==
    \A w \in Workers : s.wk[w].status = "absent" =>
        ~dirty[w] /\ branch[w] = 0 /\ intg[w] = 0 /\ ~Running(w)

\* A worker without a row has done nothing.
UntouchedInv ==
    /\ NotStarted(disk)
    /\ mu # "free" => NotStarted(mem)
    /\ r7 # NoState => NotStarted(r7)

\* While ResumeMerge works, the file stays in a state to resume from, and until
\* R7 rewrites it, it differs from the copy on pending workers only.
ResumeInv ==
    /\ r7 # NoState => r7.integ \in {"conflict", "partial_merge"}
    /\ mu = "resume" =>
          /\ disk.integ \in ResumeStatus /\ mem.integ \in ResumeStatus
          /\ scan.pc # "idle" =>
                \A w \in Workers : disk.wk[w].status \notin PendingResolution =>
                    w \notin todo /\ mem.wk[w].status = disk.wk[w].status

\* Without git failures each worker of a merge is integrated or counted in the
\* tally once it has been visited.
MergingInv ==
    /\ mu = "merge" => /\ todo \subseteq scan.ok
                       /\ mem.integ = "merging"
                       /\ tally.pre \in {"created", "merged", "partial_merge",
                                         "conflict", "failed"}
    /\ faults = 0 /\ mu = "merge" =>
          /\ ~tally.conflictSkipped /\ ~tally.skipped
          /\ tally.pre = "merged" => Pending(mem) \subseteq tally.conflicts
          /\ \A w \in Workers : w \in todo => mem.wk[w].status \notin PendingResolution
          /\ \A w \in Workers : w \in scan.ok \ todo =>
                \/ mem.wk[w].status \in {"integrated", "absent"}
                \/ w \in tally.conflicts

\* Without git failures the workers a pass is going to merge have no pending
\* conflict, and those it has merged stay integrated until it syncs them.
PassInv ==
    faults = 0 =>
        /\ scan.pc \in {"dispatch", "commit"} =>
              \A w \in Workers : w \in scan.ok => disk.wk[w].status \notin PendingResolution
        /\ scan.pc = "sync" =>
              \A w \in Workers : w \in scan.ok => disk.wk[w].status \in {"integrated", "absent"}

\* Once a publish is selected no task runs until it is carried out: a pass
\* commits and merges what there is, or the integration is no longer merged.
PublishInv ==
    faults = 0 /\ scan.publish =>
        /\ scan.pc \in {"commit", "merge", "sync", "publish"}
        /\ \A w \in Workers : ~Running(w)
        /\ scan.pc = "commit" => /\ disk.integ = "merged"
                                 /\ Present(disk) \subseteq scan.items \cup scan.ok
                                 /\ \A w \in Workers : w \in scan.ok => ~dirty[w]
        /\ scan.pc = "merge" => Present(mem) \subseteq scan.ok /\ tally.pre = "merged"
        /\ scan.pc # "commit" => \A w \in Workers : ~dirty[w]
        /\ scan.pc \in {"sync", "publish"} /\ disk.integ = "merged" =>
              \A w \in Workers : branch[w] = intg[w]

\* Publishing is the end.
EndedInv ==
    Ended => /\ scan.pc = "apply" /\ mu = "free"
             /\ faults = 0 => \A w \in Workers : base[w] = branch[w] /\ ~dirty[w]

IInv ==
    /\ TypeInv /\ IntegratedInv /\ QuietInv /\ StartedInv /\ UntouchedInv
    /\ ResumeInv /\ MergedIsResolved /\ MergingInv /\ PassInv
    /\ PublishInv /\ EndedInv

-----------------------------------------------------------------------------
(* The operators.                                                          *)

Below == {p \in Nat \X Nat : p[1] < p[2]}

\* The smallest worker of a set is one of it.
LEMMA MinIsIn ==
    ASSUME NEW S \in SUBSET Workers, S # {}
    PROVE  Min(S) \in S
<1>1. S \in SUBSET Nat
  BY IntegrationAssumption DEF Workers
<1>2. IsWellFoundedOn(Below, Nat)
  BY NatLessThanWellFounded, Zenon DEF OpToRel, Below
<1>3. PICK x \in S : \A y \in S : <<y, x>> \notin Below
  BY <1>1, <1>2, WFMin
<1>4. \A y \in S : ~(y < x)
  BY <1>1, <1>3 DEF Below
<1>5. \A y \in S : x <= y
  BY <1>1, <1>4
<1> QED
  BY <1>5 DEF Min

\* What an attempt to set a worker's status changes.
LEMMA SettingWorker ==
    ASSUME NEW s \in File, NEW w \in Workers, NEW to \in WorkerStatus
    PROVE  LET t == SetWorkerStatus(s, w, to)
           IN /\ t \in File /\ t.integ = s.integ /\ t.failures = s.failures
              /\ t.commitFailed = s.commitFailed
              /\ \A v \in Workers : v # w => t.wk[v] = s.wk[v]
              /\ t.wk[w].status = IF WorkerTransition(s.wk[w].status, to) THEN to
                                  ELSE s.wk[w].status
<1> DEFINE t == SetWorkerStatus(s, w, to)
           new == to = "conflict" /\ s.wk[w].status \notin PendingResolution
           row == [s.wk[w] EXCEPT !.status = to,
                                  !.attempts = IF new THEN 0 ELSE @,
                                  !.escalated = IF new THEN FALSE ELSE @]
<1>1. s.wk \in [Workers -> WorkerRow] /\ s.wk[w] \in WorkerRow
  BY DEF File
<1>2. row \in WorkerRow /\ row.status = to
  BY <1>1 DEF WorkerRow
<1>3. CASE ~WorkerTransition(s.wk[w].status, to)
  BY <1>3 DEF SetWorkerStatus
<1>4. CASE WorkerTransition(s.wk[w].status, to)
  <2>1. t = [s EXCEPT !.wk = [s.wk EXCEPT ![w] = row]]
    BY <1>1, <1>4, ZenonT(60) DEF SetWorkerStatus, File, WorkerRow
  <2> DEFINE wk == [s.wk EXCEPT ![w] = row]
  <2> HIDE DEF row, t
  <2>2. /\ wk \in [Workers -> WorkerRow] /\ wk[w].status = to
        /\ \A v \in Workers : v # w => wk[v] = s.wk[v]
    BY <1>1, <1>2
  <2>3. t = [s EXCEPT !.wk = wk]
    BY <2>1
  <2> HIDE DEF wk
  <2> QED
    BY <1>4, <2>2, <2>3 DEF File, t
<1> QED
  BY <1>3, <1>4

\* What an attempt to set the integration status changes.
LEMMA SettingIntegration ==
    ASSUME NEW s \in File, NEW to \in IntegrationStatus
    PROVE  LET t == SetIntegrationStatus(s, to)
           IN /\ t \in File /\ t.wk = s.wk /\ t.commitFailed = s.commitFailed
              /\ t.failures = s.failures
              /\ t.integ = IF IntegrationTransition(s.integ, to) THEN to ELSE s.integ
BY DEF SetIntegrationStatus, File

\* What recording a failure changes.
LEMMA RecordingFailure ==
    ASSUME NEW s \in File
    PROVE  LET t == RecordMergeFailure(s)
           IN /\ t \in File /\ t.wk = s.wk /\ t.commitFailed = s.commitFailed
              /\ t.integ \in {s.integ, "failed", "quarantined"}
<1> DEFINE u == [s EXCEPT !.failures = @ + 1]
           to == IF u.failures >= MergeFailureQuarantineThreshold THEN "quarantined" ELSE "failed"
<1>1. u \in File /\ u.wk = s.wk /\ u.commitFailed = s.commitFailed /\ u.integ = s.integ
  BY DEF File
<1>2. to \in {"failed", "quarantined"} /\ to \in IntegrationStatus
  BY DEF IntegrationStatus
<1>3. RecordMergeFailure(s) = SetIntegrationStatus(u, to)
  BY DEF RecordMergeFailure
<1> HIDE DEF u, to
<1> QED
  BY <1>1, <1>2, <1>3, SettingIntegration

\* What giving some workers a status changes.
LEMMA SettingStatus ==
    ASSUME NEW s \in File, NEW ws \in SUBSET Workers, NEW to \in WorkerStatus
    PROVE  LET t == WithStatus(s, ws, to)
           IN /\ t \in File /\ t.integ = s.integ /\ t.failures = s.failures
              /\ t.commitFailed = s.commitFailed
              /\ \A v \in Workers : t.wk[v].status = IF v \in ws THEN to ELSE s.wk[v].status
<1> DEFINE wk == [w \in Workers |-> IF w \in ws THEN [s.wk[w] EXCEPT !.status = to]
                                    ELSE s.wk[w]]
<1>1. \A w \in Workers : s.wk[w] \in WorkerRow
  BY DEF File
<1>2. \A w \in Workers : /\ wk[w] \in WorkerRow
                         /\ wk[w].status = IF w \in ws THEN to ELSE s.wk[w].status
  BY <1>1 DEF WorkerRow
<1>3. wk \in [Workers -> WorkerRow]
  BY <1>2
<1>4. WithStatus(s, ws, to) = [s EXCEPT !.wk = wk]
  BY DEF WithStatus
<1> HIDE DEF wk
<1> QED
  BY <1>2, <1>3, <1>4 DEF File

\* What committing some workers changes.
LEMMA Committing ==
    ASSUME TypeInv, NEW ws \in SUBSET Workers, Committed(ws)
    PROVE  /\ disk' \in File /\ disk'.integ = disk.integ
           /\ disk'.commitFailed = disk.commitFailed \ ws
           /\ \A w \in Workers : disk'.wk[w].status =
                 IF w \in ws /\ dirty[w] THEN "committed" ELSE disk.wk[w].status
           /\ branch' \in [Workers -> Nat] /\ dirty' \in [Workers -> BOOLEAN]
           /\ \A w \in Workers :
                 /\ branch'[w] = IF w \in ws /\ dirty[w] THEN branch[w] + 1 ELSE branch[w]
                 /\ dirty'[w] = IF w \in ws THEN FALSE ELSE dirty[w]
           /\ fresh' \in SUBSET Workers
           /\ UNCHANGED <<intg, seen, base>>
<1> DEFINE D == {w \in ws : dirty[w]}
           t == WithStatus(disk, D, "committed")
<1>1. disk \in File /\ D \in SUBSET Workers /\ "committed" \in WorkerStatus
  BY DEF TypeInv, FileTypes, WorkerStatus
<1>2. disk' = [t EXCEPT !.commitFailed = @ \ ws]
  BY DEF Committed
<1>3. /\ t \in File /\ t.integ = disk.integ /\ t.commitFailed = disk.commitFailed
      /\ \A v \in Workers : t.wk[v].status = IF v \in D THEN "committed" ELSE disk.wk[v].status
  <2> HIDE DEF D
  <2> QED
    BY <1>1, SettingStatus
<1> HIDE DEF t
<1>4. /\ disk' \in File /\ disk'.integ = disk.integ
      /\ disk'.commitFailed = disk.commitFailed \ ws
      /\ \A w \in Workers : disk'.wk[w].status =
            IF w \in ws /\ dirty[w] THEN "committed" ELSE disk.wk[w].status
  BY <1>2, <1>3 DEF File
<1>5. branch' = [w \in Workers |-> IF w \in ws /\ dirty[w] THEN branch[w] + 1 ELSE branch[w]]
  BY Zenon DEF Committed
<1>6. branch' \in [Workers -> Nat]
      /\ \A w \in Workers :
            branch'[w] = IF w \in ws /\ dirty[w] THEN branch[w] + 1 ELSE branch[w]
  BY <1>5 DEF TypeInv, GitTypes
<1>7. dirty' = [w \in Workers |-> IF w \in ws THEN FALSE ELSE dirty[w]]
  BY Zenon DEF Committed
<1>8. dirty' \in [Workers -> BOOLEAN]
      /\ \A w \in Workers : dirty'[w] = IF w \in ws THEN FALSE ELSE dirty[w]
  BY <1>7 DEF TypeInv, GitTypes
<1>9. fresh' \in SUBSET Workers /\ UNCHANGED <<intg, seen, base>>
  BY DEF Committed, TypeInv, TaskTypes
<1> QED
  BY <1>4, <1>6, <1>8, <1>9

\* What the transition tables allow.
LEMMA WorkerTransitions ==
    \A from \in WorkerStatus, to \in WorkerStatus :
        /\ WorkerTransition(from, to) => from \notin {"absent", "failed"} /\ to # "absent"
        /\ WorkerTransition(from, "resolving") => from = "conflict"
        /\ from \in {"created", "active", "committed", "integrated"} =>
              /\ WorkerTransition(from, "committed") /\ WorkerTransition(from, "conflict")
        /\ from \in {"created", "active", "committed"} => WorkerTransition(from, "integrated")
        /\ from \in PendingResolution => WorkerTransition(from, "active")
<1> TAKE from \in WorkerStatus, to \in WorkerStatus
<1>1. from \in {"absent", "failed"} => ~WorkerTransition(from, to)
  BY DEF WorkerTransition
<1>2. from \notin {"absent", "failed"} /\ WorkerTransition(from, to) => to # "absent"
  BY DEF WorkerTransition, WorkerStatus
<1>3. WorkerTransition(from, "resolving") => from = "conflict"
  BY DEF WorkerTransition, WorkerStatus
<1>4. from \in {"created", "active", "committed", "integrated"} =>
        WorkerTransition(from, "committed") /\ WorkerTransition(from, "conflict")
  BY DEF WorkerTransition
<1>5. from \in {"created", "active", "committed"} => WorkerTransition(from, "integrated")
  BY DEF WorkerTransition
<1>6. from \in PendingResolution => WorkerTransition(from, "active")
  BY DEF WorkerTransition, PendingResolution
<1> QED
  BY <1>1, <1>2, <1>3, <1>4, <1>5, <1>6

LEMMA IntegrationTransitions ==
    \A from \in IntegrationStatus, to \in IntegrationStatus :
        /\ IntegrationTransition(from, to) =>
              from \notin {"published", "quarantined"} /\ to \notin {"published", "created"}
        /\ IntegrationTransition(from, "merging") =>
              from \in {"created", "merged", "partial_merge", "conflict", "failed"}
        /\ IntegrationTransition(from, "merged") => from = "merging"
        /\ to \in {"merged", "partial_merge", "conflict"} => IntegrationTransition("merging", to)
BY DEF IntegrationTransition, IntegrationStatus

\* How MergeToIntegration ends.
LEMMA MergeEnds ==
    ASSUME TypeInv, mu = "merge", mem.integ = "merging",
           tally.pre \in {"created", "merged", "partial_merge", "conflict", "failed"}
    PROVE  /\ MergeOutcome \in File /\ MergeOutcome.wk = mem.wk
           /\ MergeOutcome.commitFailed = mem.commitFailed
           /\ MergeOutcome.integ \in {"created", "merged", "partial_merge", "conflict", "failed"}
           /\ MergeOutcome.integ = "merged" =>
                 /\ tally.conflicts = {} /\ ~tally.skipped
                 /\ tally.pre = "merged" \/ (~tally.conflictSkipped /\ Pending(mem) = {})
<1> DEFINE s == [mem EXCEPT !.failures = 0]
           u == [s EXCEPT !.integ = tally.pre]
<1>1. mem \in File
  BY DEF TypeInv, FileTypes
<1>2. /\ s \in File /\ s.wk = mem.wk /\ s.commitFailed = mem.commitFailed
      /\ s.integ = "merging"
  BY <1>1 DEF File
<1>3. /\ u \in File /\ u.wk = mem.wk /\ u.commitFailed = mem.commitFailed
      /\ u.integ = tally.pre
  BY <1>1 DEF File, IntegrationStatus
<1>4. ASSUME NEW to \in {"merged", "partial_merge", "conflict"}
      PROVE  LET t == SetIntegrationStatus(s, to)
             IN t \in File /\ t.wk = mem.wk /\ t.commitFailed = mem.commitFailed /\ t.integ = to
  <2>1. to \in IntegrationStatus /\ IntegrationTransition("merging", to)
    BY IntegrationTransitions DEF IntegrationStatus
  <2> HIDE DEF s
  <2> QED
    BY <1>2, <2>1, SettingIntegration
<1>5. \/ MergeOutcome = u
         /\ tally.conflicts = {} /\ ~tally.skipped
      \/ MergeOutcome = SetIntegrationStatus(s, "merged")
         /\ tally.conflicts = {} /\ ~tally.skipped
         /\ ~tally.conflictSkipped /\ Pending(mem) = {}
      \/ MergeOutcome = SetIntegrationStatus(s, "partial_merge")
      \/ MergeOutcome = SetIntegrationStatus(s, "conflict")
  <2> DEFINE quiet == tally.conflicts = {} /\ ~tally.skipped
             waiting == tally.conflictSkipped \/ Pending(mem) # {}
  <2>1. MergeOutcome =
          CASE quiet /\ ~waiting /\ ~tally.merged -> u
            [] quiet /\ ~waiting /\ tally.merged  -> SetIntegrationStatus(s, "merged")
            [] quiet /\ waiting /\ ~tally.merged  -> u
            [] ~(quiet /\ ~waiting) /\ tally.merged -> SetIntegrationStatus(s, "partial_merge")
            [] OTHER -> SetIntegrationStatus(s, "conflict")
    BY DEF MergeOutcome
  <2> HIDE DEF u, s
  <2> QED
    BY <2>1
<1> HIDE DEF s, u
<1> QED
  BY <1>3, <1>4, <1>5

\* How ResumeMerge ends: no worker changes its status any more, and it calls
\* the integration merged only when every worker is integrated.
LEMMA ResumeEnds ==
    ASSUME TypeInv, mu = "resume", mem.integ \in ResumeStatus, Merged(mem), NotStarted(mem)
    PROVE  /\ ResumeOutcome \in File
           /\ \A w \in Workers : ResumeOutcome.wk[w].status = mem.wk[w].status
           /\ ResumeOutcome.commitFailed = mem.commitFailed
           /\ ResumeOutcome.integ \notin {"published", "created"}
           /\ ResumeOutcome.integ = "merged" =>
                 \A w \in Workers : mem.wk[w].status \in {"integrated", "absent"}
<1> DEFINE progress == tally.set = {} \/ \E w \in tally.set :
                                            mem.wk[w].status \in {"active", "integrated"}
           s == IF progress THEN [mem EXCEPT !.failures = 0] ELSE RecordMergeFailure(mem)
           terminal == \A w \in Present(s) : s.wk[w].status = "integrated"
           bad == {w \in Workers : branch[w] # intg[w]}
           m == SetIntegrationStatus(SetIntegrationStatus(s, "merging"), "merged")
           f == RecordMergeFailure([s EXCEPT !.wk = [w \in Workers |->
                        IF w \in bad THEN SetWorkerStatus(s, w, "conflict").wk[w]
                        ELSE @[w]]])
           t == CASE ~terminal \/ tally.set = {} -> s
                  [] terminal /\ tally.set # {} /\ bad # {} -> f
                  [] OTHER -> m
<1>1. ResumeOutcome = IF t.integ \in {"merged", "quarantined"} THEN t
                      ELSE SetIntegrationStatus(t, "failed")
  BY DEF ResumeOutcome
<1>2. mem \in File /\ mem.integ \in {"conflict", "partial_merge", "failed"}
  BY DEF TypeInv, FileTypes, ResumeStatus
<1>3. /\ s \in File /\ s.wk = mem.wk /\ s.commitFailed = mem.commitFailed
      /\ s.integ \in {"conflict", "partial_merge", "failed", "quarantined"}
  <2>1. LET u == [mem EXCEPT !.failures = 0]
        IN u \in File /\ u.wk = mem.wk /\ u.commitFailed = mem.commitFailed /\ u.integ = mem.integ
    BY <1>2 DEF File
  <2> QED
    BY <1>2, <2>1, RecordingFailure
<1>4. terminal => \A w \in Workers : s.wk[w].status \in {"integrated", "absent"}
  BY DEF Present
<1> HIDE DEF s
<1>5. terminal => bad = {}
  BY <1>3, <1>4 DEF Merged, NotStarted
<1>6. {"merging", "merged", "failed"} \subseteq IntegrationStatus
  BY DEF IntegrationStatus
<1>7. /\ m \in File /\ m.wk = s.wk /\ m.commitFailed = s.commitFailed
      /\ m.integ \in {s.integ, "merging", "merged"}
  <2> DEFINE u == SetIntegrationStatus(s, "merging")
  <2>1. /\ u \in File /\ u.wk = s.wk /\ u.commitFailed = s.commitFailed
        /\ u.integ \in {s.integ, "merging"}
    BY <1>3, <1>6, SettingIntegration
  <2> HIDE DEF u
  <2>2. m = SetIntegrationStatus(u, "merged")
    BY DEF u
  <2> HIDE DEF m
  <2> QED
    BY <1>6, <2>1, <2>2, SettingIntegration
<1> HIDE DEF m, f, bad, terminal
<1>8. t = s \/ (t = m /\ terminal)
  BY <1>5
<1> HIDE DEF t
<1>9. /\ t \in File /\ t.wk = s.wk /\ t.commitFailed = s.commitFailed
      /\ t.integ \in {"conflict", "partial_merge", "failed", "quarantined", "merging", "merged"}
      /\ t.integ = "merged" => terminal
  BY <1>3, <1>7, <1>8
<1>10. /\ SetIntegrationStatus(t, "failed") \in File
       /\ SetIntegrationStatus(t, "failed").wk = s.wk
       /\ SetIntegrationStatus(t, "failed").commitFailed = s.commitFailed
       /\ SetIntegrationStatus(t, "failed").integ \in {t.integ, "failed"}
  BY <1>6, <1>9, SettingIntegration
<1> QED
  BY <1>1, <1>3, <1>4, <1>9, <1>10

-----------------------------------------------------------------------------
(* The steps of the workers and of the Planner.                             *)

\* A worker edits its worktree.
LEMMA EditKeeps ==
    ASSUME IInv, NEW w \in Workers, Edit(w)
    PROVE  IInv'
<1>1. /\ ~Ended /\ Running(w)
      /\ dirty' = [dirty EXCEPT ![w] = TRUE]
      /\ UNCHANGED <<disk, mem, mu, todo, tally, branch, intg, seen, base, task, left,
                     completed, taskFailed, fresh, sig, asked, reporter, resumeReq,
                     scan, r7, report, faults, calls>>
  BY DEF Edit, muVars, gitVars, taskVars, askVars, hookVars
<1>2. TypeInv'
  <2>1. FileTypes'
    BY <1>1 DEF IInv, TypeInv, FileTypes
  <2>2. GitTypes'
    BY <1>1 DEF IInv, TypeInv, GitTypes
  <2>3. TaskTypes'
    BY <1>1 DEF IInv, TypeInv, TaskTypes
  <2> QED
    BY <2>1, <2>2, <2>3 DEF TypeInv
<1>3. IntegratedInv'
  BY <1>1 DEF IInv, IntegratedInv, Merged, Within
<1>4. QuietInv'
  BY <1>1 DEF IInv, QuietInv, Untroubled
<1>5. StartedInv'
  BY <1>1 DEF IInv, StartedInv
<1>6. UntouchedInv'
  BY <1>1 DEF IInv, UntouchedInv, NotStarted, Running
<1>7. ResumeInv'
  BY <1>1 DEF IInv, ResumeInv
<1>8. MergedIsResolved'
  BY <1>1 DEF IInv, MergedIsResolved, Pending
<1>9. MergingInv'
  BY <1>1 DEF IInv, MergingInv, Pending
<1>10. PassInv'
  BY <1>1 DEF IInv, PassInv
<1>11. PublishInv'
  BY <1>1 DEF IInv, PublishInv, Present, Running
<1>12. EndedInv'
  BY <1>1 DEF IInv, EndedInv, Ended
<1> QED
  BY <1>2, <1>3, <1>4, <1>5, <1>6, <1>7, <1>8, <1>9, <1>10, <1>11, <1>12 DEF
     IInv

\* A task completes.
LEMMA FinishTaskKeeps ==
    ASSUME IInv, NEW w \in Workers, FinishTask(w)
    PROVE  IInv'
<1>1. /\ ~Ended /\ task' = [task EXCEPT ![w] = "none"] /\ completed' = TRUE
      /\ fresh' = fresh \cup ({w} \cap disk.commitFailed)
      /\ reporter' = reporter \cup {w}
      /\ UNCHANGED <<disk, mem, mu, todo, tally, branch, dirty, intg, seen, base, left,
                     taskFailed, sig, asked, resumeReq, scan, r7, report, faults, calls>>
  BY DEF FinishTask, muVars, gitVars, taskVars, askVars, hookVars
<1>2. TypeInv'
  <2>1. FileTypes'
    BY <1>1 DEF IInv, TypeInv, FileTypes
  <2>2. GitTypes'
    BY <1>1 DEF IInv, TypeInv, GitTypes
  <2>3. TaskTypes'
    BY <1>1 DEF IInv, TypeInv, TaskTypes
  <2> QED
    BY <2>1, <2>2, <2>3 DEF TypeInv
<1>3. IntegratedInv'
  BY <1>1 DEF IInv, IntegratedInv, Merged, Within
<1>4. QuietInv'
  BY <1>1 DEF IInv, QuietInv, Untroubled
<1>5. StartedInv'
  BY <1>1 DEF IInv, StartedInv
<1>6. UntouchedInv'
  BY <1>1 DEF IInv, UntouchedInv, NotStarted, Running, TypeInv, TaskTypes
<1>7. ResumeInv'
  BY <1>1 DEF IInv, ResumeInv
<1>8. MergedIsResolved'
  BY <1>1 DEF IInv, MergedIsResolved, Pending
<1>9. MergingInv'
  BY <1>1 DEF IInv, MergingInv, Pending
<1>10. PassInv'
  BY <1>1 DEF IInv, PassInv
<1>11. PublishInv'
  BY <1>1 DEF IInv, PublishInv, Present, Running, TypeInv, TaskTypes
<1>12. EndedInv'
  BY <1>1 DEF IInv, EndedInv, Ended
<1> QED
  BY <1>2, <1>3, <1>4, <1>5, <1>6, <1>7, <1>8, <1>9, <1>10, <1>11, <1>12 DEF
     IInv

\* The Planner adds a resolution task.
LEMMA PlannerAddsResolutionKeeps ==
    ASSUME IInv, NEW w \in Workers, PlannerAddsResolution(w)
    PROVE  IInv'
<1>1. /\ ~Ended /\ task' = [task EXCEPT ![w] = "queued"]
      /\ asked' = asked \ {w} /\ sig' = sig \ {w}
      /\ UNCHANGED <<disk, mem, mu, todo, tally, branch, dirty, intg, seen, base, left,
                     completed, taskFailed, fresh, reporter, resumeReq, scan, r7,
                     report, faults, calls>>
  BY DEF PlannerAddsResolution, muVars, gitVars, taskVars, askVars, hookVars
<1>2. TypeInv'
  <2>1. FileTypes'
    BY <1>1 DEF IInv, TypeInv, FileTypes
  <2>2. GitTypes'
    BY <1>1 DEF IInv, TypeInv, GitTypes
  <2>3. TaskTypes'
    BY <1>1 DEF IInv, TypeInv, TaskTypes
  <2> QED
    BY <2>1, <2>2, <2>3 DEF TypeInv
<1>3. IntegratedInv'
  BY <1>1 DEF IInv, IntegratedInv, Merged, Within
<1>4. QuietInv'
  BY <1>1 DEF IInv, QuietInv, Untroubled
<1>5. StartedInv'
  BY <1>1 DEF IInv, StartedInv
<1>6. UntouchedInv'
  BY <1>1 DEF IInv, UntouchedInv, NotStarted, Running, TypeInv, TaskTypes
<1>7. ResumeInv'
  BY <1>1 DEF IInv, ResumeInv
<1>8. MergedIsResolved'
  BY <1>1 DEF IInv, MergedIsResolved, Pending
<1>9. MergingInv'
  BY <1>1 DEF IInv, MergingInv, Pending
<1>10. PassInv'
  BY <1>1 DEF IInv, PassInv
<1>11. PublishInv'
  BY <1>1 DEF IInv, PublishInv, Present, Running, TypeInv, TaskTypes
<1>12. EndedInv'
  BY <1>1 DEF IInv, EndedInv, Ended
<1> QED
  BY <1>2, <1>3, <1>4, <1>5, <1>6, <1>7, <1>8, <1>9, <1>10, <1>11, <1>12 DEF
     IInv

\* A hook or a recovery command asks for ResumeMerge, or it refuses.
LEMMA RecoveryKeeps ==
    ASSUME IInv, UNCHANGED <<disk, mem, mu, todo, tally, branch, dirty, intg, seen, base, task,
                      left, completed, taskFailed, fresh, sig, asked, scan, r7, report,
                      faults>>,
           reporter' \in SUBSET Workers, resumeReq' \in BOOLEAN, calls' \in AllBudgets
    PROVE  IInv'
<1>1. TypeInv'
  <2>1. FileTypes'
    BY DEF IInv, TypeInv, FileTypes
  <2>2. GitTypes'
    BY DEF IInv, TypeInv, GitTypes
  <2>3. TaskTypes'
    BY DEF IInv, TypeInv, TaskTypes
  <2> QED
    BY <2>1, <2>2, <2>3 DEF TypeInv
<1>2. IntegratedInv'
  BY DEF IInv, IntegratedInv, Merged, Within
<1>3. QuietInv'
  BY DEF IInv, QuietInv, Untroubled
<1>4. StartedInv'
  BY DEF IInv, StartedInv
<1>5. UntouchedInv'
  BY DEF IInv, UntouchedInv, NotStarted, Running
<1>6. ResumeInv'
  BY DEF IInv, ResumeInv
<1>7. MergedIsResolved'
  BY DEF IInv, MergedIsResolved, Pending
<1>8. MergingInv'
  BY DEF IInv, MergingInv, Pending
<1>9. PassInv'
  BY DEF IInv, PassInv
<1>10. PublishInv'
  BY DEF IInv, PublishInv, Present, Running
<1>11. EndedInv'
  BY DEF IInv, EndedInv, Ended
<1> QED
  BY <1>1, <1>2, <1>3, <1>4, <1>5, <1>6, <1>7, <1>8, <1>9, <1>10, <1>11 DEF
     IInv

\* A task fails: a worker that was resolving is in conflict again.
LEMMA FailTaskKeeps ==
    ASSUME IInv, NEW w \in Workers, FailTask(w)
    PROVE  IInv'
<1>1. /\ ~Ended /\ Running(w) /\ mu = "free"
      /\ task' = [task EXCEPT ![w] = "none"] /\ taskFailed' = TRUE
      /\ UNCHANGED <<mem, mu, todo, tally, branch, dirty, intg, seen, base, left,
                     completed, sig, asked, reporter, resumeReq, scan, r7, report,
                     faults, calls>>
  BY DEF FailTask, muVars, gitVars, taskVars, askVars, hookVars
<1>2. /\ disk' \in File /\ disk'.integ = disk.integ
      /\ disk'.commitFailed = disk.commitFailed
      /\ \A v \in Workers : \/ disk'.wk[v].status = disk.wk[v].status
                             \/ /\ disk.wk[v].status = "resolving"
                                /\ disk'.wk[v].status = "conflict"
  <2>1. disk \in File /\ "conflict" \in WorkerStatus
    BY DEF IInv, TypeInv, FileTypes, WorkerStatus
  <2>2. CASE disk' = disk
    BY <2>1, <2>2
  <2>3. CASE /\ disk.wk[w].status = "resolving"
             /\ disk' = [disk EXCEPT !.wk[w].status = "conflict"]
    <3> DEFINE row == [disk.wk[w] EXCEPT !.status = "conflict"]
               wk == [disk.wk EXCEPT ![w] = row]
    <3>1. disk.wk \in [Workers -> WorkerRow] /\ disk.wk[w] \in WorkerRow
      BY <2>1 DEF File
    <3>2. row \in WorkerRow /\ row.status = "conflict"
      BY <2>1, <3>1 DEF WorkerRow
    <3>3. disk' = [disk EXCEPT !.wk = wk]
      BY <2>3
    <3> HIDE DEF row
    <3>4. /\ wk \in [Workers -> WorkerRow] /\ wk[w].status = "conflict"
          /\ \A v \in Workers : v # w => wk[v] = disk.wk[v]
      BY <3>1, <3>2
    <3> HIDE DEF wk
    <3> QED
      BY <2>1, <2>3, <3>3, <3>4 DEF File
  <2> QED
    BY <2>2, <2>3 DEF FailTask
<1>3. fresh' \in SUBSET Workers
  BY DEF FailTask, IInv, TypeInv, TaskTypes
<1>4. Pending(disk)' = Pending(disk)
  BY <1>2 DEF Pending, PendingResolution
<1>5. TypeInv'
  <2>1. FileTypes'
    BY <1>1, <1>2, <1>3, <1>4 DEF IInv, TypeInv, FileTypes
  <2>2. GitTypes'
    BY <1>1, <1>2, <1>3, <1>4 DEF IInv, TypeInv, GitTypes
  <2>3. TaskTypes'
    BY <1>1, <1>2, <1>3, <1>4 DEF IInv, TypeInv, TaskTypes
  <2> QED
    BY <2>1, <2>2, <2>3 DEF TypeInv
<1>6. IntegratedInv'
  BY <1>1, <1>2, <1>3, <1>4 DEF IInv, IntegratedInv, Merged, Within
<1>7. QuietInv'
  BY <1>1, <1>2, <1>3, <1>4 DEF IInv, QuietInv, Untroubled
<1>8. StartedInv'
  BY <1>1, <1>2, <1>3, <1>4 DEF IInv, StartedInv
<1>9. UntouchedInv'
  BY <1>1, <1>2, <1>3, <1>4 DEF IInv, UntouchedInv, NotStarted, Running,
     TypeInv, TaskTypes, FileTypes
<1>10. ResumeInv'
  BY <1>1, <1>2, <1>3, <1>4 DEF IInv, ResumeInv, PendingResolution
<1>11. MergedIsResolved'
  BY <1>1, <1>2, <1>4 DEF IInv, MergedIsResolved
<1>12. MergingInv'
  BY <1>1, <1>2, <1>3, <1>4 DEF IInv, MergingInv, Pending
<1>13. PassInv'
  BY <1>1, <1>2 DEF IInv, PassInv, PendingResolution
<1>14. PublishInv'
  BY <1>1, <1>2, <1>3, <1>4 DEF IInv, PublishInv, Present, Running
<1>15. EndedInv'
  BY <1>1, <1>2, <1>3, <1>4 DEF IInv, EndedInv, Ended
<1> QED
  BY <1>5, <1>6, <1>7, <1>8, <1>9, <1>10, <1>11, <1>12, <1>13, <1>14, <1>15 DEF
     IInv

-----------------------------------------------------------------------------
(* The dispatch and Phase A.                                                *)

\* What handing a worktree to a task changes.
LEMMA Refreshing ==
    ASSUME IInv, NEW w \in Workers, Refresh(w)
    PROVE  /\ disk' \in File /\ disk'.integ = disk.integ
           /\ disk'.commitFailed = disk.commitFailed
           /\ branch' \in [Workers -> Nat] /\ dirty' \in [Workers -> BOOLEAN]
           /\ seen' \in [Workers -> [Workers -> Nat]] /\ fresh' \in SUBSET Workers
           /\ \A v \in Workers : v # w => /\ branch'[v] = branch[v] /\ dirty'[v] = dirty[v]
                                         /\ disk'.wk[v] = disk.wk[v]
           /\ disk'.wk[w].status # "absent" /\ intg[w] <= branch'[w]
           /\ \/ disk'.wk[w].status = disk.wk[w].status
              \/ /\ disk'.wk[w].status \in {"created", "committed"}
                 /\ disk.wk[w].status \notin PendingResolution
           /\ disk'.wk[w].status = "integrated" => branch'[w] = branch[w]
<1> DEFINE status == disk.wk[w].status
           tip == IF dirty[w] THEN branch[w] + 1 ELSE branch[w]
           diverged == tip > intg[w] /\ seen[w] # intg
<1>1. /\ disk \in File /\ disk.wk[w] \in WorkerRow /\ status \in WorkerStatus
      /\ branch \in [Workers -> Nat] /\ intg \in [Workers -> Nat]
      /\ dirty \in [Workers -> BOOLEAN] /\ seen \in [Workers -> [Workers -> Nat]]
      /\ fresh \in SUBSET Workers
  BY DEF IInv, TypeInv, FileTypes, GitTypes, TaskTypes, File, WorkerRow
<1>2. intg[w] <= branch[w] /\ (status = "integrated" => branch[w] = intg[w])
  BY DEF IInv, IntegratedInv, Merged
<1>3. CASE status \in PendingResolution
  <2>1. UNCHANGED <<disk, branch, dirty, seen, fresh>>
    BY <1>3 DEF Refresh
  <2>2. status \notin {"absent", "integrated"}
    BY <1>3 DEF PendingResolution
  <2> QED
    BY <1>1, <1>2, <2>1, <2>2
<1>4. CASE status \notin PendingResolution
  <2>1. /\ branch' = [branch EXCEPT ![w] = IF diverged THEN intg[w] ELSE tip]
        /\ dirty' = [dirty EXCEPT ![w] = FALSE]
        /\ seen' = [seen EXCEPT ![w] = intg]
        /\ disk' = IF status = "absent" THEN [disk EXCEPT !.wk[w].status = "created"]
                   ELSE IF dirty[w] THEN SetWorkerStatus(disk, w, "committed")
                   ELSE disk
        /\ fresh' = IF disk' = disk THEN fresh ELSE {}
    BY <1>4 DEF Refresh
  <2>2. /\ branch' \in [Workers -> Nat] /\ dirty' \in [Workers -> BOOLEAN]
        /\ seen' \in [Workers -> [Workers -> Nat]] /\ fresh' \in SUBSET Workers
        /\ \A v \in Workers : v # w => branch'[v] = branch[v] /\ dirty'[v] = dirty[v]
        /\ branch'[w] = IF diverged THEN intg[w] ELSE tip
    BY <1>1, <2>1
  <2>3. CASE status = "absent"
    <3>1. disk' = [disk EXCEPT !.wk[w].status = "created"]
      BY <2>1, <2>3
    <3>2. /\ disk' \in File /\ disk'.integ = disk.integ /\ disk'.wk[w].status = "created"
          /\ disk'.commitFailed = disk.commitFailed
          /\ \A v \in Workers : v # w => disk'.wk[v] = disk.wk[v]
      BY <1>1, <3>1 DEF File, WorkerRow, WorkerStatus
    <3> QED
      BY <1>1, <1>2, <1>4, <2>2, <3>2
  <2>4. CASE status # "absent" /\ dirty[w]
    <3>1. disk' = SetWorkerStatus(disk, w, "committed") /\ "committed" \in WorkerStatus
      BY <2>1, <2>4 DEF WorkerStatus
    <3>2. status = "integrated" => WorkerTransition(status, "committed")
      BY WorkerTransitions, <1>1
    <3>3. /\ disk' \in File /\ disk'.integ = disk.integ
          /\ disk'.commitFailed = disk.commitFailed
          /\ \A v \in Workers : v # w => disk'.wk[v] = disk.wk[v]
          /\ disk'.wk[w].status = IF WorkerTransition(status, "committed") THEN "committed"
                                  ELSE status
      BY <1>1, <3>1, SettingWorker
    <3> QED
      BY <1>1, <1>2, <1>4, <2>2, <2>4, <3>2, <3>3
  <2>5. CASE status # "absent" /\ ~dirty[w]
    <3>1. disk' = disk /\ tip = branch[w]
      BY <2>1, <2>5
    <3>2. status = "integrated" => branch'[w] = branch[w]
      BY <1>1, <1>2, <2>2, <3>1
    <3> QED
      BY <1>1, <1>2, <2>2, <2>5, <3>1, <3>2
  <2> QED
    BY <2>3, <2>4, <2>5
<1> QED
  BY <1>3, <1>4

\* A task starts in the worktree of its worker.
LEMMA StartTaskKeeps ==
    ASSUME IInv, NEW w \in Workers, StartTask(w)
    PROVE  IInv'
<1>1. /\ ~Ended /\ scan.pc = "dispatch" /\ mu = "free" /\ Refresh(w)
      /\ scan' = [scan EXCEPT !.leased = @ \ {w}]
      /\ UNCHANGED <<mem, mu, todo, tally, intg, base, completed, taskFailed, sig, asked,
                     reporter, resumeReq, r7, report, faults, calls>>
  BY DEF StartTask, muVars, gitVars, taskVars, askVars, hookVars
<1>2. /\ task' \in [Workers -> {"none", "queued", "run", "resolve"}]
      /\ left' \in [Workers -> Int]
      /\ \A v \in Workers : v # w => task'[v] = task[v]
  BY DEF StartTask, IInv, TypeInv, TaskTypes
<1>3. /\ scan' \in Scan /\ scan'.pc = scan.pc /\ scan'.items = scan.items
      /\ scan'.ok = scan.ok /\ scan'.publish = scan.publish
  BY <1>1 DEF IInv, TypeInv, FileTypes, Scan
<1>4. /\ disk' \in File /\ disk'.integ = disk.integ
      /\ disk'.commitFailed = disk.commitFailed
      /\ branch' \in [Workers -> Nat] /\ dirty' \in [Workers -> BOOLEAN]
      /\ seen' \in [Workers -> [Workers -> Nat]] /\ fresh' \in SUBSET Workers
      /\ \A v \in Workers : v # w => /\ branch'[v] = branch[v] /\ dirty'[v] = dirty[v]
                                    /\ disk'.wk[v] = disk.wk[v]
      /\ disk'.wk[w].status # "absent" /\ intg[w] <= branch'[w]
      /\ \/ disk'.wk[w].status = disk.wk[w].status
         \/ /\ disk'.wk[w].status \in {"created", "committed"}
            /\ disk.wk[w].status \notin PendingResolution
      /\ disk'.wk[w].status = "integrated" => branch'[w] = branch[w]
  BY <1>1, Refreshing
<1>5. r7 = NoState
  BY <1>1 DEF IInv, IntegratedInv
<1>6. Merged(disk)' /\ \A v \in Workers : intg[v] <= branch'[v]
  <2>1. \A v \in Workers : /\ intg[v] <= branch[v]
                           /\ disk.wk[v].status = "integrated" => branch[v] = intg[v]
    BY DEF IInv, IntegratedInv, Merged
  <2>2. \A v \in Workers : v # w => /\ intg[v] <= branch'[v]
                                    /\ disk'.wk[v].status = "integrated" => branch'[v] = intg[v]
    BY <1>4, <2>1
  <2>3. /\ intg[w] <= branch'[w]
        /\ disk'.wk[w].status = "integrated" => branch'[w] = intg[w]
    BY <1>4, <2>1
  <2> QED
    BY <1>1, <2>2, <2>3 DEF Merged
<1>7. Pending(disk)' = Pending(disk)
  BY <1>4 DEF Pending, PendingResolution
<1>8. TypeInv'
  <2>1. FileTypes'
    BY <1>1, <1>2, <1>3, <1>4, <1>5, <1>6, <1>7 DEF IInv, TypeInv, FileTypes
  <2>2. GitTypes'
    BY <1>1, <1>2, <1>3, <1>4, <1>5, <1>6, <1>7 DEF IInv, TypeInv, GitTypes
  <2>3. TaskTypes'
    BY <1>1, <1>2, <1>3, <1>4, <1>5, <1>6, <1>7 DEF IInv, TypeInv, TaskTypes
  <2> QED
    BY <2>1, <2>2, <2>3 DEF TypeInv
<1>9. IntegratedInv'
  BY <1>1, <1>3, <1>5, <1>6 DEF IInv, IntegratedInv
<1>10. QuietInv'
  BY <1>1, <1>2, <1>3, <1>4, <1>5, <1>6, <1>7 DEF IInv, QuietInv, Untroubled
<1>11. StartedInv'
  BY <1>1, <1>3, <1>4 DEF IInv, StartedInv
<1>12. UntouchedInv'
  BY <1>1, <1>2, <1>3, <1>4, <1>5, <1>6, <1>7 DEF IInv, UntouchedInv,
     NotStarted, Running
<1>13. ResumeInv'
  BY <1>1, <1>2, <1>3, <1>4, <1>5, <1>6, <1>7 DEF IInv, ResumeInv
<1>14. MergedIsResolved'
  BY <1>1, <1>4, <1>7 DEF IInv, MergedIsResolved
<1>15. MergingInv'
  BY <1>1, <1>2, <1>3, <1>4, <1>5, <1>6, <1>7 DEF IInv, MergingInv, Pending
<1>16. PassInv'
  BY <1>1, <1>3, <1>4 DEF IInv, PassInv, PendingResolution
<1>17. PublishInv'
  BY <1>1, <1>2, <1>3, <1>4, <1>5, <1>6, <1>7 DEF IInv, PublishInv, Present,
     Running
<1>18. EndedInv'
  BY <1>1, <1>2, <1>3, <1>4, <1>5, <1>6, <1>7 DEF IInv, EndedInv, Ended
<1> QED
  BY <1>8, <1>9, <1>10, <1>11, <1>12, <1>13, <1>14, <1>15, <1>16, <1>17, <1>18
     DEF IInv

\* The dispatch is over.
LEMMA ScanDispatchedKeeps ==
    ASSUME IInv, ScanDispatched
    PROVE  IInv'
<1>1. /\ ~Ended /\ scan.pc = "dispatch"
      /\ scan' = [scan EXCEPT !.pc = "commit", !.leased = {}]
      /\ UNCHANGED <<disk, mem, mu, todo, tally, branch, dirty, intg, seen, base, task,
                     left, completed, taskFailed, fresh, sig, asked, reporter,
                     resumeReq, r7, report, faults, calls>>
  BY DEF ScanDispatched, muVars, gitVars, taskVars, askVars, hookVars
<1>2. /\ scan' \in Scan /\ scan'.pc = "commit" /\ scan'.items = scan.items
      /\ scan'.ok = scan.ok /\ scan'.publish = scan.publish
  BY <1>1 DEF IInv, TypeInv, FileTypes, Scan, ScanPc
<1>3. TypeInv'
  <2>1. FileTypes'
    BY <1>1, <1>2 DEF IInv, TypeInv, FileTypes
  <2>2. GitTypes'
    BY <1>1, <1>2 DEF IInv, TypeInv, GitTypes
  <2>3. TaskTypes'
    BY <1>1, <1>2 DEF IInv, TypeInv, TaskTypes
  <2> QED
    BY <2>1, <2>2, <2>3 DEF TypeInv
<1>4. IntegratedInv'
  BY <1>1, <1>2 DEF IInv, IntegratedInv, Merged, Within
<1>5. QuietInv'
  BY <1>1, <1>2 DEF IInv, QuietInv, Untroubled
<1>6. StartedInv'
  BY <1>1, <1>2 DEF IInv, StartedInv
<1>7. UntouchedInv'
  BY <1>1, <1>2 DEF IInv, UntouchedInv, NotStarted, Running
<1>8. ResumeInv'
  BY <1>1, <1>2 DEF IInv, ResumeInv
<1>9. MergedIsResolved'
  BY <1>1, <1>2 DEF IInv, MergedIsResolved, Pending
<1>10. MergingInv'
  BY <1>1, <1>2 DEF IInv, MergingInv, Pending
<1>11. PassInv'
  BY <1>1, <1>2 DEF IInv, PassInv
<1>12. PublishInv'
  BY <1>1, <1>2 DEF IInv, PublishInv, Present, Running
<1>13. EndedInv'
  BY <1>1, <1>2 DEF IInv, EndedInv, Ended
<1> QED
  BY <1>3, <1>4, <1>5, <1>6, <1>7, <1>8, <1>9, <1>10, <1>11, <1>12, <1>13 DEF
     IInv

\* Phase A: commit retries, the merge items, the publish.
LEMMA ScanCollectKeeps ==
    ASSUME IInv, ScanCollect
    PROVE  IInv'
<1>1. /\ ~Ended /\ scan.pc = "idle" /\ mu = "free" /\ r7 = NoState
      /\ UNCHANGED <<mem, mu, todo, tally, task, left, completed,
                     taskFailed, sig, asked, reporter, resumeReq, r7,
                     faults, calls>>
  BY DEF ScanCollect, IInv, IntegratedInv, muVars, gitVars, taskVars, askVars,
     hookVars
<1>2. PICK ws \in SUBSET disk.commitFailed : Committed(ws)
  BY DEF ScanCollect
<1>3. ws \in SUBSET Workers /\ TypeInv
  BY DEF IInv, TypeInv, FileTypes, File
<1>4. /\ disk' \in File /\ disk'.integ = disk.integ
      /\ disk'.commitFailed = disk.commitFailed \ ws
      /\ \A w \in Workers : disk'.wk[w].status =
            IF w \in ws /\ dirty[w] THEN "committed" ELSE disk.wk[w].status
      /\ branch' \in [Workers -> Nat] /\ dirty' \in [Workers -> BOOLEAN]
      /\ \A w \in Workers :
            /\ branch'[w] = IF w \in ws /\ dirty[w] THEN branch[w] + 1 ELSE branch[w]
            /\ dirty'[w] = IF w \in ws THEN FALSE ELSE dirty[w]
      /\ fresh' \in SUBSET Workers
      /\ UNCHANGED <<intg, seen, base>>
  BY <1>2, <1>3, Committing
<1>5. /\ scan' \in Scan /\ scan'.pc \in {"commit", "dispatch"}
      /\ scan'.items = MergeItems /\ scan'.ok = {}
      /\ scan'.publish = PublishSelected(disk')
      /\ AllTasksTerminal => scan'.pc = "commit"
  <2>1. scan' = [pc |-> IF Leasable = {} THEN "commit" ELSE "dispatch",
                 leased |-> Leasable, items |-> MergeItems, ok |-> {},
                 conflicts |-> {}, publish |-> PublishSelected(disk')]
    BY DEF ScanCollect
  <2>2. Leasable \in SUBSET Workers /\ MergeItems \in SUBSET Workers
    BY DEF Leasable, MergeItems, Present
  <2>3. PublishSelected(disk') \in BOOLEAN
    BY DEF PublishSelected
  <2>4. AllTasksTerminal => Leasable = {}
    BY DEF AllTasksTerminal, Leasable
  <2>5. {} \in SUBSET Workers /\ {"commit", "dispatch"} \subseteq ScanPc
    BY DEF ScanPc
  <2> QED
    BY <2>1, <2>2, <2>3, <2>4, <2>5 DEF Scan
<1>6. Pending(disk)' \subseteq Pending(disk)
  BY <1>4 DEF Pending, PendingResolution
<1>7. faults = 0 /\ scan'.publish =>
         /\ disk.integ = "merged" /\ \A w \in Workers : ~Running(w)
         /\ scan'.pc = "commit" /\ Present(disk') \subseteq scan'.items
  <2> SUFFICES ASSUME faults = 0, PublishSelected(disk')
               PROVE  /\ disk.integ = "merged" /\ \A w \in Workers : ~Running(w)
                      /\ scan'.pc = "commit" /\ Present(disk') \subseteq scan'.items
    BY <1>5
  <2>1. /\ AllTasksTerminal /\ ~taskFailed /\ disk.integ = "merged"
    BY <1>4 DEF PublishSelected
  <2>2. completed
    BY <2>1 DEF IInv, StartedInv
  <2>3. Pending(disk) = {} /\ disk.commitFailed = {}
    BY <1>1, <2>1 DEF IInv, MergedIsResolved, QuietInv, Untroubled
  <2>4. MergeItems = Present(disk)
    BY <2>1, <2>2, <2>3 DEF MergeItems
  <2>5. Present(disk') \subseteq Present(disk)
    BY <1>4, <2>3 DEF Present
  <2> QED
    BY <1>5, <2>1, <2>4, <2>5 DEF AllTasksTerminal, Running
<1>8. TypeInv'
  <2>1. FileTypes'
    BY <1>1, <1>4, <1>5 DEF IInv, TypeInv, FileTypes
  <2>2. GitTypes'
    BY <1>1, <1>4, <1>5 DEF IInv, TypeInv, GitTypes
  <2>3. TaskTypes'
    BY <1>1, <1>4, <1>5 DEF IInv, TypeInv, TaskTypes
  <2> QED
    BY <2>1, <2>2, <2>3 DEF TypeInv
<1>9. IntegratedInv'
  <2>1. branch \in [Workers -> Nat] /\ intg \in [Workers -> Nat]
    BY DEF IInv, TypeInv, GitTypes
  <2>2. \A w \in Workers : intg[w] <= branch[w]
    BY DEF IInv, IntegratedInv
  <2>3. ASSUME NEW w \in Workers PROVE intg'[w] <= branch'[w]
    <3>1. branch'[w] \in {branch[w], branch[w] + 1} /\ intg'[w] = intg[w]
      BY <1>4
    <3>2. branch[w] \in Nat /\ intg[w] \in Nat
      BY <2>1
    <3> QED
      BY <2>2, <3>1, <3>2
  <2>4. Merged(disk)'
    BY <1>4 DEF IInv, IntegratedInv, Merged
  <2> QED
    BY <1>1, <1>5, <2>3, <2>4 DEF IInv, IntegratedInv
<1>10. QuietInv'
  BY <1>1, <1>4 DEF IInv, QuietInv, Untroubled
<1>11. StartedInv'
  BY <1>1, <1>4, <1>5 DEF IInv, StartedInv, MergeItems
<1>12. UntouchedInv'
  BY <1>1, <1>4 DEF IInv, UntouchedInv, NotStarted, Running
<1>13. ResumeInv'
  BY <1>1 DEF IInv, ResumeInv
<1>14. MergedIsResolved'
  BY <1>1, <1>4, <1>6 DEF IInv, MergedIsResolved
<1>15. MergingInv'
  BY <1>1 DEF IInv, MergingInv
<1>16. PassInv'
  BY <1>5 DEF IInv, PassInv
<1>17. PublishInv'
  BY <1>1, <1>4, <1>5, <1>7 DEF IInv, PublishInv, Running, Present
<1>18. EndedInv'
  BY <1>1, <1>4 DEF IInv, EndedInv, Ended
<1> QED
  BY <1>8, <1>9, <1>10, <1>11, <1>12, <1>13, <1>14, <1>15, <1>16, <1>17, <1>18
     DEF IInv

-----------------------------------------------------------------------------
(* Phase B.                                                                 *)

\* One item is committed, or is not.
LEMMA ScanCommitKeeps ==
    ASSUME IInv, ScanCommit
    PROVE  IInv'
<1>1. /\ ~Ended /\ scan.pc = "commit" /\ scan.items # {} /\ mu = "free" /\ r7 = NoState
      /\ UNCHANGED <<mem, mu, todo, tally, task, left, completed,
                     taskFailed, sig, asked, reporter, resumeReq, r7,
                     report, calls>>
  <2>1. scan.pc = "commit"
    BY DEF ScanCommit
  <2>2. r7 = NoState
    BY <2>1 DEF IInv, IntegratedInv
  <2>3. ~Ended /\ scan.items # {} /\ mu = "free"
    BY Zenon DEF ScanCommit
  <2>4. UNCHANGED <<muVars, taskVars, askVars, hookVars, r7, report, calls>>
    BY Zenon DEF ScanCommit
  <2> QED
    BY <2>1, <2>2, <2>3, <2>4 DEF muVars, taskVars, askVars, hookVars
<1>2. PICK w \in Workers :
         /\ w \in scan.items
         /\ \/ /\ disk.wk[w].status \in PendingResolution
               /\ scan' = [scan EXCEPT !.items = @ \ {w}, !.ok = scan.ok]
               /\ UNCHANGED <<disk, branch, dirty, intg, seen, base, fresh, faults>>
            \/ /\ CanCommit(w)
               /\ Committed({w})
               /\ scan' = [scan EXCEPT !.items = @ \ {w}, !.ok = scan.ok \cup {w}]
               /\ UNCHANGED faults
            \/ /\ disk.wk[w].status \notin PendingResolution
               /\ \/ faults < calls.git /\ dirty[w] /\ faults' = faults + 1
                  \/ ~CanCommit(w) /\ UNCHANGED faults
               /\ disk' = [disk EXCEPT !.commitFailed = @ \cup {w}]
               /\ fresh' = IF disk' = disk THEN fresh ELSE {}
               /\ scan' = [scan EXCEPT !.items = @ \ {w}, !.ok = scan.ok]
               /\ UNCHANGED <<branch, dirty, intg, seen, base>>
  <2>1. Min(scan.items) \in scan.items /\ Min(scan.items) \in Workers
    BY <1>1, MinIsIn DEF IInv, TypeInv, FileTypes, Scan
  <2> QED
    BY <2>1, ZenonT(30) DEF ScanCommit, gitVars
<1>3. /\ scan' \in Scan /\ scan'.pc = "commit" /\ scan'.items = scan.items \ {w}
      /\ scan'.publish = scan.publish
      /\ scan'.ok \in {scan.ok, scan.ok \cup {w}}
      /\ scan'.ok # scan.ok => CanCommit(w) /\ Committed({w})
  <2>1. scan \in Scan /\ scan.pc = "commit"
    BY <1>1 DEF IInv, TypeInv, FileTypes
  <2>2. ASSUME NEW ok \in SUBSET Workers, scan' = [scan EXCEPT !.items = @ \ {w}, !.ok = ok]
        PROVE  /\ scan' \in Scan /\ scan'.pc = "commit" /\ scan'.ok = ok
               /\ scan'.items = scan.items \ {w} /\ scan'.publish = scan.publish
    BY <2>1, <2>2 DEF Scan
  <2>3. scan.ok \in SUBSET Workers /\ scan.ok \cup {w} \in SUBSET Workers
    BY <2>1 DEF Scan
  <2>4. CASE scan' = [scan EXCEPT !.items = @ \ {w}, !.ok = scan.ok]
    BY <2>2, <2>3, <2>4
  <2>5. CASE /\ scan' = [scan EXCEPT !.items = @ \ {w}, !.ok = scan.ok \cup {w}]
             /\ CanCommit(w) /\ Committed({w})
    BY <2>2, <2>3, <2>5
  <2> QED
    BY <1>2, <2>4, <2>5
<1>4. faults \in Nat /\ faults' \in Nat /\ (faults' = 0 => faults = 0)
  <2>1. faults \in Nat
    BY DEF IInv, TypeInv, TaskTypes
  <2> QED
    BY <1>2, <2>1
<1>5. /\ disk' \in File /\ disk'.integ = disk.integ
      /\ branch' \in [Workers -> Nat] /\ dirty' \in [Workers -> BOOLEAN]
      /\ fresh' \in SUBSET Workers
      /\ UNCHANGED <<intg, seen, base>>
      /\ \A v \in Workers :
            \/ /\ disk'.wk[v].status = disk.wk[v].status
               /\ branch'[v] = branch[v] /\ (dirty'[v] => dirty[v])
            \/ /\ disk'.wk[v].status = "committed" /\ branch'[v] = branch[v] + 1
               /\ v = w /\ dirty[v] /\ ~dirty'[v]
               /\ disk.wk[v].status \notin PendingResolution
  <2>1. TypeInv /\ {w} \in SUBSET Workers /\ disk \in File
    BY DEF IInv, TypeInv, FileTypes
  <2>2. CASE UNCHANGED <<disk, branch, dirty, intg, seen, base, fresh>>
    BY <2>1, <2>2 DEF TypeInv, GitTypes, TaskTypes
  <2>3. CASE Committed({w}) /\ CanCommit(w)
    <3>1. /\ disk' \in File /\ disk'.integ = disk.integ
          /\ \A v \in Workers : disk'.wk[v].status =
                IF v \in {w} /\ dirty[v] THEN "committed" ELSE disk.wk[v].status
          /\ branch' \in [Workers -> Nat] /\ dirty' \in [Workers -> BOOLEAN]
          /\ \A v \in Workers :
                /\ branch'[v] = IF v \in {w} /\ dirty[v] THEN branch[v] + 1 ELSE branch[v]
                /\ dirty'[v] = IF v \in {w} THEN FALSE ELSE dirty[v]
          /\ fresh' \in SUBSET Workers
          /\ UNCHANGED <<intg, seen, base>>
      BY <2>1, <2>3, Committing
    <3>2. disk.wk[w].status \notin PendingResolution
      BY <2>3 DEF CanCommit
    <3> QED
      BY <3>1, <3>2
  <2>4. CASE /\ disk' = [disk EXCEPT !.commitFailed = @ \cup {w}]
             /\ fresh' = IF disk' = disk THEN fresh ELSE {}
             /\ UNCHANGED <<branch, dirty, intg, seen, base>>
    <3>1. disk' \in File /\ disk'.integ = disk.integ /\ disk'.wk = disk.wk
      BY <2>1, <2>4 DEF File
    <3> QED
      BY <2>1, <2>4, <3>1 DEF TypeInv, GitTypes, TaskTypes
  <2> QED
    BY <1>2, <2>2, <2>3, <2>4
<1>6. faults' = 0 => disk'.commitFailed = {}
  <2> SUFFICES ASSUME faults' = 0 PROVE disk'.commitFailed = {}
    OBVIOUS
  <2>1. /\ disk.commitFailed = {} /\ disk.wk[w].status # "failed"
        /\ disk.wk[w].status = "absent" => ~dirty[w]
    BY <1>4 DEF IInv, QuietInv, Untroubled, UntouchedInv, NotStarted
  <2>2. TypeInv /\ {w} \in SUBSET Workers /\ disk.wk[w].status \in WorkerStatus
    BY DEF IInv, TypeInv, FileTypes, File, WorkerRow
  <2>3. disk.wk[w].status \notin PendingResolution => CanCommit(w)
    <3>1. disk.wk[w].status \notin PendingResolution \cup {"absent", "failed"}
             => WorkerTransition(disk.wk[w].status, "committed")
      BY <2>2, WorkerTransitions DEF WorkerStatus, PendingResolution
    <3> QED
      BY <2>1, <3>1 DEF CanCommit
  <2>4. Committed({w}) => disk'.commitFailed = disk.commitFailed \ {w}
    BY <2>2, Committing
  <2>5. faults' # faults + 1
    BY <1>4
  <2> QED
    BY <1>2, <2>1, <2>3, <2>4, <2>5
<1>7. Pending(disk)' = Pending(disk)
  BY <1>5 DEF Pending, PendingResolution
<1>8. scan'.ok # scan.ok => ~dirty'[w] /\ disk'.wk[w].status \notin PendingResolution
  <2>1. TypeInv /\ {w} \in SUBSET Workers
    BY DEF IInv
  <2>2. Committed({w}) => ~dirty'[w]
    BY <2>1, Committing
  <2> QED
    BY <1>3, <1>5, <2>2 DEF CanCommit, PendingResolution
<1>9. TypeInv'
  BY <1>1, <1>3, <1>4, <1>5 DEF IInv, TypeInv, FileTypes, GitTypes, TaskTypes
<1>10. IntegratedInv'
  <2>1. branch \in [Workers -> Nat] /\ intg \in [Workers -> Nat]
    BY DEF IInv, TypeInv, GitTypes
  <2>2. ASSUME NEW v \in Workers
        PROVE  /\ intg'[v] <= branch'[v]
               /\ disk'.wk[v].status = "integrated" => branch'[v] = intg'[v]
    <3>1. /\ intg[v] <= branch[v]
          /\ disk.wk[v].status = "integrated" => branch[v] = intg[v]
      BY DEF IInv, IntegratedInv, Merged
    <3>2. branch[v] \in Nat /\ intg[v] \in Nat
      BY <2>1
    <3> QED
      BY <1>5, <3>1, <3>2
  <2> QED
    BY <1>1, <1>3, <2>2 DEF IInv, IntegratedInv, Merged
<1>11. QuietInv'
  BY <1>1, <1>4, <1>5, <1>6 DEF IInv, QuietInv, Untroubled
<1>12. StartedInv'
  BY <1>1, <1>2, <1>3, <1>5 DEF IInv, StartedInv
<1>13. UntouchedInv'
  BY <1>1, <1>5 DEF IInv, UntouchedInv, NotStarted, Running
<1>14. ResumeInv'
  BY <1>1 DEF IInv, ResumeInv
<1>15. MergedIsResolved'
  BY <1>1, <1>4, <1>5, <1>7 DEF IInv, MergedIsResolved
<1>16. MergingInv'
  BY <1>1 DEF IInv, MergingInv
<1>17. PassInv'
  BY <1>1, <1>3, <1>4, <1>5, <1>8 DEF IInv, PassInv, PendingResolution
<1>18. PublishInv'
  <2> SUFFICES ASSUME faults' = 0, scan.publish
               PROVE  /\ \A v \in Workers : ~Running(v)
                      /\ disk.integ = "merged"
                      /\ Present(disk') \subseteq scan'.items \cup scan'.ok
                      /\ \A v \in Workers : v \in scan'.ok => ~dirty'[v]
    BY <1>1, <1>3, <1>5 DEF PublishInv, Running
  <2>1. /\ faults = 0 /\ disk.integ = "merged" /\ \A v \in Workers : ~Running(v)
        /\ Present(disk) \subseteq scan.items \cup scan.ok
        /\ \A v \in Workers : v \in scan.ok => ~dirty[v]
    BY <1>1, <1>4 DEF IInv, PublishInv
  <2>2. Pending(disk) = {}
    BY <1>1, <2>1 DEF IInv, MergedIsResolved
  <2>3. disk.wk[w].status \notin PendingResolution
    BY <2>2 DEF Pending
  <2>4. disk.commitFailed = {} /\ disk'.commitFailed = {}
    BY <1>6, <2>1 DEF IInv, QuietInv, Untroubled
  <2>5. disk \in File /\ scan \in Scan
    BY DEF IInv, TypeInv, FileTypes
  <2>6. w \in scan'.ok
    <3>1. disk' # [disk EXCEPT !.commitFailed = @ \cup {w}]
      BY <2>4, <2>5 DEF File
    <3>2. scan' = [scan EXCEPT !.items = @ \ {w}, !.ok = scan.ok \cup {w}]
      BY <1>2, <2>3, <3>1
    <3> QED
      BY <2>5, <3>2 DEF Scan
  <2>7. Present(disk') \subseteq Present(disk)
    BY <1>5 DEF IInv, UntouchedInv, NotStarted, Present
  <2> QED
    BY <1>3, <1>5, <1>8, <2>1, <2>6, <2>7
<1>19. EndedInv'
  BY <1>1, <1>5 DEF IInv, EndedInv, Ended
<1> QED
  BY <1>9, <1>10, <1>11, <1>12, <1>13, <1>14, <1>15, <1>16, <1>17, <1>18, <1>19
     DEF IInv

\* There is nothing to merge, or MergeToIntegration refuses.
LEMMA ScanNoMergeKeeps ==
    ASSUME IInv, ScanNoMerge
    PROVE  IInv'
<1>1. /\ ~Ended /\ scan.pc = "commit" /\ scan.items = {} /\ mu = "free" /\ r7 = NoState
      /\ scan.ok = {} \/ ~IntegrationTransition(disk.integ, "merging")
      /\ scan' = [scan EXCEPT !.pc = "publish", !.ok = {}]
      /\ UNCHANGED <<disk, mem, mu, todo, tally, branch, dirty, intg, seen,
                     base, task, left, completed, taskFailed, fresh, sig,
                     asked, reporter, resumeReq, r7, report, faults, calls>>
  BY DEF ScanNoMerge, IInv, IntegratedInv, muVars, gitVars, taskVars, askVars,
     hookVars
<1>2. /\ scan' \in Scan /\ scan'.pc = "publish" /\ scan'.items = {} /\ scan'.ok = {}
      /\ scan'.publish = scan.publish
  BY <1>1 DEF IInv, TypeInv, FileTypes, Scan, ScanPc
<1>3. TypeInv'
  <2>1. FileTypes'
    BY <1>1, <1>2 DEF IInv, TypeInv, FileTypes
  <2>2. GitTypes'
    BY <1>1, <1>2 DEF IInv, TypeInv, GitTypes
  <2>3. TaskTypes'
    BY <1>1, <1>2 DEF IInv, TypeInv, TaskTypes
  <2> QED
    BY <2>1, <2>2, <2>3 DEF TypeInv
<1>4. IntegratedInv'
  BY <1>1, <1>2 DEF IInv, IntegratedInv, Merged, Within
<1>5. QuietInv'
  BY <1>1, <1>2 DEF IInv, QuietInv, Untroubled
<1>6. StartedInv'
  BY <1>1, <1>2 DEF IInv, StartedInv
<1>7. UntouchedInv'
  BY <1>1, <1>2 DEF IInv, UntouchedInv, NotStarted, Running
<1>8. ResumeInv'
  BY <1>1, <1>2 DEF IInv, ResumeInv
<1>9. MergedIsResolved'
  BY <1>1, <1>2 DEF IInv, MergedIsResolved, Pending
<1>10. MergingInv'
  BY <1>1, <1>2 DEF IInv, MergingInv, Pending
<1>11. PassInv'
  BY <1>1, <1>2 DEF IInv, PassInv
<1>12. PublishInv'
  <2> SUFFICES ASSUME faults = 0, scan.publish
               PROVE  /\ \A w \in Workers : ~Running(w)
                      /\ \A w \in Workers : ~dirty[w] /\ branch[w] = intg[w]
    BY <1>1, <1>2 DEF PublishInv, Running
  <2>1. /\ disk.integ = "merged" /\ \A w \in Workers : ~Running(w)
        /\ Present(disk) \subseteq scan.ok
    BY <1>1 DEF IInv, PublishInv
  <2>2. IntegrationTransition("merged", "merging")
    BY DEF IntegrationTransition
  <2>3. \A w \in Workers : disk.wk[w].status = "absent"
    BY <1>1, <2>1, <2>2 DEF Present
  <2> QED
    BY <2>1, <2>3 DEF IInv, UntouchedInv, NotStarted
<1>13. EndedInv'
  BY <1>1, <1>2 DEF IInv, EndedInv, Ended
<1> QED
  BY <1>3, <1>4, <1>5, <1>6, <1>7, <1>8, <1>9, <1>10, <1>11, <1>12, <1>13 DEF
     IInv

\* The integration worktree cannot be prepared.
LEMMA ScanPrepareFailsKeeps ==
    ASSUME IInv, ScanPrepareFails
    PROVE  IInv'
<1>1. /\ ~Ended /\ scan.pc = "commit" /\ scan.ok # {} /\ mu = "free" /\ r7 = NoState
      /\ disk' = RecordMergeFailure(disk) /\ fresh' = {} /\ faults' = faults + 1
      /\ scan' = [scan EXCEPT !.pc = "publish", !.ok = {}]
      /\ UNCHANGED <<mem, mu, todo, tally, branch, dirty, intg, seen, base,
                     task, left, completed, taskFailed, sig, asked,
                     reporter, resumeReq, r7, report, calls>>
  BY DEF ScanPrepareFails, IInv, IntegratedInv, muVars, gitVars, taskVars,
     askVars, hookVars
<1>2. /\ scan' \in Scan /\ scan'.pc = "publish" /\ scan'.items = scan.items
      /\ scan'.ok = {}
  BY <1>1 DEF IInv, TypeInv, FileTypes, Scan, ScanPc
<1>3. /\ disk' \in File /\ disk'.wk = disk.wk /\ disk'.commitFailed = disk.commitFailed
      /\ disk'.integ \in {disk.integ, "failed", "quarantined"}
  BY <1>1, RecordingFailure DEF IInv, TypeInv, FileTypes
<1>4. faults' \in Nat /\ faults' # 0
  BY <1>1 DEF IInv, TypeInv, TaskTypes
<1>5. TypeInv'
  <2>1. FileTypes'
    BY <1>1, <1>2, <1>3, <1>4 DEF IInv, TypeInv, FileTypes
  <2>2. GitTypes'
    BY <1>1, <1>2, <1>3, <1>4 DEF IInv, TypeInv, GitTypes
  <2>3. TaskTypes'
    BY <1>1, <1>2, <1>3, <1>4 DEF IInv, TypeInv, TaskTypes
  <2> QED
    BY <2>1, <2>2, <2>3 DEF TypeInv
<1>6. IntegratedInv'
  BY <1>1, <1>2, <1>3, <1>4 DEF IInv, IntegratedInv, Merged, Within
<1>7. QuietInv'
  BY <1>4 DEF QuietInv
<1>8. StartedInv'
  BY <1>1, <1>2, <1>3, <1>4 DEF IInv, StartedInv
<1>9. UntouchedInv'
  BY <1>1, <1>2, <1>3, <1>4 DEF IInv, UntouchedInv, NotStarted, Running
<1>10. ResumeInv'
  BY <1>1, <1>2, <1>3, <1>4 DEF IInv, ResumeInv
<1>11. MergedIsResolved'
  BY <1>4 DEF MergedIsResolved
<1>12. MergingInv'
  BY <1>1, <1>2, <1>3, <1>4 DEF IInv, MergingInv, Pending
<1>13. PassInv'
  BY <1>4 DEF PassInv
<1>14. PublishInv'
  BY <1>4 DEF PublishInv
<1>15. EndedInv'
  BY <1>1, <1>2, <1>3, <1>4 DEF IInv, EndedInv, Ended
<1> QED
  BY <1>5, <1>6, <1>7, <1>8, <1>9, <1>10, <1>11, <1>12, <1>13, <1>14, <1>15 DEF
     IInv

\* MergeToIntegration loads the state.
LEMMA MergeBeginKeeps ==
    ASSUME IInv, MergeBegin
    PROVE  IInv'
<1>1. /\ ~Ended /\ scan.pc = "commit" /\ scan.items = {} /\ scan.ok # {}
      /\ mu = "free" /\ r7 = NoState /\ IntegrationTransition(disk.integ, "merging")
      /\ mu' = "merge" /\ mem' = SetIntegrationStatus(disk, "merging")
      /\ todo' = scan.ok /\ tally' = [NoTally EXCEPT !.pre = disk.integ]
      /\ scan' = [scan EXCEPT !.pc = "merge"]
      /\ UNCHANGED <<disk, branch, dirty, intg, seen, base, task, left,
                     completed, taskFailed, fresh, sig, asked, reporter,
                     resumeReq, r7, report, faults, calls>>
  BY DEF MergeBegin, IInv, IntegratedInv, muVars, gitVars, taskVars, askVars,
     hookVars
<1>2. /\ scan' \in Scan /\ scan'.pc = "merge" /\ scan'.items = scan.items
      /\ scan'.ok = scan.ok /\ scan'.publish = scan.publish
  BY <1>1 DEF IInv, TypeInv, FileTypes, Scan, ScanPc
<1>3. disk.integ \in {"created", "merged", "partial_merge", "conflict", "failed"}
  <2>1. disk.integ \in IntegrationStatus /\ "merging" \in IntegrationStatus
    BY DEF IInv, TypeInv, FileTypes, File, IntegrationStatus
  <2> QED
    BY <1>1, <2>1, IntegrationTransitions
<1>4. /\ mem' \in File /\ mem'.integ = "merging" /\ mem'.wk = disk.wk
      /\ mem'.commitFailed = disk.commitFailed
  <2>1. disk \in File /\ "merging" \in IntegrationStatus
    BY DEF IInv, TypeInv, FileTypes, IntegrationStatus
  <2> QED
    BY <1>1, <2>1, SettingIntegration
<1>5. /\ tally' \in Tally /\ tally'.pre = disk.integ /\ tally'.conflicts = {}
      /\ ~tally'.conflictSkipped /\ ~tally'.skipped
  BY <1>1, <1>3 DEF Tally, NoTally, IntegrationStatus
<1>6. Pending(mem)' = Pending(disk)
  BY <1>4 DEF Pending
<1>7. TypeInv'
  <2>1. FileTypes'
    <3>1. scan.ok \in SUBSET Workers
      BY DEF IInv, TypeInv, FileTypes, Scan
    <3>2. disk \in File /\ r7 \in File \cup {NoState}
      BY DEF IInv, TypeInv, FileTypes
    <3> QED
      BY <1>1, <1>2, <1>4, <1>5, <3>1, <3>2 DEF FileTypes
  <2>2. GitTypes'
    BY <1>1 DEF IInv, TypeInv, GitTypes
  <2>3. TaskTypes'
    BY <1>1 DEF IInv, TypeInv, TaskTypes
  <2> QED
    BY <2>1, <2>2, <2>3 DEF TypeInv
<1>8. IntegratedInv'
  BY <1>1, <1>2, <1>3, <1>4, <1>5, <1>6 DEF IInv, IntegratedInv, Merged, Within
<1>9. QuietInv'
  BY <1>1, <1>2, <1>3, <1>4, <1>5, <1>6 DEF IInv, QuietInv, Untroubled
<1>10. StartedInv'
  BY <1>1, <1>2, <1>3, <1>4, <1>5, <1>6 DEF IInv, StartedInv
<1>11. UntouchedInv'
  BY <1>1, <1>2, <1>3, <1>4, <1>5, <1>6 DEF IInv, UntouchedInv, NotStarted,
     Running
<1>12. ResumeInv'
  BY <1>1, <1>2, <1>3, <1>4, <1>5, <1>6 DEF IInv, ResumeInv
<1>13. MergedIsResolved'
  BY <1>1 DEF MergedIsResolved
<1>14. MergingInv'
  <2>1. todo' = scan'.ok
    BY <1>1, <1>2
  <2>2. faults = 0 /\ disk.integ = "merged" => Pending(disk) = {}
    BY <1>1 DEF IInv, MergedIsResolved
  <2>3. faults = 0 => \A w \in Workers : w \in scan.ok => disk.wk[w].status \notin PendingResolution
    BY <1>1 DEF IInv, PassInv
  <2> QED
    BY <1>1, <1>3, <1>4, <1>5, <1>6, <2>1, <2>2, <2>3 DEF MergingInv
<1>15. PassInv'
  BY <1>1, <1>2, <1>3, <1>4, <1>5, <1>6 DEF IInv, PassInv
<1>16. PublishInv'
  <2> SUFFICES ASSUME faults = 0, scan.publish
               PROVE  /\ \A w \in Workers : ~Running(w) /\ ~dirty[w]
                      /\ Present(mem)' \subseteq scan.ok /\ disk.integ = "merged"
    BY <1>1, <1>2, <1>5 DEF PublishInv, Running
  <2>1. /\ disk.integ = "merged" /\ \A w \in Workers : ~Running(w)
        /\ Present(disk) \subseteq scan.ok
        /\ \A w \in Workers : w \in scan.ok => ~dirty[w]
    BY <1>1 DEF IInv, PublishInv
  <2>2. Present(mem)' = Present(disk)
    BY <1>4 DEF Present
  <2>3. \A w \in Workers : ~dirty[w]
    BY <2>1 DEF Present, IInv, UntouchedInv, NotStarted
  <2> QED
    BY <2>1, <2>2, <2>3
<1>17. EndedInv'
  BY <1>1, <1>2, <1>3, <1>4, <1>5, <1>6 DEF IInv, EndedInv, Ended
<1> QED
  BY <1>7, <1>8, <1>9, <1>10, <1>11, <1>12, <1>13, <1>14, <1>15, <1>16, <1>17
     DEF IInv

\* One worker is merged, or is not.
LEMMA MergeWorkerKeeps ==
    ASSUME IInv, MergeWorker
    PROVE  IInv'
<1>1. /\ mu = "merge" /\ scan.pc = "merge" /\ r7 = NoState /\ ~Ended /\ todo # {}
      /\ UNCHANGED <<disk, mu, branch, dirty, seen, base, task, left,
                     completed, taskFailed, fresh, sig, asked, reporter,
                     resumeReq, scan, r7, report, calls>>
  <2>1. mu = "merge" /\ todo # {}
    BY DEF MergeWorker
  <2>2. scan.pc = "merge" /\ r7 = NoState /\ ~Ended
    BY <2>1 DEF IInv, IntegratedInv, EndedInv
  <2> QED
    BY <2>1, <2>2 DEF MergeWorker, taskVars, askVars, hookVars
<1>2. PICK w \in Workers :
         /\ w \in todo /\ todo' = todo \ {w}
         /\ \/ MergeSkips(w) \/ MergeProbeFails(w) \/ MergeNoCommits(w)
            \/ MergeClean(w) \/ MergeConflict(w) \/ MergeTransientError(w)
  <2>1. Min(todo) \in todo /\ Min(todo) \in Workers
    BY <1>1, MinIsIn DEF IInv, TypeInv, FileTypes
  <2> QED
    BY <2>1 DEF MergeWorker
<1>3. /\ mem \in File /\ mem.wk[w].status \in WorkerStatus /\ tally \in Tally
      /\ intg \in [Workers -> Nat] /\ branch \in [Workers -> Nat] /\ faults \in Nat
      /\ calls.git \in Nat /\ branch \in [Workers -> Int] /\ intg \in [Workers -> Int]
  BY <1>1 DEF IInv, TypeInv, FileTypes, GitTypes, TaskTypes, File, WorkerRow,
     AllBudgets
<1>4. /\ mem' \in File /\ mem'.integ = mem.integ /\ mem'.commitFailed = mem.commitFailed
      /\ \A v \in Workers : v # w => mem'.wk[v] = mem.wk[v]
      /\ \/ /\ mem'.wk[w].status = mem.wk[w].status
            /\ \/ mem.wk[w].status = "integrated"
               \/ mem.wk[w].status \in PendingResolution /\ tally'.conflictSkipped
               \/ faults' # 0
               \/ mem.wk[w].status \in {"absent", "failed"}
         \/ mem'.wk[w].status = "integrated"
            /\ (intg'[w] = branch[w] \/ (intg'[w] = intg[w] /\ branch[w] = 0))
         \/ mem'.wk[w].status = "conflict" /\ w \in tally'.conflicts
         \/ mem'.wk[w].status = "failed" /\ faults' # 0
      /\ mem'.wk[w].status = "absent" <=> mem.wk[w].status = "absent"
      /\ intg' \in [Workers -> Nat] /\ intg'[w] \in {intg[w], branch[w]}
      /\ mem.wk[w].status = "integrated" => intg'[w] = intg[w]
      /\ \A v \in Workers : v # w => intg'[v] = intg[v]
      /\ tally' \in Tally /\ tally'.pre = tally.pre
      /\ tally'.skipped => tally.skipped \/ faults' # 0
      /\ tally'.conflictSkipped => tally.conflictSkipped \/ mem.wk[w].status \in PendingResolution
      /\ tally'.conflicts \in {tally.conflicts, tally.conflicts \cup {w}}
      /\ faults' \in Nat /\ (faults' = 0 => faults = 0)
  <2>1. ASSUME NEW to \in WorkerStatus
        PROVE  LET t == SetWorkerStatus(mem, w, to)
               IN /\ t \in File /\ t.integ = mem.integ /\ t.commitFailed = mem.commitFailed
                  /\ \A v \in Workers : v # w => t.wk[v] = mem.wk[v]
                  /\ t.wk[w].status = IF WorkerTransition(mem.wk[w].status, to) THEN to
                                      ELSE mem.wk[w].status
                  /\ t.wk[w].status = "absent" <=> mem.wk[w].status = "absent"
    BY <1>3, SettingWorker, WorkerTransitions
  <2>2. {"integrated", "conflict", "failed"} \subseteq WorkerStatus
    BY DEF WorkerStatus
  <2>3. CASE MergeSkips(w)
    BY <1>2, <1>3, <2>3 DEF MergeSkips, Tally
  <2>4. CASE MergeProbeFails(w)
    BY <1>2, <1>3, <2>4 DEF MergeProbeFails, Mergeable
  <2>5. CASE MergeNoCommits(w) \/ MergeClean(w)
    <3>1. /\ mem' = SetWorkerStatus(mem, w, "integrated") /\ faults' = faults
          /\ mem.wk[w].status \notin PendingResolution \cup {"integrated"}
      BY <2>5 DEF MergeNoCommits, MergeClean, Mergeable
    <3>2. tally' = tally \/ tally' = [tally EXCEPT !.merged = TRUE]
      BY <2>5 DEF MergeNoCommits, MergeClean
    <3>3. /\ tally' \in Tally /\ tally'.pre = tally.pre /\ tally'.skipped = tally.skipped
          /\ tally'.conflictSkipped = tally.conflictSkipped
          /\ tally'.conflicts = tally.conflicts
      BY <1>3, <3>2 DEF Tally
    <3>4. \/ intg' = intg /\ branch[w] = 0
          \/ intg' = [intg EXCEPT ![w] = branch[w]]
      BY <2>5 DEF MergeNoCommits, MergeClean, NoCommits
    <3>5. /\ intg' \in [Workers -> Nat] /\ \A v \in Workers : v # w => intg'[v] = intg[v]
          /\ intg'[w] = branch[w] \/ (intg'[w] = intg[w] /\ branch[w] = 0)
      BY <1>3, <3>4
    <3>6. mem.wk[w].status \notin {"absent", "failed"}
             => WorkerTransition(mem.wk[w].status, "integrated")
      BY <1>3, <3>1, WorkerTransitions DEF WorkerStatus, PendingResolution
    <3>7. /\ mem' \in File /\ mem'.integ = mem.integ /\ mem'.commitFailed = mem.commitFailed
          /\ \A v \in Workers : v # w => mem'.wk[v] = mem.wk[v]
          /\ \/ mem'.wk[w].status = "integrated"
             \/ /\ mem'.wk[w].status = mem.wk[w].status
                /\ mem.wk[w].status \in {"absent", "failed"}
          /\ mem'.wk[w].status = "absent" <=> mem.wk[w].status = "absent"
      BY <2>1, <2>2, <3>1, <3>6
    <3> QED
      BY <1>3, <3>1, <3>3, <3>5, <3>7
  <2>6. CASE MergeConflict(w)
    <3>1. PICK h : LET u == [mem EXCEPT !.wk[w].branchHead = branch[w], !.wk[w].integHead = h]
                   IN /\ h \in {intg, NoHead} /\ mem' = SetWorkerStatus(u, w, "conflict")
                      /\ \/ faults' = faults
                         \/ faults' = faults + 1
                      /\ mem.wk[w].status \notin PendingResolution \cup {"integrated"}
                      /\ tally' = [tally EXCEPT !.conflicts = @ \cup {w}] /\ intg' = intg
      BY <2>6 DEF MergeConflict, Mergeable
    <3> DEFINE u == [mem EXCEPT !.wk[w].branchHead = branch[w], !.wk[w].integHead = h]
    <3>2. h \in [Workers -> Int] /\ branch[w] \in Int
      BY <1>3, <3>1 DEF NoHead
    <3>3. /\ u \in File /\ u.integ = mem.integ /\ u.commitFailed = mem.commitFailed
          /\ \A v \in Workers : v # w => u.wk[v] = mem.wk[v]
          /\ u.wk[w].status = mem.wk[w].status
      <4> DEFINE row == [mem.wk[w] EXCEPT !.branchHead = branch[w], !.integHead = h]
                 wk == [mem.wk EXCEPT ![w] = row]
      <4>1. mem.wk \in [Workers -> WorkerRow] /\ mem.wk[w] \in WorkerRow
        BY <1>3 DEF File
      <4>2. row \in WorkerRow /\ row.status = mem.wk[w].status
        BY <3>2, <4>1 DEF WorkerRow
      <4>3. u = [mem EXCEPT !.wk = wk]
        BY <1>3, <4>1 DEF File, WorkerRow
      <4> HIDE DEF row, u
      <4>4. /\ wk \in [Workers -> WorkerRow] /\ wk[w] = row
            /\ \A v \in Workers : v # w => wk[v] = mem.wk[v]
        BY <4>1, <4>2
      <4> HIDE DEF wk
      <4> QED
        BY <1>3, <4>2, <4>3, <4>4 DEF File
    <3>4. mem' = SetWorkerStatus(u, w, "conflict")
      BY <3>1
    <3> HIDE DEF u
    <3>5. /\ mem' \in File /\ mem'.integ = u.integ /\ mem'.commitFailed = u.commitFailed
          /\ \A v \in Workers : v # w => mem'.wk[v] = u.wk[v]
          /\ mem'.wk[w].status = IF WorkerTransition(u.wk[w].status, "conflict") THEN "conflict"
                                 ELSE u.wk[w].status
      BY <2>2, <3>3, <3>4, SettingWorker
    <3>6. mem.wk[w].status \in {"absent", "failed"}
             \/ WorkerTransition(mem.wk[w].status, "conflict")
      BY <1>3, <3>1, WorkerTransitions DEF WorkerStatus, PendingResolution
    <3>7. /\ tally' \in Tally /\ tally'.pre = tally.pre /\ tally'.skipped = tally.skipped
          /\ tally'.conflictSkipped = tally.conflictSkipped
          /\ tally'.conflicts = tally.conflicts \cup {w}
      BY <1>3, <3>1 DEF Tally
    <3>8. \/ mem'.wk[w].status = "conflict"
          \/ /\ mem'.wk[w].status = mem.wk[w].status
             /\ mem.wk[w].status \in {"absent", "failed"}
      BY <3>3, <3>5, <3>6
    <3>9. mem'.wk[w].status = "absent" <=> mem.wk[w].status = "absent"
      BY <1>3, <2>2, <3>3, <3>5, WorkerTransitions
    <3>10. faults' \in Nat /\ (faults' = 0 => faults = 0) /\ intg' = intg
      BY <1>3, <3>1
    <3>11. mem.wk[w].status # "integrated"
      BY <3>1
    <3> QED
      BY <1>3, <3>3, <3>5, <3>7, <3>8, <3>9, <3>10, <3>11
  <2>7. CASE MergeTransientError(w)
    <3>1. /\ mem' = SetWorkerStatus(mem, w, "failed") /\ faults' = faults + 1
          /\ tally' = [tally EXCEPT !.skipped = TRUE] /\ intg' = intg
      BY <2>7 DEF MergeTransientError
    <3>2. faults' \in Nat /\ faults' # 0
      BY <1>3, <3>1
    <3>3. /\ tally' \in Tally /\ tally'.pre = tally.pre
          /\ tally'.conflictSkipped = tally.conflictSkipped
          /\ tally'.conflicts = tally.conflicts
      BY <1>3, <3>1 DEF Tally
    <3>4. /\ mem' \in File /\ mem'.integ = mem.integ /\ mem'.commitFailed = mem.commitFailed
          /\ \A v \in Workers : v # w => mem'.wk[v] = mem.wk[v]
          /\ mem'.wk[w].status \in {"failed", mem.wk[w].status}
          /\ mem'.wk[w].status = "absent" <=> mem.wk[w].status = "absent"
      BY <2>1, <2>2, <3>1
    <3> QED
      BY <1>3, <3>1, <3>2, <3>3, <3>4
  <2> QED
    BY <1>2, <2>3, <2>4, <2>5, <2>6, <2>7
<1>5. faults' = 0 => /\ faults = 0 /\ ~tally'.conflictSkipped /\ ~tally'.skipped
                     /\ mem.wk[w].status \notin PendingResolution \cup {"failed"}
                     /\ tally.pre = "merged" => Pending(mem) \subseteq tally.conflicts
  BY <1>1, <1>2, <1>4 DEF IInv, MergingInv, QuietInv, Untroubled
<1>6. TypeInv'
  <2>1. FileTypes'
    BY <1>1, <1>2, <1>3, <1>4, <1>5 DEF IInv, TypeInv, FileTypes
  <2>2. GitTypes'
    BY <1>1, <1>2, <1>3, <1>4, <1>5 DEF IInv, TypeInv, GitTypes
  <2>3. TaskTypes'
    BY <1>1, <1>2, <1>3, <1>4, <1>5 DEF IInv, TypeInv, TaskTypes
  <2> QED
    BY <2>1, <2>2, <2>3 DEF TypeInv
<1>7. IntegratedInv'
  <2>1. \A v \in Workers : intg[v] <= branch[v]
    BY DEF IInv, IntegratedInv
  <2>2. ASSUME NEW v \in Workers PROVE intg'[v] <= branch[v]
    <3>1. intg'[v] \in {intg[v], branch[v]} /\ intg[v] \in Nat /\ branch[v] \in Nat
      BY <1>3, <1>4
    <3> QED
      BY <2>1, <3>1
  <2>3. Merged(disk)'
    BY <1>1, <1>4 DEF IInv, IntegratedInv, Merged
  <2>4. ASSUME NEW v \in Workers, mem'.wk[v].status = "integrated"
        PROVE  branch[v] = intg'[v]
    <3>1. CASE v # w
      BY <1>1, <1>4, <2>4, <3>1 DEF IInv, IntegratedInv, Merged
    <3>2. CASE v = w /\ intg'[w] = intg[w] /\ branch[w] = 0
      <4>1. intg[w] \in Nat /\ intg[w] <= branch[w]
        BY <1>3, <2>1
      <4> QED
        BY <3>2, <4>1
    <3>3. CASE v = w /\ mem.wk[w].status = "integrated"
      BY <1>1, <1>4, <3>3 DEF IInv, IntegratedInv, Merged
    <3>4. CASE v = w /\ intg'[w] = branch[w]
      BY <3>4
    <3> QED
      BY <1>4, <2>4, <3>1, <3>2, <3>3, <3>4 DEF PendingResolution
  <2> QED
    BY <1>1, <2>2, <2>3, <2>4 DEF IntegratedInv, Merged
<1>8. QuietInv'
  BY <1>1, <1>4 DEF IInv, QuietInv, Untroubled
<1>9. StartedInv'
  BY <1>1 DEF IInv, StartedInv
<1>10. UntouchedInv'
  BY <1>1, <1>4 DEF IInv, UntouchedInv, NotStarted, Running
<1>11. ResumeInv'
  BY <1>1 DEF IInv, ResumeInv
<1>12. MergedIsResolved'
  BY <1>1 DEF MergedIsResolved
<1>13. MergingInv'
  <2>1. mem'.integ = "merging" /\ todo' \subseteq scan.ok
        /\ tally'.pre \in {"created", "merged", "partial_merge", "conflict", "failed"}
    BY <1>1, <1>2, <1>4 DEF IInv, MergingInv
  <2> SUFFICES ASSUME faults' = 0
               PROVE  /\ tally.pre = "merged" => Pending(mem)' \subseteq tally'.conflicts
                      /\ \A v \in Workers : v \in todo' =>
                            mem'.wk[v].status \notin PendingResolution
                      /\ \A v \in Workers : v \in scan.ok \ todo' =>
                            \/ mem'.wk[v].status \in {"integrated", "absent"}
                            \/ v \in tally'.conflicts
    BY <1>1, <1>4, <1>5, <2>1 DEF MergingInv
  <2>2. \/ mem'.wk[w].status \in {"integrated", "absent"}
        \/ mem'.wk[w].status = "conflict" /\ w \in tally'.conflicts
    BY <1>4, <1>5
  <2>3. tally.pre = "merged" => Pending(mem)' \subseteq tally'.conflicts
    BY <1>4, <1>5, <2>2 DEF Pending, PendingResolution
  <2>4. /\ \A v \in Workers : v \in todo => mem.wk[v].status \notin PendingResolution
        /\ \A v \in Workers : v \in scan.ok \ todo =>
                            \/ mem.wk[v].status \in {"integrated", "absent"}
                            \/ v \in tally.conflicts
    BY <1>1, <1>5 DEF IInv, MergingInv
  <2>5. ASSUME NEW v \in Workers, v # w
        PROVE  /\ mem'.wk[v] = mem.wk[v]
               /\ v \in todo' => v \in todo
               /\ v \in scan.ok \ todo' => v \in scan.ok \ todo
               /\ v \in tally.conflicts => v \in tally'.conflicts
    BY <1>2, <1>4, <2>5
  <2>6. w \notin todo'
    BY <1>2
  <2>7. ASSUME NEW v \in Workers
        PROVE  /\ v \in todo' => mem'.wk[v].status \notin PendingResolution
               /\ v \in scan.ok \ todo' => \/ mem'.wk[v].status \in {"integrated", "absent"}
                                           \/ v \in tally'.conflicts
    <3>1. CASE v = w
      BY <2>2, <2>6, <3>1
    <3>2. CASE v # w
      BY <2>4, <2>5, <3>2
    <3> QED
      BY <3>1, <3>2
  <2> QED
    BY <2>3, <2>7
<1>14. PassInv'
  BY <1>1 DEF PassInv
<1>15. PublishInv'
  <2>1. Present(mem)' \subseteq Present(mem)
    BY <1>4 DEF Present
  <2> QED
    BY <1>1, <1>4, <2>1 DEF IInv, PublishInv, Running
<1>16. EndedInv'
  BY <1>1 DEF EndedInv, Ended
<1> QED
  BY <1>6, <1>7, <1>8, <1>9, <1>10, <1>11, <1>12, <1>13, <1>14, <1>15, <1>16
     DEF IInv

\* The merge is given up.
LEMMA MergeFatalErrorKeeps ==
    ASSUME IInv, MergeFatalError
    PROVE  IInv'
<1>1. /\ mu = "merge" /\ scan.pc = "merge" /\ r7 = NoState /\ ~Ended
      /\ faults' = faults + 1 /\ fresh' = {} /\ mem' = NoState /\ mu' = "free"
      /\ todo' = {} /\ tally' = NoTally
      /\ scan' = [scan EXCEPT !.pc = "publish", !.ok = {}, !.conflicts = tally.conflicts]
      /\ UNCHANGED <<branch, dirty, intg, seen, base, task, left,
                     completed, taskFailed, sig, asked, reporter,
                     resumeReq, r7, report, calls>>
  BY DEF MergeFatalError, IInv, IntegratedInv, EndedInv, gitVars, taskVars,
     askVars, hookVars
<1>2. PICK w \in Workers, to \in {"failed", "conflict"} :
         disk' = RecordMergeFailure(SetWorkerStatus(mem, w, to))
  <2>1. mu = "merge" /\ todo # {}
    BY DEF MergeFatalError
  <2>2. Min(todo) \in Workers
    BY <2>1, MinIsIn DEF IInv, TypeInv, FileTypes
  <2> QED
    BY <2>2 DEF MergeFatalError
<1>3. mem \in File /\ tally \in Tally /\ scan \in Scan /\ mem.integ = "merging"
  BY <1>1 DEF IInv, TypeInv, FileTypes, MergingInv
<1>4. /\ disk' \in File /\ disk'.commitFailed = mem.commitFailed
      /\ disk'.integ \in {"merging", "failed", "quarantined"}
      /\ \A v \in Workers : \/ disk'.wk[v].status = mem.wk[v].status
                            \/ disk'.wk[v].status \in {"failed", "conflict"}
  <2> DEFINE s == SetWorkerStatus(mem, w, to)
  <2>1. to \in WorkerStatus
    BY DEF WorkerStatus
  <2>2. /\ s \in File /\ s.integ = mem.integ /\ s.commitFailed = mem.commitFailed
        /\ \A v \in Workers : v # w => s.wk[v] = mem.wk[v]
        /\ s.wk[w].status \in {to, mem.wk[w].status}
    BY <1>3, <2>1, SettingWorker
  <2> HIDE DEF s
  <2>3. /\ RecordMergeFailure(s) \in File /\ RecordMergeFailure(s).wk = s.wk
        /\ RecordMergeFailure(s).commitFailed = s.commitFailed
        /\ RecordMergeFailure(s).integ \in {s.integ, "failed", "quarantined"}
    BY <2>2, RecordingFailure
  <2>4. disk' = RecordMergeFailure(s)
    BY <1>2 DEF s
  <2> QED
    BY <1>3, <2>2, <2>3, <2>4
<1>5. /\ scan' \in Scan /\ scan'.pc = "publish" /\ scan'.items = scan.items
      /\ scan'.ok = {} /\ tally' \in Tally
  BY <1>1, <1>3 DEF Scan, ScanPc, Tally, NoTally
<1>6. faults' \in Nat /\ faults' # 0
  BY <1>1 DEF IInv, TypeInv, TaskTypes
<1>7. TypeInv'
  <2>1. FileTypes'
    BY <1>1, <1>2, <1>3, <1>4, <1>5, <1>6 DEF IInv, TypeInv, FileTypes
  <2>2. GitTypes'
    BY <1>1, <1>2, <1>3, <1>4, <1>5, <1>6 DEF IInv, TypeInv, GitTypes
  <2>3. TaskTypes'
    BY <1>1, <1>2, <1>3, <1>4, <1>5, <1>6 DEF IInv, TypeInv, TaskTypes
  <2> QED
    BY <2>1, <2>2, <2>3 DEF TypeInv
<1>8. IntegratedInv'
  BY <1>1, <1>4, <1>5 DEF IInv, IntegratedInv, Merged
<1>9. QuietInv'
  BY <1>6 DEF QuietInv
<1>10. StartedInv'
  BY <1>1 DEF IInv, StartedInv
<1>11. UntouchedInv'
  BY <1>1, <1>2, <1>3, <1>4, <1>5, <1>6 DEF IInv, UntouchedInv, NotStarted,
     Running
<1>12. ResumeInv'
  BY <1>1 DEF IInv, ResumeInv
<1>13. MergedIsResolved'
  BY <1>6 DEF MergedIsResolved
<1>14. MergingInv'
  BY <1>1 DEF MergingInv
<1>15. PassInv'
  BY <1>6 DEF PassInv
<1>16. PublishInv'
  BY <1>6 DEF PublishInv
<1>17. EndedInv'
  BY <1>4 DEF EndedInv, Ended
<1> QED
  BY <1>7, <1>8, <1>9, <1>10, <1>11, <1>12, <1>13, <1>14, <1>15, <1>16, <1>17
     DEF IInv

\* The outcome of the merge.
LEMMA MergeEndKeeps ==
    ASSUME IInv, MergeEnd
    PROVE  IInv'
<1>1. /\ mu = "merge" /\ scan.pc = "merge" /\ r7 = NoState /\ ~Ended /\ todo = {}
      /\ disk' = MergeOutcome /\ fresh' = {}
      /\ mem' = NoState /\ mu' = "free" /\ tally' = NoTally
      /\ scan' = [scan EXCEPT !.pc = IF tally.conflicts = {} THEN "sync" ELSE "publish",
                              !.conflicts = tally.conflicts]
      /\ UNCHANGED <<todo, branch, dirty, intg, seen, base, task, left,
                     completed, taskFailed, sig, asked, reporter,
                     resumeReq, r7, report, faults, calls>>
  BY DEF MergeEnd, IInv, IntegratedInv, EndedInv, gitVars, taskVars, askVars,
     hookVars
<1>2. mem \in File /\ tally \in Tally /\ scan \in Scan
  BY <1>1 DEF IInv, TypeInv, FileTypes
<1>3. /\ disk' \in File /\ disk'.wk = mem.wk /\ disk'.commitFailed = mem.commitFailed
      /\ disk'.integ \in {"created", "merged", "partial_merge", "conflict", "failed"}
      /\ disk'.integ = "merged" =>
            /\ tally.conflicts = {} /\ ~tally.skipped
            /\ tally.pre = "merged" \/ (~tally.conflictSkipped /\ Pending(mem) = {})
  BY <1>1, MergeEnds DEF IInv, MergingInv
<1>4. /\ scan' \in Scan /\ scan'.items = scan.items /\ scan'.ok = scan.ok
      /\ scan'.publish = scan.publish /\ tally' \in Tally
      /\ scan'.pc \in {"sync", "publish"}
      /\ scan'.pc = "sync" => tally.conflicts = {}
  BY <1>1, <1>2 DEF Scan, ScanPc, Tally, NoTally
<1>5. faults = 0 =>
         /\ tally.pre = "merged" => Pending(mem) \subseteq tally.conflicts
         /\ \A w \in Workers : w \in scan.ok => \/ mem.wk[w].status \in {"integrated", "absent"}
                                                \/ w \in tally.conflicts
  BY <1>1 DEF IInv, MergingInv
<1>6. TypeInv'
  <2>1. FileTypes'
    BY <1>1, <1>2, <1>3, <1>4, <1>5 DEF IInv, TypeInv, FileTypes
  <2>2. GitTypes'
    BY <1>1, <1>2, <1>3, <1>4, <1>5 DEF IInv, TypeInv, GitTypes
  <2>3. TaskTypes'
    BY <1>1, <1>2, <1>3, <1>4, <1>5 DEF IInv, TypeInv, TaskTypes
  <2> QED
    BY <2>1, <2>2, <2>3 DEF TypeInv
<1>7. IntegratedInv'
  BY <1>1, <1>3, <1>4 DEF IInv, IntegratedInv, Merged
<1>8. QuietInv'
  BY <1>1, <1>2, <1>3, <1>4, <1>5 DEF IInv, QuietInv, Untroubled
<1>9. StartedInv'
  BY <1>1 DEF IInv, StartedInv
<1>10. UntouchedInv'
  BY <1>1, <1>2, <1>3, <1>4, <1>5 DEF IInv, UntouchedInv, NotStarted, Running
<1>11. ResumeInv'
  BY <1>1 DEF IInv, ResumeInv
<1>12. MergedIsResolved'
  <2> SUFFICES ASSUME faults = 0, disk'.integ = "merged" PROVE Pending(disk)' = {}
    BY <1>1 DEF MergedIsResolved
  <2>1. Pending(mem) = {}
    BY <1>3, <1>5
  <2> QED
    BY <1>3, <2>1 DEF Pending
<1>13. MergingInv'
  BY <1>1 DEF MergingInv
<1>14. PassInv'
  BY <1>1, <1>3, <1>4, <1>5 DEF PassInv
<1>15. PublishInv'
  <2> SUFFICES ASSUME faults = 0, scan.publish
               PROVE  /\ \A w \in Workers : ~Running(w) /\ ~dirty[w]
                      /\ disk'.integ = "merged" => \A w \in Workers : branch[w] = intg[w]
    BY <1>1, <1>4 DEF PublishInv, Running
  <2>1. /\ \A w \in Workers : ~Running(w) /\ ~dirty[w]
        /\ Present(mem) \subseteq scan.ok
    BY <1>1 DEF IInv, PublishInv
  <2>2. ASSUME disk'.integ = "merged", NEW w \in Workers PROVE branch[w] = intg[w]
    <3>1. mem.wk[w].status \in {"integrated", "absent"}
      BY <1>3, <1>5, <2>1, <2>2 DEF Present
    <3> QED
      BY <1>1, <3>1 DEF IInv, IntegratedInv, Merged, UntouchedInv, NotStarted
  <2> QED
    BY <2>1, <2>2
<1>16. EndedInv'
  BY <1>3 DEF EndedInv, Ended
<1> QED
  BY <1>6, <1>7, <1>8, <1>9, <1>10, <1>11, <1>12, <1>13, <1>14, <1>15, <1>16
     DEF IInv

\* Clean worktrees that were not merged are brought up to date.
LEMMA ScanSyncKeeps ==
    ASSUME IInv, ScanSync
    PROVE  IInv'
<1>1. /\ scan.pc = "sync" /\ mu = "free" /\ r7 = NoState /\ ~Ended /\ fresh' = {}
      /\ scan' = [scan EXCEPT !.pc = "publish"]
      /\ UNCHANGED <<mem, mu, todo, tally, branch, dirty, intg, base, task,
                     left, completed, taskFailed, sig, asked, reporter,
                     resumeReq, r7, report, faults, calls>>
  BY DEF ScanSync, IInv, IntegratedInv, EndedInv, muVars, gitVars, taskVars,
     askVars, hookVars
<1>2. PICK targets \in SUBSET Workers, clash \in SUBSET Workers :
         /\ clash \subseteq targets
         /\ targets = {w \in scan.ok : /\ disk.wk[w].status \in {"created", "active", "committed"}
                                       /\ ~dirty[w]}
         /\ seen' = [w \in Workers |-> IF w \in targets \ clash THEN intg ELSE seen[w]]
         /\ disk' = [disk EXCEPT !.wk = [w \in Workers |->
                      CASE w \in clash           -> SetWorkerStatus(disk, w, "conflict").wk[w]
                        [] w \in targets \ clash -> SetWorkerStatus(disk, w, "active").wk[w]
                        [] OTHER                 -> disk.wk[w]]]
  <2>1. scan.ok \in SUBSET Workers
    BY DEF IInv, TypeInv, FileTypes, Scan
  <2> DEFINE T == {w \in scan.ok : /\ disk.wk[w].status \in {"created", "active", "committed"}
                                   /\ ~dirty[w]}
             C == {w \in T : branch[w] > intg[w] /\ MayConflict(w)}
  <2>2. T \in SUBSET Workers /\ C \in SUBSET T
    BY <2>1
  <2>3. \E clash \in SUBSET C :
           /\ seen' = [w \in Workers |-> IF w \in T \ clash THEN intg ELSE seen[w]]
           /\ disk' = [disk EXCEPT !.wk = [w \in Workers |->
                CASE w \in clash     -> SetWorkerStatus(disk, w, "conflict").wk[w]
                  [] w \in T \ clash -> SetWorkerStatus(disk, w, "active").wk[w]
                  [] OTHER           -> disk.wk[w]]]
    BY DEF ScanSync
  <2> HIDE DEF C
  <2> QED
    BY <2>2, <2>3
<1>3. /\ disk' \in File /\ disk'.integ = disk.integ /\ disk'.commitFailed = disk.commitFailed
      /\ \A w \in Workers : \/ disk'.wk[w].status = disk.wk[w].status
                            \/ /\ w \in targets
                               /\ disk'.wk[w].status \in {"conflict", "active"}
  <2> DEFINE wk == [w \in Workers |->
                CASE w \in clash           -> SetWorkerStatus(disk, w, "conflict").wk[w]
                  [] w \in targets \ clash -> SetWorkerStatus(disk, w, "active").wk[w]
                  [] OTHER                 -> disk.wk[w]]
  <2>1. disk \in File /\ {"conflict", "active"} \subseteq WorkerStatus
    BY DEF IInv, TypeInv, FileTypes, WorkerStatus
  <2>2. ASSUME NEW w \in Workers
        PROVE  /\ wk[w] \in WorkerRow
               /\ \/ wk[w].status = disk.wk[w].status
                  \/ w \in targets /\ wk[w].status \in {"conflict", "active"}
    <3>1. ASSUME NEW to \in {"conflict", "active"}
          PROVE  LET row == SetWorkerStatus(disk, w, to).wk[w]
                 IN row \in WorkerRow /\ row.status \in {disk.wk[w].status, to}
      BY <2>1, SettingWorker DEF File
    <3>2. disk.wk[w] \in WorkerRow
      BY <2>1 DEF File
    <3>3. \/ wk[w] = SetWorkerStatus(disk, w, "conflict").wk[w] /\ w \in targets
          \/ wk[w] = SetWorkerStatus(disk, w, "active").wk[w] /\ w \in targets
          \/ wk[w] = disk.wk[w]
      BY <1>2
    <3> HIDE DEF wk
    <3> QED
      BY <3>1, <3>2, <3>3
  <2>3. disk' = [disk EXCEPT !.wk = wk] /\ wk \in [Workers -> WorkerRow]
    BY <1>2, <2>2
  <2> HIDE DEF wk
  <2> QED
    BY <2>1, <2>2, <2>3 DEF File
<1>4. /\ scan' \in Scan /\ scan'.pc = "publish" /\ scan'.items = scan.items
      /\ scan'.ok = scan.ok /\ scan'.publish = scan.publish
  BY <1>1 DEF IInv, TypeInv, FileTypes, Scan, ScanPc
<1>5. seen' \in [Workers -> [Workers -> Nat]]
  BY <1>2 DEF IInv, TypeInv, GitTypes
<1>6. faults = 0 => targets = {}
  BY <1>1, <1>2 DEF IInv, PassInv
<1>7. \A w \in targets : disk.wk[w].status \in {"created", "active", "committed"}
  BY <1>2
<1>8. TypeInv'
  <2>1. FileTypes'
    BY <1>1, <1>2, <1>3, <1>4, <1>5, <1>6, <1>7 DEF IInv, TypeInv, FileTypes
  <2>2. GitTypes'
    BY <1>1, <1>2, <1>3, <1>4, <1>5, <1>6, <1>7 DEF IInv, TypeInv, GitTypes
  <2>3. TaskTypes'
    BY <1>1, <1>2, <1>3, <1>4, <1>5, <1>6, <1>7 DEF IInv, TypeInv, TaskTypes
  <2> QED
    BY <2>1, <2>2, <2>3 DEF TypeInv
<1>9. IntegratedInv'
  BY <1>1, <1>3, <1>4 DEF IInv, IntegratedInv, Merged
<1>10. QuietInv'
  BY <1>1, <1>2, <1>3, <1>4, <1>5, <1>6, <1>7 DEF IInv, QuietInv, Untroubled
<1>11. StartedInv'
  BY <1>1, <1>2, <1>3, <1>4, <1>5, <1>6, <1>7 DEF IInv, StartedInv
<1>12. UntouchedInv'
  BY <1>1, <1>2, <1>3, <1>4, <1>5, <1>6, <1>7 DEF IInv, UntouchedInv,
     NotStarted, Running
<1>13. ResumeInv'
  BY <1>1 DEF IInv, ResumeInv
<1>14. MergedIsResolved'
  <2>1. faults = 0 => Pending(disk)' = Pending(disk)
    BY <1>3, <1>6 DEF Pending
  <2> QED
    BY <1>1, <1>3, <2>1 DEF IInv, MergedIsResolved
<1>15. MergingInv'
  BY <1>1 DEF MergingInv
<1>16. PassInv'
  BY <1>4 DEF PassInv
<1>17. PublishInv'
  BY <1>1, <1>3, <1>4 DEF IInv, PublishInv, Running
<1>18. EndedInv'
  BY <1>1, <1>2, <1>3, <1>4, <1>5, <1>6, <1>7 DEF IInv, EndedInv, Ended
<1> QED
  BY <1>8, <1>9, <1>10, <1>11, <1>12, <1>13, <1>14, <1>15, <1>16, <1>17, <1>18
     DEF IInv

\* The base branch gets what the integration branch has.
LEMMA ScanPublishKeeps ==
    ASSUME IInv, ScanPublish
    PROVE  IInv'
<1>1. /\ scan.pc = "publish" /\ mu = "free" /\ r7 = NoState /\ ~Ended
      /\ scan' = [scan EXCEPT !.pc = "apply", !.ok = {}, !.publish = FALSE]
      /\ UNCHANGED <<mem, mu, todo, tally, branch, dirty, intg, seen, task,
                     left, completed, taskFailed, fresh, sig, asked,
                     reporter, resumeReq, r7, report, faults, calls>>
  BY DEF ScanPublish, IInv, IntegratedInv, EndedInv, muVars, gitVars, taskVars,
     askVars, hookVars
<1>2. /\ scan' \in Scan /\ scan'.pc = "apply" /\ scan'.items = scan.items /\ scan'.ok = {}
      /\ ~scan'.publish
  BY <1>1 DEF IInv, TypeInv, FileTypes, Scan, ScanPc
<1>3. /\ disk' \in File /\ disk'.wk = disk.wk /\ disk'.commitFailed = disk.commitFailed
      /\ base' \in [Workers -> Nat]
      /\ \/ disk'.integ = disk.integ
         \/ scan.publish /\ disk.integ = "merged" /\ disk'.integ = "published" /\ base' = intg
  <2>1. disk \in File /\ base \in [Workers -> Nat] /\ intg \in [Workers -> Nat]
    BY DEF IInv, TypeInv, FileTypes, GitTypes
  <2>2. CASE UNCHANGED <<disk, base>>
    BY <2>1, <2>2
  <2>3. CASE /\ scan.publish /\ disk.integ = "merged"
             /\ disk' = [disk EXCEPT !.integ = "published"] /\ base' = intg
    BY <2>1, <2>3 DEF File, IntegrationStatus
  <2> QED
    BY <2>2, <2>3 DEF ScanPublish
<1>4. Pending(disk)' = Pending(disk)
  BY <1>3 DEF Pending
<1>5. TypeInv'
  <2>1. FileTypes'
    BY <1>1, <1>2, <1>3, <1>4 DEF IInv, TypeInv, FileTypes
  <2>2. GitTypes'
    BY <1>1, <1>2, <1>3, <1>4 DEF IInv, TypeInv, GitTypes
  <2>3. TaskTypes'
    BY <1>1, <1>2, <1>3, <1>4 DEF IInv, TypeInv, TaskTypes
  <2> QED
    BY <2>1, <2>2, <2>3 DEF TypeInv
<1>6. IntegratedInv'
  BY <1>1, <1>2, <1>3, <1>4 DEF IInv, IntegratedInv, Merged, Within
<1>7. QuietInv'
  BY <1>1, <1>2, <1>3, <1>4 DEF IInv, QuietInv, Untroubled
<1>8. StartedInv'
  BY <1>1, <1>2, <1>3, <1>4 DEF IInv, StartedInv
<1>9. UntouchedInv'
  BY <1>1, <1>2, <1>3, <1>4 DEF IInv, UntouchedInv, NotStarted, Running
<1>10. ResumeInv'
  BY <1>1 DEF IInv, ResumeInv
<1>11. MergedIsResolved'
  BY <1>1, <1>3, <1>4 DEF IInv, MergedIsResolved
<1>12. MergingInv'
  BY <1>1 DEF MergingInv
<1>13. PassInv'
  BY <1>2 DEF PassInv
<1>14. PublishInv'
  BY <1>2 DEF PublishInv
<1>15. EndedInv'
  BY <1>1, <1>2, <1>3 DEF IInv, EndedInv, Ended, PublishInv
<1> QED
  BY <1>5, <1>6, <1>7, <1>8, <1>9, <1>10, <1>11, <1>12, <1>13, <1>14, <1>15 DEF
     IInv

-----------------------------------------------------------------------------
(* Phase C and R7.                                                          *)

\* Conflicts become resolution requests.
LEMMA ScanApplyKeeps ==
    ASSUME IInv, ScanApply
    PROVE  IInv'
<1>1. /\ ~Ended /\ scan.pc = "apply" /\ mu = "free" /\ r7 = NoState
      /\ fresh' \in {fresh, {}} /\ asked' = asked \cup scan.conflicts
      /\ scan' = [scan EXCEPT !.pc = "reconcile", !.conflicts = {}]
      /\ UNCHANGED <<mem, mu, todo, tally, branch, dirty, intg, seen, base,
                     task, left, completed, taskFailed, reporter,
                     resumeReq, r7, report, faults, calls>>
  BY DEF ScanApply, IInv, IntegratedInv, muVars, gitVars, taskVars, askVars,
     hookVars
<1>2. scan \in Scan /\ scan.conflicts \in SUBSET Workers /\ disk \in File
  BY DEF IInv, TypeInv, FileTypes, Scan
<1>3. PICK sent \in SUBSET Workers :
         /\ disk' = WithStatus(disk, sent, "resolving") /\ sig' \in SUBSET Workers
         /\ \A w \in sent : WorkerTransition(disk.wk[w].status, "resolving")
  <2> DEFINE open == sig \cup scan.conflicts
             sent == {w \in open : WorkerTransition(disk.wk[w].status, "resolving")}
  <2>1. open \in SUBSET Workers /\ sent \in SUBSET Workers
    BY <1>2 DEF IInv, TypeInv, TaskTypes
  <2>2. disk' = WithStatus(disk, sent, "resolving") /\ sig' = open \ sent
    BY DEF ScanApply
  <2> QED
    BY <2>1, <2>2
<1>4. /\ disk' \in File /\ disk'.integ = disk.integ /\ disk'.commitFailed = disk.commitFailed
      /\ \A w \in Workers : \/ disk'.wk[w].status = disk.wk[w].status
                            \/ disk.wk[w].status = "conflict" /\ disk'.wk[w].status = "resolving"
  <2>1. "resolving" \in WorkerStatus
    BY DEF WorkerStatus
  <2> DEFINE t == WithStatus(disk, sent, "resolving")
  <2>2. /\ t \in File /\ t.integ = disk.integ /\ t.commitFailed = disk.commitFailed
        /\ \A w \in Workers : t.wk[w].status = IF w \in sent THEN "resolving"
                                               ELSE disk.wk[w].status
    BY <1>2, <2>1, SettingStatus
  <2>3. \A w \in sent : disk.wk[w].status = "conflict"
    <3>1. \A w \in sent : disk.wk[w].status \in WorkerStatus
      BY <1>2, <1>3 DEF File, WorkerRow
    <3> QED
      BY <1>3, <2>1, <3>1, WorkerTransitions
  <2>4. disk' = t
    BY <1>3
  <2> HIDE DEF t
  <2> QED
    BY <2>2, <2>3, <2>4
<1>5. /\ scan' \in Scan /\ scan'.pc = "reconcile" /\ scan'.items = scan.items
      /\ scan'.ok = scan.ok /\ scan'.publish = scan.publish
  BY <1>1, <1>2 DEF Scan, ScanPc
<1>6. Pending(disk)' = Pending(disk)
  BY <1>4 DEF Pending, PendingResolution
<1>7. TypeInv'
  <2>1. FileTypes'
    BY <1>1, <1>2, <1>3, <1>4, <1>5, <1>6 DEF IInv, TypeInv, FileTypes
  <2>2. GitTypes'
    BY <1>1, <1>2, <1>3, <1>4, <1>5, <1>6 DEF IInv, TypeInv, GitTypes
  <2>3. TaskTypes'
    BY <1>1, <1>2, <1>3, <1>4, <1>5, <1>6 DEF IInv, TypeInv, TaskTypes
  <2> QED
    BY <2>1, <2>2, <2>3 DEF TypeInv
<1>8. IntegratedInv'
  BY <1>1, <1>2, <1>3, <1>4, <1>5, <1>6 DEF IInv, IntegratedInv, Merged, Within
<1>9. QuietInv'
  BY <1>1, <1>2, <1>3, <1>4, <1>5, <1>6 DEF IInv, QuietInv, Untroubled
<1>10. StartedInv'
  BY <1>1, <1>2, <1>3, <1>4, <1>5, <1>6 DEF IInv, StartedInv
<1>11. UntouchedInv'
  BY <1>1, <1>2, <1>3, <1>4, <1>5, <1>6 DEF IInv, UntouchedInv, NotStarted,
     Running
<1>12. ResumeInv'
  BY <1>1 DEF IInv, ResumeInv
<1>13. MergedIsResolved'
  BY <1>1, <1>4, <1>6 DEF IInv, MergedIsResolved
<1>14. MergingInv'
  BY <1>1 DEF MergingInv
<1>15. PassInv'
  BY <1>5 DEF PassInv
<1>16. PublishInv'
  BY <1>1, <1>5 DEF IInv, PublishInv
<1>17. EndedInv'
  BY <1>1, <1>2, <1>3, <1>4, <1>5, <1>6 DEF IInv, EndedInv, Ended
<1> QED
  BY <1>7, <1>8, <1>9, <1>10, <1>11, <1>12, <1>13, <1>14, <1>15, <1>16, <1>17
     DEF IInv

\* R7 loads the state file.
LEMMA R7LoadKeeps ==
    ASSUME IInv, R7Load
    PROVE  IInv'
<1>1. /\ ~Ended /\ scan.pc = "reconcile" /\ r7 = NoState
      /\ r7' = IF disk.integ \in {"conflict", "partial_merge"} THEN disk ELSE NoState
      /\ scan' = [scan EXCEPT !.pc = "r7"]
      /\ UNCHANGED <<disk, mem, mu, todo, tally, branch, dirty, intg, seen,
                     base, task, left, completed, taskFailed, fresh, sig,
                     asked, reporter, resumeReq, report, faults, calls>>
  BY DEF R7Load, IInv, IntegratedInv, muVars, gitVars, taskVars, askVars,
     hookVars
<1>2. /\ scan' \in Scan /\ scan'.pc = "r7" /\ scan'.items = scan.items
      /\ scan'.ok = scan.ok /\ scan'.publish = scan.publish
  BY <1>1 DEF IInv, TypeInv, FileTypes, Scan, ScanPc
<1>3. TypeInv'
  <2>1. FileTypes'
    BY <1>1, <1>2 DEF IInv, TypeInv, FileTypes
  <2>2. GitTypes'
    BY <1>1, <1>2 DEF IInv, TypeInv, GitTypes
  <2>3. TaskTypes'
    BY <1>1, <1>2 DEF IInv, TypeInv, TaskTypes
  <2> QED
    BY <2>1, <2>2, <2>3 DEF TypeInv
<1>4. IntegratedInv'
  BY <1>1, <1>2 DEF IInv, IntegratedInv, Merged, Within
<1>5. QuietInv'
  BY <1>1, <1>2 DEF IInv, QuietInv, Untroubled
<1>6. StartedInv'
  BY <1>1, <1>2 DEF IInv, StartedInv
<1>7. UntouchedInv'
  BY <1>1, <1>2 DEF IInv, UntouchedInv, NotStarted, Running
<1>8. ResumeInv'
  BY <1>1, <1>2 DEF IInv, ResumeInv
<1>9. MergedIsResolved'
  BY <1>1, <1>2 DEF IInv, MergedIsResolved, Pending
<1>10. MergingInv'
  BY <1>1, <1>2 DEF IInv, IntegratedInv, MergingInv
<1>11. PassInv'
  BY <1>2 DEF PassInv
<1>12. PublishInv'
  BY <1>1, <1>2 DEF IInv, PublishInv
<1>13. EndedInv'
  BY <1>1, <1>2 DEF IInv, EndedInv, Ended
<1> QED
  BY <1>3, <1>4, <1>5, <1>6, <1>7, <1>8, <1>9, <1>10, <1>11, <1>12, <1>13 DEF
     IInv

\* R7 writes back what it computed.
LEMMA R7WriteKeeps ==
    ASSUME IInv, R7Write
    PROVE  IInv'
<1>1. /\ ~Ended /\ scan.pc = "r7" /\ r7' = NoState
      /\ scan' = [scan EXCEPT !.pc = "idle"]
      /\ UNCHANGED <<mem, mu, todo, tally, branch, dirty, intg, seen, base,
                     task, left, completed, taskFailed, sig, reporter,
                     resumeReq, report, faults, calls>>
  BY DEF R7Write, R7WriteBack, IInv, IntegratedInv, muVars, gitVars, taskVars,
     askVars, hookVars
<1>2. /\ scan' \in Scan /\ scan'.pc = "idle" /\ scan'.items = scan.items
      /\ scan'.ok = scan.ok /\ scan'.publish = scan.publish
  BY <1>1 DEF IInv, TypeInv, FileTypes, Scan, ScanPc
<1>3. /\ disk' \in File /\ asked' \in SUBSET Workers /\ fresh' \in SUBSET Workers
      /\ \/ disk' = disk
         \/ /\ r7 # NoState /\ disk'.integ = r7.integ /\ disk'.commitFailed = r7.commitFailed
            /\ \A w \in Workers : \/ disk'.wk[w].status = r7.wk[w].status
                                  \/ /\ disk'.wk[w].status \in PendingResolution
                                     /\ r7.wk[w].status \in PendingResolution
  <2>1. /\ disk \in File /\ asked \in SUBSET Workers /\ fresh \in SUBSET Workers
        /\ r7 # NoState => r7 \in File
    BY DEF IInv, TypeInv, FileTypes, TaskTypes
  <2>2. PICK stalled : R7WriteBack(stalled)
    BY DEF R7Write
  <2>3. CASE r7 = NoState
    BY <2>1, <2>2, <2>3 DEF R7WriteBack
  <2>4. CASE r7 # NoState
    <3> DEFINE wk == [w \in Workers |-> R7Row(r7.wk[w], w \in stalled)]
    <3>1. /\ asked' = asked \cup {w \in Workers : wk[w].attempts > r7.wk[w].attempts}
          /\ disk' = IF wk = r7.wk THEN disk ELSE [r7 EXCEPT !.wk = wk]
          /\ fresh' = IF wk = r7.wk THEN fresh ELSE {}
      BY <2>2, <2>4 DEF R7WriteBack
    <3>2. ASSUME NEW w \in Workers
          PROVE  /\ wk[w] \in WorkerRow
                 /\ \/ wk[w].status = r7.wk[w].status
                    \/ wk[w].status \in PendingResolution /\ r7.wk[w].status \in PendingResolution
      <4> DEFINE row == r7.wk[w]
                 status == IF row.status = "resolving" /\ w \in stalled THEN "conflict"
                           ELSE row.status
      <4>1. row \in WorkerRow
        BY <2>1, <2>4 DEF File
      <4>2. wk[w] = IF status # "conflict" THEN [row EXCEPT !.status = status]
                    ELSE IF row.attempts >= MaxConflictResolutionAttempts
                    THEN [row EXCEPT !.status = status, !.escalated = TRUE]
                    ELSE [row EXCEPT !.status = "resolving", !.attempts = @ + 1]
        BY DEF R7Row
      <4>3. /\ status \in WorkerStatus /\ "resolving" \in WorkerStatus
            /\ status = row.status \/ ({status, row.status} \subseteq PendingResolution)
        BY <4>1 DEF WorkerRow, WorkerStatus, PendingResolution
      <4>4. "resolving" \in PendingResolution /\ "conflict" \in PendingResolution
        BY DEF PendingResolution
      <4> HIDE DEF wk, status, row
      <4>5. CASE status # "conflict"
        <5>1. wk[w] = [row EXCEPT !.status = status]
          BY <4>2, <4>5
        <5> QED
          BY <4>1, <4>3, <5>1 DEF WorkerRow, row
      <4>6. CASE status = "conflict" /\ row.attempts >= MaxConflictResolutionAttempts
        <5>1. wk[w] = [row EXCEPT !.status = status, !.escalated = TRUE]
          BY <4>2, <4>6
        <5> QED
          BY <4>1, <4>3, <5>1 DEF WorkerRow, row
      <4>7. CASE status = "conflict" /\ ~(row.attempts >= MaxConflictResolutionAttempts)
        <5>1. wk[w] = [row EXCEPT !.status = "resolving", !.attempts = @ + 1]
          BY <4>2, <4>7
        <5>2. row.status \in PendingResolution
          BY <4>3, <4>4, <4>7
        <5> DEFINE next == row.attempts + 1
        <5>3. wk[w] = [row EXCEPT !.status = "resolving", !.attempts = next] /\ next \in Nat
          BY <4>1, <5>1 DEF WorkerRow
        <5> HIDE DEF next
        <5>4. wk[w] \in WorkerRow /\ wk[w].status = "resolving"
          BY <4>1, <4>3, <5>3 DEF WorkerRow
        <5> QED
          BY <4>4, <5>2, <5>4 DEF row
      <4> QED
        BY <4>5, <4>6, <4>7
    <3>3. wk \in [Workers -> WorkerRow]
      BY <3>2
    <3> HIDE DEF wk
    <3>4. asked' \in SUBSET Workers /\ fresh' \in SUBSET Workers
      BY <2>1, <3>1
    <3>5. disk' = disk \/ disk' = [r7 EXCEPT !.wk = wk]
      BY <3>1
    <3> QED
      BY <2>1, <2>4, <3>2, <3>3, <3>4, <3>5 DEF File
  <2> QED
    BY <2>3, <2>4
<1>4. TypeInv'
  <2>1. FileTypes'
    BY <1>1, <1>2, <1>3 DEF IInv, TypeInv, FileTypes
  <2>2. GitTypes'
    BY <1>1, <1>2, <1>3 DEF IInv, TypeInv, GitTypes
  <2>3. TaskTypes'
    BY <1>1, <1>2, <1>3 DEF IInv, TypeInv, TaskTypes
  <2> QED
    BY <2>1, <2>2, <2>3 DEF TypeInv
<1>5. IntegratedInv'
  BY <1>1, <1>2, <1>3 DEF IInv, IntegratedInv, Merged, Within,
     PendingResolution
<1>6. QuietInv'
  BY <1>1, <1>3 DEF IInv, QuietInv, Untroubled, PendingResolution
<1>7. StartedInv'
  BY <1>1, <1>2, <1>3 DEF IInv, StartedInv
<1>8. UntouchedInv'
  BY <1>1, <1>3 DEF IInv, UntouchedInv, NotStarted, Running, PendingResolution
<1>9. ResumeInv'
  BY <1>1, <1>2, <1>3 DEF IInv, ResumeInv, ResumeStatus
<1>10. MergedIsResolved'
  <2>1. CASE disk' = disk
    BY <1>1, <2>1 DEF IInv, MergedIsResolved, Pending
  <2>2. CASE r7 # NoState /\ disk'.integ = r7.integ
    BY <2>2 DEF IInv, ResumeInv, MergedIsResolved
  <2> QED
    BY <1>3, <2>1, <2>2
<1>11. MergingInv'
  BY <1>1 DEF IInv, IntegratedInv, MergingInv
<1>12. PassInv'
  BY <1>2 DEF PassInv
<1>13. PublishInv'
  BY <1>1, <1>2 DEF IInv, PublishInv
<1>14. EndedInv'
  BY <1>1, <1>3 DEF IInv, EndedInv, Ended, ResumeInv
<1> QED
  BY <1>4, <1>5, <1>6, <1>7, <1>8, <1>9, <1>10, <1>11, <1>12, <1>13, <1>14 DEF
     IInv

-----------------------------------------------------------------------------
(* Recovery.                                                                *)

\* ResumeMerge loads the state.
LEMMA ResumeBeginKeeps ==
    ASSUME IInv, ResumeBegin
    PROVE  IInv'
<1>1. /\ ~Ended /\ mu = "free" /\ scan.pc # "merge" /\ disk.integ \in ResumeStatus
      /\ resumeReq' = FALSE /\ mu' = "resume"
      /\ tally' = [NoTally EXCEPT !.set = Pending(disk)]
      /\ UNCHANGED <<disk, branch, dirty, intg, seen, base, task, left,
                     completed, taskFailed, fresh, sig, asked, reporter,
                     scan, r7, report, calls>>
  BY DEF ResumeBegin, IInv, IntegratedInv, muVars, gitVars, taskVars, askVars,
     hookVars
<1>2. /\ mem' \in File /\ mem'.integ = disk.integ /\ mem'.commitFailed = disk.commitFailed
      /\ \A w \in Workers : \/ mem'.wk[w].status = disk.wk[w].status
                            \/ /\ disk.wk[w].status \in PendingResolution
                               /\ mem'.wk[w].status = "active"
      /\ todo' \subseteq Pending(disk) /\ faults' \in {faults, faults + 1}
  <2> DEFINE wk == [w \in Workers |->
                IF w \in Pending(disk) THEN SetWorkerStatus(disk, w, "active").wk[w]
                ELSE disk.wk[w]]
  <2>1. disk \in File /\ "active" \in WorkerStatus
    BY DEF IInv, TypeInv, FileTypes, WorkerStatus
  <2>2. ASSUME NEW w \in Workers
        PROVE  /\ wk[w] \in WorkerRow
               /\ \/ wk[w].status = disk.wk[w].status
                  \/ disk.wk[w].status \in PendingResolution /\ wk[w].status = "active"
    <3>1. LET row == SetWorkerStatus(disk, w, "active").wk[w]
          IN row \in WorkerRow /\ row.status \in {disk.wk[w].status, "active"}
      BY <2>1, SettingWorker DEF File
    <3>2. disk.wk[w] \in WorkerRow
      BY <2>1 DEF File
    <3>3. \/ /\ wk[w] = SetWorkerStatus(disk, w, "active").wk[w]
             /\ disk.wk[w].status \in PendingResolution
          \/ wk[w] = disk.wk[w]
      BY DEF Pending
    <3> HIDE DEF wk
    <3> QED
      BY <3>1, <3>2, <3>3
  <2>3. wk \in [Workers -> WorkerRow]
    BY <2>2
  <2>4. \/ mem' = disk /\ todo' = Pending(disk) /\ faults' = faults
        \/ mem' = [disk EXCEPT !.wk = wk] /\ todo' = {} /\ faults' = faults + 1
    BY DEF ResumeBegin
  <2> HIDE DEF wk
  <2>5. CASE mem' = disk /\ todo' = Pending(disk) /\ faults' = faults
    BY <2>1, <2>5
  <2>6. CASE mem' = [disk EXCEPT !.wk = wk] /\ todo' = {} /\ faults' = faults + 1
    BY <2>1, <2>2, <2>3, <2>6 DEF File
  <2> QED
    BY <2>4, <2>5, <2>6
<1>3. faults \in Nat /\ faults' \in Nat /\ (faults' = 0 => faults = 0)
  BY <1>2 DEF IInv, TypeInv, TaskTypes
<1>4. /\ todo' \in SUBSET Workers /\ tally' \in Tally
      /\ \A w \in Workers : w \in todo' => disk.wk[w].status \in PendingResolution
  BY <1>1, <1>2 DEF Pending, Tally, NoTally
<1>5. TypeInv'
  <2>1. FileTypes'
    BY <1>1, <1>2, <1>3, <1>4 DEF IInv, TypeInv, FileTypes
  <2>2. GitTypes'
    BY <1>1, <1>2, <1>3, <1>4 DEF IInv, TypeInv, GitTypes
  <2>3. TaskTypes'
    BY <1>1, <1>2, <1>3, <1>4 DEF IInv, TypeInv, TaskTypes
  <2> QED
    BY <2>1, <2>2, <2>3 DEF TypeInv
<1>6. IntegratedInv'
  BY <1>1, <1>2, <1>4 DEF IInv, IntegratedInv, Merged, Within,
     PendingResolution
<1>7. QuietInv'
  BY <1>1, <1>2, <1>3 DEF IInv, QuietInv, Untroubled
<1>8. StartedInv'
  BY <1>1 DEF IInv, StartedInv, ResumeStatus
<1>9. UntouchedInv'
  BY <1>1, <1>2 DEF IInv, UntouchedInv, NotStarted, Running, PendingResolution
<1>10. ResumeInv'
  BY <1>1, <1>2, <1>4 DEF IInv, ResumeInv
<1>11. MergedIsResolved'
  BY <1>1 DEF MergedIsResolved
<1>12. MergingInv'
  BY <1>1 DEF MergingInv
<1>13. PassInv'
  BY <1>1, <1>3 DEF IInv, PassInv
<1>14. PublishInv'
  BY <1>1, <1>3 DEF IInv, PublishInv, Running
<1>15. EndedInv'
  BY <1>1 DEF EndedInv, Ended
<1> QED
  BY <1>5, <1>6, <1>7, <1>8, <1>9, <1>10, <1>11, <1>12, <1>13, <1>14, <1>15 DEF
     IInv

\* What two status changes of the same worker make of the state.
LEMMA SettingTwice ==
    ASSUME NEW s \in File, NEW w \in Workers, NEW to \in {"integrated", "active", "conflict"}
    PROVE  LET t == SetWorkerStatus(SetWorkerStatus(s, w, "resolving"), w, to)
           IN /\ t \in File /\ t.integ = s.integ /\ t.commitFailed = s.commitFailed
              /\ \A v \in Workers : v # w => t.wk[v] = s.wk[v]
              /\ t.wk[w].status \in {s.wk[w].status, "resolving", to}
              /\ t.wk[w].status = "absent" <=> s.wk[w].status = "absent"
<1> DEFINE u == SetWorkerStatus(s, w, "resolving")
           t == SetWorkerStatus(u, w, to)
<1>1. to \in WorkerStatus /\ "resolving" \in WorkerStatus /\ to # "absent"
  BY DEF WorkerStatus
<1>2. /\ u \in File /\ u.integ = s.integ /\ u.commitFailed = s.commitFailed
      /\ \A v \in Workers : v # w => u.wk[v] = s.wk[v]
      /\ u.wk[w].status = IF WorkerTransition(s.wk[w].status, "resolving") THEN "resolving"
                          ELSE s.wk[w].status
  BY <1>1, SettingWorker
<1> HIDE DEF u
<1>3. /\ t \in File /\ t.integ = u.integ /\ t.commitFailed = u.commitFailed
      /\ \A v \in Workers : v # w => t.wk[v] = u.wk[v]
      /\ t.wk[w].status = IF WorkerTransition(u.wk[w].status, to) THEN to
                          ELSE u.wk[w].status
  BY <1>1, <1>2, SettingWorker
<1> HIDE DEF t
<1>4. s.wk[w].status \in WorkerStatus
  BY DEF File, WorkerRow
<1>5. s.wk[w].status = "absent" => t.wk[w].status = "absent"
  BY <1>1, <1>2, <1>3, <1>4, WorkerTransitions
<1>6. s.wk[w].status # "absent" => t.wk[w].status # "absent"
  BY <1>1, <1>2, <1>3
<1>7. t.wk[w].status \in {s.wk[w].status, "resolving", to}
  BY <1>2, <1>3
<1>8. t = SetWorkerStatus(SetWorkerStatus(s, w, "resolving"), w, to)
  BY DEF t, u
<1> QED
  BY <1>2, <1>3, <1>5, <1>6, <1>7, <1>8

\* ResumeMerge works on one worker.
LEMMA ResumeWorkerKeeps ==
    ASSUME IInv, ResumeWorker
    PROVE  IInv'
<1>1. /\ mu = "resume" /\ scan.pc # "merge" /\ ~Ended
      /\ disk.integ \in ResumeStatus
      /\ UNCHANGED <<disk, mu, tally, seen, base, task, left, completed,
                     taskFailed, fresh, sig, asked, reporter, resumeReq,
                     scan, r7, report, calls>>
  <2>1. mu = "resume"
    BY DEF ResumeWorker
  <2>2. scan.pc # "merge" /\ ~Ended /\ disk.integ \in ResumeStatus
    BY <2>1 DEF IInv, IntegratedInv, EndedInv, ResumeInv
  <2> QED
    BY <2>1, <2>2 DEF ResumeWorker, taskVars, askVars, hookVars
<1>2. PICK w \in Workers :
         /\ w \in todo /\ todo' = todo \ {w}
         /\ ResumeDeferred(w) \/ ResumeForced(w) \/ ResumeCommitFails(w)
  <2>1. todo # {} /\ todo \in SUBSET Workers
    BY DEF ResumeWorker, IInv, TypeInv, FileTypes
  <2>2. Min(todo) \in todo /\ Min(todo) \in Workers
    BY <2>1, MinIsIn
  <2> QED
    BY <2>2 DEF ResumeWorker
<1>3. /\ mem \in File /\ mem.wk[w].status \in WorkerStatus /\ faults \in Nat
      /\ branch \in [Workers -> Nat] /\ intg \in [Workers -> Nat]
      /\ dirty \in [Workers -> BOOLEAN]
      /\ branch[w] \in Nat /\ intg[w] \in Nat /\ intg[w] <= branch[w]
  BY <1>1 DEF IInv, IntegratedInv, TypeInv, FileTypes, GitTypes, TaskTypes,
     File, WorkerRow
<1>4. /\ mem.wk[w].status # "integrated" /\ disk.wk[w].status # "integrated"
      /\ r7 # NoState => r7.wk[w].status # "integrated"
  BY <1>1, <1>2 DEF IInv, IntegratedInv, Within
<1>5. /\ branch' \in [Workers -> Nat] /\ intg' \in [Workers -> Nat]
      /\ dirty' \in [Workers -> BOOLEAN] /\ faults' \in {faults, faults + 1}
      /\ \A v \in Workers : v # w => /\ branch'[v] = branch[v] /\ intg'[v] = intg[v]
                                    /\ dirty'[v] = dirty[v]
      /\ branch'[w] \in {branch[w], branch[w] + 1} /\ (branch'[w] # branch[w] => dirty[w])
      /\ intg'[w] \in {intg[w], branch'[w]} /\ (dirty'[w] => dirty[w])
  <2> DEFINE tip == IF dirty[w] THEN branch[w] + 1 ELSE branch[w]
  <2>1. CASE ResumeDeferred(w)
    BY <1>3, <2>1 DEF ResumeDeferred
  <2>2. CASE ResumeCommitFails(w)
    BY <1>3, <2>2 DEF ResumeCommitFails
  <2>3. CASE ResumeForced(w)
    <3>1. /\ branch' = [branch EXCEPT ![w] = tip] /\ dirty' = [dirty EXCEPT ![w] = FALSE]
          /\ intg' = intg \/ intg' = [intg EXCEPT ![w] = tip]
          /\ faults' = faults \/ faults' = faults + 1
      BY <2>3 DEF ResumeForced
    <3>2. tip \in Nat /\ tip \in {branch[w], branch[w] + 1} /\ (tip # branch[w] => dirty[w])
      BY <1>3
    <3> HIDE DEF tip
    <3> QED
      BY <1>3, <3>1, <3>2
  <2> QED
    BY <1>2, <2>1, <2>2, <2>3
<1>6. /\ mem' \in File /\ mem'.integ = mem.integ /\ mem'.commitFailed = mem.commitFailed
      /\ \A v \in Workers : v # w => mem'.wk[v] = mem.wk[v]
      /\ mem'.wk[w].status \in {mem.wk[w].status, "resolving", "integrated", "active", "conflict"}
      /\ mem'.wk[w].status = "absent" <=> mem.wk[w].status = "absent"
      /\ mem'.wk[w].status = "integrated" => branch'[w] = intg'[w]
  <2> DEFINE tip == IF dirty[w] THEN branch[w] + 1 ELSE branch[w]
             to(x) == SetWorkerStatus(SetWorkerStatus(mem, w, "resolving"), w, x)
  <2>1. ASSUME NEW x \in {"integrated", "active", "conflict"}, mem' = to(x),
               x = "integrated" => branch'[w] = intg'[w]
        PROVE  /\ mem' \in File /\ mem'.integ = mem.integ
               /\ mem'.commitFailed = mem.commitFailed
               /\ \A v \in Workers : v # w => mem'.wk[v] = mem.wk[v]
               /\ mem'.wk[w].status \in {mem.wk[w].status, "resolving", "integrated",
                                         "active", "conflict"}
               /\ mem'.wk[w].status = "absent" <=> mem.wk[w].status = "absent"
               /\ mem'.wk[w].status = "integrated" => branch'[w] = intg'[w]
    <3>1. /\ to(x) \in File /\ to(x).integ = mem.integ /\ to(x).commitFailed = mem.commitFailed
          /\ \A v \in Workers : v # w => to(x).wk[v] = mem.wk[v]
          /\ to(x).wk[w].status \in {mem.wk[w].status, "resolving", x}
          /\ to(x).wk[w].status = "absent" <=> mem.wk[w].status = "absent"
      BY <1>3, SettingTwice
    <3> HIDE DEF to
    <3> QED
      BY <1>4, <2>1, <3>1
  <2>2. CASE ResumeDeferred(w)
    BY <1>3, <1>4, <2>2 DEF ResumeDeferred
  <2>3. CASE ResumeCommitFails(w)
    <3>1. mem' = to("conflict")
      BY <2>3 DEF ResumeCommitFails
    <3> HIDE DEF to
    <3> QED
      BY <2>1, <3>1
  <2>4. CASE ResumeForced(w)
    <3>1. /\ branch' = [branch EXCEPT ![w] = tip]
          /\ \/ mem' = to("integrated") /\ tip = intg[w] /\ intg' = intg
             \/ mem' = to("active")
             \/ mem' = to("integrated") /\ intg' = [intg EXCEPT ![w] = tip]
             \/ mem' = to("conflict")
      BY <2>4 DEF ResumeForced
    <3> HIDE DEF to, tip
    <3>2. branch'[w] = tip
      BY <1>3, <3>1
    <3> QED
      BY <1>3, <2>1, <3>1, <3>2
  <2> QED
    BY <1>2, <2>2, <2>3, <2>4
<1>7. faults' \in Nat /\ (faults' = 0 => faults = 0)
  BY <1>3, <1>5
<1>8. todo' \in SUBSET Workers
  BY <1>2 DEF IInv, TypeInv, FileTypes
<1>9. TypeInv'
  <2>1. FileTypes'
    BY <1>1, <1>2, <1>3, <1>4, <1>5, <1>6, <1>7, <1>8 DEF IInv, TypeInv,
       FileTypes
  <2>2. GitTypes'
    BY <1>1, <1>2, <1>3, <1>4, <1>5, <1>6, <1>7, <1>8 DEF IInv, TypeInv,
       GitTypes
  <2>3. TaskTypes'
    BY <1>1, <1>2, <1>3, <1>4, <1>5, <1>6, <1>7, <1>8 DEF IInv, TypeInv,
       TaskTypes
  <2> QED
    BY <2>1, <2>2, <2>3 DEF TypeInv
<1>10. IntegratedInv'
  <2>1. \A v \in Workers : intg'[v] <= branch'[v]
    BY <1>3, <1>5 DEF IInv, IntegratedInv
  <2>2. Merged(disk)' /\ Merged(mem)'
    BY <1>1, <1>4, <1>5, <1>6 DEF IInv, IntegratedInv, Merged
  <2>3. Within(disk, mem)' /\ (r7 # NoState => Within(r7, mem)')
    BY <1>1, <1>4, <1>6 DEF IInv, IntegratedInv, Within
  <2>4. \A v \in Workers : v \in todo' => mem'.wk[v].status # "integrated"
    BY <1>1, <1>2, <1>6 DEF IInv, IntegratedInv
  <2> QED
    BY <1>1, <2>1, <2>2, <2>3, <2>4 DEF IInv, IntegratedInv, Within
<1>11. QuietInv'
  BY <1>1, <1>6, <1>7 DEF IInv, QuietInv, Untroubled
<1>12. StartedInv'
  BY <1>1 DEF IInv, StartedInv
<1>13. UntouchedInv'
  <2>1. ASSUME NEW s, NotStarted(s), s.wk[w].status = "absent"
        PROVE  ~dirty'[w] /\ branch'[w] = 0 /\ intg'[w] = 0
    BY <1>5, <2>1 DEF NotStarted
  <2>2. NotStarted(disk) /\ NotStarted(mem) /\ (r7 # NoState => NotStarted(r7))
    BY <1>1 DEF IInv, UntouchedInv
  <2>3. NotStarted(disk)'
    BY <1>1, <1>5, <2>1, <2>2 DEF NotStarted, Running
  <2>4. NotStarted(mem)'
    BY <1>1, <1>5, <1>6, <2>1, <2>2 DEF NotStarted, Running
  <2>5. r7 # NoState => NotStarted(r7)'
    BY <1>1, <1>5, <2>1, <2>2 DEF NotStarted, Running
  <2> QED
    BY <1>1, <2>3, <2>4, <2>5 DEF UntouchedInv
<1>14. ResumeInv'
  BY <1>1, <1>2, <1>6 DEF IInv, ResumeInv
<1>15. MergedIsResolved'
  BY <1>1 DEF MergedIsResolved
<1>16. MergingInv'
  BY <1>1 DEF MergingInv
<1>17. PassInv'
  BY <1>1, <1>7 DEF IInv, PassInv
<1>18. PublishInv'
  BY <1>1, <1>5, <1>7 DEF IInv, PublishInv, Running, ResumeStatus
<1>19. EndedInv'
  BY <1>1 DEF EndedInv, Ended
<1> QED
  BY <1>9, <1>10, <1>11, <1>12, <1>13, <1>14, <1>15, <1>16, <1>17, <1>18, <1>19
     DEF IInv

\* ResumeMerge writes back what became of the workers.
LEMMA ResumeEndKeeps ==
    ASSUME IInv, ResumeEnd
    PROVE  IInv'
<1>1. /\ mu = "resume" /\ scan.pc # "merge" /\ disk.integ \in ResumeStatus
      /\ disk' = ResumeOutcome /\ fresh' = {}
      /\ mem' = NoState /\ mu' = "free" /\ tally' = NoTally
      /\ UNCHANGED <<todo, branch, dirty, intg, seen, base, task, left,
                     completed, taskFailed, sig, asked, reporter,
                     resumeReq, scan, r7, report, faults, calls>>
  <2>1. mu = "resume"
    BY DEF ResumeEnd
  <2>2. scan.pc # "merge" /\ disk.integ \in ResumeStatus
    BY <2>1 DEF IInv, IntegratedInv, ResumeInv
  <2> QED
    BY <2>1, <2>2 DEF ResumeEnd, gitVars, taskVars, askVars, hookVars
<1>2. /\ TypeInv /\ mem.integ \in ResumeStatus /\ Merged(mem) /\ NotStarted(mem)
      /\ r7 # NoState => Within(r7, mem)
  BY <1>1 DEF IInv, IntegratedInv, UntouchedInv, ResumeInv
<1>3. /\ disk' \in File /\ disk'.commitFailed = mem.commitFailed
      /\ \A w \in Workers : disk'.wk[w].status = mem.wk[w].status
      /\ disk'.integ \notin {"published", "created"}
      /\ disk'.integ = "merged" => \A w \in Workers : mem.wk[w].status \in {"integrated", "absent"}
  BY <1>1, <1>2, ResumeEnds
<1>4. disk'.integ = "merged" => /\ Pending(disk)' = {}
                                 /\ \A w \in Workers : branch[w] = intg[w]
  <2>1. disk'.integ = "merged" => Pending(disk)' = {}
    BY <1>3 DEF Pending, PendingResolution
  <2>2. disk'.integ = "merged" => \A w \in Workers : branch[w] = intg[w]
    BY <1>2, <1>3 DEF Merged, NotStarted
  <2> QED
    BY <2>1, <2>2
<1>5. tally' \in Tally
  BY <1>1 DEF Tally, NoTally
<1>6. TypeInv'
  <2>1. FileTypes'
    BY <1>1, <1>2, <1>3, <1>4, <1>5 DEF IInv, TypeInv, FileTypes
  <2>2. GitTypes'
    BY <1>1, <1>2, <1>3, <1>4, <1>5 DEF IInv, TypeInv, GitTypes
  <2>3. TaskTypes'
    BY <1>1, <1>2, <1>3, <1>4, <1>5 DEF IInv, TypeInv, TaskTypes
  <2> QED
    BY <2>1, <2>2, <2>3 DEF TypeInv
<1>7. IntegratedInv'
  BY <1>1, <1>2, <1>3 DEF IInv, IntegratedInv, Merged, Within
<1>8. QuietInv'
  BY <1>1, <1>3 DEF IInv, QuietInv, Untroubled
<1>9. StartedInv'
  BY <1>1 DEF IInv, StartedInv, ResumeStatus
<1>10. UntouchedInv'
  BY <1>1, <1>2, <1>3 DEF IInv, UntouchedInv, NotStarted, Running
<1>11. ResumeInv'
  BY <1>1 DEF IInv, ResumeInv
<1>12. MergedIsResolved'
  BY <1>4 DEF MergedIsResolved
<1>13. MergingInv'
  BY <1>1 DEF MergingInv
<1>14. PassInv'
  <2>1. scan.pc # "idle" => \A w \in Workers : disk.wk[w].status \notin PendingResolution =>
                               disk'.wk[w].status = disk.wk[w].status
    BY <1>1, <1>3 DEF IInv, ResumeInv
  <2>2. ASSUME NEW w \in Workers, disk.wk[w].status \in {"integrated", "absent"}
        PROVE  disk.wk[w].status \notin PendingResolution
    BY <2>2 DEF PendingResolution
  <2> QED
    BY <1>1, <2>1, <2>2 DEF IInv, PassInv
<1>15. PublishInv'
  BY <1>1, <1>4 DEF IInv, PublishInv, Running, ResumeStatus
<1>16. EndedInv'
  BY <1>3 DEF EndedInv, Ended
<1> QED
  BY <1>6, <1>7, <1>8, <1>9, <1>10, <1>11, <1>12, <1>13, <1>14, <1>15, <1>16
     DEF IInv

\* A worker is taken off the list of failed commits.
LEMMA ResolveConflictKeeps ==
    ASSUME IInv, NEW w \in Workers, ResolveConflict(w)
    PROVE  IInv'
<1>1. /\ ~Ended /\ calls.other > 0 /\ mu = "free" /\ w \in disk.commitFailed
      /\ calls' = [calls EXCEPT !.other = @ - 1] /\ fresh' = {}
      /\ sig' = IF w \in asked THEN sig \cup {w} ELSE sig
      /\ UNCHANGED <<mem, mu, todo, tally, branch, dirty, intg, seen, base,
                     task, left, completed, taskFailed, asked, reporter,
                     resumeReq, scan, r7, report, faults>>
  BY DEF ResolveConflict, muVars, gitVars, taskVars, askVars, hookVars
<1>2. faults # 0
  BY <1>1 DEF IInv, QuietInv, Untroubled
<1>3. /\ disk' \in File /\ disk'.wk = disk.wk
      /\ disk'.integ \in {disk.integ, "failed"}
      /\ disk'.integ # disk.integ => disk.integ \in ResumeStatus
  <2> DEFINE s == [disk EXCEPT !.commitFailed = @ \ {w}]
             t == SetIntegrationStatus(s, "failed")
  <2>1. s \in File /\ s.wk = disk.wk /\ s.integ = disk.integ
    BY DEF IInv, TypeInv, FileTypes, File
  <2>2. disk' = IF s.integ \in ResumeStatus THEN [t EXCEPT !.failures = 0] ELSE s
    BY DEF ResolveConflict
  <2> HIDE DEF s
  <2>3. t \in File /\ t.wk = s.wk /\ t.integ \in {s.integ, "failed"}
    <3>1. "failed" \in IntegrationStatus
      BY DEF IntegrationStatus
    <3> QED
      BY <2>1, <3>1, SettingIntegration
  <2> HIDE DEF t
  <2> QED
    BY <2>1, <2>2, <2>3 DEF File
<1>4. calls' \in AllBudgets /\ sig' \in SUBSET Workers
  BY <1>1 DEF IInv, TypeInv, TaskTypes, AllBudgets
<1>5. TypeInv'
  <2>1. FileTypes'
    BY <1>1, <1>2, <1>3, <1>4 DEF IInv, TypeInv, FileTypes
  <2>2. GitTypes'
    BY <1>1, <1>2, <1>3, <1>4 DEF IInv, TypeInv, GitTypes
  <2>3. TaskTypes'
    BY <1>1, <1>2, <1>3, <1>4 DEF IInv, TypeInv, TaskTypes
  <2> QED
    BY <2>1, <2>2, <2>3 DEF TypeInv
<1>6. IntegratedInv'
  BY <1>1, <1>2, <1>3, <1>4 DEF IInv, IntegratedInv, Merged, Within
<1>7. QuietInv'
  BY <1>1, <1>2 DEF QuietInv
<1>8. StartedInv'
  BY <1>1, <1>3 DEF IInv, StartedInv, ResumeStatus
<1>9. UntouchedInv'
  BY <1>1, <1>2, <1>3, <1>4 DEF IInv, UntouchedInv, NotStarted, Running
<1>10. ResumeInv'
  BY <1>1, <1>2, <1>3, <1>4 DEF IInv, ResumeInv
<1>11. MergedIsResolved'
  BY <1>1, <1>2 DEF MergedIsResolved
<1>12. MergingInv'
  BY <1>1 DEF MergingInv
<1>13. PassInv'
  BY <1>1, <1>2 DEF PassInv
<1>14. PublishInv'
  BY <1>1, <1>2 DEF PublishInv
<1>15. EndedInv'
  BY <1>1, <1>3 DEF EndedInv, Ended
<1> QED
  BY <1>5, <1>6, <1>7, <1>8, <1>9, <1>10, <1>11, <1>12, <1>13, <1>14, <1>15 DEF
     IInv

\* The operator lifts a quarantine.
LEMMA UnquarantineKeeps ==
    ASSUME IInv, Unquarantine
    PROVE  IInv'
<1>1. /\ ~Ended /\ calls.other > 0 /\ mu = "free" /\ disk.integ = "quarantined"
      /\ calls' = [calls EXCEPT !.other = @ - 1] /\ fresh' = {}
      /\ disk' = [disk EXCEPT !.integ = "failed", !.failures = 0]
      /\ UNCHANGED <<mem, mu, todo, tally, branch, dirty, intg, seen, base,
                     task, left, completed, taskFailed, sig, asked,
                     reporter, resumeReq, scan, r7, report, faults>>
  BY DEF Unquarantine, muVars, gitVars, taskVars, askVars, hookVars
<1>2. /\ disk' \in File /\ disk'.wk = disk.wk /\ disk'.integ = "failed"
      /\ disk'.commitFailed = disk.commitFailed
  BY <1>1 DEF IInv, TypeInv, FileTypes, File, IntegrationStatus
<1>3. calls' \in AllBudgets
  BY <1>1 DEF IInv, TypeInv, TaskTypes, AllBudgets
<1>4. TypeInv'
  <2>1. FileTypes'
    BY <1>1, <1>2, <1>3 DEF IInv, TypeInv, FileTypes
  <2>2. GitTypes'
    BY <1>1, <1>2, <1>3 DEF IInv, TypeInv, GitTypes
  <2>3. TaskTypes'
    BY <1>1, <1>2, <1>3 DEF IInv, TypeInv, TaskTypes
  <2> QED
    BY <2>1, <2>2, <2>3 DEF TypeInv
<1>5. IntegratedInv'
  BY <1>1, <1>2, <1>3 DEF IInv, IntegratedInv, Merged, Within
<1>6. QuietInv'
  BY <1>1, <1>2, <1>3 DEF IInv, QuietInv, Untroubled
<1>7. StartedInv'
  BY <1>1, <1>2, <1>3 DEF IInv, StartedInv
<1>8. UntouchedInv'
  BY <1>1, <1>2, <1>3 DEF IInv, UntouchedInv, NotStarted, Running
<1>9. ResumeInv'
  BY <1>1, <1>2, <1>3 DEF IInv, ResumeInv
<1>10. MergedIsResolved'
  BY <1>2 DEF MergedIsResolved
<1>11. MergingInv'
  BY <1>1 DEF MergingInv
<1>12. PassInv'
  BY <1>1, <1>2, <1>3 DEF IInv, PassInv
<1>13. PublishInv'
  BY <1>1, <1>2, <1>3 DEF IInv, PublishInv, Present, Running
<1>14. EndedInv'
  BY <1>2 DEF EndedInv, Ended
<1> QED
  BY <1>4, <1>5, <1>6, <1>7, <1>8, <1>9, <1>10, <1>11, <1>12, <1>13, <1>14 DEF
     IInv

-----------------------------------------------------------------------------
(* The theorems.                                                            *)

\* The invariant holds when a command starts.
LEMMA InitKeeps ==
    ASSUME Init
    PROVE  IInv
<1>1. /\ disk = [integ |-> "created", failures |-> 0,
                 wk |-> [w \in Workers |-> NoWorker], commitFailed |-> {}]
      /\ mem = NoState /\ mu = "free" /\ todo = {} /\ tally = NoTally
      /\ branch = [w \in Workers |-> 0] /\ dirty = [w \in Workers |-> FALSE]
      /\ intg = [w \in Workers |-> 0] /\ base = [w \in Workers |-> 0]
      /\ seen = [w \in Workers |-> [v \in Workers |-> 0]]
      /\ task = [w \in Workers |-> "none"] /\ left = [w \in Workers |-> MaxTasks]
      /\ completed = FALSE /\ taskFailed = FALSE
      /\ fresh = {} /\ sig = {} /\ asked = {} /\ reporter = {} /\ resumeReq = FALSE
      /\ scan = [pc |-> "idle", leased |-> {}, items |-> {}, ok |-> {}, conflicts |-> {},
                 publish |-> FALSE]
      /\ r7 = NoState /\ faults = 0 /\ calls \in Budgets
  BY DEF Init
<1>2. NoWorker \in WorkerRow /\ NoWorker.status = "absent"
  BY DEF NoWorker, WorkerRow, WorkerStatus, NoHead
<1>3. /\ disk \in File /\ disk.integ = "created" /\ disk.commitFailed = {}
      /\ \A w \in Workers : disk.wk[w].status = "absent"
  BY <1>1, <1>2 DEF File, IntegrationStatus
<1>4. TypeInv
  <2>1. FileTypes
    BY <1>1, <1>3 DEF FileTypes, Scan, ScanPc, Tally, NoTally
  <2>2. GitTypes
    BY <1>1 DEF GitTypes
  <2>3. TaskTypes
    <3>1. left \in [Workers -> Int] /\ task \in [Workers -> {"none", "queued", "run", "resolve"}]
      BY <1>1, IntegrationAssumption
    <3>2. calls \in AllBudgets
      BY <1>1, IntegrationAssumption
    <3> QED
      BY <1>1, <3>1, <3>2 DEF TaskTypes
  <2> QED
    BY <2>1, <2>2, <2>3 DEF TypeInv
<1>5. IntegratedInv
  BY <1>1, <1>3 DEF IntegratedInv, Merged
<1>6. QuietInv
  BY <1>1, <1>3 DEF QuietInv, Untroubled
<1>7. StartedInv
  BY <1>1, <1>3 DEF StartedInv
<1>8. UntouchedInv
  BY <1>1 DEF UntouchedInv, NotStarted, Running
<1>9. ResumeInv /\ MergedIsResolved /\ MergingInv
  BY <1>1, <1>3 DEF ResumeInv, MergedIsResolved, MergingInv
<1>10. PassInv /\ PublishInv /\ EndedInv
  BY <1>1, <1>3 DEF PassInv, PublishInv, EndedInv, Ended
<1> QED
  BY <1>4, <1>5, <1>6, <1>7, <1>8, <1>9, <1>10 DEF IInv

\* Every step keeps the invariant.
LEMMA NextKeeps ==
    ASSUME IInv, [Next]_vars
    PROVE  IInv'
<1>1. ASSUME UNCHANGED vars
      PROVE  IInv'
  <2>1. UNCHANGED <<disk, mem, mu, todo, tally, branch, dirty, intg, seen, base, task,
                    left, completed, taskFailed, fresh, sig, asked, reporter,
                    resumeReq, scan, r7, report, faults, calls>>
    BY <1>1 DEF vars, muVars, gitVars, taskVars, askVars, hookVars
  <2>2. reporter' \in SUBSET Workers /\ resumeReq' \in BOOLEAN /\ calls' \in AllBudgets
    BY <2>1 DEF IInv, TypeInv, TaskTypes
  <2> QED
    BY <2>1, <2>2, RecoveryKeeps
<1>2. ASSUME NEW w \in Workers, AfterResolution(w)
      PROVE  IInv'
  <2>1. /\ UNCHANGED <<disk, mem, mu, todo, tally, branch, dirty, intg, seen, base, task,
                       left, completed, taskFailed, fresh, sig, asked, scan, r7, report,
                       faults, calls>>
        /\ reporter' = reporter \ {w}
    BY <1>2 DEF AfterResolution, muVars, gitVars, taskVars, askVars
  <2>2. resumeReq' \in BOOLEAN
    BY <1>2 DEF AfterResolution, IInv, TypeInv, TaskTypes
  <2>3. reporter' \in SUBSET Workers /\ calls' \in AllBudgets
    BY <2>1 DEF IInv, TypeInv, TaskTypes
  <2> QED
    BY <2>1, <2>2, <2>3, RecoveryKeeps
<1>3. ASSUME AutoRecover
      PROVE  IInv'
  <2>1. /\ UNCHANGED <<disk, mem, mu, todo, tally, branch, dirty, intg, seen, base, task,
                       left, completed, taskFailed, fresh, sig, asked, scan, r7, report,
                       faults, reporter>>
        /\ calls.resume > 0 /\ calls' = [calls EXCEPT !.resume = @ - 1]
        /\ resumeReq' = TRUE
    BY <1>3 DEF AutoRecover, muVars, gitVars, taskVars, askVars
  <2>2. reporter' \in SUBSET Workers /\ resumeReq' \in BOOLEAN /\ calls' \in AllBudgets
    BY <2>1 DEF IInv, TypeInv, TaskTypes, AllBudgets
  <2> QED
    BY <2>1, <2>2, RecoveryKeeps
<1>4. ASSUME ResumeRefused
      PROVE  IInv'
  <2>1. /\ UNCHANGED <<disk, mem, mu, todo, tally, branch, dirty, intg, seen, base, task,
                       left, completed, taskFailed, fresh, sig, asked, scan, r7, report,
                       faults, reporter, calls>>
        /\ resumeReq' = FALSE
    BY <1>4 DEF ResumeRefused, muVars, gitVars, taskVars, askVars
  <2>2. reporter' \in SUBSET Workers /\ resumeReq' \in BOOLEAN /\ calls' \in AllBudgets
    BY <2>1 DEF IInv, TypeInv, TaskTypes
  <2> QED
    BY <2>1, <2>2, RecoveryKeeps
<1>5. ASSUME ScanStep
      PROVE  IInv'
  BY <1>5, ScanCollectKeeps, ScanDispatchedKeeps, ScanCommitKeeps, ScanNoMergeKeeps,
     ScanPrepareFailsKeeps, MergeBeginKeeps, MergeWorkerKeeps, MergeFatalErrorKeeps,
     MergeEndKeeps, ScanSyncKeeps, ScanPublishKeeps, ScanApplyKeeps, R7LoadKeeps,
     R7WriteKeeps DEF ScanStep
<1>6. ASSUME ResumeStep
      PROVE  IInv'
  BY <1>4, <1>6, ResumeBeginKeeps, ResumeWorkerKeeps, ResumeEndKeeps DEF ResumeStep
<1>7. ASSUME NEW w \in Workers,
             \/ StartTask(w) \/ Edit(w) \/ FinishTask(w) \/ FailTask(w)
             \/ PlannerAddsResolution(w) \/ AfterResolution(w) \/ ResolveConflict(w)
      PROVE  IInv'
  BY <1>2, <1>7, StartTaskKeeps, EditKeeps, FinishTaskKeeps, FailTaskKeeps,
     PlannerAddsResolutionKeeps, ResolveConflictKeeps
<1>8. CASE Unquarantine
  BY <1>8, UnquarantineKeeps
<1>9. CASE Stop
  BY <1>1, <1>9 DEF Stop
<1> QED
  BY <1>1, <1>3, <1>5, <1>6, <1>7, <1>8, <1>9 DEF Next

\* Whatever the scan, R7, ResumeMerge, the workers and the operator do in
\* whatever order, the invariant holds.
THEOREM IntegrationInvariance == Spec => []IInv
<1>1. Init => IInv
  BY InitKeeps
<1>2. IInv /\ [Next]_vars => IInv'
  BY NextKeeps
<1> QED
  BY <1>1, <1>2, PTL DEF Spec

\* The state file, the copies of it that a merge and R7 work on, the branches,
\* the scan and the tasks keep their types.
THEOREM IntegrationTypeCorrect == Spec => []TypeInv
<1>1. IInv => TypeInv
  BY DEF IInv
<1> QED
  BY <1>1, IntegrationInvariance, PTL

\* A worker that the state file calls integrated has every commit of its
\* branch on the integration branch, whatever fails; and while git does not
\* fail, an integration called merged leaves no conflict unresolved: what
\* MergeToIntegration and ResumeMerge write back is what they did, also when
\* R7 rewrites the file between their load and their save.
THEOREM IntegrationWhole == Spec => []IntegrationIsWhole
<1>1. IInv => IntegrationIsWhole
  BY DEF IInv, IntegrationIsWhole, IntegratedIsMerged, IntegratedInv, Merged
<1> QED
  BY <1>1, IntegrationInvariance, PTL

\* While git does not fail, a publish selected in Phase A takes everything the
\* workers did to the base branch, though the publish step itself looks at the
\* integration status only.
THEOREM PublishedWorkIsComplete == Spec => []SoundPublishHasAllWork
<1>1. IInv => SoundPublishHasAllWork
  BY DEF IInv, EndedInv, SoundPublishHasAllWork, PublishedHasAllWork
<1> QED
  BY <1>1, IntegrationInvariance, PTL
=============================================================================
