-------------------------- MODULE RecoveryPlanner --------------------------
(***************************************************************************)
(* Recovery of interrupted transactions: RecoveryPlanner                   *)
(* (workflow_recovery.py) and the continuation its caller drives           *)
(* (_kernel_recovery_preflight of cycle_engine.py).                        *)
(*                                                                         *)
(* inspect classifies what the ledger, the lease file, the projection      *)
(* cache and the checkout say.  apply archives the dead owner's lease      *)
(* under an flock, runs a recovery transaction of its own through the      *)
(* kernel, writes what it owes to the recovered transaction, completes,    *)
(* and for a resumed transaction takes its lease again; the caller then    *)
(* restores that transaction and finishes or supersedes it.  The callers   *)
(* hold no lock of the controller here: several may recover at once.       *)
(*                                                                         *)
(* The engine gets less far than a direct caller: `resume` wants a current *)
(* projection cache before it looks for something to recover, and the hook *)
(* the engine passes cannot take the first boundary apply announces.       *)
(***************************************************************************)
EXTENDS WorkflowKernel

CONSTANTS
  Caller,   \* "engine": the commands of cycle_engine.py; "direct": the
            \* simulator and the tests, which construct the planner
  NoPlan

ASSUME CallerAssumption == Caller \in {"engine", "direct"}

VARIABLES
  plan,      \* the plan each process applies, or NoPlan
  owed,      \* the events it still owes to the recovered transaction
  old,       \* the lease it proved stale
  archive,   \* recovered-leases: one file per transaction id
  takeover   \* the process that holds .recovery-takeover.lock

plannerVars == <<plan, owed, old, archive, takeover>>
vars == <<kernelVars, plannerVars>>

PlanRecord(class, recoverable, t, diff) ==
  [class |-> class, recoverable |-> recoverable, txn |-> t, diff |-> diff]

Human(t) == PlanRecord("HUMAN_DECISION_REQUIRED", FALSE, t, {})

LeaseIsStale == lease # NoLease /\ holder = NoProcess

-----------------------------------------------------------------------------
(* inspect *)

\* mutant: any one-commit child of the base will do
ExactChildOfAnyone(t) == Tip = facts[t].base + 1 /\ worktree = {} /\ t \notin edited

\* the kernel's commit is there, its evidence is not: one child, clean
ExactChild(t) ==
  Tip = facts[t].base + 1 /\ commits[Tip] = t /\ worktree = {} /\ t \notin edited

\* ChangesDetected or, before it, the accepted result has the very diff
ExactDirty(t) ==
  IF Recorded(t, "ChangesDetected") THEN worktree = facts[t].boundary /\ t \notin edited
  ELSE /\ Recorded(t, "SessionResultAccepted")
       /\ worktree = facts[t].said /\ worktree = facts[t].seen

\* mutant: a clean worktree is resumed wherever HEAD is
InspectIncompleteAnyHead(t) ==
  IF lease # NoLease /\ lease.txn # t THEN Human(t)
  ELSE IF worktree = {} \/ ExactDirty(t) THEN PlanRecord("resume", TRUE, t, worktree)
  ELSE Human(t)

InspectIncomplete(t) ==
  IF lease # NoLease /\ lease.txn # t THEN Human(t)
  ELSE IF Recorded(t, "CommitFinalized")
  THEN IF facts[t].commit = Tip
       THEN PlanRecord("finalization_incomplete", TRUE, t, {}) ELSE Human(t)
  ELSE IF AtBase(t)
  THEN IF worktree = {} \/ ExactDirty(t)
       THEN PlanRecord("resume", TRUE, t, worktree) ELSE Human(t)
  ELSE IF Recorded(t, "ValidationPassed") /\ ExactChild(t)
       THEN PlanRecord("commit_succeeded_before_evidence", TRUE, t, {}) ELSE Human(t)

\* Two open transactions are one recovery and the transaction it recovers.
Subjects ==
  LET nested == {r \in Incomplete \cap Recovery :
                    facts[r].recovered \in Incomplete \ {r}}
  IN  IF Cardinality(Incomplete) = 2 /\ Cardinality(nested) = 1 THEN nested
      ELSE Incomplete

Inspect ==
  IF Cardinality(Subjects) > 1 THEN Human(NoTxn)
  ELSE IF lease # NoLease /\ lease.txn \notin Subjects /\ Ended(lease.txn)
  THEN PlanRecord("terminal_before_lease_release", LeaseIsStale, lease.txn, {})
  ELSE IF Subjects # {}
  THEN InspectIncomplete(CHOOSE t \in Subjects : TRUE)
  ELSE IF lease # NoLease
  THEN PlanRecord("orphaned_prestart_lease", LeaseIsStale, lease.txn, {})
  ELSE PlanRecord("projection_update_incomplete", cached # seq, NoTxn, {})

-----------------------------------------------------------------------------
(* apply *)

\* mutant: a resumed transaction is completed as it stands
OwedCompletion(pl) ==
  CASE pl.class = "resume" -> <<"RecoveryApplied", "TransactionCompleted">>
    [] OTHER -> <<>>

(* What recovery writes to the recovered transaction, in order.            *)
Owed(pl) ==
  CASE pl.class = "commit_succeeded_before_evidence" ->
         <<"CommitFinalized", "TransactionCompleted", "RecoveryApplied">>
    [] pl.class \in {"finalization_incomplete", "terminal_before_lease_release"} ->
         <<"TransactionCompleted", "RecoveryApplied">>
    [] pl.class = "resume" ->
         IF pl.txn \in Recovery THEN <<"RecoveryApplied", "TransactionSuperseded">>
         ELSE <<"RecoveryApplied">>
    [] OTHER -> <<>>

\* run_project and resume_project plan the project first, which raises for a
\* cache older than the ledger; resolve_human_decision does not.
Reaches(command) == Caller = "engine" /\ command = "resume" => cached = seq

\* _kernel_interruption reads the transaction of the boundary, and apply
\* announces before_lease without one.
HookAccepts == Caller # "engine"

\* preflight: no ledger file, nothing to do; a plan that is not recoverable
\* is returned to a human.
Recover(p, command) ==
  /\ pc[p] = "idle"
  /\ seq > 0
  /\ Reaches(command)
  /\ Inspect.recoverable
  /\ \E r \in Recovery : Fresh(r)   \* bound: Recovery
  /\ plan' = [plan EXCEPT ![p] = Inspect]
  /\ owed' = [owed EXCEPT ![p] = Owed(Inspect)]
  /\ Goto(p, "planned")
  /\ UNCHANGED <<ledger, repository, leaseFile, cur, cached, bounds, old, archive, takeover>>

GiveUp(p) ==
  /\ Exit(p)
  /\ takeover' = IF takeover = p THEN NoProcess ELSE takeover
  /\ plan' = [plan EXCEPT ![p] = NoPlan]
  /\ owed' = [owed EXCEPT ![p] = <<>>]
  /\ old' = [old EXCEPT ![p] = NoLease]

(* The old lease is read, the hook called, and the owner proved dead,      *)
(* before the flock.  The repair of a projection does none of it.          *)
ReadOldLease(p) ==
  LET repair == plan[p].class = "projection_update_incomplete" IN
  /\ pc[p] = "planned"
  /\ IF lease = NoLease /\ (repair \/ HookAccepts)
     THEN Goto(p, "direct") /\ UNCHANGED <<cur, holder, plan, owed, old, takeover>>
     ELSE IF LeaseIsStale /\ ~repair /\ HookAccepts
     THEN /\ old' = [old EXCEPT ![p] = lease]
          /\ Goto(p, "proved")
          /\ UNCHANGED <<cur, holder, plan, owed, takeover>>
     ELSE GiveUp(p)
  /\ UNCHANGED <<ledger, repository, lease, leaseId, cached, bounds, archive>>

(* _archive_stale_lease: the lease file, whatever it is by now, is renamed *)
(* to the archive of the old transaction; where the archive already has    *)
(* the old record it is unlinked instead; another record is an error.      *)
ArchiveLease(p) ==
  LET a == archive[old[p].txn] IN
  /\ pc[p] = "proved" /\ takeover = NoProcess
  /\ IF a = old[p] \/ (a = NoLease /\ lease # NoLease)
     THEN /\ archive' = [archive EXCEPT ![old[p].txn] = IF a = NoLease THEN lease ELSE a]
          /\ lease' = NoLease /\ holder' = NoProcess
          /\ takeover' = p
          /\ Goto(p, "archived")
          /\ UNCHANGED <<cur, plan, owed, old>>
     ELSE GiveUp(p) /\ UNCHANGED <<archive, lease>>
  /\ UNCHANGED <<ledger, repository, leaseId, cached, bounds>>

\* mutant: the whole plan is recorded in place of the transaction id
OpenRecoveryOfPlan(p, r) ==
  /\ AcquireLease(p, r)
  /\ facts' = [facts EXCEPT ![r] = [NoFacts EXCEPT !.base = Tip, !.start = plan[p].diff,
                                                   !.recovered = plan[p]]]
  /\ cur' = [cur EXCEPT ![p] = r]
  /\ Goto(p, "taken")

\* the recovery's own facts, and its lease
OpenRecovery(p, r) ==
  /\ AcquireLease(p, r)
  /\ facts' = [facts EXCEPT ![r] = [NoFacts EXCEPT !.base = Tip, !.start = plan[p].diff,
                                                   !.recovered = plan[p].txn]]
  /\ cur' = [cur EXCEPT ![p] = r]
  /\ Goto(p, "taken")

TakeLease(p, r) ==
  /\ pc[p] = "archived"
  /\ r \in Recovery /\ Fresh(r)
  /\ IF lease = NoLease
     THEN /\ OpenRecovery(p, r)
          /\ takeover' = NoProcess
          /\ UNCHANGED <<plan, owed, old>>
     ELSE GiveUp(p) /\ UNCHANGED <<facts, lease, leaseId>>
  /\ UNCHANGED <<hist, seq, repository, cached, bounds, archive>>

(* _revalidate_planned_recovery_baseline and require_clean_start.          *)
Baseline(pl) ==
  /\ worktree = pl.diff
  /\ pl.class = "resume" /\ pl.diff # {} => AtBase(pl.txn) /\ pl.diff \cap edited = {}
  /\ pl.class = "commit_succeeded_before_evidence" => ExactChild(pl.txn)

(* With no lease to displace, the checks come first and begin acquires.    *)
TakeFreeLease(p, r) ==
  /\ pc[p] = "direct"
  /\ r \in Recovery /\ Fresh(r)
  /\ IF Baseline(plan[p]) /\ lease = NoLease
     THEN OpenRecovery(p, r) /\ UNCHANGED <<plan, owed, old, takeover>>
     ELSE GiveUp(p) /\ UNCHANGED <<facts, lease, leaseId>>
  /\ UNCHANGED <<hist, seq, repository, cached, bounds, archive>>

StartRecovery(p) ==
  Step(p, "taken", Owns(p) /\ Baseline(plan[p]) /\ AtBase(cur[p]),
       "TransactionStarted", facts[cur[p]], "started")

(* The events owed to the recovered transaction: no lease is revalidated.  *)
(* TransactionCompleted is skipped when a terminal event is there already. *)
Repay(p) ==
  LET t == plan[p].txn
      type == Head(owed[p])
      skip == type = "TransactionCompleted" /\ Ended(t)
  IN
  /\ pc[p] = "finalized" /\ cur[p] \in Recovery /\ owed[p] # <<>>
  /\ IF skip \/ Admits(t, type)
     THEN /\ IF skip THEN UNCHANGED <<hist, seq>> ELSE Emit(t, type)
          /\ facts' = IF type = "CommitFinalized"
                      THEN [facts EXCEPT ![t].commit = facts[t].base + 1] ELSE facts
          /\ owed' = [owed EXCEPT ![p] = Tail(@)]
          /\ UNCHANGED <<pc, cur, lease, holder, plan, old, takeover>>
     ELSE GiveUp(p) /\ UNCHANGED <<ledger, lease>>
  /\ UNCHANGED <<repository, leaseId, cached, bounds, archive>>

CompleteRecovery(p) ==
  cur[p] \in Recovery /\ owed[p] = <<>> /\ CompleteTransaction(p)

Resumes(p) == plan[p].class = "resume" /\ plan[p].txn \in Work

FinishRecovery(p) ==
  cur[p] \in Recovery /\ Rebuild(p, IF Resumes(p) THEN "reacquire" ELSE "idle")

-----------------------------------------------------------------------------
(* The continuation of a resumed transaction. *)

ReacquireLease(p) ==
  /\ pc[p] = "reacquire"
  /\ IF lease = NoLease
     THEN /\ AcquireLease(p, plan[p].txn)
          /\ cur' = [cur EXCEPT ![p] = plan[p].txn]
          /\ Goto(p, "rebound")
          /\ UNCHANGED <<plan, owed, old, takeover>>
     ELSE GiveUp(p) /\ UNCHANGED <<lease, leaseId>>
  /\ UNCHANGED <<ledger, repository, cached, bounds, archive>>

(* restore: an exact dirty result is taken up where its evidence ends;     *)
(* everything else is superseded.                                          *)
ResumeAt(p) ==
  LET t == cur[p] IN
  IF plan[p].diff = {} \/ ~Recorded(t, "SessionResultAccepted") THEN "superseding"
  ELSE IF facts[t].verdict = "stop" THEN "resulted"
  ELSE IF Recorded(t, "ValidationPassed") THEN "finalizing" ELSE "bounded"

RecordReacquired(p) ==
  /\ pc[p] = "rebound"
  /\ IF Admits(cur[p], "LeaseAcquired") /\ Projectable
     THEN /\ Emit(cur[p], "LeaseAcquired")
          /\ cached' = seq'
          /\ Goto(p, ResumeAt(p))
          /\ UNCHANGED <<cur, holder, plan, owed, old, takeover>>
     ELSE GiveUp(p) /\ UNCHANGED <<hist, seq, cached>>
  /\ UNCHANGED <<facts, repository, lease, leaseId, bounds, archive>>

-----------------------------------------------------------------------------
\* A recovery whose kernel raised or finished has no plan any more.
Settle(p) ==
  IF pc'[p] = "idle"
  THEN /\ plan' = [plan EXCEPT ![p] = NoPlan]
       /\ owed' = [owed EXCEPT ![p] = <<>>]
       /\ old' = [old EXCEPT ![p] = NoLease]
       /\ UNCHANGED <<archive, takeover>>
  ELSE UNCHANGED plannerVars

PlannerInit ==
  /\ Init
  /\ plan = [p \in Process |-> NoPlan]
  /\ owed = [p \in Process |-> <<>>]
  /\ old = [p \in Process |-> NoLease]
  /\ archive = [t \in Txn |-> NoLease]
  /\ takeover = NoProcess

Crash(p) ==
  /\ Die(p)
  /\ GiveUp(p)
  /\ UNCHANGED archive

RecoveryStep(p) ==
  \/ ReadOldLease(p)
  \/ ArchiveLease(p)
  \/ \E r \in Recovery : TakeLease(p, r) \/ TakeFreeLease(p, r)
  \/ Repay(p)
  \/ ReacquireLease(p)
  \/ RecordReacquired(p)
  \/ (StartRecovery(p) \/ CompleteRecovery(p) \/ FinishRecovery(p)) /\ Settle(p)

PlannerNext ==
  \/ Drift /\ UNCHANGED plannerVars
  \/ \E p \in Process :
        \/ RunnerStep(p) /\ Settle(p)
        \/ \E command \in {"resume", "resolve"} : Recover(p, command)
        \/ RecoveryStep(p)
        \/ Crash(p)

PlannerSpec == PlannerInit /\ [][PlannerNext]_vars

-----------------------------------------------------------------------------
PlannerTypeOK ==
  /\ TypeOK
  /\ \A p \in Process :
        /\ plan[p] # NoPlan => plan[p].txn \in Txn \cup {NoTxn} /\ plan[p].diff \subseteq Owner
        /\ owed[p] \in Seq(EventTypes)
        /\ old[p] \in LeaseRecord \cup {NoLease}
  /\ archive \in [Txn -> LeaseRecord \cup {NoLease}]
  /\ takeover \in Process \cup {NoProcess}

(* The work of a completed transaction is on the branch at or below the    *)
(* commit recorded for it, and a transaction recorded as changing nothing  *)
(* has no commit, whoever completed it: its own process or a recovery.     *)
CompletedWorkIsOnBranch ==
  \A t \in Txn :
     Recorded(t, "TransactionCompleted") =>
        LET mine == {i \in DOMAIN commits : commits[i] = t} IN
        /\ facts[t].commit \in DOMAIN commits
        /\ mine # {} <=> facts[t].commit > facts[t].base
        /\ \A i \in mine : i <= facts[t].commit

(* A transaction that ended blocked, gated or superseded left no commit on *)
(* the branch.                                                             *)
NoCommitBehindABlock ==
  \A i \in DOMAIN commits :
     commits[i] # Outside /\ Ended(commits[i]) =>
        Recorded(commits[i], "TransactionCompleted")

(* The lease of a live process is removed or replaced only by a step of    *)
(* that process.                                                           *)
LiveWriterKeepsLease ==
  [][lease # NoLease /\ holder # NoProcess /\ lease' # lease
       => pc'[holder] # pc[holder]]_vars

(* Fairness: a process that runs keeps running, and whoever operates the   *)
(* conveyor repeats the recovering command while it reports something      *)
(* recoverable.                                                            *)
Proceed(p) ==
  \/ (Start(p) \/ KernelStep(p) \/ Complete(p) \/ Finish(p)) /\ Settle(p)
  \/ \E command \in {"resume", "resolve"} : Recover(p, command)
  \/ RecoveryStep(p)

FairPlannerSpec == PlannerSpec /\ \A p \in Process : WF_vars(Proceed(p))

\* Nothing is left open: no transaction, no lease, no stale cache.
Settled == Incomplete = {} /\ lease = NoLease /\ cached = seq

\* An interruption that inspect calls recoverable, after the last crash and
\* the last step of the outsider.
Interrupted ==
  /\ \A p \in Process : pc[p] = "idle"
  /\ crashes = MaxCrashes /\ drift = MaxDrift
  /\ seq > 0 /\ Inspect.recoverable

(* An interruption that leaves the worktree clean, or the validated diff   *)
(* of an ordinary transaction in it, is recovered: repeated resume ends    *)
(* with no open transaction, no lease and a current projection.  The       *)
(* archive must not hold an earlier lease of the same transaction.         *)
CleanInterruptionIsRecovered ==
  /\ Interrupted
  /\ lease # NoLease => archive[lease.txn] = NoLease
  /\ worktree # {} => /\ Inspect.class = "resume" /\ Inspect.txn \in Work
                      /\ Recorded(Inspect.txn, "ValidationPassed")
  ~> Settled

(* A resumed transaction whose recorded diff is exactly in the worktree    *)
(* comes to an end.                                                        *)
ExactDirtIsRecovered ==
  Interrupted /\ Inspect.class = "resume" /\ worktree # {} ~> Incomplete = {}
=============================================================================
