----------------------- MODULE RecoveryPlannerProofs -----------------------
(***************************************************************************)
(* Proofs about RecoveryPlanner, for any number of processes that recover  *)
(* at once, of recoveries, deaths and foreign steps, and for either        *)
(* caller.                                                                 *)
(*                                                                         *)
(* The steps of a kernel instance are those of WorkflowKernelProofs, where *)
(* Sound was shown to need neither the lease nor a single process.  Here   *)
(* it is shown to survive what recovery adds: the recovery transaction,    *)
(* the events written to a transaction that is not one's own, and the      *)
(* resumption of a transaction somebody else has left.                     *)
(*                                                                         *)
(* The second part is about the branch: what is recorded as finalized or   *)
(* completed is on it, whoever recorded it (CompletedWorkIsOnBranch).  The *)
(* third, for one recoverer at a time, is about what was given up: it left *)
(* no commit there (NoCommitBehindABlock).                                 *)
(***************************************************************************)
EXTENDS RecoveryPlanner, WorkflowKernelProofs

Classes ==
  {"HUMAN_DECISION_REQUIRED", "resume", "finalization_incomplete",
   "commit_succeeded_before_evidence", "terminal_before_lease_release",
   "orphaned_prestart_lease", "projection_update_incomplete"}

PlanRecords ==
  [class : Classes, recoverable : BOOLEAN, txn : Txn \cup {NoTxn}, diff : SUBSET Owner]

\* what a recovery may owe to the transaction it recovers
Repayable ==
  {"CommitFinalized", "TransactionCompleted", "RecoveryApplied", "TransactionSuperseded"}

\* a transaction with a ledger record
Known(t) == t \in Txn /\ hist[t] # <<>>

\* a plan that is owed to, or resumed, is one for a recorded transaction
WellPlanned(pl, debts) ==
  /\ pl \in PlanRecords
  /\ debts # <<>> \/ pl.class = "resume" => Known(pl.txn)

\* steps of apply before the recovery transaction and after it
Planning == {"planned", "proved", "archived", "direct", "reacquire"}

\* where a process that applies a plan may be: its step, and its transaction
Applying(step, t) == step \in Planning \/ (step # "idle" /\ t \in Recovery)

Plans ==
  \A p \in Process :
     /\ Applying(pc[p], cur[p]) => WellPlanned(plan[p], owed[p])
     /\ pc[p] = "reacquire" => plan[p].class = "resume" /\ plan[p].txn \in Work

PlannerTyped ==
  /\ plan \in [Process -> PlanRecords \cup {NoPlan}]
  /\ owed \in [Process -> Seq(Repayable)]
  /\ old \in [Process -> LeaseRecord \cup {NoLease}]
  /\ archive \in [Txn -> LeaseRecord \cup {NoLease}]
  /\ takeover \in Process \cup {NoProcess}

PlannerInv == Sound /\ PlannerTyped /\ Plans

-----------------------------------------------------------------------------
(* What a plan is made of.                                                 *)

\* An open transaction, and one that has ended, has a ledger record.
LEMMA OpenIsKnown ==
  ASSUME TypeOK
  PROVE  /\ \A t \in Incomplete : Known(t)
         /\ \A t \in Txn : Ended(t) => Known(t)
<1>1. ASSUME NEW t \in Txn, Ended(t)
      PROVE  hist[t] # <<>>
  BY <1>1 DEF Ended, Terminated, Has
<1> QED BY <1>1 DEF Incomplete, Known

\* The classification of an open transaction is a plan for it.
LEMMA IncompleteIsPlanned ==
  ASSUME TypeOK, NEW t \in Txn
  PROVE  InspectIncomplete(t) \in PlanRecords /\ InspectIncomplete(t).txn = t
<1>1. PICK w : w = worktree
  OBVIOUS
<1>2. w \in SUBSET Owner
  BY <1>1 DEF TypeOK
<1>3. Human(t) \in PlanRecords /\ Human(t).txn = t
  BY DEF Human, PlanRecord, PlanRecords, Classes
<1>4. ASSUME NEW class \in Classes, NEW d \in SUBSET Owner
      PROVE  PlanRecord(class, TRUE, t, d) \in PlanRecords
             /\ PlanRecord(class, TRUE, t, d).txn = t
  BY DEF PlanRecord, PlanRecords
<1>5. \/ InspectIncomplete(t) = Human(t)
      \/ \E class \in Classes, d \in SUBSET Owner :
            InspectIncomplete(t) = PlanRecord(class, TRUE, t, d)
  <2>1. {"resume", "finalization_incomplete", "commit_succeeded_before_evidence"}
          \subseteq Classes /\ {} \in SUBSET Owner
    BY DEF Classes
  <2>2. \/ InspectIncomplete(t) = Human(t)
        \/ InspectIncomplete(t) = PlanRecord("finalization_incomplete", TRUE, t, {})
        \/ InspectIncomplete(t) = PlanRecord("resume", TRUE, t, w)
        \/ InspectIncomplete(t) = PlanRecord("commit_succeeded_before_evidence", TRUE, t, {})
    BY <1>1 DEF InspectIncomplete
  <2> QED BY <1>2, <2>1, <2>2
<1> QED BY <1>3, <1>4, <1>5

\* What inspect finds recoverable is a plan, and what it owes it owes to a
\* transaction the ledger knows.
LEMMA InspectPlans ==
  ASSUME TypeOK, NEW pl, pl = Inspect
  PROVE  /\ pl \in PlanRecords
         /\ pl.class \notin {"orphaned_prestart_lease", "projection_update_incomplete",
                             "HUMAN_DECISION_REQUIRED"} => Known(pl.txn)
<1>1. \A t \in Incomplete : Known(t) /\ t \in Txn
  BY OpenIsKnown DEF Incomplete
<1>2. Subjects \subseteq Incomplete
  BY DEF Subjects
<1>3. LeaseIsStale \in BOOLEAN /\ (cached # seq) \in BOOLEAN /\ {} \in SUBSET Owner
  BY DEF LeaseIsStale
<1>4. CASE pl = Human(NoTxn)
  BY <1>4 DEF Human, PlanRecord, PlanRecords, Classes
<1>5. CASE /\ lease # NoLease /\ Ended(lease.txn)
           /\ pl = PlanRecord("terminal_before_lease_release", LeaseIsStale, lease.txn, {})
  <2>1. lease.txn \in Txn
    BY <1>5 DEF TypeOK, LeaseRecord
  <2>2. Known(lease.txn)
    BY <1>5, <2>1, OpenIsKnown
  <2> QED BY <1>3, <1>5, <2>1, <2>2 DEF PlanRecord, PlanRecords, Classes
<1>6. CASE \E t \in Subjects : pl = InspectIncomplete(t)
  <2>1. PICK t \in Txn : Known(t) /\ pl = InspectIncomplete(t)
    BY <1>1, <1>2, <1>6
  <2> QED BY <2>1, IncompleteIsPlanned
<1>7. CASE /\ lease # NoLease
           /\ pl = PlanRecord("orphaned_prestart_lease", LeaseIsStale, lease.txn, {})
  <2>1. lease.txn \in Txn
    BY <1>7 DEF TypeOK, LeaseRecord
  <2> QED BY <1>3, <1>7, <2>1 DEF PlanRecord, PlanRecords, Classes
<1>8. CASE pl = PlanRecord("projection_update_incomplete", cached # seq, NoTxn, {})
  BY <1>3, <1>8 DEF PlanRecord, PlanRecords, Classes
<1> QED BY <1>4, <1>5, <1>6, <1>7, <1>8 DEF Inspect

\* The debts of a plan.
LEMMA DebtsOfAPlan ==
  ASSUME TypeOK, NEW pl, NEW debts, pl = Inspect, debts = Owed(pl)
  PROVE  WellPlanned(pl, debts) /\ debts \in Seq(Repayable)
<1>1. /\ pl \in PlanRecords
      /\ pl.class \notin {"orphaned_prestart_lease", "projection_update_incomplete",
                          "HUMAN_DECISION_REQUIRED"} => Known(pl.txn)
  BY InspectPlans
<1>2. pl.class \in {"orphaned_prestart_lease", "projection_update_incomplete",
                    "HUMAN_DECISION_REQUIRED"} => debts = <<>>
  BY DEF Owed
<1>3. /\ <<"CommitFinalized", "TransactionCompleted", "RecoveryApplied">> \in Seq(Repayable)
      /\ <<"TransactionCompleted", "RecoveryApplied">> \in Seq(Repayable)
      /\ <<"RecoveryApplied", "TransactionSuperseded">> \in Seq(Repayable)
      /\ <<"RecoveryApplied">> \in Seq(Repayable)
      /\ <<>> \in Seq(Repayable)
  BY DEF Repayable
<1>4. debts \in Seq(Repayable)
  BY <1>3 DEF Owed
<1> QED BY <1>1, <1>2, <1>4 DEF WellPlanned

-----------------------------------------------------------------------------
(* The plans of processes at work.                                         *)

\* A step of one process keeps the plans if it leaves that process with a
\* plan that fits, and no history shrinks to nothing.
LEMMA OneProcessPlans ==
  ASSUME Plans, PlannerTyped', NEW p \in Process, Unmoved(p),
         \A q \in Process \ {p} : plan'[q] = plan[q] /\ owed'[q] = owed[q],
         \A t \in Txn : hist[t] # <<>> => hist'[t] # <<>>,
         Applying(pc'[p], cur'[p]) =>
            /\ plan'[p] \in PlanRecords
            /\ owed'[p] # <<>> \/ plan'[p].class = "resume" =>
                 plan'[p].txn \in Txn /\ hist'[plan'[p].txn] # <<>>,
         pc'[p] = "reacquire" => plan'[p].class = "resume" /\ plan'[p].txn \in Work
  PROVE  PlannerTyped' /\ Plans'
<1> SUFFICES ASSUME NEW q \in Process
             PROVE  /\ Applying(pc'[q], cur'[q]) =>
                         /\ plan'[q] \in PlanRecords
                         /\ owed'[q] # <<>> \/ plan'[q].class = "resume" =>
                              plan'[q].txn \in Txn /\ hist'[plan'[q].txn] # <<>>
                    /\ pc'[q] = "reacquire" =>
                         plan'[q].class = "resume" /\ plan'[q].txn \in Work
  BY DEF Plans, WellPlanned, Known, Applying
<1>1. CASE q = p
  BY <1>1
<1>2. CASE q # p
  <2>1. pc'[q] = pc[q] /\ cur'[q] = cur[q] /\ plan'[q] = plan[q] /\ owed'[q] = owed[q]
    BY <1>2 DEF Unmoved
  <2>2. /\ Applying(pc[q], cur[q]) => WellPlanned(plan[q], owed[q])
        /\ pc[q] = "reacquire" => plan[q].class = "resume" /\ plan[q].txn \in Work
    BY DEF Plans
  <2> QED BY <2>1, <2>2 DEF WellPlanned, Known
<1> QED BY <1>1, <1>2

\* A process that gives its plan up keeps every other plan.
LEMMA GiveUpKeepsPlans ==
  ASSUME Sound, PlannerTyped, Plans, NEW p \in Process, GiveUp(p), UNCHANGED <<hist, archive>>
  PROVE  PlannerTyped' /\ Plans'
<1>1. TypeOK
  BY DEF Sound
<1>2. pc'[p] = "idle" /\ cur'[p] = NoTxn /\ Unmoved(p)
  BY <1>1, ExitTyped DEF GiveUp
<1>3. /\ plan' = [plan EXCEPT ![p] = NoPlan] /\ owed' = [owed EXCEPT ![p] = <<>>]
      /\ old' = [old EXCEPT ![p] = NoLease] /\ archive' = archive
      /\ takeover' \in {takeover, NoProcess}
  BY DEF GiveUp
<1>4. <<>> \in Seq(Repayable)
  OBVIOUS
<1>5. PlannerTyped'
  BY <1>3, <1>4 DEF PlannerTyped
<1>6. \A q \in Process \ {p} : plan'[q] = plan[q] /\ owed'[q] = owed[q]
  BY <1>3 DEF PlannerTyped
<1>7. ~Applying("idle", NoTxn)
  BY DEF Applying, Planning
<1> QED BY <1>2, <1>5, <1>6, <1>7, OneProcessPlans

\* It keeps the kernel's invariants if it does nothing else.
LEMMA GiveUpKeeps ==
  ASSUME PlannerInv, NEW p \in Process, GiveUp(p),
         UNCHANGED <<hist, seq, facts, commits, worktree, lease, leaseId, cached, archive>>,
         UNCHANGED bounds
  PROVE  PlannerInv'
<1>1. TypeOK /\ Origins /\ Validated /\ Sound
  BY DEF PlannerInv, Sound
<1>2. /\ pc' \in [Process -> Steps \cup RecoverySteps] /\ pc'[p] = "idle"
      /\ cur' \in [Process -> Txn \cup {NoTxn}] /\ cur'[p] = NoTxn
      /\ holder' \in Process \cup {NoProcess}
      /\ Unmoved(p)
  BY <1>1, ExitTyped DEF GiveUp
<1>3. TypeOK'
  BY <1>1, <1>2 DEF TypeOK, bounds
<1>4. Validated' /\ commits' # <<>> /\ (lease' # NoLease => Begun(lease'.txn))
  BY <1>1, RecStays DEF Validated, Origins
<1>5. NoTxn \notin Txn /\ "idle" \notin Busy \cup FirstSteps
  BY KernelConstants DEF Busy, FirstSteps, Steps
<1>6. Sound'
  BY <1>1, <1>2, <1>3, <1>4, <1>5, SilentKeeps
<1> QED BY <1>1, <1>6, GiveUpKeepsPlans DEF PlannerInv

\* The process of a plan dies.
LEMMA CrashKeeps ==
  ASSUME PlannerInv, NEW p \in Process, Crash(p)
  PROVE  PlannerInv'
<1>1. Sound' /\ UNCHANGED <<hist, archive>>
  BY DieKeeps DEF Crash, PlannerInv, Die, ledger
<1> QED BY <1>1, GiveUpKeepsPlans DEF Crash, PlannerInv

-----------------------------------------------------------------------------
(* Steps of a kernel instance, as the planner sees them.                   *)

\* a call that appends, a step that does not, an exception
Moves(p) ==
  \/ (\E type \in EventTypes : Emit(cur[p], type)) /\ (\E to \in Steps : Goto(p, to)) /\ cur' = cur
  \/ hist' = hist /\ (\E to \in Steps : Goto(p, to)) /\ cur' = cur
  \/ hist' = hist /\ Raise(p)

\* What a process does to itself and to the histories.
LEMMA MovesFrame ==
  ASSUME TypeOK, NEW p \in Process, Moves(p)
  PROVE  /\ Unmoved(p)
         /\ \A t \in Txn : hist[t] # <<>> => hist'[t] # <<>>
         /\ pc'[p] \in Steps
         /\ pc'[p] = "idle" \/ cur'[p] = cur[p]
<1>1. /\ hist \in [Txn -> Seq(EventTypes)]
      /\ pc \in [Process -> Steps \cup RecoverySteps]
  BY DEF TypeOK
<1>2. ASSUME NEW to \in Steps, Goto(p, to), cur' = cur
      PROVE  Unmoved(p) /\ pc'[p] \in Steps /\ cur'[p] = cur[p]
  BY <1>1, <1>2 DEF Goto, Unmoved
<1>3. ASSUME Raise(p)
      PROVE  Unmoved(p) /\ pc'[p] \in Steps /\ (pc'[p] = "idle" \/ cur'[p] = cur[p])
  <2>1. CASE Exit(p)
    BY <2>1, ExitTyped DEF Steps
  <2>2. CASE Goto(p, "failing") /\ cur' = cur
    BY <1>2, <2>2 DEF Steps
  <2> QED BY <1>3, <2>1, <2>2 DEF Raise
<1>4. ASSUME NEW type \in EventTypes, Emit(cur[p], type), NEW t \in Txn, hist[t] # <<>>
      PROVE  hist'[t] # <<>>
  <2>1. hist' = [hist EXCEPT ![cur[p]] = Append(@, type)]
    BY <1>4 DEF Emit
  <2>2. CASE t = cur[p]
    <3>1. hist'[t] = Append(hist[t], type) /\ hist[t] \in Seq(EventTypes)
      BY <1>1, <2>1, <2>2
    <3>2. Len(hist'[t]) = Len(hist[t]) + 1 /\ Len(hist[t]) \in Nat
      BY <3>1
    <3> QED BY <3>2
  <2>3. CASE t # cur[p]
    BY <1>1, <1>4, <2>1, <2>3
  <2> QED BY <2>2, <2>3
<1> QED BY <1>2, <1>3, <1>4 DEF Moves

\* A kernel call moves its process on, or raises.
LEMMA CallMoves ==
  ASSUME NEW p \in Process, NEW type \in EventTypes, NEW fact, NEW to \in Steps,
         Emitted(p, type, fact, to) \/ Raised(p)
  PROVE  Moves(p)
BY DEF Emitted, Raised, Moves, ledger

\* Everything a kernel instance does, it does to its own transaction.
LEMMA KernelMoves ==
  ASSUME TypeOK, NEW p \in Process,
         KernelStep(p) \/ Start(p) \/ StartRecovery(p) \/ CompleteTransaction(p)
  PROVE  Moves(p) /\ pc[p] # "idle"
<1>1. PICK t : t = cur[p]
  OBVIOUS
<1>2. CASE \E from, type, to : PlainStep(p, from, type, to)
  <2>1. PICK from, type, to : PlainStep(p, from, type, to)
    BY <1>2
  <2>2. pc[p] = from /\ (Emitted(p, type, facts[t], to) \/ Raised(p))
    BY <1>1, <2>1, PlainStepEmits
  <2>3. type \in EventTypes /\ to \in Steps /\ from # "idle"
    BY <2>1 DEF PlainStep, EventTypes, Steps
  <2> QED BY <2>2, <2>3, CallMoves
<1>3. CASE \/ Start(p) \/ AcquireLeaseRecorded(p) \/ CaptureSnapshot(p)
           \/ SessionLaunched(p) \/ StartValidation(p) \/ PassValidation(p)
           \/ FailValidation(p) \/ RecordRelease(p) \/ RecordProjection(p)
  BY <1>2, <1>3 DEF PlainStep
<1>4. ASSUME NEW type \in EventTypes, NEW fact, NEW to \in Steps, pc[p] # "idle",
             Emitted(p, type, fact, to) \/ Raised(p)
      PROVE  Moves(p) /\ pc[p] # "idle"
  BY <1>4, CallMoves
<1>5. ASSUME NEW said \in SUBSET {cur[p]}, NEW verdict \in {"success", "stop"},
             AcceptResult(p, said, verdict)
      PROVE  Moves(p) /\ pc[p] # "idle"
  <2>1. PICK type \in EventTypes : type = "SessionResultAccepted"
    BY DEF EventTypes
  <2>2. PICK to \in Steps : to = "resulted"
    BY DEF Steps
  <2>3. PICK fact : fact = [facts[t] EXCEPT !.said = said, !.verdict = verdict,
                              !.seen = IF said = ChangedPaths(t) THEN said ELSE NoDiff]
    OBVIOUS
  <2>4. pc[p] # "idle" /\ (Emitted(p, type, fact, to) \/ Raised(p))
    BY <1>1, <1>5, <2>1, <2>2, <2>3 DEF AcceptResult, Step, Emitted, Raised
  <2> QED BY <1>4, <2>4
<1>6. CASE RecordFileMutationBoundary(p)
  <2>1. PICK type \in EventTypes : type = "ChangesDetected"
    BY DEF EventTypes
  <2>2. PICK to \in Steps : to = "bounded"
    BY DEF Steps
  <2>3. PICK fact : fact = [facts[t] EXCEPT !.boundary = ChangedPaths(t)]
    OBVIOUS
  <2>4. pc[p] # "idle" /\ (Emitted(p, type, fact, to) \/ Raised(p))
    BY <1>1, <1>6, <2>1, <2>2, <2>3 DEF RecordFileMutationBoundary, Step, Emitted, Raised
  <2> QED BY <1>4, <2>4
<1>7. CASE FinalizeUnchanged(p)
  <2>1. PICK type \in EventTypes : type = "CommitFinalized"
    BY DEF EventTypes
  <2>2. PICK to \in Steps : to = "finalized"
    BY DEF Steps
  <2>3. PICK fact : fact = [facts[t] EXCEPT !.commit = facts[t].base]
    OBVIOUS
  <2>4. pc[p] # "idle" /\ (Emitted(p, type, fact, to) \/ Raised(p))
    BY <1>1, <1>7, <2>1, <2>2, <2>3 DEF FinalizeUnchanged, Step, Emitted, Raised
  <2> QED BY <1>4, <2>4
<1>8. ASSUME NEW c \in DOMAIN commits, RecordCommit(p, c)
      PROVE  Moves(p) /\ pc[p] # "idle"
  <2>1. PICK type \in EventTypes : type = "CommitFinalized"
    BY DEF EventTypes
  <2>2. PICK to \in Steps : to = IF worktree = {} THEN "finalized" ELSE "dirty"
    BY DEF Steps
  <2>3. PICK fact : fact = [facts[t] EXCEPT !.commit = c]
    OBVIOUS
  <2>4. pc[p] # "idle" /\ (Emitted(p, type, fact, to) \/ Raised(p))
    BY <1>1, <1>8, <2>1, <2>2, <2>3 DEF RecordCommit, Step, Emitted, Raised
  <2> QED BY <1>4, <2>4
<1>9. CASE StartRecovery(p)
  <2>1. PICK type \in EventTypes : type = "TransactionStarted"
    BY DEF EventTypes
  <2>2. PICK to \in Steps : to = "started"
    BY DEF Steps
  <2>3. pc[p] # "idle" /\ (Emitted(p, type, facts[t], to) \/ Raised(p))
    BY <1>1, <1>9, <2>1, <2>2 DEF StartRecovery, Step, Emitted, Raised
  <2> QED BY <1>4, <2>3
<1>10. CASE CompleteTransaction(p) \/ \E type \in TerminalEventTypes : Block(p, type)
  <2>1. PICK to \in Steps : to = "terminal"
    BY DEF Steps
  <2>2. pc[p] # "idle" /\ \E type \in EventTypes : Emitted(p, type, facts[t], to) \/ Raised(p)
    <3>1. CASE CompleteTransaction(p)
      BY <1>1, <2>1, <3>1
         DEF CompleteTransaction, Step, Emitted, Raised, EventTypes, TerminalEventTypes
    <3>2. CASE \E type \in TerminalEventTypes : Block(p, type)
      <4>1. PICK type \in TerminalEventTypes : Block(p, type)
        BY <3>2
      <4>2. type \in EventTypes
        BY DEF EventTypes
      <4>3. pc[p] # "idle" /\ (Emitted(p, type, facts[t], to) \/ Raised(p))
        BY <1>1, <2>1, <4>1 DEF Block, Step, Emitted, Raised
      <4> QED BY <4>2, <4>3
    <3> QED BY <1>10, <3>1, <3>2
  <2> QED BY <1>4, <2>2
<1>11. CASE Rejected(p) \/ NotClean(p)
  BY <1>11 DEF Rejected, NotClean, Moves, ledger
<1>12. CASE SessionEdits(p)
  <2>1. pc[p] = "launched" /\ pc' = pc /\ cur' = cur /\ hist' = hist
    BY <1>12 DEF SessionEdits, ledger
  <2>2. pc' = [pc EXCEPT ![p] = "launched"]
    BY <2>1 DEF TypeOK
  <2> QED BY <2>1, <2>2 DEF Moves, Goto, Steps
<1>13. CASE CheckDiff(p)
  BY <1>13 DEF CheckDiff, Moves, Steps, ledger
<1>14. CASE GitCommit(p)
  BY <1>14 DEF GitCommit, Moves, Steps, ledger
<1>15. CASE ReleaseLease(p)
  <2>1. CASE Raise(p)
    BY <1>15, <2>1 DEF ReleaseLease, Moves, ledger
  <2>2. CASE ~Raise(p)
    <3>1. hist' = hist /\ pc[p] # "idle" /\ cur' = cur
      BY <1>15, <2>2 DEF ReleaseLease, ledger
    <3>2. Goto(p, "unlinked") \/ Goto(p, "released")
      BY <1>15, <2>2 DEF ReleaseLease
    <3> QED BY <3>1, <3>2 DEF Moves, Steps
  <2> QED BY <2>1, <2>2
<1> QED BY <1>3, <1>5, <1>6, <1>7, <1>8, <1>9, <1>10, <1>11, <1>12, <1>13, <1>14, <1>15
        DEF KernelStep

\* Settling keeps the plan of a process that goes on and drops that of one
\* that does not.
LEMMA SettleKeepsPlans ==
  ASSUME PlannerInv, NEW p \in Process, Settle(p), Unmoved(p),
         \A t \in Txn : hist[t] # <<>> => hist'[t] # <<>>,
         pc'[p] = "idle" \/ (Applying(pc'[p], cur'[p]) => Applying(pc[p], cur[p])),
         pc'[p] = "reacquire" => plan[p].class = "resume" /\ plan[p].txn \in Work
  PROVE  PlannerTyped' /\ Plans'
<1>1. PlannerTyped /\ Plans
  BY DEF PlannerInv
<1>2. CASE pc'[p] = "idle"
  <2>1. /\ plan' = [plan EXCEPT ![p] = NoPlan] /\ owed' = [owed EXCEPT ![p] = <<>>]
        /\ old' = [old EXCEPT ![p] = NoLease] /\ archive' = archive /\ takeover' = takeover
    BY <1>2 DEF Settle
  <2>2. <<>> \in Seq(Repayable)
    OBVIOUS
  <2>3. PlannerTyped'
    BY <1>1, <2>1, <2>2 DEF PlannerTyped
  <2>4. /\ \A q \in Process \ {p} : plan'[q] = plan[q] /\ owed'[q] = owed[q]
        /\ owed'[p] = <<>> /\ ~Applying("idle", cur'[p])
    BY <1>1, <2>1 DEF PlannerTyped, Applying, Planning
  <2> QED BY <1>1, <1>2, <2>3, <2>4, OneProcessPlans
<1>3. CASE pc'[p] # "idle"
  <2>1. UNCHANGED <<plan, owed, old, archive, takeover>>
    BY <1>3 DEF Settle, plannerVars
  <2>2. PlannerTyped'
    BY <1>1, <2>1 DEF PlannerTyped
  <2>3. Applying(pc[p], cur[p]) => WellPlanned(plan[p], owed[p])
    BY <1>1 DEF Plans
  <2>4. Applying(pc'[p], cur'[p]) =>
           /\ plan[p] \in PlanRecords
           /\ owed[p] # <<>> \/ plan[p].class = "resume" =>
                plan[p].txn \in Txn /\ hist'[plan[p].txn] # <<>>
    BY <1>3, <2>3 DEF WellPlanned, Known
  <2> QED BY <1>1, <2>1, <2>2, <2>4, OneProcessPlans
<1> QED BY <1>2, <1>3

\* What a kernel instance does under a plan, or without one.
LEMMA InstanceKeeps ==
  ASSUME PlannerInv, NEW p \in Process, Settle(p), Moves(p), pc[p] # "idle", Sound'
  PROVE  PlannerInv'
<1>1. /\ Unmoved(p)
      /\ \A t \in Txn : hist[t] # <<>> => hist'[t] # <<>>
      /\ pc'[p] \in Steps
      /\ pc'[p] = "idle" \/ cur'[p] = cur[p]
  BY MovesFrame DEF PlannerInv, Sound
<1>2. pc'[p] \notin Planning
  BY <1>1 DEF Planning, Steps
<1>3. pc'[p] = "idle" \/ (Applying(pc'[p], cur'[p]) => Applying(pc[p], cur[p]))
  BY <1>1, <1>2 DEF Applying
<1>4. pc'[p] # "reacquire"
  BY <1>2 DEF Planning
<1> QED BY <1>1, <1>3, <1>4, SettleKeepsPlans DEF PlannerInv

\* The projection is rebuilt at the end of a transaction.
LEMMA RebuildMoves ==
  ASSUME TypeOK, NEW p \in Process, NEW to, Rebuild(p, to)
  PROVE  /\ Unmoved(p) /\ hist' = hist /\ pc[p] = "projected"
         /\ pc'[p] \in {"idle", to, "failing"} /\ (pc'[p] = "idle" \/ to = "idle" \/ cur'[p] = cur[p])
<1>1. /\ pc \in [Process -> Steps \cup RecoverySteps]
      /\ cur \in [Process -> Txn \cup {NoTxn}]
  BY DEF TypeOK
<1>2. hist' = hist /\ pc[p] = "projected"
  BY DEF Rebuild, ledger
<1>3. CASE Projectable
  BY <1>1, <1>2, <1>3 DEF Rebuild, Goto, Unmoved
<1>4. CASE ~Projectable
  <2>1. Raise(p)
    BY <1>4 DEF Rebuild
  <2>2. ~Handled(p)
    BY <1>2 DEF Handled
  <2>3. Exit(p)
    BY <2>1, <2>2 DEF Raise
  <2> QED BY <1>2, <2>3, ExitTyped
<1> QED BY <1>3, <1>4

\* The runner's steps, with no plan to apply.
LEMMA RunnerStepKeeps ==
  ASSUME PlannerInv, NEW p \in Process, RunnerStep(p), Settle(p)
  PROVE  PlannerInv'
<1>1. Sound /\ TypeOK
  BY DEF PlannerInv, Sound
<1>2. Sound'
  <2>1. CASE \E t \in Work : Begin(p, t)
    BY <1>1, <2>1, BeginKeeps
  <2>2. CASE Start(p) \/ Complete(p)
    BY <1>1, <2>2, StartOrCompleteKeeps DEF Complete
  <2>3. CASE KernelStep(p)
    BY <1>1, <2>3, KernelStepKeeps
  <2>4. CASE Finish(p)
    BY <1>1, <2>4, TailKeeps DEF Finish
  <2> QED BY <2>1, <2>2, <2>3, <2>4 DEF RunnerStep
<1>3. CASE KernelStep(p) \/ Start(p) \/ Complete(p)
  BY <1>1, <1>2, <1>3, KernelMoves, InstanceKeeps DEF Complete
<1>4. ASSUME NEW t \in Work, Begin(p, t)
      PROVE  PlannerInv'
  <2>1. /\ pc' = [pc EXCEPT ![p] = "leased"] /\ cur' = [cur EXCEPT ![p] = t] /\ hist' = hist
    BY <1>4 DEF Begin, Goto
  <2>2. Unmoved(p) /\ pc'[p] = "leased" /\ cur'[p] = t
    BY <1>1, <2>1 DEF Unmoved, TypeOK
  <2>3. t \notin Recovery
    BY KernelConstants
  <2>4. ~Applying("leased", t)
    BY <2>3 DEF Applying, Planning
  <2> QED BY <1>2, <2>1, <2>2, <2>4, SettleKeepsPlans DEF PlannerInv
<1>5. CASE Finish(p)
  <2>1. Unmoved(p) /\ hist' = hist /\ pc'[p] \in {"idle", "failing"} /\ pc[p] = "projected"
    BY <1>1, <1>5, RebuildMoves DEF Finish
  <2>2. pc'[p] = "idle" \/ cur'[p] = cur[p]
    BY <1>1, <1>5 DEF Finish, Rebuild, Raise, Exit, Goto, TypeOK
  <2>3. pc'[p] = "idle" \/ (Applying(pc'[p], cur'[p]) => Applying(pc[p], cur[p]))
    BY <2>1, <2>2 DEF Applying, Planning
  <2> QED BY <1>2, <2>1, <2>3, SettleKeepsPlans DEF PlannerInv
<1> QED BY <1>3, <1>4, <1>5 DEF RunnerStep

\* A recovery transaction starts and completes as any other.
LEMMA RecoveryCallKeeps ==
  ASSUME PlannerInv, NEW p \in Process, StartRecovery(p) \/ CompleteRecovery(p), Settle(p)
  PROVE  PlannerInv'
<1>1. Sound /\ TypeOK
  BY DEF PlannerInv, Sound
<1>2. CASE CompleteRecovery(p)
  BY <1>1, <1>2, StartOrCompleteKeeps, KernelMoves, InstanceKeeps DEF CompleteRecovery
<1>3. CASE StartRecovery(p)
  <2>1. PICK t : t = cur[p]
    OBVIOUS
  <2>2. pc[p] = "taken"
    BY <1>3 DEF StartRecovery, Step
  <2>3. t \in Txn
    BY <1>1, <2>1, <2>2 DEF Sound, Hands, Busy
  <2>4. Emitted(p, "TransactionStarted", facts[t], "started") \/ Raised(p)
    BY <1>3, <2>1 DEF StartRecovery, Step, Emitted, Raised
  <2>5. Sound'
    BY <1>1, <2>1, <2>2, <2>3, <2>4, StartKeeps DEF FirstSteps
  <2> QED BY <1>1, <1>3, <2>5, KernelMoves, InstanceKeeps
<1> QED BY <1>2, <1>3

\* A recovery ends, or goes on with the transaction it resumes.
LEMMA FinishRecoveryKeeps ==
  ASSUME PlannerInv, NEW p \in Process, FinishRecovery(p), Settle(p)
  PROVE  PlannerInv'
<1>1. Sound /\ TypeOK
  BY DEF PlannerInv, Sound
<1>2. PICK to \in {"idle", "reacquire"} : to = IF Resumes(p) THEN "reacquire" ELSE "idle"
  OBVIOUS
<1>3. Rebuild(p, to) /\ cur[p] \in Recovery
  BY <1>2 DEF FinishRecovery
<1>4. Sound'
  BY <1>1, <1>3, TailKeeps
<1>5. /\ Unmoved(p) /\ hist' = hist /\ pc[p] = "projected"
      /\ pc'[p] \in {"idle", to, "failing"}
  BY <1>1, <1>3, RebuildMoves
<1>6. Applying(pc[p], cur[p])
  BY <1>3, <1>5 DEF Applying
<1>7. pc'[p] = "reacquire" => Resumes(p)
  BY <1>2, <1>5
<1> QED BY <1>4, <1>5, <1>6, <1>7, SettleKeepsPlans DEF PlannerInv, Resumes

-----------------------------------------------------------------------------
(* apply, step by step.                                                    *)

\* A step outside a kernel instance that leaves the evidence and the branch
\* alone, and a process without a transaction where it was.
LEMMA PlanStepKeepsSound ==
  ASSUME Sound, NEW p \in Process, NEW to \in Planning \ {"reacquire"},
         pc[p] \in {"idle"} \cup Planning, Goto(p, to), cur' = cur,
         UNCHANGED <<hist, seq, facts, commits, worktree, leaseId, cached, crashes, drift, edited, raced>>,
         \/ lease' = lease /\ holder' = holder
         \/ lease' = NoLease /\ holder' = NoProcess
  PROVE  Sound' /\ Unmoved(p) /\ pc'[p] = to
<1>1. TypeOK /\ Hands /\ Origins /\ Validated
  BY DEF Sound
<1>2. pc' = [pc EXCEPT ![p] = to] /\ to \in RecoverySteps
  BY DEF Goto, Planning, RecoverySteps
<1>3. TypeOK' /\ Unmoved(p) /\ pc'[p] = to
  BY <1>1, <1>2 DEF TypeOK, Unmoved
<1>4. PICK t : t = cur'[p]
  OBVIOUS
<1>5. t \in Txn => Begun(t)
  BY <1>1, <1>4 DEF Hands
<1>6. Validated' /\ commits' # <<>> /\ (lease' # NoLease => Begun(lease'.txn))
  BY <1>1, RecStays DEF Validated, Origins
<1>7. to \notin Busy \cup FirstSteps \cup {"resulted", "finalizing", "checked"}
  BY DEF Planning, Busy, FirstSteps, Steps
<1>8. Sound'
  BY <1>3, <1>4, <1>5, <1>6, <1>7, SilentKeeps
<1> QED BY <1>3, <1>8

\* preflight: the plan is what inspect found.
LEMMA RecoverKeeps ==
  ASSUME PlannerInv, NEW p \in Process, NEW command, Recover(p, command)
  PROVE  PlannerInv'
<1>1. Sound /\ TypeOK /\ PlannerTyped /\ Plans
  BY DEF PlannerInv, Sound
<1>2. PICK pl : pl = Inspect
  OBVIOUS
<1>3. PICK debts : debts = Owed(pl)
  OBVIOUS
<1>4. WellPlanned(pl, debts) /\ debts \in Seq(Repayable)
  BY <1>1, <1>2, <1>3, DebtsOfAPlan
<1>5. /\ plan' = [plan EXCEPT ![p] = pl] /\ owed' = [owed EXCEPT ![p] = debts]
      /\ UNCHANGED <<old, archive, takeover>>
      /\ pc[p] = "idle" /\ Goto(p, "planned") /\ cur' = cur
      /\ UNCHANGED <<hist, seq, facts, commits, worktree, lease, holder, leaseId, cached,
                     crashes, drift, edited, raced>>
  BY <1>2, <1>3 DEF Recover, ledger, repository, leaseFile, bounds
<1>6. Sound' /\ Unmoved(p) /\ pc'[p] = "planned"
  BY <1>1, <1>5, PlanStepKeepsSound DEF Planning
<1>7. PlannerTyped'
  BY <1>1, <1>4, <1>5 DEF PlannerTyped, WellPlanned
<1>8. /\ \A q \in Process \ {p} : plan'[q] = plan[q] /\ owed'[q] = owed[q]
      /\ plan'[p] = pl /\ owed'[p] = debts
  BY <1>1, <1>5 DEF PlannerTyped
<1>9. /\ pl \in PlanRecords
      /\ debts # <<>> \/ pl.class = "resume" => pl.txn \in Txn /\ hist'[pl.txn] # <<>>
  BY <1>4, <1>5 DEF WellPlanned, Known
<1>10. Plans'
  BY <1>1, <1>5, <1>6, <1>7, <1>8, <1>9, OneProcessPlans
<1> QED BY <1>6, <1>7, <1>10 DEF PlannerInv

\* A step of a process that keeps its plan.
LEMMA PlanGoesOn ==
  ASSUME PlannerInv, PlannerTyped', NEW p \in Process, Unmoved(p), UNCHANGED <<plan, owed>>,
         \A t \in Txn : hist[t] # <<>> => hist'[t] # <<>>,
         Applying(pc'[p], cur'[p]) => Applying(pc[p], cur[p]), pc'[p] # "reacquire"
  PROVE  Plans'
<1>1. Plans /\ (Applying(pc[p], cur[p]) => WellPlanned(plan[p], owed[p]))
  BY DEF PlannerInv, Plans
<1> QED BY <1>1, OneProcessPlans DEF WellPlanned, Known

\* The owner of the lease is proved dead, or there is no lease.
LEMMA ReadOldLeaseKeeps ==
  ASSUME PlannerInv, NEW p \in Process, ReadOldLease(p)
  PROVE  PlannerInv'
<1>1. Sound /\ TypeOK /\ PlannerTyped /\ Plans
  BY DEF PlannerInv, Sound
<1>2. /\ pc[p] = "planned"
      /\ UNCHANGED <<hist, seq, facts, commits, worktree, lease, leaseId, cached, archive>>
      /\ UNCHANGED bounds
  BY DEF ReadOldLease, ledger, repository
<1>3. CASE GiveUp(p)
  BY <1>2, <1>3, GiveUpKeeps
<1>4. CASE ~GiveUp(p)
  <2>1. /\ \/ Goto(p, "direct") /\ old' = old
           \/ Goto(p, "proved") /\ old' = [old EXCEPT ![p] = lease]
        /\ UNCHANGED <<cur, holder, plan, owed, takeover>>
    BY <1>4 DEF ReadOldLease
  <2>2. PICK to \in Planning \ {"reacquire"} : Goto(p, to)
    BY <2>1 DEF Planning
  <2>3. pc[p] \in {"idle"} \cup Planning
    BY <1>2 DEF Planning
  <2>4. Sound' /\ Unmoved(p) /\ pc'[p] = to
    BY <1>1, <1>2, <2>1, <2>2, <2>3, PlanStepKeepsSound DEF bounds
  <2>5. PlannerTyped'
    BY <1>1, <1>2, <2>1 DEF PlannerTyped, TypeOK
  <2>6. Applying(pc[p], cur[p])
    BY <1>2 DEF Applying, Planning
  <2>7. Plans'
    BY <1>2, <2>1, <2>4, <2>5, <2>6, PlanGoesOn
  <2> QED BY <2>4, <2>5, <2>7 DEF PlannerInv
<1> QED BY <1>3, <1>4

\* The lease file is archived, whatever it is by now.
LEMMA ArchiveLeaseKeeps ==
  ASSUME PlannerInv, NEW p \in Process, ArchiveLease(p)
  PROVE  PlannerInv'
<1>1. Sound /\ TypeOK /\ PlannerTyped /\ Plans
  BY DEF PlannerInv, Sound
<1>2. /\ pc[p] = "proved"
      /\ UNCHANGED <<hist, seq, facts, commits, worktree, leaseId, cached>>
      /\ UNCHANGED bounds
  BY DEF ArchiveLease, ledger, repository
<1>3. CASE GiveUp(p) /\ UNCHANGED <<archive, lease>>
  BY <1>2, <1>3, GiveUpKeeps
<1>4. CASE ~(GiveUp(p) /\ UNCHANGED <<archive, lease>>)
  <2>1. PICK t, a : t = old[p].txn /\ a = archive[t]
    OBVIOUS
  <2>2. /\ a = old[p] \/ (a = NoLease /\ lease # NoLease)
        /\ archive' = [archive EXCEPT ![t] = IF a = NoLease THEN lease ELSE a]
        /\ lease' = NoLease /\ holder' = NoProcess /\ takeover' = p
        /\ Goto(p, "archived")
        /\ UNCHANGED <<cur, plan, owed, old>>
    BY <1>4, <2>1 DEF ArchiveLease
  <2>3. "archived" \in Planning \ {"reacquire"} /\ pc[p] \in {"idle"} \cup Planning
    BY <1>2 DEF Planning
  <2>4. PICK to \in Planning \ {"reacquire"} : to = "archived"
    BY <2>3
  <2>5. Sound' /\ Unmoved(p) /\ pc'[p] = to
    BY <1>1, <1>2, <2>2, <2>3, <2>4, PlanStepKeepsSound DEF bounds
  <2>6. a \in LeaseRecord \cup {NoLease}
    BY <1>1, <2>1, <2>2 DEF PlannerTyped
  <2>7. (IF a = NoLease THEN lease ELSE a) \in LeaseRecord \cup {NoLease}
    BY <1>1, <2>6 DEF TypeOK
  <2>8. archive' \in [Txn -> LeaseRecord \cup {NoLease}]
    BY <1>1, <2>2, <2>7 DEF PlannerTyped
  <2>9. PlannerTyped'
    BY <1>1, <2>2, <2>8 DEF PlannerTyped
  <2>10. Applying(pc[p], cur[p])
    BY <1>2 DEF Applying, Planning
  <2>11. Plans'
    BY <1>2, <2>2, <2>4, <2>5, <2>9, <2>10, PlanGoesOn
  <2> QED BY <2>5, <2>9, <2>11 DEF PlannerInv
<1> QED BY <1>3, <1>4

\* The recovery transaction is opened: it has its lease, and a base.
LEMMA TakeLeaseKeeps ==
  ASSUME PlannerInv, NEW p \in Process, NEW r \in Recovery,
         TakeLease(p, r) \/ TakeFreeLease(p, r)
  PROVE  PlannerInv'
<1>1. Sound /\ TypeOK /\ PlannerTyped /\ Plans
  BY DEF PlannerInv, Sound
<1>2. /\ pc[p] \in {"archived", "direct"} /\ Fresh(r)
      /\ UNCHANGED <<hist, seq, commits, worktree, cached, archive>> /\ UNCHANGED bounds
  BY DEF TakeLease, TakeFreeLease, repository
<1>3. r \in Txn
  BY DEF Txn
<1>4. CASE GiveUp(p) /\ UNCHANGED <<facts, lease, leaseId>>
  BY <1>2, <1>4, GiveUpKeeps
<1>5. CASE OpenRecovery(p, r) /\ UNCHANGED <<plan, owed, old>> /\ takeover' \in {takeover, NoProcess}
  <2>1. Applying(pc[p], cur[p])
    BY <1>2 DEF Applying, Planning
  <2>2. plan[p] \in PlanRecords
    BY <1>1, <2>1 DEF Plans, WellPlanned
  <2>3. PICK fact : fact = [NoFacts EXCEPT !.base = Tip, !.start = plan[p].diff,
                                           !.recovered = plan[p].txn]
    OBVIOUS
  <2>4. Tip \in Nat /\ NoFacts \in Facts
    BY <1>1 DEF TypeOK, Tip, NoFacts, Facts
  <2>5. plan[p].diff \in SUBSET Owner /\ plan[p].txn \in Txn \cup {NoTxn}
    BY <2>2 DEF PlanRecords
  <2>6. fact \in Facts /\ fact.base = Tip
    BY <2>3, <2>4, <2>5 DEF Facts, NoFacts
  <2>7. /\ facts' = [facts EXCEPT ![r] = fact]
        /\ lease' = [txn |-> r, id |-> leaseId + 1] /\ leaseId' = leaseId + 1 /\ holder' = p
        /\ pc' = [pc EXCEPT ![p] = "taken"] /\ cur' = [cur EXCEPT ![p] = r]
    BY <1>5, <2>3 DEF OpenRecovery, AcquireLease, Goto
  <2>8. TypeOK' /\ Unmoved(p) /\ cur'[p] = r /\ pc'[p] = "taken"
    BY <1>1, <1>2, <1>3, <2>6, <2>7
       DEF TypeOK, LeaseRecord, Steps, RecoverySteps, Unmoved, bounds
  <2>9. Sound'
    BY <1>1, <1>2, <1>3, <2>6, <2>7, <2>8, OpenKeeps
  <2>10. PlannerTyped'
    BY <1>1, <1>2, <1>5 DEF PlannerTyped
  <2>11. Plans'
    BY <1>2, <1>5, <2>1, <2>8, <2>10, PlanGoesOn
  <2> QED BY <2>9, <2>10, <2>11 DEF PlannerInv
<1>6. (GiveUp(p) /\ UNCHANGED <<facts, lease, leaseId>>)
      \/ (OpenRecovery(p, r) /\ UNCHANGED <<plan, owed, old>> /\ takeover' \in {takeover, NoProcess})
  BY DEF TakeLease, TakeFreeLease
<1> QED BY <1>4, <1>5, <1>6

\* An event written to a transaction that is recorded already, by whomever:
\* it is not evidence of a session, a boundary or a validation.
LEMMA ForeignAppendKeeps ==
  ASSUME Sound, NEW p \in Process, NEW t \in Txn, hist[t] # <<>>, TypeOK', Unmoved(p),
         NEW type \in EventTypes,
         type \notin {"SessionResultAccepted", "ChangesDetected", "ValidationStarted",
                      "ValidationPassed"},
         hist' = [hist EXCEPT ![t] = Append(@, type)],
         \A u \in Txn : /\ facts'[u].base = facts[u].base
                        /\ facts'[u].said = facts[u].said
                        /\ facts'[u].boundary = facts[u].boundary
                        /\ facts'[u].verdict = facts[u].verdict,
         commits' = commits, lease' = lease, cur' = cur,
         \/ pc'[p] = pc[p]
         \/ /\ pc[p] \in Busy
            /\ pc'[p] \in {"superseding", "resulted", "finalizing", "bounded"}
            /\ pc'[p] = "resulted" => "SessionResultAccepted" \in Rec[cur[p]]
            /\ pc'[p] = "finalizing" => "ValidationPassed" \in Rec[cur[p]]
  PROVE  Sound'
<1>1. /\ TypeOK /\ Hands /\ Origins /\ FirstRuns /\ Evidence /\ Places /\ Validated
  BY DEF Sound
<1>2. Rec' = [Rec EXCEPT ![t] = @ \cup {type}] /\ Rec \in [Txn -> SUBSET EventTypes]
  BY <1>1, RecAfterEmit, RecType
<1>3. \A u \in Txn : /\ Rec[u] \subseteq Rec'[u]
                     /\ \A n \in {"SessionResultAccepted", "ChangesDetected",
                                  "ValidationStarted", "ValidationPassed"} :
                          n \in Rec'[u] <=> n \in Rec[u]
  BY <1>2
<1>4. \A q \in Process : q # p => pc'[q] = pc[q]
  BY DEF Unmoved
<1>5. {"superseding", "resulted", "finalizing", "bounded"} \cap FirstSteps = {}
  BY DEF FirstSteps
<1>6. Rec[t] # {}
  BY <1>1, RecMeaning
<1>7. Origins'
  <2>1. \A u \in Txn : Rec'[u] # {} => Rec[u] # {}
    BY <1>2, <1>6
  <2>2. lease # NoLease => lease.txn \in Txn
    BY <1>1 DEF TypeOK, LeaseRecord
  <2> QED BY <1>1, <2>1, <2>2 DEF Origins, Begun
<1>8. Hands'
  BY <1>1, <1>4 DEF Hands, Begun
<1>9. FirstRuns'
  BY <1>1, <1>4, <1>5 DEF FirstRuns
<1>10. Evidence'
  BY <1>1, <1>3 DEF Evidence
<1>11. Places'
  <2> SUFFICES ASSUME NEW q \in Process
               PROVE  /\ pc'[q] \in FirstSteps => "SessionResultAccepted" \notin Rec'[cur[q]]
                      /\ pc'[q] = "resulted" => "SessionResultAccepted" \in Rec'[cur[q]]
                      /\ pc'[q] \in {"finalizing", "checked"} =>
                           "ValidationPassed" \in Rec'[cur[q]]
                      /\ pc'[q] = "checked" => facts'[cur[q]].said = {cur[q]}
    BY DEF Places
  <2>1. /\ pc[q] \in FirstSteps => "SessionResultAccepted" \notin Rec[cur[q]]
        /\ pc[q] = "resulted" => "SessionResultAccepted" \in Rec[cur[q]]
        /\ pc[q] \in {"finalizing", "checked"} => "ValidationPassed" \in Rec[cur[q]]
        /\ pc[q] = "checked" => facts[cur[q]].said = {cur[q]}
    BY <1>1 DEF Places
  <2>2. pc[q] \in Busy => cur[q] \in Txn
    BY <1>1 DEF Hands
  <2>3. FirstSteps \cup {"resulted", "finalizing", "checked"} \subseteq Busy
    BY DEF FirstSteps, Busy, Steps
  <2>4. CASE pc'[q] = pc[q]
    BY <1>3, <2>1, <2>2, <2>3, <2>4
  <2>5. CASE pc'[q] # pc[q]
    BY <1>3, <1>4, <1>5, <2>2, <2>5
  <2> QED BY <2>4, <2>5
<1>12. Validated'
  <2>1. \A i \in DOMAIN commits : commits[i] # Outside => commits[i] \in Txn
    BY Owners
  <2> QED BY <1>1, <1>3, <2>1 DEF Validated
<1> QED BY <1>7, <1>8, <1>9, <1>10, <1>11, <1>12 DEF Sound

\* What is owed is written to the recovered transaction.
LEMMA RepayKeeps ==
  ASSUME PlannerInv, NEW p \in Process, Repay(p)
  PROVE  PlannerInv'
<1>1. Sound /\ TypeOK /\ PlannerTyped /\ Plans
  BY DEF PlannerInv, Sound
<1>2. PICK t, type, debts : t = plan[p].txn /\ type = Head(owed[p]) /\ debts = owed[p]
  OBVIOUS
<1>3. /\ pc[p] = "finalized" /\ cur[p] \in Recovery /\ debts # <<>>
      /\ UNCHANGED <<commits, worktree, leaseId, cached, archive>> /\ UNCHANGED bounds
  BY <1>2 DEF Repay, repository
<1>4. Applying(pc[p], cur[p])
  BY <1>3 DEF Applying
<1>5. plan[p] \in PlanRecords /\ t \in Txn /\ hist[t] # <<>>
  BY <1>1, <1>2, <1>3, <1>4 DEF Plans, WellPlanned, Known
<1>6. debts \in Seq(Repayable)
  BY <1>1, <1>2 DEF PlannerTyped
<1>7. type \in Repayable /\ Tail(debts) \in Seq(Repayable)
  BY <1>2, <1>3, <1>6
<1>8. Repayable \subseteq EventTypes
      /\ Repayable \cap {"SessionResultAccepted", "ChangesDetected", "ValidationStarted",
                         "ValidationPassed"} = {}
  BY DEF Repayable, EventTypes, TerminalEventTypes
<1>9. CASE GiveUp(p) /\ UNCHANGED ledger /\ UNCHANGED lease
  BY <1>3, <1>9, GiveUpKeeps DEF ledger
<1>10. CASE ~(GiveUp(p) /\ UNCHANGED ledger /\ UNCHANGED lease)
  <2>1. /\ \/ UNCHANGED <<hist, seq>>
           \/ hist' = [hist EXCEPT ![t] = Append(@, type)] /\ seq' = seq + 1
        /\ facts' = IF type = "CommitFinalized"
                    THEN [facts EXCEPT ![t].commit = facts[t].base + 1] ELSE facts
        /\ owed' = [owed EXCEPT ![p] = Tail(debts)]
        /\ UNCHANGED <<pc, cur, lease, holder, plan, old, takeover>>
    BY <1>2, <1>10 DEF Repay, Emit
  <2>2. facts \in [Txn -> Facts] /\ facts[t] \in Facts
    BY <1>1, <1>5 DEF TypeOK
  <2>3. /\ facts' \in [Txn -> Facts]
        /\ \A u \in Txn : /\ facts'[u].base = facts[u].base
                          /\ facts'[u].said = facts[u].said
                          /\ facts'[u].boundary = facts[u].boundary
                          /\ facts'[u].verdict = facts[u].verdict
    <3>1. CASE type # "CommitFinalized"
      BY <2>1, <2>2, <3>1
    <3>2. CASE type = "CommitFinalized"
      <4>1. PICK fact : fact = [facts[t] EXCEPT !.commit = facts[t].base + 1]
        OBVIOUS
      <4>2. facts[t].base + 1 \in Nat
        BY <2>2 DEF Facts
      <4>3. /\ fact \in Facts /\ fact.base = facts[t].base /\ fact.said = facts[t].said
            /\ fact.boundary = facts[t].boundary /\ fact.verdict = facts[t].verdict
        BY <2>2, <4>1, <4>2 DEF Facts
      <4>4. facts' = [facts EXCEPT ![t] = fact]
        BY <2>1, <3>2, <4>1
      <4> QED BY <2>2, <4>3, <4>4
    <3> QED BY <3>1, <3>2
  <2>4. Unmoved(p) /\ pc'[p] = pc[p]
    BY <2>1 DEF Unmoved
  <2>5. hist' \in [Txn -> Seq(EventTypes)] /\ seq' \in Nat
    <3>1. CASE UNCHANGED <<hist, seq>>
      BY <1>1, <3>1 DEF TypeOK
    <3>2. CASE hist' = [hist EXCEPT ![t] = Append(@, type)] /\ seq' = seq + 1
      BY <1>1, <1>5, <1>7, <1>8, <3>2, RecAfterEmit DEF TypeOK
    <3> QED BY <2>1, <3>1, <3>2
  <2>6. TypeOK'
    BY <1>1, <1>3, <2>1, <2>3, <2>5 DEF TypeOK, bounds
  <2>7. Sound'
    <3>1. CASE hist' = [hist EXCEPT ![t] = Append(@, type)]
      <4>1. type \in EventTypes
            /\ type \notin {"SessionResultAccepted", "ChangesDetected", "ValidationStarted",
                            "ValidationPassed"}
        BY <1>7, <1>8
      <4> QED BY <1>1, <1>3, <1>5, <2>1, <2>3, <2>4, <2>6, <3>1, <4>1, ForeignAppendKeeps
    <3>2. CASE hist' = hist
      <4>1. Rec' = Rec
        BY <3>2 DEF Rec, Recorded
      <4>2. \A i \in DOMAIN commits : commits[i] # Outside => commits[i] \in Txn
        BY <1>1, Owners
      <4>3. /\ Hands /\ Origins /\ FirstRuns /\ Evidence /\ Places /\ Validated
            /\ \A q \in Process : pc[q] \in Busy => cur[q] \in Txn
        BY <1>1 DEF Sound, Hands
      <4>4. lease # NoLease => lease.txn \in Txn
        BY <1>1 DEF TypeOK, LeaseRecord
      <4>5. Hands' /\ Origins' /\ FirstRuns' /\ Evidence' /\ Validated'
        BY <1>3, <2>1, <2>3, <4>1, <4>2, <4>3, <4>4
           DEF Hands, Origins, FirstRuns, Evidence, Validated, Begun
      <4>6. "checked" \in Busy
        BY DEF Busy, Steps
      <4>7. Places'
        BY <2>1, <2>3, <4>1, <4>3, <4>6 DEF Places
      <4> QED BY <2>6, <4>5, <4>7 DEF Sound
    <3> QED BY <2>1, <3>1, <3>2
  <2>8. PlannerTyped'
    BY <1>1, <1>3, <1>7, <2>1 DEF PlannerTyped
  <2>9. \A u \in Txn : hist[u] # <<>> => hist'[u] # <<>>
    <3>1. CASE hist' = hist
      BY <3>1
    <3>2. CASE hist' = [hist EXCEPT ![t] = Append(@, type)]
      <4>1. hist \in [Txn -> Seq(EventTypes)] /\ type \in EventTypes
        BY <1>1, <1>7, <1>8 DEF TypeOK
      <4>2. hist'[t] = Append(hist[t], type) /\ hist[t] \in Seq(EventTypes)
        BY <1>5, <3>2, <4>1
      <4>3. hist'[t] # <<>>
        BY <4>1, <4>2, Appended
      <4> QED BY <3>2, <4>1, <4>3
    <3> QED BY <2>1, <3>1, <3>2
  <2>10. plan'[p] \in PlanRecords /\ plan'[p].txn \in Txn /\ hist'[plan'[p].txn] # <<>>
    BY <1>2, <1>5, <2>1, <2>9
  <2>11. /\ \A q \in Process \ {p} : plan'[q] = plan[q] /\ owed'[q] = owed[q]
         /\ pc'[p] # "reacquire"
    BY <1>1, <1>3, <2>1, <2>4 DEF PlannerTyped
  <2>12. Plans'
    BY <1>1, <2>4, <2>8, <2>9, <2>10, <2>11, OneProcessPlans
  <2> QED BY <2>7, <2>8, <2>12 DEF PlannerInv
<1> QED BY <1>9, <1>10

\* The lease of the resumed transaction is taken again.
LEMMA ReacquireLeaseKeeps ==
  ASSUME PlannerInv, NEW p \in Process, ReacquireLease(p)
  PROVE  PlannerInv'
<1>1. Sound /\ TypeOK /\ PlannerTyped /\ Plans
  BY DEF PlannerInv, Sound
<1>2. PICK t : t = plan[p].txn
  OBVIOUS
<1>3. /\ pc[p] = "reacquire"
      /\ UNCHANGED <<hist, seq, facts, commits, worktree, cached, archive>>
      /\ UNCHANGED bounds
  BY DEF ReacquireLease, ledger, repository
<1>4. Applying(pc[p], cur[p])
  BY <1>3 DEF Applying, Planning
<1>5. t \in Work /\ t \in Txn /\ hist[t] # <<>>
  BY <1>1, <1>2, <1>3, <1>4 DEF Plans, WellPlanned, Known
<1>6. Begun(t)
  BY <1>1, <1>5, RecMeaning DEF Sound, Origins
<1>7. CASE GiveUp(p) /\ UNCHANGED <<lease, leaseId>>
  BY <1>3, <1>7, GiveUpKeeps
<1>8. CASE ~(GiveUp(p) /\ UNCHANGED <<lease, leaseId>>)
  <2>1. /\ lease' = [txn |-> t, id |-> leaseId + 1] /\ leaseId' = leaseId + 1 /\ holder' = p
        /\ pc' = [pc EXCEPT ![p] = "rebound"] /\ cur' = [cur EXCEPT ![p] = t]
        /\ UNCHANGED <<plan, owed, old, takeover>>
    BY <1>2, <1>8 DEF ReacquireLease, AcquireLease, Goto
  <2>2. TypeOK' /\ Unmoved(p) /\ cur'[p] = t /\ pc'[p] = "rebound"
    BY <1>1, <1>3, <1>5, <2>1
       DEF TypeOK, LeaseRecord, Steps, RecoverySteps, Unmoved, bounds
  <2>3. Validated' /\ commits' # <<>> /\ Begun(lease'.txn)
    BY <1>1, <1>3, <1>6, <2>1, RecStays DEF Sound, Validated, Origins
  <2>4. "rebound" \notin FirstSteps
    BY DEF FirstSteps
  <2>5. Sound'
    BY <1>1, <1>3, <1>5, <1>6, <2>2, <2>3, <2>4, SilentKeeps
  <2>6. PlannerTyped'
    BY <1>1, <1>3, <2>1 DEF PlannerTyped
  <2>7. Plans'
    BY <1>3, <1>4, <2>1, <2>2, <2>6, PlanGoesOn
  <2> QED BY <2>5, <2>6, <2>7 DEF PlannerInv
<1> QED BY <1>7, <1>8

\* restore: the resumed transaction goes on where its evidence ends.
LEMMA RecordReacquiredKeeps ==
  ASSUME PlannerInv, NEW p \in Process, RecordReacquired(p)
  PROVE  PlannerInv'
<1>1. Sound /\ TypeOK /\ PlannerTyped /\ Plans /\ Hands /\ Origins
  BY DEF PlannerInv, Sound
<1>2. PICK t, type : t = cur[p] /\ type = "LeaseAcquired"
  OBVIOUS
<1>3. /\ pc[p] = "rebound"
      /\ UNCHANGED <<facts, commits, worktree, lease, leaseId, archive>>
      /\ UNCHANGED bounds
  BY DEF RecordReacquired, repository
<1>4. pc[p] \in Busy /\ t \in Txn
  BY <1>1, <1>2, <1>3 DEF Hands, Busy
<1>5. type \in EventTypes
      /\ type \notin {"SessionResultAccepted", "ChangesDetected", "ValidationStarted",
                      "ValidationPassed", "TransactionStarted"}
  BY <1>2 DEF EventTypes
<1>6. CASE GiveUp(p) /\ UNCHANGED <<hist, seq, cached>>
  BY <1>3, <1>6, GiveUpKeeps
<1>7. CASE ~(GiveUp(p) /\ UNCHANGED <<hist, seq, cached>>)
  <2>1. /\ Admits(t, type)
        /\ hist' = [hist EXCEPT ![t] = Append(@, type)] /\ seq' = seq + 1 /\ cached' = seq + 1
        /\ Goto(p, ResumeAt(p))
        /\ UNCHANGED <<cur, holder, plan, owed, old, takeover>>
    BY <1>2, <1>7 DEF RecordReacquired, Emit
  <2>2. hist[t] # <<>>
    BY <1>5, <2>1 DEF Admits, ValidateAppend
  <2>3. PICK to : to = ResumeAt(p)
    OBVIOUS
  <2>4. /\ to \in {"superseding", "resulted", "finalizing", "bounded"}
        /\ to = "resulted" => Recorded(t, "SessionResultAccepted")
        /\ to = "finalizing" => Recorded(t, "ValidationPassed")
    BY <1>2, <2>3 DEF ResumeAt
  <2>5. {"SessionResultAccepted", "ValidationPassed"} \subseteq EventTypes
    BY DEF EventTypes
  <2>6. /\ to = "resulted" => "SessionResultAccepted" \in Rec[t]
        /\ to = "finalizing" => "ValidationPassed" \in Rec[t]
    BY <1>1, <1>4, <2>4, <2>5, RecMeaning
  <2>7. pc' = [pc EXCEPT ![p] = to] /\ to \in Steps
    BY <2>1, <2>3, <2>4 DEF Goto, Steps
  <2>8. Unmoved(p) /\ pc'[p] = to
    BY <1>1, <2>1, <2>7 DEF Unmoved, TypeOK
  <2>9. hist' \in [Txn -> Seq(EventTypes)]
    BY <1>1, <1>4, <1>5, <2>1, RecAfterEmit
  <2>10. TypeOK'
    BY <1>1, <1>3, <2>1, <2>7, <2>9 DEF TypeOK, bounds
  <2>11. Sound'
    BY <1>1, <1>2, <1>3, <1>4, <1>5, <2>1, <2>2, <2>4, <2>6, <2>8, <2>10, ForeignAppendKeeps
  <2>12. PlannerTyped'
    BY <1>1, <1>3, <2>1 DEF PlannerTyped
  <2>13. \A u \in Txn : hist[u] # <<>> => hist'[u] # <<>>
    <3>1. hist \in [Txn -> Seq(EventTypes)]
      BY <1>1 DEF TypeOK
    <3>2. hist'[t] = Append(hist[t], type) /\ hist[t] \in Seq(EventTypes)
      BY <1>4, <2>1, <3>1
    <3>3. hist'[t] # <<>>
      BY <1>5, <3>2, Appended
    <3> QED BY <2>1, <3>1, <3>3
  <2>14. pc'[p] # "reacquire" /\ (Applying(pc'[p], cur'[p]) => Applying(pc[p], cur[p]))
    BY <1>3, <2>1, <2>4, <2>8 DEF Applying, Planning
  <2>15. Plans'
    BY <2>1, <2>8, <2>12, <2>13, <2>14, PlanGoesOn
  <2> QED BY <2>11, <2>12, <2>15 DEF PlannerInv
<1> QED BY <1>6, <1>7

-----------------------------------------------------------------------------
(* The invariants of the specification.                                    *)

\* At first there is nothing to plan.
LEMMA PlannerInitInv ==
  ASSUME PlannerInit
  PROVE  PlannerInv
<1>1. Sound
  BY InitSound DEF PlannerInit
<1>2. <<>> \in Seq(Repayable)
  OBVIOUS
<1>3. PlannerTyped
  BY <1>2 DEF PlannerInit, PlannerTyped
<1>4. \A p \in Process : pc[p] = "idle"
  BY DEF PlannerInit, Init
<1>5. Plans
  BY <1>4 DEF Plans, Applying, Planning
<1> QED BY <1>1, <1>3, <1>5 DEF PlannerInv

\* Every step, of a runner, a recovery, a death or the outsider.
LEMMA PlannerNextKeeps ==
  ASSUME PlannerInv, PlannerNext
  PROVE  PlannerInv'
<1>1. CASE Drift /\ UNCHANGED plannerVars
  <2>1. Sound'
    BY <1>1, DriftKeeps DEF PlannerInv
  <2>2. UNCHANGED <<plan, owed, old, archive, takeover, pc, cur, hist>>
    BY <1>1 DEF Drift, plannerVars, ledger
  <2>3. PlannerTyped' /\ Plans'
    BY <2>2 DEF PlannerInv, PlannerTyped, Plans, WellPlanned, Known, Applying
  <2> QED BY <2>1, <2>3 DEF PlannerInv
<1>2. ASSUME NEW p \in Process, RecoveryStep(p)
      PROVE  PlannerInv'
  <2>1. CASE (StartRecovery(p) \/ CompleteRecovery(p) \/ FinishRecovery(p)) /\ Settle(p)
    BY <2>1, RecoveryCallKeeps, FinishRecoveryKeeps
  <2>2. CASE \E r \in Recovery : TakeLease(p, r) \/ TakeFreeLease(p, r)
    BY <2>2, TakeLeaseKeeps
  <2>3. CASE ReadOldLease(p) \/ ArchiveLease(p) \/ Repay(p)
    BY <2>3, ReadOldLeaseKeeps, ArchiveLeaseKeeps, RepayKeeps
  <2>4. CASE ReacquireLease(p) \/ RecordReacquired(p)
    BY <2>4, ReacquireLeaseKeeps, RecordReacquiredKeeps
  <2> QED BY <1>2, <2>1, <2>2, <2>3, <2>4 DEF RecoveryStep
<1>3. ASSUME NEW p \in Process,
             \/ RunnerStep(p) /\ Settle(p)
             \/ \E command \in {"resume", "resolve"} : Recover(p, command)
             \/ Crash(p)
      PROVE  PlannerInv'
  BY <1>3, RunnerStepKeeps, RecoverKeeps, CrashKeeps
<1> QED BY <1>1, <1>2, <1>3 DEF PlannerNext

\* The inductive invariant of recovery: the kernel's evidence stays sound, and
\* every plan at work is one for a transaction the ledger knows.
THEOREM PlannerInvariance == PlannerSpec => []PlannerInv
<1>1. PlannerInit => PlannerInv
  BY PlannerInitInv
<1>2. PlannerInv /\ [PlannerNext]_vars => PlannerInv'
  <2> SUFFICES ASSUME PlannerInv, [PlannerNext]_vars
               PROVE  PlannerInv'
    OBVIOUS
  <2>1. CASE PlannerNext
    BY <2>1, PlannerNextKeeps
  <2>2. CASE UNCHANGED vars
    <3>1. UNCHANGED <<hist, seq, facts, commits, worktree, lease, holder, leaseId, pc, cur,
                      cached, crashes, drift, edited, raced, plan, owed, old, archive, takeover>>
      BY <2>2 DEF vars, plannerVars, kernelVars, ledger, repository, leaseFile, bounds
    <3>2. Rec' = Rec
      BY <3>1, RecStays
    <3>3. Sound'
      BY <3>1, <3>2 DEF PlannerInv, Sound, TypeOK, Hands, Origins, FirstRuns, Evidence,
                        Places, Validated, Begun
    <3>4. PlannerTyped' /\ Plans'
      BY <3>1 DEF PlannerInv, PlannerTyped, Plans, WellPlanned, Known, Applying
    <3> QED BY <3>3, <3>4 DEF PlannerInv
  <2> QED BY <2>1, <2>2
<1> QED BY <1>1, <1>2, PTL DEF PlannerSpec

\* Every variable of recovery keeps its type, whoever recovers what and where
\* a process dies.
THEOREM PlannerTypeCorrectness == PlannerSpec => []PlannerTypeOK
<1>1. PlannerInv => PlannerTypeOK
  <2> SUFFICES ASSUME PlannerInv
               PROVE  PlannerTypeOK
    OBVIOUS
  <2>1. TypeOK /\ PlannerTyped
    BY DEF PlannerInv, Sound
  <2>2. ASSUME NEW p \in Process
        PROVE  /\ plan[p] # NoPlan =>
                    plan[p].txn \in Txn \cup {NoTxn} /\ plan[p].diff \subseteq Owner
               /\ owed[p] \in Seq(EventTypes)
               /\ old[p] \in LeaseRecord \cup {NoLease}
    <3>1. /\ plan[p] \in PlanRecords \cup {NoPlan}
          /\ owed[p] \in Seq(Repayable)
          /\ old[p] \in LeaseRecord \cup {NoLease}
      BY <2>1 DEF PlannerTyped
    <3>2. Repayable \subseteq EventTypes
      BY DEF Repayable, EventTypes, TerminalEventTypes
    <3>3. owed[p] \in Seq(EventTypes)
      BY <3>1, <3>2
    <3> QED BY <3>1, <3>3 DEF PlanRecords
  <2> QED BY <2>1, <2>2 DEF PlannerTypeOK, PlannerTyped
<1> QED BY <1>1, PlannerInvariance, PTL

\* Recovery compares nothing itself: a resumed transaction goes back to the
\* kernel before its commit, and the kernel compares again.
LEMMA ResumedIsQuiet ==
  ASSUME TypeOK, NEW p \in Process, RecordReacquired(p)
  PROVE  Quiet(p)
<1>1. PICK to : to = ResumeAt(p)
  OBVIOUS
<1>2. to # "checked"
  BY <1>1 DEF ResumeAt
<1>3. CASE Goto(p, to) /\ cur' = cur
  BY <1>2, <1>3, CallIsQuiet DEF RecordReacquired
<1>4. CASE GiveUp(p)
  BY <1>4 DEF RecordReacquired, GiveUp, Exit, TypeOK, repository, bounds, Quiet, Unmoved
<1> QED BY <1>1, <1>3, <1>4 DEF RecordReacquired

LEMMA RecoveryCompares ==
  ASSUME Sound, Compared, NEW p \in Process,
         \/ RecoveryStep(p)
         \/ \E command \in {"resume", "resolve"} : Recover(p, command)
  PROVE  Compared'
<1>1. TypeOK
  BY DEF Sound
<1>2. CASE \E command \in {"resume", "resolve"} : Recover(p, command)
  BY <1>1, <1>2, QuietCompares DEF Recover, Goto, TypeOK, repository, bounds, Quiet, Unmoved
<1>3. CASE ReadOldLease(p)
  BY <1>1, <1>3, QuietCompares
     DEF ReadOldLease, GiveUp, Exit, Goto, TypeOK, repository, bounds, Quiet, Unmoved
<1>4. CASE ArchiveLease(p)
  BY <1>1, <1>4, QuietCompares
     DEF ArchiveLease, GiveUp, Exit, Goto, TypeOK, repository, bounds, Quiet, Unmoved
<1>5. ASSUME NEW r \in Recovery, TakeLease(p, r)
      PROVE  Compared'
  BY <1>1, <1>5, QuietCompares
     DEF TakeLease, OpenRecovery, GiveUp, Exit, Goto, TypeOK, repository, bounds, Quiet, Unmoved
<1>6. ASSUME NEW r \in Recovery, TakeFreeLease(p, r)
      PROVE  Compared'
  BY <1>1, <1>6, QuietCompares
     DEF TakeFreeLease, OpenRecovery, GiveUp, Exit, Goto, TypeOK, repository, bounds, Quiet,
         Unmoved
<1>7. CASE Repay(p)
  BY <1>1, <1>7, QuietCompares
     DEF Repay, GiveUp, Exit, TypeOK, repository, bounds, Quiet, Unmoved
<1>8. CASE ReacquireLease(p)
  BY <1>1, <1>8, QuietCompares
     DEF ReacquireLease, GiveUp, Exit, Goto, TypeOK, repository, bounds, Quiet, Unmoved
<1>9. CASE RecordReacquired(p)
  BY <1>1, <1>9, ResumedIsQuiet, QuietCompares
<1>10. CASE StartRecovery(p)
  <2>1. CASE Goto(p, "started") /\ cur' = cur
    BY <1>1, <1>10, <2>1, QuietCompares
       DEF StartRecovery, Step, Goto, TypeOK, repository, bounds, Quiet, Unmoved
  <2>2. CASE Raise(p)
    BY <1>1, <1>10, <2>2, RaisedIsQuiet, QuietCompares DEF StartRecovery, Step
  <2> QED BY <1>10, <2>1, <2>2 DEF StartRecovery, Step
<1>11. CASE CompleteRecovery(p)
  BY <1>11, KernelCompares DEF CompleteRecovery
<1>12. CASE FinishRecovery(p)
  <2>1. \E to \in {"idle", "reacquire"} : Rebuild(p, to)
    BY <1>12 DEF FinishRecovery
  <2> QED BY <2>1, OpenOrCloseCompares
<1> QED BY <1>2, <1>3, <1>4, <1>5, <1>6, <1>7, <1>8, <1>9, <1>10, <1>11, <1>12
        DEF RecoveryStep

\* Whoever finishes an interrupted transaction, and however often it is
\* recovered, by several processes at once and with or without the lease:
\* finalize commits nothing that a session did not return and a validation
\* did not pass, with the bytes that were compared or an edit that came after
\* the comparison.
THEOREM RecoveredCommitsAreValidated == PlannerSpec => []CommitsAreValidated
<1>1. PlannerInit => Compared
  BY KernelConstants DEF PlannerInit, Init, Compared
<1>2. PlannerInv /\ Compared /\ [PlannerNext]_vars => Compared'
  <2> SUFFICES ASSUME Sound, Compared, [PlannerNext]_vars
               PROVE  Compared'
    BY DEF PlannerInv
  <2>1. CASE Drift
    BY <2>1, DriftCompares
  <2>2. ASSUME NEW p \in Process, RunnerStep(p) \/ Crash(p)
        PROVE  Compared'
    BY <2>2, KernelCompares, OpenOrCloseCompares DEF RunnerStep, Complete, Finish, Crash
  <2>3. CASE UNCHANGED vars
    BY <2>3 DEF vars, kernelVars, repository, bounds, Compared
  <2> QED BY <2>1, <2>2, <2>3, RecoveryCompares DEF PlannerNext
<1>3. PlannerInv /\ Compared => CommitsAreValidated
  BY SoundIsValidated DEF PlannerInv
<1> QED BY <1>1, <1>2, <1>3, PlannerInvariance, PTL DEF PlannerSpec
-----------------------------------------------------------------------------
(***************************************************************************)
(* The branch.  A transaction commits once, above its base, and its final  *)
(* commit is recorded by whoever knows it: the process that committed, one *)
(* that found nothing to commit, or a recovery that saw the one child of   *)
(* the base.  Neither the lease nor a single recoverer is needed.          *)
(***************************************************************************)

\* the one child of t's base is t's
Child(t) ==
  LET i == facts[t].base + 1 IN t \in Txn /\ i \in DOMAIN commits /\ commits[i] = t

\* what is recorded of a final commit is true of the branch
Final(t) ==
  /\ facts[t].commit \in DOMAIN commits
  /\ ~NoCommitOf(t) <=> facts[t].commit > facts[t].base
  /\ \A i \in DOMAIN commits : commits[i] = t => i <= facts[t].commit
  /\ t \notin worktree

\* where commits lie, and that there is one per transaction
Committed ==
  /\ \A t \in Txn : facts[t].base <= Tip
  /\ \A i, j \in DOMAIN commits :
        commits[i] # Outside =>
          /\ facts[commits[i]].base < i
          /\ commits[j] = commits[i] => i = j
  /\ worktree \subseteq Work \cup {Outside}
  /\ \A t \in worktree \ {Outside} : NoCommitOf(t)

\* what is recorded of it
Finalized ==
  /\ \A t \in Txn :
        /\ "CommitFinalized" \in Rec[t] => "ValidationPassed" \in Rec[t] /\ Final(t)
        /\ "TransactionCompleted" \in Rec[t] => "CommitFinalized" \in Rec[t]
  /\ \A p \in Process : pc[p] = "committed" => ~NoCommitOf(cur[p])

Completion == <<"TransactionCompleted", "RecoveryApplied">>

CommitDebt == <<"CommitFinalized", "TransactionCompleted", "RecoveryApplied">>

DebtSequences ==
  {CommitDebt, Completion, <<"RecoveryApplied">>,
   <<"RecoveryApplied", "TransactionSuperseded">>, <<"TransactionSuperseded">>, <<>>}

\* a commit is owed of a transaction that has one, and a completion to one
\* whose final commit is recorded or that has ended
Grounded(t, debts) ==
  /\ debts \in DebtSequences
  /\ debts = CommitDebt => Child(t)
  /\ debts = Completion =>
       t \in Txn /\ Rec[t] \cap ({"CommitFinalized"} \cup TerminalEventTypes) # {}

Grounds == \A p \in Process : owed[p] = <<>> \/ Grounded(plan[p].txn, owed[p])

BranchInv == Committed /\ Finalized /\ Grounds

\* What no step takes back: a commit, a record, the base of what has begun.
Grows ==
  /\ \A i \in DOMAIN commits : i \in DOMAIN commits' /\ commits'[i] = commits[i]
  /\ \A t \in Txn : /\ Rec[t] \subseteq Rec'[t]
                    /\ Begun(t) => facts'[t].base = facts[t].base

\* A transaction with a commit has begun and has passed its validation.
LEMMA CommittedHasBegun ==
  ASSUME Sound, NEW t \in Txn, ~NoCommitOf(t)
  PROVE  Begun(t) /\ "ValidationPassed" \in Rec[t]
<1>1. PICK i \in DOMAIN commits : commits[i] = t
  BY DEF NoCommitOf
<1>2. t # Outside
  BY KernelConstants
<1> QED BY <1>1, <1>2 DEF Sound, Validated, Origins

\* A step that leaves branch and checkout alone, and what is recorded of both.
LEMMA StillOnBranch ==
  ASSUME Sound, Committed, Finalized, commits' = commits, worktree' = worktree,
         \A t \in Txn : facts'[t].base = facts[t].base /\ facts'[t].commit = facts[t].commit,
         \A t \in Txn :
            /\ Rec[t] \subseteq Rec'[t]
            /\ "CommitFinalized" \in Rec'[t] => "CommitFinalized" \in Rec[t]
            /\ "TransactionCompleted" \in Rec'[t] =>
                 Rec[t] \cap {"TransactionCompleted", "CommitFinalized"} # {},
         \A p \in Process : pc'[p] = "committed" => pc[p] = "committed" /\ cur'[p] = cur[p]
  PROVE  Committed' /\ Finalized' /\ Grows
<1>1. Tip' = Tip /\ \A t : NoCommitOf(t)' <=> NoCommitOf(t)
  BY DEF Tip, NoCommitOf
<1>2. \A i \in DOMAIN commits : commits[i] # Outside => commits[i] \in Txn
  BY Owners
<1>3. Committed'
  BY <1>1, <1>2 DEF Committed, NoCommitOf
<1>4. ASSUME NEW t \in Txn
      PROVE  /\ "CommitFinalized" \in Rec'[t] => "ValidationPassed" \in Rec'[t] /\ Final(t)'
             /\ "TransactionCompleted" \in Rec'[t] => "CommitFinalized" \in Rec'[t]
  <2>1. "CommitFinalized" \in Rec[t] => "ValidationPassed" \in Rec[t] /\ Final(t)
    BY DEF Finalized
  <2>2. "TransactionCompleted" \in Rec[t] => "CommitFinalized" \in Rec[t]
    BY DEF Finalized
  <2>3. Final(t) => Final(t)'
    BY <1>1 DEF Final, NoCommitOf
  <2> QED BY <2>1, <2>2, <2>3
<1>5. ASSUME NEW p \in Process, pc'[p] = "committed"
      PROVE  \E i \in DOMAIN commits' : commits'[i] = cur'[p]
  BY <1>5 DEF Finalized, NoCommitOf
<1>6. Finalized'
  BY <1>4, <1>5 DEF Finalized, NoCommitOf
<1> QED BY <1>3, <1>6 DEF Grows

\* The final commit of t is recorded, by whomever: it is of the branch, it is
\* t's or above it, and it is the base if t has none.
LEMMA FinalIsRecorded ==
  ASSUME Sound, Committed, Finalized, commits' = commits, worktree' = worktree,
         NEW t \in Txn, NEW fact, fact.base = facts[t].base,
         facts' = [facts EXCEPT ![t] = fact],
         Rec' = [Rec EXCEPT ![t] = @ \cup {"CommitFinalized"}],
         "ValidationPassed" \in Rec[t], t \notin worktree,
         fact.commit \in DOMAIN commits,
         ~NoCommitOf(t) <=> fact.commit > fact.base,
         \A i \in DOMAIN commits : commits[i] = t => i <= fact.commit,
         \A p \in Process : pc'[p] = "committed" => pc[p] = "committed" /\ cur'[p] = cur[p]
  PROVE  Committed' /\ Finalized' /\ Grows
<1>1. Tip' = Tip /\ \A u : NoCommitOf(u)' <=> NoCommitOf(u)
  BY DEF Tip, NoCommitOf
<1>2. /\ \A i \in DOMAIN commits : commits[i] # Outside => commits[i] \in Txn
      /\ facts \in [Txn -> Facts] /\ Rec \in [Txn -> SUBSET EventTypes]
  BY Owners
<1>3. /\ facts'[t] = fact /\ Rec'[t] = Rec[t] \cup {"CommitFinalized"}
      /\ \A u \in Txn \ {t} : facts'[u] = facts[u] /\ Rec'[u] = Rec[u]
      /\ \A u \in Txn : facts'[u].base = facts[u].base /\ Rec[u] \subseteq Rec'[u]
  BY <1>2
<1>4. Committed'
  BY <1>1, <1>2, <1>3 DEF Committed, NoCommitOf
<1>5. ASSUME NEW u \in Txn
      PROVE  /\ "CommitFinalized" \in Rec'[u] => "ValidationPassed" \in Rec'[u] /\ Final(u)'
             /\ "TransactionCompleted" \in Rec'[u] => "CommitFinalized" \in Rec'[u]
  <2>1. CASE u = t
    BY <1>1, <1>3, <2>1 DEF Final, NoCommitOf
  <2>2. CASE u # t
    <3>1. /\ "CommitFinalized" \in Rec[u] => "ValidationPassed" \in Rec[u] /\ Final(u)
          /\ "TransactionCompleted" \in Rec[u] => "CommitFinalized" \in Rec[u]
      BY DEF Finalized
    <3>2. Final(u) => Final(u)'
      BY <1>1, <1>3, <2>2 DEF Final, NoCommitOf
    <3> QED BY <1>3, <2>2, <3>1, <3>2
  <2> QED BY <2>1, <2>2
<1>6. ASSUME NEW p \in Process, pc'[p] = "committed"
      PROVE  \E i \in DOMAIN commits' : commits'[i] = cur'[p]
  BY <1>6 DEF Finalized, NoCommitOf
<1>7. Finalized'
  BY <1>5, <1>6 DEF Finalized, NoCommitOf
<1> QED BY <1>3, <1>4, <1>7 DEF Grows

-----------------------------------------------------------------------------
(* A kernel instance and the branch.                                       *)

\* An exception leaves the branch as it is.
LEMMA RaisedOnBranch ==
  ASSUME Sound, Committed, Finalized, NEW p \in Process, Raised(p)
  PROVE  Committed' /\ Finalized' /\ Grows
<1>1. UNCHANGED <<hist, facts, commits, worktree>>
  BY DEF Raised, ledger, repository
<1>2. Rec' = Rec
  BY <1>1, RecStays
<1>3. pc'[p] \in {"idle", "failing"} /\ Unmoved(p)
  <2>1. TypeOK
    BY DEF Sound
  <2>2. CASE Exit(p)
    BY <2>1, <2>2, ExitTyped
  <2>3. CASE Goto(p, "failing") /\ cur' = cur
    BY <2>1, <2>3 DEF Goto, Unmoved, TypeOK
  <2> QED BY <2>2, <2>3 DEF Raised, Raise
<1>4. \A q \in Process : pc'[q] = "committed" => pc[q] = "committed" /\ cur'[q] = cur[q]
  BY <1>3 DEF Unmoved
<1> QED BY <1>1, <1>2, <1>4, StillOnBranch

\* An append leaves the branch as it is, and a completion needs a final commit.
LEMMA CallOnBranch ==
  ASSUME Sound, Committed, Finalized, NEW p \in Process, NEW t \in Txn, t = cur[p],
         NEW type \in EventTypes \ {"CommitFinalized"}, NEW fact, NEW to \in Steps \ {"committed"},
         fact.base = facts[t].base, fact.commit = facts[t].commit,
         type = "TransactionCompleted" => "CommitFinalized" \in Rec[t],
         Emitted(p, type, fact, to) \/ Raised(p)
  PROVE  Committed' /\ Finalized' /\ Grows
<1>1. CASE Raised(p)
  BY <1>1, RaisedOnBranch
<1>2. CASE Emitted(p, type, fact, to)
  <2>1. /\ TypeOK /\ facts \in [Txn -> Facts] /\ Rec \in [Txn -> SUBSET EventTypes]
    BY Owners DEF Sound
  <2>2. Rec' = [Rec EXCEPT ![t] = @ \cup {type}]
    BY <1>2, <2>1, RecAfterEmit DEF Emitted, Emit
  <2>3. /\ facts' = [facts EXCEPT ![t] = fact] /\ pc' = [pc EXCEPT ![p] = to] /\ cur' = cur
        /\ commits' = commits /\ worktree' = worktree
    BY <1>2 DEF Emitted, Goto, repository
  <2>4. \A u \in Txn : facts'[u].base = facts[u].base /\ facts'[u].commit = facts[u].commit
    BY <2>1, <2>3
  <2>5. \A u \in Txn :
            /\ Rec[u] \subseteq Rec'[u]
            /\ "CommitFinalized" \in Rec'[u] => "CommitFinalized" \in Rec[u]
            /\ "TransactionCompleted" \in Rec'[u] =>
                 Rec[u] \cap {"TransactionCompleted", "CommitFinalized"} # {}
    BY <2>1, <2>2
  <2>6. \A q \in Process : pc'[q] = "committed" => pc[q] = "committed" /\ cur'[q] = cur[q]
    BY <2>1, <2>3 DEF TypeOK
  <2> QED BY <2>3, <2>4, <2>5, <2>6, StillOnBranch
<1> QED BY <1>1, <1>2

\* A transaction whose commit is recorded has its result: no session of it runs.
LEMMA NoSessionAfterValidation ==
  ASSUME Sound, NEW p \in Process, pc[p] \in FirstSteps
  PROVE  "ValidationPassed" \notin Rec[cur[p]]
<1>1. cur[p] \in Txn
  BY DEF Sound, Hands, Busy, FirstSteps, Steps
<1> QED BY <1>1 DEF Sound, Places, Evidence

\* The edits of a session are those of a transaction without a commit.
LEMMA EditsOnBranch ==
  ASSUME Sound, Committed, Finalized, NEW p \in Process, SessionEdits(p)
  PROVE  Committed' /\ Finalized' /\ Grows
<1>1. PICK t : t = cur[p]
  OBVIOUS
<1>2. /\ t \in Work /\ worktree' = worktree \cup {t} /\ pc[p] = "launched"
      /\ UNCHANGED <<hist, facts, commits, pc, cur>>
  BY <1>1 DEF SessionEdits, ledger
<1>3. t \in Txn /\ t # Outside
  BY <1>2, KernelConstants DEF Txn
<1>4. "ValidationPassed" \notin Rec[t]
  BY <1>1, <1>2, NoSessionAfterValidation DEF FirstSteps
<1>5. NoCommitOf(t)
  BY <1>3, <1>4, CommittedHasBegun
<1>6. Rec' = Rec /\ Tip' = Tip /\ \A u : NoCommitOf(u)' <=> NoCommitOf(u)
  BY <1>2, RecStays DEF Tip, NoCommitOf
<1>7. Committed'
  BY <1>2, <1>5, <1>6 DEF Committed, NoCommitOf
<1>8. ASSUME NEW u \in Txn, "CommitFinalized" \in Rec[u]
      PROVE  "ValidationPassed" \in Rec[u] /\ Final(u)'
  <2>1. "ValidationPassed" \in Rec[u] /\ Final(u)
    BY <1>8 DEF Finalized
  <2>2. u # t
    BY <1>4, <2>1
  <2> QED BY <1>2, <1>6, <2>1, <2>2 DEF Final, NoCommitOf
<1>9. Finalized'
  BY <1>2, <1>6, <1>8 DEF Finalized, NoCommitOf
<1> QED BY <1>2, <1>6, <1>7, <1>9 DEF Grows

\* git commit: the one commit of its transaction, on top of its base.
LEMMA CommitOnBranch ==
  ASSUME Sound, Committed, Finalized, NEW p \in Process, GitCommit(p)
  PROVE  Committed' /\ Finalized' /\ Grows
<1>1. PICK t : t = cur[p]
  OBVIOUS
<1>2. pc[p] = "checked"
  BY DEF GitCommit
<1>3. CASE t \notin worktree
  <2>1. Raised(p)
    BY <1>1, <1>3 DEF GitCommit, Raised, ledger, repository
  <2> QED BY <2>1, RaisedOnBranch
<1>4. CASE t \in worktree
  <2>1. /\ commits' = Append(commits, t) /\ worktree' = worktree \ {t}
        /\ pc' = [pc EXCEPT ![p] = "committed"] /\ UNCHANGED <<hist, facts, cur>>
    BY <1>1, <1>4 DEF GitCommit, Goto, ledger
  <2>2. /\ \A i \in DOMAIN commits : commits[i] # Outside => commits[i] \in Txn
        /\ commits \in Seq(Owner) /\ DOMAIN commits = 1..Tip /\ Tip \in Nat
        /\ \A u \in Txn : facts[u].base \in Nat
        /\ t \in Txn /\ facts \in [Txn -> Facts]
    BY <1>1, <1>2, Owners DEF Unlanded
  <2>3. t \in Owner /\ t # Outside
    BY <2>2, KernelConstants DEF Owner
  <2>4. /\ DOMAIN commits' = DOMAIN commits \cup {Tip + 1} /\ Tip + 1 \notin DOMAIN commits
        /\ \A i \in DOMAIN commits : commits'[i] = commits[i]
        /\ commits'[Tip + 1] = t /\ Tip' = Tip + 1
    BY <2>1, <2>2, <2>3, Appended DEF Tip
  <2>5. Rec' = Rec /\ NoCommitOf(t)
    BY <1>4, <2>1, <2>3, RecStays DEF Committed
  <2>6. /\ \A u \in Txn \ {t} : NoCommitOf(u)' <=> NoCommitOf(u)
        /\ ~NoCommitOf(t)'
    BY <2>4 DEF NoCommitOf
  <2>7. \A u \in Txn : facts'[u].base <= Tip'
    BY <2>1, <2>2, <2>4 DEF Committed
  <2>8. ASSUME NEW i \in DOMAIN commits', NEW j \in DOMAIN commits', commits'[i] # Outside
        PROVE  facts'[commits'[i]].base < i /\ (commits'[j] = commits'[i] => i = j)
    <3>1. CASE i = Tip + 1
      <4>1. facts[t].base < i
        BY <2>2, <3>1 DEF Committed
      <4>2. j # Tip + 1 => commits'[j] # t
        BY <2>4, <2>5 DEF NoCommitOf
      <4> QED BY <2>1, <2>4, <3>1, <4>1, <4>2
    <3>2. CASE i \in DOMAIN commits
      <4>1. facts[commits[i]].base < i /\ commits[i] # t
        BY <2>4, <2>5, <2>8, <3>2 DEF Committed, NoCommitOf
      <4>2. CASE j = Tip + 1
        BY <2>1, <2>4, <3>2, <4>1, <4>2
      <4>3. CASE j \in DOMAIN commits
        BY <2>1, <2>4, <2>8, <3>2, <4>1, <4>3 DEF Committed
      <4> QED BY <2>4, <4>2, <4>3
    <3> QED BY <2>4, <3>1, <3>2
  <2>9. \A u \in worktree' \ {Outside} : NoCommitOf(u) /\ u # t /\ u \in Txn
    BY <2>1 DEF Committed, Txn
  <2>10. \A u \in worktree' \ {Outside} : NoCommitOf(u)'
    BY <2>6, <2>9
  <2>11. worktree' \subseteq Work \cup {Outside}
    BY <2>1 DEF Committed
  <2>12. Committed'
    BY <2>7, <2>8, <2>10, <2>11 DEF Committed, NoCommitOf
  <2>13. ASSUME NEW u \in Txn, "CommitFinalized" \in Rec[u]
         PROVE  "ValidationPassed" \in Rec[u] /\ Final(u)'
    <3>1. "ValidationPassed" \in Rec[u] /\ Final(u)
      BY <2>13 DEF Finalized
    <3>2. u # t
      BY <1>4, <3>1 DEF Final
    <3>3. \A i \in DOMAIN commits' : commits'[i] = u => i \in DOMAIN commits /\ commits[i] = u
      BY <2>4, <3>2
    <3>4. ~NoCommitOf(u)' <=> facts[u].commit > facts[u].base
      BY <2>6, <3>1, <3>2 DEF Final
    <3> QED BY <2>1, <2>4, <3>1, <3>3, <3>4 DEF Final, NoCommitOf
  <2>14. ASSUME NEW q \in Process, pc'[q] = "committed"
         PROVE  \E i \in DOMAIN commits' : commits'[i] = cur'[q]
    <3>1. CASE q = p
      BY <1>1, <2>1, <2>4, <3>1
    <3>2. CASE q # p
      <4>1. pc[q] = "committed" /\ cur'[q] = cur[q]
        BY <2>1, <2>14, <3>2 DEF Sound, TypeOK
      <4> QED BY <2>4, <4>1 DEF Finalized, NoCommitOf
    <3> QED BY <3>1, <3>2
  <2>15. Finalized'
    BY <2>1, <2>5, <2>13, <2>14 DEF Finalized, NoCommitOf
  <2> QED BY <2>1, <2>4, <2>5, <2>12, <2>15 DEF Grows
<1> QED BY <1>3, <1>4

\* The final commit is recorded by the process that knows it: its own commit,
\* one on top of it, or the base of a transaction that changed nothing.
LEMMA FinalizeOnBranch ==
  ASSUME Sound, Committed, Finalized, NEW p \in Process,
         FinalizeUnchanged(p) \/ \E c \in DOMAIN commits : RecordCommit(p, c)
  PROVE  Committed' /\ Finalized' /\ Grows
<1>1. PICK t : t = cur[p]
  OBVIOUS
<1>2. pc[p] \in {"finalizing", "committed"}
  BY DEF FinalizeUnchanged, RecordCommit
<1>3. /\ t \in Txn /\ facts[t] \in Facts /\ facts[t].base \in Nat
      /\ DOMAIN commits = 1..Tip /\ Tip \in Nat /\ commits # <<>>
      /\ Rec \in [Txn -> SUBSET EventTypes] /\ TypeOK
  BY <1>1, <1>2, Owners DEF Sound, Hands, Origins, Busy, Steps
<1>4. PICK type \in EventTypes : type = "CommitFinalized"
  BY DEF EventTypes
<1>5. CASE Raised(p)
  BY <1>5, RaisedOnBranch
<1>6. CASE ~Raised(p)
  <2>1. \E c \in DOMAIN commits, to \in {"finalized", "dirty"} :
          /\ Emitted(p, type, [facts[t] EXCEPT !.commit = c], to)
          /\ ~NoCommitOf(t) <=> c > facts[t].base
          /\ \A i \in DOMAIN commits : commits[i] = t => i <= c
          /\ t \notin worktree
    <3>1. CASE FinalizeUnchanged(p)
      <4>1. Emitted(p, type, [facts[t] EXCEPT !.commit = facts[t].base], "finalized")
        BY <1>1, <1>4, <1>6, <3>1 DEF FinalizeUnchanged, Step, Emitted, Raised
      <4>2. Finalizable(p) /\ ChangedPaths(t) = {}
        BY <1>1, <1>4, <1>6, <3>1 DEF FinalizeUnchanged, Step, Raised
      <4>3. Tip = facts[t].base
        BY <1>1, <4>2 DEF Finalizable, AtBase
      <4>4. facts[t].base \in DOMAIN commits
        <5>1. Len(commits) \in Nat /\ Len(commits) # 0
          BY <1>3 DEF TypeOK
        <5> QED BY <1>3, <4>3, <5>1 DEF Tip
      <4>5. t # Outside
        BY <1>3, KernelConstants
      <4>6. NoCommitOf(t)
        BY <1>3, <4>3, <4>5 DEF Committed, NoCommitOf
      <4>7. t \notin worktree
        BY <1>3, <4>2, <4>5, KernelConstants DEF ChangedPaths, Committed
      <4>8. PICK c \in DOMAIN commits, to \in {"finalized", "dirty"} :
               c = facts[t].base /\ to = "finalized"
        BY <4>4
      <4>9. ~(c > facts[t].base)
        BY <1>3, <4>8
      <4>10. Emitted(p, type, [facts[t] EXCEPT !.commit = c], to)
        BY <4>1, <4>8
      <4>11. \A i \in DOMAIN commits : commits[i] = t => i <= c
        BY <4>6 DEF NoCommitOf
      <4> QED BY <4>6, <4>7, <4>9, <4>10, <4>11
    <3>2. CASE \E c \in DOMAIN commits : RecordCommit(p, c)
      <4>1. PICK c \in DOMAIN commits : RecordCommit(p, c)
        BY <3>2
      <4>2. PICK to \in {"finalized", "dirty"} :
               to = IF worktree = {} THEN "finalized" ELSE "dirty"
        OBVIOUS
      <4>3. Emitted(p, type, [facts[t] EXCEPT !.commit = c], to)
        BY <1>1, <1>4, <1>6, <4>1, <4>2 DEF RecordCommit, Step, Emitted, Raised
      <4>4. pc[p] = "committed" /\ c \in CommitOf(t)..Tip
        BY <1>1, <4>1 DEF RecordCommit
      <4>5. t # Outside
        BY <1>3, KernelConstants
      <4>6. PICK i \in DOMAIN commits : commits[i] = t
        BY <1>1, <4>4 DEF Finalized, NoCommitOf
      <4>7. facts[t].base < i /\ \A j \in DOMAIN commits : commits[j] = t => j = i
        BY <4>5, <4>6 DEF Committed
      <4>8. \A j \in (i+1)..Tip : j \in DOMAIN commits /\ j # i
        BY <1>3, <4>6
      <4>9. \A j \in (i+1)..Tip : commits[j] # t
        BY <4>7, <4>8
      <4>10. CommitOf(t) \in DOMAIN commits /\ commits[CommitOf(t)] = t
        BY <4>6, <4>9 DEF CommitOf
      <4>11. i <= c /\ c > facts[t].base
        BY <1>3, <4>4, <4>6, <4>7, <4>10
      <4>12. ~NoCommitOf(t) /\ t \notin worktree
        BY <4>5, <4>6 DEF NoCommitOf, Committed
      <4> QED BY <4>3, <4>7, <4>11, <4>12
    <3> QED BY <3>1, <3>2
  <2>2. PICK c \in DOMAIN commits, to \in {"finalized", "dirty"} :
          /\ Emitted(p, type, [facts[t] EXCEPT !.commit = c], to)
          /\ ~NoCommitOf(t) <=> c > facts[t].base
          /\ \A i \in DOMAIN commits : commits[i] = t => i <= c
          /\ t \notin worktree
    BY <2>1
  <2>3. PICK fact : fact = [facts[t] EXCEPT !.commit = c]
    OBVIOUS
  <2>4. fact.commit = c /\ fact.base = facts[t].base
    BY <1>3, <2>3 DEF Facts
  <2>5. "ValidationPassed" \in Rec[t]
    BY <1>1, <1>3, <1>4, <2>2, AdmitsMeans DEF Emitted
  <2>6. /\ Rec' = [Rec EXCEPT ![t] = @ \cup {"CommitFinalized"}]
    BY <1>1, <1>3, <1>4, <2>2, RecAfterEmit DEF Emitted, Emit
  <2>7. /\ facts' = [facts EXCEPT ![t] = fact] /\ pc' = [pc EXCEPT ![p] = to] /\ cur' = cur
        /\ commits' = commits /\ worktree' = worktree
    BY <1>1, <2>2, <2>3 DEF Emitted, Goto, repository
  <2>8. \A q \in Process : pc'[q] = "committed" => pc[q] = "committed" /\ cur'[q] = cur[q]
    BY <1>3, <2>7 DEF TypeOK
  <2> QED BY <1>3, <2>2, <2>4, <2>5, <2>6, <2>7, <2>8, FinalIsRecorded
<1> QED BY <1>5, <1>6

\* A step that appends nothing and commits nothing.
LEMMA SilentOnBranch ==
  ASSUME Sound, Committed, Finalized, NEW p \in Process, Unmoved(p),
         UNCHANGED <<hist, facts, commits, worktree>>, pc'[p] # "committed"
  PROVE  Committed' /\ Finalized' /\ Grows
<1>1. Rec' = Rec
  BY RecStays
<1>2. \A q \in Process : pc'[q] = "committed" => pc[q] = "committed" /\ cur'[q] = cur[q]
  BY DEF Unmoved
<1> QED BY <1>1, <1>2, StillOnBranch

\* Only what has its final commit recorded is completed.
LEMMA CompleteOnBranch ==
  ASSUME Sound, Committed, Finalized, NEW p \in Process, CompleteTransaction(p)
  PROVE  Committed' /\ Finalized' /\ Grows
<1>1. PICK t, type, to : t = cur[p] /\ type = "TransactionCompleted" /\ to = "terminal"
  OBVIOUS
<1>2. pc[p] = "finalized"
  BY DEF CompleteTransaction, Step
<1>3. t \in Txn /\ TypeOK
  BY <1>1, <1>2, Owners DEF Sound
<1>4. CASE Raised(p)
  BY <1>4, RaisedOnBranch
<1>5. CASE ~Raised(p)
  <2>1. Emitted(p, type, facts[t], to) /\ Recorded(t, "CommitFinalized")
    BY <1>1, <1>5 DEF CompleteTransaction, Step, Emitted, Raised, TerminalRepository
  <2>2. "CommitFinalized" \in EventTypes /\ type \in EventTypes \ {"CommitFinalized"}
        /\ to \in Steps \ {"committed"}
    BY <1>1 DEF EventTypes, TerminalEventTypes, Steps
  <2>3. "CommitFinalized" \in Rec[t]
    BY <1>3, <2>1, <2>2, RecMeaning
  <2> QED BY <1>1, <1>3, <2>1, <2>2, <2>3, CallOnBranch
<1> QED BY <1>4, <1>5

\* Whatever a kernel instance does next.
LEMMA KernelOnBranch ==
  ASSUME Sound, Committed, Finalized, NEW p \in Process, KernelStep(p) \/ Start(p)
  PROVE  Committed' /\ Finalized' /\ Grows
<1>1. TypeOK /\ Hands /\ facts \in [Txn -> Facts]
  BY Owners DEF Sound
<1>2. PICK t : t = cur[p]
  OBVIOUS
<1>3. ASSUME pc[p] \in Busy
      PROVE  t \in Txn /\ facts[t] \in Facts
  BY <1>1, <1>2, <1>3 DEF Hands
<1>4. CASE \E from, type, to : PlainStep(p, from, type, to)
  <2>1. PICK from, type, to : PlainStep(p, from, type, to)
    BY <1>4
  <2>2. pc[p] = from /\ (Emitted(p, type, facts[t], to) \/ Raised(p))
    BY <1>2, <2>1, PlainStepEmits
  <2>3. /\ type \in EventTypes \ {"CommitFinalized", "TransactionCompleted"}
        /\ to \in Steps \ {"committed"} /\ from \in Busy
    BY <2>1 DEF PlainStep, EventTypes, TerminalEventTypes, Steps, Busy
  <2> QED BY <1>2, <1>3, <2>2, <2>3, CallOnBranch
<1>5. CASE \/ Start(p) \/ AcquireLeaseRecorded(p) \/ CaptureSnapshot(p)
           \/ SessionLaunched(p) \/ StartValidation(p) \/ PassValidation(p)
           \/ FailValidation(p) \/ RecordRelease(p) \/ RecordProjection(p)
  BY <1>4, <1>5 DEF PlainStep
<1>6. ASSUME NEW said \in SUBSET {cur[p]}, NEW verdict \in {"success", "stop"},
             AcceptResult(p, said, verdict)
      PROVE  Committed' /\ Finalized' /\ Grows
  <2>1. PICK type \in EventTypes \ {"CommitFinalized"} : type = "SessionResultAccepted"
    BY DEF EventTypes
  <2>2. PICK to \in Steps \ {"committed"} : to = "resulted"
    BY DEF Steps
  <2>3. PICK fact : fact = [facts[t] EXCEPT !.said = said, !.verdict = verdict,
                              !.seen = IF said = ChangedPaths(t) THEN said ELSE NoDiff]
    OBVIOUS
  <2>4. pc[p] \in Busy /\ (Emitted(p, type, fact, to) \/ Raised(p))
    BY <1>2, <1>6, <2>1, <2>2, <2>3 DEF AcceptResult, Step, Emitted, Raised, Busy, Steps
  <2>5. fact.base = facts[t].base /\ fact.commit = facts[t].commit
    BY <1>3, <2>3, <2>4 DEF Facts
  <2> QED BY <1>2, <1>3, <2>1, <2>4, <2>5, CallOnBranch
<1>7. CASE RecordFileMutationBoundary(p)
  <2>1. PICK type \in EventTypes \ {"CommitFinalized"} : type = "ChangesDetected"
    BY DEF EventTypes
  <2>2. PICK to \in Steps \ {"committed"} : to = "bounded"
    BY DEF Steps
  <2>3. PICK fact : fact = [facts[t] EXCEPT !.boundary = ChangedPaths(t)]
    OBVIOUS
  <2>4. pc[p] \in Busy /\ (Emitted(p, type, fact, to) \/ Raised(p))
    BY <1>2, <1>7, <2>1, <2>2, <2>3
       DEF RecordFileMutationBoundary, Step, Emitted, Raised, Busy, Steps
  <2>5. fact.base = facts[t].base /\ fact.commit = facts[t].commit
    BY <1>3, <2>3, <2>4 DEF Facts
  <2> QED BY <1>2, <1>3, <2>1, <2>4, <2>5, CallOnBranch
<1>8. ASSUME NEW ending \in TerminalEventTypes, Block(p, ending)
      PROVE  Committed' /\ Finalized' /\ Grows
  <2>1. PICK type \in EventTypes \ {"CommitFinalized", "TransactionCompleted"} : type = ending
    BY <1>8 DEF Block, EventTypes, TerminalEventTypes
  <2>2. PICK to \in Steps \ {"committed"} : to = "terminal"
    BY DEF Steps
  <2>3. pc[p] \in Busy /\ (Emitted(p, type, facts[t], to) \/ Raised(p))
    BY <1>2, <1>8, <2>1, <2>2 DEF Block, Step, Emitted, Raised, Busy, Steps
  <2> QED BY <1>2, <1>3, <2>1, <2>3, CallOnBranch
<1>9. CASE Rejected(p) \/ NotClean(p)
  BY <1>9, RaisedOnBranch DEF Rejected, NotClean, Raised
<1>10. CASE CheckDiff(p)
  <2>1. /\ UNCHANGED <<hist, facts, commits, worktree>>
        /\ pc' = [pc EXCEPT ![p] = "checked"] /\ cur' = cur
    BY <1>10 DEF CheckDiff, Goto, ledger, repository
  <2> QED BY <1>1, <2>1, SilentOnBranch DEF Unmoved, TypeOK
<1>11. CASE ReleaseLease(p)
  <2>1. UNCHANGED <<hist, facts, commits, worktree>> /\ UNCHANGED ledger
        /\ UNCHANGED <<repository, leaseId, cached, bounds>>
    BY <1>11 DEF ReleaseLease, ledger, repository
  <2>2. CASE Raise(p)
    BY <2>1, <2>2, RaisedOnBranch DEF Raised
  <2>3. CASE cur' = cur /\ (Goto(p, "unlinked") \/ Goto(p, "released"))
    BY <1>1, <2>1, <2>3, SilentOnBranch DEF Unmoved, TypeOK, Goto
  <2> QED BY <1>11, <2>2, <2>3 DEF ReleaseLease
<1> QED BY <1>5, <1>6, <1>7, <1>8, <1>9, <1>10, <1>11, FinalizeOnBranch, EditsOnBranch,
           CommitOnBranch DEF KernelStep

\* A transaction that begins, or a recovery, has the tip for its base.
LEMMA OpenOnBranch ==
  ASSUME Sound, Committed, Finalized, NEW p \in Process, NEW r \in Txn, Fresh(r),
         NEW fact, fact.base = Tip, facts' = [facts EXCEPT ![r] = fact],
         UNCHANGED <<hist, commits, worktree>>, Unmoved(p), pc'[p] # "committed"
  PROVE  Committed' /\ Finalized' /\ Grows
<1>1. /\ \A i \in DOMAIN commits : commits[i] # Outside => commits[i] \in Txn
      /\ facts \in [Txn -> Facts] /\ Tip \in Nat
  BY Owners
<1>2. ~Begun(r)
  BY DEF Fresh, NoFacts, Begun
<1>3. NoCommitOf(r) /\ Rec[r] = {}
  BY <1>2, CommittedHasBegun DEF Sound, Origins
<1>4. facts'[r] = fact /\ \A u \in Txn \ {r} : facts'[u] = facts[u]
  BY <1>1
<1>5. Tip' = Tip /\ Rec' = Rec /\ \A u : NoCommitOf(u)' <=> NoCommitOf(u)
  BY RecStays DEF Tip, NoCommitOf
<1>6. Committed'
  <2>1. \A u \in Txn : facts'[u].base <= Tip'
    BY <1>1, <1>4, <1>5 DEF Committed
  <2>2. \A i \in DOMAIN commits : commits[i] # r
    BY <1>3 DEF NoCommitOf
  <2>3. \A i, j \in DOMAIN commits' :
           commits'[i] # Outside =>
             /\ facts'[commits'[i]].base < i
             /\ commits'[j] = commits'[i] => i = j
    BY <1>1, <1>4, <2>2 DEF Committed
  <2> QED BY <2>1, <2>3 DEF Committed, NoCommitOf
<1>7. ASSUME NEW u \in Txn, "CommitFinalized" \in Rec[u]
      PROVE  "ValidationPassed" \in Rec[u] /\ Final(u)'
  <2>1. "ValidationPassed" \in Rec[u] /\ Final(u) /\ u # r
    BY <1>3, <1>7 DEF Finalized
  <2> QED BY <1>4, <1>5, <2>1 DEF Final, NoCommitOf
<1>8. ASSUME NEW q \in Process, pc'[q] = "committed"
      PROVE  \E i \in DOMAIN commits' : commits'[i] = cur'[q]
  <2>1. pc[q] = "committed" /\ cur'[q] = cur[q]
    BY <1>8 DEF Unmoved
  <2> QED BY <2>1 DEF Finalized, NoCommitOf
<1>9. Finalized'
  BY <1>5, <1>7, <1>8 DEF Finalized, NoCommitOf
<1> QED BY <1>2, <1>4, <1>5, <1>6, <1>9 DEF Grows

\* The outsider commits, edits or discards.
LEMMA DriftOnBranch ==
  ASSUME Sound, Committed, Finalized, Drift
  PROVE  Committed' /\ Finalized' /\ Grows
<1>1. UNCHANGED <<hist, facts, pc, cur>>
  BY DEF Drift, ledger
<1>2. Rec' = Rec /\ Outside \notin Txn
  BY <1>1, RecStays, KernelConstants
<1>3. /\ \A i \in DOMAIN commits : commits[i] # Outside => commits[i] \in Txn
      /\ \A q \in Process : pc[q] = "committed" => cur[q] \in Txn
      /\ commits \in Seq(Owner) /\ DOMAIN commits = 1..Tip /\ Tip \in Nat
      /\ \A u \in Txn : facts[u].base \in Nat
  BY Owners
<1>4. /\ worktree' \subseteq worktree \cup {Outside}
      /\ \/ commits' = commits
         \/ commits' = Append(commits, Outside)
  BY DEF Drift, repository
<1>5. /\ \A i \in DOMAIN commits : i \in DOMAIN commits' /\ commits'[i] = commits[i]
      /\ \A i \in DOMAIN commits' : i \in DOMAIN commits \/ commits'[i] = Outside
      /\ Tip <= Tip'
  <2>1. CASE commits' = commits
    BY <1>3, <2>1 DEF Tip
  <2>2. CASE commits' = Append(commits, Outside)
    <3>1. Outside \in Owner
      BY DEF Owner
    <3> QED BY <1>3, <2>2, <3>1, Appended DEF Tip
  <2> QED BY <1>4, <2>1, <2>2
<1>6. \A u \in Txn : NoCommitOf(u)' <=> NoCommitOf(u)
  BY <1>2, <1>5 DEF NoCommitOf
<1>7. Tip' \in Nat
  BY <1>3, <1>4, Appended DEF Tip, Owner
<1>8. Committed'
  <2>1. \A u \in Txn : facts'[u].base <= Tip'
    BY <1>1, <1>3, <1>5, <1>7 DEF Committed
  <2>2. \A i, j \in DOMAIN commits' :
           commits'[i] # Outside =>
             /\ facts'[commits'[i]].base < i
             /\ commits'[j] = commits'[i] => i = j
    BY <1>1, <1>5 DEF Committed
  <2>3. worktree' \subseteq Work \cup {Outside}
    BY <1>4 DEF Committed
  <2>4. ASSUME NEW u \in worktree' \ {Outside}
        PROVE  NoCommitOf(u)'
    <3>1. u \in worktree \ {Outside} /\ u \in Txn
      BY <1>4, <2>3, <2>4 DEF Txn
    <3> QED BY <1>6, <3>1 DEF Committed
  <2> QED BY <2>1, <2>2, <2>3, <2>4 DEF Committed, NoCommitOf
<1>9. ASSUME NEW u \in Txn, "CommitFinalized" \in Rec[u]
      PROVE  "ValidationPassed" \in Rec[u] /\ Final(u)'
  <2>1. "ValidationPassed" \in Rec[u] /\ Final(u) /\ u # Outside
    BY <1>2, <1>9 DEF Finalized
  <2>2. \A i \in DOMAIN commits' : commits'[i] = u => i \in DOMAIN commits /\ commits[i] = u
    BY <1>5, <2>1
  <2>3. ~NoCommitOf(u)' <=> facts[u].commit > facts[u].base
    BY <1>6, <2>1 DEF Final
  <2> QED BY <1>1, <1>4, <1>5, <2>1, <2>2, <2>3 DEF Final, NoCommitOf
<1>10. ASSUME NEW q \in Process, pc[q] = "committed"
       PROVE  \E i \in DOMAIN commits' : commits'[i] = cur[q]
  BY <1>5, <1>10 DEF Finalized, NoCommitOf
<1>11. Finalized'
  BY <1>1, <1>2, <1>9, <1>10 DEF Finalized, NoCommitOf
<1> QED BY <1>1, <1>2, <1>5, <1>8, <1>11 DEF Grows

-----------------------------------------------------------------------------
(* Plans and the branch.                                                   *)

\* the plans at work, but for those that are given up
OwedStays ==
  \A q \in Process : owed'[q] = <<>> \/ (owed'[q] = owed[q] /\ plan'[q] = plan[q])

\* What a debt rests on is not taken back.
LEMMA GroundedStays ==
  ASSUME Sound, Grows, NEW t, NEW debts, Grounded(t, debts)
  PROVE  Grounded(t, debts)'
<1>1. CASE debts = CommitDebt
  <2>1. PICK i : i = facts[t].base + 1 /\ t \in Txn /\ i \in DOMAIN commits /\ commits[i] = t
    BY <1>1 DEF Grounded, Child
  <2>2. Begun(t)
    BY <2>1, CommittedHasBegun DEF NoCommitOf
  <2>3. facts'[t].base = facts[t].base /\ i \in DOMAIN commits' /\ commits'[i] = t
    BY <2>1, <2>2 DEF Grows
  <2>4. debts # Completion /\ debts \in DebtSequences
    BY <1>1 DEF CommitDebt, Completion, DebtSequences
  <2> QED BY <2>1, <2>3, <2>4 DEF Grounded, Child
<1>2. CASE debts # CommitDebt
  BY <1>2 DEF Grounded, Grows
<1> QED BY <1>1, <1>2

LEMMA GroundsStay ==
  ASSUME Sound, Grounds, Grows, OwedStays
  PROVE  Grounds'
<1> SUFFICES ASSUME NEW q \in Process, owed'[q] # <<>>
             PROVE  Grounded(plan[q].txn, owed[q])'
  BY DEF Grounds
<1>1. PICK t, debts : t = plan[q].txn /\ debts = owed[q]
  OBVIOUS
<1>2. owed'[q] = debts /\ plan'[q].txn = t /\ Grounded(t, debts)
  BY <1>1 DEF OwedStays, Grounds
<1>3. Grounded(t, debts)'
  BY <1>2, GroundedStays
<1> QED BY <1>2, <1>3

\* One process owes something new.
LEMMA OneOwes ==
  ASSUME Sound, Grounds, Grows, NEW p \in Process, NEW t, NEW debts, Grounded(t, debts)',
         plan'[p].txn = t, owed'[p] = debts,
         \A q \in Process \ {p} : owed'[q] = owed[q] /\ plan'[q] = plan[q]
  PROVE  Grounds'
<1> SUFFICES ASSUME NEW q \in Process, owed'[q] # <<>>
             PROVE  Grounded(plan[q].txn, owed[q])'
  BY DEF Grounds
<1>1. CASE q = p
  BY <1>1
<1>2. CASE q # p
  <2>1. PICK u, d : u = plan[q].txn /\ d = owed[q]
    OBVIOUS
  <2>2. owed'[q] = d /\ plan'[q].txn = u /\ Grounded(u, d)
    BY <1>2, <2>1 DEF Grounds
  <2>3. Grounded(u, d)'
    BY <2>2, GroundedStays
  <2> QED BY <2>2, <2>3
<1> QED BY <1>1, <1>2

\* A plan that is given up owes nothing; the others stay.
LEMMA GivenUp ==
  ASSUME PlannerTyped, NEW p \in Process, GiveUp(p) \/ Settle(p)
  PROVE  OwedStays
<1>1. CASE UNCHANGED <<plan, owed>>
  BY <1>1 DEF OwedStays
<1>2. CASE plan' = [plan EXCEPT ![p] = NoPlan] /\ owed' = [owed EXCEPT ![p] = <<>>]
  BY <1>2 DEF OwedStays, PlannerTyped
<1> QED BY <1>1, <1>2 DEF GiveUp, Settle, plannerVars

\* What inspect finds of an open transaction.
LEMMA IncompleteIsGrounded ==
  ASSUME TypeOK, NEW t \in Txn, NEW pl, pl = InspectIncomplete(t)
  PROVE  /\ pl.txn = t
         /\ pl.class = "commit_succeeded_before_evidence" => ExactChild(t)
         /\ pl.class = "finalization_incomplete" => Recorded(t, "CommitFinalized")
         /\ pl.class # "terminal_before_lease_release"
<1>1. PICK w : w = worktree
  OBVIOUS
<1>2. CASE pl = Human(t)
  BY <1>2 DEF Human, PlanRecord
<1>3. CASE Recorded(t, "CommitFinalized")
           /\ pl = PlanRecord("finalization_incomplete", TRUE, t, {})
  BY <1>3 DEF PlanRecord
<1>4. CASE pl = PlanRecord("resume", TRUE, t, w)
  BY <1>4 DEF PlanRecord
<1>5. CASE ExactChild(t) /\ pl = PlanRecord("commit_succeeded_before_evidence", TRUE, t, {})
  BY <1>5 DEF PlanRecord
<1> QED BY <1>1, <1>2, <1>3, <1>4, <1>5 DEF InspectIncomplete

\* What inspect finds is a ground for what it makes the recovery owe.
LEMMA InspectIsGrounded ==
  ASSUME Sound, NEW pl, pl = Inspect, NEW debts, debts = Owed(pl)
  PROVE  Grounded(pl.txn, debts)
<1>1. TypeOK /\ DOMAIN commits = 1..Tip /\ Tip \in Nat /\ commits # <<>>
  BY Owners DEF Sound, Origins
<1>2. Subjects \subseteq Txn
  BY DEF Subjects, Incomplete
<1>3. LeaseIsStale \in BOOLEAN /\ (cached # seq) \in BOOLEAN
  BY DEF LeaseIsStale
<1>4. /\ pl.class = "commit_succeeded_before_evidence" => pl.txn \in Txn /\ ExactChild(pl.txn)
      /\ pl.class = "finalization_incomplete" =>
           pl.txn \in Txn /\ Recorded(pl.txn, "CommitFinalized")
      /\ pl.class = "terminal_before_lease_release" => pl.txn \in Txn /\ Ended(pl.txn)
  <2>1. CASE pl = Human(NoTxn)
    BY <2>1 DEF Human, PlanRecord
  <2>2. CASE /\ lease # NoLease /\ Ended(lease.txn)
             /\ pl = PlanRecord("terminal_before_lease_release", LeaseIsStale, lease.txn, {})
    <3>1. lease.txn \in Txn
      BY <1>1, <2>2 DEF TypeOK, LeaseRecord
    <3> QED BY <1>3, <2>2, <3>1 DEF PlanRecord
  <2>3. CASE \E t \in Subjects : pl = InspectIncomplete(t)
    <3>1. PICK t \in Subjects : pl = InspectIncomplete(t)
      BY <2>3
    <3> QED BY <1>1, <1>2, <3>1, IncompleteIsGrounded
  <2>4. CASE \/ pl = PlanRecord("orphaned_prestart_lease", LeaseIsStale, lease.txn, {})
             \/ pl = PlanRecord("projection_update_incomplete", cached # seq, NoTxn, {})
    BY <1>3, <2>4 DEF PlanRecord
  <2> QED BY <2>1, <2>2, <2>3, <2>4 DEF Inspect
<1>5. CASE pl.class = "commit_succeeded_before_evidence"
  <2>1. debts = CommitDebt /\ debts # Completion /\ debts \in DebtSequences
    BY <1>5 DEF Owed, CommitDebt, Completion, DebtSequences
  <2>2. Child(pl.txn)
    <3>1. Len(commits) \in Nat /\ Len(commits) # 0
      BY <1>1 DEF TypeOK
    <3>2. Tip \in DOMAIN commits
      BY <1>1, <3>1 DEF Tip
    <3> QED BY <1>4, <1>5, <3>2 DEF ExactChild, Child
  <2> QED BY <2>1, <2>2 DEF Grounded
<1>6. CASE pl.class \in {"finalization_incomplete", "terminal_before_lease_release"}
  <2>1. debts = Completion /\ debts # CommitDebt /\ debts \in DebtSequences
    BY <1>6 DEF Owed, CommitDebt, Completion, DebtSequences
  <2>2. "CommitFinalized" \in EventTypes
    BY DEF EventTypes
  <2>3. pl.txn \in Txn /\ Rec[pl.txn] \cap ({"CommitFinalized"} \cup TerminalEventTypes) # {}
    BY <1>1, <1>4, <1>6, <2>2, RecMeaning
  <2> QED BY <2>1, <2>3 DEF Grounded
<1>7. CASE pl.class \notin {"commit_succeeded_before_evidence", "finalization_incomplete",
                           "terminal_before_lease_release"}
  <2>1. debts \in {<<"RecoveryApplied">>, <<"RecoveryApplied", "TransactionSuperseded">>, <<>>}
    BY <1>7 DEF Owed
  <2>2. debts # CommitDebt /\ debts # Completion /\ debts \in DebtSequences
    BY <2>1 DEF CommitDebt, Completion, DebtSequences
  <2> QED BY <2>2 DEF Grounded
<1> QED BY <1>5, <1>6, <1>7

\* The repaid events, and the debts that remain.
LEMMA DebtHeads ==
  ASSUME NEW debts \in DebtSequences, debts # <<>>
  PROVE  /\ Head(debts) = "CommitFinalized" <=> debts = CommitDebt
         /\ Head(debts) = "TransactionCompleted" <=> debts = Completion
         /\ Tail(debts) \in DebtSequences
         /\ Tail(debts) # CommitDebt
         /\ Tail(debts) = Completion <=> debts = CommitDebt
<1>1. /\ Completion # CommitDebt
      /\ \A d \in {<<"RecoveryApplied">>, <<"TransactionSuperseded">>, <<>>} :
           d # CommitDebt /\ d # Completion
  BY DEF CommitDebt, Completion
<1>2. CASE debts = CommitDebt
  <2>1. Head(debts) = "CommitFinalized" /\ Tail(debts) = Completion
    BY <1>2 DEF CommitDebt, Completion
  <2>2. debts = CommitDebt /\ debts # Completion
    BY <1>1, <1>2 DEF CommitDebt, Completion
  <2> QED BY <1>1, <2>1, <2>2 DEF DebtSequences
<1>3. CASE debts = Completion
  <2>1. Head(debts) = "TransactionCompleted" /\ Tail(debts) = <<"RecoveryApplied">>
    BY <1>3 DEF CommitDebt, Completion
  <2>2. debts # CommitDebt /\ debts = Completion
    BY <1>1, <1>3 DEF CommitDebt, Completion
  <2> QED BY <1>1, <2>1, <2>2 DEF DebtSequences
<1>4. CASE debts = <<"RecoveryApplied">>
  <2>1. Head(debts) = "RecoveryApplied" /\ Tail(debts) = <<>>
    BY <1>4 DEF CommitDebt, Completion
  <2>2. debts # CommitDebt /\ debts # Completion
    BY <1>1, <1>4 DEF CommitDebt, Completion
  <2> QED BY <1>1, <2>1, <2>2 DEF DebtSequences
<1>5. CASE debts = <<"RecoveryApplied", "TransactionSuperseded">>
  <2>1. Head(debts) = "RecoveryApplied" /\ Tail(debts) = <<"TransactionSuperseded">>
    BY <1>5 DEF CommitDebt, Completion
  <2>2. debts # CommitDebt /\ debts # Completion
    BY <1>1, <1>5 DEF CommitDebt, Completion
  <2> QED BY <1>1, <2>1, <2>2 DEF DebtSequences
<1>6. CASE debts = <<"TransactionSuperseded">>
  <2>1. Head(debts) = "TransactionSuperseded" /\ Tail(debts) = <<>>
    BY <1>6 DEF CommitDebt, Completion
  <2>2. debts # CommitDebt /\ debts # Completion
    BY <1>1, <1>6 DEF CommitDebt, Completion
  <2> QED BY <1>1, <2>1, <2>2 DEF DebtSequences
<1> QED BY <1>2, <1>3, <1>4, <1>5, <1>6 DEF DebtSequences

\* What is repaid is true of the branch.
LEMMA RepayOnBranch ==
  ASSUME PlannerInv, BranchInv, NEW p \in Process, Repay(p)
  PROVE  BranchInv'
<1>1. Sound /\ TypeOK /\ PlannerTyped /\ Plans /\ Committed /\ Finalized /\ Grounds
  BY DEF PlannerInv, Sound, BranchInv
<1>2. PICK t, type, debts : t = plan[p].txn /\ type = Head(owed[p]) /\ debts = owed[p]
  OBVIOUS
<1>3. /\ pc[p] = "finalized" /\ cur[p] \in Recovery /\ debts # <<>>
      /\ UNCHANGED <<commits, worktree>>
  BY <1>2 DEF Repay, repository
<1>4. t \in Txn /\ type \in EventTypes
  <2>1. Applying(pc[p], cur[p])
    BY <1>3 DEF Applying
  <2>2. debts \in Seq(Repayable) /\ Repayable \subseteq EventTypes
    BY <1>1, <1>2 DEF PlannerTyped, Repayable, EventTypes, TerminalEventTypes
  <2>3. type \in Repayable
    BY <1>2, <1>3, <2>2
  <2> QED BY <1>1, <1>2, <1>3, <2>1, <2>2, <2>3 DEF Plans, WellPlanned, Known
<1>5. Grounded(t, debts) /\ debts \in DebtSequences
  BY <1>1, <1>2, <1>3 DEF Grounds, Grounded
<1>6. /\ type = "CommitFinalized" <=> debts = CommitDebt
      /\ type = "TransactionCompleted" <=> debts = Completion
      /\ Tail(debts) \in DebtSequences
      /\ Tail(debts) # CommitDebt
      /\ Tail(debts) = Completion <=> debts = CommitDebt
  BY <1>2, <1>3, <1>5, DebtHeads
<1>7. CASE GiveUp(p) /\ UNCHANGED ledger
  <2>1. pc'[p] = "idle" /\ Unmoved(p) /\ UNCHANGED <<hist, facts>>
    BY <1>1, <1>7, ExitTyped DEF GiveUp, ledger
  <2>2. Committed' /\ Finalized' /\ Grows
    BY <1>1, <1>3, <2>1, SilentOnBranch
  <2>3. Grounds'
    BY <1>1, <1>7, <2>2, GivenUp, GroundsStay
  <2> QED BY <2>2, <2>3 DEF BranchInv
<1>8. CASE ~(GiveUp(p) /\ UNCHANGED ledger)
  <2>1. /\ \/ /\ type = "TransactionCompleted" /\ Ended(t)
              /\ hist' = hist
           \/ /\ ~(type = "TransactionCompleted" /\ Ended(t)) /\ Admits(t, type)
              /\ hist' = [hist EXCEPT ![t] = Append(@, type)]
        /\ facts' = IF type = "CommitFinalized"
                    THEN [facts EXCEPT ![t].commit = facts[t].base + 1] ELSE facts
        /\ owed' = [owed EXCEPT ![p] = Tail(debts)]
        /\ UNCHANGED <<pc, cur, plan>>
    BY <1>2, <1>8 DEF Repay, Emit, ledger
  <2>2. /\ facts \in [Txn -> Facts] /\ Rec \in [Txn -> SUBSET EventTypes]
        /\ facts[t].base \in Nat /\ facts[t] \in Facts
    BY <1>1, <1>4, Owners
  <2>3. \A q \in Process : pc'[q] = "committed" => pc[q] = "committed" /\ cur'[q] = cur[q]
    BY <2>1
  <2>4. /\ plan'[p].txn = t /\ owed'[p] = Tail(debts)
        /\ \A q \in Process \ {p} : owed'[q] = owed[q] /\ plan'[q] = plan[q]
    BY <1>1, <1>2, <2>1 DEF PlannerTyped
  <2>5. CASE type = "CommitFinalized"
    <3>1. Child(t) /\ Admits(t, type) /\ hist' = [hist EXCEPT ![t] = Append(@, type)]
      BY <1>5, <1>6, <2>1, <2>5 DEF Grounded
    <3>2. PICK fact : fact = [facts[t] EXCEPT !.commit = facts[t].base + 1]
      OBVIOUS
    <3>3. /\ facts' = [facts EXCEPT ![t] = fact]
          /\ fact.base = facts[t].base /\ fact.commit = facts[t].base + 1
      BY <2>1, <2>2, <2>5, <3>2 DEF Facts
    <3>4. Rec' = [Rec EXCEPT ![t] = @ \cup {"CommitFinalized"}] /\ "ValidationPassed" \in Rec[t]
      BY <1>1, <1>4, <2>5, <3>1, AdmitsMeans, RecAfterEmit
    <3>5. t # Outside
      BY <1>4, KernelConstants
    <3>6. fact.commit \in DOMAIN commits /\ commits[fact.commit] = t
      BY <3>1, <3>3 DEF Child
    <3>7. ~NoCommitOf(t) /\ fact.commit > fact.base
      BY <2>2, <3>3, <3>6 DEF NoCommitOf
    <3>8. t \notin worktree
      BY <1>1, <3>5, <3>7 DEF Committed
    <3>9. \A i \in DOMAIN commits : commits[i] = t => i <= fact.commit
      <4>1. ASSUME NEW i \in DOMAIN commits, commits[i] = t
            PROVE  i = fact.commit
        BY <1>1, <3>5, <3>6, <4>1 DEF Committed
      <4> QED BY <2>2, <3>3, <4>1
    <3>10. Committed' /\ Finalized' /\ Grows
      BY <1>1, <1>3, <1>4, <2>3, <3>3, <3>4, <3>6, <3>7, <3>8, <3>9, FinalIsRecorded
    <3>11. "CommitFinalized" \in Rec'[t]
      BY <1>4, <2>2, <3>4
    <3>12. Grounded(t, Tail(debts))'
      BY <1>4, <1>6, <3>11 DEF Grounded
    <3>13. Grounds'
      BY <1>1, <2>4, <3>10, <3>12, OneOwes
    <3> QED BY <3>10, <3>13 DEF BranchInv
  <2>6. CASE type # "CommitFinalized"
    <3>1. facts' = facts
      BY <2>1, <2>6
    <3>2. type = "TransactionCompleted" /\ ~Ended(t) => "CommitFinalized" \in Rec[t]
      <4>1. Ended(t) <=> Rec[t] \cap TerminalEventTypes # {}
        BY <1>1, <1>4, RecMeaning
      <4> QED BY <1>5, <1>6, <4>1 DEF Grounded
    <3>3. \A u \in Txn :
            /\ Rec[u] \subseteq Rec'[u]
            /\ "CommitFinalized" \in Rec'[u] => "CommitFinalized" \in Rec[u]
            /\ "TransactionCompleted" \in Rec'[u] =>
                 Rec[u] \cap {"TransactionCompleted", "CommitFinalized"} # {}
      <4>1. CASE hist' = hist
        BY <4>1, RecStays
      <4>2. CASE hist' # hist
        <5>1. Rec' = [Rec EXCEPT ![t] = @ \cup {type}]
          BY <1>1, <1>4, <2>1, <4>2, RecAfterEmit
        <5>2. type = "TransactionCompleted" => "CommitFinalized" \in Rec[t]
          BY <2>1, <3>2, <4>2
        <5> QED BY <2>2, <2>6, <5>1, <5>2
      <4> QED BY <4>1, <4>2
    <3>4. Committed' /\ Finalized' /\ Grows
      BY <1>1, <1>3, <2>3, <3>1, <3>3, StillOnBranch
    <3>5. Tail(debts) # Completion /\ Tail(debts) # CommitDebt /\ Tail(debts) \in DebtSequences
      BY <1>6, <2>6
    <3>6. Grounded(t, Tail(debts))'
      BY <3>5 DEF Grounded
    <3>7. Grounds'
      BY <1>1, <2>4, <3>4, <3>6, OneOwes
    <3> QED BY <3>4, <3>7 DEF BranchInv
  <2> QED BY <2>5, <2>6
<1> QED BY <1>7, <1>8

\* The plan is grounded in what inspect has just seen.
LEMMA RecoverOnBranch ==
  ASSUME PlannerInv, BranchInv, NEW p \in Process, NEW command, Recover(p, command)
  PROVE  BranchInv'
<1>1. Sound /\ TypeOK /\ PlannerTyped /\ Committed /\ Finalized /\ Grounds
  BY DEF PlannerInv, Sound, BranchInv
<1>2. PICK pl, t, debts : pl = Inspect /\ t = pl.txn /\ debts = Owed(pl)
  OBVIOUS
<1>3. /\ plan' = [plan EXCEPT ![p] = pl] /\ owed' = [owed EXCEPT ![p] = debts]
      /\ pc' = [pc EXCEPT ![p] = "planned"] /\ cur' = cur
      /\ UNCHANGED <<hist, facts, commits, worktree>>
  BY <1>2 DEF Recover, Goto, ledger, repository
<1>4. Unmoved(p) /\ pc'[p] = "planned"
  BY <1>1, <1>3 DEF Unmoved, TypeOK
<1>5. Committed' /\ Finalized' /\ Grows
  BY <1>1, <1>3, <1>4, SilentOnBranch
<1>6. Grounded(t, debts)'
  BY <1>1, <1>2, <1>5, InspectIsGrounded, GroundedStays
<1>7. /\ plan'[p].txn = t /\ owed'[p] = debts
      /\ \A q \in Process \ {p} : owed'[q] = owed[q] /\ plan'[q] = plan[q]
  BY <1>1, <1>2, <1>3 DEF PlannerTyped
<1>8. Grounds'
  BY <1>1, <1>5, <1>6, <1>7, OneOwes
<1> QED BY <1>5, <1>8 DEF BranchInv

\* The steps of apply and of the continuation that open no transaction and
\* repay nothing.
LEMMA PlanStepOnBranch ==
  ASSUME PlannerInv, BranchInv, NEW p \in Process,
         ReadOldLease(p) \/ ArchiveLease(p) \/ ReacquireLease(p) \/ Crash(p)
  PROVE  BranchInv'
<1>1. Sound /\ TypeOK /\ PlannerTyped /\ Committed /\ Finalized /\ Grounds
  BY DEF PlannerInv, Sound, BranchInv
<1>2. UNCHANGED <<hist, facts, commits, worktree>>
  BY DEF ReadOldLease, ArchiveLease, ReacquireLease, Crash, Die, ledger, repository
<1>3. CASE GiveUp(p)
  <2>1. pc'[p] = "idle" /\ Unmoved(p)
    BY <1>1, <1>3, ExitTyped DEF GiveUp
  <2>2. Committed' /\ Finalized' /\ Grows
    BY <1>1, <1>2, <2>1, SilentOnBranch
  <2> QED BY <1>1, <1>3, <2>2, GivenUp, GroundsStay DEF BranchInv
<1>4. CASE ~GiveUp(p)
  <2>1. /\ \E to \in {"direct", "proved", "archived", "rebound"} : Goto(p, to)
        /\ UNCHANGED <<plan, owed>>
        /\ cur' = cur \/ cur' = [cur EXCEPT ![p] = plan[p].txn]
    BY <1>4 DEF ReadOldLease, ArchiveLease, ReacquireLease, Crash
  <2>2. Unmoved(p) /\ pc'[p] # "committed"
    BY <1>1, <2>1 DEF Goto, Unmoved, TypeOK
  <2>3. Committed' /\ Finalized' /\ Grows
    BY <1>1, <1>2, <2>2, SilentOnBranch
  <2> QED BY <1>1, <2>1, <2>3, GroundsStay DEF OwedStays, BranchInv
<1> QED BY <1>3, <1>4

\* The recovery transaction is opened.
LEMMA TakeLeaseOnBranch ==
  ASSUME PlannerInv, BranchInv, NEW p \in Process, NEW r \in Recovery,
         TakeLease(p, r) \/ TakeFreeLease(p, r)
  PROVE  BranchInv'
<1>1. Sound /\ TypeOK /\ PlannerTyped /\ Committed /\ Finalized /\ Grounds
  BY DEF PlannerInv, Sound, BranchInv
<1>2. Fresh(r) /\ r \in Txn /\ UNCHANGED <<hist, commits, worktree>>
  BY DEF TakeLease, TakeFreeLease, repository, Txn
<1>3. CASE GiveUp(p) /\ UNCHANGED facts
  <2>1. pc'[p] = "idle" /\ Unmoved(p)
    BY <1>1, <1>3, ExitTyped DEF GiveUp
  <2>2. Committed' /\ Finalized' /\ Grows
    BY <1>1, <1>2, <1>3, <2>1, SilentOnBranch
  <2> QED BY <1>1, <1>3, <2>2, GivenUp, GroundsStay DEF BranchInv
<1>4. CASE OpenRecovery(p, r) /\ UNCHANGED <<plan, owed>>
  <2>1. PICK fact : fact = [NoFacts EXCEPT !.base = Tip, !.start = plan[p].diff,
                                           !.recovered = plan[p].txn]
    OBVIOUS
  <2>2. facts' = [facts EXCEPT ![r] = fact] /\ fact.base = Tip
    BY <1>4, <2>1 DEF OpenRecovery, NoFacts
  <2>3. pc' = [pc EXCEPT ![p] = "taken"] /\ cur' = [cur EXCEPT ![p] = r]
    BY <1>4 DEF OpenRecovery, Goto
  <2>4. Unmoved(p) /\ pc'[p] # "committed"
    BY <1>1, <2>3 DEF Unmoved, TypeOK
  <2>5. Committed' /\ Finalized' /\ Grows
    BY <1>1, <1>2, <2>2, <2>4, OpenOnBranch
  <2> QED BY <1>1, <1>4, <2>5, GroundsStay DEF OwedStays, BranchInv
<1> QED BY <1>3, <1>4 DEF TakeLease, TakeFreeLease

\* The lease of the resumed transaction is recorded again.
LEMMA ReacquiredOnBranch ==
  ASSUME PlannerInv, BranchInv, NEW p \in Process, RecordReacquired(p)
  PROVE  BranchInv'
<1>1. Sound /\ TypeOK /\ PlannerTyped /\ Committed /\ Finalized /\ Grounds /\ Hands
  BY DEF PlannerInv, Sound, BranchInv
<1>2. PICK t : t = cur[p]
  OBVIOUS
<1>3. pc[p] = "rebound" /\ UNCHANGED <<facts, commits, worktree>>
  BY DEF RecordReacquired, repository
<1>4. t \in Txn /\ Rec \in [Txn -> SUBSET EventTypes]
  BY <1>1, <1>2, <1>3, Owners DEF Hands, Busy
<1>5. CASE GiveUp(p) /\ UNCHANGED hist
  <2>1. pc'[p] = "idle" /\ Unmoved(p)
    BY <1>1, <1>5, ExitTyped DEF GiveUp
  <2>2. Committed' /\ Finalized' /\ Grows
    BY <1>1, <1>3, <1>5, <2>1, SilentOnBranch
  <2> QED BY <1>1, <1>5, <2>2, GivenUp, GroundsStay DEF BranchInv
<1>6. CASE ~(GiveUp(p) /\ UNCHANGED hist)
  <2>1. /\ hist' = [hist EXCEPT ![t] = Append(@, "LeaseAcquired")]
        /\ Goto(p, ResumeAt(p)) /\ UNCHANGED <<cur, plan, owed>>
    BY <1>2, <1>6 DEF RecordReacquired, Emit
  <2>2. PICK to : to = ResumeAt(p)
    OBVIOUS
  <2>3. to # "committed" /\ pc' = [pc EXCEPT ![p] = to]
    BY <2>1, <2>2 DEF ResumeAt, Goto
  <2>4. "LeaseAcquired" \in EventTypes
    BY DEF EventTypes
  <2>5. Rec' = [Rec EXCEPT ![t] = @ \cup {"LeaseAcquired"}]
    BY <1>1, <1>4, <2>1, <2>4, RecAfterEmit
  <2>6. \A u \in Txn :
            /\ Rec[u] \subseteq Rec'[u]
            /\ "CommitFinalized" \in Rec'[u] => "CommitFinalized" \in Rec[u]
            /\ "TransactionCompleted" \in Rec'[u] =>
                 Rec[u] \cap {"TransactionCompleted", "CommitFinalized"} # {}
    BY <1>4, <2>5
  <2>7. \A q \in Process : pc'[q] = "committed" => pc[q] = "committed" /\ cur'[q] = cur[q]
    BY <1>1, <2>1, <2>3 DEF TypeOK
  <2>8. Committed' /\ Finalized' /\ Grows
    BY <1>1, <1>3, <2>6, <2>7, StillOnBranch
  <2> QED BY <1>1, <2>1, <2>8, GroundsStay DEF OwedStays, BranchInv
<1> QED BY <1>5, <1>6

\* The steps of a kernel instance, of a runner or of a recovery.
LEMMA InstanceOnBranch ==
  ASSUME PlannerInv, BranchInv, NEW p \in Process, Settle(p),
         RunnerStep(p) \/ StartRecovery(p) \/ CompleteRecovery(p) \/ FinishRecovery(p)
  PROVE  BranchInv'
<1>1. Sound /\ TypeOK /\ PlannerTyped /\ Committed /\ Finalized /\ Grounds /\ Hands
  BY DEF PlannerInv, Sound, BranchInv
<1>2. CASE KernelStep(p) \/ Start(p)
  <2>1. Committed' /\ Finalized' /\ Grows
    BY <1>1, <1>2, KernelOnBranch
  <2> QED BY <1>1, <2>1, GivenUp, GroundsStay DEF BranchInv
<1>3. CASE CompleteTransaction(p)
  <2>1. Committed' /\ Finalized' /\ Grows
    BY <1>1, <1>3, CompleteOnBranch
  <2> QED BY <1>1, <2>1, GivenUp, GroundsStay DEF BranchInv
<1>4. ASSUME NEW t \in Work, Begin(p, t)
      PROVE  BranchInv'
  <2>1. PICK fact : fact = [facts[t] EXCEPT !.base = Tip]
    OBVIOUS
  <2>2. t \in Txn /\ Fresh(t) /\ facts[t] = NoFacts
    BY <1>4 DEF Begin, Txn, Fresh
  <2>3. facts' = [facts EXCEPT ![t] = fact] /\ fact.base = Tip
    BY <1>4, <2>1, <2>2 DEF Begin, NoFacts
  <2>4. /\ UNCHANGED <<hist, commits, worktree>>
        /\ pc' = [pc EXCEPT ![p] = "leased"] /\ cur' = [cur EXCEPT ![p] = t]
    BY <1>4 DEF Begin, Goto, repository
  <2>5. Unmoved(p) /\ pc'[p] # "committed"
    BY <1>1, <2>4 DEF Unmoved, TypeOK
  <2>6. Committed' /\ Finalized' /\ Grows
    BY <1>1, <2>2, <2>3, <2>4, <2>5, OpenOnBranch
  <2> QED BY <1>1, <2>6, GivenUp, GroundsStay DEF BranchInv
<1>5. CASE StartRecovery(p)
  <2>1. PICK t : t = cur[p]
    OBVIOUS
  <2>2. pc[p] = "taken"
    BY <1>5 DEF StartRecovery, Step
  <2>3. t \in Txn
    BY <1>1, <2>1, <2>2 DEF Hands, Busy
  <2>4. PICK type \in EventTypes \ {"CommitFinalized"} : type = "TransactionStarted"
    BY DEF EventTypes
  <2>5. PICK to \in Steps \ {"committed"} : to = "started"
    BY DEF Steps
  <2>6. Emitted(p, type, facts[t], to) \/ Raised(p)
    BY <1>5, <2>1, <2>4, <2>5 DEF StartRecovery, Step, Emitted, Raised
  <2>7. Committed' /\ Finalized' /\ Grows
    BY <1>1, <2>1, <2>3, <2>4, <2>6, CallOnBranch
  <2> QED BY <1>1, <2>7, GivenUp, GroundsStay DEF BranchInv
<1>6. CASE Finish(p) \/ FinishRecovery(p)
  <2>1. PICK to \in {"idle", "reacquire"} : Rebuild(p, to)
    BY <1>6 DEF Finish, FinishRecovery
  <2>2. Unmoved(p) /\ pc'[p] \in {"idle", to, "failing"}
    BY <1>1, <2>1, RebuildMoves
  <2>3. UNCHANGED <<hist, facts, commits, worktree>>
    BY <2>1 DEF Rebuild, ledger, repository
  <2>4. Committed' /\ Finalized' /\ Grows
    BY <1>1, <2>2, <2>3, SilentOnBranch
  <2> QED BY <1>1, <2>4, GivenUp, GroundsStay DEF BranchInv
<1> QED BY <1>2, <1>3, <1>4, <1>5, <1>6 DEF RunnerStep, Complete, CompleteRecovery

\* At first the branch has one commit, of somebody else.
LEMMA BranchInit ==
  ASSUME PlannerInit
  PROVE  BranchInv
<1>1. Sound
  BY InitSound DEF PlannerInit
<1>2. /\ commits = <<Outside>> /\ worktree = {} /\ \A t \in Txn : facts[t] = NoFacts
      /\ \A t \in Txn : hist[t] = <<>>
      /\ \A p \in Process : pc[p] = "idle" /\ owed[p] = <<>>
  BY DEF PlannerInit, Init
<1>3. \A t \in Txn : Rec[t] = {}
  BY <1>1, <1>2, RecMeaning DEF Sound
<1>4. \A i \in DOMAIN commits : commits[i] = Outside
  BY <1>2
<1>5. Committed
  <2>1. \A t \in Txn : facts[t].base <= Tip
    BY <1>2 DEF NoFacts, Tip
  <2> QED BY <1>2, <1>4, <2>1 DEF Committed
<1> QED BY <1>2, <1>3, <1>5 DEF BranchInv, Finalized, Grounds

LEMMA BranchNext ==
  ASSUME PlannerInv, BranchInv, PlannerNext
  PROVE  BranchInv'
<1>1. CASE Drift /\ UNCHANGED plannerVars
  <2>1. Committed' /\ Finalized' /\ Grows
    BY <1>1, DriftOnBranch DEF PlannerInv, BranchInv
  <2>2. OwedStays
    BY <1>1 DEF OwedStays, plannerVars
  <2> QED BY <2>1, <2>2, GroundsStay DEF PlannerInv, BranchInv
<1>2. ASSUME NEW p \in Process, RecoveryStep(p)
      PROVE  BranchInv'
  <2>1. CASE \E r \in Recovery : TakeLease(p, r) \/ TakeFreeLease(p, r)
    BY <2>1, TakeLeaseOnBranch
  <2> QED BY <1>2, <2>1, PlanStepOnBranch, RepayOnBranch, ReacquiredOnBranch,
             InstanceOnBranch DEF RecoveryStep
<1>3. ASSUME NEW p \in Process,
             \/ RunnerStep(p) /\ Settle(p)
             \/ \E command \in {"resume", "resolve"} : Recover(p, command)
             \/ Crash(p)
      PROVE  BranchInv'
  BY <1>3, InstanceOnBranch, RecoverOnBranch, PlanStepOnBranch
<1> QED BY <1>1, <1>2, <1>3 DEF PlannerNext

\* The inductive invariant about the branch: a transaction commits once, above
\* its base, and its recorded final commit is true of the branch.
THEOREM BranchInvariance == PlannerSpec => []BranchInv
<1>1. PlannerInit => BranchInv
  BY BranchInit
<1>2. PlannerInv /\ BranchInv /\ [PlannerNext]_vars => BranchInv'
  <2> SUFFICES ASSUME PlannerInv, BranchInv, [PlannerNext]_vars
               PROVE  BranchInv'
    OBVIOUS
  <2>1. CASE PlannerNext
    BY <2>1, BranchNext
  <2>2. CASE UNCHANGED vars
    <3>1. UNCHANGED <<hist, facts, commits, worktree, pc, cur, plan, owed>>
      BY <2>2 DEF vars, plannerVars, kernelVars, ledger, repository
    <3>2. Rec' = Rec
      BY <3>1, RecStays
    <3>3. Committed' /\ Finalized' /\ Grows
      BY <3>1, <3>2, StillOnBranch DEF PlannerInv, BranchInv
    <3> QED BY <3>1, <3>3, GroundsStay DEF OwedStays, PlannerInv, BranchInv
  <2> QED BY <2>1, <2>2
<1> QED BY <1>1, <1>2, PlannerInvariance, PTL DEF PlannerSpec

\* Whoever completes a transaction, its own process or any of several
\* recoveries at once, and wherever they die or an outsider commits: its work
\* is on the branch at or below the commit recorded for it, and one recorded
\* as changing nothing has no commit (RecoveryPlanner.apply, finalize).
THEOREM CompletedWorkSurvivesRecovery == PlannerSpec => []CompletedWorkIsOnBranch
<1>1. PlannerInv /\ BranchInv => CompletedWorkIsOnBranch
  <2> SUFFICES ASSUME PlannerInv, BranchInv, NEW t \in Txn,
                      Recorded(t, "TransactionCompleted")
               PROVE  LET mine == {i \in DOMAIN commits : commits[i] = t} IN
                      /\ facts[t].commit \in DOMAIN commits
                      /\ mine # {} <=> facts[t].commit > facts[t].base
                      /\ \A i \in mine : i <= facts[t].commit
    BY DEF CompletedWorkIsOnBranch
  <2>1. "TransactionCompleted" \in EventTypes
    BY DEF EventTypes, TerminalEventTypes
  <2>2. "TransactionCompleted" \in Rec[t]
    BY <2>1, RecMeaning DEF PlannerInv, Sound
  <2>3. Final(t)
    BY <2>2 DEF BranchInv, Finalized
  <2> QED BY <2>3 DEF Final, NoCommitOf
<1> QED BY <1>1, PlannerInvariance, BranchInvariance, PTL
-----------------------------------------------------------------------------
(***************************************************************************)
(* What is given up.  A transaction is blocked, gated or superseded only   *)
(* where it has no commit: its own process gives it up before git commit,  *)
(* and a recovery resumes it, to supersede it perhaps, only when inspect   *)
(* saw HEAD at its base.  That this still holds when the recovery has run  *)
(* is so for one recoverer: a second could have taken up the same          *)
(* transaction meanwhile, and committed.                                   *)
(***************************************************************************)

OneRecoverer == \A p, q \in Process : p = q

\* steps at which a transaction has not committed
Awaiting == Unlanded \cup {"failing", "superseding"}

\* t may still commit, and may still be given up
Open(t) == NoCommitOf(t) /\ Rec[t] \cap TerminalEventTypes = {}

\* what may be owed to an ordinary transaction
WorkDebts == {CommitDebt, Completion, <<"RecoveryApplied">>, <<>>}

\* no transaction that is to be resumed has been decided
PlanOpen(pl, debts) ==
  pl.txn \in Work =>
    /\ debts \in WorkDebts
    /\ pl.class = "resume" => Open(pl.txn) /\ debts \in {<<"RecoveryApplied">>, <<>>}

\* the transactions that may still commit are open
Awaits ==
  \A p \in Process :
     /\ pc[p] \in Awaiting /\ cur[p] \in Work => Open(cur[p])
     /\ pc[p] = "rebound" => cur[p] \in Work /\ Open(cur[p])
     /\ Applying(pc[p], cur[p]) => PlanOpen(plan[p], owed[p])

\* what has committed was not given up
Blockless ==
  \A t \in Txn :
     ~NoCommitOf(t) =>
        t \in Work /\ Rec[t] \cap TerminalEventTypes \subseteq {"TransactionCompleted"}

UnblockedInv == Blockless /\ Awaits

\* The one process, after its step.
LEMMA AwaitsKept ==
  ASSUME OneRecoverer, NEW p \in Process, NEW step, NEW t, NEW pl, NEW debts,
         pc'[p] = step, cur'[p] = t, plan'[p] = pl, owed'[p] = debts,
         step \in Awaiting /\ t \in Work => Open(t)',
         step = "rebound" => t \in Work /\ Open(t)',
         Applying(step, t) => PlanOpen(pl, debts)'
  PROVE  Awaits'
<1> SUFFICES ASSUME NEW q \in Process
             PROVE  /\ pc'[q] \in Awaiting /\ cur'[q] \in Work => Open(cur[q])'
                    /\ pc'[q] = "rebound" => cur'[q] \in Work /\ Open(cur[q])'
                    /\ Applying(pc'[q], cur'[q]) => PlanOpen(plan[q], owed[q])'
  BY DEF Awaits, Applying
<1>1. pc'[q] = step /\ cur'[q] = t /\ plan'[q] = pl /\ owed'[q] = debts
  BY DEF OneRecoverer
<1>2. Open(t)' => Open(cur[q])'
  BY <1>1 DEF Open, NoCommitOf
<1>3. PlanOpen(pl, debts)' => PlanOpen(plan[q], owed[q])'
  BY <1>1 DEF PlanOpen, Open, NoCommitOf
<1> QED BY <1>1, <1>2, <1>3

\* A plan stays open with the transaction it is for.
LEMMA PlanOpenStays ==
  ASSUME NEW pl, NEW debts, PlanOpen(pl, debts),
         pl.txn \in Work /\ pl.class = "resume" /\ Open(pl.txn) =>
           NoCommitOf(pl.txn)' /\ Rec'[pl.txn] \cap TerminalEventTypes = {}
  PROVE  PlanOpen(pl, debts)'
BY DEF PlanOpen, Open

\* A step that appends nothing and leaves nobody with more to commit.
LEMMA SilentAwaits ==
  ASSUME OneRecoverer, UnblockedInv, NEW p \in Process, hist' = hist,
         \A u \in Txn : NoCommitOf(u)' <=> NoCommitOf(u),
         \/ pc'[p] = "idle"
         \/ /\ cur'[p] = cur[p] /\ plan'[p] = plan[p] /\ owed'[p] = owed[p]
            /\ pc'[p] \in Awaiting => pc[p] \in Awaiting
            /\ pc'[p] = "rebound" => pc[p] = "rebound"
            /\ Applying(pc'[p], cur[p]) => Applying(pc[p], cur[p])
  PROVE  UnblockedInv'
<1>1. Rec' = Rec
  BY RecStays
<1>2. Blockless'
  BY <1>1 DEF UnblockedInv, Blockless
<1>3. PICK step, t, pl, debts :
         step = pc'[p] /\ t = cur'[p] /\ pl = plan'[p] /\ debts = owed'[p]
  OBVIOUS
<1>4. \A u \in Work : Open(u) => Open(u)'
  BY <1>1 DEF Open, Txn
<1>5. CASE step = "idle"
  <2>1. step \notin Awaiting /\ step # "rebound" /\ ~Applying(step, t)
    BY <1>5 DEF Awaiting, Unlanded, FirstSteps, Applying, Planning
  <2> QED BY <1>2, <1>3, <2>1, AwaitsKept DEF UnblockedInv
<1>6. CASE step # "idle"
  <2>1. /\ t = cur[p] /\ pl = plan[p] /\ debts = owed[p]
        /\ step \in Awaiting => pc[p] \in Awaiting
        /\ step = "rebound" => pc[p] = "rebound"
        /\ Applying(step, t) => Applying(pc[p], cur[p])
    BY <1>3, <1>6
  <2>2. /\ pc[p] \in Awaiting /\ t \in Work => Open(t)
        /\ pc[p] = "rebound" => t \in Work /\ Open(t)
        /\ Applying(pc[p], cur[p]) => PlanOpen(pl, debts)
    BY <2>1 DEF UnblockedInv, Awaits
  <2>3. PlanOpen(pl, debts) => PlanOpen(pl, debts)'
    BY <1>4 DEF PlanOpen
  <2>4. /\ step \in Awaiting /\ t \in Work => Open(t)'
        /\ step = "rebound" => t \in Work /\ Open(t)'
        /\ Applying(step, t) => PlanOpen(pl, debts)'
    BY <1>4, <2>1, <2>2, <2>3
  <2> QED BY <1>2, <1>3, <2>4, AwaitsKept DEF UnblockedInv
<1> QED BY <1>5, <1>6
\* A step of a kernel instance and its plan: it goes on with it, or is over.
LEMMA SettledPlan ==
  ASSUME NEW p \in Process, Settle(p), pc'[p] # "idle"
  PROVE  plan'[p] = plan[p] /\ owed'[p] = owed[p]
BY DEF Settle, plannerVars

\* An exception: a handled one leads to the block of a transaction that has
\* not committed.
LEMMA RaisedAwaits ==
  ASSUME TypeOK, OneRecoverer, UnblockedInv, NEW p \in Process, Settle(p),
         Raise(p), hist' = hist, commits' = commits
  PROVE  UnblockedInv'
<1>1. \A u \in Txn : NoCommitOf(u)' <=> NoCommitOf(u)
  BY DEF NoCommitOf
<1>2. CASE Exit(p)
  BY <1>1, <1>2, ExitTyped, SilentAwaits
<1>3. CASE Handled(p) /\ Goto(p, "failing") /\ cur' = cur
  <2>1. pc'[p] = "failing" /\ cur'[p] = cur[p] /\ cur[p] \in Work
    BY <1>3 DEF Goto, TypeOK, Handled
  <2>2. pc[p] \in Awaiting
    BY <1>3 DEF Handled, Awaiting, Unlanded, FirstSteps
  <2>3. ~Applying("failing", cur[p])
    BY <2>1, KernelConstants DEF Applying, Planning
  <2>4. plan'[p] = plan[p] /\ owed'[p] = owed[p]
    BY <2>1, SettledPlan
  <2> QED BY <1>1, <2>1, <2>2, <2>3, <2>4, SilentAwaits
<1> QED BY <1>2, <1>3 DEF Raise

\* A kernel call: only what has not committed is given up.
LEMMA CallAwaits ==
  ASSUME Sound, OneRecoverer, UnblockedInv, NEW p \in Process, Settle(p),
         NEW t \in Txn, t = cur[p], pc[p] # "idle",
         NEW type \in EventTypes, NEW fact, NEW to \in Steps \ {"idle"},
         to \in Awaiting => pc[p] \in Awaiting /\ type \notin TerminalEventTypes,
         type \in TerminalEventTypes \ {"TransactionCompleted"} => pc[p] \in Awaiting,
         Emitted(p, type, fact, to) \/ Raised(p)
  PROVE  UnblockedInv'
<1>1. TypeOK /\ Rec \in [Txn -> SUBSET EventTypes]
  BY Owners DEF Sound
<1>2. CASE Raised(p)
  BY <1>1, <1>2, RaisedAwaits DEF Raised, ledger, repository
<1>3. CASE Emitted(p, type, fact, to)
  <2>1. Rec' = [Rec EXCEPT ![t] = @ \cup {type}]
    BY <1>1, <1>3, RecAfterEmit DEF Emitted, Emit
  <2>2. /\ Rec'[t] = Rec[t] \cup {type} /\ \A u \in Txn \ {t} : Rec'[u] = Rec[u]
        /\ commits' = commits /\ pc'[p] = to /\ cur'[p] = t
    BY <1>1, <1>3, <2>1 DEF Emitted, Goto, TypeOK, repository
  <2>3. \A u \in Txn : NoCommitOf(u)' <=> NoCommitOf(u)
    BY <2>2 DEF NoCommitOf
  <2>4. PICK pl, debts : pl = plan[p] /\ debts = owed[p]
    OBVIOUS
  <2>5. plan'[p] = pl /\ owed'[p] = debts
    BY <2>2, <2>4, SettledPlan
  <2>6. /\ pc[p] \in Awaiting /\ t \in Work => Open(t)
        /\ Applying(pc[p], t) => PlanOpen(pl, debts)
    BY <2>4 DEF UnblockedInv, Awaits
  <2>7. Blockless'
    <3>1. ASSUME NEW u \in Txn, ~NoCommitOf(u)
          PROVE  u \in Work /\ Rec'[u] \cap TerminalEventTypes \subseteq {"TransactionCompleted"}
      <4>1. u \in Work /\ Rec[u] \cap TerminalEventTypes \subseteq {"TransactionCompleted"}
        BY <3>1 DEF UnblockedInv, Blockless
      <4>2. CASE u # t
        BY <2>2, <4>1, <4>2
      <4>3. CASE u = t
        <5>1. type \notin TerminalEventTypes \ {"TransactionCompleted"}
          BY <2>6, <3>1, <4>1, <4>3 DEF Open
        <5> QED BY <2>2, <4>1, <4>3, <5>1
      <4> QED BY <4>2, <4>3
    <3> QED BY <2>3, <3>1 DEF Blockless
  <2>8. to \in Awaiting /\ t \in Work => Open(t)'
    BY <2>2, <2>3, <2>6 DEF Open
  <2>9. to # "rebound" /\ (Applying(to, t) => t \in Recovery /\ Applying(pc[p], t))
    BY DEF Steps, Applying, Planning
  <2>10. Applying(to, t) => PlanOpen(pl, debts)'
    <3>1. ASSUME Applying(to, t)
          PROVE  PlanOpen(pl, debts)'
      <4>1. PlanOpen(pl, debts) /\ t \notin Work
        BY <2>6, <2>9, <3>1, KernelConstants
      <4>2. \A u \in Work : u \in Txn \ {t}
        BY <4>1 DEF Txn
      <4> QED BY <2>2, <2>3, <4>1, <4>2, PlanOpenStays DEF Open
    <3> QED BY <3>1
  <2>11. Awaits'
    BY <2>2, <2>5, <2>8, <2>9, <2>10, AwaitsKept
  <2> QED BY <2>7, <2>11 DEF UnblockedInv
<1> QED BY <1>2, <1>3

\* git commit: of an open transaction.
LEMMA CommitAwaits ==
  ASSUME Sound, Committed, OneRecoverer, UnblockedInv, NEW p \in Process, Settle(p),
         GitCommit(p)
  PROVE  UnblockedInv'
<1>1. PICK t : t = cur[p]
  OBVIOUS
<1>2. pc[p] = "checked" /\ pc[p] \in Awaiting /\ TypeOK /\ hist' = hist
  BY DEF GitCommit, Awaiting, Unlanded, Sound, ledger
<1>3. CASE t \notin worktree
  BY <1>1, <1>2, <1>3, RaisedAwaits DEF GitCommit, repository
<1>4. CASE t \in worktree
  <2>1. commits' = Append(commits, t) /\ pc'[p] = "committed" /\ cur'[p] = t
    BY <1>1, <1>2, <1>4 DEF GitCommit, Goto, TypeOK
  <2>2. t \in Txn /\ t # Outside
    BY <1>1, <1>2, Owners, KernelConstants DEF Unlanded
  <2>3. t \in Work /\ t \notin Recovery
    BY <1>4, <2>2, KernelConstants DEF Committed
  <2>4. Open(t)
    BY <1>1, <1>2, <2>3 DEF UnblockedInv, Awaits
  <2>5. /\ DOMAIN commits' = DOMAIN commits \cup {Len(commits) + 1}
        /\ \A i \in DOMAIN commits : commits'[i] = commits[i]
        /\ commits'[Len(commits) + 1] = t
    BY <2>1, <2>2, Owners, Appended DEF Owner
  <2>6. Rec' = Rec /\ \A u \in Txn \ {t} : NoCommitOf(u)' <=> NoCommitOf(u)
    BY <1>2, <2>5, RecStays DEF NoCommitOf
  <2>7. Blockless'
    <3>1. ASSUME NEW u \in Txn, ~NoCommitOf(u)'
          PROVE  u \in Work /\ Rec[u] \cap TerminalEventTypes \subseteq {"TransactionCompleted"}
      BY <2>3, <2>4, <2>6, <3>1 DEF UnblockedInv, Blockless, Open
    <3> QED BY <2>6, <3>1 DEF Blockless
  <2>8. "committed" \notin Awaiting /\ ~Applying("committed", t)
    BY <2>3 DEF Awaiting, Unlanded, FirstSteps, Applying, Planning
  <2>9. PICK pl, debts : pl = plan'[p] /\ debts = owed'[p]
    OBVIOUS
  <2>10. Awaits'
    BY <2>1, <2>8, <2>9, AwaitsKept
  <2> QED BY <2>7, <2>10 DEF UnblockedInv
<1> QED BY <1>3, <1>4
\* Whatever a kernel instance does next.
LEMMA KernelAwaits ==
  ASSUME Sound, Committed, OneRecoverer, UnblockedInv, NEW p \in Process, Settle(p),
         KernelStep(p) \/ Start(p) \/ CompleteTransaction(p)
  PROVE  UnblockedInv'
<1>1. TypeOK /\ Hands
  BY DEF Sound
<1>2. PICK t : t = cur[p]
  OBVIOUS
<1>3. ASSUME NEW from \in Busy \cap Steps, NEW type \in EventTypes, NEW fact,
             NEW to \in Steps \ {"idle"}, pc[p] = from,
             to \in Awaiting => from \in Awaiting /\ type \notin TerminalEventTypes,
             type \in TerminalEventTypes \ {"TransactionCompleted"} => from \in Awaiting,
             Emitted(p, type, fact, to) \/ Raised(p)
      PROVE  UnblockedInv'
  <2>1. t \in Txn /\ pc[p] # "idle"
    BY <1>1, <1>2, <1>3 DEF Hands, Busy
  <2> QED BY <1>2, <1>3, <2>1, CallAwaits
<1>4. CASE \E from, type, to : PlainStep(p, from, type, to)
  <2>1. PICK from, type, to : PlainStep(p, from, type, to)
    BY <1>4
  <2>2. pc[p] = from /\ (Emitted(p, type, facts[t], to) \/ Raised(p))
    BY <1>2, <2>1, PlainStepEmits
  <2>3. /\ type \in EventTypes \ TerminalEventTypes
        /\ to \in Steps \ {"idle"} /\ from \in Busy \cap Steps
        /\ to \in Awaiting => from \in Awaiting
    BY <2>1 DEF PlainStep, EventTypes, TerminalEventTypes, Steps, Busy, Awaiting, Unlanded, FirstSteps
  <2> QED BY <1>3, <2>2, <2>3
<1>5. CASE \/ Start(p) \/ AcquireLeaseRecorded(p) \/ CaptureSnapshot(p)
           \/ SessionLaunched(p) \/ StartValidation(p) \/ PassValidation(p)
           \/ FailValidation(p) \/ RecordRelease(p) \/ RecordProjection(p)
  BY <1>4, <1>5 DEF PlainStep
<1>6. ASSUME NEW said \in SUBSET {cur[p]}, NEW verdict \in {"success", "stop"},
             AcceptResult(p, said, verdict)
      PROVE  UnblockedInv'
  <2>1. PICK from, type, to :
           from = "launched" /\ type = "SessionResultAccepted" /\ to = "resulted"
    OBVIOUS
  <2>2. PICK fact : fact = [facts[t] EXCEPT !.said = said, !.verdict = verdict,
                              !.seen = IF said = ChangedPaths(t) THEN said ELSE NoDiff]
    OBVIOUS
  <2>3. pc[p] = from /\ (Emitted(p, type, fact, to) \/ Raised(p))
    BY <1>2, <1>6, <2>1, <2>2 DEF AcceptResult, Step, Emitted, Raised
  <2>4. /\ type \in EventTypes \ TerminalEventTypes
        /\ to \in Steps \ {"idle"} /\ from \in Busy \cap Steps /\ from \in Awaiting
    BY <2>1 DEF EventTypes, TerminalEventTypes, Steps, Busy, Awaiting, Unlanded, FirstSteps
  <2> QED BY <1>3, <2>3, <2>4
<1>7. CASE RecordFileMutationBoundary(p)
  <2>1. PICK from, type, to :
           from = "resulted" /\ type = "ChangesDetected" /\ to = "bounded"
    OBVIOUS
  <2>2. PICK fact : fact = [facts[t] EXCEPT !.boundary = ChangedPaths(t)]
    OBVIOUS
  <2>3. pc[p] = from /\ (Emitted(p, type, fact, to) \/ Raised(p))
    BY <1>2, <1>7, <2>1, <2>2 DEF RecordFileMutationBoundary, Step, Emitted, Raised
  <2>4. /\ type \in EventTypes \ TerminalEventTypes
        /\ to \in Steps \ {"idle"} /\ from \in Busy \cap Steps /\ from \in Awaiting
    BY <2>1 DEF EventTypes, TerminalEventTypes, Steps, Busy, Awaiting, Unlanded, FirstSteps
  <2> QED BY <1>3, <2>3, <2>4
<1>8. ASSUME NEW type \in TerminalEventTypes, Block(p, type)
      PROVE  UnblockedInv'
  <2>1. PICK from, to : from = pc[p] /\ to = "terminal"
    OBVIOUS
  <2>2. pc[p] = from /\ (Emitted(p, type, facts[t], to) \/ Raised(p))
    BY <1>2, <1>8, <2>1 DEF Block, Step, Emitted, Raised
  <2>3. /\ type \in EventTypes /\ to \in Steps \ {"idle"} /\ to \notin Awaiting
        /\ from \in Busy \cap Steps /\ from \in Awaiting
    BY <1>8, <2>1 DEF Block, EventTypes, Steps, Busy, Awaiting, Unlanded, FirstSteps
  <2> QED BY <1>3, <2>2, <2>3
<1>9. CASE FinalizeUnchanged(p)
  <2>1. PICK from, type, to :
           from = "finalizing" /\ type = "CommitFinalized" /\ to = "finalized"
    OBVIOUS
  <2>2. PICK fact : fact = [facts[t] EXCEPT !.commit = facts[t].base]
    OBVIOUS
  <2>3. pc[p] = from /\ (Emitted(p, type, fact, to) \/ Raised(p))
    BY <1>2, <1>9, <2>1, <2>2 DEF FinalizeUnchanged, Step, Emitted, Raised
  <2>4. /\ type \in EventTypes \ TerminalEventTypes /\ to \notin Awaiting
        /\ to \in Steps \ {"idle"} /\ from \in Busy \cap Steps
    BY <2>1 DEF EventTypes, TerminalEventTypes, Steps, Busy, Awaiting, Unlanded, FirstSteps
  <2> QED BY <1>3, <2>3, <2>4
<1>10. ASSUME NEW c \in DOMAIN commits, RecordCommit(p, c)
       PROVE  UnblockedInv'
  <2>1. PICK from, type, to :
           from = "committed" /\ type = "CommitFinalized"
           /\ to = IF worktree = {} THEN "finalized" ELSE "dirty"
    OBVIOUS
  <2>2. PICK fact : fact = [facts[t] EXCEPT !.commit = c]
    OBVIOUS
  <2>3. pc[p] = from /\ (Emitted(p, type, fact, to) \/ Raised(p))
    BY <1>2, <1>10, <2>1, <2>2 DEF RecordCommit, Step, Emitted, Raised
  <2>4. /\ type \in EventTypes \ TerminalEventTypes /\ to \notin Awaiting
        /\ to \in Steps \ {"idle"} /\ from \in Busy \cap Steps
    BY <2>1 DEF EventTypes, TerminalEventTypes, Steps, Busy, Awaiting, Unlanded, FirstSteps
  <2> QED BY <1>3, <2>3, <2>4
<1>11. CASE CompleteTransaction(p)
  <2>1. PICK from, type, to :
           from = "finalized" /\ type = "TransactionCompleted" /\ to = "terminal"
    OBVIOUS
  <2>2. pc[p] = from /\ (Emitted(p, type, facts[t], to) \/ Raised(p))
    BY <1>2, <1>11, <2>1 DEF CompleteTransaction, Step, Emitted, Raised
  <2>3. /\ type \in EventTypes /\ type \notin TerminalEventTypes \ {"TransactionCompleted"}
        /\ to \notin Awaiting
        /\ to \in Steps \ {"idle"} /\ from \in Busy \cap Steps
    BY <2>1 DEF EventTypes, TerminalEventTypes, Steps, Busy, Awaiting, Unlanded, FirstSteps
  <2> QED BY <1>3, <2>2, <2>3
<1>12. CASE Rejected(p) \/ NotClean(p)
  BY <1>1, <1>12, RaisedAwaits DEF Rejected, NotClean, ledger, repository
<1>13. CASE CheckDiff(p) \/ SessionEdits(p)
  <2>1. hist' = hist /\ commits' = commits /\ cur' = cur
    BY <1>13 DEF CheckDiff, SessionEdits, ledger, repository
  <2>2. pc[p] \in {"finalizing", "launched"} /\ pc'[p] \in {"checked", "launched"}
    BY <1>1, <1>13 DEF CheckDiff, SessionEdits, Goto, TypeOK
  <2>3. pc[p] \in Awaiting /\ pc'[p] \notin {"idle", "rebound"} /\ pc'[p] \notin Planning
    BY <2>2 DEF Awaiting, Unlanded, FirstSteps, Planning
  <2>4. Applying(pc'[p], cur[p]) => Applying(pc[p], cur[p])
    BY <2>2, <2>3 DEF Applying
  <2>5. plan'[p] = plan[p] /\ owed'[p] = owed[p]
    BY <2>3, SettledPlan
  <2>6. \A u \in Txn : NoCommitOf(u)' <=> NoCommitOf(u)
    BY <2>1 DEF NoCommitOf
  <2> QED BY <2>1, <2>3, <2>4, <2>5, <2>6, SilentAwaits
<1>14. CASE ReleaseLease(p)
  <2>1. hist' = hist /\ commits' = commits
    BY <1>14 DEF ReleaseLease, ledger, repository
  <2>2. CASE Raise(p)
    BY <1>1, <2>1, <2>2, RaisedAwaits
  <2>3. CASE cur' = cur /\ (Goto(p, "unlinked") \/ Goto(p, "released"))
    <3>1. pc[p] = "terminal" /\ pc'[p] \in {"unlinked", "released"}
      BY <1>1, <1>14, <2>3 DEF ReleaseLease, Goto, TypeOK
    <3>2. pc'[p] \notin Awaiting \cup {"idle", "rebound"} /\ pc'[p] \notin Planning
      BY <3>1 DEF Awaiting, Unlanded, FirstSteps, Planning
    <3>3. Applying(pc'[p], cur[p]) => Applying(pc[p], cur[p])
      BY <3>1, <3>2 DEF Applying
    <3>4. plan'[p] = plan[p] /\ owed'[p] = owed[p]
      BY <3>2, SettledPlan
    <3>5. \A u \in Txn : NoCommitOf(u)' <=> NoCommitOf(u)
      BY <2>1 DEF NoCommitOf
    <3> QED BY <2>1, <2>3, <3>2, <3>3, <3>4, <3>5, SilentAwaits
  <2> QED BY <1>14, <2>2, <2>3 DEF ReleaseLease
<1> QED BY <1>5, <1>6, <1>7, <1>8, <1>9, <1>10, <1>11, <1>12, <1>13, <1>14, CommitAwaits
        DEF KernelStep
-----------------------------------------------------------------------------
(* Plans and what they leave open.                                         *)

\* What inspect would resume is open: HEAD is at its base.
LEMMA InspectIsOpen ==
  ASSUME Sound, Committed, NEW pl, pl = Inspect, NEW debts, debts = Owed(pl)
  PROVE  PlanOpen(pl, debts)
<1>1. TypeOK /\ DOMAIN commits = 1..Tip /\ Tip \in Nat /\ \A u \in Txn : facts[u].base \in Nat
  BY Owners DEF Sound
<1>2. LeaseIsStale \in BOOLEAN /\ (cached # seq) \in BOOLEAN
  BY DEF LeaseIsStale
<1>3. pl.class = "resume" => pl.txn \in Incomplete /\ AtBase(pl.txn)
  <2>1. CASE pl = Human(NoTxn)
    BY <2>1 DEF Human, PlanRecord
  <2>2. CASE \E t \in Subjects : pl = InspectIncomplete(t)
    <3>1. PICK t \in Incomplete : pl = InspectIncomplete(t)
      BY <2>2 DEF Subjects
    <3>2. PICK w : w = worktree
      OBVIOUS
    <3>3. CASE pl = PlanRecord("resume", TRUE, t, w) /\ AtBase(t)
      BY <3>1, <3>3 DEF PlanRecord
    <3>4. CASE \/ pl = Human(t)
               \/ pl = PlanRecord("finalization_incomplete", TRUE, t, {})
               \/ pl = PlanRecord("commit_succeeded_before_evidence", TRUE, t, {})
      BY <3>4 DEF Human, PlanRecord
    <3> QED BY <3>1, <3>2, <3>3, <3>4 DEF InspectIncomplete
  <2>3. CASE \/ pl = PlanRecord("terminal_before_lease_release", LeaseIsStale, lease.txn, {})
             \/ pl = PlanRecord("orphaned_prestart_lease", LeaseIsStale, lease.txn, {})
             \/ pl = PlanRecord("projection_update_incomplete", cached # seq, NoTxn, {})
    BY <1>2, <2>3 DEF PlanRecord
  <2> QED BY <2>1, <2>2, <2>3 DEF Inspect
<1>4. pl.class = "resume" => Open(pl.txn)
  <2>1. SUFFICES ASSUME pl.class = "resume"
                 PROVE  Open(pl.txn)
    OBVIOUS
  <2>2. PICK t \in Txn : t = pl.txn /\ ~Ended(t) /\ AtBase(t)
    BY <1>3, <2>1 DEF Incomplete
  <2>3. Rec[t] \cap TerminalEventTypes = {}
    BY <1>1, <2>2, RecMeaning
  <2>4. t # Outside
    BY <2>2, KernelConstants
  <2>5. NoCommitOf(t)
    BY <1>1, <2>2, <2>4 DEF Committed, NoCommitOf, AtBase
  <2> QED BY <2>2, <2>3, <2>5 DEF Open
<1>5. ASSUME pl.txn \in Work
      PROVE  /\ debts \in WorkDebts
             /\ pl.class = "resume" => debts \in {<<"RecoveryApplied">>, <<>>}
  BY <1>5, KernelConstants DEF Owed, WorkDebts, CommitDebt, Completion
<1> QED BY <1>4, <1>5 DEF PlanOpen

\* A recovery plans what inspect has just seen.
LEMMA RecoverAwaits ==
  ASSUME PlannerInv, Committed, OneRecoverer, UnblockedInv, NEW p \in Process,
         NEW command, Recover(p, command)
  PROVE  UnblockedInv'
<1>1. Sound /\ TypeOK /\ PlannerTyped
  BY DEF PlannerInv, Sound
<1>2. PICK pl, debts, t : pl = Inspect /\ debts = Owed(pl) /\ t = cur[p]
  OBVIOUS
<1>3. /\ plan'[p] = pl /\ owed'[p] = debts /\ pc'[p] = "planned" /\ cur'[p] = t
      /\ hist' = hist /\ commits' = commits
  BY <1>1, <1>2 DEF Recover, Goto, ledger, repository, PlannerTyped, TypeOK
<1>4. PlanOpen(pl, debts)
  BY <1>1, <1>2, InspectIsOpen
<1>5. Rec' = Rec /\ \A u : NoCommitOf(u)' <=> NoCommitOf(u)
  BY <1>3, RecStays DEF NoCommitOf
<1>6. PlanOpen(pl, debts)'
  BY <1>4, <1>5, PlanOpenStays DEF Open
<1>7. "planned" \notin Awaiting
  BY DEF Awaiting, Unlanded, FirstSteps
<1>8. Awaits'
  BY <1>3, <1>6, <1>7, AwaitsKept
<1> QED BY <1>5, <1>8 DEF UnblockedInv, Blockless

\* The steps of apply and of the continuation before and after the recovery
\* transaction.
LEMMA PlanStepAwaits ==
  ASSUME PlannerInv, OneRecoverer, UnblockedInv, NEW p \in Process,
         \/ ReadOldLease(p) \/ ArchiveLease(p) \/ ReacquireLease(p) \/ Crash(p)
         \/ \E r \in Recovery : TakeLease(p, r) \/ TakeFreeLease(p, r)
  PROVE  UnblockedInv'
<1>1. Sound /\ TypeOK /\ PlannerTyped /\ Plans
  BY DEF PlannerInv, Sound
<1>2. hist' = hist /\ commits' = commits
  BY DEF ReadOldLease, ArchiveLease, ReacquireLease, Crash, Die, TakeLease, TakeFreeLease,
         OpenRecovery, ledger, repository
<1>3. Rec' = Rec /\ \A u : NoCommitOf(u)' <=> NoCommitOf(u)
  BY <1>2, RecStays DEF NoCommitOf
<1>4. CASE GiveUp(p)
  <2>1. pc'[p] = "idle"
    BY <1>1, <1>4, ExitTyped DEF GiveUp
  <2> QED BY <1>2, <1>3, <2>1, SilentAwaits
<1>5. CASE /\ pc[p] \in Planning /\ \E to \in {"direct", "proved", "archived"} : Goto(p, to)
           /\ UNCHANGED <<cur, plan, owed>>
  <2>1. pc'[p] \in {"direct", "proved", "archived"}
    BY <1>1, <1>5 DEF Goto, TypeOK
  <2>2. pc'[p] \notin Awaiting /\ pc'[p] # "rebound" /\ Applying(pc[p], cur[p])
    BY <1>5, <2>1 DEF Awaiting, Unlanded, FirstSteps, Applying
  <2> QED BY <1>2, <1>3, <1>5, <2>2, SilentAwaits
<1>6. CASE /\ pc[p] = "reacquire" /\ Goto(p, "rebound")
           /\ cur' = [cur EXCEPT ![p] = plan[p].txn] /\ UNCHANGED <<plan, owed>>
  <2>1. PICK pl, debts, t : pl = plan[p] /\ debts = owed[p] /\ t = pl.txn
    OBVIOUS
  <2>2. /\ pc'[p] = "rebound" /\ cur'[p] = t /\ plan'[p] = pl /\ owed'[p] = debts
    BY <1>1, <1>6, <2>1 DEF Goto, TypeOK
  <2>3. t \in Work /\ pl.class = "resume"
    BY <1>1, <1>6, <2>1 DEF Plans
  <2>4. Applying(pc[p], cur[p])
    BY <1>6 DEF Applying, Planning
  <2>5. Open(t)
    BY <2>1, <2>3, <2>4 DEF UnblockedInv, Awaits, PlanOpen
  <2>6. Open(t)'
    BY <1>3, <2>5 DEF Open
  <2>7. "rebound" \notin Awaiting /\ ~Applying("rebound", t)
    BY <2>3, KernelConstants DEF Awaiting, Unlanded, FirstSteps, Applying, Planning
  <2>8. Awaits'
    BY <2>2, <2>3, <2>6, <2>7, AwaitsKept
  <2> QED BY <1>3, <2>8 DEF UnblockedInv, Blockless
<1>7. CASE /\ pc[p] \in Planning /\ \E r \in Recovery : OpenRecovery(p, r)
           /\ UNCHANGED <<plan, owed>>
  <2>1. PICK r \in Recovery : OpenRecovery(p, r)
    BY <1>7
  <2>2. PICK pl, debts : pl = plan[p] /\ debts = owed[p]
    OBVIOUS
  <2>3. pc'[p] = "taken" /\ cur'[p] = r /\ plan'[p] = pl /\ owed'[p] = debts
    BY <1>1, <1>7, <2>1, <2>2 DEF OpenRecovery, Goto, TypeOK
  <2>4. PlanOpen(pl, debts)
    BY <1>7, <2>2 DEF UnblockedInv, Awaits, Applying
  <2>5. PlanOpen(pl, debts)'
    BY <1>3, <2>4, PlanOpenStays DEF Open
  <2>6. r \notin Work
    BY KernelConstants
  <2>7. Awaits'
    BY <2>3, <2>5, <2>6, AwaitsKept
  <2> QED BY <1>3, <2>7 DEF UnblockedInv, Blockless
<1>8. CASE ReadOldLease(p)
  BY <1>4, <1>5, <1>8 DEF ReadOldLease, Planning
<1>9. CASE ArchiveLease(p)
  BY <1>4, <1>5, <1>9 DEF ArchiveLease, Planning
<1>10. CASE ReacquireLease(p)
  BY <1>4, <1>6, <1>10 DEF ReacquireLease
<1>11. CASE \E r \in Recovery : TakeLease(p, r) \/ TakeFreeLease(p, r)
  BY <1>4, <1>7, <1>11 DEF TakeLease, TakeFreeLease, Planning
<1> QED BY <1>4, <1>8, <1>9, <1>10, <1>11 DEF Crash

\* The lease of the resumed transaction is recorded again, and it goes on as
\* one that has not committed.
LEMMA ReacquiredAwaits ==
  ASSUME PlannerInv, OneRecoverer, UnblockedInv, NEW p \in Process, RecordReacquired(p)
  PROVE  UnblockedInv'
<1>1. Sound /\ TypeOK /\ Rec \in [Txn -> SUBSET EventTypes]
  BY Owners DEF PlannerInv, Sound
<1>2. PICK t, pl, debts : t = cur[p] /\ pl = plan[p] /\ debts = owed[p]
  OBVIOUS
<1>3. pc[p] = "rebound" /\ commits' = commits
  BY DEF RecordReacquired, repository
<1>4. t \in Work /\ t \in Txn /\ Open(t)
  BY <1>2, <1>3 DEF UnblockedInv, Awaits, Txn
<1>5. \A u : NoCommitOf(u)' <=> NoCommitOf(u)
  BY <1>3 DEF NoCommitOf
<1>6. CASE GiveUp(p) /\ hist' = hist
  <2>1. pc'[p] = "idle"
    BY <1>1, <1>6, ExitTyped DEF GiveUp
  <2> QED BY <1>5, <1>6, <2>1, SilentAwaits
<1>7. CASE ~(GiveUp(p) /\ hist' = hist)
  <2>1. /\ hist' = [hist EXCEPT ![t] = Append(@, "LeaseAcquired")]
        /\ Goto(p, ResumeAt(p)) /\ UNCHANGED <<cur, plan, owed>>
    BY <1>2, <1>7 DEF RecordReacquired, Emit
  <2>2. PICK to : to = ResumeAt(p)
    OBVIOUS
  <2>3. to \in {"superseding", "resulted", "finalizing", "bounded"}
    BY <2>2 DEF ResumeAt
  <2>4. pc'[p] = to /\ cur'[p] = t /\ plan'[p] = pl /\ owed'[p] = debts
    BY <1>1, <1>2, <2>1, <2>2 DEF Goto, TypeOK
  <2>5. "LeaseAcquired" \in EventTypes \ TerminalEventTypes
    BY DEF EventTypes, TerminalEventTypes
  <2>6. Rec' = [Rec EXCEPT ![t] = @ \cup {"LeaseAcquired"}]
    BY <1>1, <1>4, <2>1, <2>5, RecAfterEmit
  <2>7. \A u \in Txn : Rec'[u] \cap TerminalEventTypes = Rec[u] \cap TerminalEventTypes
    BY <1>1, <2>5, <2>6
  <2>8. Open(t)'
    BY <1>4, <1>5, <2>7 DEF Open
  <2>9. to # "rebound" /\ ~Applying(to, t)
    BY <1>4, <2>3, KernelConstants DEF Applying, Planning
  <2>10. Awaits'
    BY <2>4, <2>8, <2>9, AwaitsKept
  <2> QED BY <1>5, <2>7, <2>10 DEF UnblockedInv, Blockless
<1> QED BY <1>6, <1>7
\* A recovery repays: only a transaction that cannot have a commit, another
\* recovery, is superseded.
LEMMA RepayAwaits ==
  ASSUME PlannerInv, OneRecoverer, UnblockedInv, NEW p \in Process, Repay(p)
  PROVE  UnblockedInv'
<1>1. /\ Sound /\ TypeOK /\ PlannerTyped /\ Plans
      /\ Rec \in [Txn -> SUBSET EventTypes]
  BY Owners DEF PlannerInv, Sound
<1>2. PICK pl, debts, t, r, type : /\ pl = plan[p] /\ debts = owed[p] /\ t = pl.txn
                                   /\ r = cur[p] /\ type = Head(debts)
  OBVIOUS
<1>3. /\ pc[p] = "finalized" /\ r \in Recovery /\ debts # <<>> /\ commits' = commits
  BY <1>2 DEF Repay, repository
<1>4. Applying("finalized", r)
  BY <1>3 DEF Applying
<1>5. PlanOpen(pl, debts) /\ t \in Txn
  BY <1>1, <1>2, <1>3, <1>4 DEF UnblockedInv, Awaits, Plans, WellPlanned, Known
<1>6. debts \in Seq(Repayable) /\ type \in Repayable /\ Repayable \subseteq EventTypes
  <2>1. debts \in Seq(Repayable)
    BY <1>1, <1>2 DEF PlannerTyped
  <2>2. type \in Repayable
    BY <1>2, <1>3, <2>1
  <2> QED BY <2>1, <2>2 DEF Repayable, EventTypes, TerminalEventTypes
<1>7. \A u \in Txn : NoCommitOf(u)' <=> NoCommitOf(u)
  BY <1>3 DEF NoCommitOf
<1>8. CASE GiveUp(p) /\ hist' = hist
  <2>1. pc'[p] = "idle"
    BY <1>1, <1>8, ExitTyped DEF GiveUp
  <2> QED BY <1>7, <1>8, <2>1, SilentAwaits
<1>9. CASE ~(GiveUp(p) /\ hist' = hist)
  <2>1. /\ hist' = hist \/ hist' = [hist EXCEPT ![t] = Append(@, type)]
        /\ owed' = [owed EXCEPT ![p] = Tail(debts)]
        /\ UNCHANGED <<pc, cur, plan>>
    BY <1>2, <1>9 DEF Repay, Emit, ledger
  <2>2. pc'[p] = "finalized" /\ cur'[p] = r /\ plan'[p] = pl /\ owed'[p] = Tail(debts)
    BY <1>1, <1>2, <1>3, <2>1 DEF PlannerTyped
  <2>3. /\ Rec'[t] \subseteq Rec[t] \cup {type} /\ Rec[t] \subseteq Rec'[t]
        /\ \A u \in Txn \ {t} : Rec'[u] = Rec[u]
    <3>1. CASE hist' = hist
      BY <3>1, RecStays
    <3>2. CASE hist' = [hist EXCEPT ![t] = Append(@, type)]
      <4>1. type \in EventTypes
        BY <1>6
      <4>2. Rec' = [Rec EXCEPT ![t] = @ \cup {type}]
        BY <1>1, <1>5, <3>2, <4>1, RecAfterEmit
      <4> QED BY <1>1, <1>5, <4>2
    <3> QED BY <2>1, <3>1, <3>2
  <2>4. /\ t \in Work => /\ debts \in {CommitDebt, Completion, <<"RecoveryApplied">>}
                         /\ Tail(debts) \in WorkDebts
                         /\ type # "TransactionSuperseded"
        /\ t \in Work /\ pl.class = "resume" =>
             type = "RecoveryApplied" /\ Tail(debts) = <<>>
    <3>1. CASE t \in Work
      <4>1. debts \in {CommitDebt, Completion, <<"RecoveryApplied">>}
        BY <1>2, <1>3, <1>5, <3>1 DEF PlanOpen, WorkDebts
      <4>2. CASE debts = CommitDebt
        <5>1. type = "CommitFinalized" /\ Tail(debts) = Completion
          BY <1>2, <4>2 DEF CommitDebt, Completion
        <5>2. pl.class # "resume"
          BY <1>2, <1>5, <3>1, <4>2 DEF PlanOpen, CommitDebt
        <5> QED BY <4>1, <5>1, <5>2 DEF WorkDebts
      <4>3. CASE debts = Completion
        <5>1. type = "TransactionCompleted" /\ Tail(debts) = <<"RecoveryApplied">>
          BY <1>2, <4>3 DEF Completion
        <5>2. pl.class # "resume"
          BY <1>2, <1>5, <3>1, <4>3 DEF PlanOpen, Completion
        <5> QED BY <4>1, <5>1, <5>2 DEF WorkDebts
      <4>4. CASE debts = <<"RecoveryApplied">>
        <5>1. type = "RecoveryApplied" /\ Tail(debts) = <<>>
          BY <1>2, <4>4
        <5> QED BY <4>1, <5>1 DEF WorkDebts
      <4> QED BY <4>1, <4>2, <4>3, <4>4
    <3> QED BY <3>1
  <2>5. type \in TerminalEventTypes => type \in {"TransactionCompleted", "TransactionSuperseded"}
    BY <1>6 DEF Repayable, TerminalEventTypes
  <2>6. Blockless'
    <3>1. ASSUME NEW u \in Txn, ~NoCommitOf(u)
          PROVE  u \in Work /\ Rec'[u] \cap TerminalEventTypes \subseteq {"TransactionCompleted"}
      <4>1. u \in Work /\ Rec[u] \cap TerminalEventTypes \subseteq {"TransactionCompleted"}
        BY <3>1 DEF UnblockedInv, Blockless
      <4>2. CASE u # t
        BY <2>3, <4>1, <4>2
      <4>3. CASE u = t
        BY <2>3, <2>4, <2>5, <4>1, <4>3
      <4> QED BY <4>2, <4>3
    <3> QED BY <1>7, <3>1 DEF Blockless
  <2>7. PICK rest : rest = Tail(debts)
    OBVIOUS
  <2>8. PlanOpen(pl, rest)'
    <3>1. ASSUME t \in Work
          PROVE  /\ rest \in WorkDebts
                 /\ pl.class = "resume" => Open(t)' /\ rest \in {<<"RecoveryApplied">>, <<>>}
      <4>1. rest \in WorkDebts
        BY <2>4, <2>7, <3>1
      <4>2. ASSUME pl.class = "resume"
            PROVE  Open(t)' /\ rest \in {<<"RecoveryApplied">>, <<>>}
        <5>1. Open(t)
          BY <1>2, <1>5, <3>1, <4>2 DEF PlanOpen
        <5>2. type = "RecoveryApplied" /\ rest = <<>>
          BY <2>4, <2>7, <3>1, <4>2
        <5>3. type \notin TerminalEventTypes
          BY <5>2 DEF TerminalEventTypes
        <5>4. Rec'[t] \cap TerminalEventTypes = {}
          BY <2>3, <5>1, <5>3 DEF Open
        <5> QED BY <1>5, <1>7, <5>1, <5>2, <5>4 DEF Open
      <4> QED BY <4>1, <4>2
    <3> QED BY <1>2, <3>1 DEF PlanOpen
  <2>9. "finalized" \notin Awaiting
    BY DEF Awaiting, Unlanded, FirstSteps
  <2>10. Awaits'
    BY <2>2, <2>7, <2>8, <2>9, AwaitsKept
  <2> QED BY <2>6, <2>10 DEF UnblockedInv
<1> QED BY <1>8, <1>9 DEF Repay, ledger

\* The steps of a kernel instance, of a runner or of a recovery.
LEMMA InstanceAwaits ==
  ASSUME PlannerInv, Committed, OneRecoverer, UnblockedInv, NEW p \in Process, Settle(p),
         RunnerStep(p) \/ StartRecovery(p) \/ CompleteRecovery(p) \/ FinishRecovery(p)
  PROVE  UnblockedInv'
<1>1. Sound /\ TypeOK /\ PlannerTyped /\ Hands /\ Origins
  BY DEF PlannerInv, Sound
<1>2. CASE KernelStep(p) \/ Start(p) \/ CompleteTransaction(p)
  BY <1>1, <1>2, KernelAwaits
<1>3. ASSUME NEW t \in Work, Begin(p, t)
      PROVE  UnblockedInv'
  <2>1. /\ t \in Txn /\ t \notin Recovery /\ Fresh(t)
        /\ hist' = hist /\ commits' = commits /\ pc'[p] = "leased" /\ cur'[p] = t
    BY <1>1, <1>3, KernelConstants DEF Begin, Goto, TypeOK, Txn, repository
  <2>2. ~Begun(t)
    BY <2>1 DEF Fresh, NoFacts, Begun
  <2>3. NoCommitOf(t) /\ Rec[t] = {}
    BY <1>1, <2>1, <2>2, CommittedHasBegun DEF Origins
  <2>4. Rec' = Rec /\ \A u : NoCommitOf(u)' <=> NoCommitOf(u)
    BY <2>1, RecStays DEF NoCommitOf
  <2>5. Open(t)'
    BY <2>3, <2>4 DEF Open
  <2>6. ~Applying("leased", t)
    BY <2>1 DEF Applying, Planning
  <2>7. PICK pl, debts : pl = plan'[p] /\ debts = owed'[p]
    OBVIOUS
  <2>8. Awaits'
    BY <2>1, <2>5, <2>6, <2>7, AwaitsKept
  <2> QED BY <2>4, <2>8 DEF UnblockedInv, Blockless
<1>4. CASE StartRecovery(p)
  <2>1. PICK t, from, type, to : /\ t = cur[p] /\ from = "taken"
                                 /\ type = "TransactionStarted" /\ to = "started"
    OBVIOUS
  <2>2. pc[p] = from /\ (Emitted(p, type, facts[t], to) \/ Raised(p))
    BY <1>4, <2>1 DEF StartRecovery, Step, Emitted, Raised
  <2>3. t \in Txn /\ pc[p] # "idle"
    BY <1>1, <2>1, <2>2 DEF Hands, Busy
  <2>4. /\ type \in EventTypes \ TerminalEventTypes
        /\ to \in Steps \ {"idle"} /\ from \in Awaiting
    BY <2>1 DEF EventTypes, TerminalEventTypes, Steps, Awaiting, Unlanded, FirstSteps
  <2> QED BY <1>1, <2>1, <2>2, <2>3, <2>4, CallAwaits
<1>5. CASE Finish(p) \/ FinishRecovery(p)
  <2>1. PICK to \in {"idle", "reacquire"} :
           Rebuild(p, to) /\ (to = "reacquire" => cur[p] \in Recovery)
    BY <1>5 DEF Finish, FinishRecovery
  <2>2. hist' = hist /\ commits' = commits /\ pc[p] = "projected"
    BY <2>1 DEF Rebuild, ledger, repository
  <2>3. CASE Raise(p)
    BY <1>1, <2>2, <2>3, RaisedAwaits
  <2>4. CASE ~Raise(p)
    <3>1. pc'[p] = to /\ (to = "idle" \/ cur'[p] = cur[p])
      BY <1>1, <2>1, <2>4 DEF Rebuild, Goto, TypeOK
    <3>2. to \notin Awaiting /\ to # "rebound"
      BY DEF Awaiting, Unlanded, FirstSteps
    <3>3. to = "reacquire" => Applying(pc[p], cur[p])
      BY <2>1, <2>2 DEF Applying
    <3>4. to = "reacquire" => plan'[p] = plan[p] /\ owed'[p] = owed[p]
      BY <3>1, SettledPlan
    <3>5. \A u \in Txn : NoCommitOf(u)' <=> NoCommitOf(u)
      BY <2>2 DEF NoCommitOf
    <3> QED BY <2>2, <3>1, <3>2, <3>3, <3>4, <3>5, SilentAwaits
  <2> QED BY <2>3, <2>4
<1> QED BY <1>2, <1>3, <1>4, <1>5 DEF RunnerStep, Complete, CompleteRecovery

\* The outsider's commit is nobody's, and one may come at any time.
LEMMA DriftAwaits ==
  ASSUME Sound, OneRecoverer, UnblockedInv, Drift /\ UNCHANGED plannerVars
  PROVE  UnblockedInv'
<1>1. UNCHANGED <<hist, pc, cur, plan, owed>>
  BY DEF Drift, ledger, plannerVars
<1>2. \A u \in Txn : NoCommitOf(u)' <=> NoCommitOf(u)
  <2>1. CASE commits' = commits
    BY <2>1 DEF NoCommitOf
  <2>2. CASE commits' = Append(commits, Outside)
    <3>1. /\ DOMAIN commits' = DOMAIN commits \cup {Len(commits) + 1}
          /\ \A i \in DOMAIN commits : commits'[i] = commits[i]
          /\ commits'[Len(commits) + 1] = Outside
      BY <2>2, Owners, Appended DEF Owner
    <3> QED BY <3>1, KernelConstants DEF NoCommitOf
  <2> QED BY <2>1, <2>2 DEF Drift, repository
<1>3. Rec' = Rec
  BY <1>1, RecStays
<1>4. Blockless'
  BY <1>2, <1>3 DEF UnblockedInv, Blockless
<1>5. CASE Process = {}
  BY <1>4, <1>5 DEF UnblockedInv, Awaits
<1>6. CASE Process # {}
  BY <1>1, <1>2, <1>6, SilentAwaits
<1> QED BY <1>5, <1>6

LEMMA UnblockedNext ==
  ASSUME PlannerInv, Committed, OneRecoverer, UnblockedInv, PlannerNext
  PROVE  UnblockedInv'
<1>1. Sound
  BY DEF PlannerInv
<1>2. ASSUME NEW p \in Process, RecoveryStep(p)
      PROVE  UnblockedInv'
  BY <1>2, PlanStepAwaits, RepayAwaits, ReacquiredAwaits, InstanceAwaits DEF RecoveryStep
<1>3. ASSUME NEW p \in Process,
             \/ RunnerStep(p) /\ Settle(p)
             \/ \E command \in {"resume", "resolve"} : Recover(p, command)
             \/ Crash(p)
      PROVE  UnblockedInv'
  BY <1>3, InstanceAwaits, RecoverAwaits, PlanStepAwaits
<1> QED BY <1>1, <1>2, <1>3, DriftAwaits DEF PlannerNext

\* The inductive invariant of one recoverer: what has committed was not given
\* up, and what may still commit, or is to be resumed, is open.
THEOREM UnblockedInvariance ==
  ASSUME OneRecoverer
  PROVE  PlannerSpec => []UnblockedInv
<1>1. PlannerInit => UnblockedInv
  <2> SUFFICES ASSUME PlannerInit
               PROVE  UnblockedInv
    OBVIOUS
  <2>1. /\ \A i \in DOMAIN commits : commits[i] = Outside
        /\ \A p \in Process : pc[p] = "idle"
    BY DEF PlannerInit, Init
  <2>2. "idle" \notin Awaiting /\ \A t : ~Applying("idle", t)
    BY DEF Awaiting, Unlanded, FirstSteps, Applying, Planning
  <2> QED BY <2>1, <2>2, KernelConstants DEF UnblockedInv, Blockless, NoCommitOf, Awaits
<1>2. PlannerInv /\ BranchInv /\ UnblockedInv /\ [PlannerNext]_vars => UnblockedInv'
  <2> SUFFICES ASSUME PlannerInv, BranchInv, UnblockedInv, [PlannerNext]_vars
               PROVE  UnblockedInv'
    OBVIOUS
  <2>1. CASE PlannerNext
    BY <2>1, UnblockedNext DEF BranchInv
  <2>2. CASE UNCHANGED vars
    <3>1. UNCHANGED <<hist, commits, pc, cur, plan, owed>>
      BY <2>2 DEF vars, plannerVars, kernelVars, ledger, repository
    <3>2. Rec' = Rec
      BY <3>1, RecStays
    <3> QED BY <3>1, <3>2 DEF UnblockedInv, Blockless, Awaits, NoCommitOf, Open, PlanOpen,
                              Applying
  <2> QED BY <2>1, <2>2
<1> QED BY <1>1, <1>2, PlannerInvariance, BranchInvariance, PTL DEF PlannerSpec

\* With one recoverer at a time, wherever processes die or an outsider
\* commits, a transaction that ended blocked, gated or superseded left no
\* commit on the branch (block, _terminalize_handled_kernel_failure,
\* RecoveryPlanner.apply, restore).
THEOREM GivenUpWorkHasNoCommit ==
  ASSUME \A p, q \in Process : p = q
  PROVE  PlannerSpec => []NoCommitBehindABlock
<1>1. OneRecoverer
  BY DEF OneRecoverer
<1>2. PlannerInv /\ UnblockedInv => NoCommitBehindABlock
  <2> SUFFICES ASSUME PlannerInv, UnblockedInv, NEW i \in DOMAIN commits,
                      commits[i] # Outside, Ended(commits[i])
               PROVE  Recorded(commits[i], "TransactionCompleted")
    BY DEF NoCommitBehindABlock
  <2>1. PICK t \in Txn : t = commits[i]
    BY Owners DEF PlannerInv
  <2>2. Rec[t] \cap TerminalEventTypes # {} /\ TypeOK
    BY <2>1, RecMeaning DEF PlannerInv, Sound
  <2>3. Rec[t] \cap TerminalEventTypes \subseteq {"TransactionCompleted"}
    BY <2>1 DEF UnblockedInv, Blockless, NoCommitOf
  <2>4. "TransactionCompleted" \in Rec[t] /\ "TransactionCompleted" \in EventTypes
    BY <2>2, <2>3 DEF EventTypes, TerminalEventTypes
  <2> QED BY <2>1, <2>2, <2>4, RecMeaning
<1> QED BY <1>1, <1>2, PlannerInvariance, UnblockedInvariance, PTL
=============================================================================
