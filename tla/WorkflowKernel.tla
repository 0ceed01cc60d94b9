--------------------------- MODULE WorkflowKernel ---------------------------
(***************************************************************************)
(* The transaction kernel (kernel.py) over the evidence ledger, the writer *)
(* lease file (workflow_lease.py) and the Git checkout, driven by the      *)
(* phase runners of cycle_engine.py and by the recovery planner.           *)
(*                                                                         *)
(* One action is one durable effect: a ledger append, the creation or the  *)
(* removal of the lease file, a Git commit, a projection cache.  A process *)
(* may die, and an outsider may touch the checkout, between any two.  What *)
(* the code checks on the way to the effect guards it, and a check that    *)
(* fails is the same action raising.  An append is one step because the    *)
(* ledger implements AppendOnlyLog; the ledger is kept per transaction.    *)
(*                                                                         *)
(* Data.  Every transaction edits a path of its own, as does the outsider: *)
(* the worktree is the set of those whose edits are uncommitted, and a     *)
(* diff fingerprint is such a set, with `edited` for those whose bytes are *)
(* no longer the recorded ones.  A commit is the one who made it.  The     *)
(* owner fields of the lease file (host, pid, process start) are `holder`: *)
(* the live process they name, NoProcess once it has gone.  `facts` has    *)
(* the payload fields of a transaction's events that decisions read.  The  *)
(* materialization callback of complete, which only the resolution of a    *)
(* human gate passes, is not modelled here.                                *)
(***************************************************************************)
EXTENDS LedgerContract, FiniteSets

CONSTANTS
  Process,      \* controller processes
  Work,         \* ids of ordinary phase transactions
  MustChange,   \* those whose workflow may not finalize an empty diff
  Recovery,     \* ids of recovery transactions
  MaxCrashes,   \* bound on process deaths
  MaxDrift,     \* bound on the outsider's steps
  Outside,      \* the outsider: whoever else has the checkout open
  NoProcess, NoTxn, NoLease, NoDiff

Txn == Work \cup Recovery

Owner == Txn \cup {Outside}

ASSUME KernelConstants ==
  /\ Work \cap Recovery = {}
  /\ MustChange \subseteq Work
  /\ NoProcess \notin Process
  /\ Outside \notin Txn
  /\ NoTxn \notin Txn
  /\ NoLease \notin [txn : Txn, id : Nat]
  /\ \A d \in SUBSET Owner : NoDiff # d
  /\ MaxCrashes \in Nat /\ MaxDrift \in Nat

VARIABLES
  hist,       \* the event types recorded for each transaction
  seq,        \* the sequence of the last ledger record
  facts,      \* payload facts of each transaction
  commits,    \* the commits of the checked-out branch
  worktree,   \* whose edits are uncommitted
  lease,      \* the writer lease file, or NoLease
  holder,     \* the live process the lease file names, or NoProcess
  leaseId,    \* the last lease_id given out
  pc,         \* the next durable step of each process
  cur,        \* the transaction each process's kernel instance owns
  cached,     \* the ledger sequence the projection cache is bound to
  crashes,    \* process deaths so far
  drift,      \* the outsider's steps so far
  edited,     \* transactions whose path has other bytes than were recorded
  raced       \* those edited after the last comparison, before the commit

ledger == <<hist, seq, facts>>
repository == <<commits, worktree>>
leaseFile == <<lease, holder, leaseId>>
bounds == <<crashes, drift, edited, raced>>

kernelVars == <<ledger, repository, leaseFile, pc, cur, cached, bounds>>

LeaseRecord == [txn : Txn, id : Nat]

Facts ==
  [base : Nat, start : SUBSET Owner, recovered : Txn \cup {NoTxn},
   said : SUBSET Owner, seen : {NoDiff} \cup SUBSET Owner,
   verdict : {"pending", "success", "stop"},
   boundary : {NoDiff} \cup SUBSET Owner, commit : Nat]

NoFacts ==
  [base |-> 0, start |-> {}, recovered |-> NoTxn, said |-> {}, seen |-> NoDiff,
   verdict |-> "pending", boundary |-> NoDiff, commit |-> 0]

Tip == Len(commits)

Recorded(t, type) == Has(hist[t], type)

Ended(t) == Terminated(hist[t])

Incomplete == {t \in Txn : hist[t] # <<>> /\ ~Ended(t)}

\* transaction ids are fresh uuids: none is used twice
Fresh(t) == facts[t] = NoFacts

-----------------------------------------------------------------------------
(* The lease file. *)

\* revalidate: every bound field names this process and its transaction
Owns(p) == lease # NoLease /\ lease.txn = cur[p] /\ holder = p

\* acquire: exclusive creation
AcquireLease(p, t) ==
  /\ lease = NoLease
  /\ lease' = [txn |-> t, id |-> leaseId + 1]
  /\ leaseId' = leaseId + 1
  /\ holder' = p

-----------------------------------------------------------------------------
(* Steps of a kernel instance. *)

Goto(p, step) == pc' = [pc EXCEPT ![p] = step]

\* The command is over, or its process is: nobody stands behind its lease.
Exit(p) ==
  /\ pc' = [pc EXCEPT ![p] = "idle"]
  /\ cur' = [cur EXCEPT ![p] = NoTxn]
  /\ holder' = IF holder = p THEN NoProcess ELSE holder

\* The try blocks of begin and of RecoveryPlanner.apply release the lease.
Releases(p) ==
  \/ pc[p] \in {"leased", "taken"}
  \/ pc[p] \in {"started", "active"} /\ facts[cur[p]].recovered # NoTxn

\* _terminalize_handled_kernel_failure: the runner blocks its transaction
\* unless it has a final commit or a terminal event.  The runner of a
\* recovery, or of a resumed transaction, has no such handler.
Handled(p) ==
  /\ cur[p] \in Work /\ ~Recorded(cur[p], "RecoveryApplied")
  /\ pc[p] \in {"started", "active", "snapped", "launched", "resulted", "bounded",
                "validating", "rejected", "finalizing", "checked"}

Raise(p) ==
  IF Handled(p) /\ Owns(p)
  THEN Goto(p, "failing") /\ UNCHANGED <<cur, lease, holder>>
  ELSE /\ Exit(p)
       /\ lease' = IF Releases(p) /\ Owns(p) THEN NoLease ELSE lease

Admits(t, type) == ValidateAppend(hist[t], type)

Emit(t, type) ==
  /\ hist' = [hist EXCEPT ![t] = Append(@, type)]
  /\ seq' = seq + 1

\* One kernel call: check, append one event, go on; or raise.
Step(p, from, check, type, fact, to) ==
  /\ pc[p] = from
  /\ IF check /\ Admits(cur[p], type)
     THEN /\ Emit(cur[p], type)
          /\ facts' = [facts EXCEPT ![cur[p]] = fact]
          /\ Goto(p, to)
          /\ UNCHANGED <<cur, lease, holder>>
     ELSE /\ Raise(p)
          /\ UNCHANGED ledger
  /\ UNCHANGED <<repository, leaseId, cached, bounds>>

\* the checkout has the paths and the bytes the transaction started from
AsStarted(t) == worktree = facts[t].start /\ facts[t].start \cap edited = {}

\* _changed_paths: a recovery that started on someone's exact dirt observes
\* it and owns none of it.
ChangedPaths(t) ==
  IF t \in Recovery /\ AsStarted(t) /\ Tip = facts[t].base THEN {} ELSE worktree

\* an observed baseline may not vanish
BaselineKept(t) == worktree = {} => facts[t].start = {}

\* the mutation policy: only the transaction's own path
PathsAllowed(t) ==
  BaselineKept(t) /\ ChangedPaths(t) \subseteq (IF t \in Work THEN {t} ELSE {})

AtBase(t) == Tip = facts[t].base

-----------------------------------------------------------------------------
(* begin, up to _preacquire_lease.  The command has found nothing to       *)
(* recover, under the controller's reservation.                            *)
NothingToRecover == Incomplete = {} /\ cached = seq

Begin(p, t) ==
  /\ pc[p] = "idle"
  /\ t \in Work /\ Fresh(t)
  /\ NothingToRecover
  /\ worktree = {}
  /\ AcquireLease(p, t)
  /\ facts' = [facts EXCEPT ![t].base = Tip]
  /\ cur' = [cur EXCEPT ![p] = t]
  /\ Goto(p, "leased")
  /\ UNCHANGED <<hist, seq, repository, cached, bounds>>

\* begin after the lease: the repository is still the planned one
Start(p) ==
  Step(p, "leased", Owns(p) /\ AtBase(cur[p]) /\ worktree = {},
       "TransactionStarted", facts[cur[p]], "started")

AcquireLeaseRecorded(p) ==
  Step(p, "started", Owns(p), "LeaseAcquired", facts[cur[p]], "active")

CaptureSnapshot(p) ==
  Step(p, "active",
       Owns(p) /\ AtBase(cur[p]) /\ AsStarted(cur[p]),
       "SnapshotCaptured", facts[cur[p]], "snapped")

SessionLaunched(p) ==
  Step(p, "snapped", Owns(p), "SessionLaunched", facts[cur[p]], "launched")

\* The session of an ordinary phase edits the worktree.
SessionEdits(p) ==
  /\ pc[p] = "launched"
  /\ cur[p] \in Work /\ cur[p] \notin worktree
  /\ worktree' = worktree \cup {cur[p]}
  /\ UNCHANGED <<ledger, commits, leaseFile, pc, cur, cached, bounds>>

(* accept_result: HEAD has not moved.  The session says which paths it     *)
(* changed and whether it succeeded; neither is trusted yet.  The observed *)
(* diff is recorded only where it is the claimed one.                      *)
AcceptResult(p, said, verdict) ==
  LET t == cur[p] IN
  /\ said = {} \/ (said = {t} /\ t \in Work)
  /\ verdict = "success" \/ (verdict = "stop" /\ t \in Work)
  /\ Step(p, "launched", Owns(p) /\ AtBase(t) /\ BaselineKept(t),
          "SessionResultAccepted",
          [facts[t] EXCEPT !.said = said, !.verdict = verdict,
                           !.seen = IF said = ChangedPaths(t) THEN said ELSE NoDiff],
          "resulted")

(* record_file_mutation_boundary: once, and without the lease.             *)
RecordFileMutationBoundary(p) ==
  LET t == cur[p] IN
  /\ pc[p] = "resulted" /\ facts[t].verdict = "success"
  /\ Step(p, "resulted", ~Recorded(t, "ChangesDetected") /\ PathsAllowed(t),
          "ChangesDetected", [facts[t] EXCEPT !.boundary = ChangedPaths(t)], "bounded")

\* mutant: the boundary is compared by its paths
AtBoundaryByPath(t) == Recorded(t, "ChangesDetected") /\ ChangedPaths(t) = facts[t].boundary

\* _assert_durable_mutation_boundary
AtBoundary(t) ==
  /\ Recorded(t, "ChangesDetected")
  /\ ChangedPaths(t) = facts[t].boundary
  /\ t \notin edited

StartValidation(p) ==
  LET t == cur[p] IN
  Step(p, "bounded",
       /\ Owns(p) /\ AtBase(t) /\ PathsAllowed(t)
       /\ facts[t].said = ChangedPaths(t) /\ AtBoundary(t),
       "ValidationStarted", facts[t], "validating")

(* The commands and the semantic validator decide; a recovery runs none    *)
(* and its validator accepts it.                                           *)
PassValidation(p) ==
  Step(p, "validating", TRUE, "ValidationPassed", facts[cur[p]], "finalizing")

FailValidation(p) ==
  /\ pc[p] = "validating" /\ cur[p] \in Work
  /\ Step(p, "validating", TRUE, "ValidationFailed", facts[cur[p]], "rejected")

Rejected(p) ==
  /\ pc[p] = "rejected"
  /\ Raise(p)
  /\ UNCHANGED <<ledger, repository, leaseId, cached, bounds>>

Finalizable(p) ==
  LET t == cur[p] IN Owns(p) /\ AtBase(t) /\ PathsAllowed(t) /\ AtBoundary(t)

(* finalize without changes: the starting HEAD is the final commit.        *)
FinalizeUnchanged(p) ==
  LET t == cur[p] IN
  /\ pc[p] = "finalizing" /\ ~(Finalizable(p) /\ ChangedPaths(t) # {})
  /\ Step(p, "finalizing", Finalizable(p) /\ t \notin MustChange,
          "CommitFinalized", [facts[t] EXCEPT !.commit = facts[t].base], "finalized")

(* finalize with changes: check; git commit of exactly the checked paths;  *)
(* evidence; and only then is the worktree found to be clean or not.       *)
CheckDiff(p) ==
  /\ pc[p] = "finalizing" /\ Finalizable(p) /\ ChangedPaths(cur[p]) # {}
  /\ Goto(p, "checked")
  /\ UNCHANGED <<ledger, repository, leaseFile, cur, cached, bounds>>

GitCommit(p) ==
  LET t == cur[p] IN
  /\ pc[p] = "checked"
  /\ IF t \in worktree
     THEN /\ commits' = Append(commits, t)
          /\ worktree' = worktree \ {t}
          /\ Goto(p, "committed")
          /\ UNCHANGED <<cur, lease, holder>>
     ELSE Raise(p) /\ UNCHANGED repository
  /\ UNCHANGED <<ledger, leaseId, cached, bounds>>

\* the newest commit of t
CommitOf(t) ==
  CHOOSE i \in DOMAIN commits : commits[i] = t /\ \A j \in (i+1)..Tip : commits[j] # t

(* The commit is learnt by reading HEAD again after git commit: it may be  *)
(* one the outsider put on top meanwhile.                                  *)
RecordCommit(p, c) ==
  LET t == cur[p] IN
  /\ pc[p] = "committed" /\ c \in CommitOf(t)..Tip
  /\ Step(p, "committed", TRUE, "CommitFinalized", [facts[t] EXCEPT !.commit = c],
          IF worktree = {} THEN "finalized" ELSE "dirty")

\* mutant: an unclean checkout goes through the release tail
NotCleanReleased(p) ==
  /\ pc[p] = "dirty"
  /\ Goto(p, "released")
  /\ UNCHANGED <<ledger, repository, leaseFile, cur, cached, bounds>>

NotClean(p) ==
  /\ pc[p] = "dirty"
  /\ Raise(p)
  /\ UNCHANGED <<ledger, repository, leaseId, cached, bounds>>

(* _revalidate_terminal_repository: the checkout is the recorded result.   *)
TerminalRepository(p) ==
  LET f == facts[cur[p]] IN
  /\ Owns(p)
  /\ worktree = {} \/ (AsStarted(cur[p]) /\ AtBase(cur[p]))
  /\ Recorded(cur[p], "CommitFinalized")
  /\ Tip = f.commit
  /\ f.commit # f.base => commits[Tip] = cur[p]

CompleteTransaction(p) ==
  Step(p, "finalized", TerminalRepository(p), "TransactionCompleted",
       facts[cur[p]], "terminal")

Complete(p) == cur[p] \in Work /\ CompleteTransaction(p)

(* block: a non-success result, a handled failure, or the supersession of  *)
(* an interrupted transaction.                                             *)
Block(p, type) ==
  /\ \/ pc[p] = "resulted" /\ facts[cur[p]].verdict = "stop"
        /\ type \in TerminalEventTypes \ {"TransactionCompleted"}
     \/ pc[p] = "failing" /\ type = "TransactionBlocked"
     \/ pc[p] = "superseding" /\ type = "TransactionSuperseded"
  /\ Step(p, pc[p], Owns(p), type, facts[cur[p]], "terminal")

(* The tail complete and block share: remove the lease file if there is    *)
(* one, record that, record the projection, rebuild the cache.             *)
ReleaseLease(p) ==
  /\ pc[p] = "terminal"
  /\ IF Owns(p)
     THEN /\ lease' = NoLease /\ holder' = NoProcess
          /\ Goto(p, "unlinked") /\ UNCHANGED cur
     ELSE IF lease = NoLease
          THEN Goto(p, "released") /\ UNCHANGED <<cur, lease, holder>>
          ELSE Raise(p)
  /\ UNCHANGED <<ledger, repository, leaseId, cached, bounds>>

RecordRelease(p) ==
  Step(p, "unlinked", TRUE, "LeaseReleased", facts[cur[p]], "released")

RecordProjection(p) ==
  Step(p, "released", TRUE, "ProjectionUpdated", facts[cur[p]], "projected")

\* mutant: the projection is refused while a transaction is open
ProjectableWhenDone == Incomplete = {}

\* ProjectionEngine.rebuild refuses two open transactions
Projectable == Cardinality(Incomplete) <= 1

Rebuild(p, to) ==
  /\ pc[p] = "projected"
  /\ IF Projectable
     THEN /\ cached' = seq
          /\ Goto(p, to)
          /\ cur' = IF to = "idle" THEN [cur EXCEPT ![p] = NoTxn] ELSE cur
          /\ UNCHANGED <<lease, holder>>
     ELSE Raise(p) /\ UNCHANGED cached
  /\ UNCHANGED <<ledger, repository, leaseId, bounds>>

Finish(p) == cur[p] \in Work /\ Rebuild(p, "idle")

-----------------------------------------------------------------------------
(* The process dies. *)
Die(p) ==
  /\ pc[p] # "idle"
  /\ crashes < MaxCrashes
  /\ crashes' = crashes + 1
  /\ Exit(p)
  /\ UNCHANGED <<ledger, repository, lease, leaseId, cached, drift, edited, raced>>

(* The outsider commits, edits a path of their own, discards all edits, or *)
(* edits the uncommitted path of a transaction whose bytes are recorded.   *)
EditPath(t) ==
  /\ t \in worktree
  /\ Recorded(t, "ChangesDetected")   \* until then an edit is the session's
  /\ edited' = edited \cup {t}
  /\ raced' = raced \cup {u \in {t} : \E p \in Process : pc[p] = "checked" /\ cur[p] = u}

Drift ==
  /\ drift < MaxDrift
  /\ drift' = drift + 1
  /\ \/ commits' = Append(commits, Outside) /\ UNCHANGED <<worktree, edited, raced>>
     \/ worktree' = worktree \cup {Outside} /\ UNCHANGED <<commits, edited, raced>>
     \/ worktree' = {} /\ UNCHANGED <<commits, edited, raced>>
     \/ (\E t \in Work : EditPath(t)) /\ UNCHANGED repository
  /\ UNCHANGED <<ledger, leaseFile, pc, cur, cached, crashes>>

\* The repository has a commit of somebody's when the controller first runs.
Init ==
  /\ hist = [t \in Txn |-> <<>>]
  /\ seq = 0
  /\ facts = [t \in Txn |-> NoFacts]
  /\ commits = <<Outside>>
  /\ worktree = {}
  /\ lease = NoLease
  /\ holder = NoProcess
  /\ leaseId = 0
  /\ pc = [p \in Process |-> "idle"]
  /\ cur = [p \in Process |-> NoTxn]
  /\ cached = 0
  /\ crashes = 0
  /\ drift = 0
  /\ edited = {}
  /\ raced = {}

\* What any kernel instance does next, whoever drives it.
KernelStep(p) ==
  \/ AcquireLeaseRecorded(p)
  \/ CaptureSnapshot(p)
  \/ SessionLaunched(p)
  \/ SessionEdits(p)
  \/ \E said \in SUBSET {cur[p]}, verdict \in {"success", "stop"} :
        AcceptResult(p, said, verdict)
  \/ RecordFileMutationBoundary(p)
  \/ StartValidation(p)
  \/ PassValidation(p)
  \/ FailValidation(p)
  \/ Rejected(p)
  \/ FinalizeUnchanged(p)
  \/ CheckDiff(p)
  \/ GitCommit(p)
  \/ \E c \in DOMAIN commits : RecordCommit(p, c)
  \/ NotClean(p)
  \/ \E type \in TerminalEventTypes : Block(p, type)
  \/ ReleaseLease(p)
  \/ RecordRelease(p)
  \/ RecordProjection(p)

RunnerStep(p) ==
  \/ \E t \in Work : Begin(p, t)
  \/ Start(p)
  \/ KernelStep(p)
  \/ Complete(p)
  \/ Finish(p)

Next == Drift \/ \E p \in Process : RunnerStep(p) \/ Die(p)

Spec == Init /\ [][Next]_kernelVars

-----------------------------------------------------------------------------
Steps ==
  {"idle", "leased", "started", "active", "snapped", "launched", "resulted",
   "bounded", "validating", "rejected", "failing", "finalizing", "checked",
   "committed", "dirty", "finalized", "superseding", "terminal", "unlinked",
   "released", "projected"}

RecoverySteps ==
  {"planned", "proved", "archived", "direct", "taken", "reacquire", "rebound"}

TypeOK ==
  /\ hist \in [Txn -> Seq(EventTypes)]
  /\ seq \in Nat
  /\ facts \in [Txn -> Facts]
  /\ commits \in Seq(Owner)
  /\ worktree \in SUBSET Owner
  /\ lease \in LeaseRecord \cup {NoLease}
  /\ holder \in Process \cup {NoProcess}
  /\ leaseId \in Nat
  /\ pc \in [Process -> Steps \cup RecoverySteps]
  /\ cur \in [Process -> Txn \cup {NoTxn}]
  /\ cached \in Nat
  /\ crashes \in 0..MaxCrashes
  /\ drift \in 0..MaxDrift
  /\ edited \in SUBSET Work
  /\ raced \in SUBSET edited

(* Every history the kernel writes is one that read() accepts: the weaker  *)
(* check an append makes never lets the ledger become CORRUPT_EVIDENCE.    *)
LedgerStaysValid == \A t \in Txn : ValidateHistory(hist[t])

(* A completed transaction has the effect it claims: its recorded commit   *)
(* is its own and is on the branch, or it changed nothing.                 *)
CompletedMeansCommitted ==
  \A t \in Txn :
     Recorded(t, "TransactionCompleted") =>
        LET c == facts[t].commit IN
        /\ c \in DOMAIN commits
        /\ \/ commits[c] = t
           \/ c = facts[t].base /\ \A i \in DOMAIN commits : commits[i] # t

(* Nothing reaches the branch unvalidated: whatever the session said, a    *)
(* commit of t means its result was accepted and its validation passed,    *)
(* and its bytes are the recorded ones unless they were edited after the   *)
(* last comparison and before git commit, which looks at paths only.       *)
CommitsAreValidated ==
  \A i \in DOMAIN commits :
     commits[i] # Outside =>
        /\ Recorded(commits[i], "ValidationPassed")
        /\ facts[commits[i]].said = {commits[i]}
        /\ facts[commits[i]].verdict = "success"
        /\ commits[i] \in edited => commits[i] \in raced
=============================================================================
