------------------------ MODULE PlanningTransaction ------------------------
(***************************************************************************)
(* A planning result: the session that reconciles the feature queue, the   *)
(* controller's validation and commit of what it wrote, and the            *)
(* deterministic recovery of a result whose transaction failed.  The       *)
(* recovery either commits the retained diff, completing a missing         *)
(* execution policy first, or adopts the commit that is already there.  A  *)
(* project that has no ledger yet is recovered from the planning file      *)
(* alone.                                                                  *)
(*                                                                         *)
(* A work tree is an edition of the planning documents, what its queue     *)
(* says, and whether there is a path outside the planning policy.  "Ready" *)
(* is one newly ready feature with its execution policy, "unbound" one     *)
(* without it; "blocked" stands for every classification but ready work    *)
(* and no ready work.  A feature that was ready before needs no policy,    *)
(* and is not among them.                                                  *)
(***************************************************************************)
EXTENDS Naturals, Sequences, FiniteSets

CONSTANTS
  Process,
  MaxEdition,        \* bound on editions of the planning documents
  MaxTransactions,   \* bound on the ledger when a session begins
  MaxDrifts,         \* bound on edits by another user of the checkout
  MaxDeaths,         \* bound on process deaths
  NoProcess

ASSUME PlanningConstants ==
  /\ MaxEdition \in Nat \ {0}
  /\ MaxTransactions \in Nat \ {0}
  /\ NoProcess \notin Process

Edition == 0..MaxEdition
Queue == {"idle", "blocked", "ready", "unbound"}
Said == {"ready", "idle", "blocked"}

VARIABLES
  tree,         \* the work tree of the milestone branch
  head,         \* the branch head: how many commits, and their content
  txns,         \* the transactions in the ledger, each with its planning file
  open,         \* the one that is open, with the writer lease; 0 is none
  proj,         \* the projection: state, starting commit of the ready feature
  legacy,       \* the planning file of a project without a ledger
  reservation,  \* the controller reservation
  pc, plan,     \* each process: next step, and what it has read
  drifts,
  raced,        \* history: the transactions whose tree was edited past its last comparison
  deaths

vars == <<tree, head, txns, open, proj, legacy, reservation, pc, plan, drifts, raced, deaths>>

Committed == [edition |-> head.edition, queue |-> head.queue, extra |-> "none"]

Clean == tree = Committed

\* git has something to commit in the planning paths
Edited == tree.edition # head.edition \/ tree.queue # head.queue

Goto(p, step) == pc' = [pc EXCEPT ![p] = step]

NoPlan == [start |-> 0, said |-> "idle", warned |-> FALSE, origin |-> 0, ledger |-> 0, commit |-> 0,
           tree |-> [edition |-> 0, queue |-> "idle", extra |-> "none"]]

\* the finally clause
Leave(p) ==
  /\ Goto(p, "idle")
  /\ plan' = [plan EXCEPT ![p] = NoPlan]
  /\ reservation' = IF reservation = p THEN NoProcess ELSE reservation

-----------------------------------------------------------------------------
(* What the validators look at.                                            *)

\* _selected_feature_evidence: only ready and no ready work are compared
Says(said, queue) ==
  CASE said = "ready" -> queue \in {"ready", "unbound"}
    [] said = "idle" -> queue \in {"idle", "blocked"}
    [] OTHER -> TRUE

\* FeatureQueue.reconciliation_classification
Derived(queue) == IF queue = "unbound" THEN "ready" ELSE queue

\* mutant: a newly ready feature needs no execution policy
ValidUnbound(t, start, said) ==
  head.commit = start /\ ~Clean /\ t.extra = "none" /\ Says(said, t.queue)

\* validate_planning_changes: the head, the paths, the queue and the policies
\* of newly ready features
Valid(t, start, said) ==
  /\ head.commit = start
  /\ ~Clean /\ t.extra = "none"
  /\ Says(said, t.queue) /\ t.queue # "unbound"

\* validate_planning_noop
ValidNoop(start, said) == head.commit = start /\ Clean /\ Says(said, tree.queue)

\* apply_new_ready_execution_policy_completion
Completed(t) == IF t.queue = "unbound" THEN [t EXCEPT !.queue = "ready"] ELSE t

-----------------------------------------------------------------------------
(* Transactions.  left is the diff the planning file, or the controller's  *)
(* normalization checkpoint, binds; end is the terminal snapshot.          *)

Begin(mode, origin, base) ==
  /\ txns' = Append(txns, [mode |-> mode, origin |-> origin, base |-> base, said |-> "idle",
                           left |-> tree, end |-> tree, error |-> "none", accepted |-> FALSE,
                           launched |-> FALSE, commit |-> 0, file |-> "started",
                           outcome |-> "open"])
  /\ open' = Len(txns) + 1

\* mutant: the lease is kept
EndKeepingLease(t, outcome, state, start) ==
  /\ txns' = [txns EXCEPT ![open] = [t EXCEPT !.outcome = outcome, !.end = tree]]
  /\ open' = open
  /\ proj' = [state |-> state, start |-> start]

\* TransactionBlocked or TransactionCompleted, the lease released and the
\* projection, for a record t of the transaction
End(t, outcome, state, start) ==
  /\ txns' = [txns EXCEPT ![open] = [t EXCEPT !.outcome = outcome, !.end = tree]]
  /\ open' = 0
  /\ proj' = [state |-> state, start |-> start]

\* the except clause of the session: the planning file, then the block
FailValidation(p, error) ==
  /\ End([txns[open] EXCEPT !.error = error, !.file = "failed"],
         "validation_failed", "validation_failed", 0)
  /\ Leave(p)
  /\ UNCHANGED <<tree, head, legacy, drifts, raced, deaths>>

Commit == head' = [commit |-> head.commit + 1, edition |-> tree.edition, queue |-> tree.queue]

-----------------------------------------------------------------------------
(* The planning session.  No command reaches it at this commit: the tests  *)
(* call _execute_queue_reconciliation, and ledgers of earlier controllers  *)
(* hold what it left.                                                      *)

\* capture_planning_start, before the reservation
Capture(p) ==
  /\ pc[p] = "idle" /\ legacy.status = "absent"
  /\ Len(txns) < MaxTransactions
  /\ Clean
  /\ plan' = [plan EXCEPT ![p] = [NoPlan EXCEPT !.start = head.commit]]
  /\ Goto(p, "captured")
  /\ UNCHANGED <<tree, head, txns, open, proj, legacy, reservation, drifts, raced, deaths>>

Reserve(p) ==
  /\ pc[p] = "captured"
  /\ IF reservation = NoProcess
     THEN reservation' = p /\ Goto(p, "reserved") /\ UNCHANGED plan
     ELSE Leave(p)
  /\ UNCHANGED <<tree, head, txns, open, proj, legacy, drifts, raced, deaths>>

\* _validate_projected_dispatch, kernel.begin, the lease and the snapshot
BeginSession(p) ==
  /\ pc[p] = "reserved"
  /\ IF open = 0 /\ Clean /\ proj.state = "queue_reconciliation"
     THEN /\ Begin("session", 0, head.commit)
          /\ Goto(p, "begun")
          /\ UNCHANGED <<reservation, plan>>
     ELSE Leave(p) /\ UNCHANGED <<txns, open>>
  /\ UNCHANGED <<tree, head, proj, legacy, drifts, raced, deaths>>

\* the launch returns no session: the handled failure
LaunchFails(p) ==
  /\ pc[p] = "begun"
  /\ End(txns[open], "validation_failed", "validation_failed", 0)
  /\ Leave(p)
  /\ UNCHANGED <<tree, head, legacy, drifts, raced, deaths>>

\* the session writes, returns, and the planning file becomes pending; the
\* inventory validator may have warnings about it, which are not fatal
RunSession(p) ==
  /\ pc[p] = "begun"
  /\ \E t \in [edition : Edition \ {0}, queue : Queue, extra : {"none"}] \cup {tree},
        s \in Said, w \in BOOLEAN :
       /\ tree' = t
       /\ txns' = [txns EXCEPT ![open].left = t, ![open].said = s,
                               ![open].launched = TRUE, ![open].file = "pending"]
       /\ plan' = [plan EXCEPT ![p].said = s, ![p].warned = w]
  /\ Goto(p, "returned")
  /\ UNCHANGED <<head, open, proj, legacy, reservation, drifts, raced, deaths>>

\* a failed session, or an envelope that is not valid: "alias" is one whose
\* legacy names the recovery can corroborate
SessionFails(p) ==
  /\ pc[p] = "returned"
  /\ \E e \in {"alias", "other"} :
       End([txns[open] EXCEPT !.error = e, !.file = "terminal"],
           "retryable", "validation_failed", 0)
  /\ Leave(p)
  /\ UNCHANGED <<tree, head, legacy, drifts, raced, deaths>>

\* invalid_queue and human_decision_required: accepted, then blocked; the
\* compatibility gate is blocked without an accepted result
SessionBlocks(p) ==
  /\ pc[p] = "returned"
  /\ \/ End([txns[open] EXCEPT !.accepted = TRUE, !.file = "failed", !.error = "other"],
            "validation_failed", "validation_failed", 0)
     \/ End([txns[open] EXCEPT !.accepted = TRUE, !.file = "human"],
            "human", "human_decision_required", 0)
     \/ End([txns[open] EXCEPT !.file = "terminal"], "human", "human_decision_required", 0)
  /\ Leave(p)
  /\ UNCHANGED <<tree, head, legacy, drifts, raced, deaths>>

\* The one missing policy is completed in the work tree, and a checkpoint
\* binds the diff; everything else is validated before.
CompletePolicy(p) ==
  /\ pc[p] = "returned"
  /\ plan[p].said = "ready" /\ tree.queue = "unbound"
  /\ Valid(Completed(tree), plan[p].start, "ready")
  /\ tree' = Completed(tree)
  /\ txns' = [txns EXCEPT ![open].left = Completed(tree)]
  /\ Goto(p, "normalized")
  /\ UNCHANGED <<head, open, proj, legacy, reservation, plan, drifts, raced, deaths>>

\* the first validation, or the one after the policy was completed
ValidateSession(p) ==
  /\ pc[p] \in {"returned", "normalized"}
  /\ Valid(tree, plan[p].start, plan[p].said) \/ ValidNoop(plan[p].start, plan[p].said)
  /\ Goto(p, "validated")
  /\ UNCHANGED <<tree, head, txns, open, proj, legacy, reservation, plan, drifts, raced, deaths>>

\* "warnings" stands for the failures a recovery knows how to settle
ValidationFails(p) ==
  /\ pc[p] \in {"returned", "normalized", "validated"}
  /\ \/ FailValidation(p, "other")
     \/ tree.queue # "unbound" /\ pc[p] # "validated" /\ FailValidation(p, "warnings")

\* The paths, not the bytes, are those of the session (accept_result,
\* record_file_mutation_boundary, kernel.validate).
SessionPaths ==
  tree.extra = "none" /\ head.commit = txns[open].base /\ (Clean <=> txns[open].left = Committed)

\* mutant: the planning file says committed before the commit is made
AcceptResultCommitted(p) ==
  /\ pc[p] = "validated"
  /\ SessionPaths
  /\ txns' = [txns EXCEPT ![open].accepted = TRUE, ![open].file = "committed"]
  /\ plan' = [plan EXCEPT ![p].tree = tree]
  /\ Goto(p, "accepted")
  /\ UNCHANGED <<tree, head, open, proj, legacy, reservation, drifts, raced, deaths>>

AcceptResult(p) ==
  /\ pc[p] = "validated"
  /\ SessionPaths
  /\ txns' = [txns EXCEPT ![open].accepted = TRUE]
  /\ plan' = [plan EXCEPT ![p].tree = tree]
  /\ Goto(p, "accepted")
  /\ UNCHANGED <<tree, head, open, proj, legacy, reservation, drifts, raced, deaths>>

\* kernel.finalize: the bytes are still those of the boundary
CompareSession(p) ==
  /\ pc[p] = "accepted"
  /\ tree = plan[p].tree
  /\ IF Clean
     THEN txns' = [txns EXCEPT ![open].commit = head.commit] /\ Goto(p, "finalized")
     ELSE Goto(p, "finalizing") /\ UNCHANGED txns
  /\ UNCHANGED <<tree, head, open, proj, legacy, reservation, plan, drifts, raced, deaths>>

\* git add and git commit of the paths, whatever they hold by now
CommitSession(p) ==
  /\ pc[p] = "finalizing" /\ Edited
  /\ Commit
  /\ txns' = [txns EXCEPT ![open].commit = head'.commit]
  /\ Goto(p, "finalized")
  /\ UNCHANGED <<tree, open, proj, legacy, reservation, plan, drifts, raced, deaths>>

\* a check of the kernel, or git, fails
FinalizeFails(p) == pc[p] \in {"accepted", "finalizing"} /\ FailValidation(p, "other")

\* the planning file, after a commit that left a clean tree
PersistCommitted(p) ==
  /\ pc[p] = "finalized"
  /\ txns[open].commit = txns[open].base \/ Clean
  /\ txns' = [txns EXCEPT ![open].file =
                IF txns[open].commit = txns[open].base THEN "no_changes" ELSE "committed"]
  /\ Goto(p, "persisted")
  /\ UNCHANGED <<tree, head, open, proj, legacy, reservation, plan, drifts, raced, deaths>>

PersistFails(p) == pc[p] = "finalized" /\ FailValidation(p, "other")

\* The session's evidence agreed with the inventory's in the validation; now
\* it is compared with the queue's alone, which has no warnings.
EvidenceAgrees(p) == ~plan[p].warned

\* The queue is read again: the result, or its evidence, disagrees with it.
Conflict(p) ==
  /\ pc[p] = "persisted"
  /\ Derived(tree.queue) # plan[p].said \/ ~EvidenceAgrees(p)
  /\ End(txns[open], "conflict", "validation_failed", 0)
  /\ Leave(p)
  /\ UNCHANGED <<tree, head, legacy, drifts, raced, deaths>>

\* kernel.complete, which wants a clean tree; when it refuses, nothing is
\* blocked any more: there is a final commit
CompleteSession(p) ==
  /\ pc[p] = "persisted"
  /\ Derived(tree.queue) = plan[p].said /\ EvidenceAgrees(p)
  /\ IF Clean
     THEN End(txns[open], "completed",
              IF plan[p].said = "ready" THEN "feature_ready" ELSE "paused",
              IF plan[p].said = "ready" THEN txns[open].commit ELSE 0)
     ELSE UNCHANGED <<txns, open, proj>>
  /\ Leave(p)
  /\ UNCHANGED <<tree, head, legacy, drifts, raced, deaths>>

-----------------------------------------------------------------------------
(* What a recovery authenticates.  The latest transaction must be the      *)
(* failed planning transaction itself.                                     *)

\* an invalid envelope whose legacy names the controller's own identities
\* corroborate
Corroborated(t) == t.outcome = "retryable" /\ t.error = "alias"

\* a newly ready feature without its policy, as the session's roles left it
PolicyMissing(t) == t.outcome = "validation_failed" /\ t.error = "policy"

\* warnings only, counts only, or a readiness check that is obsolete
Recoverable(t) ==
  \/ t.outcome = "validation_failed" /\ t.error = "warnings"
  \/ PolicyMissing(t) \/ Corroborated(t)

\* the events of a transaction that ended before its result was accepted
RetainedTopology(t) == t.launched /\ ~t.accepted /\ t.commit = 0

\* The tree is the terminal snapshot, and the diff that the planning file or
\* a checkpoint of the controller binds.
Bound(t) == tree = t.end /\ tree = t.left

\* what is retained still validates, with the policy that is to be completed
Selectable(t) ==
  /\ (tree.queue = "unbound") <=> PolicyMissing(t)
  /\ Valid(Completed(tree), t.base, t.said)

DirtyAuthentic(t) == RetainedTopology(t) /\ Recoverable(t) /\ Bound(t) /\ Selectable(t)

\* a commit that was blocked only by the comparison after it
CommittedAuthentic(t) ==
  /\ t.outcome = "conflict" /\ t.said = "ready" /\ t.file = "committed"
  /\ head.commit = t.commit /\ Clean
  /\ head.queue = "ready"

\* no writer lease, no reservation but the recovery's own
Authentic(p, o) ==
  /\ o # 0 /\ o = Len(txns) /\ txns[o].mode = "session"
  /\ open = 0 /\ reservation \in {NoProcess, p}
  /\ proj.state = "validation_failed"
  /\ DirtyAuthentic(txns[o]) \/ CommittedAuthentic(txns[o])

\* resume, or recover-planning: the plan and its fingerprint
PlanRecovery(p) ==
  /\ pc[p] = "idle" /\ Authentic(p, Len(txns))
  /\ plan' = [plan EXCEPT ![p] = [NoPlan EXCEPT !.origin = Len(txns), !.ledger = Len(txns),
                                                !.tree = tree, !.start = head.commit,
                                                !.commit = txns[Len(txns)].commit]]
  /\ Goto(p, "planned")
  /\ UNCHANGED <<tree, head, txns, open, proj, legacy, reservation, drifts, raced, deaths>>

ReserveRecovery(p) ==
  /\ pc[p] = "planned"
  /\ IF reservation = NoProcess
     THEN reservation' = p /\ Goto(p, "reserved_recovery") /\ UNCHANGED plan
     ELSE Leave(p)
  /\ UNCHANGED <<tree, head, txns, open, proj, legacy, drifts, raced, deaths>>

\* the plan made again under the reservation has the same fingerprint
Unchanged(p) ==
  Authentic(p, plan[p].origin) /\ Len(txns) = plan[p].ledger /\ tree = plan[p].tree

\* mutant: the plan is not made again
RevalidateNothing(p) ==
  /\ pc[p] = "reserved_recovery"
  /\ Goto(p, "verified") /\ UNCHANGED <<reservation, plan>>
  /\ UNCHANGED <<tree, head, txns, open, proj, legacy, drifts, raced, deaths>>

Revalidate(p) ==
  /\ pc[p] = "reserved_recovery"
  /\ IF Unchanged(p)
     THEN Goto(p, "verified") /\ UNCHANGED <<reservation, plan>>
     ELSE Leave(p)
  /\ UNCHANGED <<tree, head, txns, open, proj, legacy, drifts, raced, deaths>>

\* kernel.begin at the planned head; only the adoption of a commit asks for
\* a clean tree.  The compatibility preflight before it may refuse.
MayBegin(p) ==
  open = 0 /\ head.commit = plan[p].start /\ (plan[p].commit # 0 => Clean)

BeginRecovery(p) ==
  /\ pc[p] = "verified"
  /\ IF MayBegin(p)
     THEN /\ Begin("recovery", plan[p].origin, head.commit)
          /\ Goto(p, IF plan[p].commit # 0 THEN "adopt" ELSE "complete_policy")
          /\ UNCHANGED <<reservation, plan>>
     ELSE Leave(p) /\ UNCHANGED <<txns, open>>
  /\ UNCHANGED <<tree, head, proj, legacy, drifts, raced, deaths>>

\* the policy is completed if the tree is still the one that was planned
CompletePolicyInRecovery(p) ==
  /\ pc[p] = "complete_policy"
  /\ tree.queue = "unbound" => tree = plan[p].tree
  /\ tree' = Completed(tree)
  /\ Goto(p, "finalize")
  /\ UNCHANGED <<head, txns, open, proj, legacy, reservation, plan, drifts, raced, deaths>>

\* the diff is the planned one, and the snapshot at the beginning was
Retained(p) ==
  /\ tree = Completed(plan[p].tree)
  /\ txns[open].left = plan[p].tree
  /\ head.commit = txns[open].base

\* mutant: the diff is compared with nothing
CompareRetainedNot(p) ==
  /\ pc[p] = "finalize" /\ tree.extra = "none"
  /\ Goto(p, "committing")
  /\ UNCHANGED <<tree, head, txns, open, proj, legacy, reservation, plan, drifts, raced, deaths>>

\* validate_planning_changes, and the comparisons that begin
\* finalize_deterministic_planning_recovery; five events follow
CompareRetained(p) ==
  /\ pc[p] = "finalize" /\ Retained(p)
  /\ Goto(p, "committing")
  /\ UNCHANGED <<tree, head, txns, open, proj, legacy, reservation, plan, drifts, raced, deaths>>

\* only the paths are compared any more
CommitRetained(p) ==
  /\ pc[p] = "committing" /\ Edited
  /\ Commit
  /\ Goto(p, "recovery_commit")
  /\ UNCHANGED <<tree, txns, open, proj, legacy, reservation, plan, drifts, raced, deaths>>

\* one exact clean commit: CommitFinalized, RecoveryApplied
ConfirmRecovery(p) ==
  /\ pc[p] = "recovery_commit" /\ Clean
  /\ txns' = [txns EXCEPT ![open].commit = head.commit]
  /\ Goto(p, "complete_recovery")
  /\ UNCHANGED <<tree, head, open, proj, legacy, reservation, plan, drifts, raced, deaths>>

\* adopt_committed_planning_recovery
AdoptCommit(p) ==
  /\ pc[p] = "adopt"
  /\ head.commit = plan[p].commit /\ Clean
  /\ txns' = [txns EXCEPT ![open].commit = head.commit]
  /\ Goto(p, "complete_recovery")
  /\ UNCHANGED <<tree, head, open, proj, legacy, reservation, plan, drifts, raced, deaths>>

\* A check fails: the terminal recovery failure, which no command recovers
\* (but for one transaction that the code names).  A policy that was completed
\* stays in the tree, and a commit that left it unclean on the branch.
RecoveryFails(p) ==
  /\ pc[p] \in {"complete_policy", "finalize", "committing", "recovery_commit", "adopt"}
  /\ End(txns[open], "recovery_failed", "human_decision_required", 0)
  /\ Leave(p)
  /\ UNCHANGED <<tree, head, legacy, drifts, raced, deaths>>

\* the state that the plan predicted, with the starting commit
RecoveredState(queue) == IF queue = "ready" THEN "feature_ready" ELSE "paused"

CompleteRecovery(p) ==
  /\ pc[p] = "complete_recovery"
  /\ IF Clean
     THEN LET queue == Completed(plan[p].tree).queue IN
          End(txns[open], "applied", RecoveredState(queue),
              IF queue = "ready" THEN txns[open].commit ELSE 0)
     ELSE UNCHANGED <<txns, open, proj>>
  /\ Leave(p)
  /\ UNCHANGED <<tree, head, legacy, drifts, raced, deaths>>

-----------------------------------------------------------------------------
(* recover-planning without a ledger: the operator names the recorded      *)
(* head and diff, the file is "committing" around the commit, and the      *)
(* project document, whose first write begins a ledger, comes after it.    *)

\* loaded before anything is validated or reserved; a file that says
\* committed is only reported
LegacyLoad(p) ==
  /\ pc[p] = "idle" /\ legacy.status \notin {"absent", "committed"} /\ ~legacy.ledger
  /\ IF legacy.status = "committing" /\ Clean /\ head.commit = 1
     THEN legacy' = [legacy EXCEPT !.status = "committed"] /\ Goto(p, "legacy_adopted")
     ELSE Goto(p, "legacy_loaded") /\ UNCHANGED legacy
  /\ UNCHANGED <<tree, head, txns, open, proj, reservation, plan, drifts, raced, deaths>>

\* what was recorded
Recorded == [edition |-> legacy.edition, queue |-> "ready", extra |-> "none"]

\* what does not validate is a planning_recovery_gate in the file
LegacyValidate(p) ==
  /\ pc[p] = "legacy_loaded"
  /\ IF Valid(tree, 0, "ready") /\ tree = Recorded
     THEN Goto(p, "legacy_valid") /\ UNCHANGED legacy
     ELSE Goto(p, "legacy_gated") /\ legacy' = [legacy EXCEPT !.status = "gate"]
  /\ UNCHANGED <<tree, head, txns, open, proj, reservation, plan, drifts, raced, deaths>>

LegacyReserve(p) ==
  /\ pc[p] = "legacy_valid"
  /\ IF reservation = NoProcess
     THEN /\ reservation' = p /\ Goto(p, "legacy_committing")
          /\ legacy' = [legacy EXCEPT !.status = "committing"]
          /\ UNCHANGED plan
     ELSE Leave(p) /\ UNCHANGED legacy
  /\ UNCHANGED <<tree, head, txns, open, proj, drifts, raced, deaths>>

\* mutant: the head and the diff are those of the moment
LegacyCompareNot(p) ==
  /\ pc[p] = "legacy_committing"
  /\ Goto(p, "legacy_compared")
  /\ UNCHANGED <<reservation, plan>>
  /\ UNCHANGED <<tree, head, txns, open, proj, legacy, drifts, raced, deaths>>

\* finalize_planning_commit: the validated head and diff
LegacyCompare(p) ==
  /\ pc[p] = "legacy_committing"
  /\ IF head.commit = 0 /\ tree = Recorded
     THEN Goto(p, "legacy_compared") /\ UNCHANGED <<reservation, plan>>
     ELSE Leave(p)
  /\ UNCHANGED <<tree, head, txns, open, proj, legacy, drifts, raced, deaths>>

LegacyFinalize(p) ==
  /\ pc[p] = "legacy_compared"
  /\ IF Edited
     THEN Commit /\ Goto(p, "legacy_committed") /\ UNCHANGED <<reservation, plan>>
     ELSE Leave(p) /\ UNCHANGED head
  /\ UNCHANGED <<tree, txns, open, proj, legacy, drifts, raced, deaths>>

\* an unclean tree is an error, and the file stays "committing"
LegacyPersist(p) ==
  /\ pc[p] = "legacy_committed"
  /\ IF Clean
     THEN /\ legacy' = [legacy EXCEPT !.status = "committed"]
          /\ Goto(p, "legacy_persisted") /\ UNCHANGED <<reservation, plan>>
     ELSE Leave(p) /\ UNCHANGED legacy
  /\ UNCHANGED <<tree, head, txns, open, proj, drifts, raced, deaths>>

ToProject == {"legacy_adopted", "legacy_persisted", "legacy_gated"}

\* _transition_project, through the adapter that begins the ledger; only the
\* first commit's own command projects where the feature starts
LegacyProject(p) ==
  /\ pc[p] \in ToProject
  /\ legacy' = [legacy EXCEPT !.ledger = TRUE]
  /\ proj' = [state |-> IF pc[p] = "legacy_gated" THEN "validation_failed" ELSE "feature_ready",
              start |-> IF pc[p] = "legacy_persisted" THEN head.commit ELSE proj.start]
  /\ Leave(p)
  /\ UNCHANGED <<tree, head, txns, open, drifts, raced, deaths>>

\* The document does not allow the transition, another's is open, or the
\* process ends here: a repeated command does not make up for it.
LegacyProjectFails(p) ==
  /\ pc[p] \in ToProject
  /\ \E began \in BOOLEAN : legacy' = [legacy EXCEPT !.ledger = @ \/ began]
  /\ Leave(p)
  /\ UNCHANGED <<tree, head, txns, open, proj, drifts, raced, deaths>>

-----------------------------------------------------------------------------
(* The environment.                                                        *)

\* the bytes were compared for the last time, and the commit is not made
PastComparison == {"validated", "finalizing", "committing", "legacy_compared"}

\* another user edits the documents, takes the feature or its policy back, or
\* adds a path
Drift ==
  /\ drifts < MaxDrifts
  /\ drifts' = drifts + 1
  /\ \/ \E e \in Edition : e # tree.edition /\ tree' = [tree EXCEPT !.edition = e]
     \/ tree.queue # "idle" /\ tree' = [tree EXCEPT !.queue = "idle"]
     \/ tree.queue = "ready" /\ tree' = [tree EXCEPT !.queue = "unbound"]
     \/ tree.extra = "none" /\ tree' = [tree EXCEPT !.extra = "foreign"]
  /\ raced' = IF \E p \in Process : pc[p] \in PastComparison THEN raced \cup {open} ELSE raced
  /\ UNCHANGED <<head, txns, open, proj, legacy, reservation, pc, plan, deaths>>

\* the reservation, the lease and the transaction stay behind
Die(p) ==
  /\ deaths < MaxDeaths /\ reservation = p
  /\ deaths' = deaths + 1
  /\ Goto(p, "dead")
  /\ plan' = [plan EXCEPT ![p] = NoPlan]
  /\ UNCHANGED <<tree, head, txns, open, proj, legacy, reservation, drifts, raced>>

\* the ready feature is integrated, or a gate passed: the queue is reconciled again
NextRound ==
  /\ open = 0 /\ reservation = NoProcess /\ Clean /\ legacy.status = "absent"
  /\ proj.state \in {"feature_ready", "paused"}
  /\ head.commit <= MaxTransactions
  /\ head' = [head EXCEPT !.commit = @ + 1, !.queue = "idle"]
  /\ tree' = [tree EXCEPT !.queue = "idle"]
  /\ proj' = [state |-> "queue_reconciliation", start |-> 0]
  /\ UNCHANGED <<txns, open, legacy, reservation, pc, plan, drifts, raced, deaths>>

-----------------------------------------------------------------------------
NoLegacy == [status |-> "absent", edition |-> 0, ledger |-> FALSE]
Unready == [edition |-> 0, queue |-> "idle", extra |-> "none"]
Unbound == [edition |-> 1, queue |-> "unbound", extra |-> "none"]

\* an empty ledger
InitEmpty ==
  /\ tree = Unready /\ txns = <<>> /\ legacy = NoLegacy
  /\ proj = [state |-> "queue_reconciliation", start |-> 0]

\* the failed transaction of a controller that knew no policy completion
InitPolicyFailed ==
  /\ tree = Unbound /\ legacy = NoLegacy
  /\ txns = <<[mode |-> "session", origin |-> 0, base |-> 0, said |-> "ready", left |-> Unbound,
               end |-> Unbound, error |-> "policy", accepted |-> FALSE, launched |-> TRUE,
               commit |-> 0, file |-> "failed", outcome |-> "validation_failed"]>>
  /\ proj = [state |-> "validation_failed", start |-> 0]

\* a planning file, and no ledger
InitLegacy ==
  /\ tree = [edition |-> 1, queue |-> "ready", extra |-> "none"]
  /\ txns = <<>>
  /\ legacy = [status |-> "recorded", edition |-> 1, ledger |-> FALSE]
  /\ proj = [state |-> "queue_reconciliation", start |-> 0]

Init ==
  /\ head = [commit |-> 0, edition |-> 0, queue |-> "idle"]
  /\ open = 0 /\ reservation = NoProcess
  /\ pc = [p \in Process |-> "idle"]
  /\ plan = [p \in Process |-> NoPlan]
  /\ drifts = 0 /\ raced = {} /\ deaths = 0
  /\ InitEmpty \/ InitPolicyFailed \/ InitLegacy

Session(p) ==
  \/ Capture(p) \/ Reserve(p) \/ BeginSession(p) \/ LaunchFails(p) \/ RunSession(p)
  \/ SessionFails(p) \/ SessionBlocks(p) \/ CompletePolicy(p) \/ ValidateSession(p)
  \/ ValidationFails(p) \/ AcceptResult(p) \/ CompareSession(p) \/ CommitSession(p)
  \/ FinalizeFails(p) \/ PersistCommitted(p) \/ PersistFails(p) \/ Conflict(p) \/ CompleteSession(p)

Recover(p) ==
  \/ PlanRecovery(p) \/ ReserveRecovery(p) \/ Revalidate(p) \/ BeginRecovery(p)
  \/ CompletePolicyInRecovery(p) \/ CompareRetained(p) \/ CommitRetained(p)
  \/ ConfirmRecovery(p) \/ AdoptCommit(p) \/ RecoveryFails(p) \/ CompleteRecovery(p)

RecoverLegacy(p) ==
  \/ LegacyLoad(p) \/ LegacyValidate(p) \/ LegacyReserve(p) \/ LegacyCompare(p)
  \/ LegacyFinalize(p) \/ LegacyPersist(p) \/ LegacyProject(p) \/ LegacyProjectFails(p)

Next ==
  \/ \E p \in Process : Session(p) \/ Recover(p) \/ RecoverLegacy(p) \/ Die(p)
  \/ Drift \/ NextRound

Spec == Init /\ [][Next]_vars

-----------------------------------------------------------------------------
Tree == [edition : Edition, queue : Queue, extra : {"none", "foreign"}]

\* one transaction is open at most, and its record says so; a result that
\* was not launched was not accepted, and no feature starts past the head
TypeOK ==
  /\ tree \in Tree
  /\ head.commit \in Nat /\ head.edition \in Edition /\ head.queue \in Queue
  /\ \A t \in DOMAIN txns :
       /\ {txns[t].left, txns[t].end} \subseteq Tree
       /\ txns[t].origin < t
       /\ (txns[t].outcome = "open") <=> (t = open)
       /\ txns[t].accepted => txns[t].launched
  /\ proj.start <= head.commit
  /\ reservation \in Process \cup {NoProcess}

(* What a deterministic recovery commits is the diff that the failed       *)
(* transaction's own evidence binds, with nothing but the missing policy   *)
(* added, whoever edits the checkout between the plan and the comparison   *)
(* in finalize_deterministic_planning_recovery (kernel.py).  Between that  *)
(* comparison and the commit only the paths are looked at: the recoveries  *)
(* whose checkout was edited there are left out.                           *)
RecoveredDiffIsRetained ==
  \A t \in DOMAIN txns \ raced :
    txns[t].mode = "recovery" /\ txns[t].outcome = "applied"
      => LET o == txns[txns[t].origin] IN
         IF o.commit = 0 THEN txns[t].end = Completed(o.left)
                         ELSE txns[t].commit = o.commit

(* A planning result is finalized once: no second recovery of it is        *)
(* applied, and none of one that completed, however many commands plan the *)
(* same recovery (the plan fingerprint binds the ledger's sequence).       *)
RecoveredOnce ==
  \A o \in DOMAIN txns :
    LET R == {t \in DOMAIN txns : txns[t].origin = o /\ txns[t].outcome = "applied"} IN
    Cardinality(R) <= 1 /\ (R # {} => txns[o].outcome # "completed")

(* The planning file of a session says committed only when its commit is   *)
(* on the branch, and a transaction that completed has told its file.      *)
FileFollowsCommit ==
  \A t \in DOMAIN txns :
    /\ txns[t].file = "committed" => txns[t].commit \in 1..head.commit
    /\ txns[t].mode = "session" /\ txns[t].outcome = "completed"
         => txns[t].file \in {"committed", "no_changes"}

(* When a feature is projected ready, its starting commit is the head, and *)
(* the queue there has the newly ready feature with an execution policy    *)
(* (_require_new_ready_execution_policies), whichever route projected it:  *)
(* the session, the recovery of its diff or of its commit, or the planning *)
(* file of a project without a ledger, of which an adopted commit is ready *)
(* without a starting commit.  An edit after the last comparison may drop  *)
(* the policy, and is left out.                                            *)
ReadyIsBound ==
  proj.state = "feature_ready" =>
    /\ IF legacy.status = "absent" THEN proj.start = head.commit
       ELSE head.commit = 1 /\ proj.start \in {0, 1}
    /\ Len(txns) \in raced \/ head.queue = "ready"

(* A recorded result of a project without a ledger is committed once, byte *)
(* for byte unless it was edited past the last comparison, and its file    *)
(* never says committed without that commit, across concurrent and         *)
(* repeated commands and a death around the commit.                        *)
LegacyCommittedOnce ==
  legacy.status # "absent" =>
    /\ head.commit <= 1
    /\ head.commit = 1 /\ 0 \notin raced
         => head.edition = legacy.edition /\ head.queue = "ready"
    /\ legacy.status = "committed" => head.commit = 1
=============================================================================
