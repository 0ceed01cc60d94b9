------------------------ MODULE MilestoneIntegration ------------------------
(***************************************************************************)
(* The deterministic integration of an accepted feature into the milestone *)
(* branch: the immutable plan and its executor (integration_executor.py),  *)
(* its two callers, _execute_projected_integration of the cycle engine and *)
(* integrate_feature of the delivery command (feature_integration.py), and *)
(* the recovery of an integration whose validation was refused             *)
(* (_recover_integration_finalization).                                    *)
(*                                                                         *)
(* One integration puts three commits on the branch: the implementation,   *)
(* a "mark integrating" of the queue and, after validation, the recorded   *)
(* outcome.  The engine and the delivery command keep separate ledgers and *)
(* share the branch and the lease.  Delivery works in a linked worktree    *)
(* that has the milestone checked out; without one, only the engine can    *)
(* integrate (`linked`).                                                   *)
(***************************************************************************)
EXTENDS FeatureAcceptance

CONSTANT Queued  \* features the tracked queue calls accepted, by whoever wrote it

ASSUME QueuedAssumption == Queued \subseteq Feature

VARIABLES
  linked,    \* the milestone has a worktree of its own
  plans,     \* transactions with a persisted plan
  runtime,   \* latest.json: the plan and the phase
  blockers   \* the validation a process ran found blockers

integrationVars == <<linked, plans, runtime, blockers>>
vars == <<phaseVars, integrationVars>>

Phases == {"none", "validated", "conflict", "integrating", "complete", "validation_failed"}

IsIntegration(t) == fact[t].kind = "integration"

\* the milestone is at the planned start, in a clean worktree
RefsMatch(start) == tree = "clean" /\ Tip = start

(* acceptance_metadata_from_ledger: one acceptance of the branch as it is   *)
(* now, made on that start.  The engine still integrates a commit without  *)
(* one if it carries its acceptance in its own tree, as those of the past  *)
(* did; no command makes such commits, and that route is not modelled.     *)
AcceptedOn(f, start) ==
  \E a \in Txn : Acceptances(f, cand[f].ver) = {a} /\ fact[a].start = start

\* the queue of the milestone tip calls them integrated
DependenciesIntegrated(f) == Dependencies[f] \subseteq Integrated

\* mutant: the base the acceptance was made on is not compared
InspectTwoRefsAnyBase(f, start) ==
  /\ RefsMatch(start)
  /\ Cardinality(Acceptances(f, cand[f].ver)) = 1
  /\ DependenciesIntegrated(f)

\* mutant: dependencies are not looked up
InspectTwoRefsAlone(f, start) == RefsMatch(start) /\ AcceptedOn(f, start)

InspectTwoRefs(f, start) ==
  /\ RefsMatch(start)
  /\ AcceptedOn(f, start)
  /\ DependenciesIntegrated(f)

\* select_integration: the one feature the queue calls accepted and pending
IntegrationCandidates == {f \in Queued : QueueStatus(f) = "pending"}

(* _validate_projected_dispatch: the engine follows its projection and     *)
(* wants the queue to name the feature too.  The controller's acceptance   *)
(* does not write it there; a session of the past may have.                *)
EngineRoute(f) ==
  /\ state = "integration_pending" /\ current = f
  /\ Incomplete(TRUE) = {}
  /\ IntegrationCandidates = {f}

\* delivery wants a worktree of the milestone other than the primary one
Routed(p, f) == IF p \in Delivery THEN linked ELSE EngineRoute(f)

BeginIntegration(p, t, f) ==
  /\ Routed(p, f)
  /\ InspectTwoRefs(f, Tip)
  /\ OpenTransaction(p, t, [NoFact EXCEPT !.kind = "integration", !.main = p \notin Delivery,
                              !.feature = f, !.ver = cand[f].ver, !.start = Tip])
  /\ Goto(p, "begun", <<>>)
  /\ UNCHANGED integrationVars

\* begin_for_branch under the lease; a changed repository gives it back
StartIntegration(p) ==
  /\ Ready(p, "begun")
  /\ IF Tip = fact[cur[p]].start /\ tree = "clean"
     THEN /\ Goto(p, "started", <<"TransactionStarted", "LeaseAcquired">>)
          /\ UNCHANGED <<lock, cur>>
     ELSE Leave(p) /\ lease' = NoTxn /\ holder' = NoProcess
  /\ UNCHANGED <<repository, book, bounds, integrationVars>>

(* The handlers of the two callers.  The engine blocks unless a final      *)
(* commit is recorded, delivery whenever the lease is still there.         *)
FailureReference(p, raised) == IF p \in Delivery THEN "other" ELSE raised

Failure(p, raised) ==
  IF p \in Delivery \/ ~Recorded(cur[p], "CommitFinalized")
  THEN /\ End(p, "TransactionBlocked",
              IF p \in Delivery THEN "TERMINAL_INTEGRATION_FAILURE" ELSE "VALIDATION_FAILED",
              FailureReference(p, raised), "validation_failed")
  ELSE Abandon(p) /\ UNCHANGED <<repository, book, bounds>>

\* One step of a handler: what it checks, and what it does next.
Act(p, from, check, effect) ==
  /\ Ready(p, from)
  /\ IF check THEN effect ELSE Failure(p, "other") /\ UNCHANGED integrationVars

(* prepare_starting_branch (git refuses a branch another worktree has),    *)
(* capture_snapshot, and the projection delivery rebuilds from its own     *)
(* ledger, which refuses two open transactions.                            *)
Prepared(p) ==
  /\ tree = "clean" /\ Tip = fact[cur[p]].start
  /\ (p \in Delivery) = linked
  /\ Cardinality(Incomplete(fact[cur[p]].main)) <= 1

PrepareBranch(p) ==
  Act(p, "started", Prepared(p),
      /\ Goto(p, IF fact[cur[p]].of = NoTxn THEN "snapped" ELSE "resumed",
              <<"SnapshotCaptured">>)
      /\ UNCHANGED <<repository, book, lock, cur, bounds, integrationVars>>)

\* build_integration_plan, persist_integration_plan
PersistPlan(p) ==
  Act(p, "snapped", Owns(p) /\ InspectTwoRefs(fact[cur[p]].feature, fact[cur[p]].start),
      /\ plans' = plans \cup {cur[p]}
      /\ Goto(p, "planned", <<>>)
      /\ UNCHANGED <<repository, book, lock, cur, bounds, linked, runtime, blockers>>)

\* mutant: a phase the recovery does not know
ValidatePlanUnknownPhase(p) ==
  /\ Ready(p, "planned")
  /\ runtime' = [plan |-> cur[p], phase |-> "planned"]
  /\ Goto(p, "picking", <<>>)
  /\ UNCHANGED <<repository, book, lock, cur, bounds, linked, plans, blockers>>

(* execute_integration_plan. *)
ValidatePlan(p) ==
  Act(p, "planned", Owns(p) /\ InspectTwoRefs(fact[cur[p]].feature, fact[cur[p]].start),
      /\ runtime' = [plan |-> cur[p], phase |-> "validated"]
      /\ Goto(p, "picking", <<>>)
      /\ UNCHANGED <<repository, book, lock, cur, bounds, linked, plans, blockers>>)

AtPlannedHead(p) == Owns(p) /\ tree = "clean" /\ Tip = fact[cur[p]].start

\* cherry-pick --no-commit: the change is in the index and the worktree
CherryPick(p) ==
  Act(p, "picking", AtPlannedHead(p),
      /\ tree' = "staged"
      /\ Goto(p, "staged", <<>>)
      /\ UNCHANGED <<milestone, cand, book, lock, cur, bounds, integrationVars>>)

(* git commit takes the index as it is, on HEAD as it is.  With nothing    *)
(* staged any more it fails; what somebody else has changed meanwhile may  *)
(* or may not be in it.                                                    *)
CommitPick(p) ==
  Act(p, "staged", tree # "clean",
      /\ \E c \in {Pick(fact[cur[p]].feature, fact[cur[p]].ver)}
                  \cup (IF tree = "staged" THEN {} ELSE {Commit("outside", NoFeature)}) :
            milestone' = Append(milestone, c)
      /\ tree' = IF tree = "staged" THEN "clean" ELSE tree
      /\ Goto(p, "picked", <<>>)
      /\ UNCHANGED <<cand, book, lock, cur, bounds, integrationVars>>)

\* git cannot apply it: the conflict is kept in the worktree
CherryPickConflict(p) ==
  /\ Ready(p, "picking") /\ AtPlannedHead(p)
  /\ drift < MaxDrift
  /\ drift' = drift + 1
  /\ tree' = "conflict"
  /\ runtime' = [plan |-> cur[p], phase |-> "conflict"]
  /\ Goto(p, "conflicted", <<"DeterministicExecutionStarted", "DeterministicResultAccepted">>)
  /\ UNCHANGED <<milestone, cand, book, lock, cur, crashes, linked, plans, blockers>>

(* The picked commit is a child of the start and has the accepted tree,    *)
(* and the queue does not say something else of the feature already.       *)
MayMark(p) ==
  /\ Tip = fact[cur[p]].start + 1
  /\ milestone[Tip] = Pick(fact[cur[p]].feature, fact[cur[p]].ver)
  /\ QueueStatus(fact[cur[p]].feature) \in {"pending", "marking"}

MarkIntegrating(p) ==
  Act(p, "picked", MayMark(p),
      /\ milestone' = Append(milestone, Commit("marking", fact[cur[p]].feature))
      /\ runtime' = [plan |-> cur[p], phase |-> "integrating"]
      /\ Goto(p, "marked", <<>>)
      /\ UNCHANGED <<cand, tree, book, lock, cur, bounds, linked, plans, blockers>>)

(* _run_validation: the commands pass or fail, and a dirty worktree is a   *)
(* blocker whatever they say.                                              *)
Validate(p, found) ==
  /\ Ready(p, "marked")
  /\ tree # "clean" => found
  /\ blockers' = [blockers EXCEPT ![p] = found]
  /\ Goto(p, "validated", <<>>)
  /\ UNCHANGED <<repository, book, lock, cur, bounds, linked, plans, runtime>>

\* SafetyPolicy refuses a configured command
RefuseCommand(p) ==
  /\ Ready(p, "marked")
  /\ Failure(p, "SafetyViolation")
  /\ UNCHANGED integrationVars

Outcome(p) == IF blockers[p] THEN "failed" ELSE "passed"

PlanOf(t) == IF fact[t].of = NoTxn THEN t ELSE fact[t].of

(* _record_final_metadata: the outcome is committed, then the runtime.     *)
RecordFinalMetadata(p) ==
  /\ Ready(p, "validated")
  /\ milestone' = Append(milestone, Commit(Outcome(p), fact[cur[p]].feature))
  /\ fact' = [fact EXCEPT ![cur[p]].evidence = Tip + 1]
  /\ runtime' = [plan |-> PlanOf(cur[p]),
                 phase |-> IF blockers[p] THEN "validation_failed" ELSE "complete"]
  /\ Goto(p, "recorded", <<>>)
  /\ UNCHANGED <<cand, tree, hist, ended, state, current, lock, cur, bounds,
                 linked, plans, blockers>>

(* accept_deterministic_integration_result, on a clean worktree.           *)
AcceptResult(p) ==
  Act(p, "recorded", Owns(p) /\ tree = "clean",
      /\ Goto(p, IF blockers[p] THEN "failed" ELSE "finalized",
              <<"DeterministicExecutionStarted", "DeterministicResultAccepted",
                "ValidationStarted">>
              \o IF blockers[p] THEN <<"ValidationFailed">>
                 ELSE <<"ValidationPassed", "CommitFinalized">>)
      /\ UNCHANGED <<repository, book, lock, cur, bounds, integrationVars>>)

\* mutant: the evidence is taken to be the second commit
TerminalRepositorySecond(p) ==
  Owns(p) /\ tree = "clean" /\ Tip = fact[cur[p]].start + 2

\* the milestone commit the implementation was picked onto
PickBase(t) == fact[PlanOf(t)].start

(* _revalidate_terminal_repository, for a controller plan: HEAD is the     *)
(* recorded outcome, the implementation is a child of the planned start,   *)
(* in a recovery the three commits follow one another, and the patch of    *)
(* the implementation is the patch of the accepted commit, which it is not *)
(* when that commit is the last of several.                                *)
TerminalRepository(p) ==
  LET t == cur[p] IN
  /\ Owns(p) /\ tree = "clean"
  /\ Tip = fact[t].evidence
  /\ milestone[PickBase(t) + 1] = Pick(fact[t].feature, fact[t].ver)
  /\ fact[t].of # NoTxn => fact[t].evidence = PickBase(t) + 3
  /\ fact[t].feature \notin Ranged

MilestoneComplete == Integrated = Feature

CompleteIntegration(p) ==
  Act(p, "finalized", TerminalRepository(p),
      /\ End(p, "TransactionCompleted", "INTEGRATED", "none",
             IF MilestoneComplete THEN "milestone_gate" ELSE "feature_ready")
      /\ UNCHANGED integrationVars)

BlockConflict(p) ==
  /\ Ready(p, "conflicted")
  /\ End(p, "HumanGateRaised", "SEMANTIC_CONFLICT", "none", "human_decision_required")
  /\ UNCHANGED integrationVars

BlockFailed(p) ==
  /\ Ready(p, "failed")
  /\ End(p, "TransactionBlocked", "VALIDATION_FAILED", "validation", "validation_failed")
  /\ UNCHANGED integrationVars

-----------------------------------------------------------------------------
(* Recovery of an integration whose validation was refused.                *)

\* _integration_finalization_recovery_context: the newest such block
RefusedAt ==
  {i \in DOMAIN ended : IsIntegration(ended[i]) /\ fact[ended[i]].reference = "SafetyViolation"}

Refused == IF RefusedAt = {} THEN NoTxn
           ELSE ended[CHOOSE i \in RefusedAt : \A j \in RefusedAt : j <= i]

(* inspect_integration_finalization_recovery: the events are exactly those *)
(* of a refused integration, the branch is start, implementation, marking, *)
(* the implementation has the patch of the accepted commit, the feature    *)
(* branch has not moved, and the runtime was left at this plan.            *)
InspectFinalizationRecovery(t) ==
  LET f == fact[t].feature IN
  /\ t \in plans /\ tree = "clean"
  /\ hist[t] = <<"TransactionStarted", "LeaseAcquired", "SnapshotCaptured",
                 "TransactionBlocked", "LeaseReleased", "ProjectionUpdated">>
  /\ Tip = fact[t].start + 2
  /\ milestone[Tip] = Commit("marking", f) /\ milestone[Tip - 1] = Pick(f, fact[t].ver)
  /\ f \notin Ranged
  /\ cand[f].ver = fact[t].ver
  /\ runtime = [plan |-> t, phase |-> "integrating"]

RecoverFinalization(p, t) ==
  LET r == Refused IN
  /\ p \notin Delivery
  /\ state = "validation_failed" /\ ended # <<>>
  /\ fact[ended[Len(ended)]].class = "VALIDATION_FAILED"
  /\ Incomplete(TRUE) = {}
  /\ r # NoTxn /\ InspectFinalizationRecovery(r)
  /\ OpenTransaction(p, t, [NoFact EXCEPT !.kind = "integration", !.feature = fact[r].feature,
                              !.ver = fact[r].ver, !.start = Tip, !.of = r])
  /\ Goto(p, "begun", <<>>)
  /\ UNCHANGED integrationVars

\* resume_integration_finalization: the topology again, then validation
ResumeFinalization(p) ==
  Act(p, "resumed", Owns(p) /\ InspectFinalizationRecovery(fact[cur[p]].of),
      /\ Goto(p, "marked", <<>>)
      /\ UNCHANGED <<repository, book, lock, cur, bounds, integrationVars>>)

-----------------------------------------------------------------------------
IntegrationStep(p) ==
  \/ \E t \in Txn, f \in Feature : BeginIntegration(p, t, f)
  \/ \E t \in Txn : RecoverFinalization(p, t)
  \/ StartIntegration(p)
  \/ PrepareBranch(p)
  \/ PersistPlan(p)
  \/ ValidatePlan(p)
  \/ CherryPick(p)
  \/ CherryPickConflict(p)
  \/ CommitPick(p)
  \/ MarkIntegrating(p)
  \/ \E found \in {TRUE, FALSE} : Validate(p, found)
  \/ RefuseCommand(p)
  \/ RecordFinalMetadata(p)
  \/ AcceptResult(p)
  \/ CompleteIntegration(p)
  \/ BlockConflict(p)
  \/ BlockFailed(p)
  \/ ResumeFinalization(p)

IntegrationInit ==
  /\ Init
  /\ linked \in {TRUE, FALSE}
  /\ plans = {}
  /\ runtime = [plan |-> NoTxn, phase |-> "none"]
  /\ blockers = [p \in Process |-> FALSE]

IntegrationNext ==
  \/ Shared /\ UNCHANGED integrationVars
  \/ \E p \in Process : AcceptanceStep(p) /\ UNCHANGED integrationVars
  \/ \E p \in Process : IntegrationStep(p)

Spec == IntegrationInit /\ [][IntegrationNext]_vars

-----------------------------------------------------------------------------
TypeOK ==
  /\ \A i \in DOMAIN milestone :
        milestone[i].kind \in CommitKinds /\ milestone[i].feature \in Feature \cup {NoFeature}
  /\ cand \in [Feature -> [ver : 0..MaxVersion, base : Nat]]
  /\ tree \in {"clean", "dirty", "staged", "conflict"}
  /\ hist \in [Txn -> Seq(EventTypes)]
  /\ fact \in [Txn -> Fact]
  /\ lease \in Txn \cup {NoTxn} /\ holder \in Process \cup {NoProcess}
  /\ cur \in [Process -> Txn \cup {NoTxn}]
  /\ runtime \in [plan : Txn \cup {NoTxn}, phase : Phases]

(* An accepted change reaches the milestone once: no sequence of retries,  *)
(* crashes, recoveries and the two commands picks one version of a feature *)
(* twice.  A replacement of a change whose marking failed is another one.  *)
IntegratedOnce ==
  \A i, j \in DOMAIN milestone :
     milestone[i].kind = "pick" /\ milestone[j] = milestone[i] => i = j

(* A feature is picked only onto a milestone that already records all its  *)
(* dependencies as integrated, even if it was accepted long before.        *)
DependenciesFirst ==
  \A i \in DOMAIN milestone :
     milestone[i].kind = "pick" =>
        \A d \in Dependencies[milestone[i].feature] :
           \E j \in 1..(i - 1) : milestone[j] = Commit("passed", d)

(* A transaction's class is what the milestone shows.  One that ends       *)
(* INTEGRATED has all of it on the branch: the implementation on the very  *)
(* commit it was accepted on, its marking and a passing outcome, and the   *)
(* feature branch was the accepted one.  One that ends in failure has left *)
(* no passing outcome, unless somebody else touched the repository or the  *)
(* branch has several commits, which the terminal check refuses.           *)
ClassIsOnMilestone ==
  \A t \in Txn :
     /\ fact[t].class = "INTEGRATED" =>
          LET f == fact[t].feature
              b == PickBase(t) IN
          /\ \E a \in Acceptances(f, fact[t].ver) : fact[a].start = b
          /\ milestone[b + 1] = Pick(f, fact[t].ver)
          /\ milestone[fact[t].evidence] = Commit("passed", f)
          /\ ~\E i \in DOMAIN milestone : milestone[i] = Commit("failed", f)
     /\ drift = 0 /\ fact[t].evidence # 0 /\ fact[t].feature \notin Ranged
        /\ fact[t].class \in {"VALIDATION_FAILED", "SUPERSEDED", "TERMINAL_INTEGRATION_FAILURE"}
          => milestone[fact[t].evidence].kind = "failed"

(* What the tracked queue calls integrated is not an open question in the  *)
(* ledger: with nobody else at the repository and no death on the way, the *)
(* command that picked and recorded it has completed its transaction; a    *)
(* branch of several commits is refused after its outcome was recorded.    *)
PassedMeansCompleted ==
  crashes = 0 /\ drift = 0 /\ (\A p \in Process : pc[p] = "idle") =>
     \A i \in DOMAIN milestone :
        milestone[i].kind = "pick" /\ milestone[i].feature \in Integrated \ Ranged =>
           \E t \in Txn : fact[t].feature = milestone[i].feature /\ fact[t].class = "INTEGRATED"
=============================================================================
