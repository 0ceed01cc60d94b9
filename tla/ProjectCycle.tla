---------------------------- MODULE ProjectCycle ----------------------------
(***************************************************************************)
(* The cycle engine's run command: from the evidence ledger's projection   *)
(* and the tracked queue to one plan, from the plan, under the controller  *)
(* reservation, to the transactions that prepare, execute and accept a     *)
(* feature, integrate one or pass the milestone gate, and to the two       *)
(* caches written after them, the project document and the cycle cache.    *)
(*                                                                         *)
(* A transaction is its beginning and its end; what happens in between is  *)
(* in WorkflowKernel, FeatureAcceptance and MilestoneIntegration.  One     *)
(* that a death left open stays open here: RecoveryPlanner shows what the  *)
(* engine makes of it.  deliver-feature, which integrates on a worktree of *)
(* its own and in a ledger of its own, is one step of the environment.     *)
(*                                                                         *)
(* Data.  Features are numbers, in priority order.  A milestone commit is  *)
(* its index, and holds the queue as it was then.  Commit 0 is any commit  *)
(* that is not on the milestone.  The session leaves the queue alone.      *)
(***************************************************************************)
EXTENDS Naturals, Sequences, FiniteSets, FiniteSetsExt

CONSTANTS
  Feature,
  Dependencies,   \* the features each feature depends on
  Process,        \* processes that run the engine
  MaxSequence,    \* bound on the ledger when a run begins
  MaxDeaths,      \* bound on process deaths
  MaxCommits,     \* bound on the milestone's commits when the operator adds one
  NoProcess

ASSUME CycleConstants ==
  /\ Feature \subseteq Nat \ {0}
  /\ Dependencies \in [Feature -> SUBSET Feature]
  /\ NoProcess \notin Process
  /\ MaxSequence \in Nat /\ MaxDeaths \in Nat /\ MaxCommits \in Nat

NoFeature == 0
Milestone == 0     \* the checkout that is not a feature branch
NoCommit == 0
NoPlan == [seq |-> 0]

VARIABLES
  milestone,    \* the milestone branch: the queue at each of its commits
  branch,       \* per feature: the commit its branch starts from, and if it has more
  checkout,     \* the branch of the primary worktree
  linked,       \* the milestone is checked out in another worktree
  tree,         \* the primary worktree is clean or dirty
  proj,         \* what the events of the ledger fold to
  prepared,     \* the commit the last completed preparation of each feature saw
  open,         \* the open transaction: it has the writer lease
  seq,          \* the ledger's sequence; 0 is no ledger
  cycle,        \* the cycle cache: the sequence it is bound to and its phase
  doc,          \* current_state of the project document
  reservation,  \* the controller reservation: its process, and if that is dead
  pc, plan,     \* each process: next step, and the plan it follows
  deaths

repository == <<milestone, branch, checkout, linked, tree>>
ledger == <<proj, prepared, open, seq>>
caches == <<cycle, doc>>
vars == <<repository, ledger, caches, reservation, pc, plan, deaths>>

Tip == Len(milestone)

-----------------------------------------------------------------------------
(* The queue (queue.py), as the checkout has it.                           *)

Queue == IF checkout = Milestone THEN milestone[Tip] ELSE milestone[branch[checkout].base]

DependenciesComplete(q, f) == \A d \in Dependencies[f] : q.status[d] = "integrated"

Readiness(q, f) == q.status[f] = "ready" /\ DependenciesComplete(q, f)

ReadyFeatures(q) == {f \in Feature : Readiness(q, f)}

SelectNext(q) == IF ReadyFeatures(q) = {} THEN NoFeature ELSE Min(ReadyFeatures(q))

SelectIntegration(q) == {f \in Feature : q.status[f] = "pending"}

MilestoneComplete(q) == \A f \in Feature : q.status[f] = "integrated"

-----------------------------------------------------------------------------
(* The projection (projection.py).                                         *)

NextAction(state) ==
  CASE state \in {"feature_ready", "feature_preparing"} -> "feature_cycle"
    [] state \in {"feature_accepted", "integration_pending", "integration_ready"} ->
         "milestone_integration"
    [] state \in {"queue_reconciliation", "feature_integrated"} -> "queue_reconciliation"
    [] state = "milestone_gate" -> "milestone_gate"
    [] state = "human_decision_required" -> "human_decision_resolution"
    [] state = "milestone_ready_for_merge" -> "human_merge_approval"
    [] OTHER -> "verify_consistency"

ActiveState(kind) ==
  CASE kind = "selection" -> "queue_reconciliation"
    [] kind = "preparation" -> "feature_preparing"
    [] kind = "execution" -> "feature_running"
    [] kind = "acceptance" -> "feature_review"
    [] kind = "integration" -> "integrating"
    [] kind = "gate" -> "milestone_gate"

\* TransactionStarted: what a migration imported no longer counts
Started(kind, f) ==
  [proj EXCEPT !.state = ActiveState(kind), !.imported = NoFeature,
               !.current = IF f = NoFeature THEN @ ELSE f]

\* The terminal event and ProjectionUpdated, which forgets the selection but
\* not the commit that was selected with it.  `last` is the terminal
\* snapshot's commit.
Closed(next, f, last) ==
  [proj EXCEPT !.state = next, !.current = f, !.selected = NoFeature, !.last = last]

\* The tail of rebuild with nothing active: a feature that the ledger itself
\* integrated gives way to the selected one.
Settled ==
  LET left == IF proj.selected \in proj.integrated THEN NoFeature ELSE proj.selected IN
  IF proj.current \notin proj.integrated THEN proj
  ELSE [proj EXCEPT !.selected = left, !.current = left,
          !.state = IF left = NoFeature
                       /\ @ \in {"feature_ready", "feature_accepted", "integration_pending",
                                 "integration_ready", "feature_integrated"}
                    THEN "queue_reconciliation" ELSE @]

View ==
  LET s == IF open.kind = "none" THEN Settled ELSE proj IN
  [state |-> s.state, current |-> s.current, selected |-> s.selected, start |-> s.start,
   accepted |-> s.current # NoFeature /\ s.current \in s.accepted \cup {s.imported},
   action |-> NextAction(s.state), prepared |-> FALSE]

\* the feature a view is about
Identity(v) == IF v.current # NoFeature THEN v.current ELSE v.selected

-----------------------------------------------------------------------------
(* bind_projection_to_queue (execution_plan.py): idle routing follows the  *)
(* queue of the checkout.                                                  *)

TerminalCandidate(v, q) == Identity(v) # NoFeature /\ q.status[Identity(v)] = "integrated"

Unbound(v, q) ==
  \/ open.kind # "none"
  \/ v.action \notin {"feature_cycle", "queue_reconciliation"} /\ ~TerminalCandidate(v, q)

\* select_exact raises for a feature that is not ready
BindRaises(v, q) ==
  /\ ~Unbound(v, q)
  /\ v.action = "feature_cycle" /\ Identity(v) # NoFeature
  /\ ~Readiness(q, Identity(v))

Bind(v, q) ==
  LET f == IF v.action = "feature_cycle" /\ Identity(v) # NoFeature
           THEN Identity(v) ELSE SelectNext(q)
      state == IF f = NoFeature THEN "queue_reconciliation" ELSE "feature_ready"
  IN  IF Unbound(v, q) THEN v
      ELSE [v EXCEPT !.state = state, !.action = NextAction(state),
                     !.current = f, !.selected = f, !.accepted = FALSE]

\* the commit the primary worktree is at
HeadCommit ==
  IF checkout = Milestone THEN Tip
  ELSE IF branch[checkout].implemented THEN NoCommit ELSE branch[checkout].base

\* the queue file has not changed since f was prepared
SameQueue(f) == Queue = milestone[prepared[f]]

(* _bind_authenticated_prepared_feature_execution: the only ready feature  *)
(* was prepared, so its execution starts on its branch.                    *)
BindPrepared(v, q) ==
  LET f == Identity(v) IN
  IF /\ open.kind = "none" /\ v.action = "feature_cycle"
     /\ ReadyFeatures(q) = {f}
     /\ prepared[f] # NoCommit /\ SameQueue(f)
  THEN [v EXCEPT !.start = prepared[f], !.prepared = TRUE,
                 !.state = IF /\ checkout = f /\ tree = "clean"
                              /\ HeadCommit = prepared[f]
                           THEN "feature_preparing" ELSE @]
  ELSE v

Authoritative == BindPrepared(Bind(View, Queue), Queue)

-----------------------------------------------------------------------------
(* The execution plan.                                                     *)

\* discover_integration_target: some worktree has the milestone, not the
\* one of the feature branch
Discoverable == checkout = Milestone \/ linked

\* the start the plan falls back on: the last terminal snapshot
StartOf(v) ==
  CASE v.start # NoCommit -> v.start
    [] v.action = "milestone_integration" /\ Discoverable -> Tip
    [] OTHER -> proj.last

ExecutionPlan(v) ==
  [seq |-> seq, view |-> v, feature |-> Identity(v), start |-> StartOf(v),
   from |-> IF v.prepared THEN Identity(v) ELSE Milestone]

\* from_projection, and _execution_plan before it, raise otherwise
Plannable(v) ==
  /\ v.action \in {"feature_cycle", "milestone_integration"} =>
        Identity(v) # NoFeature /\ Identity(v) \notin proj.integrated
  /\ v.action = "milestone_integration" /\ v.accepted =>
        Discoverable /\ tree = "clean" /\ v.start \in {NoCommit, Tip}

\* _authoritative_execution_context
HasContext == seq > 0 /\ ~BindRaises(View, Queue) /\ Plannable(Authoritative)

Context == ExecutionPlan(Authoritative)

\* _validate_feature_branch_preparation_state
BranchPreparable(f, start) ==
  branch[f].base # NoCommit => ~branch[f].implemented /\ branch[f].base = start

(* _validate_projected_dispatch, with the reservation held: the plan is    *)
(* still the plan, and the repository is where it starts.                  *)
Dispatchable(e) ==
  /\ HasContext /\ Context = e
  /\ e.start # NoCommit /\ Tip = e.start
  /\ CASE e.view.action = "feature_cycle" ->
            /\ checkout = e.from /\ HeadCommit = e.start
            /\ tree = "clean" /\ open.kind = "none"
            /\ Readiness(Queue, e.feature)
            /\ BranchPreparable(e.feature, e.start)
       [] e.view.action = "milestone_integration" ->
            e.view.accepted /\ SelectIntegration(Queue) = {e.feature}
       [] e.view.action = "milestone_gate" ->
            checkout = Milestone /\ tree = "clean"
       [] OTHER -> FALSE

-----------------------------------------------------------------------------
\* mutant: a prepared feature cannot start
MayBecomeUnprepared(from) ==
  CASE from = "queue_reconciliation" -> {"feature_ready", "milestone_gate"}
    [] from = "feature_ready" -> {"feature_running"}
    [] OTHER -> {"validation_failed", "human_decision_required", "milestone_ready_for_merge"}

(* PORTFOLIO_TRANSITIONS, for the moves these commands ask for.            *)
MayBecome(from) ==
  CASE from = "queue_reconciliation" -> {"feature_ready", "milestone_gate", "validation_failed",
                                         "human_decision_required"}
    [] from = "feature_ready" -> {"feature_preparing", "feature_running",
                                  "human_decision_required"}
    [] from = "feature_preparing" -> {"feature_running", "feature_ready", "validation_failed",
                                      "human_decision_required"}
    [] from = "feature_running" -> {"feature_accepted", "integration_pending", "feature_ready",
                                    "milestone_gate", "validation_failed",
                                    "human_decision_required"}
    [] from = "milestone_gate" -> {"milestone_ready_for_merge", "validation_failed",
                                   "human_decision_required"}
    [] OTHER -> {}

\* _transition_project: another move raises
Transition(from, to) ==
  IF to = from \/ to \in MayBecome(from) THEN to ELSE "invalid_transition"

\* write_terminal_cycle_cache: the cache bound to record s, of a projection pr
WriteTerminalCache(pr, s) == [seq |-> s, phase |-> pr.state]

\* mutant: the cache keeps the phase the cycle had
MaterializedBehind(pr) == [seq |-> seq + 1, phase |-> cycle.phase]

\* _materialize_terminal_cycle_cache: the cache follows the projection pr of
\* the record being written
Materialized(pr) == WriteTerminalCache(pr, seq + 1)

\* a process that is idle follows no plan
Goto(p, step) ==
  /\ pc' = [pc EXCEPT ![p] = step]
  /\ plan' = IF step = "idle" THEN [plan EXCEPT ![p] = NoPlan] ELSE plan

Follow(p, e) ==
  /\ pc' = [pc EXCEPT ![p] = "planned"]
  /\ plan' = [plan EXCEPT ![p] = e]

\* the finally clause: the command is over
Release(p) == Goto(p, "idle") /\ reservation' = NoProcess

BeginTransaction(kind, f) ==
  /\ open.kind = "none"
  /\ open' = [kind |-> kind, feature |-> f]
  /\ proj' = Started(kind, f)
  /\ seq' = seq + 1
  /\ UNCHANGED prepared

EndTransaction(pr) ==
  /\ open' = [kind |-> "none", feature |-> NoFeature]
  /\ proj' = pr
  /\ seq' = seq + 1

-----------------------------------------------------------------------------
(* _deterministic_queue_selection.  With a ledger, bind_projection_to_queue*)
(* has turned ready work into feature_ready before it is asked: it selects *)
(* for a project that has none yet.                                        *)
Selectable ==
  /\ tree = "clean" /\ checkout = Milestone /\ open.kind = "none"
  /\ SelectNext(Queue) # NoFeature

SelectFeature(p) ==
  LET f == SelectNext(Queue) IN
  /\ pc[p] = "idle" /\ reservation = NoProcess
  /\ seq = 0 /\ doc = "queue_reconciliation"
  /\ Selectable
  /\ proj' = [Closed("feature_ready", f, Tip) EXCEPT !.selected = f, !.start = Tip]
  /\ seq' = seq + 2
  /\ doc' = Transition(doc, "feature_ready")
  /\ UNCHANGED <<repository, prepared, open, cycle, reservation, pc, plan, deaths>>

(* run_project up to the handler of the authoritative action.  Anything    *)
(* else it finds is reported, and changes nothing.                         *)
RunProject(p) ==
  /\ pc[p] = "idle" /\ seq <= MaxSequence
  /\ HasContext /\ open.kind = "none"
  /\ Authoritative.action \in {"feature_cycle", "milestone_integration", "milestone_gate"}
  /\ Follow(p, Context)
  /\ UNCHANGED <<repository, ledger, caches, reservation, deaths>>

(* resume_project.  Only an integration and the gate have anything to      *)
(* resume; any other action is reported.                                   *)
ResumeProject(p) ==
  /\ pc[p] = "idle" /\ seq <= MaxSequence
  /\ open.kind = "none" /\ HasContext
  /\ Authoritative.action \in {"milestone_integration", "milestone_gate"}
  /\ Follow(p, Context)
  /\ UNCHANGED <<repository, ledger, caches, reservation, deaths>>

\* A handler with a session asks if the plan is still the plan and if the CLI
\* is compatible, both before it reserves.
Preflight(p, passes) ==
  /\ \E compatible \in BOOLEAN :
       Goto(p, IF compatible /\ HasContext /\ Context = plan[p] /\ passes
               THEN "preflighted" ELSE "idle")
  /\ UNCHANGED <<repository, ledger, caches, reservation, deaths>>

PreflightFeature(p) ==
  /\ pc[p] = "planned" /\ plan[p].view.action = "feature_cycle"
  /\ Preflight(p, tree = "clean")

PreflightGate(p) ==
  /\ pc[p] = "planned" /\ plan[p].view.action = "milestone_gate"
  /\ Preflight(p, TRUE)

\* an integration launches no session
MayReserve(p) ==
  \/ pc[p] = "preflighted"
  \/ pc[p] = "planned" /\ plan[p].view.action = "milestone_integration"

\* DurableLock.acquire: the file of a dead process is refused like any other
Reserve(p) ==
  /\ MayReserve(p)
  /\ IF reservation = NoProcess THEN reservation' = p /\ Goto(p, "reserved")
     ELSE Goto(p, "idle") /\ UNCHANGED reservation
  /\ UNCHANGED <<repository, ledger, caches, deaths>>

\* A plan that starts on the prepared branch writes the cycle cache without
\* a binding.
Dispatch(p) ==
  LET e == plan[p] IN
  /\ pc[p] = "reserved"
  /\ IF Dispatchable(e)
     THEN /\ Goto(p, CASE e.view.action = "milestone_integration" -> "integrate"
                       [] e.view.action = "milestone_gate" -> "gate"
                       [] e.view.prepared -> "prepared"
                       [] OTHER -> "prepare")
          /\ cycle' = IF e.view.prepared THEN [seq |-> 0, phase |-> "feature_selected"] ELSE cycle
          /\ UNCHANGED reservation
     ELSE Release(p) /\ UNCHANGED cycle
  /\ UNCHANGED <<repository, ledger, doc, deaths>>

-----------------------------------------------------------------------------
(* _execute_feature: the preparation transaction.                          *)

\* the branch and commit begin expects
StartsAt(b, e) == checkout = b /\ HeadCommit = e.start /\ tree = "clean"

BeginPreparation(p) ==
  LET e == plan[p] IN
  /\ pc[p] = "prepare"
  /\ IF StartsAt(Milestone, e)
     THEN BeginTransaction("preparation", e.feature) /\ Goto(p, "preparing")
          /\ UNCHANGED reservation
     ELSE Release(p) /\ UNCHANGED ledger
  /\ UNCHANGED <<repository, caches, deaths>>

\* finalize_feature_branch creates the branch, or takes the one that is there
CompletePreparation(p) ==
  LET e == plan[p]
      done == Closed("feature_preparing", e.feature, e.start) IN
  /\ pc[p] = "preparing"
  /\ branch' = [branch EXCEPT ![e.feature] = [base |-> e.start, implemented |-> FALSE]]
  /\ checkout' = e.feature
  /\ prepared' = [prepared EXCEPT ![e.feature] = e.start]
  /\ EndTransaction(done)
  /\ cycle' = Materialized(done)
  /\ Goto(p, "prepared")
  /\ UNCHANGED <<milestone, linked, tree, doc, reservation, deaths>>

\* _verify_feature_branch_runtime: the branch starts at the live milestone
VerifyBranch(p) ==
  LET e == plan[p] IN
  /\ pc[p] = "prepared"
  /\ IF StartsAt(e.feature, e) /\ Tip = e.start
     THEN Goto(p, "verified") /\ UNCHANGED reservation
     ELSE Release(p)
  /\ UNCHANGED <<repository, ledger, caches, deaths>>

\* mutant: begin takes the checkout as it is
BeginExecutionAnywhere(p) ==
  /\ pc[p] = "verified"
  /\ BeginTransaction("execution", plan[p].feature) /\ Goto(p, "launching")
  /\ UNCHANGED <<repository, caches, reservation, deaths>>

(* begin, acquire_lease: they compare the checkout with the plan, not the   *)
(* milestone, which deliver-feature may have moved since it was verified.   *)
BeginExecution(p) ==
  LET e == plan[p] IN
  /\ pc[p] = "verified"
  /\ IF StartsAt(e.feature, e)
     THEN BeginTransaction("execution", e.feature) /\ Goto(p, "launching")
          /\ UNCHANGED reservation
     ELSE Release(p) /\ UNCHANGED ledger
  /\ UNCHANGED <<repository, caches, deaths>>

\* authenticated_feature_session, the callback of the launch
LaunchSession(p) ==
  /\ pc[p] = "launching"
  /\ doc' = Transition(plan[p].view.state, "feature_running")
  /\ Goto(p, "running")
  /\ UNCHANGED <<repository, ledger, cycle, reservation, deaths>>

\* ContextReadError before there is a session
FailPrelaunch(p) ==
  LET done == Closed("feature_preparing", plan[p].feature, plan[p].start) IN
  /\ pc[p] = "launching"
  /\ EndTransaction(done) /\ UNCHANGED prepared
  /\ cycle' = Materialized(done)
  /\ Release(p)
  /\ UNCHANGED <<repository, doc, deaths>>

(* The session ended without a result envelope, or the CLI refused to      *)
(* start it for a reason that will not change: a human gate.               *)
SessionLost(p) ==
  LET done == Closed("human_decision_required", plan[p].feature, proj.last)
      from == IF pc[p] = "running" THEN "feature_running" ELSE plan[p].view.state IN
  /\ pc[p] \in {"launching", "running"}
  /\ tree' \in {"clean", "dirty"} /\ (pc[p] = "launching" => tree' = tree)
  /\ EndTransaction(done) /\ UNCHANGED prepared
  /\ cycle' = Materialized(done)
  /\ doc' = Transition(from, "human_decision_required")
  /\ Release(p)
  /\ UNCHANGED <<milestone, branch, checkout, linked, deaths>>

\* _terminalize_handled_kernel_failure: both caches are left behind
HandledFailure(p) ==
  /\ EndTransaction(Closed("validation_failed", plan[p].feature, plan[p].start))
  /\ UNCHANGED prepared
  /\ Release(p)
  /\ UNCHANGED <<milestone, branch, checkout, linked, caches, deaths>>

\* _launch_session fails before there is a session
FailLaunch(p) ==
  pc[p] = "launching" /\ UNCHANGED tree /\ HandledFailure(p)

\* SessionLauncher.launch raises for a session that runs too long, for one that
\* has children beyond its budget, and for a retry, which has no budget left
SessionRaises(p) ==
  pc[p] = "running" /\ tree' \in {"clean", "dirty"} /\ HandledFailure(p)

\* an envelope that is no success: the cycle cache is left behind
SessionBlocked(p, next) ==
  /\ pc[p] = "running"
  /\ tree' \in {"clean", "dirty"}
  /\ EndTransaction(Closed(next, plan[p].feature,
                            IF next = "validation_failed" THEN plan[p].start ELSE proj.last))
  /\ UNCHANGED prepared
  /\ doc' = Transition("feature_running", next)
  /\ Release(p)
  /\ UNCHANGED <<milestone, branch, checkout, linked, cycle, deaths>>

\* the controller's own validation of the session's work fails
ValidationFails(p) ==
  pc[p] = "running" /\ tree' = "dirty" /\ HandledFailure(p)

\* validate, finalize, complete: a candidate, not yet accepted
CommitCandidate(p) ==
  LET f == plan[p].feature
      done == Closed("feature_accepted", f, NoCommit) IN
  /\ pc[p] = "running"
  /\ branch' = [branch EXCEPT ![f].implemented = TRUE]
  /\ EndTransaction(done) /\ UNCHANGED prepared
  /\ cycle' = Materialized(done)
  /\ Goto(p, "candidate")
  /\ UNCHANGED <<milestone, checkout, linked, tree, doc, reservation, deaths>>

-----------------------------------------------------------------------------
(* accept_feature: FeatureAcceptance has its steps.                        *)

Acceptable(f) ==
  /\ tree = "clean" /\ open.kind = "none" /\ checkout = f
  /\ branch[f].implemented /\ branch[f].base = Tip
  /\ f \notin proj.accepted

Acceptance(f) ==
  [Closed("integration_pending", f, NoCommit) EXCEPT !.accepted = @ \cup {f},
                                                     !.imported = NoFeature]

(* The engine goes on to integrate, which _execute_projected_integration   *)
(* refuses: the queue of its checkout does not name the feature.           *)
AcceptCandidate(p) ==
  LET f == plan[p].feature IN
  /\ pc[p] = "candidate"
  /\ IF Acceptable(f)
     THEN /\ proj' = Acceptance(f) /\ seq' = seq + 2
          /\ cycle' = WriteTerminalCache(Acceptance(f), seq + 2)
     ELSE UNCHANGED <<proj, seq, cycle>>
  /\ Release(p)
  /\ UNCHANGED <<repository, prepared, open, doc, deaths>>

\* the accept-feature command
AcceptByHand(f) ==
  /\ seq > 0 /\ Acceptable(f)
  /\ proj' = Acceptance(f) /\ seq' = seq + 2
  /\ UNCHANGED <<repository, prepared, open, caches, reservation, pc, plan, deaths>>

-----------------------------------------------------------------------------
(* The engine's integration: MilestoneIntegration has its steps.           *)

BeginIntegration(p) ==
  /\ pc[p] = "integrate"
  /\ BeginTransaction("integration", plan[p].feature)
  /\ Goto(p, "integrating")
  /\ UNCHANGED <<repository, caches, reservation, deaths>>

Integrated(f) == [milestone[Tip] EXCEPT !.status[f] = "integrated"]

\* mutant: the gate is next whatever is left
NextAfterIntegrationGate(q) == "milestone_gate"

NextAfterIntegration(q) == IF MilestoneComplete(q) THEN "milestone_gate" ELSE "feature_ready"

\* _finalize_completed_integration_cycle_cache may fail: that is reported.  In
\* the projection it follows, the integrated feature has given way.
FinalizedCache(done) ==
  Materialized([state |-> IF done.state = "milestone_gate" THEN "milestone_gate"
                          ELSE "queue_reconciliation"])

CompleteIntegration(p, finalized) ==
  LET f == plan[p].feature
      done == [Closed(NextAfterIntegration(Integrated(f)), f, Tip + 1)
                 EXCEPT !.integrated = @ \cup {f}] IN
  /\ pc[p] = "integrating"
  /\ checkout = Milestone /\ ~linked
  /\ milestone' = Append(milestone, Integrated(f))
  /\ EndTransaction(done) /\ UNCHANGED prepared
  /\ cycle' = IF finalized THEN FinalizedCache(done) ELSE cycle
  /\ Release(p)
  /\ UNCHANGED <<branch, checkout, linked, tree, doc, deaths>>

FailIntegration(p, next) ==
  /\ pc[p] = "integrating"
  /\ tree' = IF next = "human_decision_required" THEN "dirty" ELSE "clean"
  /\ EndTransaction(Closed(next, plan[p].feature,
                            IF next = "validation_failed" THEN HeadCommit ELSE proj.last))
  /\ UNCHANGED prepared
  /\ Release(p)
  /\ UNCHANGED <<milestone, branch, checkout, linked, caches, deaths>>

-----------------------------------------------------------------------------
(* _execute_milestone_gate.  Under its own transaction it looks at the     *)
(* phase of the cycle cache, bound or not.                                 *)

GatePhases == {"none", "completed", "feature_integrated", "milestone_gate"}

BeginGate(p) ==
  /\ pc[p] = "gate"
  /\ \/ /\ StartsAt(Milestone, plan[p]) /\ cycle.phase \in GatePhases
        /\ BeginTransaction("gate", NoFeature)
        /\ Goto(p, "gating")
        /\ UNCHANGED reservation
     \/ /\ StartsAt(Milestone, plan[p]) /\ cycle.phase \notin GatePhases
        /\ proj' = [Closed("validation_failed", NoFeature, Tip) EXCEPT !.imported = NoFeature]
        /\ seq' = seq + 2
        /\ Release(p)
        /\ UNCHANGED <<prepared, open>>
     \/ ~StartsAt(Milestone, plan[p]) /\ Release(p) /\ UNCHANGED ledger
  /\ UNCHANGED <<repository, caches, deaths>>

GatePassed == [milestone[Tip] EXCEPT !.gate = "passed"]

CompleteGate(p) ==
  LET done == Closed("milestone_ready_for_merge", NoFeature, Tip + 1) IN
  /\ pc[p] = "gating"
  /\ MilestoneComplete(GatePassed)
  /\ milestone' = Append(milestone, GatePassed)
  /\ EndTransaction(done) /\ UNCHANGED prepared
  /\ cycle' = Materialized(done)
  /\ doc' = Transition(Transition(plan[p].view.state, "milestone_gate"),
                       "milestone_ready_for_merge")
  /\ Release(p)
  /\ UNCHANGED <<branch, checkout, linked, tree, deaths>>

\* The commit is final before the queue is looked at: without gate_passed in
\* it, the transaction stays open.
GateLacksEvidence(p) ==
  /\ pc[p] = "gating"
  /\ milestone' = Append(milestone, milestone[Tip])
  /\ Release(p)
  /\ UNCHANGED <<branch, checkout, linked, tree, ledger, caches, deaths>>

\* an envelope that is no success moves the document, a lost one does not
FailGate(p, next, enveloped) ==
  /\ pc[p] = "gating"
  /\ ~enveloped => next = "validation_failed"
  /\ EndTransaction(Closed(next, NoFeature,
                            IF next = "validation_failed" THEN Tip ELSE proj.last))
  /\ UNCHANGED prepared
  /\ doc' = IF enveloped THEN Transition(plan[p].view.state, next) ELSE doc
  /\ Release(p)
  /\ UNCHANGED <<repository, cycle, deaths>>

-----------------------------------------------------------------------------
(* The cache-binding recovery of resume.                                   *)

\* ConsistencyChecker, the parts these states tell apart
LeaseOwnership == open.kind = "none"
WorktreeStatus == tree = "clean"
IntegrationStatus == ~(View.state = "integration_ready" /\ ~View.accepted)
IntegratedNotExecutable ==
  LET v == Bind(View, Queue) IN
  v.action \in {"feature_cycle", "milestone_integration"} /\ Identity(v) # NoFeature =>
     Queue.status[Identity(v)] # "integrated"

\* cycle_cache_binding fails, recoverably; a cache that was never bound passes
CacheMissing == cycle.phase = "none"
CacheStale == CacheMissing \/ (cycle.seq # 0 /\ cycle.seq < seq)

\* the queue routes what the ledger routes
QueueAgrees ==
  LET b == Bind(View, Queue) IN
  ~BindRaises(View, Queue) /\ b.state = View.state /\ b.current = View.current
  /\ b.selected = View.selected

CacheBindingRecoverable ==
  /\ seq > 0 /\ CacheStale
  /\ LeaseOwnership /\ WorktreeStatus /\ IntegrationStatus /\ IntegratedNotExecutable
  /\ QueueAgrees
  /\ Plannable(Bind(View, Queue))

\* _bind_terminal_cycle_cache: the cache says what the projection says.  The
\* one resume writes has no accepted commit.
Bindable(v) == ~v.accepted

RecoverCacheBinding(p) ==
  /\ pc[p] = "idle" /\ reservation = NoProcess
  /\ CacheBindingRecoverable /\ Bindable(View)
  /\ cycle' = WriteTerminalCache(View, seq)
  /\ UNCHANGED <<repository, ledger, doc, reservation, pc, plan, deaths>>

-----------------------------------------------------------------------------
(* reconcile-state: the project document is made to follow the projection. *)

\* _reconcile_projection_compatibility_cache
CompatibilityDocument == Authoritative.state

ReconcileControllerState(p) ==
  /\ pc[p] = "idle" /\ reservation = NoProcess
  /\ HasContext
  /\ doc' = CompatibilityDocument
  /\ UNCHANGED <<repository, ledger, cycle, reservation, pc, plan, deaths>>

-----------------------------------------------------------------------------
(* The rest of the world.                                                  *)

\* deliver-feature integrates an accepted feature; its ledger is not this one
Deliver(f) ==
  /\ linked /\ open.kind = "none"
  /\ f \in proj.accepted /\ branch[f].base = Tip
  /\ milestone[Tip].status[f] # "integrated"
  /\ DependenciesComplete(milestone[Tip], f)
  /\ milestone' = Append(milestone, Integrated(f))
  /\ UNCHANGED <<branch, checkout, linked, tree, ledger, caches, reservation, pc, plan,
                 deaths>>

\* the operator switches branches, adds or removes the milestone's worktree
Switch(b) ==
  /\ open.kind = "none" /\ tree = "clean" /\ b # checkout
  /\ IF b = Milestone THEN ~linked ELSE branch[b].base # NoCommit
  /\ checkout' = b
  /\ UNCHANGED <<milestone, branch, linked, tree, ledger, caches, reservation, pc, plan,
                 deaths>>

\* the operator commits to the milestone something that is not the queue
CommitByHand ==
  /\ Tip < MaxCommits
  /\ linked \/ (checkout = Milestone /\ open.kind = "none" /\ tree = "clean")
  /\ milestone' = Append(milestone, milestone[Tip])
  /\ UNCHANGED <<branch, checkout, linked, tree, ledger, caches, reservation, pc, plan,
                 deaths>>

Link ==
  /\ checkout # Milestone
  /\ linked' = ~linked
  /\ UNCHANGED <<milestone, branch, checkout, tree, ledger, caches, reservation, pc, plan,
                 deaths>>

CleanUp ==
  /\ tree = "dirty" /\ open.kind = "none"
  /\ tree' = "clean"
  /\ UNCHANGED <<milestone, branch, checkout, linked, ledger, caches, reservation, pc, plan,
                 deaths>>

Die(p) ==
  /\ pc[p] # "idle" /\ deaths < MaxDeaths
  /\ deaths' = deaths + 1
  /\ Goto(p, "idle")
  /\ UNCHANGED <<repository, ledger, caches, reservation>>

\* Nothing in the engine removes the reservation of a dead process.
RemoveReservation ==
  /\ reservation # NoProcess /\ pc[reservation] \in {"idle", "planned", "preflighted"}
  /\ reservation' = NoProcess
  /\ UNCHANGED <<repository, ledger, caches, pc, plan, deaths>>

-----------------------------------------------------------------------------
\* A project that has never run, its queue just reconciled.
InitFresh ==
  /\ milestone = <<[status |-> [f \in Feature |-> "ready"], gate |-> "open"]>>
  /\ branch = [f \in Feature |-> [base |-> NoCommit, implemented |-> FALSE]]
  /\ proj = [state |-> "discover", current |-> NoFeature, selected |-> NoFeature,
             start |-> NoCommit, accepted |-> {}, integrated |-> {}, last |-> NoCommit,
             imported |-> NoFeature]
  /\ seq = 0
  /\ cycle = [seq |-> 0, phase |-> "none"]
  /\ doc = "queue_reconciliation"

\* A project migrated with f accepted and not yet integrated; the file of its
\* last cycle may be there, not bound to the new ledger.
InitMigrated ==
  \E f \in Feature, done \in SUBSET Feature, phase \in {"none", "integration_pending"} :
    /\ f \notin done /\ Dependencies[f] \subseteq done
    /\ \A d \in done : Dependencies[d] \subseteq done
    /\ milestone = <<[gate |-> "open",
         status |-> [g \in Feature |-> CASE g \in done -> "integrated"
                                        [] g = f -> "pending" [] OTHER -> "ready"]]>>
    /\ branch = [g \in Feature |-> [base |-> IF g = f THEN 1 ELSE NoCommit,
                                    implemented |-> g = f]]
    /\ proj = [state |-> "integration_pending", current |-> f, selected |-> NoFeature,
               start |-> NoCommit, accepted |-> {}, integrated |-> {}, last |-> 1,
               imported |-> f]
    /\ seq = 2
    /\ cycle = [seq |-> 0, phase |-> phase]
    /\ doc = "integration_pending"

Init ==
  /\ InitFresh \/ InitMigrated
  /\ checkout = Milestone /\ linked = FALSE /\ tree = "clean"
  /\ prepared = [f \in Feature |-> NoCommit]
  /\ open = [kind |-> "none", feature |-> NoFeature]
  /\ reservation = NoProcess
  /\ pc = [p \in Process |-> "idle"]
  /\ plan = [p \in Process |-> NoPlan]
  /\ deaths = 0

BlockedStates == {"validation_failed", "human_decision_required"}

Next ==
  \/ \E p \in Process :
       \/ SelectFeature(p) \/ RunProject(p) \/ ResumeProject(p)
       \/ PreflightFeature(p) \/ PreflightGate(p) \/ Reserve(p) \/ Dispatch(p)
       \/ BeginPreparation(p) \/ CompletePreparation(p)
       \/ VerifyBranch(p) \/ BeginExecution(p) \/ LaunchSession(p) \/ FailPrelaunch(p)
       \/ FailLaunch(p) \/ SessionLost(p) \/ SessionRaises(p) \/ ValidationFails(p)
       \/ CommitCandidate(p) \/ AcceptCandidate(p)
       \/ BeginIntegration(p) \/ BeginGate(p) \/ CompleteGate(p) \/ GateLacksEvidence(p)
       \/ \E b \in BOOLEAN : CompleteIntegration(p, b)
       \/ \E s \in BlockedStates : SessionBlocked(p, s) \/ FailIntegration(p, s)
       \/ \E s \in BlockedStates, b \in BOOLEAN : FailGate(p, s, b)
       \/ RecoverCacheBinding(p) \/ ReconcileControllerState(p) \/ Die(p)
  \/ \E f \in Feature : AcceptByHand(f) \/ Deliver(f) \/ Switch(f)
  \/ Switch(Milestone) \/ CommitByHand \/ Link \/ CleanUp \/ RemoveReservation

Spec == Init /\ [][Next]_vars

-----------------------------------------------------------------------------
States == {"discover", "queue_reconciliation", "feature_ready", "feature_preparing",
           "feature_running", "feature_review", "feature_accepted", "integration_pending",
           "integrating", "milestone_gate", "milestone_ready_for_merge"} \cup BlockedStates

Steps == {"idle", "planned", "preflighted", "reserved", "prepare", "preparing", "prepared",
          "verified", "launching", "running", "candidate", "integrate", "integrating", "gate", "gating"}

\* Every queue has a status per feature, a branch starts on the milestone, the
\* document names a state its machine allows (state_machine.py), the projection
\* names a state the workflows give (projection.py).
TypeOK ==
  /\ \A c \in 1..Tip : milestone[c] \in [status : [Feature -> {"ready", "pending", "integrated"}],
                                        gate : {"open", "passed"}]
  /\ branch \in [Feature -> [base : 0..Tip, implemented : BOOLEAN]]
  /\ checkout \in Feature \cup {Milestone} /\ linked \in BOOLEAN /\ tree \in {"clean", "dirty"}
  /\ proj \in [state : States, current : Feature \cup {NoFeature},
               selected : Feature \cup {NoFeature}, start : 0..Tip,
               accepted : SUBSET Feature, integrated : SUBSET Feature, last : 0..Tip,
               imported : Feature \cup {NoFeature}]
  /\ prepared \in [Feature -> 0..Tip]
  /\ open.feature \in Feature \cup {NoFeature} /\ seq \in Nat
  /\ cycle.seq \in 0..seq /\ cycle.phase \in States \cup {"none", "feature_selected"}
  /\ doc \in States
  /\ reservation \in Process \cup {NoProcess}
  /\ pc \in [Process -> Steps] /\ deaths \in 0..MaxDeaths

\* A session works alone: on its feature's own branch, which starts from the planned
\* milestone commit, one that has its dependencies integrated, never on a feature that
\* was accepted or integrated already, and with no other engine past the reservation,
\* whatever deliver-feature, the operator or a second command did to the branches
\* between the plan, its dispatch, the preparation, the verification of the branch and
\* the execution lease (_execute_feature, _launch_lock).  That the commit is still the
\* milestone tip is not promised: nobody looks again after the verification.
SessionOnItsBase ==
  \A p \in Process : pc[p] \in {"launching", "running"} =>
    LET f == plan[p].feature IN
    /\ checkout = f /\ branch[f].base = plan[p].start /\ ~branch[f].implemented
    /\ DependenciesComplete(milestone[branch[f].base], f)
    /\ f \notin proj.accepted \cup proj.integrated
    /\ \A r \in Process \ {p} : pc[r] \in {"idle", "planned", "preflighted"}

\* The milestone gate runs, and passes, only on a milestone whose every feature
\* is integrated at the tip (_execute_projected_integration's next state,
\* _execute_milestone_gate).
GateOnlyWhenComplete ==
  /\ \A p \in Process : pc[p] = "gating" => MilestoneComplete(milestone[Tip])
  /\ proj.state = "milestone_ready_for_merge" => milestone[Tip].gate = "passed"

\* A cycle cache bound to the newest ledger record says what the ledger says
\* (_materialize_terminal_cycle_cache, _apply_cache_binding_recovery).
BoundCacheAgrees ==
  cycle.seq = seq /\ seq > 0 /\ open.kind = "none" => cycle.phase = View.state
=============================================================================
