--------------------------- MODULE FeatureRecovery ---------------------------
(***************************************************************************)
(* What becomes of one prepared feature whose execution ended without an   *)
(* accepted result.  Four routes bring it on: prelaunch recovery (nothing  *)
(* was launched), result recovery (the session's work is retained, its     *)
(* terminal envelope was invalid), validation repair (a model repairs work *)
(* that failed result recovery's host commands) and repair recovery (both  *)
(* repair sessions ended with the invalid envelope again).                 *)
(*                                                                         *)
(* The ledger is its list of transactions with what an inspection reads    *)
(* of them: mode, what it recovers, the snapshots and the outcome.  The    *)
(* work tree is a version of the implementation, who wrote the acceptance  *)
(* metadata, and whether there is a path that nobody authorised.  A check  *)
(* of fingerprints and the commit right after it are one step: an edit     *)
(* between the two is not told apart.                                      *)
(***************************************************************************)
EXTENDS Naturals, Sequences, FiniteSets

CONSTANTS
  Process,
  MaxVersion,        \* bound on versions of the implementation
  MaxTransactions,   \* bound on the ledger when a command begins
  MaxDrifts,         \* bound on edits by another user of the checkout
  MaxDeaths,         \* bound on process deaths
  Caller,            \* "command" line, or "autopilot" with its ownership file
  NoProcess

ASSUME RecoveryConstants ==
  /\ MaxVersion \in Nat \ {0}
  /\ MaxTransactions \in Nat
  /\ Caller \in {"command", "autopilot"}
  /\ NoProcess \notin Process

Version == 0..MaxVersion
Base == [commit |-> 0, impl |-> 0, meta |-> "plain"]
Recovering == {"result", "repair", "repair_recovery"}
MaxAttempts == 2

VARIABLES
  tree,         \* the work tree of the feature branch
  head,         \* the branch head: how many commits, and their content
  txns,         \* the transactions in the ledger
  open,         \* the one that is open, with the writer lease; 0 is none
  proj,         \* the projection: state, unresolved gate, accepted commit
  caches,       \* the recovery the cycle cache and the project document show last
  reservation,  \* the controller reservation
  owner,        \* the autopilot's ownership file
  pc, plan,     \* each process: next step, and the plan it follows
  drifts, deaths

vars == <<tree, head, txns, open, proj, caches, reservation, owner, pc, plan, drifts, deaths>>

Clean == tree = [impl |-> head.impl, meta |-> head.meta, extra |-> "none"]

\* the fingerprint of the allowed paths
Content(t) == [impl |-> t.impl, meta |-> t.meta]

Goto(p, step) == pc' = [pc EXCEPT ![p] = step]

NoCaches == [cycle |-> 0, controller |-> 0]

NoPlan == [route |-> "prelaunch", origin |-> 0, via |-> 0, attempt |-> 0,
           tree |-> [impl |-> 0, meta |-> "plain", extra |-> "none"], caches |-> NoCaches]

\* the finally clause
Leave(p) ==
  /\ Goto(p, "idle")
  /\ plan' = [plan EXCEPT ![p] = NoPlan]
  /\ reservation' = IF reservation = p THEN NoProcess ELSE reservation
  /\ owner' = IF owner = p THEN NoProcess ELSE owner

\* _restore_metadata
Restored(p) == [tree EXCEPT !.meta = plan[p].tree.meta]

-----------------------------------------------------------------------------
(* Transactions: begin, and an end that is an acceptance or a block.       *)

Transaction(mode, origin, via) ==
  [mode |-> mode, origin |-> origin, via |-> via, start |-> tree, end |-> tree,
   outcome |-> "open", attempts |-> <<>>]

Begin(p, mode) ==
  /\ txns' = Append(txns, Transaction(mode, plan[p].origin, plan[p].via))
  /\ open' = Len(txns) + 1

\* TransactionCompleted or TransactionBlocked with the terminal snapshot t,
\* the lease released, and the projection
End(outcome, t, state, gate, accepted) ==
  /\ txns' = [txns EXCEPT ![open].outcome = outcome, ![open].end = t]
  /\ open' = 0
  /\ proj' = [state |-> state, gate |-> gate, accepted |-> accepted]

\* mutant: an exhausted repair goes back to the gate
FailureStateGate(mode) == "human_decision_required"

\* the state a failure of each route is projected as
FailureState(mode) == IF mode = "result" THEN "human_decision_required" ELSE "review"

\* the except clause: block, if the lease is still there.  t is the tree it leaves.
Block(p, outcome, t) ==
  /\ tree' = t
  /\ End(outcome, t, FailureState(plan[p].route), proj.gate, proj.accepted)
  /\ Leave(p)

-----------------------------------------------------------------------------
(* The feature execution of the cycle engine, under the reservation.       *)

BeginExecution(p) ==
  /\ pc[p] = "idle" /\ reservation = NoProcess
  /\ Len(txns) < MaxTransactions
  /\ proj.state = "feature_preparing" /\ Clean /\ head = Base
  /\ open = 0
  /\ txns' = Append(txns, Transaction("execution", 0, 0))
  /\ open' = Len(txns) + 1
  /\ reservation' = p
  /\ Goto(p, "executing")
  /\ UNCHANGED <<tree, head, proj, caches, owner, plan, drifts, deaths>>

EndExecution(p, outcome, t, state, gate) ==
  /\ pc[p] = "executing"
  /\ tree' = t
  /\ End(outcome, t, state, gate, 0)
  /\ Leave(p)
  /\ UNCHANGED <<head, caches, drifts, deaths>>

\* ContextReadError, or the launcher's isolation check: nothing was launched
FailBeforeLaunch(p) ==
  \/ EndExecution(p, "context_failed", tree, "feature_preparing", proj.gate)
  \/ EndExecution(p, "isolation_failed", tree, "validation_failed", proj.gate)

\* the terminal envelope names another workflow: the work stays in the tree
ResultRetained(p) ==
  \E m \in {"plain", "session"} :
    EndExecution(p, "structured_invalid", [impl |-> 1, meta |-> m, extra |-> "none"],
                 "human_decision_required", open)

\* the session asks for a decision, and has changed nothing
DecisionRequired(p) ==
  EndExecution(p, "decision", tree, "human_decision_required", open)

-----------------------------------------------------------------------------
(* What each route authenticates.                                          *)

\* FEATURE_EXECUTION is the workflow of every mode but prelaunch recovery
LatestExecution ==
  LET X == {t \in DOMAIN txns : txns[t].mode # "prelaunch"}
  IN  IF X = {} THEN 0 ELSE CHOOSE t \in X : \A u \in X : u <= t

\* no reservation but the caller's own, no lease, no ownership file
Unowned(p) == reservation \in {NoProcess, p} /\ open = 0 /\ owner = NoProcess

\* FeaturePrelaunchRecovery.inspect: it reads no projected state
PrelaunchAuthentic(p, via) ==
  /\ via = LatestExecution /\ via # 0
  /\ txns[via].outcome \in {"context_failed", "isolation_failed"}
  /\ ~\E t \in DOMAIN txns : txns[t].mode = "prelaunch" /\ txns[t].via = via
                              /\ txns[t].outcome = "applied"
  /\ Clean /\ head = Base
  /\ Unowned(p) /\ reservation = NoProcess

\* the prelaunch recoveries between the preparation and the execution o
PrelaunchRecoveries(o) ==
  {t \in 1..(o - 1) : txns[t].mode = "prelaunch" /\ txns[t].outcome = "applied"}

\* prelaunch_recovery_authenticated: one at most, of a validation failure
LineageAuthentic(o) ==
  /\ Cardinality(PrelaunchRecoveries(o)) <= 1
  /\ \A t \in PrelaunchRecoveries(o) : txns[txns[t].via].outcome = "isolation_failed"

\* the exact topology of an execution that ended at the structured-output gate
OriginalTopology(o) == txns[o].mode = "execution" /\ txns[o].outcome = "structured_invalid"

\* original_transaction_not_recovered: no RecoveryApplied names it
NotRecovered(o) ==
  ~\E t \in DOMAIN txns : /\ txns[t].origin = o
                          /\ txns[t].outcome \in {"accepted", "complete_failed"}

\* _inspect_general
ResultAuthentic(p, o) ==
  /\ o = proj.gate /\ o # 0
  /\ proj.state = "human_decision_required"
  /\ OriginalTopology(o) /\ LineageAuthentic(o)
  /\ tree = txns[o].end /\ tree.extra = "none" /\ head = Base
  /\ NotRecovered(o)
  /\ Unowned(p)

\* a result recovery of o that failed before it had written or appended
\* anything, and whose snapshots are the tree
FailedRecovery(o, via) ==
  /\ via \in DOMAIN txns
  /\ txns[via].mode = "result" /\ txns[via].origin = o
  /\ txns[via].outcome \in {"command_failed", "metadata_failed"}
  /\ txns[via].start = tree /\ txns[via].end = tree

\* RetainedFeatureValidationRepair.inspect
RepairAuthentic(p, o, via) == ResultAuthentic(p, o) /\ FailedRecovery(o, via)

\* an exhausted repair of o, with its report
ExhaustedRepair(o, via) ==
  /\ via \in DOMAIN txns
  /\ txns[via].mode = "repair" /\ txns[via].origin = o
  /\ txns[via].outcome = "exhausted"

\* both attempts with the invalid envelope, each starting from what the one
\* before left
ChainAuthentic(via, o) ==
  LET a == txns[via].attempts IN
  /\ Len(a) = MaxAttempts
  /\ \A i \in 1..MaxAttempts : a[i].failure = "alias"
  /\ a[1].pre = Content(txns[o].end)
  /\ a[2].pre = a[1].post
  /\ a[2].post = Content(tree)

\* RetainedFeatureRepairRecovery.inspect: the changed paths are the allowed
\* ones all along, so the original session has edited the metadata too
RepairRecoveryAuthentic(p, o, via) ==
  /\ ExhaustedRepair(o, via) /\ ChainAuthentic(via, o)
  /\ o = proj.gate /\ proj.state = "review"
  /\ txns[via].start.meta # "plain"
  /\ tree = txns[via].end /\ tree.extra = "none" /\ head = Base
  /\ Unowned(p)

Authentic(p, e) ==
  CASE e.route = "prelaunch" -> PrelaunchAuthentic(p, e.via)
    [] e.route = "result" -> ResultAuthentic(p, e.origin)
    [] e.route = "repair" -> RepairAuthentic(p, e.origin, e.via)
    [] e.route = "repair_recovery" -> RepairRecoveryAuthentic(p, e.origin, e.via)

-----------------------------------------------------------------------------
(* A command names its route and transactions; the plan it inspects holds  *)
(* the fingerprints of the tree.                                           *)

\* what the projection, or the command line, offers
OfferedPrelaunch == {[origin |-> 0, via |-> LatestExecution]}

OfferedResult == {[origin |-> proj.gate, via |-> 0]}

OfferedRepair ==
  {[origin |-> proj.gate, via |-> t] : t \in {t \in DOMAIN txns : txns[t].mode = "result"}}

OfferedRepairRecovery ==
  {[origin |-> txns[t].origin, via |-> t] : t \in {t \in DOMAIN txns : txns[t].mode = "repair"}}

Offered(route) ==
  CASE route = "prelaunch" -> OfferedPrelaunch
    [] route = "result" -> OfferedResult
    [] route = "repair" -> OfferedRepair
    [] route = "repair_recovery" -> OfferedRepairRecovery

\* the plan of an inspection: the fingerprints of what it saw
Inspected(p) == [plan[p] EXCEPT !.tree = tree]

Invoke(p, route) ==
  /\ pc[p] = "idle" /\ Len(txns) < MaxTransactions
  /\ Caller = "autopilot" => owner = NoProcess
  /\ owner' = IF Caller = "autopilot" THEN p ELSE owner
  /\ \E o \in Offered(route) :
       /\ o.origin # 0 \/ o.via # 0
       /\ plan' = [plan EXCEPT ![p] = [route |-> route, origin |-> o.origin, via |-> o.via,
                                       tree |-> NoPlan.tree, attempt |-> 0, caches |-> NoCaches]]
  /\ Goto(p, "invoked")
  /\ UNCHANGED <<tree, head, txns, open, proj, caches, reservation, drifts, deaths>>

Inspect(p) ==
  /\ pc[p] = "invoked"
  /\ IF Authentic(p, plan[p])
     THEN /\ plan' = [plan EXCEPT ![p] = Inspected(p)]
          /\ Goto(p, IF plan[p].route = "prelaunch" THEN "reserved" ELSE "planned")
          /\ UNCHANGED <<reservation, owner>>
     ELSE Leave(p)
  /\ UNCHANGED <<tree, head, txns, open, proj, caches, drifts, deaths>>

\* DurableLock.acquire; prelaunch recovery takes no reservation
Reserve(p) ==
  /\ pc[p] = "planned"
  /\ IF reservation = NoProcess
     THEN reservation' = p /\ Goto(p, "reserved") /\ UNCHANGED <<owner, plan>>
     ELSE Leave(p)
  /\ UNCHANGED <<tree, head, txns, open, proj, caches, drifts, deaths>>

\* inspected again: the same plan, or nothing happens
Revalidate(p) ==
  /\ pc[p] = "reserved"
  /\ IF Authentic(p, plan[p]) /\ tree = plan[p].tree
     THEN Goto(p, "verified") /\ UNCHANGED <<reservation, owner, plan>>
     ELSE Leave(p)
  /\ UNCHANGED <<tree, head, txns, open, proj, caches, drifts, deaths>>

\* mutant: the writer lease of somebody else is not looked at
MayBeginAnyhow(p) == head = Base /\ (plan[p].route = "prelaunch" => Clean)

\* kernel.begin: on the branch and head of the plan; only prelaunch recovery
\* asks for a clean tree
MayBegin(p) == open = 0 /\ head = Base /\ (plan[p].route = "prelaunch" => Clean)

BeginRecovery(p) ==
  /\ pc[p] = "verified"
  /\ IF MayBegin(p)
     THEN /\ Begin(p, plan[p].route)
          /\ Goto(p, CASE plan[p].route = "prelaunch" -> "prelaunch"
                       [] plan[p].route = "repair" -> "session"
                       [] OTHER -> "host")
          /\ UNCHANGED <<reservation, owner, plan>>
     ELSE Leave(p) /\ UNCHANGED <<txns, open>>
  /\ UNCHANGED <<tree, head, proj, caches, drifts, deaths>>

-----------------------------------------------------------------------------
(* Prelaunch recovery: finalize_clean_prelaunch_recovery and complete, the *)
(* project document, the cycle cache.  Nothing catches a failure: before   *)
(* the completion it leaves the transaction open, after it the two files   *)
(* as they are.                                                            *)
CompletePrelaunch(p) ==
  /\ pc[p] = "prelaunch"
  /\ IF Clean
     THEN /\ End("applied", tree, "feature_preparing", proj.gate, proj.accepted)
          /\ plan' = [plan EXCEPT ![p].via = open]
          /\ Goto(p, "controller_document")
          /\ UNCHANGED <<reservation, owner>>
     ELSE Leave(p) /\ UNCHANGED <<txns, open, proj>>
  /\ UNCHANGED <<tree, head, caches, drifts, deaths>>

\* _reconcile_projection_compatibility_cache, whatever the ledger says by now
WriteControllerDocument(p) ==
  /\ pc[p] = "controller_document"
  /\ \/ /\ caches' = [caches EXCEPT !.controller = plan[p].via]
        /\ Goto(p, "cycle_file")
        /\ UNCHANGED <<reservation, owner, plan>>
     \/ Leave(p) /\ UNCHANGED caches
  /\ UNCHANGED <<tree, head, txns, open, proj, drifts, deaths>>

\* mutant: the cycle cache is not compared with the ledger's projection
WriteCycleFileUnseen(p) ==
  /\ pc[p] = "cycle_file"
  /\ caches' \in {caches, [caches EXCEPT !.cycle = plan[p].via]}
  /\ Leave(p)
  /\ UNCHANGED <<tree, head, txns, open, proj, drifts, deaths>>

\* _materialize_terminal_cycle_cache, which refuses unless the ledger still
\* projects what was completed; the file may be unreadable too
WriteCycleFile(p) ==
  /\ pc[p] = "cycle_file"
  /\ \/ UNCHANGED caches
     \/ /\ open = 0 /\ proj.state = "feature_preparing"
        /\ caches' = [caches EXCEPT !.cycle = plan[p].via]
  /\ Leave(p)
  /\ UNCHANGED <<tree, head, txns, open, proj, drifts, deaths>>

-----------------------------------------------------------------------------
(* Result recovery and repair recovery: the host commands, the metadata,   *)
(* one commit.                                                             *)

\* a command that exits nonzero ends the recovery
HostCommandFails(p) ==
  /\ pc[p] = "host"
  /\ Block(p, "command_failed", tree)
  /\ UNCHANGED <<head, caches, drifts, deaths>>

\* mutant: the gate is resolved when the host commands have passed
HostCommandsPassResolving(p) ==
  /\ pc[p] = "host"
  /\ proj' = [proj EXCEPT !.gate = 0]
  /\ Goto(p, "metadata")
  /\ UNCHANGED <<tree, head, txns, open, caches, reservation, owner, plan, drifts, deaths>>

HostCommandsPass(p) ==
  /\ pc[p] = "host"
  /\ Goto(p, "metadata")
  /\ UNCHANGED <<tree, head, txns, open, proj, caches, reservation, owner, plan, drifts, deaths>>

\* preserved_implementation_fingerprint
Preserved(p) == tree.impl = plan[p].tree.impl

\* mutant: rendering fails after the files are written, and they stay
WriteMetadataKeeping(p) ==
  /\ pc[p] = "metadata"
  /\ \/ /\ tree' = [tree EXCEPT !.meta = "accepted"]
        /\ Goto(p, "finalize")
        /\ UNCHANGED <<txns, open, proj, reservation, owner, plan>>
     \/ Block(p, "metadata_failed", [tree EXCEPT !.meta = "accepted"])
  /\ UNCHANGED <<head, caches, drifts, deaths>>

\* _apply_general_acceptance_metadata, which may not know how to render it
WriteMetadata(p) ==
  /\ pc[p] = "metadata"
  /\ \/ /\ Preserved(p)
        /\ tree' = [tree EXCEPT !.meta = "accepted"]
        /\ Goto(p, "finalize")
        /\ UNCHANGED <<txns, open, proj, reservation, owner, plan>>
     \/ Block(p, "metadata_failed", tree)
  /\ UNCHANGED <<head, caches, drifts, deaths>>

\* the commit of the tree
Commit == head' = [commit |-> head.commit + 1, impl |-> tree.impl, meta |-> tree.meta]

\* mutant: the implementation is not compared again after the metadata
FinalizeWithoutCheck(p) ==
  /\ pc[p] = "finalize"
  /\ tree.extra = "none"
  /\ Commit /\ Goto(p, "resolve")
  /\ UNCHANGED <<tree, txns, open, proj, caches, reservation, owner, plan, drifts, deaths>>

\* finalize_deterministic_feature_recovery, after the two checks before it
Finalize(p) ==
  /\ pc[p] = "finalize"
  /\ Preserved(p) /\ tree.extra = "none"
  /\ Commit /\ Goto(p, "resolve")
  /\ UNCHANGED <<tree, txns, open, proj, caches, reservation, owner, plan, drifts, deaths>>

\* A check fails: the metadata is put back.
FinalizeRefused(p) ==
  /\ pc[p] = "finalize"
  /\ ~(Preserved(p) /\ tree.extra = "none")
  /\ Block(p, "metadata_failed", Restored(p))
  /\ UNCHANGED <<head, caches, drifts, deaths>>

\* git fails, with the events of the finalization already in the ledger
GitFails(p) ==
  /\ pc[p] = "finalize"
  /\ Block(p, "git_failed", Restored(p))
  /\ UNCHANGED <<head, caches, drifts, deaths>>

\* The commit is there, but a path appeared beside it: nothing is put back.
FinalizeUnclean(p) ==
  /\ pc[p] = "finalize" /\ drifts < MaxDrifts
  /\ Preserved(p) /\ tree.extra = "none"
  /\ Commit
  /\ Block(p, "commit_unclean", [tree EXCEPT !.extra = "foreign"])
  /\ drifts' = drifts + 1
  /\ UNCHANGED <<caches, deaths>>

-----------------------------------------------------------------------------
(* Validation repair: at most two sessions, each validated by the host     *)
(* with the acceptance metadata in place.                                  *)


\* launcher.launch: the session leaves some version, or edits a path that it
\* may not, which ends the repair
RunRepairSession(p) ==
  /\ pc[p] = "session"
  /\ \/ /\ \E v \in Version \ {0}, m \in {tree.meta, "session"} :
             tree' = [tree EXCEPT !.impl = v, !.meta = m]
        /\ Goto(p, "attempt")
        /\ plan' = [plan EXCEPT ![p].attempt = @ + 1, ![p].tree = tree]
        /\ UNCHANGED <<txns, open, proj, reservation, owner>>
     \/ Block(p, "unexpected_paths", [tree EXCEPT !.extra = "foreign"])
  /\ UNCHANGED <<head, caches, drifts, deaths>>

(* The session returned no authenticated result, the metadata could not be *)
(* rendered, or a host command failed; metadata that was written is put    *)
(* back.  "alias" is the envelope of another workflow.  An environment     *)
(* failure ends the loop; with two attempts, so does any second one.       *)
AttemptFails(p, failure) ==
  LET entry == [failure |-> failure, pre |-> Content(plan[p].tree), post |-> Content(tree)]
      chain == Append(txns[open].attempts, entry)
  IN  /\ pc[p] = "attempt"
      /\ IF failure = "environment" \/ plan[p].attempt = MaxAttempts
         THEN /\ txns' = [txns EXCEPT ![open].attempts = chain, ![open].end = tree,
                                      ![open].outcome = "exhausted"]
              /\ open' = 0
              /\ proj' = [proj EXCEPT !.state = FailureState("repair")]
              /\ Leave(p)
         ELSE /\ txns' = [txns EXCEPT ![open].attempts = chain]
              /\ Goto(p, "session")
              /\ UNCHANGED <<open, proj, reservation, owner, plan>>
      /\ UNCHANGED <<tree, head, caches, drifts, deaths>>

\* the metadata is written and the host commands pass
AttemptPasses(p) ==
  /\ pc[p] = "attempt"
  /\ plan' = [plan EXCEPT ![p].tree = tree]
  /\ tree' = [tree EXCEPT !.meta = "accepted"]
  /\ Goto(p, "validate")
  /\ UNCHANGED <<head, txns, open, proj, caches, reservation, owner, drifts, deaths>>

\* accept_result, validate and finalize; what the host validated is not
\* compared with what is committed
FinalizeRepair(p) ==
  /\ pc[p] = "validate"
  /\ IF tree.extra = "none"
     THEN /\ Commit /\ Goto(p, "resolve")
          /\ UNCHANGED <<tree, txns, open, proj, reservation, owner, plan>>
     ELSE /\ Block(p, "repair_refused", Restored(p))
          /\ UNCHANGED head
  /\ UNCHANGED <<caches, drifts, deaths>>

-----------------------------------------------------------------------------
(* From the commit to the end, the same on the three routes.               *)

\* the supersession checkpoints, then HumanGateResolved
ResolveGate(p) ==
  /\ pc[p] = "resolve"
  /\ proj' = [proj EXCEPT !.gate = IF @ = plan[p].origin THEN 0 ELSE @]
  /\ Goto(p, "complete")
  /\ UNCHANGED <<tree, head, txns, open, caches, reservation, owner, plan, drifts, deaths>>

\* kernel.complete, which wants the commit and a clean tree
Complete(p) ==
  /\ pc[p] = "complete"
  /\ IF Clean
     THEN /\ End("accepted", tree, "integration_pending", proj.gate, head.commit)
          /\ plan' = [plan EXCEPT ![p].via = open]
          /\ Goto(p, "cycle_cache")
          /\ UNCHANGED <<tree, reservation, owner>>
     ELSE Block(p, "complete_failed", tree)
  /\ UNCHANGED <<head, caches, drifts, deaths>>

\* _materialize_general_compatibility_caches: the originals are read, then
\* the cycle cache and the project document written; a failure puts both back
WriteCycleCache(p) ==
  /\ pc[p] = "cycle_cache"
  /\ \/ /\ caches' = [caches EXCEPT !.cycle = plan[p].via]
        /\ plan' = [plan EXCEPT ![p].caches = caches]
        /\ Goto(p, "controller_cache")
        /\ UNCHANGED <<reservation, owner>>
     \/ Leave(p) /\ UNCHANGED caches
  /\ UNCHANGED <<tree, head, txns, open, proj, drifts, deaths>>

WriteControllerCache(p) ==
  /\ pc[p] = "controller_cache"
  /\ \/ caches' = [caches EXCEPT !.controller = plan[p].via]
     \/ caches' = plan[p].caches
  /\ Leave(p)
  /\ UNCHANGED <<tree, head, txns, open, proj, drifts, deaths>>

-----------------------------------------------------------------------------
(* The environment.                                                        *)

\* another user of the checkout edits a feature file, or adds a path
Drift ==
  /\ drifts < MaxDrifts
  /\ drifts' = drifts + 1
  /\ \/ \E v \in Version : v # tree.impl /\ tree' = [tree EXCEPT !.impl = v]
     \/ tree.extra = "none" /\ tree' = [tree EXCEPT !.extra = "foreign"]
  /\ UNCHANGED <<head, txns, open, proj, caches, reservation, owner, pc, plan, deaths>>

\* The reservation, the lease and the transaction stay behind.  A command
\* that holds nothing yet leaves nothing.
Die(p) ==
  /\ deaths < MaxDeaths /\ pc[p] # "dead"
  /\ p \in {reservation, owner} \/ pc[p] \in {"prelaunch", "controller_document", "cycle_file"}
  /\ deaths' = deaths + 1
  /\ Goto(p, "dead")
  /\ UNCHANGED <<tree, head, txns, open, proj, caches, reservation, owner, plan, drifts>>

-----------------------------------------------------------------------------
Init ==
  /\ tree = [impl |-> 0, meta |-> "plain", extra |-> "none"]
  /\ head = Base
  /\ txns = <<>> /\ open = 0
  /\ proj = [state |-> "feature_preparing", gate |-> 0, accepted |-> 0]
  /\ caches = NoCaches
  /\ reservation = NoProcess /\ owner = NoProcess
  /\ pc = [p \in Process |-> "idle"]
  /\ plan = [p \in Process |-> NoPlan]
  /\ drifts = 0 /\ deaths = 0

Execute(p) ==
  BeginExecution(p) \/ FailBeforeLaunch(p) \/ ResultRetained(p) \/ DecisionRequired(p)

Recover(p) ==
  \/ Inspect(p) \/ Reserve(p) \/ Revalidate(p) \/ BeginRecovery(p)
  \/ CompletePrelaunch(p) \/ WriteControllerDocument(p) \/ WriteCycleFile(p)
  \/ HostCommandFails(p) \/ HostCommandsPass(p) \/ WriteMetadata(p)
  \/ Finalize(p) \/ FinalizeRefused(p) \/ GitFails(p) \/ FinalizeUnclean(p)
  \/ RunRepairSession(p) \/ AttemptPasses(p) \/ FinalizeRepair(p)
  \/ ResolveGate(p) \/ Complete(p) \/ WriteCycleCache(p) \/ WriteControllerCache(p)
  \/ \E f \in {"alias", "environment", "other"} : AttemptFails(p, f)

Next ==
  \/ \E p \in Process : Execute(p) \/ Recover(p) \/ Die(p)
  \/ \E p \in Process, r \in {"prelaunch"} \cup Recovering : Invoke(p, r)
  \/ Drift

Spec == Init /\ [][Next]_vars

(* A started command goes on, and whoever asks for result recovery again   *)
(* and again is served: there is one process in the checks of liveness.    *)
FairSpec ==
  /\ Spec
  /\ \A p \in Process : WF_vars(Recover(p)) /\ SF_vars(Invoke(p, "result"))

-----------------------------------------------------------------------------
Tree == [impl : Version, meta : {"plain", "session", "accepted"}, extra : {"none", "foreign"}]

\* every state is one of those the code's vocabularies name, a transaction
\* is open exactly while its record says so, only one is, and the gate and
\* the caches name transactions of the ledger
TypeOK ==
  /\ tree \in Tree
  /\ head.commit \in Nat /\ head.impl \in Version
  /\ \A t \in DOMAIN txns :
       /\ txns[t].mode \in {"execution", "prelaunch"} \cup Recovering
       /\ {txns[t].start, txns[t].end} \subseteq Tree
       /\ (txns[t].outcome = "open") <=> (t = open)
  /\ proj.state \in {"feature_preparing", "validation_failed", "human_decision_required",
                     "review", "integration_pending"}
  /\ {proj.gate, caches.cycle, caches.controller} \subseteq 0..Len(txns)
  /\ {reservation, owner} \subseteq Process \cup {NoProcess}

(* What a deterministic recovery accepts is byte for byte what a session   *)
(* left: result recovery the implementation in the original's terminal     *)
(* snapshot, repair recovery what the second repair session left, whoever  *)
(* edits the checkout meanwhile (feature_result_recovery.py: the three     *)
(* fingerprint comparisons of _apply_general).                             *)
RetainedBytesPreserved ==
  \A t \in DOMAIN txns : txns[t].outcome = "accepted" =>
    /\ txns[t].mode = "result" => txns[t].end.impl = txns[txns[t].origin].end.impl
    /\ txns[t].mode = "repair_recovery" =>
         txns[t].end.impl = txns[txns[t].via].attempts[MaxAttempts].post.impl

(* HumanGateResolved is appended for a result gate only when the feature's *)
(* commit is on its branch.                                                *)
GateResolvedByCommit ==
  (\E t \in DOMAIN txns : txns[t].outcome = "structured_invalid") /\ proj.gate = 0
    => head.commit = 1

(* MAX_ATTEMPTS bounds the repair sessions of a retained result over all   *)
(* repairs of it, not only within one.                                     *)
RepairSessionsBounded ==
  \A o \in DOMAIN txns :
    Cardinality({ti \in {t \in DOMAIN txns : txns[t].mode = "repair" /\ txns[t].origin = o}
                        \X (1..MaxAttempts) : ti[2] <= Len(txns[ti[1]].attempts)}) <= MaxAttempts

(* A recovery that fails without a commit leaves no acceptance metadata    *)
(* behind, and a deterministic one leaves the tree as it found it, unless  *)
(* somebody else edited it (retained_diff_preserved).                      *)
FailurePreservesDiff ==
  \A t \in DOMAIN txns :
    /\ txns[t].mode \in Recovering
    /\ txns[t].outcome \notin {"open", "accepted", "commit_unclean", "complete_failed"}
    => /\ txns[t].end.meta # "accepted"
       /\ txns[t].mode # "repair" /\ drifts = 0 => txns[t].end = txns[t].start

(* The project document is not left behind the cycle cache: they show the  *)
(* same recovery, or the document is the last of a prelaunch recovery,     *)
(* which has no handler, or the second write is still to come, by a        *)
(* command that is at it or died there with the reservation.  A failed     *)
(* second write puts both back, and a prelaunch recovery that comes late   *)
(* does not overwrite the cycle cache.                                     *)
CachesAgree ==
  \/ caches.cycle = caches.controller
  \/ caches.controller # 0 /\ txns[caches.controller].mode = "prelaunch"
  \/ \E p \in Process : /\ pc[p] = "controller_cache" \/ (pc[p] = "dead" /\ reservation = p)
                        /\ plan[p].via = caches.cycle

-----------------------------------------------------------------------------
\* a retained result that nothing and nobody stands in the way of
RetainedResult ==
  /\ Len(txns) < MaxTransactions /\ open = 0
  /\ proj.gate # 0 /\ proj.state = "human_decision_required"
  /\ txns[proj.gate].outcome = "structured_invalid"
  /\ LineageAuthentic(proj.gate) /\ NotRecovered(proj.gate)
  /\ tree = txns[proj.gate].end /\ head = Base

(* A retained result is taken up by a recovery transaction, when whoever   *)
(* drives the project keeps invoking the registered route for it.          *)
RetainedResultIsRecovered ==
  RetainedResult ~> (\E t \in DOMAIN txns : txns[t].mode = "result")
=============================================================================
