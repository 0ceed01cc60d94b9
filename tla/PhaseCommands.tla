--------------------------- MODULE PhaseCommands ---------------------------
(***************************************************************************)
(* What the commands that deliver a feature share: the milestone branch,   *)
(* the feature branches, the two evidence ledgers and the writer lease,    *)
(* and the deterministic (model-free) transactions they run over them.     *)
(*                                                                         *)
(* The steps of one transaction are those of WorkflowKernel.  The events   *)
(* a handler appends one after the other are its `todo`: each is an action *)
(* and the process may die between any two.  What RecoveryPlanner does in  *)
(* many steps with an interrupted transaction is one action here, with the *)
(* outcome it has for these workflows.                                     *)
(*                                                                         *)
(* Data.  A milestone commit is what made it: the squashed or picked       *)
(* implementation of one version of a feature, one of the two metadata     *)
(* commits of its integration, or somebody's else.  The queue file is      *)
(* tracked, so the status of a feature is a function of the branch.  A     *)
(* candidate is a version of a feature branch and the milestone commit it  *)
(* was built on.                                                           *)
(***************************************************************************)
EXTENDS LedgerContract, FiniteSets

CONSTANTS
  Process,       \* processes that run conveyor commands
  Delivery,      \* those that run deliver-feature and not the cycle engine
  Feature,
  Dependencies,  \* the features each feature depends on
  Ranged,        \* features whose branch has several commits
  Txn,           \* transaction ids, handed out in order
  MaxVersion,    \* bound on the candidates of one feature
  MaxCrashes,    \* bound on process deaths
  MaxDrift,      \* bound on what others do to the repository
  NoTxn, NoProcess, NoFeature

ASSUME PhaseConstants ==
  /\ Delivery \subseteq Process
  /\ Dependencies \in [Feature -> SUBSET Feature]
  /\ Ranged \subseteq Feature
  /\ Txn \subseteq Nat
  /\ MaxVersion \in Nat /\ MaxCrashes \in Nat /\ MaxDrift \in Nat
  /\ NoTxn \notin Txn /\ NoProcess \notin Process /\ NoFeature \notin Feature

VARIABLES
  milestone,   \* the commits of the milestone branch
  cand,        \* per feature: version of the branch, milestone commit it is on
  tree,        \* the worktree the milestone is checked out in
  hist,        \* the event types of each transaction
  fact,        \* payload facts of each transaction
  ended,       \* the transactions of the main ledger, by terminal event
  state,       \* current_state of the main ledger's projection
  current,     \* its current feature
  lease,       \* the transaction of the writer lease file, or NoTxn
  holder,      \* the live process the lease names, or NoProcess
  pc, cur,     \* the next step of each process, its transaction
  todo,        \* the events it appends before that step
  crashes, drift

repository == <<milestone, cand, tree>>
book == <<hist, fact, ended, state, current>>
lock == <<lease, holder>>
control == <<pc, cur, todo>>
bounds == <<crashes, drift>>
phaseVars == <<repository, book, lock, control, bounds>>

CommitKinds == {"base", "pick", "marking", "passed", "failed", "outside"}

Commit(kind, f) == [kind |-> kind, feature |-> f, ver |-> 0]

\* the implementation of version v of f
Pick(f, v) == [kind |-> "pick", feature |-> f, ver |-> v]

Tip == Len(milestone)

Fact ==
  [kind : {"none", "acceptance", "integration"}, main : {TRUE, FALSE},
   feature : Feature \cup {NoFeature}, ver : Nat, start : Nat,
   class : {"open", "FEATURE_ACCEPTED", "INTEGRATED", "RECOVERED_COMPLETION",
            "VALIDATION_FAILED", "SEMANTIC_CONFLICT", "SUPERSEDED",
            "TERMINAL_INTEGRATION_FAILURE", "FEATURE_VALIDATION_FAILED"},
   reference : {"none", "SafetyViolation", "validation", "other"},
   of : Txn \cup {NoTxn}, evidence : Nat]

NoFact ==
  [kind |-> "none", main |-> TRUE, feature |-> NoFeature, ver |-> 0, start |-> 0,
   class |-> "open", reference |-> "none", of |-> NoTxn, evidence |-> 0]

Recorded(t, type) == Has(hist[t], type)

Incomplete(main) == {t \in Txn : hist[t] # <<>> /\ fact[t].main = main /\ ~Terminated(hist[t])}

\* the status of f in the queue file of the milestone tip
QueueStatus(f) ==
  LET marks == {i \in DOMAIN milestone :
                  milestone[i].feature = f /\ milestone[i].kind \in {"marking", "passed", "failed"}}
  IN  IF marks = {} THEN "pending"
      ELSE milestone[CHOOSE i \in marks : \A j \in marks : j <= i].kind

Integrated == {f \in Feature : QueueStatus(f) = "passed"}

-----------------------------------------------------------------------------
Owns(p) == lease = cur[p] /\ holder = p

Ready(p, step) == pc[p] = step /\ todo[p] = <<>>

Goto(p, step, events) ==
  /\ pc' = [pc EXCEPT ![p] = step]
  /\ todo' = [todo EXCEPT ![p] = events]

Leave(p) ==
  /\ pc' = [pc EXCEPT ![p] = "idle"]
  /\ cur' = [cur EXCEPT ![p] = NoTxn]
  /\ todo' = [todo EXCEPT ![p] = <<>>]

\* The command is over without releasing: its lease names a dead process.
Abandon(p) ==
  /\ Leave(p)
  /\ holder' = IF holder = p THEN NoProcess ELSE holder
  /\ UNCHANGED lease

Fresh(t) == fact[t] = NoFact /\ \A u \in Txn : u < t => fact[u] # NoFact

(* begin and begin_for_branch up to the creation of the lease file.        *)
OpenTransaction(p, t, facts) ==
  /\ pc[p] = "idle"
  /\ Fresh(t)
  /\ lease = NoTxn
  /\ fact' = [fact EXCEPT ![t] = facts]
  /\ lease' = t /\ holder' = p
  /\ cur' = [cur EXCEPT ![p] = t]
  /\ UNCHANGED <<repository, hist, ended, state, current, bounds>>

(* One append of the events the handler has decided on.                    *)
EmitNext(p) ==
  /\ todo[p] # <<>>
  /\ ValidateAppend(hist[cur[p]], Head(todo[p]))
  /\ hist' = [hist EXCEPT ![cur[p]] = Append(@, Head(todo[p]))]
  /\ todo' = [todo EXCEPT ![p] = Tail(@)]
  /\ UNCHANGED <<repository, fact, ended, state, current, lock, pc, cur, bounds>>

(* A terminal event, and what the projection folds from it.                *)
Terminal(p, type, class, reference, next) ==
  LET t == cur[p] IN
  /\ ValidateAppend(hist[t], type)
  /\ hist' = [hist EXCEPT ![t] = Append(@, type)]
  /\ fact' = [fact EXCEPT ![t].class = class, ![t].reference = reference]
  /\ IF fact[t].main
     THEN /\ ended' = Append(ended, t)
          /\ state' = next
          /\ current' = IF class = "INTEGRATED" THEN NoFeature ELSE fact[t].feature
     ELSE UNCHANGED <<ended, state, current>>

\* complete or block, then the tail both share
End(p, type, class, reference, next) ==
  /\ Terminal(p, type, class, reference, next)
  /\ Goto(p, "releasing", <<>>)
  /\ UNCHANGED <<repository, lock, cur, bounds>>

ReleaseLease(p) ==
  /\ Ready(p, "releasing")
  /\ lease' = IF Owns(p) THEN NoTxn ELSE lease
  /\ holder' = IF Owns(p) THEN NoProcess ELSE holder
  /\ Goto(p, "released", <<"LeaseReleased", "ProjectionUpdated">>)
  /\ UNCHANGED <<repository, book, cur, bounds>>

Finish(p) ==
  /\ Ready(p, "released")
  /\ Leave(p)
  /\ UNCHANGED <<repository, book, lock, bounds>>

-----------------------------------------------------------------------------
(* RecoveryPlanner.  Its apply is the one of a direct caller: what keeps   *)
(* the engine's own commands from getting that far is in RecoveryPlanner.  *)

Stale == lease # NoTxn /\ holder = NoProcess

\* the checkout is the one t started from
AtStart(t) ==
  /\ tree = "clean"
  /\ IF fact[t].kind = "integration" THEN Tip = fact[t].start
     ELSE cand[fact[t].feature].ver = fact[t].ver

Resumable(t) == AtStart(t) /\ ~Recorded(t, "CommitFinalized")

\* its final commit is HEAD: only the terminal event is missing
Finalizable(t) ==
  /\ Recorded(t, "CommitFinalized") /\ tree # "conflict"
  /\ IF fact[t].kind = "integration" THEN Tip = fact[t].evidence
     ELSE cand[fact[t].feature].ver = fact[t].ver

(* An incomplete transaction is superseded where it started, or completed  *)
(* when its commit is HEAD.  That completion takes its payload from the    *)
(* accepted session result; a deterministic transaction has none.  Any     *)
(* other one is left to a human.                                           *)
RecoverIncomplete(p, t) ==
  /\ pc[p] = "idle" /\ p \notin Delivery
  /\ Incomplete(TRUE) = {t}
  /\ lease = NoTxn \/ (lease = t /\ Stale)
  /\ lease' = NoTxn /\ UNCHANGED holder
  /\ \/ /\ Finalizable(t)
        /\ hist' = [hist EXCEPT ![t] = @ \o <<"TransactionCompleted", "RecoveryApplied">>]
        /\ fact' = [fact EXCEPT ![t].class = "RECOVERED_COMPLETION"]
        /\ state' = IF fact[t].kind = "integration" THEN "integrating" ELSE "feature_review"
     \/ /\ Resumable(t)
        /\ hist' = [hist EXCEPT ![t] =
              @ \o <<"RecoveryApplied", "LeaseAcquired", "TransactionSuperseded">>]
        /\ fact' = [fact EXCEPT ![t].class = "SUPERSEDED"]
        /\ state' = IF fact[t].kind = "integration" THEN "integration_pending"
                    ELSE "feature_review"
  /\ ended' = Append(ended, t)
  /\ UNCHANGED <<repository, current, control, bounds>>

(* A stale lease whose transaction has ended, or is unknown to the main    *)
(* ledger, is archived.                                                    *)
ArchiveLease(p) ==
  /\ pc[p] = "idle" /\ p \notin Delivery
  /\ Stale /\ lease \notin Incomplete(TRUE)
  /\ Incomplete(TRUE) = {}
  /\ lease' = NoTxn
  /\ UNCHANGED <<repository, book, holder, control, bounds>>

-----------------------------------------------------------------------------
Die(p) ==
  /\ pc[p] # "idle"
  /\ crashes < MaxCrashes
  /\ crashes' = crashes + 1
  /\ Abandon(p)
  /\ UNCHANGED <<repository, book, drift>>

(* Others commit to the milestone, dirty the worktree or clean it up.      *)
Drift ==
  /\ drift < MaxDrift
  /\ drift' = drift + 1
  /\ \/ milestone' = Append(milestone, Commit("outside", NoFeature)) /\ UNCHANGED tree
     \/ tree' \in {"clean", "dirty"} \ {tree} /\ UNCHANGED milestone
  /\ UNCHANGED <<cand, book, lock, control, crashes>>

\* The operator removes the file of a stale lease.
RemoveLease ==
  /\ Stale /\ drift < MaxDrift
  /\ drift' = drift + 1
  /\ lease' = NoTxn
  /\ UNCHANGED <<repository, book, holder, control, crashes>>

(* The feature session: a candidate on top of the milestone as it is now,  *)
(* the first one or a replacement.                                         *)
Implement(f) ==
  /\ cand[f].ver < MaxVersion /\ QueueStatus(f) = "pending"
  /\ cand' = [cand EXCEPT ![f] = [ver |-> @.ver + 1, base |-> Tip]]
  /\ UNCHANGED <<milestone, tree, book, lock, control, bounds>>

\* A migrated project may have integrated a feature before it had a ledger.
Base == <<Commit("base", NoFeature)>>
Independent == {f \in Feature : Dependencies[f] = {}}

Init ==
  /\ milestone \in {Base} \cup {Append(Base, Commit("passed", f)) : f \in Independent}
  /\ cand = [f \in Feature |-> [ver |-> 0, base |-> 0]]
  /\ tree = "clean"
  /\ hist = [t \in Txn |-> <<>>]
  /\ fact = [t \in Txn |-> NoFact]
  /\ ended = <<>>
  /\ state = "feature_running"
  /\ current = NoFeature
  /\ lease = NoTxn /\ holder = NoProcess
  /\ pc = [p \in Process |-> "idle"]
  /\ cur = [p \in Process |-> NoTxn]
  /\ todo = [p \in Process |-> <<>>]
  /\ crashes = 0 /\ drift = 0

Shared ==
  \/ Drift
  \/ RemoveLease
  \/ \E f \in Feature : Implement(f)
  \/ \E p \in Process : EmitNext(p) \/ ReleaseLease(p) \/ Finish(p) \/ Die(p) \/ ArchiveLease(p)
  \/ \E p \in Process, t \in Txn : RecoverIncomplete(p, t)
=============================================================================
