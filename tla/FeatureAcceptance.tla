------------------------- MODULE FeatureAcceptance -------------------------
(***************************************************************************)
(* accept_feature (acceptance.py): the controller records, in a            *)
(* transaction that changes no ref, that one exact candidate on one exact  *)
(* milestone commit was validated.  The record in the main ledger is all   *)
(* the authority a later integration has.                                  *)
(***************************************************************************)
EXTENDS PhaseCommands

(* inspect_acceptance_candidate: a clean worktree, the branch at the       *)
(* candidate, the milestone at its base.  Its history is linear, of one    *)
(* commit or several.                                                      *)
InspectAcceptanceCandidate(f) ==
  tree = "clean" /\ cand[f].ver > 0 /\ cand[f].base = Tip

\* completed acceptances of version v of f
Acceptances(f, v) ==
  {t \in Txn : /\ fact[t].kind = "acceptance" /\ fact[t].class = "FEATURE_ACCEPTED"
               /\ fact[t].feature = f /\ fact[t].ver = v}

(* accept_feature up to the look for an earlier acceptance of the same     *)
(* candidate, which is made without the lease: two commands may both find  *)
(* none.                                                                   *)
InspectForAcceptance(p, t, f) ==
  /\ pc[p] = "idle" /\ Fresh(t)
  /\ InspectAcceptanceCandidate(f)
  /\ Acceptances(f, cand[f].ver) = {}
  /\ fact' = [fact EXCEPT ![t] = [NoFact EXCEPT !.kind = "acceptance", !.feature = f,
                                    !.ver = cand[f].ver, !.start = Tip]]
  /\ cur' = [cur EXCEPT ![p] = t]
  /\ Goto(p, "inspected", <<>>)
  /\ UNCHANGED <<repository, hist, ended, state, current, lock, bounds>>

(* begin: under the lease the branch is still the candidate and the        *)
(* worktree clean; neither the milestone nor the ledger is looked at again.*)
BeginAcceptance(p) ==
  /\ Ready(p, "inspected")
  /\ IF lease = NoTxn /\ tree = "clean" /\ cand[fact[cur[p]].feature].ver = fact[cur[p]].ver
     THEN /\ lease' = cur[p] /\ holder' = p
          /\ Goto(p, "accepting", <<"TransactionStarted", "LeaseAcquired">>)
          /\ UNCHANGED cur
     ELSE Leave(p) /\ UNCHANGED lock
  /\ UNCHANGED <<repository, book, bounds>>

\* capture_snapshot and _revalidate_terminal_repository: the branch is the
\* candidate and the worktree is clean
CandidateUnchanged(p) ==
  Owns(p) /\ tree = "clean" /\ cand[fact[cur[p]].feature].ver = fact[cur[p]].ver

(* The snapshot and the five events of the acceptance itself.              *)
RecordAcceptance(p) ==
  /\ Ready(p, "accepting") /\ CandidateUnchanged(p)
  /\ Goto(p, "accepted",
          <<"SnapshotCaptured", "DeterministicExecutionStarted",
            "DeterministicResultAccepted", "ValidationStarted",
            "ValidationPassed", "CommitFinalized">>)
  /\ UNCHANGED <<repository, book, lock, cur, bounds>>

CompleteAcceptance(p) ==
  /\ Ready(p, "accepted") /\ CandidateUnchanged(p)
  /\ End(p, "TransactionCompleted", "FEATURE_ACCEPTED", "none", "integration_pending")

\* the except clause of accept_feature
FailAcceptance(p) ==
  /\ Ready(p, "accepting") \/ Ready(p, "accepted")
  /\ ~CandidateUnchanged(p)
  /\ End(p, "TransactionBlocked", "FEATURE_VALIDATION_FAILED", "other", "validation_failed")

(* accept-feature --recover-incomplete-transaction: a start that never got *)
(* its lease acquired, on the candidate it was made for or one amended on  *)
(* the same parent, is superseded before the retry begins.                 *)
SupersedeIncompleteStart(p, t) ==
  LET f == fact[t].feature IN
  /\ pc[p] = "idle"
  /\ Incomplete(TRUE) = {t} /\ fact[t].kind = "acceptance"
  /\ hist[t] = <<"TransactionStarted">>
  /\ lease = NoTxn
  /\ InspectAcceptanceCandidate(f)
  /\ cand[f].ver = fact[t].ver \/ (f \notin Ranged /\ cand[f].base = fact[t].start)
  /\ hist' = [hist EXCEPT ![t] = @ \o <<"TransactionSuperseded", "RecoveryApplied">>]
  /\ fact' = [fact EXCEPT ![t].class = "SUPERSEDED"]
  /\ ended' = Append(ended, t)
  /\ state' = "feature_review" /\ current' = f
  /\ UNCHANGED <<repository, lock, control, bounds>>

AcceptanceStep(p) ==
  \/ \E t \in Txn, f \in Feature : InspectForAcceptance(p, t, f)
  \/ BeginAcceptance(p)
  \/ RecordAcceptance(p)
  \/ CompleteAcceptance(p)
  \/ FailAcceptance(p)
  \/ \E t \in Txn : SupersedeIncompleteStart(p, t)
=============================================================================
