--------------------------- MODULE LedgerContract ---------------------------
(***************************************************************************)
(* The lifecycle contract of the evidence ledger (ledger.py): which event  *)
(* types one transaction may record, and in which order.  A history is the *)
(* sequence of event types recorded for one transaction.                   *)
(*                                                                         *)
(* The code has the contract twice.  ValidateAppend is the incremental     *)
(* check every append makes (_validate_append); ValidateHistory is the     *)
(* check of a whole history that every read makes (_validate).  They are   *)
(* different predicates, and a history that the first admits and the       *)
(* second refuses is a ledger nobody can read again.                       *)
(*                                                                         *)
(* A post-terminal CheckpointRecorded is legal only when its payload       *)
(* acknowledges the compatibility materialization; that one payload is the *)
(* type "MaterializationAcknowledged" here.  The legacy_import payload     *)
(* flag and the LegacyEvidenceImported event of migration.py, and the gate *)
(* identities of HumanGateRaised and HumanGateResolved, are left out.      *)
(***************************************************************************)
EXTENDS Naturals, Sequences, FiniteSets

\* The places of a log of <<type, txn>>, up to place i, that t has written.
OwnUpTo(log, t, i) == {j \in DOMAIN log : j <= i /\ log[j][2] = t}

\* The place of the n-th of them.
Place(log, t, n) ==
  CHOOSE i \in OwnUpTo(log, t, Len(log)) : Cardinality(OwnUpTo(log, t, i)) = n

\* The event types recorded for transaction t.
History(log, t) ==
  [n \in 1..Cardinality(OwnUpTo(log, t, Len(log))) |-> log[Place(log, t, n)][1]]

TerminalEventTypes ==
  {"TransactionBlocked", "TransactionCompleted", "TransactionSuperseded",
   "HumanGateRaised"}

EventTypes ==
  TerminalEventTypes \cup
  {"TransactionStarted", "LeaseAcquired", "LeaseReleased", "SnapshotCaptured",
   "SessionLaunched", "SessionResultAccepted", "ChangesDetected",
   "ValidationStarted", "DeterministicExecutionStarted",
   "DeterministicResultAccepted", "ValidationPassed", "ValidationFailed",
   "CommitFinalized", "RecoveryApplied", "ProjectionUpdated",
   "CheckpointRecorded", "MaterializationAcknowledged"}

\* What may still be recorded once the transaction has its terminal event.
PostTerminalTypes ==
  {"LeaseReleased", "RecoveryApplied", "ProjectionUpdated",
   "MaterializationAcknowledged"}

Has(h, n) == \E i \in DOMAIN h : h[i] = n

Terminated(h) == \E n \in TerminalEventTypes : Has(h, n)

FirstAt(h, n) == CHOOSE i \in DOMAIN h : h[i] = n /\ \A j \in 1..(i-1) : h[j] # n

Predecessors ==
  { <<"LeaseAcquired", "SnapshotCaptured">>,
    <<"SnapshotCaptured", "ValidationStarted">>,
    <<"SessionLaunched", "SessionResultAccepted">>,
    <<"SnapshotCaptured", "DeterministicExecutionStarted">>,
    <<"DeterministicExecutionStarted", "DeterministicResultAccepted">>,
    <<"ValidationStarted", "ValidationPassed">>,
    <<"ValidationPassed", "CommitFinalized">> }

CompletionRequires ==
  {"LeaseAcquired", "SnapshotCaptured", "ValidationStarted", "ValidationPassed"}

\* mutant: the append does not look for a terminal event
ValidateAppendUnending(h, type) ==
  IF type = "TransactionStarted" THEN h = <<>> ELSE h # <<>>

(* _validate_append.  A ProjectionUpdated has no predecessor to check when *)
(* the transaction has no terminal event yet.                              *)
ValidateAppend(h, type) ==
  IF type = "TransactionStarted" THEN h = <<>>
  ELSE /\ h # <<>>
       /\ type = "LeaseAcquired" /\ Has(h, "LeaseAcquired") => Has(h, "RecoveryApplied")
       /\ Terminated(h) => type \in PostTerminalTypes
       /\ \A pre \in Predecessors : pre[2] = type => Has(h, pre[1])
       /\ type = "TransactionCompleted" => \A n \in CompletionRequires : Has(h, n)

OrderedPairs ==
  { <<"TransactionStarted", "LeaseAcquired">>,
    <<"LeaseAcquired", "SnapshotCaptured">>,
    <<"SnapshotCaptured", "SessionLaunched">>,
    <<"SessionLaunched", "SessionResultAccepted">>,
    <<"SnapshotCaptured", "DeterministicExecutionStarted">>,
    <<"DeterministicExecutionStarted", "DeterministicResultAccepted">>,
    <<"ValidationStarted", "ValidationPassed">>,
    <<"ValidationPassed", "CommitFinalized">>,
    <<"CommitFinalized", "TransactionCompleted">>,
    <<"TransactionCompleted", "LeaseReleased">>,
    <<"LeaseReleased", "ProjectionUpdated">> }

(* Between two acquisitions of the lease by one transaction the full check *)
(* wants a recovery of its own: one old recovery does not cover them all.  *)
LeasesAuthorized(h) ==
  \A i, k \in DOMAIN h :
     /\ i < k /\ h[i] = "LeaseAcquired" /\ h[k] = "LeaseAcquired"
     /\ \A j \in (i+1)..(k-1) : h[j] # "LeaseAcquired"
     => \E j \in (i+1)..(k-1) : h[j] = "RecoveryApplied"

TerminalImmutable(h) ==
  \A i, k \in DOMAIN h :
     i < k /\ h[i] \in TerminalEventTypes => h[k] \in PostTerminalTypes

(* _validate, for one transaction. *)
ValidateHistory(h) ==
  h # <<>> =>
     /\ h[1] = "TransactionStarted"
     /\ \A i \in 2..Len(h) : h[i] # "TransactionStarted"
     /\ TerminalImmutable(h)
     /\ LeasesAuthorized(h)
     /\ \A pair \in OrderedPairs :
           Has(h, pair[1]) /\ Has(h, pair[2]) => FirstAt(h, pair[1]) < FirstAt(h, pair[2])
     /\ Has(h, "SessionResultAccepted") => Has(h, "SessionLaunched")
     /\ Has(h, "ValidationPassed") => Has(h, "ValidationStarted")
     /\ Has(h, "CommitFinalized") => Has(h, "ValidationPassed")
     /\ Has(h, "ProjectionUpdated") => Terminated(h)
     /\ Has(h, "TransactionCompleted") => \A n \in CompletionRequires : Has(h, n)
=============================================================================
