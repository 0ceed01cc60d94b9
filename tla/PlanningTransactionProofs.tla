---------------------- MODULE PlanningTransactionProofs ----------------------
(***************************************************************************)
(* Proofs about PlanningTransaction: any number of commands, editions,     *)
(* transactions, foreign edits and deaths.                                 *)
(*                                                                         *)
(* Two facts carry all of them.  Whoever changes the branch, the ledger or *)
(* the projection holds the reservation, so the others stand at steps that *)
(* rely on little; and a transaction that has ended never changes again,   *)
(* so what a plan read of it before the reservation still holds.           *)
(***************************************************************************)
EXTENDS PlanningTransaction, FiniteSetTheorems, TLAPS

LegacySteps ==
  {"legacy_loaded", "legacy_valid", "legacy_gated", "legacy_committing", "legacy_compared",
   "legacy_committed", "legacy_persisted", "legacy_adopted"}
LaunchedSteps ==
  {"returned", "normalized", "validated", "accepted", "finalizing", "finalized", "persisted"}
SessionSteps == {"begun"} \cup LaunchedSteps
ApplySteps ==
  {"complete_policy", "finalize", "committing", "recovery_commit", "adopt", "complete_recovery"}
PlannedSteps == {"planned", "reserved_recovery", "verified"} \cup ApplySteps
Held == {"reserved", "reserved_recovery", "verified", "legacy_committing", "legacy_compared",
         "legacy_committed", "legacy_persisted"} \cup SessionSteps \cup ApplySteps
Steps == {"idle", "captured", "dead"} \cup LegacySteps \cup PlannedSteps \cup Held

Record ==
  [mode : {"session", "recovery"}, origin : Nat, base : Nat, said : Said, left : Tree, end : Tree,
   error : {"none", "other", "warnings", "policy", "alias"},
   accepted : BOOLEAN, launched : BOOLEAN, commit : Nat,
   file : {"started", "pending", "failed", "terminal", "human", "committed", "no_changes"},
   outcome : {"open", "validation_failed", "retryable", "human", "conflict", "completed",
              "recovery_failed", "applied"}]

BranchHead == [commit : Nat, edition : Edition, queue : Queue]

Plan ==
  [start : Nat, said : Said, warned : BOOLEAN, origin : Nat, ledger : Nat, commit : Nat,
   tree : Tree]

Projection ==
  [state : {"queue_reconciliation", "validation_failed", "human_decision_required",
            "feature_ready", "paused"},
   start : Nat]

Legacy ==
  [status : {"absent", "recorded", "gate", "committing", "committed"}, edition : Edition,
   ledger : BOOLEAN]

Typed ==
  /\ tree \in Tree /\ head \in BranchHead /\ txns \in Seq(Record)
  /\ open \in {0, Len(txns)} /\ proj \in Projection /\ legacy \in Legacy
  /\ reservation \in Process \cup {NoProcess}
  /\ pc \in [Process -> Steps] /\ plan \in [Process -> Plan]

-----------------------------------------------------------------------------
(* The inductive invariant.                                                *)

\* what holds of every transaction, whoever is at work
EntryOK(t) ==
  LET r == txns[t] IN
  /\ r.outcome = "open" <=> t = open
  /\ r.accepted => r.launched
  /\ r.file = "committed" => r.mode = "session" /\ r.commit \in 1..head.commit
  /\ r.mode = "session" =>
       /\ r.origin = 0 /\ r.outcome # "applied"
       /\ r.outcome = "completed" => r.file \in {"committed", "no_changes"}
  /\ r.mode = "recovery" =>
       /\ r.origin \in 1..(t - 1) /\ t = r.origin + 1
       /\ txns[r.origin].mode = "session" /\ txns[r.origin].outcome # "completed"
       /\ r.outcome = "applied" =>
            \/ t \in raced
            \/ IF txns[r.origin].commit = 0 THEN r.end = Completed(txns[r.origin].left)
                                            ELSE r.commit = txns[r.origin].commit

LedgerOK == \A t \in DOMAIN txns : EntryOK(t)

\* what a plan read of the transaction it recovers still holds
PlanBound(p) ==
  /\ plan[p].origin \in DOMAIN txns /\ plan[p].origin # open
  /\ plan[p].ledger = plan[p].origin
  /\ txns[plan[p].origin].mode = "session"
  /\ txns[plan[p].origin].commit = plan[p].commit

PlansBound == \A p \in Process : pc[p] \in PlannedSteps => PlanBound(p)

OneCommand == \A p \in Process : pc[p] \in Held => reservation = p

\* what a session knows of its transaction
SessionOK(p) ==
  LET r == txns[open] IN
  /\ pc[p] \in SessionSteps =>
       /\ open # 0 /\ r.mode = "session"
       /\ open \in raced \/ head.queue # "unbound"
  /\ pc[p] \in LaunchedSteps => r.launched
  /\ pc[p] \in SessionSteps \ {"persisted"} => r.file # "committed"
  /\ pc[p] = "accepted" => open \in raced \/ plan[p].tree.queue # "unbound"
  /\ pc[p] \in {"validated", "finalizing"} => open \in raced \/ tree.queue # "unbound"
  /\ pc[p] \in {"accepted", "finalizing"} => head.commit = r.base
  /\ pc[p] = "finalized" => r.commit = head.commit /\ r.commit \in {r.base, r.base + 1}
  /\ pc[p] = "persisted" => r.commit = head.commit /\ r.file \in {"committed", "no_changes"}

\* the head is the diff that was planned
HeadIsPlanned(p) ==
  head.edition = plan[p].tree.edition /\ head.queue = Completed(plan[p].tree).queue

\* what a recovery knows after it made its plan again
RecoveryOK(p) ==
  LET r == txns[open]
      o == txns[plan[p].origin] IN
  /\ pc[p] \in {"verified"} \cup ApplySteps =>
       /\ o.outcome # "completed"
       /\ plan[p].commit = 0 => plan[p].tree = o.left /\ plan[p].tree.extra = "none"
       /\ plan[p].commit # 0 => head.queue = "ready"
  /\ pc[p] = "verified" => proj.state = "validation_failed" /\ plan[p].origin = Len(txns)
  /\ pc[p] \in ApplySteps => open # 0 /\ r.mode = "recovery" /\ r.origin = plan[p].origin
  /\ pc[p] \in ApplySteps \ {"adopt", "complete_recovery"} => plan[p].commit = 0
  /\ pc[p] = "adopt" => plan[p].commit # 0
  /\ pc[p] = "committing" => open \in raced \/ tree = Completed(plan[p].tree)
  /\ pc[p] = "recovery_commit" => open \in raced \/ HeadIsPlanned(p)
  /\ pc[p] = "complete_recovery" =>
       /\ r.commit = head.commit
       /\ IF plan[p].commit = 0 THEN open \in raced \/ HeadIsPlanned(p)
                                ELSE r.commit = plan[p].commit

CommandsOK == \A p \in Process : SessionOK(p) /\ RecoveryOK(p)

\* the projection stands still while a transaction is open, and a round
\* begins without a feature that misses its policy
RepositoryOK ==
  /\ open # 0 => proj.state # "feature_ready"
  /\ open = 0 /\ legacy.status = "absent" /\ proj.state = "queue_reconciliation"
       => head.queue # "unbound"
  /\ proj.start <= head.commit
  /\ ReadyIsBound

\* what the recovery of a planning file alone knows
LegacyOK(p) ==
  /\ pc[p] \in LegacySteps \cup {"idle", "dead"}
  /\ pc[p] = "legacy_compared" => head.commit = 0 /\ (0 \in raced \/ tree = Recorded)
  /\ pc[p] \in {"legacy_committed", "legacy_persisted", "legacy_adopted"} => head.commit = 1

\* a project has a planning file alone, or a ledger
WorldOK ==
  IF legacy.status = "absent" THEN \A p \in Process : pc[p] \notin LegacySteps
  ELSE txns = <<>> /\ LegacyCommittedOnce /\ \A p \in Process : LegacyOK(p)

IInv ==
  /\ Typed /\ LedgerOK /\ PlansBound /\ OneCommand /\ CommandsOK /\ RepositoryOK /\ WorldOK

-----------------------------------------------------------------------------
(* What a step leaves alone.                                               *)

StepBy(p) == \A q \in Process \ {p} : pc'[q] = pc[q] /\ plan'[q] = plan[q]

\* transactions that have ended keep their records, and none disappears
ClosedStand ==
  /\ Len(txns') >= Len(txns)
  /\ \A t \in DOMAIN txns : t # open => txns'[t] = txns[t] /\ t # open'

\* only the record of the open transaction is rewritten
OpenRewritten ==
  /\ open # 0 /\ open' \in {0, open}
  /\ txns' \in Seq(Record) /\ Len(txns') = Len(txns)
  /\ \A t \in DOMAIN txns : t # open => txns'[t] = txns[t]

Unmoved == UNCHANGED <<tree, head, txns, open, proj, raced>>

\* A step moves its own process alone.
LEMMA Going ==
  ASSUME Typed, NEW p \in Process, NEW s \in Steps, Goto(p, s)
  PROVE  /\ pc' \in [Process -> Steps] /\ pc'[p] = s
         /\ \A q \in Process \ {p} : pc'[q] = pc[q]
BY DEF Typed, Goto

\* The plan of nothing is a plan, and so is one with another tree.
LEMMA PlanTypes ==
  /\ NoPlan \in Plan
  /\ \A x \in Plan, t \in Tree : [x EXCEPT !.tree = t] \in Plan
  /\ \A x \in Plan, s \in Said, w \in BOOLEAN : [x EXCEPT !.said = s, !.warned = w] \in Plan
<1> 0 \in Edition /\ "idle" \in Queue /\ "idle" \in Said
  BY PlanningConstants DEF Edition, Queue, Said
<1> QED BY DEF NoPlan, Plan, Tree

\* The finally clause leaves the process idle and nothing reserved by it.
LEMMA Leaving ==
  ASSUME Typed, NEW p \in Process, Leave(p)
  PROVE  /\ pc' \in [Process -> Steps] /\ plan' \in [Process -> Plan]
         /\ pc'[p] = "idle" /\ StepBy(p)
         /\ reservation = p => reservation' = NoProcess
         /\ reservation # p => reservation' = reservation
<1>1. "idle" \in Steps
  BY DEF Steps
<1>2. Goto(p, "idle")
  BY DEF Leave
<1>3. /\ pc' \in [Process -> Steps] /\ pc'[p] = "idle"
      /\ \A q \in Process \ {p} : pc'[q] = pc[q]
  BY <1>1, <1>2, Going
<1>4. plan' \in [Process -> Plan] /\ \A q \in Process \ {p} : plan'[q] = plan[q]
  BY PlanTypes DEF Typed, Leave
<1> QED BY <1>3, <1>4 DEF Leave, StepBy

\* Whoever holds no reservation owes nothing.
LEMMA AtRest ==
  ASSUME NEW p \in Process, pc'[p] \notin Held
  PROVE  SessionOK(p)' /\ RecoveryOK(p)'
BY DEF SessionOK, RecoveryOK, SessionSteps, LaunchedSteps, ApplySteps, Held

\* What a command knows stands while the repository and the ledger stand.
LEMMA KnowledgeStands ==
  ASSUME NEW p \in Process, Unmoved, pc'[p] = pc[p], plan'[p] = plan[p],
         SessionOK(p), RecoveryOK(p)
  PROVE  SessionOK(p)' /\ RecoveryOK(p)'
BY DEF SessionOK, RecoveryOK, HeadIsPlanned, Unmoved

\* What a plan binds stands while closed records do.
LEMMA PlanStands ==
  ASSUME Typed, NEW p \in Process, ClosedStand, Typed', plan'[p] = plan[p], PlanBound(p)
  PROVE  PlanBound(p)'
BY DEF PlanBound, ClosedStand, Typed

\* A step of the command that holds the reservation concerns no other
\* command: their plans bind closed records.
LEMMA HolderStep ==
  ASSUME IInv, Typed', NEW p \in Process, pc[p] \in Held, StepBy(p), ClosedStand,
         pc'[p] \in Held => reservation' = p,
         SessionOK(p)', RecoveryOK(p)',
         pc'[p] \in PlannedSteps => PlanBound(p)'
  PROVE  PlansBound' /\ OneCommand' /\ CommandsOK'
<1>1. \A q \in Process \ {p} : pc[q] \notin Held
  BY DEF IInv, OneCommand
<1>2. ASSUME NEW q \in Process \ {p}
      PROVE  /\ SessionOK(q)' /\ RecoveryOK(q)' /\ pc'[q] \notin Held
             /\ pc'[q] \in PlannedSteps => PlanBound(q)'
  <2>1. pc'[q] = pc[q] /\ plan'[q] = plan[q] /\ pc'[q] \notin Held
    BY <1>1 DEF StepBy
  <2>2. SessionOK(q)' /\ RecoveryOK(q)'
    BY <2>1, AtRest
  <2>3. pc[q] \in PlannedSteps => PlanBound(q)
    BY DEF IInv, PlansBound
  <2> QED BY <2>1, <2>2, <2>3, PlanStands DEF IInv
<1>3. PlansBound'
  BY <1>2 DEF PlansBound
<1>4. OneCommand'
  BY <1>2 DEF OneCommand
<1>5. CommandsOK'
  BY <1>2 DEF CommandsOK
<1> QED BY <1>3, <1>4, <1>5

\* A step that touches neither the repository nor the ledger leaves the
\* other commands what they know.
LEMMA QuietStep ==
  ASSUME IInv, Typed', NEW p \in Process, StepBy(p), Unmoved,
         pc'[p] \in Held => reservation' = p,
         \A q \in Process \ {p} : reservation = q => reservation' = q,
         SessionOK(p)', RecoveryOK(p)',
         pc'[p] \in PlannedSteps => PlanBound(p)'
  PROVE  PlansBound' /\ OneCommand' /\ CommandsOK'
<1>1. ASSUME NEW q \in Process \ {p}
      PROVE  /\ SessionOK(q)' /\ RecoveryOK(q)'
             /\ pc'[q] \in Held => reservation' = q
             /\ pc'[q] \in PlannedSteps => PlanBound(q)'
  <2>1. pc'[q] = pc[q] /\ plan'[q] = plan[q]
    BY DEF StepBy
  <2>2. SessionOK(q)' /\ RecoveryOK(q)'
    BY <2>1, KnowledgeStands DEF IInv, CommandsOK
  <2>3. pc'[q] \in Held => reservation' = q
    BY <2>1 DEF IInv, OneCommand
  <2>4. pc'[q] \in PlannedSteps => PlanBound(q)'
    BY <2>1 DEF IInv, PlansBound, PlanBound, Unmoved
  <2> QED BY <2>2, <2>3, <2>4
<1>2. PlansBound'
  BY <1>1 DEF PlansBound
<1>3. OneCommand'
  BY <1>1 DEF OneCommand
<1>4. CommandsOK'
  BY <1>1 DEF CommandsOK
<1> QED BY <1>2, <1>3, <1>4

-----------------------------------------------------------------------------
(* The ledger.                                                             *)

\* The positions of the ledger.
LEMMA Positions ==
  ASSUME Typed
  PROVE  /\ Len(txns) \in Nat /\ DOMAIN txns = 1..Len(txns) /\ open \in Nat
         /\ \A t \in DOMAIN txns : txns[t] \in Record
         /\ open # 0 => open = Len(txns) /\ open \in DOMAIN txns
BY DEF Typed

\* A ledger stays in order when the record of the open transaction is
\* rewritten in order, and the branch does not lose commits.
LEMMA LedgerRewritten ==
  ASSUME Typed, LedgerOK, OpenRewritten, NEW n \in Nat, n = open, EntryOK(n)',
         head'.commit \in Nat, head.commit <= head'.commit, raced' = raced
  PROVE  LedgerOK' /\ ClosedStand
<1>1. ClosedStand
  BY Positions DEF ClosedStand, OpenRewritten
<1>2. ASSUME NEW t \in DOMAIN txns', t # open
      PROVE  EntryOK(t)'
  <2>1. t \in DOMAIN txns /\ txns'[t] = txns[t] /\ t # open' /\ t \in 1..Len(txns)
    BY <1>2, Positions DEF OpenRewritten
  <2>2. EntryOK(t)
    BY <2>1 DEF LedgerOK
  <2>3. txns[t] \in Record /\ head.commit \in Nat
    BY <2>1, Positions DEF Typed, BranchHead
  <2>4. ASSUME txns[t].mode = "recovery"
        PROVE  txns'[txns[t].origin] = txns[txns[t].origin]
    BY <2>1, <2>2, <2>4, Positions DEF EntryOK, OpenRewritten
  <2>5. txns[t].file = "committed" => txns[t].commit \in 1..head'.commit
    BY <2>2, <2>3 DEF EntryOK, Record
  <2>6. txns'[t].outcome # "open"
    BY <1>2, <2>1, <2>2 DEF EntryOK
  <2> QED BY <2>1, <2>2, <2>4, <2>5, <2>6 DEF EntryOK
<1> QED BY <1>1, <1>2 DEF LedgerOK

\* A ledger stays in order when a record in order is appended.
LEMMA LedgerExtended ==
  ASSUME Typed, LedgerOK, NEW r \in Record, NEW n \in Nat, n = Len(txns) + 1,
         txns' = Append(txns, r), open' = n, head' = head, raced' = raced,
         open \notin DOMAIN txns, EntryOK(n)'
  PROVE  LedgerOK' /\ ClosedStand
<1>1. /\ Len(txns') = n /\ \A t \in DOMAIN txns : txns'[t] = txns[t]
      /\ DOMAIN txns' = 1..n /\ DOMAIN txns = 1..(n - 1)
  BY DEF Typed
<1>2. ASSUME NEW t \in DOMAIN txns
      PROVE  EntryOK(t)'
  <2>1. EntryOK(t) /\ t # open /\ t # n /\ t \in 1..(n - 1)
    BY <1>1 DEF LedgerOK
  <2>2. txns[t].mode = "recovery" => txns'[txns[t].origin] = txns[txns[t].origin]
    BY <1>1, <2>1 DEF EntryOK
  <2> QED BY <1>1, <1>2, <2>1, <2>2 DEF EntryOK
<1>3. LedgerOK'
  BY <1>1, <1>2 DEF LedgerOK
<1>4. ClosedStand
  BY <1>1, Positions DEF ClosedStand
<1> QED BY <1>3, <1>4

\* kernel.begin: what the new transaction is.
LEMMA Beginning ==
  ASSUME Typed, LedgerOK, open \notin DOMAIN txns, head' = head, raced' = raced,
         NEW mode \in {"session", "recovery"}, NEW origin \in Nat, NEW base \in Nat,
         Begin(mode, origin, base), NEW n \in Nat, n = Len(txns) + 1,
         mode = "session" => origin = 0,
         mode = "recovery" => /\ origin = n - 1 /\ origin # 0
                              /\ txns[origin].mode = "session"
                              /\ txns[origin].outcome # "completed"
  PROVE  /\ txns' \in Seq(Record) /\ LedgerOK' /\ ClosedStand
         /\ open' = n /\ Len(txns') = n
         /\ txns'[n].mode = mode /\ txns'[n].origin = origin /\ txns'[n].base = base
         /\ txns'[n].file = "started" /\ txns'[n].left = tree
<1> DEFINE r == [mode |-> mode, origin |-> origin, base |-> base, said |-> "idle",
                 left |-> tree, end |-> tree, error |-> "none", accepted |-> FALSE,
                 launched |-> FALSE, commit |-> 0, file |-> "started",
                 outcome |-> "open"]
<1>1. r \in Record
  BY DEF Record, Said, Typed
<1>2. txns' = Append(txns, r) /\ open' = n
  BY DEF Begin
<1>3. /\ r.mode = mode /\ r.origin = origin /\ r.base = base /\ r.file = "started"
      /\ r.left = tree /\ r.outcome = "open" /\ r.accepted = FALSE
  OBVIOUS
<1> HIDE DEF r
<1>4. /\ txns' \in Seq(Record) /\ Len(txns') = n /\ txns'[n] = r
      /\ \A t \in 1..(n - 1) : txns'[t] = txns[t]
  BY <1>1, <1>2 DEF Typed
<1>5. EntryOK(n)'
  BY <1>2, <1>3, <1>4 DEF EntryOK
<1>6. LedgerOK' /\ ClosedStand
  BY <1>1, <1>2, <1>5, LedgerExtended
<1> QED BY <1>2, <1>3, <1>4, <1>6

Outcome == {"validation_failed", "retryable", "human", "conflict", "completed",
            "recovery_failed", "applied"}

\* A record that ends is a record, and keeps all but its outcome and its
\* terminal snapshot.
LEMMA EndedRecord ==
  ASSUME NEW r \in Record, NEW outcome \in Outcome, NEW t \in Tree
  PROVE  LET e == [r EXCEPT !.outcome = outcome, !.end = t] IN
         /\ e \in Record /\ e.outcome = outcome /\ e.end = t
         /\ e.mode = r.mode /\ e.origin = r.origin /\ e.commit = r.commit
         /\ e.accepted = r.accepted /\ e.launched = r.launched /\ e.file = r.file
BY DEF Record, Outcome

\* The end of the open transaction: the ledger stays in order when the
\* record that ends is in order.
LEMMA Ending ==
  ASSUME Typed, LedgerOK, open # 0, head' = head, raced' = raced, NEW r \in Record,
         NEW outcome \in Outcome,
         NEW state, NEW start, End(r, outcome, state, start),
         r.mode = txns[open].mode, r.origin = txns[open].origin,
         r.accepted => r.launched,
         r.file = "committed" => r.mode = "session" /\ r.commit \in 1..head.commit,
         r.mode = "session" =>
           /\ outcome # "applied"
           /\ outcome = "completed" => r.file \in {"committed", "no_changes"},
         r.mode = "recovery" /\ outcome = "applied" =>
           \/ open \in raced
           \/ IF txns[r.origin].commit = 0 THEN tree = Completed(txns[r.origin].left)
                                           ELSE r.commit = txns[r.origin].commit
  PROVE  txns' \in Seq(Record) /\ open' = 0 /\ LedgerOK' /\ ClosedStand
<1> DEFINE e == [r EXCEPT !.outcome = outcome, !.end = tree]
<1>1. /\ e \in Record /\ e.outcome = outcome /\ e.end = tree
      /\ e.mode = r.mode /\ e.origin = r.origin /\ e.commit = r.commit
      /\ e.accepted = r.accepted /\ e.launched = r.launched /\ e.file = r.file
  <2>1. tree \in Tree
    BY DEF Typed
  <2> QED BY <2>1, EndedRecord
<1>2. txns' = [txns EXCEPT ![open] = e] /\ open' = 0
  BY DEF End
<1> HIDE DEF e
<1>3. /\ txns' \in Seq(Record) /\ Len(txns') = Len(txns) /\ txns'[open] = e
      /\ \A t \in DOMAIN txns : t # open => txns'[t] = txns[t]
  BY <1>1, <1>2, Positions DEF Typed
<1>4. OpenRewritten
  BY <1>2, <1>3 DEF OpenRewritten
<1>5. PICK n \in Nat : n = open
  BY Positions
<1>6. EntryOK(n)'
  <2>1. EntryOK(n) /\ n \in 1..Len(txns) /\ n # 0
    BY <1>5, Positions DEF LedgerOK
  <2>2. r.mode = "recovery" =>
          /\ txns[n].origin \in 1..(n - 1) /\ n = txns[n].origin + 1
          /\ txns'[txns[n].origin] = txns[txns[n].origin]
          /\ txns[txns[n].origin].mode = "session"
          /\ txns[txns[n].origin].outcome # "completed"
    BY <1>3, <1>5, <2>1, Positions DEF EntryOK
  <2>3. r.mode = "session" => r.origin = 0
    BY <1>5, <2>1 DEF EntryOK
  <2>4. outcome # "open"
    BY DEF Outcome
  <2> QED BY <1>1, <1>2, <1>3, <1>5, <2>1, <2>2, <2>3, <2>4 DEF EntryOK
<1>7. head'.commit \in Nat /\ head.commit <= head'.commit
  BY DEF Typed, BranchHead
<1>8. LedgerOK' /\ ClosedStand
  BY <1>4, <1>5, <1>6, <1>7, LedgerRewritten
<1> QED BY <1>2, <1>3, <1>8

-----------------------------------------------------------------------------
(* Steps by what they change.                                              *)

\* A project with a ledger has nobody at the steps of the one without.
LEMMA HasLedger ==
  ASSUME IInv, NEW p \in Process, pc[p] \notin LegacySteps \cup {"idle", "dead"}
  PROVE  legacy.status = "absent"
BY DEF IInv, WorldOK, LegacyOK

\* A project that has a ledger keeps it: no step brings a planning file alone back.
LEMMA WorldStands ==
  ASSUME IInv, NEW p \in Process, StepBy(p), legacy' = legacy, legacy.status = "absent",
         pc'[p] \notin LegacySteps
  PROVE  WorldOK'
BY DEF IInv, WorldOK, StepBy

\* Whoever leaves without a change concerns nobody.
LEMMA Quitting ==
  ASSUME IInv, NEW p \in Process, Leave(p), Unmoved, legacy' = legacy
  PROVE  IInv'
<1>1. /\ pc' \in [Process -> Steps] /\ plan' \in [Process -> Plan]
      /\ pc'[p] = "idle" /\ StepBy(p)
      /\ reservation = p => reservation' = NoProcess
      /\ reservation # p => reservation' = reservation
  BY Leaving DEF IInv
<1>2. "idle" \notin Held \cup PlannedSteps \cup LegacySteps
  BY DEF Held, PlannedSteps, SessionSteps, LaunchedSteps, ApplySteps, LegacySteps
<1>3. Typed'
  BY <1>1 DEF IInv, Typed, Unmoved
<1>4. SessionOK(p)' /\ RecoveryOK(p)'
  BY <1>1, <1>2, AtRest
<1>5. PlansBound' /\ OneCommand' /\ CommandsOK'
  BY <1>1, <1>2, <1>3, <1>4, QuietStep
<1>6. LedgerOK' /\ RepositoryOK'
  BY DEF IInv, LedgerOK, EntryOK, RepositoryOK, ReadyIsBound, Unmoved
<1>7. WorldOK'
  <2>1. CASE legacy.status = "absent"
    BY <1>1, <1>2, <2>1, WorldStands
  <2>2. CASE legacy.status # "absent"
    <3>1. txns' = <<>> /\ LegacyCommittedOnce'
      BY <2>2 DEF IInv, WorldOK, LegacyCommittedOnce, Unmoved
    <3>2. ASSUME NEW q \in Process
          PROVE  LegacyOK(q)'
      BY <1>1, <2>2 DEF IInv, WorldOK, LegacyOK, Unmoved, StepBy, Recorded
    <3> QED BY <2>2, <3>1, <3>2 DEF WorldOK
  <2> QED BY <2>1, <2>2
<1> QED BY <1>3, <1>5, <1>6, <1>7 DEF IInv

\* The command that holds the reservation ends its transaction and leaves.
LEMMA Closing ==
  ASSUME IInv, NEW p \in Process, pc[p] \in SessionSteps \cup ApplySteps,
         NEW r \in Record, NEW outcome \in Outcome, NEW state, NEW start,
         End(r, outcome, state, start), Leave(p), UNCHANGED <<tree, head, legacy, raced>>,
         [state |-> state, start |-> start] \in Projection,
         r.mode = txns[open].mode, r.origin = txns[open].origin,
         r.accepted => r.launched,
         r.file = "committed" => r.mode = "session" /\ r.commit \in 1..head.commit,
         r.mode = "session" =>
           /\ outcome # "applied"
           /\ outcome = "completed" => r.file \in {"committed", "no_changes"},
         r.mode = "recovery" /\ outcome = "applied" =>
           \/ open \in raced
           \/ IF txns[r.origin].commit = 0 THEN tree = Completed(txns[r.origin].left)
                                           ELSE r.commit = txns[r.origin].commit,
         start <= head.commit, state # "queue_reconciliation",
         state = "feature_ready" =>
           start = head.commit /\ (open \in raced \/ head.queue = "ready")
  PROVE  IInv'
<1>1. /\ pc' \in [Process -> Steps] /\ plan' \in [Process -> Plan]
      /\ pc'[p] = "idle" /\ StepBy(p)
      /\ reservation = p => reservation' = NoProcess
      /\ reservation # p => reservation' = reservation
  BY Leaving DEF IInv
<1>2. /\ "idle" \notin Held \cup PlannedSteps \cup LegacySteps
      /\ pc[p] \in Held /\ pc[p] \notin LegacySteps \cup {"idle", "dead"}
  BY DEF Held, PlannedSteps, SessionSteps, LaunchedSteps, ApplySteps, LegacySteps
<1>3. open # 0
  BY DEF IInv, CommandsOK, SessionOK, RecoveryOK
<1>4. txns' \in Seq(Record) /\ open' = 0 /\ LedgerOK' /\ ClosedStand
  BY <1>3, Ending DEF IInv
<1>5. proj' = [state |-> state, start |-> start]
  BY DEF End
<1>6. Typed'
  BY <1>1, <1>4, <1>5 DEF IInv, Typed
<1>7. SessionOK(p)' /\ RecoveryOK(p)'
  BY <1>1, <1>2, AtRest
<1>8. PlansBound' /\ OneCommand' /\ CommandsOK'
  BY <1>1, <1>2, <1>4, <1>6, <1>7, HolderStep
<1>9. RepositoryOK'
  <2>1. open = Len(txns) /\ Len(txns') = Len(txns) /\ legacy.status = "absent"
    BY <1>2, <1>3, <1>4, HasLedger, Positions DEF IInv, ClosedStand, End, Typed
  <2> QED BY <1>4, <1>5, <2>1 DEF IInv, RepositoryOK, ReadyIsBound
<1>10. WorldOK'
  BY <1>1, <1>2, HasLedger, WorldStands
<1> QED BY <1>4, <1>6, <1>8, <1>9, <1>10 DEF IInv

-----------------------------------------------------------------------------
(* The session.                                                            *)

\* The transaction of a session that has begun.
LEMMA OpenSession ==
  ASSUME IInv, NEW p \in Process, pc[p] \in SessionSteps
  PROVE  /\ open # 0 /\ open = Len(txns) /\ open \in DOMAIN txns /\ txns[open] \in Record
         /\ txns[open].mode = "session" /\ txns[open].origin = 0
         /\ txns[open].outcome = "open"
         /\ txns[open].accepted => txns[open].launched
         /\ txns[open].file = "committed" => txns[open].commit \in 1..head.commit
         /\ head.commit \in Nat
BY Positions DEF IInv, CommandsOK, SessionOK, LedgerOK, EntryOK, Typed, BranchHead

\* A session that fails, is blocked or is left to a human ends in order.
LEMMA SessionCloses ==
  ASSUME IInv, NEW p \in Process, pc[p] \in SessionSteps,
         NEW r \in Record, NEW outcome \in {"validation_failed", "retryable", "human", "conflict"},
         NEW state \in {"validation_failed", "human_decision_required"},
         End(r, outcome, state, 0), Leave(p), UNCHANGED <<tree, head, legacy, raced>>,
         r.mode = "session", r.origin = 0, r.accepted => r.launched,
         r.file = "committed" => r.commit \in 1..head.commit
  PROVE  IInv'
<1>1. [state |-> state, start |-> 0] \in Projection
  BY DEF Projection
<1>2. /\ outcome \in Outcome /\ outcome \notin {"applied", "completed"}
      /\ state \notin {"feature_ready", "queue_reconciliation"}
  BY DEF Outcome
<1> QED BY <1>1, <1>2, OpenSession, Closing

\* What the handlers write to the record of a session that they then end.
LEMMA FailedRecord ==
  ASSUME IInv, NEW p \in Process, pc[p] \in SessionSteps,
         NEW e \in {"other", "warnings", "alias"}, NEW f \in {"failed", "terminal"}
  PROVE  LET r == [txns[open] EXCEPT !.error = e, !.file = f] IN
         /\ r \in Record /\ r.mode = "session" /\ r.origin = 0
         /\ r.accepted => r.launched
         /\ r.file = f
<1> DEFINE r == [txns[open] EXCEPT !.error = e, !.file = f]
<1>1. /\ txns[open] \in Record /\ txns[open].mode = "session" /\ txns[open].origin = 0
      /\ txns[open].accepted => txns[open].launched
  BY OpenSession
<1>2. /\ r \in Record /\ r.mode = txns[open].mode /\ r.origin = txns[open].origin
      /\ r.accepted = txns[open].accepted /\ r.launched = txns[open].launched /\ r.file = f
  BY <1>1 DEF Record
<1> HIDE DEF r
<1>3. /\ r \in Record /\ r.mode = "session" /\ r.origin = 0
      /\ r.accepted => r.launched
      /\ r.file = f
  BY <1>1, <1>2
<1> QED BY <1>3 DEF r

\* The except clause of the session ends its transaction as one that is not accepted.
LEMMA FailValidationStep ==
  ASSUME IInv, NEW p \in Process, pc[p] \in SessionSteps,
         NEW e \in {"other", "warnings"}, FailValidation(p, e)
  PROVE  IInv'
<1> DEFINE r == [txns[open] EXCEPT !.error = e, !.file = "failed"]
<1>1. /\ r \in Record /\ r.mode = "session" /\ r.origin = 0
      /\ r.accepted => r.launched
      /\ r.file = "failed"
  BY FailedRecord
<1>2. End(r, "validation_failed", "validation_failed", 0) /\ Leave(p)
  BY DEF FailValidation
<1>3. UNCHANGED <<tree, head, legacy, raced>>
  BY DEF FailValidation
<1> HIDE DEF r
<1> QED BY <1>1, <1>2, <1>3, SessionCloses

\* A failed session, or an envelope that is not valid, leaves a terminal file.
LEMMA SessionFailsStep ==
  ASSUME IInv, NEW p \in Process, pc[p] \in SessionSteps, SessionFails(p)
  PROVE  IInv'
<1>1. PICK e \in {"alias", "other"} :
        End([txns[open] EXCEPT !.error = e, !.file = "terminal"],
            "retryable", "validation_failed", 0)
  BY DEF SessionFails
<1> DEFINE r == [txns[open] EXCEPT !.error = e, !.file = "terminal"]
<1>2. /\ r \in Record /\ r.mode = "session" /\ r.origin = 0
      /\ r.accepted => r.launched
      /\ r.file = "terminal"
  BY FailedRecord
<1>3. End(r, "retryable", "validation_failed", 0) /\ Leave(p)
  BY <1>1 DEF SessionFails
<1>4. UNCHANGED <<tree, head, legacy, raced>>
  BY DEF SessionFails
<1> HIDE DEF r
<1> QED BY <1>2, <1>3, <1>4, SessionCloses

\* Steps of the session that end its transaction.
LEMMA SessionEnds ==
  ASSUME IInv, NEW p \in Process,
         \/ LaunchFails(p) \/ SessionFails(p) \/ SessionBlocks(p) \/ ValidationFails(p)
         \/ FinalizeFails(p) \/ PersistFails(p) \/ Conflict(p)
  PROVE  IInv'
<1>0. pc[p] \in SessionSteps
  BY DEF LaunchFails, SessionFails, SessionBlocks, ValidationFails, FinalizeFails, PersistFails,
         Conflict, SessionSteps, LaunchedSteps
<1>1. CASE LaunchFails(p)
  BY <1>0, <1>1, OpenSession, SessionCloses DEF LaunchFails
<1>2. CASE SessionFails(p)
  BY <1>0, <1>2, SessionFailsStep
<1>3. CASE SessionBlocks(p)
  <2>1. Leave(p) /\ UNCHANGED <<tree, head, legacy, raced>>
    BY <1>3 DEF SessionBlocks
  <2>3. txns[open].launched
    BY <1>3 DEF SessionBlocks, IInv, CommandsOK, SessionOK, LaunchedSteps
  <2> DEFINE r1 == [txns[open] EXCEPT !.accepted = TRUE, !.file = "failed", !.error = "other"]
             r2 == [txns[open] EXCEPT !.accepted = TRUE, !.file = "human"]
             r3 == [txns[open] EXCEPT !.file = "terminal"]
  <2>4. \A r \in {r1, r2, r3} :
          /\ r \in Record /\ r.mode = "session" /\ r.origin = 0 /\ r.launched
          /\ r.file # "committed"
    <3>1. txns[open] \in Record /\ txns[open].mode = "session" /\ txns[open].origin = 0
      BY <1>0, OpenSession
    <3>2. r1 \in Record /\ r1.mode = "session" /\ r1.origin = 0 /\ r1.launched /\ r1.file = "failed"
      BY <2>3, <3>1 DEF Record
    <3>3. r2 \in Record /\ r2.mode = "session" /\ r2.origin = 0 /\ r2.launched /\ r2.file = "human"
      BY <2>3, <3>1 DEF Record
    <3>4. /\ r3 \in Record /\ r3.mode = "session" /\ r3.origin = 0 /\ r3.launched
          /\ r3.file = "terminal"
      BY <2>3, <3>1 DEF Record
    <3> HIDE DEF r1, r2, r3
    <3> QED BY <3>2, <3>3, <3>4
  <2>5. \/ End(r1, "validation_failed", "validation_failed", 0)
        \/ End(r2, "human", "human_decision_required", 0)
        \/ End(r3, "human", "human_decision_required", 0)
    BY <1>3 DEF SessionBlocks
  <2> HIDE DEF r1, r2, r3
  <2> QED BY <1>0, <2>1, <2>4, <2>5, SessionCloses
<1>4. CASE ValidationFails(p)
  BY <1>0, <1>4, FailValidationStep DEF ValidationFails
<1>5. CASE FinalizeFails(p)
  BY <1>0, <1>5, FailValidationStep DEF FinalizeFails
<1>6. CASE PersistFails(p)
  BY <1>0, <1>6, FailValidationStep DEF PersistFails
<1>7. CASE Conflict(p)
  BY <1>0, <1>7, OpenSession, SessionCloses DEF Conflict
<1> QED BY <1>1, <1>2, <1>3, <1>4, <1>5, <1>6, <1>7

\* kernel.complete projects the feature ready at the head its commit made.
LEMMA CompleteSessionStep ==
  ASSUME IInv, NEW p \in Process, CompleteSession(p)
  PROVE  IInv'
<1>1. /\ pc[p] = "persisted" /\ pc[p] \in SessionSteps /\ Leave(p)
      /\ UNCHANGED <<tree, head, legacy, raced>>
  BY DEF CompleteSession, SessionSteps, LaunchedSteps
<1>2. /\ txns[open] \in Record /\ txns[open].mode = "session" /\ txns[open].origin = 0
      /\ txns[open].accepted => txns[open].launched
      /\ txns[open].file = "committed" => txns[open].commit \in 1..head.commit
      /\ head.commit \in Nat
  BY <1>1, OpenSession
<1>3. txns[open].commit = head.commit /\ txns[open].file \in {"committed", "no_changes"}
  BY <1>1 DEF IInv, CommandsOK, SessionOK
<1>4. CASE Clean
  <2> DEFINE state == IF plan[p].said = "ready" THEN "feature_ready" ELSE "paused"
             start == IF plan[p].said = "ready" THEN txns[open].commit ELSE 0
  <2>1. End(txns[open], "completed", state, start)
    BY <1>4 DEF CompleteSession
  <2>2. [state |-> state, start |-> start] \in Projection
    BY <1>2, <1>3 DEF Projection
  <2>3. tree.queue = head.queue
    BY <1>4 DEF Clean, Committed
  <2>4. state = "feature_ready" =>
          start = head.commit /\ (open \in raced \/ head.queue = "ready")
    <3>1. open \in raced \/ head.queue # "unbound"
      BY <1>1 DEF IInv, CommandsOK, SessionOK
    <3> QED BY <1>3, <2>3, <3>1 DEF CompleteSession, Derived
  <2>5. start <= head.commit
    BY <1>2, <1>3
  <2>6. "completed" \in Outcome /\ state # "queue_reconciliation"
    BY DEF Outcome
  <2> HIDE DEF state, start
  <2> QED BY <1>1, <1>2, <1>3, <2>1, <2>2, <2>4, <2>5, <2>6, Closing
<1>5. CASE ~Clean
  BY <1>1, <1>5, Quitting DEF CompleteSession, Unmoved
<1> QED BY <1>4, <1>5

\* A step that touches neither the repository nor the ledger.
LEMMA QuietKeeps ==
  ASSUME IInv, NEW p \in Process, StepBy(p), Unmoved, WorldOK',
         \/ legacy' = legacy
         \/ legacy' \in Legacy /\ (legacy'.status = "absent" <=> legacy.status = "absent"),
         pc' \in [Process -> Steps], plan' \in [Process -> Plan],
         reservation' \in Process \cup {NoProcess},
         pc'[p] \in Held => reservation' = p,
         \A q \in Process \ {p} : reservation = q => reservation' = q,
         SessionOK(p)', RecoveryOK(p)',
         pc'[p] \in PlannedSteps => PlanBound(p)'
  PROVE  IInv'
<1>1. Typed'
  BY DEF IInv, Typed, Unmoved
<1>2. PlansBound' /\ OneCommand' /\ CommandsOK'
  BY <1>1, QuietStep
<1>3. LedgerOK' /\ RepositoryOK'
  BY DEF IInv, LedgerOK, EntryOK, RepositoryOK, ReadyIsBound, Unmoved
<1> QED BY <1>1, <1>2, <1>3 DEF IInv

\* The command that holds the reservation rewrites the record of its open
\* transaction and goes on.
LEMMA Rewriting ==
  ASSUME IInv, NEW p \in Process, pc[p] \in SessionSteps \cup ApplySteps,
         pc'[p] \in SessionSteps \cup ApplySteps, StepBy(p),
         pc' \in [Process -> Steps], plan' \in [Process -> Plan],
         NEW e \in Record, txns' = [txns EXCEPT ![open] = e],
         UNCHANGED <<open, proj, legacy, reservation, raced>>,
         tree' \in Tree, head' \in BranchHead, head.commit <= head'.commit,
         e.mode = txns[open].mode, e.origin = txns[open].origin,
         e.outcome = txns[open].outcome, e.accepted => e.launched,
         e.file = "committed" => e.mode = "session" /\ e.commit \in 1..head'.commit,
         SessionOK(p)', RecoveryOK(p)',
         pc'[p] \in PlannedSteps => plan'[p] = plan[p] /\ pc[p] \in PlannedSteps
  PROVE  IInv'
<1>1. /\ pc[p] \in Held /\ pc'[p] \in Held /\ reservation = p
      /\ pc[p] \notin LegacySteps \cup {"idle", "dead"} /\ pc'[p] \notin LegacySteps
  BY DEF Held, SessionSteps, LaunchedSteps, ApplySteps, LegacySteps, IInv, OneCommand
<1>2. open # 0
  BY DEF IInv, CommandsOK, SessionOK, RecoveryOK
<1>3. /\ txns' \in Seq(Record) /\ Len(txns') = Len(txns) /\ txns'[open] = e
      /\ \A t \in DOMAIN txns : t # open => txns'[t] = txns[t]
  BY <1>2, Positions DEF IInv, Typed
<1>4. OpenRewritten
  BY <1>2, <1>3 DEF OpenRewritten
<1>5. PICK n \in Nat : n = open
  BY Positions DEF IInv
<1>6. EntryOK(n)'
  <2>1. EntryOK(n) /\ n \in 1..Len(txns) /\ n # 0 /\ open' = open
    BY <1>2, <1>5, Positions DEF IInv, LedgerOK
  <2>2. e.mode = "recovery" =>
          /\ txns[n].origin \in 1..(n - 1) /\ n = txns[n].origin + 1
          /\ txns'[txns[n].origin] = txns[txns[n].origin]
          /\ txns[txns[n].origin].mode = "session"
          /\ txns[txns[n].origin].outcome # "completed"
    BY <1>3, <1>5, <2>1, Positions DEF EntryOK, IInv
  <2>3. e.mode = "session" => e.origin = 0
    BY <1>5, <2>1 DEF EntryOK
  <2>4. e.outcome = "open"
    BY <1>5, <2>1 DEF EntryOK
  <2> QED BY <1>3, <1>5, <2>1, <2>2, <2>3, <2>4 DEF EntryOK
<1>7. head'.commit \in Nat
  BY DEF BranchHead
<1>8. LedgerOK' /\ ClosedStand
  BY <1>4, <1>5, <1>6, <1>7, LedgerRewritten DEF IInv
<1>9. Typed'
  BY <1>3 DEF IInv, Typed
<1>10. pc'[p] \in PlannedSteps => PlanBound(p)'
  BY <1>8, <1>9, PlanStands DEF IInv, PlansBound
<1>11. PlansBound' /\ OneCommand' /\ CommandsOK'
  BY <1>1, <1>8, <1>9, <1>10, HolderStep
<1>12. RepositoryOK'
  <2>1. /\ proj.start \in Nat /\ head.commit \in Nat /\ head'.commit \in Nat
        /\ proj.start <= head.commit
    BY DEF IInv, Typed, Projection, BranchHead, RepositoryOK
  <2>2. proj.state # "feature_ready"
    BY <1>2 DEF IInv, RepositoryOK
  <2> QED BY <1>2, <2>1, <2>2 DEF RepositoryOK, ReadyIsBound
<1>13. WorldOK'
  BY <1>1, HasLedger, WorldStands
<1> QED BY <1>8, <1>9, <1>11, <1>12, <1>13 DEF IInv

\* A process that goes to another step and changes nothing else.
LEMMA SettingOut ==
  ASSUME IInv, NEW p \in Process, NEW s \in Steps, Goto(p, s), plan' = plan
  PROVE  /\ pc' \in [Process -> Steps] /\ plan' \in [Process -> Plan]
         /\ pc'[p] = s /\ plan'[p] = plan[p] /\ StepBy(p)
BY Going DEF IInv, Typed, StepBy

\* The starting head is captured before the reservation, and binds nothing yet.
LEMMA CaptureStep ==
  ASSUME IInv, NEW p \in Process, Capture(p)
  PROVE  IInv'
<1>1. /\ "captured" \in Steps /\ "captured" \notin Held \cup PlannedSteps \cup LegacySteps
      /\ Goto(p, "captured") /\ legacy.status = "absent"
  BY DEF Steps, Held, PlannedSteps, LegacySteps, SessionSteps, LaunchedSteps, ApplySteps, Capture
<1>2. pc' \in [Process -> Steps] /\ pc'[p] = "captured" /\ \A q \in Process \ {p} : pc'[q] = pc[q]
  BY <1>1, Going DEF IInv
<1>3. [NoPlan EXCEPT !.start = head.commit] \in Plan
  <2>1. head.commit \in Nat
    BY DEF IInv, Typed, BranchHead
  <2> QED BY <2>1, PlanTypes DEF Plan
<1>4. plan' \in [Process -> Plan] /\ \A q \in Process \ {p} : plan'[q] = plan[q]
  BY <1>3 DEF Capture, IInv, Typed
<1>5. StepBy(p)
  BY <1>2, <1>4 DEF StepBy
<1>6. Unmoved /\ legacy' = legacy /\ reservation' = reservation
  BY DEF Capture, Unmoved
<1>7. WorldOK'
  BY <1>1, <1>2, <1>5, <1>6, WorldStands
<1>8. SessionOK(p)' /\ RecoveryOK(p)'
  BY <1>1, <1>2, AtRest
<1>9. reservation' \in Process \cup {NoProcess}
  BY <1>6 DEF IInv, Typed
<1> QED BY <1>1, <1>2, <1>4, <1>5, <1>6, <1>7, <1>8, <1>9, QuietKeeps

\* The reservation goes to one command, and only when nobody has it.
LEMMA ReserveStep ==
  ASSUME IInv, NEW p \in Process, Reserve(p)
  PROVE  IInv'
<1>1. CASE reservation = NoProcess
  <2>1. "reserved" \in Steps /\ "reserved" \notin PlannedSteps \cup LegacySteps
    BY DEF Steps, Held, PlannedSteps, LegacySteps, SessionSteps, LaunchedSteps, ApplySteps
  <2>2. /\ Goto(p, "reserved") /\ plan' = plan /\ reservation' = p
        /\ Unmoved /\ legacy' = legacy /\ pc[p] = "captured"
    BY <1>1 DEF Reserve, Unmoved
  <2>3. /\ pc' \in [Process -> Steps] /\ plan' \in [Process -> Plan]
        /\ pc'[p] = "reserved" /\ StepBy(p)
    BY <2>1, <2>2, SettingOut
  <2>4. WorldOK'
    <3>1. legacy.status = "absent"
      BY <2>2, HasLedger DEF LegacySteps
    <3> QED BY <2>1, <2>2, <2>3, <3>1, WorldStands
  <2>5. SessionOK(p)' /\ RecoveryOK(p)'
    BY <2>3 DEF SessionOK, RecoveryOK, SessionSteps, LaunchedSteps, ApplySteps
  <2>6. \A q \in Process \ {p} : reservation # q
    BY <1>1, PlanningConstants
  <2> QED BY <2>1, <2>2, <2>3, <2>4, <2>5, <2>6, QuietKeeps
<1>2. CASE reservation # NoProcess
  BY <1>2, Quitting DEF Reserve, Unmoved
<1> QED BY <1>1, <1>2

\* The session begins only when no transaction is open, on a round to reconcile.
LEMMA BeginSessionStep ==
  ASSUME IInv, NEW p \in Process, BeginSession(p)
  PROVE  IInv'
<1>1. CASE open = 0 /\ Clean /\ proj.state = "queue_reconciliation"
  <2>1. /\ pc[p] = "reserved" /\ Begin("session", 0, head.commit) /\ Goto(p, "begun")
        /\ reservation' = reservation /\ plan' = plan
        /\ tree' = tree /\ head' = head /\ proj' = proj /\ legacy' = legacy /\ raced' = raced
    BY <1>1 DEF BeginSession
  <2>2. PICK n \in Nat : n = Len(txns) + 1
    BY Positions DEF IInv
  <2>3. head.commit \in Nat /\ open \notin DOMAIN txns
    BY <1>1, Positions DEF IInv, Typed, BranchHead
  <2>4. /\ txns' \in Seq(Record) /\ LedgerOK' /\ ClosedStand
        /\ open' = n /\ Len(txns') = n
        /\ txns'[n].mode = "session" /\ txns'[n].file = "started"
    <3>1. PICK m \in {"session", "recovery"}, o \in Nat, b \in Nat :
            m = "session" /\ o = 0 /\ b = head.commit
      BY <2>3
    <3>2. Begin(m, o, b)
      BY <2>1, <3>1 DEF Begin
    <3>3. Typed /\ LedgerOK /\ head' = head /\ raced' = raced
      BY <2>1 DEF IInv
    <3>4. /\ txns' \in Seq(Record) /\ LedgerOK' /\ ClosedStand
          /\ open' = n /\ Len(txns') = n
          /\ txns'[n].mode = m /\ txns'[n].file = "started"
      BY <2>2, <2>3, <3>1, <3>2, <3>3, Beginning
    <3> QED BY <3>1, <3>4
  <2>5. /\ "begun" \in Steps /\ "begun" \notin PlannedSteps \cup LegacySteps
        /\ "begun" \in Held /\ pc[p] \in Held
    BY <2>1 DEF Steps, Held, PlannedSteps, LegacySteps, SessionSteps, LaunchedSteps, ApplySteps
  <2>6. /\ pc' \in [Process -> Steps] /\ plan' \in [Process -> Plan]
        /\ pc'[p] = "begun" /\ StepBy(p)
    BY <2>1, <2>5, SettingOut
  <2>7. Typed'
    BY <2>1, <2>4, <2>6 DEF IInv, Typed
  <2>8. SessionOK(p)' /\ RecoveryOK(p)'
    <3>1. head.queue # "unbound"
      BY <1>1, <2>1, HasLedger DEF IInv, RepositoryOK, LegacySteps
    <3> QED BY <2>1, <2>2, <2>4, <2>6, <3>1
            DEF SessionOK, RecoveryOK, SessionSteps, LaunchedSteps, ApplySteps
  <2>9. reservation' = p
    BY <2>1, <2>5 DEF IInv, OneCommand
  <2>10. PlansBound' /\ OneCommand' /\ CommandsOK'
    BY <2>4, <2>5, <2>6, <2>7, <2>8, <2>9, HolderStep
  <2>11. RepositoryOK'
    BY <1>1, <2>1 DEF IInv, RepositoryOK, ReadyIsBound
  <2>12. WorldOK'
    <3>1. legacy.status = "absent"
      BY <2>1, HasLedger DEF LegacySteps
    <3> QED BY <2>1, <2>5, <2>6, <3>1, WorldStands
  <2> QED BY <2>4, <2>7, <2>10, <2>11, <2>12 DEF IInv
<1>2. CASE ~(open = 0 /\ Clean /\ proj.state = "queue_reconciliation")
  <2>1. Leave(p) /\ Unmoved /\ legacy' = legacy
    BY <1>2 DEF BeginSession, Unmoved
  <2> QED BY <2>1, Quitting
<1> QED BY <1>1, <1>2

\* What the session writes is recorded as what it left, its file pending.
LEMMA RunSessionStep ==
  ASSUME IInv, NEW p \in Process, RunSession(p)
  PROVE  IInv'
<1>1. PICK t \in [edition : Edition \ {0}, queue : Queue, extra : {"none"}] \cup {tree},
           s \in Said, w \in BOOLEAN :
        /\ tree' = t
        /\ txns' = [txns EXCEPT ![open].left = t, ![open].said = s,
                                ![open].launched = TRUE, ![open].file = "pending"]
        /\ plan' = [plan EXCEPT ![p].said = s, ![p].warned = w]
  BY DEF RunSession
<1> DEFINE e == [txns[open] EXCEPT !.left = t, !.said = s, !.launched = TRUE, !.file = "pending"]
<1>2. /\ pc[p] = "begun" /\ Goto(p, "returned")
      /\ UNCHANGED <<head, open, proj, legacy, reservation, raced>>
  BY DEF RunSession
<1>3. /\ pc[p] \in SessionSteps /\ "returned" \in SessionSteps \cup ApplySteps
      /\ "returned" \in Steps /\ "returned" \notin PlannedSteps
  BY <1>2 DEF SessionSteps, LaunchedSteps, ApplySteps, Steps, Held, PlannedSteps
<1>4. pc' \in [Process -> Steps] /\ pc'[p] = "returned" /\ \A q \in Process \ {p} : pc'[q] = pc[q]
  BY <1>2, <1>3, Going DEF IInv
<1>5. /\ plan' \in [Process -> Plan] /\ \A q \in Process \ {p} : plan'[q] = plan[q]
  <2>1. /\ plan \in [Process -> Plan]
        /\ plan' = [plan EXCEPT ![p] = [plan[p] EXCEPT !.said = s, !.warned = w]]
    BY <1>1 DEF IInv, Typed
  <2>2. [plan[p] EXCEPT !.said = s, !.warned = w] \in Plan
    BY <2>1, PlanTypes
  <2> QED BY <2>1, <2>2
<1>6. t \in Tree
  BY DEF IInv, Typed, Tree, Edition
<1>7. /\ txns[open] \in Record /\ open # 0 /\ txns[open].mode = "session"
      /\ open \in raced \/ head.queue # "unbound"
  BY <1>3, OpenSession DEF IInv, CommandsOK, SessionOK
<1>8. /\ e \in Record /\ e.mode = txns[open].mode /\ e.origin = txns[open].origin
      /\ e.outcome = txns[open].outcome /\ e.launched = TRUE /\ e.file = "pending"
  BY <1>6, <1>7 DEF Record
<1>9. txns' = [txns EXCEPT ![open] = e]
  BY <1>1
<1> HIDE DEF e
<1>10. txns'[open'] = e /\ open' = open
  BY <1>2, <1>7, <1>9, Positions DEF IInv
<1>11. SessionOK(p)' /\ RecoveryOK(p)'
  BY <1>2, <1>4, <1>7, <1>8, <1>10 DEF SessionOK, RecoveryOK, SessionSteps, LaunchedSteps, ApplySteps
<1>12. head' \in BranchHead /\ head.commit <= head'.commit
  BY <1>2 DEF IInv, Typed, RepositoryOK, BranchHead
<1>13. StepBy(p) /\ tree' \in Tree
  BY <1>1, <1>4, <1>5, <1>6 DEF StepBy
<1> QED BY <1>2, <1>3, <1>4, <1>5, <1>8, <1>9, <1>11, <1>12, <1>13, Rewriting

\* The completed policy is bound by the record of the same transaction.
LEMMA CompletePolicyStep ==
  ASSUME IInv, NEW p \in Process, CompletePolicy(p)
  PROVE  IInv'
<1> DEFINE t == Completed(tree)
           e == [txns[open] EXCEPT !.left = t]
<1>1. /\ pc[p] = "returned" /\ Goto(p, "normalized") /\ plan' = plan /\ tree' = t
      /\ txns' = [txns EXCEPT ![open] = e]
      /\ UNCHANGED <<head, open, proj, legacy, reservation, raced>>
  BY DEF CompletePolicy
<1>2. /\ pc[p] \in SessionSteps /\ "normalized" \in SessionSteps \cup ApplySteps
      /\ "normalized" \in Steps /\ "normalized" \notin PlannedSteps
  BY <1>1 DEF SessionSteps, LaunchedSteps, ApplySteps, Steps, Held, PlannedSteps
<1>3. /\ pc' \in [Process -> Steps] /\ plan' \in [Process -> Plan]
      /\ pc'[p] = "normalized" /\ StepBy(p)
  BY <1>1, <1>2, SettingOut
<1>4. t \in Tree
  BY DEF IInv, Typed, Tree, Queue, Completed
<1>5. /\ txns[open] \in Record /\ open # 0 /\ txns[open].mode = "session"
      /\ txns[open].accepted => txns[open].launched
  BY <1>2, OpenSession
<1>6. /\ txns[open].launched /\ txns[open].file # "committed"
      /\ open \in raced \/ head.queue # "unbound"
  BY <1>1 DEF IInv, CommandsOK, SessionOK, SessionSteps, LaunchedSteps
<1>7. /\ e \in Record /\ e.mode = txns[open].mode /\ e.origin = txns[open].origin
      /\ e.outcome = txns[open].outcome /\ e.launched = txns[open].launched
      /\ e.file = txns[open].file
  BY <1>4, <1>5 DEF Record
<1> HIDE DEF e, t
<1>8. txns'[open'] = e /\ open' = open
  BY <1>1, <1>5, Positions DEF IInv
<1>9. SessionOK(p)' /\ RecoveryOK(p)'
  BY <1>1, <1>3, <1>5, <1>6, <1>7, <1>8
     DEF SessionOK, RecoveryOK, SessionSteps, LaunchedSteps, ApplySteps
<1>10. head' \in BranchHead /\ head.commit <= head'.commit
  BY <1>1 DEF IInv, Typed, RepositoryOK, BranchHead
<1> QED BY <1>1, <1>2, <1>3, <1>4, <1>6, <1>7, <1>9, <1>10, Rewriting

\* What is validated is clean at the head or has no feature without a policy.
LEMMA ValidateSessionStep ==
  ASSUME IInv, NEW p \in Process, ValidateSession(p)
  PROVE  IInv'
<1>1. /\ pc[p] \in {"returned", "normalized"} /\ Goto(p, "validated") /\ plan' = plan
      /\ Unmoved /\ legacy' = legacy /\ reservation' = reservation
  BY DEF ValidateSession, Unmoved
<1>2. /\ pc[p] \in SessionSteps /\ pc[p] \in LaunchedSteps /\ pc[p] # "persisted" /\ pc[p] \in Held
      /\ pc[p] \notin LegacySteps \cup {"idle", "dead"}
      /\ "validated" \in Steps /\ "validated" \notin PlannedSteps \cup LegacySteps
  BY <1>1 DEF SessionSteps, LaunchedSteps, ApplySteps, Steps, Held, PlannedSteps, LegacySteps
<1>3. /\ pc' \in [Process -> Steps] /\ plan' \in [Process -> Plan]
      /\ pc'[p] = "validated" /\ StepBy(p)
  BY <1>1, <1>2, SettingOut
<1>4. /\ open # 0 /\ txns[open].mode = "session" /\ txns[open].launched
      /\ txns[open].file # "committed"
      /\ open \in raced \/ head.queue # "unbound"
  BY <1>2 DEF IInv, CommandsOK, SessionOK
<1>5. open \in raced \/ tree.queue # "unbound"
  BY <1>4 DEF ValidateSession, Valid, ValidNoop, Clean, Committed
<1>6. SessionOK(p)' /\ RecoveryOK(p)'
  BY <1>1, <1>3, <1>4, <1>5
     DEF SessionOK, RecoveryOK, SessionSteps, LaunchedSteps, ApplySteps, Unmoved
<1>7. reservation' = p
  BY <1>1, <1>2 DEF IInv, OneCommand
<1>8. WorldOK'
  BY <1>1, <1>2, <1>3, HasLedger, WorldStands
<1> QED BY <1>1, <1>2, <1>3, <1>6, <1>7, <1>8, QuietKeeps

\* The accepted bytes are the validated ones, at the base of the transaction.
LEMMA AcceptResultStep ==
  ASSUME IInv, NEW p \in Process, AcceptResult(p)
  PROVE  IInv'
<1> DEFINE e == [txns[open] EXCEPT !.accepted = TRUE]
<1>1. /\ pc[p] = "validated" /\ Goto(p, "accepted") /\ plan' = [plan EXCEPT ![p].tree = tree]
      /\ txns' = [txns EXCEPT ![open] = e] /\ head.commit = txns[open].base
      /\ UNCHANGED <<tree, head, open, proj, legacy, reservation, raced>>
  BY DEF AcceptResult, SessionPaths
<1>2. /\ pc[p] \in SessionSteps /\ "accepted" \in SessionSteps \cup ApplySteps
      /\ "accepted" \in Steps /\ "accepted" \notin PlannedSteps
  BY <1>1 DEF SessionSteps, LaunchedSteps, ApplySteps, Steps, Held, PlannedSteps
<1>3. pc' \in [Process -> Steps] /\ pc'[p] = "accepted" /\ \A q \in Process \ {p} : pc'[q] = pc[q]
  BY <1>1, <1>2, Going DEF IInv
<1>4. /\ plan' \in [Process -> Plan] /\ plan'[p].tree = tree
      /\ \A q \in Process \ {p} : plan'[q] = plan[q]
  <2>1. /\ plan \in [Process -> Plan] /\ plan' = [plan EXCEPT ![p] = [plan[p] EXCEPT !.tree = tree]]
        /\ tree \in Tree
    BY <1>1 DEF IInv, Typed
  <2>2. [plan[p] EXCEPT !.tree = tree] \in Plan
    BY <2>1, PlanTypes
  <2>3. [plan[p] EXCEPT !.tree = tree].tree = tree
    BY <2>1 DEF Plan
  <2> QED BY <2>1, <2>2, <2>3
<1>5. txns[open] \in Record /\ open # 0 /\ txns[open].mode = "session"
  BY <1>2, OpenSession
<1>6. /\ txns[open].launched /\ txns[open].file # "committed"
      /\ open \in raced \/ tree.queue # "unbound"
      /\ open \in raced \/ head.queue # "unbound"
  BY <1>1 DEF IInv, CommandsOK, SessionOK, SessionSteps, LaunchedSteps
<1>7. /\ e \in Record /\ e.mode = txns[open].mode /\ e.origin = txns[open].origin
      /\ e.outcome = txns[open].outcome /\ e.launched = txns[open].launched
      /\ e.file = txns[open].file /\ e.base = txns[open].base
  BY <1>5 DEF Record
<1> HIDE DEF e
<1>8. txns'[open'] = e /\ open' = open
  BY <1>1, <1>5, Positions DEF IInv
<1>9. SessionOK(p)' /\ RecoveryOK(p)'
  BY <1>1, <1>3, <1>4, <1>5, <1>6, <1>7, <1>8
     DEF SessionOK, RecoveryOK, SessionSteps, LaunchedSteps, ApplySteps
<1>10. /\ head' \in BranchHead /\ head.commit <= head'.commit
       /\ tree' \in Tree
  BY <1>1 DEF IInv, Typed, RepositoryOK, BranchHead
<1>11. StepBy(p)
  BY <1>3, <1>4 DEF StepBy
<1> QED BY <1>1, <1>2, <1>3, <1>4, <1>6, <1>7, <1>9, <1>10, <1>11, Rewriting

\* The bytes are those that were accepted; with nothing to commit the commit
\* is the base.
LEMMA CompareSessionStep ==
  ASSUME IInv, NEW p \in Process, CompareSession(p)
  PROVE  IInv'
<1>1. /\ pc[p] = "accepted" /\ tree = plan[p].tree /\ plan' = plan
      /\ UNCHANGED <<tree, head, open, proj, legacy, reservation, raced>>
  BY DEF CompareSession
<1>2. /\ pc[p] \in SessionSteps /\ {"finalizing", "finalized"} \subseteq SessionSteps \cup ApplySteps
      /\ {"finalizing", "finalized"} \subseteq Steps \ (PlannedSteps \cup LegacySteps)
      /\ pc[p] \in Held /\ pc[p] \notin LegacySteps \cup {"idle", "dead"}
  BY <1>1 DEF SessionSteps, LaunchedSteps, ApplySteps, Steps, Held, PlannedSteps, LegacySteps
<1>3. /\ txns[open] \in Record /\ open # 0 /\ txns[open].mode = "session"
      /\ txns[open].accepted => txns[open].launched
      /\ head.commit \in Nat
  BY <1>2, OpenSession
<1>4. /\ txns[open].launched /\ txns[open].file # "committed" /\ head.commit = txns[open].base
      /\ open \in raced \/ tree.queue # "unbound"
      /\ open \in raced \/ head.queue # "unbound"
  BY <1>1 DEF IInv, CommandsOK, SessionOK, SessionSteps, LaunchedSteps
<1>5. CASE Clean
  <2> DEFINE e == [txns[open] EXCEPT !.commit = head.commit]
  <2>1. txns' = [txns EXCEPT ![open] = e] /\ Goto(p, "finalized")
    BY <1>5 DEF CompareSession
  <2>2. /\ pc' \in [Process -> Steps] /\ plan' \in [Process -> Plan]
        /\ pc'[p] = "finalized" /\ StepBy(p)
    BY <1>1, <1>2, <2>1, SettingOut
  <2>3. /\ e \in Record /\ e.mode = txns[open].mode /\ e.origin = txns[open].origin
        /\ e.outcome = txns[open].outcome /\ e.launched = txns[open].launched
        /\ e.accepted = txns[open].accepted
        /\ e.file = txns[open].file /\ e.base = txns[open].base /\ e.commit = head.commit
    BY <1>3 DEF Record
  <2> HIDE DEF e
  <2>4. txns'[open'] = e /\ open' = open
    BY <1>1, <1>3, <2>1, Positions DEF IInv
  <2>5. SessionOK(p)' /\ RecoveryOK(p)'
    BY <1>1, <1>3, <1>4, <2>2, <2>3, <2>4
       DEF SessionOK, RecoveryOK, SessionSteps, LaunchedSteps, ApplySteps
  <2>6. head' \in BranchHead /\ head.commit <= head'.commit /\ tree' \in Tree
    BY <1>1 DEF IInv, Typed, BranchHead
  <2> QED BY <1>1, <1>2, <1>3, <1>4, <2>1, <2>2, <2>3, <2>5, <2>6, Rewriting
<1>6. CASE ~Clean
  <2>1. Goto(p, "finalizing") /\ Unmoved
    BY <1>1, <1>6 DEF CompareSession, Unmoved
  <2>2. /\ pc' \in [Process -> Steps] /\ plan' \in [Process -> Plan]
        /\ pc'[p] = "finalizing" /\ StepBy(p)
    BY <1>1, <1>2, <2>1, SettingOut
  <2>3. SessionOK(p)' /\ RecoveryOK(p)'
    BY <1>3, <1>4, <2>1, <2>2
       DEF SessionOK, RecoveryOK, SessionSteps, LaunchedSteps, ApplySteps, Unmoved
  <2>4. reservation' = p
    BY <1>1, <1>2 DEF IInv, OneCommand
  <2>5. WorldOK'
    BY <1>1, <1>2, <2>2, HasLedger, WorldStands
  <2>6. legacy' = legacy /\ legacy \in Legacy
    BY <1>1 DEF IInv, Typed
  <2> QED BY <1>1, <1>2, <2>1, <2>2, <2>3, <2>4, <2>5, <2>6, QuietKeeps
<1> QED BY <1>5, <1>6

\* The commit is one after the base, and has whatever the tree holds.
LEMMA CommitSessionStep ==
  ASSUME IInv, NEW p \in Process, CommitSession(p)
  PROVE  IInv'
<1> DEFINE e == [txns[open] EXCEPT !.commit = head'.commit]
<1>1. /\ pc[p] = "finalizing" /\ Goto(p, "finalized") /\ plan' = plan /\ Commit
      /\ txns' = [txns EXCEPT ![open] = e]
      /\ UNCHANGED <<tree, open, proj, legacy, reservation, raced>>
  BY DEF CommitSession
<1>2. /\ pc[p] \in SessionSteps /\ "finalized" \in SessionSteps \cup ApplySteps
      /\ "finalized" \in Steps /\ "finalized" \notin PlannedSteps
  BY <1>1 DEF SessionSteps, LaunchedSteps, ApplySteps, Steps, Held, PlannedSteps
<1>3. /\ pc' \in [Process -> Steps] /\ plan' \in [Process -> Plan]
      /\ pc'[p] = "finalized" /\ StepBy(p)
  BY <1>1, <1>2, SettingOut
<1>4. /\ txns[open] \in Record /\ open # 0 /\ txns[open].mode = "session"
      /\ txns[open].accepted => txns[open].launched
  BY <1>2, OpenSession
<1>5. /\ txns[open].launched /\ txns[open].file # "committed"
      /\ head.commit = txns[open].base
      /\ open \in raced \/ tree.queue # "unbound"
  BY <1>1 DEF IInv, CommandsOK, SessionOK, SessionSteps, LaunchedSteps
<1>6. /\ head' \in BranchHead /\ head.commit <= head'.commit
      /\ head'.commit = head.commit + 1 /\ head'.commit \in Nat /\ tree' \in Tree
      /\ head'.queue = tree.queue
  BY <1>1, <1>5 DEF Commit, IInv, Typed, BranchHead, Tree
<1>7. /\ e \in Record /\ e.mode = txns[open].mode /\ e.origin = txns[open].origin
      /\ e.outcome = txns[open].outcome /\ e.launched = txns[open].launched
      /\ e.accepted = txns[open].accepted
      /\ e.file = txns[open].file /\ e.base = txns[open].base /\ e.commit = head'.commit
  BY <1>4, <1>6 DEF Record
<1> HIDE DEF e
<1>8. txns'[open'] = e /\ open' = open
  BY <1>1, <1>4, Positions DEF IInv
<1>9. SessionOK(p)' /\ RecoveryOK(p)'
  BY <1>1, <1>3, <1>4, <1>5, <1>6, <1>7, <1>8
     DEF SessionOK, RecoveryOK, SessionSteps, LaunchedSteps, ApplySteps
<1>10. e.accepted => e.launched
  BY <1>4, <1>7
<1> QED BY <1>1, <1>2, <1>3, <1>5, <1>6, <1>7, <1>9, <1>10, Rewriting

\* The file says committed only when the commit is past the base.
LEMMA PersistCommittedStep ==
  ASSUME IInv, NEW p \in Process, PersistCommitted(p)
  PROVE  IInv'
<1> DEFINE f == IF txns[open].commit = txns[open].base THEN "no_changes" ELSE "committed"
           e == [txns[open] EXCEPT !.file = f]
<1>1. /\ pc[p] = "finalized" /\ Goto(p, "persisted") /\ plan' = plan
      /\ txns' = [txns EXCEPT ![open] = e]
      /\ UNCHANGED <<tree, head, open, proj, legacy, reservation, raced>>
  BY DEF PersistCommitted
<1>2. /\ pc[p] \in SessionSteps /\ "persisted" \in SessionSteps \cup ApplySteps
      /\ "persisted" \in Steps /\ "persisted" \notin PlannedSteps
  BY <1>1 DEF SessionSteps, LaunchedSteps, ApplySteps, Steps, Held, PlannedSteps
<1>3. /\ pc' \in [Process -> Steps] /\ plan' \in [Process -> Plan]
      /\ pc'[p] = "persisted" /\ StepBy(p)
  BY <1>1, <1>2, SettingOut
<1>4. /\ txns[open] \in Record /\ open # 0 /\ txns[open].mode = "session"
      /\ txns[open].accepted => txns[open].launched /\ head.commit \in Nat
  BY <1>2, OpenSession
<1>5. /\ txns[open].launched /\ txns[open].commit = head.commit
      /\ open \in raced \/ head.queue # "unbound"
      /\ txns[open].commit \in {txns[open].base, txns[open].base + 1}
  BY <1>1 DEF IInv, CommandsOK, SessionOK, SessionSteps, LaunchedSteps
<1>6. f \in {"no_changes", "committed"} /\ (f = "committed" => head.commit \in 1..head.commit)
  BY <1>4, <1>5 DEF Record
<1> HIDE DEF f
<1>7. /\ e \in Record /\ e.mode = txns[open].mode /\ e.origin = txns[open].origin
      /\ e.outcome = txns[open].outcome /\ e.launched = txns[open].launched
      /\ e.accepted = txns[open].accepted /\ e.commit = txns[open].commit /\ e.file = f
  BY <1>4, <1>6 DEF Record
<1> HIDE DEF e
<1>8. txns'[open'] = e /\ open' = open
  BY <1>1, <1>4, Positions DEF IInv
<1>9. SessionOK(p)' /\ RecoveryOK(p)'
  BY <1>1, <1>3, <1>4, <1>5, <1>6, <1>7, <1>8
     DEF SessionOK, RecoveryOK, SessionSteps, LaunchedSteps, ApplySteps
<1>10. /\ head' \in BranchHead /\ head.commit <= head'.commit
       /\ tree' \in Tree
  BY <1>1 DEF IInv, Typed, RepositoryOK, BranchHead
<1>11. e.accepted => e.launched
  BY <1>4, <1>7
<1>12. e.file = "committed" => e.mode = "session" /\ e.commit \in 1..head'.commit
  BY <1>1, <1>4, <1>5, <1>6, <1>7
<1> QED BY <1>1, <1>2, <1>3, <1>7, <1>9, <1>10, <1>11, <1>12, Rewriting

\* Every step of the planning session keeps the invariant.
LEMMA SessionKeeps ==
  ASSUME IInv, NEW p \in Process, Session(p)
  PROVE  IInv'
BY CaptureStep, ReserveStep, BeginSessionStep, SessionEnds, RunSessionStep, CompletePolicyStep,
   ValidateSessionStep, AcceptResultStep, CompareSessionStep, CommitSessionStep,
   PersistCommittedStep, CompleteSessionStep
   DEF Session

-----------------------------------------------------------------------------
(* The recovery.                                                           *)

\* The transaction of a recovery that has begun, and the one it recovers.
LEMMA OpenRecovery ==
  ASSUME IInv, NEW p \in Process, pc[p] \in ApplySteps
  PROVE  /\ open # 0 /\ open = Len(txns) /\ open \in DOMAIN txns /\ txns[open] \in Record
         /\ txns[open].mode = "recovery" /\ txns[open].origin = plan[p].origin
         /\ txns[open].outcome = "open" /\ txns[open].file # "committed"
         /\ txns[open].accepted => txns[open].launched
         /\ head.commit \in Nat
         /\ txns[plan[p].origin].commit = plan[p].commit
         /\ plan[p].commit = 0 =>
              plan[p].tree = txns[plan[p].origin].left /\ plan[p].tree.extra = "none"
<1>1. open # 0 /\ txns[open].mode = "recovery" /\ txns[open].origin = plan[p].origin
  BY DEF IInv, CommandsOK, RecoveryOK
<1>2. open = Len(txns) /\ open \in DOMAIN txns /\ txns[open] \in Record /\ head.commit \in Nat
  BY <1>1, Positions DEF IInv, Typed, BranchHead
<1>3. EntryOK(open)
  BY <1>2 DEF IInv, LedgerOK
<1>4. PlanBound(p)
  BY DEF IInv, PlansBound, PlannedSteps
<1>5. plan[p].commit = 0 =>
        plan[p].tree = txns[plan[p].origin].left /\ plan[p].tree.extra = "none"
  BY DEF IInv, CommandsOK, RecoveryOK
<1> QED BY <1>1, <1>2, <1>3, <1>4, <1>5 DEF EntryOK, PlanBound

\* A plan binds the latest transaction, which is closed and keeps its record.
LEMMA PlanRecoveryStep ==
  ASSUME IInv, NEW p \in Process, PlanRecovery(p)
  PROVE  IInv'
<1> DEFINE x == [NoPlan EXCEPT !.origin = Len(txns), !.ledger = Len(txns), !.tree = tree,
                               !.start = head.commit, !.commit = txns[Len(txns)].commit]
<1>1. /\ pc[p] = "idle" /\ Goto(p, "planned") /\ plan' = [plan EXCEPT ![p] = x]
      /\ Unmoved /\ legacy' = legacy /\ reservation' = reservation
      /\ Authentic(p, Len(txns))
  BY DEF PlanRecovery, Unmoved
<1>2. "planned" \in Steps /\ "planned" \notin Held \cup LegacySteps
  BY DEF Steps, Held, PlannedSteps, LegacySteps, SessionSteps, LaunchedSteps, ApplySteps
<1>3. pc' \in [Process -> Steps] /\ pc'[p] = "planned" /\ \A q \in Process \ {p} : pc'[q] = pc[q]
  BY <1>1, <1>2, Going DEF IInv
<1>4. /\ Len(txns) \in DOMAIN txns /\ Len(txns) # open /\ Len(txns) \in Nat
      /\ txns[Len(txns)].mode = "session" /\ txns[Len(txns)] \in Record
  BY <1>1, Positions DEF Authentic, IInv
<1>5. x \in Plan /\ x.origin = Len(txns) /\ x.ledger = Len(txns) /\ x.commit = txns[Len(txns)].commit
  <2>1. tree \in Tree /\ head.commit \in Nat /\ txns[Len(txns)].commit \in Nat /\ NoPlan \in Plan
    BY <1>4, PlanTypes DEF IInv, Typed, BranchHead, Record
  <2>2. Len(txns) \in Nat
    BY <1>4
  <2> QED BY <2>1, <2>2 DEF Plan
<1> HIDE DEF x
<1>6. /\ plan' \in [Process -> Plan] /\ plan'[p] = x
      /\ \A q \in Process \ {p} : plan'[q] = plan[q]
  BY <1>1, <1>5 DEF IInv, Typed
<1>7. StepBy(p)
  BY <1>3, <1>6 DEF StepBy
<1>8. SessionOK(p)' /\ RecoveryOK(p)'
  BY <1>2, <1>3, AtRest
<1>9. PlanBound(p)'
  BY <1>1, <1>4, <1>5, <1>6 DEF PlanBound, Unmoved
<1>10. WorldOK'
  <2>1. legacy.status = "absent"
    BY <1>4 DEF IInv, WorldOK
  <2> QED BY <1>1, <1>2, <1>3, <1>7, <2>1, WorldStands
<1>11. reservation' \in Process \cup {NoProcess}
  BY <1>1 DEF IInv, Typed
<1> QED BY <1>1, <1>2, <1>3, <1>6, <1>7, <1>8, <1>9, <1>10, <1>11, QuietKeeps

\* The plan outlives the wait for the reservation.
LEMMA ReserveRecoveryStep ==
  ASSUME IInv, NEW p \in Process, ReserveRecovery(p)
  PROVE  IInv'
<1>1. CASE reservation = NoProcess
  <2>1. "reserved_recovery" \in Steps /\ "reserved_recovery" \notin LegacySteps
    BY DEF Steps, Held, PlannedSteps, LegacySteps, SessionSteps, LaunchedSteps, ApplySteps
  <2>2. /\ Goto(p, "reserved_recovery") /\ plan' = plan /\ reservation' = p
        /\ Unmoved /\ legacy' = legacy /\ pc[p] = "planned"
    BY <1>1 DEF ReserveRecovery, Unmoved
  <2>3. /\ pc' \in [Process -> Steps] /\ plan' \in [Process -> Plan]
        /\ pc'[p] = "reserved_recovery" /\ plan'[p] = plan[p] /\ StepBy(p)
    BY <2>1, <2>2, SettingOut
  <2>4. WorldOK'
    <3>1. legacy.status = "absent"
      BY <2>2, HasLedger DEF LegacySteps
    <3> QED BY <2>1, <2>2, <2>3, <3>1, WorldStands
  <2>5. SessionOK(p)' /\ RecoveryOK(p)'
    BY <2>3 DEF SessionOK, RecoveryOK, SessionSteps, LaunchedSteps, ApplySteps
  <2>6. \A q \in Process \ {p} : reservation # q
    BY <1>1, PlanningConstants
  <2>7. PlanBound(p)'
    BY <2>2, <2>3 DEF IInv, PlansBound, PlanBound, PlannedSteps, Unmoved
  <2> QED BY <2>1, <2>2, <2>3, <2>4, <2>5, <2>6, <2>7, QuietKeeps
<1>2. CASE reservation # NoProcess
  BY <1>2, Quitting DEF ReserveRecovery, Unmoved
<1> QED BY <1>1, <1>2

\* What an authentic result is: not one that completed, and with no commit
\* only the diff its evidence binds.
LEMMA AuthenticResult ==
  ASSUME IInv, NEW p \in Process, NEW o \in DOMAIN txns, Authentic(p, o)
  PROVE  /\ txns[o].outcome # "completed" /\ o = Len(txns) /\ open = 0
         /\ proj.state = "validation_failed"
         /\ txns[o].commit = 0 => tree = txns[o].left /\ tree.extra = "none"
         /\ txns[o].commit # 0 => head.queue = "ready"
<1>1. EntryOK(o)
  BY DEF IInv, LedgerOK
<1>2. CASE DirtyAuthentic(txns[o])
  <2>1. Completed(tree).extra = tree.extra
    BY DEF Completed, IInv, Typed, Tree
  <2> QED BY <1>2, <2>1
        DEF Authentic, DirtyAuthentic, Recoverable, PolicyMissing, Corroborated, Bound, Selectable,
            Valid, RetainedTopology
<1>3. CASE CommittedAuthentic(txns[o])
  <2>1. head.commit \in Nat
    BY DEF IInv, Typed, BranchHead
  <2> QED BY <1>1, <1>3, <2>1 DEF Authentic, CommittedAuthentic, EntryOK
<1> QED BY <1>2, <1>3 DEF Authentic

\* Made again under the reservation, the plan binds the diff the evidence binds.
LEMMA RevalidateStep ==
  ASSUME IInv, NEW p \in Process, Revalidate(p)
  PROVE  IInv'
<1>1. CASE Unchanged(p)
  <2>1. "verified" \in Steps /\ "verified" \notin LegacySteps /\ "reserved_recovery" \in Held
    BY DEF Steps, Held, PlannedSteps, LegacySteps, SessionSteps, LaunchedSteps, ApplySteps
  <2>2. /\ pc[p] = "reserved_recovery" /\ Goto(p, "verified") /\ plan' = plan
        /\ reservation' = reservation /\ Unmoved /\ legacy' = legacy
    BY <1>1 DEF Revalidate, Unmoved
  <2>3. /\ pc' \in [Process -> Steps] /\ plan' \in [Process -> Plan]
        /\ pc'[p] = "verified" /\ plan'[p] = plan[p] /\ StepBy(p)
    BY <2>1, <2>2, SettingOut
  <2>4. WorldOK'
    <3>1. legacy.status = "absent"
      BY <2>2, HasLedger DEF LegacySteps
    <3> QED BY <2>1, <2>2, <2>3, <3>1, WorldStands
  <2>5. PlanBound(p)
    BY <2>2 DEF IInv, PlansBound, PlannedSteps
  <2>6. /\ txns[plan[p].origin].outcome # "completed" /\ plan[p].origin = Len(txns)
        /\ proj.state = "validation_failed"
        /\ plan[p].commit = 0 =>
             plan[p].tree = txns[plan[p].origin].left /\ plan[p].tree.extra = "none"
        /\ plan[p].commit # 0 => head.queue = "ready"
    BY <1>1, <2>5, AuthenticResult DEF Unchanged, PlanBound
  <2>7. SessionOK(p)' /\ RecoveryOK(p)'
    BY <2>2, <2>3, <2>6
       DEF SessionOK, RecoveryOK, SessionSteps, LaunchedSteps, ApplySteps, Unmoved
  <2>8. PlanBound(p)'
    BY <2>2, <2>3, <2>5 DEF PlanBound, Unmoved
  <2>9. reservation' = p
    BY <2>1, <2>2 DEF IInv, OneCommand
  <2> QED BY <2>1, <2>2, <2>3, <2>4, <2>7, <2>8, <2>9, QuietKeeps
<1>2. CASE ~Unchanged(p)
  BY <1>2, Quitting DEF Revalidate, Unmoved
<1> QED BY <1>1, <1>2

\* The recovery is the transaction right after the one it recovers.
LEMMA BeginRecoveryStep ==
  ASSUME IInv, NEW p \in Process, BeginRecovery(p)
  PROVE  IInv'
<1>1. CASE MayBegin(p)
  <2> DEFINE s == IF plan[p].commit # 0 THEN "adopt" ELSE "complete_policy"
  <2>1. /\ pc[p] = "verified" /\ Begin("recovery", plan[p].origin, head.commit) /\ Goto(p, s)
        /\ reservation' = reservation /\ plan' = plan /\ open = 0
        /\ tree' = tree /\ head' = head /\ proj' = proj /\ legacy' = legacy /\ raced' = raced
    BY <1>1 DEF BeginRecovery, MayBegin
  <2>2. PICK n \in Nat : n = Len(txns) + 1
    BY Positions DEF IInv
  <2>3. head.commit \in Nat /\ open \notin DOMAIN txns
    BY <2>1, Positions DEF IInv, Typed, BranchHead
  <2>4. PlanBound(p)
    BY <2>1 DEF IInv, PlansBound, PlannedSteps
  <2>5. /\ txns[plan[p].origin].mode = "session" /\ txns[plan[p].origin].outcome # "completed"
        /\ plan[p].origin = n - 1 /\ plan[p].origin # 0 /\ plan[p].origin \in Nat
        /\ plan[p].origin \in DOMAIN txns
        /\ proj.state = "validation_failed"
        /\ plan[p].commit = 0 =>
             plan[p].tree = txns[plan[p].origin].left /\ plan[p].tree.extra = "none"
        /\ plan[p].commit # 0 => head.queue = "ready"
    BY <2>1, <2>2, <2>4, Positions DEF IInv, CommandsOK, RecoveryOK, PlanBound
  <2>6. /\ txns' \in Seq(Record) /\ LedgerOK' /\ ClosedStand
        /\ open' = n /\ Len(txns') = n
        /\ txns'[n].mode = "recovery" /\ txns'[n].origin = plan[p].origin
    <3>1. PICK b \in Nat, o \in Nat : b = head.commit /\ o = plan[p].origin
      BY <2>3, <2>5
    <3>2. Begin("recovery", o, b)
      BY <2>1, <3>1 DEF Begin
    <3>3. Typed /\ LedgerOK /\ head' = head /\ raced' = raced
      BY <2>1 DEF IInv
    <3>4. /\ txns' \in Seq(Record) /\ LedgerOK' /\ ClosedStand
          /\ open' = n /\ Len(txns') = n
          /\ txns'[n].mode = "recovery" /\ txns'[n].origin = o
      BY <2>2, <2>3, <2>5, <3>1, <3>2, <3>3, Beginning
    <3> QED BY <3>1, <3>4
  <2>7. /\ s \in Steps /\ s \notin LegacySteps \cup SessionSteps /\ s \in Held /\ pc[p] \in Held
        /\ s \in ApplySteps /\ s \in PlannedSteps
    BY <2>1 DEF Steps, Held, PlannedSteps, LegacySteps, SessionSteps, LaunchedSteps, ApplySteps
  <2>8. s \in {"adopt", "complete_policy"} /\ (s = "complete_policy" <=> plan[p].commit = 0)
    OBVIOUS
  <2> HIDE DEF s
  <2>9. /\ pc' \in [Process -> Steps] /\ plan' \in [Process -> Plan]
        /\ pc'[p] = s /\ plan'[p] = plan[p] /\ StepBy(p)
    BY <2>1, <2>7, SettingOut
  <2>10. Typed'
    BY <2>1, <2>6, <2>9 DEF IInv, Typed
  <2>11. txns'[plan[p].origin] = txns[plan[p].origin]
    BY <2>1, <2>5, <2>6, <2>3 DEF ClosedStand
  <2>12. SessionOK(p)' /\ RecoveryOK(p)'
    <3>1. open' # 0 /\ txns'[open'].mode = "recovery" /\ txns'[open'].origin = plan'[p].origin
      BY <2>2, <2>6, <2>9, Positions DEF IInv
    <3>2. SessionOK(p)'
      BY <2>8, <2>9 DEF SessionOK, SessionSteps, LaunchedSteps
    <3>3. RecoveryOK(p)'
      BY <3>1, <2>1, <2>5, <2>8, <2>9, <2>11 DEF RecoveryOK, ApplySteps
    <3> QED BY <3>2, <3>3
  <2>13. PlanBound(p)'
    BY <2>4, <2>6, <2>9, <2>10, PlanStands DEF IInv
  <2>14. reservation' = p
    BY <2>1, <2>7 DEF IInv, OneCommand
  <2>15. PlansBound' /\ OneCommand' /\ CommandsOK'
    BY <2>6, <2>7, <2>9, <2>10, <2>12, <2>13, <2>14, HolderStep
  <2>16. RepositoryOK'
    BY <2>1, <2>5 DEF IInv, RepositoryOK, ReadyIsBound
  <2>17. WorldOK'
    <3>1. legacy.status = "absent"
      BY <2>1, HasLedger DEF LegacySteps
    <3> QED BY <2>1, <2>7, <2>9, <3>1, WorldStands
  <2> QED BY <2>6, <2>10, <2>15, <2>16, <2>17 DEF IInv
<1>2. CASE ~MayBegin(p)
  <2>1. Leave(p) /\ Unmoved /\ legacy' = legacy
    BY <1>2 DEF BeginRecovery, Unmoved
  <2> QED BY <2>1, Quitting
<1> QED BY <1>1, <1>2

\* Completing the policy changes the tree and nothing that the plan binds.
LEMMA CompletePolicyInRecoveryStep ==
  ASSUME IInv, NEW p \in Process, CompletePolicyInRecovery(p)
  PROVE  IInv'
<1>1. /\ pc[p] = "complete_policy" /\ Goto(p, "finalize") /\ plan' = plan
      /\ tree' = Completed(tree)
      /\ head' = head /\ txns' = txns /\ open' = open /\ proj' = proj /\ legacy' = legacy
      /\ reservation' = reservation /\ raced' = raced
  BY DEF CompletePolicyInRecovery
<1>2. /\ "finalize" \in Steps /\ "finalize" \notin LegacySteps /\ "finalize" \in PlannedSteps
      /\ pc[p] \in Held /\ pc[p] \in ApplySteps /\ pc[p] \in PlannedSteps
      /\ pc[p] \notin LegacySteps \cup {"idle", "dead"}
  BY <1>1 DEF Steps, Held, PlannedSteps, LegacySteps, SessionSteps, LaunchedSteps, ApplySteps
<1>3. /\ pc' \in [Process -> Steps] /\ plan' \in [Process -> Plan]
      /\ pc'[p] = "finalize" /\ plan'[p] = plan[p] /\ StepBy(p)
  BY <1>1, <1>2, SettingOut
<1>4. tree' \in Tree
  BY <1>1 DEF IInv, Typed, Tree, Completed, Queue
<1>5. Typed'
  BY <1>1, <1>3, <1>4 DEF IInv, Typed
<1>6. LedgerOK' /\ ClosedStand
  BY <1>1, Positions DEF IInv, LedgerOK, EntryOK, ClosedStand
<1>7. SessionOK(p)'
  BY <1>3 DEF SessionOK, SessionSteps, LaunchedSteps
<1>8. RecoveryOK(p)'
  BY <1>1, <1>2, <1>3 DEF IInv, CommandsOK, RecoveryOK, ApplySteps
<1>9. PlanBound(p)'
  BY <1>1, <1>2, <1>3 DEF IInv, PlansBound, PlanBound
<1>10. reservation' = p
  BY <1>1, <1>2 DEF IInv, OneCommand
<1>11. PlansBound' /\ OneCommand' /\ CommandsOK'
  BY <1>2, <1>3, <1>5, <1>6, <1>7, <1>8, <1>9, <1>10, HolderStep
<1>12. RepositoryOK'
  BY <1>1 DEF IInv, RepositoryOK, ReadyIsBound
<1>13. WorldOK'
  BY <1>1, <1>2, <1>3, HasLedger, WorldStands
<1> QED BY <1>5, <1>6, <1>11, <1>12, <1>13 DEF IInv

\* The diff is the planned one with its policy when it is compared.
LEMMA CompareRetainedStep ==
  ASSUME IInv, NEW p \in Process, CompareRetained(p)
  PROVE  IInv'
<1>1. /\ pc[p] = "finalize" /\ Goto(p, "committing") /\ plan' = plan
      /\ Unmoved /\ legacy' = legacy /\ reservation' = reservation
      /\ tree = Completed(plan[p].tree)
  BY DEF CompareRetained, Retained, Unmoved
<1>2. /\ "committing" \in Steps /\ "committing" \notin LegacySteps
      /\ pc[p] \in Held /\ pc[p] \in ApplySteps /\ pc[p] \in PlannedSteps
      /\ pc[p] \notin LegacySteps \cup {"idle", "dead"}
  BY <1>1 DEF Steps, Held, PlannedSteps, LegacySteps, SessionSteps, LaunchedSteps, ApplySteps
<1>3. /\ pc' \in [Process -> Steps] /\ plan' \in [Process -> Plan]
      /\ pc'[p] = "committing" /\ plan'[p] = plan[p] /\ StepBy(p)
  BY <1>1, <1>2, SettingOut
<1>4. SessionOK(p)'
  BY <1>3 DEF SessionOK, SessionSteps, LaunchedSteps
<1>5. RecoveryOK(p)'
  BY <1>1, <1>2, <1>3 DEF IInv, CommandsOK, RecoveryOK, ApplySteps, Unmoved
<1>6. PlanBound(p)'
  BY <1>1, <1>2, <1>3 DEF IInv, PlansBound, PlanBound, Unmoved
<1>7. reservation' = p
  BY <1>1, <1>2 DEF IInv, OneCommand
<1>8. WorldOK'
  BY <1>1, <1>2, <1>3, HasLedger, WorldStands
<1>9. legacy \in Legacy
  BY DEF IInv, Typed
<1> QED BY <1>1, <1>2, <1>3, <1>4, <1>5, <1>6, <1>7, <1>8, <1>9, QuietKeeps

\* The recovery commits what the tree holds: the planned diff, unless
\* somebody edited it after the comparison.
LEMMA CommitRetainedStep ==
  ASSUME IInv, NEW p \in Process, CommitRetained(p)
  PROVE  IInv'
<1>1. /\ pc[p] = "committing" /\ Goto(p, "recovery_commit") /\ plan' = plan /\ Commit
      /\ UNCHANGED <<tree, txns, open, proj, legacy, reservation, raced>>
  BY DEF CommitRetained
<1>2. /\ pc[p] \in ApplySteps /\ pc[p] \in SessionSteps \cup ApplySteps
      /\ "recovery_commit" \in SessionSteps \cup ApplySteps
      /\ "recovery_commit" \in Steps /\ pc[p] \in PlannedSteps
  BY <1>1 DEF SessionSteps, LaunchedSteps, ApplySteps, Steps, Held, PlannedSteps
<1>3. /\ pc' \in [Process -> Steps] /\ plan' \in [Process -> Plan]
      /\ pc'[p] = "recovery_commit" /\ plan'[p] = plan[p] /\ StepBy(p)
  BY <1>1, <1>2, SettingOut
<1>4. PICK e \in Record : e = txns[open]
  BY <1>2, OpenRecovery
<1>5. /\ open # 0 /\ e.mode = "recovery" /\ e.origin = plan[p].origin /\ e.file # "committed"
      /\ e.accepted => e.launched
      /\ head.commit \in Nat /\ open \in DOMAIN txns
  BY <1>2, <1>4, OpenRecovery
<1>6. /\ plan[p].commit = 0 /\ txns[plan[p].origin].outcome # "completed"
      /\ plan[p].tree = txns[plan[p].origin].left /\ plan[p].tree.extra = "none"
      /\ open \in raced \/ tree = Completed(plan[p].tree)
  BY <1>1, <1>2 DEF IInv, CommandsOK, RecoveryOK
<1>7. /\ head' \in BranchHead /\ head.commit <= head'.commit /\ tree' \in Tree
      /\ head'.edition = tree.edition /\ head'.queue = tree.queue
  BY <1>1, <1>5 DEF Commit, IInv, Typed, BranchHead, Tree
<1>8. open \in raced \/ HeadIsPlanned(p)'
  <2>1. plan[p].tree \in Tree /\ Completed(plan[p].tree).edition = plan[p].tree.edition
    BY DEF IInv, Typed, Plan, Tree, Completed
  <2> QED BY <1>3, <1>6, <1>7, <2>1 DEF HeadIsPlanned
<1>9. txns' = [txns EXCEPT ![open] = e]
  BY <1>1, <1>4, <1>5 DEF IInv, Typed
<1>10. SessionOK(p)'
  BY <1>3 DEF SessionOK, SessionSteps, LaunchedSteps
<1>11. RecoveryOK(p)'
  BY <1>1, <1>3, <1>4, <1>5, <1>6, <1>8 DEF RecoveryOK, ApplySteps
<1> QED BY <1>1, <1>2, <1>3, <1>4, <1>5, <1>7, <1>9, <1>10, <1>11, Rewriting

\* The commit that left a clean tree is recorded.
LEMMA ConfirmRecoveryStep ==
  ASSUME IInv, NEW p \in Process, ConfirmRecovery(p)
  PROVE  IInv'
<1> DEFINE e == [txns[open] EXCEPT !.commit = head.commit]
<1>1. /\ pc[p] = "recovery_commit" /\ Goto(p, "complete_recovery") /\ plan' = plan
      /\ txns' = [txns EXCEPT ![open] = e]
      /\ UNCHANGED <<tree, head, open, proj, legacy, reservation, raced>>
  BY DEF ConfirmRecovery
<1>2. /\ pc[p] \in ApplySteps /\ pc[p] \in SessionSteps \cup ApplySteps
      /\ "complete_recovery" \in SessionSteps \cup ApplySteps
      /\ "complete_recovery" \in Steps /\ pc[p] \in PlannedSteps
  BY <1>1 DEF SessionSteps, LaunchedSteps, ApplySteps, Steps, Held, PlannedSteps
<1>3. /\ pc' \in [Process -> Steps] /\ plan' \in [Process -> Plan]
      /\ pc'[p] = "complete_recovery" /\ plan'[p] = plan[p] /\ StepBy(p)
  BY <1>1, <1>2, SettingOut
<1>4. /\ txns[open] \in Record /\ open # 0 /\ txns[open].mode = "recovery"
      /\ txns[open].origin = plan[p].origin /\ txns[open].file # "committed"
      /\ txns[open].accepted => txns[open].launched
      /\ head.commit \in Nat /\ open \in DOMAIN txns
  BY <1>2, OpenRecovery
<1>5. /\ txns[plan[p].origin].outcome # "completed" /\ plan[p].commit = 0
      /\ plan[p].tree = txns[plan[p].origin].left /\ plan[p].tree.extra = "none"
      /\ open \in raced \/ HeadIsPlanned(p)
  BY <1>1, <1>2 DEF IInv, CommandsOK, RecoveryOK
<1>6. head' \in BranchHead /\ head.commit <= head'.commit /\ tree' \in Tree
  BY <1>1 DEF IInv, Typed, BranchHead
<1>7. /\ e \in Record /\ e.mode = txns[open].mode /\ e.origin = txns[open].origin
      /\ e.outcome = txns[open].outcome /\ e.launched = txns[open].launched
      /\ e.accepted = txns[open].accepted
      /\ e.file = txns[open].file /\ e.commit = head.commit
  BY <1>4 DEF Record
<1> HIDE DEF e
<1>8. txns'[open'] = e /\ open' = open
  BY <1>1, <1>4, Positions DEF IInv
<1>9. txns'[plan[p].origin] = txns[plan[p].origin]
  BY <1>1, <1>2 DEF IInv, PlansBound, PlanBound
<1>10. SessionOK(p)'
  BY <1>3 DEF SessionOK, SessionSteps, LaunchedSteps
<1>11. open' \in raced' \/ HeadIsPlanned(p)'
  BY <1>1, <1>3, <1>5 DEF HeadIsPlanned
<1>12. RecoveryOK(p)'
  BY <1>1, <1>3, <1>4, <1>5, <1>7, <1>8, <1>9, <1>11 DEF RecoveryOK, ApplySteps
<1>13. e.accepted => e.launched
  BY <1>4, <1>7
<1> QED BY <1>1, <1>2, <1>3, <1>4, <1>6, <1>7, <1>10, <1>12, <1>13, Rewriting

\* The recovery adopts the commit that its origin recorded.
LEMMA AdoptCommitStep ==
  ASSUME IInv, NEW p \in Process, AdoptCommit(p)
  PROVE  IInv'
<1> DEFINE e == [txns[open] EXCEPT !.commit = head.commit]
<1>1. /\ pc[p] = "adopt" /\ Goto(p, "complete_recovery") /\ plan' = plan
      /\ txns' = [txns EXCEPT ![open] = e] /\ head.commit = plan[p].commit
      /\ UNCHANGED <<tree, head, open, proj, legacy, reservation, raced>>
  BY DEF AdoptCommit
<1>2. /\ pc[p] \in ApplySteps /\ pc[p] \in SessionSteps \cup ApplySteps
      /\ "complete_recovery" \in SessionSteps \cup ApplySteps
      /\ "complete_recovery" \in Steps /\ pc[p] \in PlannedSteps
  BY <1>1 DEF SessionSteps, LaunchedSteps, ApplySteps, Steps, Held, PlannedSteps
<1>3. /\ pc' \in [Process -> Steps] /\ plan' \in [Process -> Plan]
      /\ pc'[p] = "complete_recovery" /\ plan'[p] = plan[p] /\ StepBy(p)
  BY <1>1, <1>2, SettingOut
<1>4. /\ txns[open] \in Record /\ open # 0 /\ txns[open].mode = "recovery"
      /\ txns[open].origin = plan[p].origin /\ txns[open].file # "committed"
      /\ txns[open].accepted => txns[open].launched
      /\ head.commit \in Nat /\ open \in DOMAIN txns
  BY <1>2, OpenRecovery
<1>5. /\ txns[plan[p].origin].outcome # "completed" /\ plan[p].commit # 0
      /\ head.queue = "ready"
  BY <1>1, <1>2 DEF IInv, CommandsOK, RecoveryOK
<1>6. /\ head' \in BranchHead /\ head.commit <= head'.commit
      /\ tree' \in Tree
  BY <1>1 DEF IInv, Typed, RepositoryOK, BranchHead
<1>7. /\ e \in Record /\ e.mode = txns[open].mode /\ e.origin = txns[open].origin
      /\ e.outcome = txns[open].outcome /\ e.launched = txns[open].launched
      /\ e.accepted = txns[open].accepted
      /\ e.file = txns[open].file /\ e.commit = head.commit
  BY <1>4 DEF Record
<1> HIDE DEF e
<1>8. txns'[open'] = e /\ open' = open
  BY <1>1, <1>4, Positions DEF IInv
<1>9. txns'[plan[p].origin] = txns[plan[p].origin]
  BY <1>1, <1>2 DEF IInv, PlansBound, PlanBound
<1>10. SessionOK(p)'
  BY <1>3 DEF SessionOK, SessionSteps, LaunchedSteps
<1>11. RecoveryOK(p)'
  BY <1>1, <1>3, <1>4, <1>5, <1>7, <1>8, <1>9 DEF RecoveryOK, ApplySteps
<1>12. e.accepted => e.launched
  BY <1>4, <1>7
<1> QED BY <1>1, <1>2, <1>3, <1>4, <1>6, <1>7, <1>10, <1>11, <1>12, Rewriting

\* A recovery that fails ends without an applied result.
LEMMA RecoveryFailsStep ==
  ASSUME IInv, NEW p \in Process, RecoveryFails(p)
  PROVE  IInv'
<1>1. /\ pc[p] \in ApplySteps /\ pc[p] \in SessionSteps \cup ApplySteps
      /\ End(txns[open], "recovery_failed", "human_decision_required", 0) /\ Leave(p)
  BY DEF RecoveryFails, ApplySteps
<1>2. UNCHANGED <<tree, head, legacy, raced>>
  BY DEF RecoveryFails
<1>3. /\ txns[open] \in Record /\ txns[open].mode = "recovery"
      /\ txns[open].file # "committed"
      /\ txns[open].accepted => txns[open].launched
      /\ head.commit \in Nat
  BY <1>1, OpenRecovery
<1>4. "recovery_failed" \in Outcome
  BY DEF Outcome
<1>5. [state |-> "human_decision_required", start |-> 0] \in Projection
  BY DEF Projection
<1> QED BY <1>1, <1>2, <1>3, <1>4, <1>5, Closing

\* What is applied is the planned tree, and it is what the origin left.
LEMMA CompleteRecoveryStep ==
  ASSUME IInv, NEW p \in Process, CompleteRecovery(p)
  PROVE  IInv'
<1>1. pc[p] = "complete_recovery" /\ pc[p] \in ApplySteps /\ Leave(p)
  BY DEF CompleteRecovery, ApplySteps
<1>2. UNCHANGED <<tree, head, legacy, raced>>
  BY DEF CompleteRecovery
<1>3. /\ txns[open] \in Record /\ txns[open].mode = "recovery"
      /\ txns[open].origin = plan[p].origin /\ txns[open].file # "committed"
      /\ txns[open].accepted => txns[open].launched
      /\ head.commit \in Nat
      /\ txns[plan[p].origin].commit = plan[p].commit
      /\ plan[p].commit = 0 =>
           plan[p].tree = txns[plan[p].origin].left /\ plan[p].tree.extra = "none"
  BY <1>1, OpenRecovery
<1>4. /\ txns[open].commit = head.commit
      /\ plan[p].commit = 0 => open \in raced \/ HeadIsPlanned(p)
      /\ plan[p].commit # 0 => txns[open].commit = plan[p].commit /\ head.queue = "ready"
  BY <1>1 DEF IInv, CommandsOK, RecoveryOK
<1>5. CASE Clean
  <2> DEFINE queue == Completed(plan[p].tree).queue
             state == RecoveredState(queue)
             start == IF queue = "ready" THEN txns[open].commit ELSE 0
  <2>1. End(txns[open], "applied", state, start)
    BY <1>5 DEF CompleteRecovery
  <2>2. [state |-> state, start |-> start] \in Projection
    BY <1>3, <1>4 DEF Projection, RecoveredState
  <2>3. state = "feature_ready" =>
          start = head.commit /\ (open \in raced \/ head.queue = "ready")
    BY <1>4 DEF RecoveredState, HeadIsPlanned
  <2>4. start <= head.commit /\ state # "queue_reconciliation"
    BY <1>3, <1>4 DEF RecoveredState
  <2>5. "applied" \in Outcome
    BY DEF Outcome
  <2>6. plan[p].commit = 0 => open \in raced \/ tree = Completed(plan[p].tree)
    <3>1. plan[p].tree \in Tree
      BY DEF IInv, Typed, Plan
    <3>2. CASE plan[p].tree.queue = "unbound"
      BY <1>3, <1>4, <1>5, <3>1, <3>2 DEF Clean, Committed, Completed, Tree, HeadIsPlanned
    <3>3. CASE plan[p].tree.queue # "unbound"
      BY <1>3, <1>4, <1>5, <3>1, <3>3 DEF Clean, Committed, Completed, Tree, HeadIsPlanned
    <3> QED BY <3>2, <3>3
  <2>7. \/ open \in raced
        \/ IF txns[txns[open].origin].commit = 0
           THEN tree = Completed(txns[txns[open].origin].left)
           ELSE txns[open].commit = txns[txns[open].origin].commit
    BY <1>3, <1>4, <2>6
  <2> HIDE DEF queue, state, start
  <2> QED BY <1>1, <1>2, <1>3, <2>1, <2>2, <2>3, <2>4, <2>5, <2>7, Closing
<1>6. CASE ~Clean
  BY <1>1, <1>2, <1>6, Quitting DEF CompleteRecovery, Unmoved
<1> QED BY <1>5, <1>6

\* Every step of a recovery keeps the invariant.
LEMMA RecoverKeeps ==
  ASSUME IInv, NEW p \in Process, Recover(p)
  PROVE  IInv'
BY PlanRecoveryStep, ReserveRecoveryStep, RevalidateStep, BeginRecoveryStep,
   CompletePolicyInRecoveryStep, CompareRetainedStep, CommitRetainedStep, ConfirmRecoveryStep,
   AdoptCommitStep, RecoveryFailsStep, CompleteRecoveryStep
   DEF Recover

-----------------------------------------------------------------------------
(* The project without a ledger, the environment and the initial states.   *)

\* A project with a planning file alone.
LEMMA NoLedger ==
  ASSUME IInv, NEW p \in Process,
         legacy.status # "absent" \/ pc[p] \in LegacySteps
  PROVE  /\ legacy.status # "absent" /\ legacy \in Legacy
         /\ txns = <<>> /\ Len(txns) = 0 /\ open = 0 /\ DOMAIN txns = {}
         /\ LegacyCommittedOnce
         /\ \A q \in Process : LegacyOK(q)
BY DEF IInv, WorldOK, Typed

\* At the steps of this recovery nothing is owed to a ledger.
LEMMA LegacyOwesNothing ==
  ASSUME NEW p \in Process, pc'[p] \in LegacySteps \cup {"idle", "dead"}
  PROVE  SessionOK(p)' /\ RecoveryOK(p)' /\ pc'[p] \notin PlannedSteps
BY DEF SessionOK, RecoveryOK, SessionSteps, LaunchedSteps, ApplySteps, LegacySteps, PlannedSteps

\* Whoever is done with the planning file knows no more about it.
LEMMA LegacyRest ==
  ASSUME NEW p \in Process, pc'[p] \in {"idle", "dead", "legacy_loaded", "legacy_valid",
                                        "legacy_gated", "legacy_committing"}
  PROVE  LegacyOK(p)'
BY DEF LegacyOK, LegacySteps

\* A step of it that commits nothing.
LEMMA LegacyQuiet ==
  ASSUME IInv, NEW p \in Process, StepBy(p), Unmoved, legacy.status # "absent",
         legacy' \in Legacy, legacy'.status # "absent", legacy'.edition = legacy.edition,
         legacy'.status = "committed" => head.commit = 1,
         pc' \in [Process -> Steps], plan' \in [Process -> Plan], LegacyOK(p)',
         reservation' \in Process \cup {NoProcess},
         pc'[p] \in Held => reservation' = p,
         \A q \in Process \ {p} : reservation = q => reservation' = q
  PROVE  IInv'
<1>1. WorldOK'
  <2>1. txns' = <<>> /\ LegacyCommittedOnce'
    BY NoLedger DEF LegacyCommittedOnce, Unmoved
  <2>2. ASSUME NEW q \in Process \ {p}
        PROVE  LegacyOK(q)'
    BY NoLedger DEF LegacyOK, Unmoved, StepBy, Recorded
  <2> QED BY <2>1, <2>2 DEF WorldOK
<1>2. SessionOK(p)' /\ RecoveryOK(p)' /\ pc'[p] \notin PlannedSteps
  BY LegacyOwesNothing DEF LegacyOK
<1> QED BY <1>1, <1>2, QuietKeeps

\* The file is told committed only when the commit is there.
LEMMA LegacyLoadStep ==
  ASSUME IInv, NEW p \in Process, LegacyLoad(p)
  PROVE  IInv'
<1>1. /\ pc[p] = "idle" /\ legacy.status # "absent" /\ Unmoved
      /\ reservation' = reservation /\ plan' = plan
  BY DEF LegacyLoad, Unmoved
<1>2. reservation' \in Process \cup {NoProcess} /\ legacy \in Legacy
  BY <1>1 DEF IInv, Typed
<1>3. {"legacy_loaded", "legacy_adopted"} \subseteq (Steps \cap LegacySteps) \ Held
  BY DEF Steps, LegacySteps, Held, SessionSteps, LaunchedSteps, ApplySteps
<1>4. CASE legacy.status = "committing" /\ Clean /\ head.commit = 1
  <2>1. legacy' = [legacy EXCEPT !.status = "committed"] /\ Goto(p, "legacy_adopted")
    BY <1>4 DEF LegacyLoad
  <2>2. legacy' \in Legacy /\ legacy'.status = "committed" /\ legacy'.edition = legacy.edition
    BY <1>2, <2>1 DEF Legacy
  <2>3. /\ pc' \in [Process -> Steps] /\ plan' \in [Process -> Plan]
        /\ pc'[p] = "legacy_adopted" /\ StepBy(p)
    BY <1>1, <1>3, <2>1, SettingOut
  <2>4. LegacyOK(p)'
    BY <1>1, <1>4, <2>3 DEF LegacyOK, LegacySteps, Unmoved
  <2> QED BY <1>1, <1>2, <1>3, <1>4, <2>2, <2>3, <2>4, LegacyQuiet
<1>5. CASE ~(legacy.status = "committing" /\ Clean /\ head.commit = 1)
  <2>1. Goto(p, "legacy_loaded") /\ legacy' = legacy /\ legacy.status # "committed"
    BY <1>5 DEF LegacyLoad
  <2>2. /\ pc' \in [Process -> Steps] /\ plan' \in [Process -> Plan]
        /\ pc'[p] = "legacy_loaded" /\ StepBy(p)
    BY <1>1, <1>3, <2>1, SettingOut
  <2>3. LegacyOK(p)'
    BY <2>2, LegacyRest
  <2> QED BY <1>1, <1>2, <1>3, <2>1, <2>2, <2>3, LegacyQuiet
<1> QED BY <1>4, <1>5

\* A result that does not validate becomes a gate in the file.
LEMMA LegacyValidateStep ==
  ASSUME IInv, NEW p \in Process, LegacyValidate(p)
  PROVE  IInv'
<1>1. /\ pc[p] = "legacy_loaded" /\ pc[p] \in LegacySteps /\ Unmoved
      /\ reservation' = reservation /\ plan' = plan
  BY DEF LegacyValidate, Unmoved, LegacySteps
<1>2. reservation' \in Process \cup {NoProcess} /\ legacy \in Legacy
  BY <1>1 DEF IInv, Typed
<1>3. {"legacy_valid", "legacy_gated"} \subseteq (Steps \cap LegacySteps) \ Held
  BY DEF Steps, LegacySteps, Held, SessionSteps, LaunchedSteps, ApplySteps
<1>4. legacy.status # "absent" /\ (legacy.status = "committed" => head.commit = 1)
  BY <1>1, NoLedger DEF LegacyCommittedOnce
<1>5. PICK s \in {"legacy_valid", "legacy_gated"} : Goto(p, s)
  BY DEF LegacyValidate
<1>6. /\ legacy' \in Legacy /\ legacy'.status # "absent" /\ legacy'.edition = legacy.edition
      /\ legacy'.status = "committed" => head.commit = 1
  BY <1>2, <1>4 DEF LegacyValidate, Legacy
<1>7. /\ pc' \in [Process -> Steps] /\ plan' \in [Process -> Plan]
      /\ pc'[p] = s /\ StepBy(p)
  BY <1>1, <1>3, <1>5, SettingOut
<1>8. LegacyOK(p)'
  BY <1>7, LegacyRest
<1> QED BY <1>1, <1>2, <1>3, <1>4, <1>6, <1>7, <1>8, LegacyQuiet

\* The file says committing only under the reservation.
LEMMA LegacyReserveStep ==
  ASSUME IInv, NEW p \in Process, LegacyReserve(p)
  PROVE  IInv'
<1>1. pc[p] = "legacy_valid" /\ pc[p] \in LegacySteps /\ Unmoved
  BY DEF LegacyReserve, Unmoved, LegacySteps
<1>2. CASE reservation = NoProcess
  <2>1. "legacy_committing" \in Steps
    BY DEF Steps, LegacySteps
  <2>2. /\ reservation' = p /\ Goto(p, "legacy_committing") /\ plan' = plan
        /\ legacy' = [legacy EXCEPT !.status = "committing"]
    BY <1>2 DEF LegacyReserve
  <2>3. legacy.status # "absent" /\ legacy \in Legacy
    BY <1>1, NoLedger
  <2>4. legacy' \in Legacy /\ legacy'.status = "committing" /\ legacy'.edition = legacy.edition
    BY <2>2, <2>3 DEF Legacy
  <2>5. /\ pc' \in [Process -> Steps] /\ plan' \in [Process -> Plan]
        /\ pc'[p] = "legacy_committing" /\ StepBy(p)
    BY <2>1, <2>2, SettingOut
  <2>6. \A q \in Process \ {p} : reservation # q
    BY <1>2, PlanningConstants
  <2>7. LegacyOK(p)'
    BY <2>5, LegacyRest
  <2> QED BY <1>1, <2>2, <2>3, <2>4, <2>5, <2>6, <2>7, LegacyQuiet
<1>3. CASE reservation # NoProcess
  BY <1>1, <1>3, Quitting DEF LegacyReserve
<1> QED BY <1>2, <1>3

\* The head and the diff are the recorded ones when they are compared.
LEMMA LegacyCompareStep ==
  ASSUME IInv, NEW p \in Process, LegacyCompare(p)
  PROVE  IInv'
<1>1. /\ pc[p] = "legacy_committing" /\ pc[p] \in LegacySteps /\ pc[p] \in Held
      /\ Unmoved /\ legacy' = legacy
  BY DEF LegacyCompare, Unmoved, LegacySteps, Held
<1>2. CASE head.commit = 0 /\ tree = Recorded
  <2>1. "legacy_compared" \in Steps
    BY DEF Steps, LegacySteps
  <2>2. Goto(p, "legacy_compared") /\ plan' = plan /\ reservation' = reservation
    BY <1>2 DEF LegacyCompare
  <2>3. /\ pc' \in [Process -> Steps] /\ plan' \in [Process -> Plan]
        /\ pc'[p] = "legacy_compared" /\ StepBy(p)
    BY <2>1, <2>2, SettingOut
  <2>4. reservation' = p
    BY <1>1, <2>2 DEF IInv, OneCommand
  <2>5. LegacyOK(p)'
    BY <1>1, <1>2, <2>3 DEF LegacyOK, LegacySteps, Unmoved, Recorded
  <2>6. legacy.status # "absent" /\ legacy \in Legacy
        /\ (legacy.status = "committed" => head.commit = 1)
    BY <1>1, NoLedger DEF LegacyCommittedOnce
  <2> QED BY <1>1, <2>2, <2>3, <2>4, <2>5, <2>6, LegacyQuiet
<1>3. CASE ~(head.commit = 0 /\ tree = Recorded)
  BY <1>1, <1>3, Quitting DEF LegacyCompare
<1> QED BY <1>2, <1>3

\* The commit is at the recorded head, so once; it has the recorded bytes
\* unless somebody edited them after the comparison.
LEMMA LegacyFinalizeStep ==
  ASSUME IInv, NEW p \in Process, LegacyFinalize(p)
  PROVE  IInv'
<1>1. CASE Edited
  <2>1. /\ pc[p] = "legacy_compared" /\ Commit /\ Goto(p, "legacy_committed") /\ plan' = plan
        /\ tree' = tree /\ txns' = txns /\ open' = open /\ proj' = proj /\ legacy' = legacy
        /\ reservation' = reservation /\ raced' = raced
    BY <1>1 DEF LegacyFinalize
  <2>2. /\ pc[p] \in LegacySteps /\ pc[p] \in Held
        /\ "legacy_committed" \in Steps /\ "legacy_committed" \in LegacySteps
    BY <2>1 DEF Steps, LegacySteps, Held
  <2>3. /\ pc' \in [Process -> Steps] /\ plan' \in [Process -> Plan]
        /\ pc'[p] = "legacy_committed" /\ StepBy(p)
    BY <2>1, <2>2, SettingOut
  <2>4. /\ legacy.status # "absent" /\ txns = <<>> /\ open = 0 /\ DOMAIN txns = {}
        /\ LegacyCommittedOnce /\ \A q \in Process : LegacyOK(q)
    BY <2>2, NoLedger
  <2>5. head.commit = 0 /\ (0 \in raced \/ tree = Recorded)
    BY <2>1, <2>4 DEF LegacyOK
  <2>6. head' \in BranchHead /\ head'.commit = 1
    BY <2>1, <2>5 DEF Commit, IInv, Typed, BranchHead, Tree
  <2>7. 0 \notin raced => head'.edition = legacy.edition /\ head'.queue = "ready"
    BY <2>1, <2>5 DEF Commit, Recorded
  <2>8. Typed'
    BY <2>1, <2>3, <2>6 DEF IInv, Typed
  <2>9. LedgerOK' /\ ClosedStand
    BY <2>1, <2>4, Positions DEF LedgerOK, ClosedStand, IInv
  <2>10. SessionOK(p)' /\ RecoveryOK(p)' /\ pc'[p] \notin PlannedSteps
    BY <2>2, <2>3, LegacyOwesNothing
  <2>11. reservation' = p
    BY <2>1, <2>2 DEF IInv, OneCommand
  <2>12. PlansBound' /\ OneCommand' /\ CommandsOK'
    BY <2>2, <2>3, <2>8, <2>9, <2>10, <2>11, HolderStep
  <2>13. RepositoryOK'
    <3>1. proj.state # "feature_ready" /\ proj.start = 0
      BY <2>4, <2>5 DEF IInv, RepositoryOK, ReadyIsBound, Typed, Projection
    <3> QED BY <2>1, <2>4, <2>6, <3>1 DEF RepositoryOK, ReadyIsBound
  <2>14. WorldOK'
    <3>1. LegacyCommittedOnce'
      BY <2>1, <2>6, <2>7 DEF LegacyCommittedOnce
    <3>2. ASSUME NEW q \in Process
          PROVE  LegacyOK(q)'
      <4>1. CASE q = p
        BY <2>2, <2>3, <2>6, <4>1 DEF LegacyOK
      <4>2. CASE q # p
        <5>1. pc'[q] = pc[q] /\ LegacyOK(q)
          BY <2>3, <2>4, <4>2 DEF StepBy
        <5>2. pc[q] \notin Held
          BY <2>1, <2>2, <4>2 DEF IInv, OneCommand
        <5> QED BY <2>6, <5>1, <5>2 DEF LegacyOK, Held
      <4> QED BY <4>1, <4>2
    <3> QED BY <2>1, <2>4, <3>1, <3>2 DEF WorldOK
  <2> QED BY <2>8, <2>9, <2>12, <2>13, <2>14 DEF IInv
<1>2. CASE ~Edited
  BY <1>2, Quitting DEF LegacyFinalize, Unmoved
<1> QED BY <1>1, <1>2

\* The file says committed after the commit.
LEMMA LegacyPersistStep ==
  ASSUME IInv, NEW p \in Process, LegacyPersist(p)
  PROVE  IInv'
<1>1. /\ pc[p] = "legacy_committed" /\ pc[p] \in LegacySteps /\ pc[p] \in Held /\ Unmoved
  BY DEF LegacyPersist, Unmoved, LegacySteps, Held
<1>2. legacy.status # "absent" /\ legacy \in Legacy /\ head.commit = 1
  BY <1>1, NoLedger DEF LegacyOK
<1>3. CASE Clean
  <2>1. /\ legacy' = [legacy EXCEPT !.status = "committed"]
        /\ Goto(p, "legacy_persisted") /\ plan' = plan /\ reservation' = reservation
    BY <1>3 DEF LegacyPersist
  <2>2. legacy' \in Legacy /\ legacy'.status = "committed" /\ legacy'.edition = legacy.edition
    BY <1>2, <2>1 DEF Legacy
  <2>3. "legacy_persisted" \in Steps
    BY DEF Steps, LegacySteps
  <2>4. /\ pc' \in [Process -> Steps] /\ plan' \in [Process -> Plan]
        /\ pc'[p] = "legacy_persisted" /\ StepBy(p)
    BY <2>1, <2>3, SettingOut
  <2>5. reservation' = p
    BY <1>1, <2>1 DEF IInv, OneCommand
  <2>6. LegacyOK(p)'
    BY <1>1, <1>2, <2>4 DEF LegacyOK, LegacySteps, Unmoved
  <2> QED BY <1>1, <1>2, <2>1, <2>2, <2>4, <2>5, <2>6, LegacyQuiet
<1>4. CASE ~Clean
  BY <1>1, <1>4, Quitting DEF LegacyPersist
<1> QED BY <1>3, <1>4

\* A step that changes the project document alone, or begins its ledger.
LEMMA LegacyProjecting ==
  ASSUME IInv, NEW p \in Process, pc[p] \in LegacySteps, Leave(p),
         UNCHANGED <<tree, head, txns, open, raced>>,
         legacy' \in Legacy, legacy'.status = legacy.status, legacy'.edition = legacy.edition,
         proj' \in Projection, proj'.start <= head.commit,
         proj'.state = "feature_ready" => head.commit = 1
  PROVE  IInv'
<1>1. /\ pc' \in [Process -> Steps] /\ plan' \in [Process -> Plan]
      /\ pc'[p] = "idle" /\ StepBy(p)
      /\ reservation = p => reservation' = NoProcess
      /\ reservation # p => reservation' = reservation
  BY Leaving DEF IInv
<1>2. /\ legacy.status # "absent" /\ txns = <<>> /\ Len(txns) = 0 /\ open = 0 /\ DOMAIN txns = {}
      /\ LegacyCommittedOnce /\ \A q \in Process : LegacyOK(q)
  BY NoLedger
<1>3. Typed'
  BY <1>1 DEF IInv, Typed
<1>4. ASSUME NEW q \in Process
      PROVE  LegacyOK(q)'
  BY <1>1, <1>2 DEF LegacyOK, StepBy, Recorded
<1>5. LedgerOK' /\ WorldOK'
  BY <1>2, <1>4 DEF LedgerOK, WorldOK, LegacyCommittedOnce
<1>6. ASSUME NEW q \in Process
      PROVE  SessionOK(q)' /\ RecoveryOK(q)' /\ pc'[q] \notin PlannedSteps
  BY <1>4, LegacyOwesNothing DEF LegacyOK
<1>7. PlansBound' /\ CommandsOK'
  BY <1>6 DEF PlansBound, CommandsOK
<1>8. OneCommand'
  <2>1. "idle" \notin Held
    BY DEF Held, SessionSteps, LaunchedSteps, ApplySteps
  <2> QED BY <1>1, <2>1 DEF IInv, OneCommand, StepBy
<1>9. RepositoryOK'
  <2>1. proj'.start \in Nat /\ head.commit \in Nat
    BY DEF IInv, Typed, Projection, BranchHead
  <2> QED BY <1>2, <2>1 DEF RepositoryOK, ReadyIsBound, LegacyCommittedOnce
<1> QED BY <1>3, <1>5, <1>7, <1>8, <1>9 DEF IInv

\* The project document says ready only after the commit.
LEMMA LegacyProjectStep ==
  ASSUME IInv, NEW p \in Process, LegacyProject(p)
  PROVE  IInv'
<1> DEFINE state == IF pc[p] = "legacy_gated" THEN "validation_failed" ELSE "feature_ready"
           start == IF pc[p] = "legacy_persisted" THEN head.commit ELSE proj.start
<1>1. /\ pc[p] \in ToProject /\ pc[p] \in LegacySteps /\ Leave(p)
      /\ UNCHANGED <<tree, head, txns, open, raced>>
      /\ legacy' = [legacy EXCEPT !.ledger = TRUE]
      /\ proj' = [state |-> state, start |-> start]
  BY DEF LegacyProject, ToProject, LegacySteps
<1>2. legacy' \in Legacy /\ legacy'.status = legacy.status /\ legacy'.edition = legacy.edition
  BY <1>1, NoLedger DEF Legacy
<1>3. start \in Nat /\ start <= head.commit
  BY DEF IInv, Typed, Projection, BranchHead, RepositoryOK
<1>4. proj' \in Projection /\ proj'.start <= head.commit
  BY <1>1, <1>3 DEF Projection
<1>5. LegacyOK(p)
  BY <1>1, NoLedger
<1>6. proj'.state = "feature_ready" => head.commit = 1
  BY <1>1, <1>5 DEF LegacyOK, ToProject
<1> HIDE DEF state, start
<1> QED BY <1>1, <1>2, <1>4, <1>6, LegacyProjecting

\* A transition that fails may leave a ledger that has begun.
LEMMA LegacyProjectFailsStep ==
  ASSUME IInv, NEW p \in Process, LegacyProjectFails(p)
  PROVE  IInv'
<1>1. PICK began \in BOOLEAN : legacy' = [legacy EXCEPT !.ledger = legacy.ledger \/ began]
  BY DEF LegacyProjectFails
<1>2. /\ pc[p] \in LegacySteps /\ Leave(p) /\ UNCHANGED <<tree, head, txns, open, raced>>
      /\ proj' = proj
  BY DEF LegacyProjectFails, ToProject, LegacySteps
<1>3. legacy \in Legacy /\ legacy.status # "absent"
  BY <1>2, NoLedger
<1>4. legacy' \in Legacy /\ legacy'.status = legacy.status /\ legacy'.edition = legacy.edition
  BY <1>1, <1>3 DEF Legacy
<1>5. /\ proj' \in Projection /\ proj'.start <= head.commit
      /\ proj'.state = "feature_ready" => head.commit = 1
  BY <1>2, <1>3 DEF IInv, Typed, RepositoryOK, ReadyIsBound
<1> QED BY <1>2, <1>4, <1>5, LegacyProjecting

\* Every step of the recovery without a ledger keeps the invariant.
LEMMA RecoverLegacyKeeps ==
  ASSUME IInv, NEW p \in Process, RecoverLegacy(p)
  PROVE  IInv'
BY LegacyLoadStep, LegacyValidateStep, LegacyReserveStep, LegacyCompareStep, LegacyFinalizeStep,
   LegacyPersistStep, LegacyProjectStep, LegacyProjectFailsStep
   DEF RecoverLegacy

\* A process that dies leaves the repository, the ledger, the reservation.
LEMMA DieStep ==
  ASSUME IInv, NEW p \in Process, Die(p)
  PROVE  IInv'
<1>1. /\ Goto(p, "dead") /\ plan' = [plan EXCEPT ![p] = NoPlan] /\ Unmoved
      /\ legacy' = legacy /\ reservation' = reservation
  BY DEF Die, Unmoved
<1>2. /\ "dead" \in Steps /\ "dead" \notin Held \cup PlannedSteps \cup LegacySteps
  BY DEF Steps, LegacySteps, Held, SessionSteps, LaunchedSteps, ApplySteps, PlannedSteps
<1>3. /\ pc' \in [Process -> Steps] /\ plan' \in [Process -> Plan]
      /\ pc'[p] = "dead" /\ StepBy(p)
  BY <1>1, <1>2, Going, PlanTypes DEF IInv, Typed, StepBy
<1>4. reservation' \in Process \cup {NoProcess} /\ legacy \in Legacy
  BY <1>1 DEF IInv, Typed
<1>5. CASE legacy.status = "absent"
  <2>1. WorldOK'
    BY <1>1, <1>2, <1>3, <1>5, WorldStands
  <2>2. SessionOK(p)' /\ RecoveryOK(p)'
    BY <1>2, <1>3, AtRest
  <2> QED BY <1>1, <1>2, <1>3, <1>4, <2>1, <2>2, QuietKeeps
<1>6. CASE legacy.status # "absent"
  <2>1. legacy.status = "committed" => head.commit = 1
    BY <1>6, NoLedger DEF LegacyCommittedOnce
  <2>2. LegacyOK(p)'
    BY <1>3, LegacyRest
  <2> QED BY <1>1, <1>2, <1>3, <1>4, <1>6, <2>1, <2>2, LegacyQuiet
<1> QED BY <1>5, <1>6

\* An edit by another user is no news to the ledger, and one after the last
\* comparison is remembered.
LEMMA DriftStep ==
  ASSUME IInv, Drift
  PROVE  IInv'
<1>1. /\ head' = head /\ txns' = txns /\ open' = open /\ proj' = proj /\ legacy' = legacy
      /\ reservation' = reservation /\ pc' = pc /\ plan' = plan
  BY DEF Drift
<1>2. tree' \in Tree
  BY DEF Drift, IInv, Typed, Tree, Queue
<1>3. /\ raced \subseteq raced'
      /\ \A p \in Process : pc[p] \in PastComparison => open \in raced'
  BY DEF Drift
<1>4. Typed'
  BY <1>1, <1>2 DEF IInv, Typed
<1>5. LedgerOK'
  <2>1. ASSUME NEW t \in DOMAIN txns
        PROVE  EntryOK(t)'
    BY <1>1, <1>3 DEF IInv, LedgerOK, EntryOK
  <2> QED BY <1>1, <2>1 DEF LedgerOK
<1>6. PlansBound' /\ OneCommand'
  BY <1>1 DEF IInv, PlansBound, PlanBound, OneCommand
<1>7. ASSUME NEW p \in Process
      PROVE  SessionOK(p)' /\ RecoveryOK(p)'
  <2>1. SessionOK(p) /\ RecoveryOK(p)
    BY DEF IInv, CommandsOK
  <2>2. pc[p] \in {"validated", "finalizing", "committing"} => open \in raced'
    BY <1>3 DEF PastComparison
  <2>3. SessionOK(p)'
    BY <1>1, <1>3, <2>1, <2>2 DEF SessionOK
  <2>4. RecoveryOK(p)'
    BY <1>1, <1>3, <2>1, <2>2 DEF RecoveryOK, HeadIsPlanned
  <2> QED BY <2>3, <2>4
<1>8. CommandsOK'
  BY <1>7 DEF CommandsOK
<1>9. RepositoryOK'
  BY <1>1, <1>3 DEF IInv, RepositoryOK, ReadyIsBound
<1>10. WorldOK'
  <2>1. CASE legacy.status = "absent"
    BY <1>1, <2>1 DEF IInv, WorldOK
  <2>2. CASE legacy.status # "absent"
    <3>1. txns' = <<>> /\ LegacyCommittedOnce' /\ open = 0
      BY <1>1, <1>3, <2>2 DEF IInv, WorldOK, LegacyCommittedOnce, Typed
    <3>2. ASSUME NEW q \in Process
          PROVE  LegacyOK(q)'
      <4>1. LegacyOK(q)
        BY <2>2 DEF IInv, WorldOK
      <4>2. pc[q] = "legacy_compared" => 0 \in raced'
        BY <1>3, <3>1 DEF PastComparison
      <4> QED BY <1>1, <4>1, <4>2 DEF LegacyOK
    <3> QED BY <1>1, <2>2, <3>1, <3>2 DEF WorldOK
  <2> QED BY <2>1, <2>2
<1> QED BY <1>4, <1>5, <1>6, <1>8, <1>9, <1>10 DEF IInv

\* A new round begins only when no command has the reservation.
LEMMA NextRoundStep ==
  ASSUME IInv, NextRound
  PROVE  IInv'
<1>1. /\ txns' = txns /\ open' = open /\ legacy' = legacy
      /\ reservation' = reservation /\ pc' = pc /\ plan' = plan
      /\ head' = [head EXCEPT !.commit = @ + 1, !.queue = "idle"]
      /\ tree' = [tree EXCEPT !.queue = "idle"]
      /\ proj' = [state |-> "queue_reconciliation", start |-> 0]
      /\ reservation = NoProcess /\ legacy.status = "absent" /\ raced' = raced
  BY DEF NextRound
<1>2. /\ head' \in BranchHead /\ head'.commit = head.commit + 1 /\ head'.queue = "idle"
      /\ head.commit \in Nat
  <2>1. head \in BranchHead /\ head.commit \in Nat /\ "idle" \in Queue
    BY DEF IInv, Typed, BranchHead, Queue
  <2>2. head.commit + 1 \in Nat
    BY <2>1
  <2> QED BY <1>1, <2>1, <2>2 DEF BranchHead
<1>3. tree' \in Tree
  BY <1>1 DEF IInv, Typed, Tree, Queue
<1>4. Typed'
  BY <1>1, <1>2, <1>3 DEF IInv, Typed, Projection
<1>5. \A p \in Process : pc'[p] \notin Held
  BY <1>1, PlanningConstants DEF IInv, OneCommand
<1>6. CommandsOK' /\ OneCommand'
  BY <1>5, AtRest DEF CommandsOK, OneCommand
<1>7. PlansBound'
  BY <1>1 DEF IInv, PlansBound, PlanBound
<1>8. LedgerOK'
  <2>1. ASSUME NEW t \in DOMAIN txns
        PROVE  EntryOK(t)'
    <3>1. EntryOK(t) /\ txns[t] \in Record
      BY Positions DEF IInv, LedgerOK
    <3>2. txns[t].commit \in Nat
      BY <3>1 DEF Record
    <3> QED BY <1>1, <1>2, <3>1, <3>2 DEF EntryOK
  <2> QED BY <1>1, <2>1 DEF LedgerOK
<1>9. RepositoryOK'
  BY <1>1, <1>2 DEF RepositoryOK, ReadyIsBound
<1>10. WorldOK'
  BY <1>1 DEF IInv, WorldOK
<1> QED BY <1>4, <1>6, <1>7, <1>8, <1>9, <1>10 DEF IInv

\* The initial states: an empty ledger, the ledger of an earlier controller
\* with its failed transaction, and a planning file without a ledger.
LEMMA InitEstablishes ==
  ASSUME Init
  PROVE  IInv
<1>1. /\ 0 \in Edition /\ 1 \in Edition /\ {"idle", "ready", "unbound"} \subseteq Queue
      /\ {"idle", "ready"} \subseteq Said /\ "idle" \in Steps
      /\ "idle" \notin Held \cup PlannedSteps \cup LegacySteps
  BY PlanningConstants
     DEF Edition, Queue, Said, Steps, Held, PlannedSteps, LegacySteps, SessionSteps, LaunchedSteps,
         ApplySteps
<1>2. /\ head = [commit |-> 0, edition |-> 0, queue |-> "idle"]
      /\ open = 0 /\ reservation = NoProcess
      /\ pc = [p \in Process |-> "idle"] /\ plan = [p \in Process |-> NoPlan]
  BY DEF Init
<1>3. head \in BranchHead /\ pc \in [Process -> Steps] /\ plan \in [Process -> Plan]
  BY <1>1, <1>2, PlanTypes DEF BranchHead
<1>4. PlansBound /\ OneCommand
  BY <1>1, <1>2 DEF PlansBound, OneCommand
<1>5. CommandsOK
  BY <1>1, <1>2
     DEF CommandsOK, SessionOK, RecoveryOK, SessionSteps, LaunchedSteps, ApplySteps
<1>6. /\ tree \in Tree /\ txns \in Seq(Record) /\ proj \in Projection /\ legacy \in Legacy
      /\ LedgerOK /\ proj.state \in {"queue_reconciliation", "validation_failed"}
      /\ proj.start = 0 /\ legacy.status \in {"absent", "recorded"}
      /\ legacy.status = "absent" \/ txns = <<>>
  <2>1. CASE InitEmpty
    <3>1. tree \in Tree /\ legacy \in Legacy /\ proj \in Projection
      BY <1>1, <2>1 DEF InitEmpty, Unready, NoLegacy, Tree, Legacy, Projection
    <3> QED BY <2>1, <3>1 DEF InitEmpty, NoLegacy, LedgerOK
  <2>2. CASE InitPolicyFailed
    <3> DEFINE r == [mode |-> "session", origin |-> 0, base |-> 0, said |-> "ready",
                     left |-> Unbound, end |-> Unbound, error |-> "policy", accepted |-> FALSE,
                     launched |-> TRUE, commit |-> 0, file |-> "failed",
                     outcome |-> "validation_failed"]
    <3>1. tree \in Tree /\ Unbound \in Tree /\ legacy \in Legacy /\ proj \in Projection
      BY <1>1, <2>2 DEF InitPolicyFailed, Unbound, NoLegacy, Tree, Legacy, Projection
    <3>2. r \in Record
      BY <1>1, <3>1 DEF Record
    <3>3. txns = <<r>>
      BY <2>2 DEF InitPolicyFailed
    <3>4. /\ r.mode = "session" /\ r.origin = 0 /\ r.accepted = FALSE /\ r.file = "failed"
          /\ r.outcome = "validation_failed"
      OBVIOUS
    <3> HIDE DEF r
    <3>5. txns \in Seq(Record) /\ DOMAIN txns = {1} /\ txns[1] = r
      BY <3>2, <3>3
    <3>6. LedgerOK
      BY <1>2, <3>4, <3>5 DEF LedgerOK, EntryOK
    <3> QED BY <2>2, <3>1, <3>5, <3>6 DEF InitPolicyFailed, NoLegacy
  <2>3. CASE InitLegacy
    <3>1. tree \in Tree /\ legacy \in Legacy /\ proj \in Projection
      BY <1>1, <2>3 DEF InitLegacy, Tree, Legacy, Projection
    <3> QED BY <2>3, <3>1 DEF InitLegacy, LedgerOK
  <2> QED BY <2>1, <2>2, <2>3 DEF Init
<1>7. Typed
  BY <1>2, <1>3, <1>6 DEF Typed
<1>8. RepositoryOK
  BY <1>2, <1>6 DEF RepositoryOK, ReadyIsBound
<1>9. WorldOK
  BY <1>1, <1>2, <1>6 DEF WorldOK, LegacyCommittedOnce, LegacyOK
<1> QED BY <1>4, <1>5, <1>6, <1>7, <1>8, <1>9 DEF IInv

\* Every step keeps the invariant.
LEMMA StepPreserves ==
  ASSUME IInv, [Next]_vars
  PROVE  IInv'
<1>1. CASE Next
  BY <1>1, SessionKeeps, RecoverKeeps, RecoverLegacyKeeps, DieStep, DriftStep, NextRoundStep
     DEF Next
<1>2. CASE UNCHANGED vars
  <2>1. /\ UNCHANGED <<tree, head, txns, open, proj, legacy, reservation, pc, plan, raced>>
    BY <1>2 DEF vars
  <2> QED BY <2>1
        DEF IInv, Typed, LedgerOK, EntryOK, PlansBound, PlanBound, OneCommand, CommandsOK,
            SessionOK, RecoveryOK, HeadIsPlanned, RepositoryOK, ReadyIsBound, WorldOK,
            LegacyCommittedOnce, LegacyOK, Recorded
<1> QED BY <1>1, <1>2

\* The inductive invariant holds of every behaviour.
THEOREM Invariance == Spec => []IInv
BY InitEstablishes, StepPreserves, PTL DEF Spec

-----------------------------------------------------------------------------
(* The properties.                                                         *)

\* The ledger, the branch and the reservation are well formed, one
\* transaction at most is open and its record says so (kernel.begin under
\* the writer lease).
THEOREM TypeCorrectness == Spec => []TypeOK
<1>1. IInv => TypeOK
  <2>1. SUFFICES ASSUME IInv PROVE TypeOK
    OBVIOUS
  <2>2. tree \in Tree /\ head.commit \in Nat /\ head.edition \in Edition /\ head.queue \in Queue
    BY <2>1 DEF IInv, Typed, BranchHead
  <2>3. ASSUME NEW t \in DOMAIN txns
        PROVE  /\ {txns[t].left, txns[t].end} \subseteq Tree
               /\ txns[t].origin < t
               /\ (txns[t].outcome = "open") <=> (t = open)
               /\ txns[t].accepted => txns[t].launched
    <3>1. EntryOK(t) /\ txns[t] \in Record /\ t \in 1..Len(txns)
      BY <2>1, Positions DEF IInv, LedgerOK
    <3>2. txns[t].mode \in {"session", "recovery"} /\ txns[t].left \in Tree /\ txns[t].end \in Tree
      BY <3>1 DEF Record
    <3> QED BY <2>1, <3>1, <3>2, Positions DEF EntryOK, IInv
  <2> QED BY <2>1, <2>2, <2>3 DEF TypeOK, IInv, Typed, RepositoryOK
<1> QED BY <1>1, Invariance, PTL

\* A recovery commits the diff that the failed transaction's evidence binds,
\* whoever edits the checkout before its last comparison
\* (finalize_deterministic_planning_recovery), or adopts the commit that
\* transaction recorded.
THEOREM RecoveryIsFaithful == Spec => []RecoveredDiffIsRetained
<1>1. IInv => RecoveredDiffIsRetained
  <2>1. SUFFICES ASSUME IInv, NEW t \in DOMAIN txns \ raced,
                        txns[t].mode = "recovery", txns[t].outcome = "applied"
                 PROVE  IF txns[txns[t].origin].commit = 0
                        THEN txns[t].end = Completed(txns[txns[t].origin].left)
                        ELSE txns[t].commit = txns[txns[t].origin].commit
    BY DEF RecoveredDiffIsRetained
  <2> QED BY <2>1 DEF IInv, LedgerOK, EntryOK
<1> QED BY <1>1, Invariance, PTL

\* However many commands plan the recovery of a result, one of them at most
\* is applied: a recovery is the transaction right after the one it recovers.
THEOREM RecoveryIsOnce == Spec => []RecoveredOnce
<1>1. IInv => RecoveredOnce
  <2>1. SUFFICES ASSUME IInv, NEW o \in DOMAIN txns
                 PROVE  LET R == {t \in DOMAIN txns : /\ txns[t].origin = o
                                                      /\ txns[t].outcome = "applied"} IN
                        Cardinality(R) <= 1 /\ (R # {} => txns[o].outcome # "completed")
    BY DEF RecoveredOnce
  <2> DEFINE R == {t \in DOMAIN txns : txns[t].origin = o /\ txns[t].outcome = "applied"}
  <2>2. o \in 1..Len(txns)
    BY <2>1, Positions DEF IInv
  <2>3. ASSUME NEW t \in R
        PROVE  t = o + 1 /\ txns[o].outcome # "completed"
    <3>1. EntryOK(t) /\ txns[t] \in Record
      BY <2>1, Positions DEF IInv, LedgerOK
    <3>2. txns[t].mode = "recovery"
      BY <3>1 DEF EntryOK, Record
    <3> QED BY <3>1, <3>2 DEF EntryOK
  <2>4. IsFiniteSet(R) /\ Cardinality(R) <= 1
    <3>1. R \subseteq {o + 1}
      BY <2>3
    <3>2. IsFiniteSet({o + 1}) /\ Cardinality({o + 1}) = 1
      BY FS_Singleton
    <3>3. IsFiniteSet(R) /\ Cardinality(R) <= Cardinality({o + 1})
      BY <3>1, <3>2, FS_Subset
    <3> QED BY <3>2, <3>3
  <2> QED BY <2>3, <2>4
<1> QED BY <1>1, Invariance, PTL

\* The planning file of a session never says committed without its commit,
\* and a completed one has said what became of it.
THEOREM FileIsTruthful == Spec => []FileFollowsCommit
<1>1. IInv => FileFollowsCommit
  BY DEF IInv, LedgerOK, EntryOK, FileFollowsCommit
<1> QED BY <1>1, Invariance, PTL

\* A feature is projected ready only at the head, where the queue has it
\* ready with its execution policy unless that was edited after the last
\* comparison; the adopted commit of a planning file alone has no start.
THEOREM ReadinessIsBound == Spec => []ReadyIsBound
<1>1. IInv => ReadyIsBound
  BY DEF IInv, RepositoryOK
<1> QED BY <1>1, Invariance, PTL

\* The recorded result of a project without a ledger is committed once, byte
\* for byte unless it was edited after the last comparison.
THEOREM LegacyIsOnce == Spec => []LegacyCommittedOnce
<1>1. IInv => LegacyCommittedOnce
  BY DEF IInv, WorldOK, LegacyCommittedOnce
<1> QED BY <1>1, Invariance, PTL
=============================================================================
