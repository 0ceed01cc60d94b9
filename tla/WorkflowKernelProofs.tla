------------------------ MODULE WorkflowKernelProofs ------------------------
(***************************************************************************)
(* Proofs about WorkflowKernel, for any number of processes, transactions, *)
(* deaths and foreign steps.                                               *)
(*                                                                         *)
(* Sound is what the kernel keeps whoever drives it, a runner or the       *)
(* recovery planner, with or without the lease: the evidence of a          *)
(* transaction is written once and in order, and a process stands where    *)
(* that evidence lets it.  RecoveryPlannerProofs takes it up again.        *)
(* Order is what holds of the runner alone: one process ever works on a    *)
(* transaction, so its step bounds what the transaction has recorded.      *)
(***************************************************************************)
EXTENDS WorkflowKernel, TLAPS

\* what each transaction has recorded
Rec == [t \in Txn |-> {n \in EventTypes : Recorded(t, n)}]

\* steps at which a process has a transaction
Busy == (Steps \ {"idle"}) \cup {"taken", "reacquire", "rebound"}

\* steps before a session has returned
FirstSteps == {"leased", "taken", "started", "active", "snapped", "launched"}

\* base is the tip a transaction started from, and no branch is empty
Begun(t) == facts[t].base # 0

\* a process that is at work has a transaction
Hands ==
  \A p \in Process :
     /\ pc[p] \in Busy => cur[p] \in Txn
     /\ cur[p] \in Txn => Begun(cur[p])

\* a transaction that left a trace has begun
Origins ==
  /\ \A t \in Txn : Rec[t] # {} => Begun(t)
  /\ lease # NoLease => Begun(lease.txn)
  /\ commits # <<>>

\* a transaction has one first run
FirstRuns ==
  \A p, q \in Process :
     pc[p] \in FirstSteps /\ pc[q] \in FirstSteps /\ cur[p] = cur[q] => p = q

\* what is recorded is recorded in order, and agrees with the payloads
Evidence ==
  \A t \in Txn :
     /\ "ChangesDetected" \in Rec[t] =>
          "SessionResultAccepted" \in Rec[t] /\ facts[t].verdict = "success"
     /\ "ValidationStarted" \in Rec[t] =>
          "ChangesDetected" \in Rec[t] /\ facts[t].said = facts[t].boundary
     /\ "ValidationPassed" \in Rec[t] => "ValidationStarted" \in Rec[t]

\* a process stands where the evidence of its transaction lets it
Places ==
  \A p \in Process :
     /\ pc[p] \in FirstSteps => "SessionResultAccepted" \notin Rec[cur[p]]
     /\ pc[p] = "resulted" => "SessionResultAccepted" \in Rec[cur[p]]
     /\ pc[p] \in {"finalizing", "checked"} => "ValidationPassed" \in Rec[cur[p]]
     /\ pc[p] = "checked" => facts[cur[p]].said = {cur[p]}

Validated ==
  \A i \in DOMAIN commits :
     commits[i] # Outside => /\ "ValidationPassed" \in Rec[commits[i]]
                             /\ facts[commits[i]].said = {commits[i]}

Sound ==
  TypeOK /\ Hands /\ Origins /\ FirstRuns /\ Evidence /\ Places /\ Validated

(***************************************************************************)
(* The runner alone.  A transaction climbs: each event it appends is       *)
(* higher than all before it, and the step of its process says how high    *)
(* it may have come.                                                       *)
(***************************************************************************)
Level(type) ==
  CASE type = "TransactionStarted" -> 1
    [] type = "LeaseAcquired" -> 2
    [] type = "SnapshotCaptured" -> 3
    [] type = "SessionLaunched" -> 4
    [] type = "SessionResultAccepted" -> 5
    [] type = "ChangesDetected" -> 6
    [] type = "ValidationStarted" -> 7
    [] type \in {"ValidationPassed", "ValidationFailed"} -> 8
    [] type = "CommitFinalized" -> 9
    [] type \in TerminalEventTypes -> 10
    [] type = "LeaseReleased" -> 11
    [] type = "ProjectionUpdated" -> 12
    [] OTHER -> 0

Reach(step) ==
  CASE step = "leased" -> 0
    [] step = "started" -> 1
    [] step = "active" -> 2
    [] step = "snapped" -> 3
    [] step = "launched" -> 4
    [] step = "resulted" -> 5
    [] step = "bounded" -> 6
    [] step = "validating" -> 7
    [] step \in {"rejected", "failing", "finalizing", "checked", "committed"} -> 8
    [] step \in {"dirty", "finalized"} -> 9
    [] step \in {"terminal", "unlinked"} -> 10
    [] step = "released" -> 11
    [] OTHER -> 12

EndSteps == {"terminal", "unlinked", "released", "projected"}

Climbs(h) ==
  /\ h # <<>> => h[1] = "TransactionStarted"
  /\ \A i, j \in DOMAIN h : i < j => Level(h[i]) < Level(h[j])

\* what the contract wants to be there before
Closed(t) ==
  /\ "SessionResultAccepted" \in Rec[t] => "SessionLaunched" \in Rec[t]
  /\ "CommitFinalized" \in Rec[t] => "ValidationPassed" \in Rec[t]
  /\ "TransactionCompleted" \in Rec[t] => CompletionRequires \subseteq Rec[t]
  /\ "ProjectionUpdated" \in Rec[t] => Rec[t] \cap TerminalEventTypes # {}

\* no two processes ever work on one transaction, and none recovers one
Alone ==
  \A p \in Process :
     /\ pc[p] \in Steps \ {"superseding"}
     /\ pc[p] = "idle" => cur[p] = NoTxn
     /\ \A q \in Process : cur[p] \in Txn /\ cur[q] = cur[p] => p = q

Histories ==
  /\ \A t \in Txn : Climbs(hist[t]) /\ Closed(t)
  /\ \A p \in Process :
        pc[p] # "idle" =>
          /\ \A n \in Rec[cur[p]] : Level(n) <= Reach(pc[p])
          /\ pc[p] \in EndSteps => Rec[cur[p]] \cap TerminalEventTypes # {}

\* steps before git commit
Unlanded == FirstSteps \cup {"resulted", "bounded", "validating", "rejected", "finalizing", "checked"}

NoCommitOf(t) == \A i \in DOMAIN commits : commits[i] # t

\* t's commit is as it is recorded
Effect(t) ==
  LET c == facts[t].commit IN
  c \in DOMAIN commits /\ (commits[c] = t \/ (c = facts[t].base /\ NoCommitOf(t)))

Landed ==
  /\ \A i \in DOMAIN commits : commits[i] # Outside => facts[commits[i]].base < i
  /\ \A t \in Txn : "TransactionCompleted" \in Rec[t] => Effect(t)
  /\ \A p \in Process :
        /\ pc[p] \in Unlanded => NoCommitOf(cur[p])
        /\ pc[p] = "committed" =>
             \E i \in DOMAIN commits :
                commits[i] = cur[p] /\ \A j \in DOMAIN commits : commits[j] = cur[p] => j = i
        /\ pc[p] = "finalized" /\ facts[cur[p]].commit = facts[cur[p]].base =>
             NoCommitOf(cur[p])
        /\ cur[p] \in Txn => facts[cur[p]].base <= Tip

IInv == Sound /\ Alone /\ Histories /\ Landed

-----------------------------------------------------------------------------
(* Histories as sets of types.                                             *)

\* What is recorded is a set of event types per transaction.
LEMMA RecType ==
  ASSUME TypeOK
  PROVE  Rec \in [Txn -> SUBSET EventTypes]
BY DEF Rec

\* Membership in the record is Recorded.
LEMMA RecMeaning ==
  ASSUME TypeOK, NEW t \in Txn
  PROVE  /\ \A n \in EventTypes : n \in Rec[t] <=> Recorded(t, n)
         /\ Rec[t] = {} <=> hist[t] = <<>>
         /\ Ended(t) <=> Rec[t] \cap TerminalEventTypes # {}
<1>1. \A n \in EventTypes : n \in Rec[t] <=> Recorded(t, n)
  BY DEF Rec
<1>2. hist[t] \in Seq(EventTypes)
  BY DEF TypeOK
<1>3. ASSUME hist[t] # <<>>
      PROVE  Rec[t] # {}
  <2>1. 1 \in DOMAIN hist[t] /\ hist[t][1] \in EventTypes
    BY <1>2, <1>3
  <2>2. Recorded(t, hist[t][1])
    BY <2>1 DEF Recorded, Has
  <2> QED BY <1>1, <2>1, <2>2
<1>4. ASSUME hist[t] = <<>>
      PROVE  Rec[t] = {}
  BY <1>4 DEF Rec, Recorded, Has
<1>5. TerminalEventTypes \subseteq EventTypes
  BY DEF EventTypes
<1>6. Ended(t) <=> \E n \in TerminalEventTypes : Recorded(t, n)
  BY DEF Ended, Terminated, Recorded
<1> QED BY <1>1, <1>3, <1>4, <1>5, <1>6

\* An append adds its type to the record of its transaction.
LEMMA RecAfterEmit ==
  ASSUME TypeOK, NEW t \in Txn, NEW type \in EventTypes,
         hist' = [hist EXCEPT ![t] = Append(@, type)]
  PROVE  /\ Rec' = [Rec EXCEPT ![t] = @ \cup {type}]
         /\ hist' \in [Txn -> Seq(EventTypes)]
<1>1. hist \in [Txn -> Seq(EventTypes)]
  BY DEF TypeOK
<1>2. hist' \in [Txn -> Seq(EventTypes)]
  BY <1>1
<1>3. ASSUME NEW n \in EventTypes
      PROVE  Has(Append(hist[t], type), n) <=> Has(hist[t], n) \/ n = type
  <2> DEFINE h == hist[t]
  <2>1. h \in Seq(EventTypes)
    BY <1>1
  <2>2. /\ DOMAIN Append(h, type) = 1..(Len(h) + 1) /\ DOMAIN h = 1..Len(h)
        /\ Len(h) \in Nat
        /\ \A i \in 1..Len(h) : Append(h, type)[i] = h[i]
        /\ Append(h, type)[Len(h) + 1] = type
    BY <2>1
  <2>3. 1..(Len(h) + 1) = 1..Len(h) \cup {Len(h) + 1}
    BY <2>2
  <2> HIDE DEF h
  <2>4. Has(Append(h, type), n) <=> Has(h, n) \/ n = type
    BY <2>2, <2>3 DEF Has
  <2> QED BY <2>4 DEF h
<1>4. ASSUME NEW u \in Txn, NEW n \in EventTypes
      PROVE  Has(hist'[u], n) <=> Has(hist[u], n) \/ (u = t /\ n = type)
  <2>1. CASE u = t
    <3>1. hist'[u] = Append(hist[t], type)
      BY <1>1, <2>1
    <3> QED BY <1>3, <2>1, <3>1
  <2>2. CASE u # t
    <3>1. hist'[u] = hist[u]
      BY <1>1, <2>2
    <3> QED BY <2>2, <3>1
  <2> QED BY <2>1, <2>2
<1>5. Rec' = [u \in Txn |-> {n \in EventTypes : Has(hist'[u], n)}]
  BY DEF Rec, Recorded
<1>6. Rec = [u \in Txn |-> {n \in EventTypes : Has(hist[u], n)}]
  BY DEF Rec, Recorded
<1>7. ASSUME NEW u \in Txn
      PROVE  Rec'[u] = IF u = t THEN Rec[u] \cup {type} ELSE Rec[u]
  BY <1>4, <1>5, <1>6, <1>7, Zenon
<1> QED BY <1>2, <1>5, <1>6, <1>7

\* What an append needs, in terms of the record.
LEMMA AdmitsMeans ==
  ASSUME TypeOK, NEW t \in Txn, NEW type \in EventTypes, Admits(t, type)
  PROVE  /\ type = "TransactionStarted" <=> Rec[t] = {}
         /\ Rec[t] \cap TerminalEventTypes # {} => type \in PostTerminalTypes
         /\ type = "ValidationPassed" => "ValidationStarted" \in Rec[t]
         /\ type = "CommitFinalized" => "ValidationPassed" \in Rec[t]
         /\ type = "SessionResultAccepted" => "SessionLaunched" \in Rec[t]
         /\ type = "TransactionCompleted" => CompletionRequires \subseteq Rec[t]
<1>1. /\ \A n \in EventTypes : n \in Rec[t] <=> Has(hist[t], n)
      /\ Rec[t] = {} <=> hist[t] = <<>>
      /\ Terminated(hist[t]) <=> Rec[t] \cap TerminalEventTypes # {}
  BY RecMeaning DEF Recorded, Ended
<1>2. CompletionRequires \subseteq EventTypes
  BY DEF CompletionRequires, EventTypes
<1>3. {"ValidationStarted", "ValidationPassed", "SessionLaunched"} \subseteq EventTypes
  BY DEF EventTypes
<1>4. CASE type = "TransactionStarted"
  BY <1>1, <1>4 DEF Admits, ValidateAppend, PostTerminalTypes
<1>5. CASE type # "TransactionStarted"
  <2>1. /\ hist[t] # <<>>
        /\ Terminated(hist[t]) => type \in PostTerminalTypes
        /\ \A pre \in Predecessors : pre[2] = type => Has(hist[t], pre[1])
        /\ type = "TransactionCompleted" => \A n \in CompletionRequires : Has(hist[t], n)
    BY <1>5 DEF Admits, ValidateAppend
  <2>2. type = "ValidationPassed" => Has(hist[t], "ValidationStarted")
    BY <2>1 DEF Predecessors
  <2>3. type = "CommitFinalized" => Has(hist[t], "ValidationPassed")
    BY <2>1 DEF Predecessors
  <2>4. type = "SessionResultAccepted" => Has(hist[t], "SessionLaunched")
    BY <2>1 DEF Predecessors
  <2> QED BY <1>1, <1>2, <1>3, <1>5, <2>1, <2>2, <2>3, <2>4
<1> QED BY <1>4, <1>5

-----------------------------------------------------------------------------
(* The kinds of steps.                                                     *)

Unmoved(p) == \A q \in Process \ {p} : pc'[q] = pc[q] /\ cur'[q] = cur[q]

\* a kernel call that appends its event
Emitted(p, type, fact, to) ==
  /\ Admits(cur[p], type)
  /\ Emit(cur[p], type)
  /\ facts' = [facts EXCEPT ![cur[p]] = fact]
  /\ Goto(p, to)
  /\ UNCHANGED <<cur, lease, holder>>
  /\ UNCHANGED <<repository, leaseId, cached, bounds>>

\* an exception
Raised(p) ==
  /\ Raise(p)
  /\ UNCHANGED ledger
  /\ UNCHANGED <<repository, leaseId, cached, bounds>>

\* a fact that an event of this type may add to a payload
MayRecord(t, type, fact) ==
  /\ fact \in Facts
  /\ fact.base = facts[t].base
  /\ type # "SessionResultAccepted" =>
       fact.said = facts[t].said /\ fact.verdict = facts[t].verdict
  /\ type # "ChangesDetected" => fact.boundary = facts[t].boundary

\* An append keeps the kernel's invariants if its payload, its predecessors
\* and the next step are what the kernel's methods have.
LEMMA EmittedKeeps ==
  ASSUME Sound, NEW p \in Process, NEW t \in Txn, t = cur[p],
         NEW type \in EventTypes, NEW fact, NEW to \in Steps \ {"idle"},
         Emitted(p, type, fact, to), MayRecord(t, type, fact),
         type = "SessionResultAccepted" => pc[p] = "launched",
         type = "ChangesDetected" => /\ "SessionResultAccepted" \in Rec[t]
                                     /\ "ChangesDetected" \notin Rec[t]
                                     /\ facts[t].verdict = "success",
         type = "ValidationStarted" =>
           "ChangesDetected" \in Rec[t] /\ facts[t].said = facts[t].boundary,
         to \in FirstSteps => pc[p] \in FirstSteps /\ type # "SessionResultAccepted",
         to = "resulted" => type = "SessionResultAccepted",
         to = "finalizing" => type = "ValidationPassed",
         to # "checked"
  PROVE  Sound'
<1>1. /\ TypeOK /\ Hands /\ Origins /\ FirstRuns /\ Evidence /\ Places /\ Validated
  BY DEF Sound
<1>2. /\ Rec' = [Rec EXCEPT ![t] = @ \cup {type}]
      /\ hist' \in [Txn -> Seq(EventTypes)]
  BY <1>1, RecAfterEmit DEF Emitted, Emit
<1>3. Rec \in [Txn -> SUBSET EventTypes]
  BY <1>1, RecType
<1>4. /\ facts \in [Txn -> Facts] /\ facts' = [facts EXCEPT ![t] = fact] /\ fact \in Facts
      /\ pc \in [Process -> Steps \cup RecoverySteps] /\ pc' = [pc EXCEPT ![p] = to]
      /\ cur' = cur /\ lease' = lease /\ commits' = commits
  BY <1>1 DEF Emitted, Goto, TypeOK, MayRecord, repository
<1>5. /\ fact.base = facts[t].base
      /\ type # "SessionResultAccepted" =>
           fact.said = facts[t].said /\ fact.verdict = facts[t].verdict
      /\ type # "ChangesDetected" => fact.boundary = facts[t].boundary
  BY DEF MayRecord
<1>6. /\ type = "ValidationPassed" => "ValidationStarted" \in Rec[t]
      /\ type = "SessionResultAccepted" => "SessionLaunched" \in Rec[t]
  BY <1>1, AdmitsMeans DEF Emitted
<1>7. /\ Begun(t)
      /\ pc[p] \in FirstSteps => "SessionResultAccepted" \notin Rec[t]
  BY <1>1 DEF Hands, Places
<1>8. TypeOK'
  <2>1. facts' \in [Txn -> Facts] /\ pc' \in [Process -> Steps \cup RecoverySteps]
    BY <1>4
  <2>2. seq' \in Nat
    BY <1>1 DEF TypeOK, Emitted, Emit
  <2>3. UNCHANGED <<commits, worktree, lease, holder, leaseId, cur, cached, crashes, drift, edited, raced>>
    BY DEF Emitted, repository, bounds
  <2> QED BY <1>1, <1>2, <2>1, <2>2, <2>3 DEF TypeOK
<1>9. \A u \in Txn : facts'[u].base = facts[u].base
  BY <1>4, <1>5
<1>10. Hands'
  BY <1>1, <1>4, <1>9 DEF Hands, Begun, Busy
<1>11. lease # NoLease => lease.txn \in Txn
  BY <1>1 DEF TypeOK, LeaseRecord
<1>12. Origins'
  BY <1>1, <1>2, <1>3, <1>4, <1>7, <1>9, <1>11 DEF Origins, Begun
<1>13. FirstRuns'
  BY <1>1, <1>4 DEF FirstRuns
<1>14. Evidence'
  <2>1. ASSUME NEW u \in Txn, u # t
        PROVE  Rec'[u] = Rec[u] /\ facts'[u] = facts[u]
    BY <1>2, <1>3, <1>4, <2>1
  <2>2. Rec'[t] = Rec[t] \cup {type} /\ facts'[t] = fact
    BY <1>2, <1>3, <1>4
  <2>3. CASE type = "SessionResultAccepted"
    <3>1. {"ChangesDetected", "ValidationStarted", "ValidationPassed"} \cap Rec'[t] = {}
      BY <1>1, <1>7, <2>2, <2>3 DEF Evidence, FirstSteps
    <3> QED BY <1>1, <2>1, <3>1 DEF Evidence
  <2>4. CASE type = "ChangesDetected"
    <3>1. {"ValidationStarted", "ValidationPassed"} \cap Rec'[t] = {}
      BY <1>1, <2>2, <2>4 DEF Evidence
    <3> QED BY <1>1, <1>5, <2>1, <2>2, <2>4, <3>1 DEF Evidence
  <2>5. CASE type \notin {"SessionResultAccepted", "ChangesDetected"}
    BY <1>1, <1>5, <1>6, <2>1, <2>2, <2>5 DEF Evidence
  <2> QED BY <2>3, <2>4, <2>5
<1>15. Places'
  <2> SUFFICES ASSUME NEW q \in Process
               PROVE  /\ pc'[q] \in FirstSteps => "SessionResultAccepted" \notin Rec'[cur'[q]]
                      /\ pc'[q] = "resulted" => "SessionResultAccepted" \in Rec'[cur'[q]]
                      /\ pc'[q] \in {"finalizing", "checked"} =>
                           "ValidationPassed" \in Rec'[cur'[q]]
                      /\ pc'[q] = "checked" => facts'[cur'[q]].said = {cur'[q]}
    BY DEF Places
  <2>1. CASE q = p
    BY <1>1, <1>2, <1>3, <1>4, <2>1 DEF Places
  <2>2. CASE q # p
    <3>1. pc'[q] = pc[q] /\ cur'[q] = cur[q]
      BY <1>4, <2>2
    <3>2. pc[q] \in FirstSteps \cup {"resulted", "finalizing", "checked"} => cur[q] \in Txn
      BY <1>1 DEF Hands, Busy, FirstSteps, Steps
    <3>3. ASSUME type = "SessionResultAccepted", pc[q] \in FirstSteps
          PROVE  cur[q] # t
      BY <1>1, <2>2, <3>3 DEF FirstRuns, FirstSteps
    <3>4. ASSUME type = "SessionResultAccepted", pc[q] = "checked"
          PROVE  cur[q] # t
      BY <1>1, <1>7, <3>2, <3>4 DEF Evidence, Places, FirstSteps
    <3> QED BY <1>1, <1>2, <1>3, <1>4, <1>5, <3>1, <3>2, <3>3, <3>4 DEF Places
  <2> QED BY <2>1, <2>2
<1>16. Validated'
  <2> SUFFICES ASSUME NEW i \in DOMAIN commits, commits[i] # Outside
               PROVE  /\ "ValidationPassed" \in Rec'[commits[i]]
                      /\ facts'[commits[i]].said = {commits[i]}
    BY <1>4 DEF Validated
  <2>1. commits[i] \in Txn
    BY <1>1 DEF TypeOK, Owner
  <2>2. "ValidationPassed" \in Rec[commits[i]] /\ facts[commits[i]].said = {commits[i]}
    BY <1>1 DEF Validated
  <2>3. type = "SessionResultAccepted" => commits[i] # t
    BY <1>1, <1>7, <2>1, <2>2 DEF Evidence, FirstSteps
  <2> QED BY <1>2, <1>3, <1>4, <1>5, <2>1, <2>2, <2>3
<1> QED BY <1>8, <1>10, <1>12, <1>13, <1>14, <1>15, <1>16 DEF Sound

\* A step that appends nothing keeps the kernel's invariants if the process
\* goes where its transaction lets it.
LEMMA SilentKeeps ==
  ASSUME Sound, NEW p \in Process, TypeOK', UNCHANGED <<hist, facts>>, Unmoved(p),
         commits' # <<>>, Validated',
         lease' # NoLease => Begun(lease'.txn),
         NEW t, t = cur'[p],
         pc'[p] \in Busy => t \in Txn,
         t \in Txn => Begun(t),
         pc'[p] \in FirstSteps => pc[p] \in FirstSteps /\ cur[p] = t,
         pc'[p] = "resulted" => "SessionResultAccepted" \in Rec[t],
         pc'[p] \in {"finalizing", "checked"} => "ValidationPassed" \in Rec[t],
         pc'[p] = "checked" => facts[t].said = {t}
  PROVE  Sound'
<1>1. /\ TypeOK /\ Hands /\ Origins /\ FirstRuns /\ Evidence /\ Places /\ Validated
  BY DEF Sound
<1>2. Rec' = Rec /\ facts' = facts
  BY DEF Rec, Recorded, Has
<1>3. \A q \in Process : q # p => pc'[q] = pc[q] /\ cur'[q] = cur[q]
  BY DEF Unmoved
<1>5. Hands'
  BY <1>1, <1>2, <1>3 DEF Hands, Begun
<1>6. Origins'
  BY <1>1, <1>2 DEF Origins, Begun
<1>7. FirstRuns'
  BY <1>1, <1>3 DEF FirstRuns
<1>8. Evidence'
  BY <1>1, <1>2 DEF Evidence
<1>9. Places'
  BY <1>1, <1>2, <1>3 DEF Places
<1> QED BY <1>1, <1>5, <1>6, <1>7, <1>8, <1>9 DEF Sound

\* A new transaction starts at the tip, with nothing recorded.
LEMMA OpenKeeps ==
  ASSUME Sound, NEW p \in Process, NEW t \in Txn, Fresh(t), NEW fact \in Facts,
         fact.base = Tip,
         facts' = [facts EXCEPT ![t] = fact], UNCHANGED <<hist, commits>>,
         TypeOK', Unmoved(p), cur'[p] = t, pc'[p] \in {"leased", "taken"},
         lease'.txn = t
  PROVE  Sound'
<1>1. /\ TypeOK /\ Hands /\ Origins /\ FirstRuns /\ Evidence /\ Places /\ Validated
  BY DEF Sound
<1>2. Rec' = Rec
  BY DEF Rec, Recorded, Has
<1>3. ~Begun(t)
  BY DEF Fresh, NoFacts, Begun
<1>4. Rec \in [Txn -> SUBSET EventTypes] /\ Rec[t] = {}
  BY <1>1, <1>3, RecType DEF Origins
<1>5. \A q \in Process : cur[q] # t
  BY <1>1, <1>3 DEF Hands
<1>6. facts \in [Txn -> Facts]
  BY <1>1 DEF TypeOK
<1>7. facts'[t].base # 0 /\ (\A u \in Txn : u # t => facts'[u] = facts[u])
  <2>1. Tip \in Nat /\ Tip # 0
    BY <1>1 DEF TypeOK, Origins, Tip
  <2> QED BY <1>6, <2>1
<1>8. \A q \in Process : q # p => pc'[q] = pc[q] /\ cur'[q] = cur[q]
  BY DEF Unmoved
<1>9. Hands'
  BY <1>1, <1>5, <1>7, <1>8 DEF Hands, Begun
<1>10. Origins'
  BY <1>1, <1>2, <1>4, <1>7 DEF Origins, Begun
<1>11. FirstRuns'
  BY <1>1, <1>5, <1>8 DEF FirstRuns
<1>12. Evidence'
  BY <1>1, <1>2, <1>4, <1>7 DEF Evidence
<1>13. Places'
  <2> SUFFICES ASSUME NEW q \in Process
               PROVE  /\ pc'[q] \in FirstSteps => "SessionResultAccepted" \notin Rec[cur'[q]]
                      /\ pc'[q] = "resulted" => "SessionResultAccepted" \in Rec[cur'[q]]
                      /\ pc'[q] \in {"finalizing", "checked"} =>
                           "ValidationPassed" \in Rec[cur'[q]]
                      /\ pc'[q] = "checked" => facts'[cur'[q]].said = {cur'[q]}
    BY <1>2 DEF Places
  <2>1. CASE q = p
    BY <1>4, <2>1
  <2>2. CASE q # p
    <3>1. pc[q] = "checked" => cur[q] \in Txn /\ cur[q] # t
      BY <1>1, <1>5 DEF Hands, Busy, Steps
    <3> QED BY <1>1, <1>7, <1>8, <2>2, <3>1 DEF Places
  <2> QED BY <2>1, <2>2
<1>14. Validated'
  <2> SUFFICES ASSUME NEW i \in DOMAIN commits, commits[i] # Outside
               PROVE  /\ "ValidationPassed" \in Rec[commits[i]]
                      /\ facts'[commits[i]].said = {commits[i]}
    BY <1>2 DEF Validated
  <2>1. commits[i] \in Txn
    BY <1>1 DEF TypeOK, Owner
  <2> QED BY <1>1, <1>4, <1>7, <2>1 DEF Validated
<1> QED BY <1>9, <1>10, <1>11, <1>12, <1>13, <1>14 DEF Sound

\* Exit leaves its process without a transaction.
LEMMA ExitTyped ==
  ASSUME TypeOK, NEW p \in Process, Exit(p)
  PROVE  /\ pc' \in [Process -> Steps \cup RecoverySteps] /\ pc'[p] = "idle"
         /\ cur' \in [Process -> Txn \cup {NoTxn}] /\ cur'[p] = NoTxn
         /\ holder' \in Process \cup {NoProcess}
         /\ Unmoved(p)
BY DEF TypeOK, Exit, Steps, Unmoved

\* An exception keeps the kernel's invariants.
LEMMA RaisedKeeps ==
  ASSUME Sound, NEW p \in Process, cur[p] \in Txn, Raised(p)
  PROVE  Sound'
<1>1. TypeOK /\ Validated /\ Hands /\ Origins
  BY DEF Sound
<1>2. /\ UNCHANGED <<hist, seq, facts, commits, worktree, leaseId, cached, crashes, drift, edited, raced>>
      /\ lease' \in {lease, NoLease}
  BY DEF Raised, Raise, ledger, repository, bounds
<1>3. Validated' /\ commits' # <<>>
  <2>1. Rec' = Rec
    BY <1>2 DEF Rec, Recorded, Has
  <2> QED BY <1>1, <1>2, <2>1 DEF Validated, Origins
<1>4. lease' # NoLease => Begun(lease'.txn)
  BY <1>1, <1>2 DEF Origins
<1>5. CASE Goto(p, "failing") /\ UNCHANGED <<cur, lease, holder>>
  <2>1. TypeOK' /\ Unmoved(p) /\ pc'[p] = "failing" /\ cur'[p] = cur[p]
    BY <1>1, <1>2, <1>5 DEF TypeOK, Goto, Steps, Unmoved
  <2>2. Begun(cur[p])
    BY <1>1 DEF Hands
  <2> QED BY <1>2, <1>3, <1>4, <2>1, <2>2, SilentKeeps DEF FirstSteps
<1>6. CASE Exit(p)
  <2>1. /\ pc' \in [Process -> Steps \cup RecoverySteps] /\ pc'[p] = "idle"
        /\ cur' \in [Process -> Txn \cup {NoTxn}] /\ cur'[p] = NoTxn
        /\ holder' \in Process \cup {NoProcess}
        /\ Unmoved(p)
    BY <1>1, <1>6, ExitTyped
  <2>2. TypeOK'
    BY <1>1, <1>2, <2>1 DEF TypeOK
  <2>3. NoTxn \notin Txn /\ "idle" \notin Busy \cup FirstSteps
    BY KernelConstants DEF Busy, FirstSteps, Steps
  <2> QED BY <1>2, <1>3, <1>4, <2>1, <2>2, <2>3, SilentKeeps
<1> QED BY <1>5, <1>6 DEF Raised, Raise

-----------------------------------------------------------------------------
(* One kernel call: either its event is appended, or it raises.            *)

\* A call that adds nothing to the payloads but the final commit.
LEMMA PlainKeeps ==
  ASSUME Sound, NEW p \in Process, NEW t \in Txn, t = cur[p],
         NEW type \in EventTypes,
         type \notin {"SessionResultAccepted", "ChangesDetected", "ValidationStarted"},
         NEW fact \in Facts, NEW c, fact = [facts[t] EXCEPT !.commit = c],
         NEW to \in Steps \ {"idle", "resulted", "checked"},
         to \in FirstSteps => pc[p] \in FirstSteps,
         to = "finalizing" => type = "ValidationPassed",
         Emitted(p, type, fact, to) \/ Raised(p)
  PROVE  Sound'
<1>1. facts[t] \in Facts
  BY DEF Sound, TypeOK
<1>2. MayRecord(t, type, fact)
  BY <1>1 DEF MayRecord, Facts
<1>3. CASE Emitted(p, type, fact, to)
  BY <1>2, <1>3, EmittedKeeps
<1>4. CASE Raised(p)
  BY <1>4, RaisedKeeps
<1> QED BY <1>3, <1>4

\* the calls that append their event with the payload as it is
Plain(p, to) ==
  \/ AcquireLeaseRecorded(p) /\ to = "active"
  \/ CaptureSnapshot(p) /\ to = "snapped"
  \/ SessionLaunched(p) /\ to = "launched"
  \/ PassValidation(p) /\ to = "finalizing"
  \/ FailValidation(p) /\ to = "rejected"
  \/ CompleteTransaction(p) /\ to = "terminal"
  \/ (\E type \in TerminalEventTypes : Block(p, type)) /\ to = "terminal"
  \/ RecordRelease(p) /\ to = "released"
  \/ RecordProjection(p) /\ to = "projected"

\* The payload as it is, with its own commit.
LEMMA SameFact ==
  ASSUME TypeOK, NEW t \in Txn
  PROVE  facts[t] \in Facts /\ facts[t] = [facts[t] EXCEPT !.commit = facts[t].commit]
<1>1. facts[t] \in Facts
  BY DEF TypeOK
<1> QED BY <1>1 DEF Facts

\* Calls without a payload of their own.
LEMMA PlainCallKeeps ==
  ASSUME Sound, NEW p \in Process, NEW to, Plain(p, to)
  PROVE  Sound'
<1>1. TypeOK /\ Hands
  BY DEF Sound
<1>2. PICK t : t = cur[p]
  OBVIOUS
<1>3. /\ pc[p] \in Steps \ {"idle"}
      /\ to \in FirstSteps => pc[p] \in FirstSteps
      /\ to \in {"active", "snapped", "launched", "finalizing", "rejected", "terminal",
                 "released", "projected"}
  BY DEF Plain, AcquireLeaseRecorded, CaptureSnapshot, SessionLaunched, PassValidation,
         FailValidation, CompleteTransaction, Block, RecordRelease, RecordProjection, Step,
         Steps, FirstSteps
<1>4. t \in Txn
  BY <1>1, <1>2, <1>3 DEF Hands, Busy
<1>5. \E type \in EventTypes :
        /\ type \notin {"SessionResultAccepted", "ChangesDetected", "ValidationStarted"}
        /\ to = "finalizing" => type = "ValidationPassed"
        /\ Emitted(p, type, facts[t], to) \/ Raised(p)
  <2>1. CASE AcquireLeaseRecorded(p) /\ to = "active"
    <3>1. Emitted(p, "LeaseAcquired", facts[t], to) \/ Raised(p)
      BY <1>2, <2>1 DEF AcquireLeaseRecorded, Step, Emitted, Raised
    <3> QED BY <2>1, <3>1 DEF EventTypes
  <2>2. CASE CaptureSnapshot(p) /\ to = "snapped"
    <3>1. Emitted(p, "SnapshotCaptured", facts[t], to) \/ Raised(p)
      BY <1>2, <2>2 DEF CaptureSnapshot, Step, Emitted, Raised
    <3> QED BY <2>2, <3>1 DEF EventTypes
  <2>3. CASE SessionLaunched(p) /\ to = "launched"
    <3>1. Emitted(p, "SessionLaunched", facts[t], to) \/ Raised(p)
      BY <1>2, <2>3 DEF SessionLaunched, Step, Emitted, Raised
    <3> QED BY <2>3, <3>1 DEF EventTypes
  <2>4. CASE PassValidation(p) /\ to = "finalizing"
    <3>1. Emitted(p, "ValidationPassed", facts[t], to) \/ Raised(p)
      BY <1>2, <2>4 DEF PassValidation, Step, Emitted, Raised
    <3> QED BY <2>4, <3>1 DEF EventTypes
  <2>5. CASE FailValidation(p) /\ to = "rejected"
    <3>1. Emitted(p, "ValidationFailed", facts[t], to) \/ Raised(p)
      BY <1>2, <2>5 DEF FailValidation, Step, Emitted, Raised
    <3> QED BY <2>5, <3>1 DEF EventTypes
  <2>6. CASE CompleteTransaction(p) /\ to = "terminal"
    <3>1. Emitted(p, "TransactionCompleted", facts[t], to) \/ Raised(p)
      BY <1>2, <2>6 DEF CompleteTransaction, Step, Emitted, Raised
    <3> QED BY <2>6, <3>1 DEF EventTypes, TerminalEventTypes
  <2>7. CASE (\E type \in TerminalEventTypes : Block(p, type)) /\ to = "terminal"
    <3>1. PICK type \in TerminalEventTypes : Block(p, type)
      BY <2>7
    <3>2. Emitted(p, type, facts[t], to) \/ Raised(p)
      BY <1>2, <2>7, <3>1 DEF Block, Step, Emitted, Raised
    <3> QED BY <2>7, <3>2 DEF EventTypes, TerminalEventTypes
  <2>8. CASE RecordRelease(p) /\ to = "released"
    <3>1. Emitted(p, "LeaseReleased", facts[t], to) \/ Raised(p)
      BY <1>2, <2>8 DEF RecordRelease, Step, Emitted, Raised
    <3> QED BY <2>8, <3>1 DEF EventTypes
  <2>9. CASE RecordProjection(p) /\ to = "projected"
    <3>1. Emitted(p, "ProjectionUpdated", facts[t], to) \/ Raised(p)
      BY <1>2, <2>9 DEF RecordProjection, Step, Emitted, Raised
    <3> QED BY <2>9, <3>1 DEF EventTypes
  <2> QED BY <2>1, <2>2, <2>3, <2>4, <2>5, <2>6, <2>7, <2>8, <2>9 DEF Plain
<1>6. facts[t] \in Facts /\ facts[t] = [facts[t] EXCEPT !.commit = facts[t].commit]
  BY <1>1, <1>4, SameFact
<1>7. to \in Steps \ {"idle", "resulted", "checked"}
  BY <1>3 DEF Steps
<1> QED BY <1>2, <1>3, <1>4, <1>5, <1>6, <1>7, PlainKeeps

\* The first start of a transaction.
LEMMA StartKeeps ==
  ASSUME Sound, NEW p \in Process, NEW t \in Txn, t = cur[p], pc[p] \in FirstSteps,
         Emitted(p, "TransactionStarted", facts[t], "started") \/ Raised(p)
  PROVE  Sound'
<1>1. facts[t] \in Facts /\ facts[t] = [facts[t] EXCEPT !.commit = facts[t].commit]
  BY SameFact DEF Sound
<1>2. PICK type \in EventTypes : type = "TransactionStarted"
  BY DEF EventTypes
<1>3. PICK to \in Steps \ {"idle", "resulted", "checked"} : to = "started"
  BY DEF Steps
<1> QED BY <1>1, <1>2, <1>3, PlainKeeps

\* The result of a session is recorded in its first run only.
LEMMA AcceptResultKeeps ==
  ASSUME Sound, NEW p \in Process, NEW said \in SUBSET {cur[p]},
         NEW verdict \in {"success", "stop"}, AcceptResult(p, said, verdict)
  PROVE  Sound'
<1>1. TypeOK /\ Hands
  BY DEF Sound
<1>2. PICK t : t = cur[p]
  OBVIOUS
<1>3. pc[p] = "launched"
  BY DEF AcceptResult, Step
<1>4. t \in Txn
  BY <1>1, <1>2, <1>3 DEF Hands, Busy, Steps
<1>5. PICK fact : fact = [facts[t] EXCEPT !.said = said, !.verdict = verdict,
                            !.seen = IF said = ChangedPaths(t) THEN said ELSE NoDiff]
  OBVIOUS
<1>6. facts[t] \in Facts /\ said \in SUBSET Owner
  BY <1>1, <1>2, <1>4 DEF TypeOK, Owner
<1>7. (IF said = ChangedPaths(t) THEN said ELSE NoDiff) \in {NoDiff} \cup SUBSET Owner
  BY <1>6
<1>8. PICK type \in EventTypes : type = "SessionResultAccepted"
  BY DEF EventTypes
<1>9. PICK to \in Steps \ {"idle"} : to = "resulted"
  BY DEF Steps
<1>10. MayRecord(t, type, fact)
  BY <1>5, <1>6, <1>7, <1>8 DEF MayRecord, Facts
<1>11. Emitted(p, type, fact, to) \/ Raised(p)
  BY <1>2, <1>5, <1>8, <1>9 DEF AcceptResult, Step, Emitted, Raised
<1>12. CASE Emitted(p, type, fact, to)
  BY <1>2, <1>3, <1>4, <1>8, <1>9, <1>10, <1>12, EmittedKeeps DEF FirstSteps
<1>13. CASE Raised(p)
  BY <1>2, <1>4, <1>13, RaisedKeeps
<1> QED BY <1>11, <1>12, <1>13

\* A diff is a set of owners.
LEMMA ChangedPathsType ==
  ASSUME TypeOK, NEW t \in Txn
  PROVE  ChangedPaths(t) \subseteq worktree /\ ChangedPaths(t) \in SUBSET Owner
BY DEF ChangedPaths, TypeOK

\* The boundary of the changes is recorded once, after a successful result.
LEMMA BoundaryKeeps ==
  ASSUME Sound, NEW p \in Process, RecordFileMutationBoundary(p)
  PROVE  Sound'
<1>1. TypeOK /\ Hands /\ Places
  BY DEF Sound
<1>2. PICK t : t = cur[p]
  OBVIOUS
<1>3. pc[p] = "resulted"
  BY DEF RecordFileMutationBoundary
<1>4. t \in Txn
  BY <1>1, <1>2, <1>3 DEF Hands, Busy, Steps
<1>5. PICK fact : fact = [facts[t] EXCEPT !.boundary = ChangedPaths(t)]
  OBVIOUS
<1>6. facts[t] \in Facts /\ ChangedPaths(t) \in SUBSET Owner
  BY <1>1, <1>4, ChangedPathsType DEF TypeOK
<1>7. PICK type \in EventTypes : type = "ChangesDetected"
  BY DEF EventTypes
<1>8. PICK to \in Steps \ {"idle"} : to = "bounded"
  BY DEF Steps
<1>9. MayRecord(t, type, fact)
  BY <1>5, <1>6, <1>7 DEF MayRecord, Facts
<1>10. \/ Emitted(p, type, fact, to) /\ ~Recorded(t, "ChangesDetected")
       \/ Raised(p)
  BY <1>2, <1>5, <1>7, <1>8 DEF RecordFileMutationBoundary, Step, Emitted, Raised
<1>11. CASE Emitted(p, type, fact, to) /\ ~Recorded(t, "ChangesDetected")
  <2>1. type \notin Rec[t]
    BY <1>1, <1>4, <1>7, <1>11, RecMeaning
  <2>2. "SessionResultAccepted" \in Rec[t] /\ facts[t].verdict = "success"
    BY <1>1, <1>2, <1>3 DEF Places, RecordFileMutationBoundary
  <2> QED BY <1>2, <1>4, <1>7, <1>8, <1>9, <1>11, <2>1, <2>2, EmittedKeeps DEF FirstSteps
<1>12. CASE Raised(p)
  BY <1>2, <1>4, <1>12, RaisedKeeps
<1> QED BY <1>10, <1>11, <1>12

\* The boundary is recorded, and the changes are still those.
LEMMA BoundaryIsRecorded ==
  ASSUME Sound, NEW t \in Txn, AtBoundary(t)
  PROVE  "ChangesDetected" \in Rec[t] /\ ChangedPaths(t) = facts[t].boundary
<1>1. "ChangesDetected" \in EventTypes
  BY DEF EventTypes
<1> QED BY <1>1, RecMeaning DEF Sound, AtBoundary

\* Validation starts on the claimed changes, which are the recorded ones.
LEMMA StartValidationKeeps ==
  ASSUME Sound, NEW p \in Process, StartValidation(p)
  PROVE  Sound'
<1>1. TypeOK /\ Hands
  BY DEF Sound
<1>2. PICK t : t = cur[p]
  OBVIOUS
<1>3. pc[p] = "bounded"
  BY DEF StartValidation, Step
<1>4. t \in Txn
  BY <1>1, <1>2, <1>3 DEF Hands, Busy, Steps
<1>5. PICK type \in EventTypes : type = "ValidationStarted"
  BY DEF EventTypes
<1>6. PICK to \in Steps \ {"idle"} : to = "validating"
  BY DEF Steps
<1>7. MayRecord(t, type, facts[t])
  BY <1>1, <1>4 DEF MayRecord, TypeOK
<1>8. \/ Emitted(p, type, facts[t], to) /\ AtBoundary(t) /\ facts[t].said = ChangedPaths(t)
      \/ Raised(p)
  BY <1>2, <1>5, <1>6 DEF StartValidation, Step, Emitted, Raised
<1>9. CASE Emitted(p, type, facts[t], to) /\ AtBoundary(t) /\ facts[t].said = ChangedPaths(t)
  <2>1. "ChangesDetected" \in Rec[t] /\ facts[t].said = facts[t].boundary
    BY <1>4, <1>9, BoundaryIsRecorded
  <2> QED BY <1>2, <1>4, <1>5, <1>6, <1>7, <1>9, <2>1, EmittedKeeps DEF FirstSteps
<1>10. CASE Raised(p)
  BY <1>2, <1>4, <1>10, RaisedKeeps
<1> QED BY <1>8, <1>9, <1>10

\* The final commit, without changes or as HEAD names it, is recorded.
LEMMA RecordCommitKeeps ==
  ASSUME Sound, NEW p \in Process,
         FinalizeUnchanged(p) \/ \E c \in DOMAIN commits : RecordCommit(p, c)
  PROVE  Sound'
<1>1. TypeOK /\ Hands
  BY DEF Sound
<1>2. PICK t : t = cur[p]
  OBVIOUS
<1>3. pc[p] \in {"finalizing", "committed"}
  BY DEF FinalizeUnchanged, RecordCommit
<1>4. t \in Txn
  BY <1>1, <1>2, <1>3 DEF Hands, Busy, Steps
<1>5. facts[t] \in Facts
  BY <1>1, <1>4 DEF TypeOK
<1>6. PICK type \in EventTypes : type = "CommitFinalized"
  BY DEF EventTypes
<1>7. \E c \in Nat, to \in {"finalized", "dirty"} :
        Emitted(p, type, [facts[t] EXCEPT !.commit = c], to) \/ Raised(p)
  <2>1. CASE FinalizeUnchanged(p)
    <3>1. facts[t].base \in Nat
      BY <1>5 DEF Facts
    <3>2. Emitted(p, type, [facts[t] EXCEPT !.commit = facts[t].base], "finalized") \/ Raised(p)
      BY <1>2, <1>6, <2>1 DEF FinalizeUnchanged, Step, Emitted, Raised
    <3> QED BY <3>1, <3>2
  <2>2. CASE \E c \in DOMAIN commits : RecordCommit(p, c)
    <3>1. PICK c \in DOMAIN commits : RecordCommit(p, c)
      BY <2>2
    <3>2. c \in Nat
      BY <1>1 DEF TypeOK
    <3>3. PICK to \in {"finalized", "dirty"} :
             to = IF worktree = {} THEN "finalized" ELSE "dirty"
      OBVIOUS
    <3>4. Emitted(p, type, [facts[t] EXCEPT !.commit = c], to) \/ Raised(p)
      BY <1>2, <1>6, <3>1, <3>3 DEF RecordCommit, Step, Emitted, Raised
    <3> QED BY <3>2, <3>4
  <2> QED BY <2>1, <2>2
<1>8. PICK c \in Nat, to \in {"finalized", "dirty"} :
        Emitted(p, type, [facts[t] EXCEPT !.commit = c], to) \/ Raised(p)
  BY <1>7
<1>9. PICK fact : fact = [facts[t] EXCEPT !.commit = c]
  OBVIOUS
<1>10. fact \in Facts
  BY <1>5, <1>9 DEF Facts
<1>11. to \in Steps \ {"idle", "resulted", "checked"} /\ to \notin FirstSteps \cup {"finalizing"}
  BY DEF Steps, FirstSteps
<1> QED BY <1>2, <1>4, <1>6, <1>8, <1>9, <1>10, <1>11, PlainKeeps

-----------------------------------------------------------------------------
(* Steps that append nothing.                                              *)

\* Without an append the records stay.
LEMMA RecStays ==
  ASSUME hist' = hist
  PROVE  Rec' = Rec
BY DEF Rec, Recorded, Has

\* A session edits, or the kernel looks at the diff it is about to commit.
LEMMA EditOrCheckKeeps ==
  ASSUME Sound, NEW p \in Process, SessionEdits(p) \/ CheckDiff(p)
  PROVE  Sound'
<1>1. TypeOK /\ Hands /\ Origins /\ Evidence /\ Places /\ Validated
  BY DEF Sound
<1>2. PICK t : t = cur[p]
  OBVIOUS
<1>3. pc[p] \in {"launched", "finalizing"}
  BY DEF SessionEdits, CheckDiff
<1>4. t \in Txn /\ Begun(t)
  BY <1>1, <1>2, <1>3 DEF Hands, Busy, Steps
<1>5. /\ UNCHANGED <<hist, seq, facts, commits, lease, holder, leaseId, cur, cached, crashes, drift, edited, raced>>
      /\ pc' = pc \/ pc' = [pc EXCEPT ![p] = "checked"]
  BY DEF SessionEdits, CheckDiff, Goto, ledger, leaseFile, bounds, repository
<1>6. worktree' \in SUBSET Owner
  BY <1>1, <1>2, <1>4 DEF SessionEdits, CheckDiff, repository, TypeOK, Owner
<1>7. TypeOK'
  BY <1>1, <1>5, <1>6 DEF TypeOK, Steps
<1>8. Unmoved(p) /\ cur'[p] = t
  BY <1>1, <1>2, <1>5 DEF Unmoved, TypeOK
<1>9. Validated' /\ commits' # <<>> /\ (lease' # NoLease => Begun(lease'.txn))
  BY <1>1, <1>5, RecStays DEF Validated, Origins
<1>10. CASE SessionEdits(p)
  <2>1. pc'[p] = "launched" /\ pc[p] = "launched"
    BY <1>10 DEF SessionEdits
  <2> QED BY <1>2, <1>4, <1>5, <1>7, <1>8, <1>9, <2>1, SilentKeeps DEF FirstSteps
<1>11. CASE CheckDiff(p)
  <2>1. pc[p] = "finalizing" /\ pc'[p] = "checked"
    BY <1>1, <1>11 DEF CheckDiff, Goto, TypeOK
  <2>2. /\ AtBoundary(t) /\ PathsAllowed(t) /\ ChangedPaths(t) # {}
    BY <1>2, <1>11 DEF CheckDiff, Finalizable
  <2>3. ChangedPaths(t) = {t} /\ ChangedPaths(t) = facts[t].boundary
    BY <1>4, <2>2, BoundaryIsRecorded DEF PathsAllowed
  <2>4. "ValidationPassed" \in Rec[t] /\ facts[t].said = facts[t].boundary
    BY <1>1, <1>2, <1>4, <2>1 DEF Places, Evidence
  <2> QED BY <1>2, <1>4, <1>5, <1>7, <1>8, <1>9, <2>1, <2>3, <2>4, SilentKeeps DEF FirstSteps
<1> QED BY <1>10, <1>11

\* What a commit appends.
LEMMA Appended ==
  ASSUME NEW S, NEW s \in Seq(S), NEW x \in S
  PROVE  /\ Append(s, x) \in Seq(S) /\ Append(s, x) # <<>>
         /\ DOMAIN Append(s, x) = DOMAIN s \cup {Len(s) + 1}
         /\ \A i \in DOMAIN s : Append(s, x)[i] = s[i]
         /\ Append(s, x)[Len(s) + 1] = x
         /\ Len(s) \in Nat /\ DOMAIN s = 1..Len(s)
OBVIOUS

\* A commit is made of what was validated.
LEMMA GitCommitKeeps ==
  ASSUME Sound, NEW p \in Process, GitCommit(p)
  PROVE  Sound'
<1>1. TypeOK /\ Hands /\ Origins /\ Places /\ Validated
  BY DEF Sound
<1>2. PICK t : t = cur[p]
  OBVIOUS
<1>3. pc[p] = "checked"
  BY DEF GitCommit
<1>4. t \in Txn /\ Begun(t)
  BY <1>1, <1>2, <1>3 DEF Hands, Busy, Steps
<1>5. CASE t \notin worktree
  <2>1. Raised(p)
    BY <1>2, <1>5 DEF GitCommit, Raised, ledger, repository
  <2> QED BY <1>2, <1>4, <2>1, RaisedKeeps
<1>6. CASE t \in worktree
  <2>1. /\ commits' = Append(commits, t) /\ worktree' = worktree \ {t}
        /\ pc' = [pc EXCEPT ![p] = "committed"]
        /\ UNCHANGED <<hist, seq, facts, lease, holder, leaseId, cur, cached, crashes, drift, edited, raced>>
    BY <1>2, <1>6 DEF GitCommit, Goto, ledger, bounds
  <2>2. commits \in Seq(Owner) /\ t \in Owner
    BY <1>1, <1>4 DEF TypeOK, Owner
  <2>3. TypeOK'
    BY <1>1, <2>1, <2>2, Appended DEF TypeOK, Steps
  <2>4. Unmoved(p) /\ cur'[p] = t /\ pc'[p] = "committed"
    BY <1>1, <1>2, <2>1 DEF Unmoved, TypeOK
  <2>5. Rec' = Rec
    BY <2>1, RecStays
  <2>6. "ValidationPassed" \in Rec[t] /\ facts[t].said = {t}
    BY <1>1, <1>2, <1>3 DEF Places
  <2>7. Validated' /\ commits' # <<>>
    BY <1>1, <2>1, <2>2, <2>5, <2>6, Appended DEF Validated
  <2>8. lease' # NoLease => Begun(lease'.txn)
    BY <1>1, <2>1 DEF Origins
  <2> QED BY <1>2, <1>4, <2>1, <2>3, <2>4, <2>7, <2>8, SilentKeeps DEF FirstSteps
<1> QED BY <1>5, <1>6

\* Handled failures, and the tail of a transaction.
LEMMA TailKeeps ==
  ASSUME Sound, NEW p \in Process,
         NEW to \in {"idle", "reacquire"},
         Rejected(p) \/ NotClean(p) \/ ReleaseLease(p) \/ Rebuild(p, to)
  PROVE  Sound'
<1>1. TypeOK /\ Hands /\ Origins /\ Places /\ Validated
  BY DEF Sound
<1>2. PICK t : t = cur[p]
  OBVIOUS
<1>3. pc[p] \in {"rejected", "dirty", "terminal", "projected"}
  BY DEF Rejected, NotClean, ReleaseLease, Rebuild
<1>4. t \in Txn /\ Begun(t)
  BY <1>1, <1>2, <1>3 DEF Hands, Busy, Steps
<1>5. CASE Raised(p)
  BY <1>2, <1>4, <1>5, RaisedKeeps
<1>6. CASE ~Raised(p)
  <2>1. /\ \/ pc' = [pc EXCEPT ![p] = "unlinked"] /\ cur' = cur
           \/ pc' = [pc EXCEPT ![p] = "released"] /\ cur' = cur
           \/ pc' = [pc EXCEPT ![p] = "reacquire"] /\ cur' = cur
           \/ pc' = [pc EXCEPT ![p] = "idle"] /\ cur' = [cur EXCEPT ![p] = NoTxn]
        /\ UNCHANGED <<hist, seq, facts, commits, worktree, leaseId, crashes, drift, edited, raced>>
        /\ (lease' = lease /\ holder' = holder) \/ (lease' = NoLease /\ holder' = NoProcess)
        /\ cached' \in {cached, seq}
    <3>1. ~Rejected(p) /\ ~NotClean(p)
      BY <1>6 DEF Rejected, NotClean, Raised, ledger
    <3>2. CASE ReleaseLease(p)
      <4>1. ~Raise(p)
        BY <1>6, <3>2 DEF ReleaseLease, Raised, ledger
      <4>2. Owns(p) \/ lease = NoLease
        BY <3>2, <4>1 DEF ReleaseLease
      <4>3. CASE Owns(p)
        BY <3>2, <4>3 DEF ReleaseLease, Goto, ledger, repository, bounds
      <4>4. CASE ~Owns(p) /\ lease = NoLease
        BY <3>2, <4>4 DEF ReleaseLease, Goto, ledger, repository, bounds
      <4> QED BY <4>2, <4>3, <4>4
    <3>3. CASE Rebuild(p, to)
      <4>1. CASE Projectable
        BY <3>3, <4>1 DEF Rebuild, Goto, ledger, repository, bounds
      <4>2. CASE ~Projectable
        BY <1>6, <3>3, <4>2 DEF Rebuild, Raised, ledger
      <4> QED BY <4>1, <4>2
    <3> QED BY <3>1, <3>2, <3>3
  <2>2. TypeOK'
    BY <1>1, <2>1 DEF TypeOK, Steps, RecoverySteps
  <2>3. Unmoved(p)
    BY <1>1, <2>1 DEF Unmoved, TypeOK
  <2>4. \/ pc'[p] \in {"unlinked", "released", "reacquire"} /\ cur'[p] = t
        \/ pc'[p] = "idle" /\ cur'[p] = NoTxn
    BY <1>1, <1>2, <2>1 DEF TypeOK
  <2>5. Validated' /\ commits' # <<>> /\ (lease' # NoLease => Begun(lease'.txn))
    BY <1>1, <2>1, RecStays DEF Validated, Origins
  <2>6. NoTxn \notin Txn /\ "idle" \notin Busy \cup FirstSteps
    BY KernelConstants DEF Busy, FirstSteps, Steps
  <2> QED BY <1>2, <1>4, <2>1, <2>2, <2>3, <2>4, <2>5, <2>6, SilentKeeps DEF FirstSteps
<1> QED BY <1>5, <1>6

\* Exactly the steps of a kernel instance.
LEMMA KernelStepKeeps ==
  ASSUME Sound, NEW p \in Process, KernelStep(p)
  PROVE  Sound'
<1>1. CASE \E to \in Steps : Plain(p, to)
  BY <1>1, PlainCallKeeps
<1>2. CASE \E said \in SUBSET {cur[p]}, verdict \in {"success", "stop"} :
             AcceptResult(p, said, verdict)
  BY <1>2, AcceptResultKeeps
<1>3. CASE RecordFileMutationBoundary(p)
  BY <1>3, BoundaryKeeps
<1>4. CASE StartValidation(p)
  BY <1>4, StartValidationKeeps
<1>5. CASE FinalizeUnchanged(p) \/ \E c \in DOMAIN commits : RecordCommit(p, c)
  BY <1>5, RecordCommitKeeps
<1>6. CASE SessionEdits(p) \/ CheckDiff(p)
  BY <1>6, EditOrCheckKeeps
<1>7. CASE GitCommit(p)
  BY <1>7, GitCommitKeeps
<1>8. CASE Rejected(p) \/ NotClean(p) \/ ReleaseLease(p)
  BY <1>8, TailKeeps
<1>9. CASE AcquireLeaseRecorded(p) \/ CaptureSnapshot(p) \/ SessionLaunched(p)
  BY <1>1, <1>9 DEF Plain, Steps
<1>10. CASE PassValidation(p) \/ FailValidation(p)
  BY <1>1, <1>10 DEF Plain, Steps
<1>11. CASE \E type \in TerminalEventTypes : Block(p, type)
  BY <1>1, <1>11 DEF Plain, Steps
<1>12. CASE RecordRelease(p) \/ RecordProjection(p)
  BY <1>1, <1>12 DEF Plain, Steps
<1> QED BY <1>2, <1>3, <1>4, <1>5, <1>6, <1>7, <1>8, <1>9, <1>10, <1>11, <1>12
        DEF KernelStep

\* The runner begins a fresh transaction.
LEMMA BeginKeeps ==
  ASSUME Sound, NEW p \in Process, NEW t \in Work, Begin(p, t)
  PROVE  Sound'
<1>1. TypeOK
  BY DEF Sound
<1>2. t \in Txn
  BY DEF Txn
<1>3. PICK fact : fact = [facts[t] EXCEPT !.base = Tip]
  OBVIOUS
<1>4. Tip \in Nat /\ fact \in Facts /\ fact.base = Tip
  <2>1. Tip \in Nat
    BY <1>1 DEF TypeOK, Tip
  <2>2. facts[t] \in Facts
    BY <1>1, <1>2 DEF TypeOK
  <2> QED BY <1>3, <2>1, <2>2 DEF Facts
<1>5. /\ Fresh(t) /\ facts' = [facts EXCEPT ![t] = fact]
      /\ lease' = [txn |-> t, id |-> leaseId + 1] /\ leaseId' = leaseId + 1 /\ holder' = p
      /\ pc' = [pc EXCEPT ![p] = "leased"] /\ cur' = [cur EXCEPT ![p] = t]
      /\ UNCHANGED <<hist, seq, commits, worktree, cached, crashes, drift, edited, raced>>
  BY <1>3 DEF Begin, AcquireLease, Goto, repository, bounds
<1>6. TypeOK' /\ Unmoved(p) /\ cur'[p] = t /\ pc'[p] = "leased"
  BY <1>1, <1>2, <1>4, <1>5 DEF TypeOK, LeaseRecord, Steps, Unmoved
<1> QED BY <1>2, <1>4, <1>5, <1>6, OpenKeeps

\* Starting and completing, by whoever drives the kernel instance.
LEMMA StartOrCompleteKeeps ==
  ASSUME Sound, NEW p \in Process, Start(p) \/ CompleteTransaction(p)
  PROVE  Sound'
<1>1. CASE CompleteTransaction(p)
  BY <1>1, PlainCallKeeps DEF Plain
<1>2. CASE Start(p)
  <2>1. PICK t : t = cur[p]
    OBVIOUS
  <2>2. pc[p] = "leased"
    BY <1>2 DEF Start, Step
  <2>3. t \in Txn
    BY <2>1, <2>2 DEF Sound, Hands, Busy, Steps
  <2>4. Emitted(p, "TransactionStarted", facts[t], "started") \/ Raised(p)
    BY <1>2, <2>1 DEF Start, Step, Emitted, Raised
  <2> QED BY <2>1, <2>2, <2>3, <2>4, StartKeeps DEF FirstSteps
<1> QED BY <1>1, <1>2

\* A death leaves everything as it was, but for the process.
LEMMA DieKeeps ==
  ASSUME Sound, NEW p \in Process, Die(p)
  PROVE  Sound'
<1>1. TypeOK /\ Origins /\ Validated
  BY DEF Sound
<1>2. /\ pc' \in [Process -> Steps \cup RecoverySteps] /\ pc'[p] = "idle"
      /\ cur' \in [Process -> Txn \cup {NoTxn}] /\ cur'[p] = NoTxn
      /\ holder' \in Process \cup {NoProcess}
      /\ Unmoved(p)
  BY <1>1, ExitTyped DEF Die
<1>3. /\ UNCHANGED <<hist, seq, facts, commits, worktree, lease, leaseId, cached, drift>>
      /\ crashes < MaxCrashes /\ crashes' = crashes + 1
  BY DEF Die, ledger, repository
<1>10. UNCHANGED <<edited, raced>>
  BY DEF Die
<1>4. crashes' \in 0..MaxCrashes
  BY <1>1, <1>3, KernelConstants DEF TypeOK
<1>5. TypeOK'
  BY <1>1, <1>2, <1>3, <1>4, <1>10 DEF TypeOK
<1>6. Validated' /\ commits' # <<>> /\ (lease' # NoLease => Begun(lease'.txn))
  BY <1>1, <1>3, RecStays DEF Validated, Origins
<1>7. NoTxn \notin Txn /\ "idle" \notin Busy \cup FirstSteps
  BY KernelConstants DEF Busy, FirstSteps, Steps
<1> QED BY <1>2, <1>3, <1>5, <1>6, <1>7, SilentKeeps

\* The outsider adds commits of its own only.
LEMMA DriftKeeps ==
  ASSUME Sound, Drift
  PROVE  Sound'
<1>1. /\ TypeOK /\ Hands /\ Origins /\ FirstRuns /\ Evidence /\ Places /\ Validated
  BY DEF Sound
<1>2. /\ UNCHANGED <<hist, seq, facts, lease, holder, leaseId, pc, cur, cached, crashes>>
      /\ drift < MaxDrift /\ drift' = drift + 1
      /\ commits' \in {commits, Append(commits, Outside)}
      /\ worktree' \in {worktree, worktree \cup {Outside}, {}}
  BY DEF Drift, ledger, leaseFile, repository
<1>10. edited' \in SUBSET Work /\ raced' \in SUBSET edited'
  <2>1. edited \in SUBSET Work /\ raced \in SUBSET edited
    BY <1>1 DEF TypeOK
  <2>2. CASE UNCHANGED <<edited, raced>>
    BY <2>1, <2>2
  <2>3. CASE \E t \in Work : EditPath(t)
    BY <2>1, <2>3 DEF EditPath
  <2> QED BY <2>2, <2>3 DEF Drift
<1>3. Rec' = Rec
  BY <1>2, RecStays
<1>4. commits \in Seq(Owner) /\ Outside \in Owner
  BY <1>1 DEF TypeOK, Owner
<1>5. drift' \in 0..MaxDrift
  BY <1>1, <1>2, KernelConstants DEF TypeOK
<1>6. commits' \in Seq(Owner) /\ worktree' \in SUBSET Owner
  <2>1. Append(commits, Outside) \in Seq(Owner)
    BY <1>4
  <2>2. worktree \in SUBSET Owner
    BY <1>1 DEF TypeOK
  <2> QED BY <1>2, <1>4, <2>1, <2>2
<1>7. TypeOK'
  BY <1>1, <1>2, <1>5, <1>6, <1>10 DEF TypeOK
<1>8. Validated' /\ commits' # <<>>
  BY <1>1, <1>2, <1>3, <1>4, Appended DEF Validated, Origins
<1>9. Hands' /\ Origins' /\ FirstRuns' /\ Evidence' /\ Places'
  BY <1>1, <1>2, <1>3, <1>8 DEF Hands, Origins, FirstRuns, Evidence, Places, Begun
<1> QED BY <1>7, <1>8, <1>9 DEF Sound

\* Nothing is recorded at first.
LEMMA InitSound ==
  ASSUME Init
  PROVE  Sound
<1>1. TypeOK
  <2>1. NoFacts \in Facts
    BY DEF NoFacts, Facts
  <2>2. <<Outside>> \in Seq(Owner)
    BY DEF Owner
  <2>3. 0 \in 0..MaxCrashes /\ 0 \in 0..MaxDrift
    BY KernelConstants
  <2> QED BY <2>1, <2>2, <2>3 DEF Init, TypeOK, Steps
<1>2. \A t \in Txn : Rec[t] = {}
  BY <1>1, RecMeaning DEF Init
<1>3. NoTxn \notin Txn /\ "idle" \notin Busy \cup FirstSteps
  BY KernelConstants DEF Busy, FirstSteps, Steps
<1>4. \A p \in Process : pc[p] = "idle" /\ cur[p] = NoTxn
  BY DEF Init
<1>5. commits = <<Outside>> /\ lease = NoLease
  BY DEF Init
<1>6. Hands /\ FirstRuns /\ Places
  BY <1>3, <1>4 DEF Hands, FirstRuns, Places
<1>7. Origins /\ Evidence /\ Validated
  BY <1>2, <1>5 DEF Origins, Evidence, Validated
<1> QED BY <1>1, <1>6, <1>7 DEF Sound

-----------------------------------------------------------------------------
(* Climbing histories.                                                     *)

\* Every level is a number, as is every reach.
LEMMA LevelType ==
  /\ \A type : Level(type) \in 0..12
  /\ \A step : Reach(step) \in 0..12
BY DEF Level, Reach, TerminalEventTypes

\* In a climbing history the first of two types is the lower one.
LEMMA FirstIsLower ==
  ASSUME NEW h \in Seq(EventTypes), Climbs(h), NEW a, NEW b, Has(h, a), Has(h, b),
         Level(a) < Level(b)
  PROVE  FirstAt(h, a) < FirstAt(h, b)
<1> DEFINE D == DOMAIN h
<1>1. D = 1..Len(h) /\ Len(h) \in Nat
  OBVIOUS
<1>2. \A i, j \in D : i < j => Level(h[i]) < Level(h[j])
  BY DEF Climbs
<1> HIDE DEF D
<1>3. ASSUME NEW n, Has(h, n)
      PROVE  FirstAt(h, n) \in D /\ h[FirstAt(h, n)] = n
  <2>1. PICK i \in D : h[i] = n
    BY <1>3 DEF Has, D
  <2>2. \A j \in 1..(i - 1) : j \in D /\ j < i
    BY <1>1
  <2>3. \A j \in 1..(i - 1) : h[j] # n
    BY <1>2, <2>1, <2>2, LevelType
  <2> QED BY <2>1, <2>3 DEF FirstAt, D
<1>4. PICK i, j \in D : i = FirstAt(h, a) /\ j = FirstAt(h, b) /\ h[i] = a /\ h[j] = b
  BY <1>3
<1>5. i < j \/ j < i \/ i = j
  BY <1>1
<1> QED BY <1>2, <1>4, <1>5, LevelType

\* A climbing history with what the contract wants before is one that read
\* accepts.
LEMMA ClimbingIsValid ==
  ASSUME TypeOK, NEW t \in Txn, Climbs(hist[t]), Closed(t), Evidence
  PROVE  ValidateHistory(hist[t])
<1>1. PICK h : h = hist[t]
  OBVIOUS
<1>2. h \in Seq(EventTypes) /\ Climbs(h)
  BY <1>1 DEF TypeOK
<1>3. DOMAIN h = 1..Len(h) /\ Len(h) \in Nat
  BY <1>2
<1>4. /\ \A n \in EventTypes : n \in Rec[t] <=> Has(h, n)
      /\ Rec[t] # {} <=> h # <<>>
      /\ Rec[t] \cap TerminalEventTypes # {} <=> Terminated(h)
  BY <1>1, RecMeaning DEF Recorded, Ended
<1>5. \A i, j \in DOMAIN h : i < j => Level(h[i]) < Level(h[j])
  BY <1>2 DEF Climbs
<1>6. ASSUME h # <<>>
      PROVE  h[1] = "TransactionStarted" /\ \A i \in 2..Len(h) : h[i] # "TransactionStarted"
  <2>1. h[1] = "TransactionStarted"
    BY <1>2, <1>6 DEF Climbs
  <2>2. ASSUME NEW i \in 2..Len(h)
        PROVE  Level(h[1]) < Level(h[i])
    BY <1>3, <1>5
  <2> QED BY <2>1, <2>2, LevelType
<1>7. TerminalImmutable(h)
  <2> SUFFICES ASSUME NEW i \in DOMAIN h, NEW k \in DOMAIN h, i < k, h[i] \in TerminalEventTypes
               PROVE  h[k] \in PostTerminalTypes
    BY DEF TerminalImmutable
  <2>1. Level(h[i]) = 10
    BY DEF Level, TerminalEventTypes
  <2>2. Level(h[k]) > 10
    BY <1>5, <2>1, LevelType
  <2> QED BY <2>2 DEF Level, PostTerminalTypes
<1>8. LeasesAuthorized(h)
  <2>1. ASSUME NEW i \in DOMAIN h, NEW k \in DOMAIN h, i < k, h[i] = h[k]
        PROVE  FALSE
    BY <1>5, <2>1, LevelType
  <2> QED BY <2>1 DEF LeasesAuthorized
<1>9. ASSUME NEW pair \in OrderedPairs, Has(h, pair[1]), Has(h, pair[2])
      PROVE  FirstAt(h, pair[1]) < FirstAt(h, pair[2])
  <2>1. pair[1] # "DeterministicExecutionStarted" /\ pair[2] # "DeterministicExecutionStarted"
    <3>1. ASSUME NEW i \in DOMAIN h
          PROVE  Level(h[i]) # 0
      <4>1. CASE i = 1
        BY <1>3, <1>6, <4>1 DEF Level
      <4>2. CASE i # 1
        <5>1. 1 \in DOMAIN h /\ 1 < i
          BY <1>3, <4>2
        <5> QED BY <1>5, <5>1, LevelType
      <4> QED BY <4>1, <4>2
    <3>2. Level("DeterministicExecutionStarted") = 0
      BY DEF Level, TerminalEventTypes
    <3> QED BY <1>9, <3>1, <3>2 DEF Has
  <2>2. Level(pair[1]) < Level(pair[2])
    BY <2>1 DEF OrderedPairs, Level, TerminalEventTypes
  <2> QED BY <1>2, <1>9, <2>2, FirstIsLower
<1>10. {"SessionLaunched", "SessionResultAccepted", "ValidationStarted", "ValidationPassed",
        "CommitFinalized", "ProjectionUpdated", "TransactionCompleted"} \cup CompletionRequires
          \subseteq EventTypes
  BY DEF EventTypes, TerminalEventTypes, CompletionRequires
<1>11. /\ Has(h, "SessionResultAccepted") => Has(h, "SessionLaunched")
       /\ Has(h, "CommitFinalized") => Has(h, "ValidationPassed")
       /\ Has(h, "ProjectionUpdated") => Terminated(h)
       /\ Has(h, "TransactionCompleted") => \A n \in CompletionRequires : Has(h, n)
  BY <1>4, <1>10 DEF Closed
<1>12. Has(h, "ValidationPassed") => Has(h, "ValidationStarted")
  BY <1>4, <1>10 DEF Evidence
<1> QED BY <1>1, <1>6, <1>7, <1>8, <1>9, <1>11, <1>12 DEF ValidateHistory

-----------------------------------------------------------------------------
(* What steps of the runner do to the order of the ledger.                 *)

\* An append above everything before it keeps a history climbing.
LEMMA HigherClimbs ==
  ASSUME NEW h \in Seq(EventTypes), Climbs(h), NEW type \in EventTypes,
         h = <<>> => type = "TransactionStarted",
         \A i \in DOMAIN h : Level(h[i]) < Level(type)
  PROVE  Climbs(Append(h, type))
<1>1. /\ DOMAIN h = 1..Len(h) /\ Len(h) \in Nat
      /\ DOMAIN Append(h, type) = DOMAIN h \cup {Len(h) + 1}
      /\ \A i \in DOMAIN h : Append(h, type)[i] = h[i]
      /\ Append(h, type)[Len(h) + 1] = type
  BY Appended
<1>2. Append(h, type)[1] = "TransactionStarted"
  <2>1. CASE h = <<>>
    BY <1>1, <2>1
  <2>2. CASE h # <<>>
    <3>1. 1 \in DOMAIN h
      BY <2>2
    <3> QED BY <1>1, <2>2, <3>1 DEF Climbs
  <2> QED BY <2>1, <2>2
<1>3. ASSUME NEW i \in DOMAIN Append(h, type), NEW j \in DOMAIN Append(h, type), i < j
      PROVE  Level(Append(h, type)[i]) < Level(Append(h, type)[j])
  <2>1. i \in DOMAIN h
    BY <1>1, <1>3
  <2>2. CASE j \in DOMAIN h
    BY <1>1, <1>3, <2>1, <2>2 DEF Climbs
  <2>3. CASE j = Len(h) + 1
    BY <1>1, <2>1, <2>3
  <2> QED BY <1>1, <2>2, <2>3
<1> QED BY <1>2, <1>3 DEF Climbs

\* An append of the runner keeps the order of the ledger.
LEMMA EmittedOrders ==
  ASSUME Sound, Alone, Histories, NEW p \in Process, NEW t \in Txn, t = cur[p],
         NEW type \in EventTypes, NEW fact, NEW to \in Steps \ {"idle", "superseding"},
         Emitted(p, type, fact, to), pc[p] # "idle",
         Reach(pc[p]) < Level(type), Level(type) <= Reach(to),
         type = "ProjectionUpdated" => pc[p] \in EndSteps,
         to \in EndSteps => pc[p] \in EndSteps \/ type \in TerminalEventTypes
  PROVE  Alone' /\ Histories'
<1>1. TypeOK /\ Hands /\ Evidence
  BY DEF Sound
<1>2. /\ Rec' = [Rec EXCEPT ![t] = @ \cup {type}]
      /\ hist' = [hist EXCEPT ![t] = Append(@, type)]
  BY <1>1, RecAfterEmit DEF Emitted, Emit
<1>3. Rec \in [Txn -> SUBSET EventTypes] /\ hist \in [Txn -> Seq(EventTypes)]
  BY <1>1, RecType DEF TypeOK
<1>4. /\ pc \in [Process -> Steps \cup RecoverySteps] /\ pc' = [pc EXCEPT ![p] = to]
      /\ cur' = cur
  BY <1>1 DEF Emitted, Goto, TypeOK
<1>5. Alone'
  BY <1>4 DEF Alone
<1>6. /\ \A n \in Rec[t] : Level(n) <= Reach(pc[p])
      /\ pc[p] \in EndSteps => Rec[t] \cap TerminalEventTypes # {}
      /\ Climbs(hist[t]) /\ Closed(t)
  BY DEF Histories
<1>7. Climbs(Append(hist[t], type))
  <2>1. ASSUME NEW i \in DOMAIN hist[t]
        PROVE  Level(hist[t][i]) < Level(type)
    <3>1. hist[t][i] \in EventTypes /\ Recorded(t, hist[t][i])
      BY <1>3 DEF Recorded, Has
    <3>2. hist[t][i] \in Rec[t]
      BY <1>1, <3>1, RecMeaning
    <3> QED BY <1>6, <3>2, LevelType
  <2>2. hist[t] = <<>> => type = "TransactionStarted"
    BY <1>1, AdmitsMeans, RecMeaning DEF Emitted
  <2> QED BY <1>3, <1>6, <2>1, <2>2, HigherClimbs
<1>8. Closed(t)'
  <2>1. /\ type = "CommitFinalized" => "ValidationPassed" \in Rec[t]
        /\ type = "SessionResultAccepted" => "SessionLaunched" \in Rec[t]
        /\ type = "TransactionCompleted" => CompletionRequires \subseteq Rec[t]
    BY <1>1, AdmitsMeans DEF Emitted
  <2>2. Rec'[t] = Rec[t] \cup {type}
    BY <1>2, <1>3
  <2> QED BY <1>6, <2>1, <2>2 DEF Closed
<1>9. ASSUME NEW u \in Txn
      PROVE  Climbs(hist'[u]) /\ Closed(u)'
  <2>1. CASE u = t
    <3>1. hist'[u] = Append(hist[t], type)
      BY <1>2, <1>3, <2>1
    <3> QED BY <1>7, <1>8, <2>1, <3>1
  <2>2. CASE u # t
    <3>1. hist'[u] = hist[u] /\ Rec'[u] = Rec[u]
      BY <1>2, <1>3, <2>2
    <3>2. Climbs(hist[u]) /\ Closed(u)
      BY DEF Histories
    <3> QED BY <3>1, <3>2 DEF Closed
  <2> QED BY <2>1, <2>2
<1>10. ASSUME NEW q \in Process, pc'[q] # "idle"
       PROVE  /\ \A n \in Rec'[cur'[q]] : Level(n) <= Reach(pc'[q])
              /\ pc'[q] \in EndSteps => Rec'[cur'[q]] \cap TerminalEventTypes # {}
  <2>1. CASE q = p
    <3>1. Rec'[cur'[q]] = Rec[t] \cup {type} /\ pc'[q] = to
      BY <1>2, <1>3, <1>4, <2>1
    <3>2. ASSUME NEW n \in Rec[t] \cup {type}
          PROVE  Level(n) <= Reach(to)
      BY <1>6, <3>2, LevelType
    <3> QED BY <1>6, <3>1, <3>2
  <2>2. CASE q # p
    <3>1. pc'[q] = pc[q] /\ cur'[q] = cur[q]
      BY <1>4, <2>2
    <3>2. cur[q] \in Txn /\ cur[q] # t
      BY <1>1, <1>10, <2>2, <3>1 DEF Hands, Busy, Alone
    <3>3. Rec'[cur[q]] = Rec[cur[q]]
      BY <1>2, <1>3, <3>2
    <3> QED BY <1>10, <3>1, <3>3 DEF Histories
  <2> QED BY <2>1, <2>2
<1>11. Histories'
  BY <1>9, <1>10 DEF Histories
<1> QED BY <1>5, <1>11

\* A step that appends nothing keeps the order of the ledger if its process
\* does not fall back.
LEMMA SilentOrders ==
  ASSUME Sound, Alone, Histories, NEW p \in Process, UNCHANGED hist, Unmoved(p),
         NEW t, t = cur'[p],
         pc'[p] \in Steps \ {"superseding"},
         pc'[p] = "idle" => t = NoTxn,
         pc'[p] # "idle" => t = cur[p] /\ pc[p] # "idle" /\ Reach(pc[p]) <= Reach(pc'[p]),
         pc'[p] \in EndSteps => pc[p] \in EndSteps
  PROVE  Alone' /\ Histories'
<1>1. TypeOK /\ Hands
  BY DEF Sound
<1>2. Rec' = Rec
  BY RecStays
<1>3. \A q \in Process : q # p => pc'[q] = pc[q] /\ cur'[q] = cur[q]
  BY DEF Unmoved
<1>4. NoTxn \notin Txn
  BY KernelConstants
<1>5. Alone'
  BY <1>3, <1>4 DEF Alone
<1>6. \A u \in Txn : Climbs(hist'[u]) /\ Closed(u)'
  BY <1>2 DEF Histories, Closed
<1>7. ASSUME NEW q \in Process, pc'[q] # "idle"
      PROVE  /\ \A n \in Rec[cur'[q]] : Level(n) <= Reach(pc'[q])
             /\ pc'[q] \in EndSteps => Rec[cur'[q]] \cap TerminalEventTypes # {}
  BY <1>3, <1>7, LevelType DEF Histories
<1>8. Histories'
  BY <1>2, <1>6, <1>7 DEF Histories
<1> QED BY <1>5, <1>8

-----------------------------------------------------------------------------
(* What steps of the runner do to commits and their evidence.              *)

\* The owner of a commit, and of a process, is a transaction.
LEMMA Owners ==
  ASSUME Sound
  PROVE  /\ \A i \in DOMAIN commits : commits[i] # Outside => commits[i] \in Txn
         /\ \A q \in Process :
               pc[q] \in Unlanded \cup {"committed", "finalized"} => cur[q] \in Txn
         /\ commits \in Seq(Owner) /\ DOMAIN commits = 1..Tip /\ Tip \in Nat
         /\ facts \in [Txn -> Facts] /\ Rec \in [Txn -> SUBSET EventTypes]
         /\ \A u \in Txn : facts[u].base \in Nat
<1>1. TypeOK /\ Hands
  BY DEF Sound
<1>2. Unlanded \cup {"committed", "finalized"} \subseteq Busy
  BY DEF Unlanded, FirstSteps, Busy, Steps
<1>3. facts \in [Txn -> Facts] /\ commits \in Seq(Owner)
  BY <1>1 DEF TypeOK
<1> QED BY <1>1, <1>2, <1>3, RecType DEF Hands, Owner, Tip, Facts

\* The evidence of a commit is written once, by the process that made it.
LEMMA EmittedLands ==
  ASSUME Sound, Alone, Histories, Landed, NEW p \in Process, NEW t \in Txn, t = cur[p],
         NEW type \in EventTypes, NEW fact \in Facts, NEW to \in Steps \ {"idle"},
         Emitted(p, type, fact, to), pc[p] # "idle",
         Reach(pc[p]) < Level(type),
         fact.base = facts[t].base,
         type # "CommitFinalized" => fact.commit = facts[t].commit,
         type = "TransactionCompleted" => Effect(t),
         to \in Unlanded => pc[p] \in Unlanded,
         to # "committed",
         to = "finalized" => fact.commit # fact.base \/ NoCommitOf(t)
  PROVE  Landed'
<1>1. /\ \A i \in DOMAIN commits : commits[i] # Outside => commits[i] \in Txn
      /\ \A q \in Process :
            pc[q] \in Unlanded \cup {"committed", "finalized"} => cur[q] \in Txn
      /\ facts \in [Txn -> Facts] /\ Rec \in [Txn -> SUBSET EventTypes]
  BY Owners
<1>2. Rec' = [Rec EXCEPT ![t] = @ \cup {type}]
  BY RecAfterEmit DEF Sound, Emitted, Emit
<1>3. /\ facts' = [facts EXCEPT ![t] = fact] /\ pc' = [pc EXCEPT ![p] = to]
      /\ cur' = cur /\ commits' = commits
      /\ pc \in [Process -> Steps \cup RecoverySteps]
  BY DEF Emitted, Goto, repository, Sound, TypeOK
<1>4. /\ \A u \in Txn : facts'[u].base = facts[u].base
      /\ \A u \in Txn : u # t => facts'[u] = facts[u] /\ Rec'[u] = Rec[u]
      /\ facts'[t] = fact /\ Rec'[t] = Rec[t] \cup {type}
  BY <1>1, <1>2, <1>3
<1>5. ASSUME NEW u \in Txn, "TransactionCompleted" \in Rec'[u]
      PROVE  Effect(u)'
  <2>1. CASE u # t
    <3>1. Effect(u)
      BY <1>4, <1>5, <2>1 DEF Landed
    <3> QED BY <1>3, <1>4, <2>1, <3>1 DEF Effect, NoCommitOf
  <2>2. CASE u = t
    <3>1. Effect(t) /\ fact.commit = facts[t].commit
      <4>1. CASE type = "TransactionCompleted"
        BY <4>1
      <4>2. CASE type # "TransactionCompleted"
        <5>1. "TransactionCompleted" \in Rec[t]
          BY <1>4, <1>5, <2>2, <4>2
        <5>2. Level("TransactionCompleted") <= Reach(pc[p])
          BY <5>1 DEF Histories
        <5>3. type # "CommitFinalized"
          BY <5>2, LevelType DEF Level, TerminalEventTypes
        <5> QED BY <5>1, <5>3 DEF Landed
      <4> QED BY <4>1, <4>2
    <3> QED BY <1>3, <1>4, <2>2, <3>1 DEF Effect, NoCommitOf
  <2> QED BY <2>1, <2>2
<1>6. ASSUME NEW q \in Process
      PROVE  /\ pc'[q] \in Unlanded => NoCommitOf(cur[q])
             /\ pc'[q] = "committed" =>
                  \E i \in DOMAIN commits :
                     commits[i] = cur[q] /\ \A j \in DOMAIN commits : commits[j] = cur[q] => j = i
             /\ pc'[q] = "finalized" /\ facts'[cur[q]].commit = facts'[cur[q]].base =>
                  NoCommitOf(cur[q])
             /\ cur[q] \in Txn => facts'[cur[q]].base <= Tip
  <2>1. CASE q = p
    BY <1>3, <1>4, <2>1 DEF Landed
  <2>2. CASE q # p
    <3>1. pc'[q] = pc[q]
      BY <1>3, <2>2
    <3>2. cur[q] # t
      BY <2>2 DEF Alone
    <3> QED BY <1>1, <1>4, <3>1, <3>2 DEF Landed
  <2> QED BY <2>1, <2>2
<1>7. \A i \in DOMAIN commits : commits[i] # Outside => facts'[commits[i]].base < i
  BY <1>1, <1>4 DEF Landed
<1>8. Tip' = Tip /\ \A q \in Process : NoCommitOf(cur[q])' <=> NoCommitOf(cur[q])
  BY <1>3 DEF Tip, NoCommitOf
<1> QED BY <1>3, <1>5, <1>6, <1>7, <1>8 DEF Landed

\* What leaves ledger and branch alone.
LEMMA SilentLands ==
  ASSUME Landed, NEW p \in Process, UNCHANGED <<hist, facts, commits>>, Unmoved(p),
         pc'[p] \notin {"committed", "finalized"},
         pc'[p] \in Unlanded => pc[p] \in Unlanded /\ cur'[p] = cur[p],
         cur'[p] \in Txn => cur'[p] = cur[p]
  PROVE  Landed'
<1>1. Rec' = Rec
  BY RecStays
<1>2. \A q \in Process : q # p => pc'[q] = pc[q] /\ cur'[q] = cur[q]
  BY DEF Unmoved
<1>3. ASSUME NEW q \in Process
      PROVE  /\ pc'[q] \in Unlanded => NoCommitOf(cur'[q])
             /\ pc'[q] = "committed" =>
                  \E i \in DOMAIN commits :
                     commits[i] = cur'[q] /\ \A j \in DOMAIN commits : commits[j] = cur'[q] => j = i
             /\ pc'[q] = "finalized" /\ facts[cur'[q]].commit = facts[cur'[q]].base =>
                  NoCommitOf(cur'[q])
             /\ cur'[q] \in Txn => facts[cur'[q]].base <= Tip
  BY <1>2 DEF Landed
<1>4. \A u \in Txn : "TransactionCompleted" \in Rec[u] => Effect(u)'
  BY DEF Landed, Effect, NoCommitOf
<1>5. Tip' = Tip
  BY DEF Tip
<1>6. \A q \in Process : pc'[q] \in Unlanded => \A i \in DOMAIN commits : commits[i] # cur'[q]
  BY <1>3 DEF NoCommitOf
<1>7. \A q \in Process :
         pc'[q] = "finalized" /\ facts[cur'[q]].commit = facts[cur'[q]].base =>
            \A i \in DOMAIN commits : commits[i] # cur'[q]
  BY <1>3 DEF NoCommitOf
<1> QED BY <1>1, <1>3, <1>4, <1>5, <1>6, <1>7 DEF Landed, NoCommitOf

\* A commit on top, of a transaction that has none or of the outsider.
LEMMA CommitLands ==
  ASSUME Sound, Alone, Histories, Landed, UNCHANGED <<hist, facts, cur>>,
         NEW x \in Owner, commits' = Append(commits, x),
         \/ x = Outside /\ pc' = pc
         \/ \E p \in Process : /\ pc[p] = "checked" /\ x = cur[p] /\ x \in Txn
                               /\ pc' = [pc EXCEPT ![p] = "committed"]
  PROVE  Landed'
<1>1. /\ \A i \in DOMAIN commits : commits[i] # Outside => commits[i] \in Txn
      /\ \A q \in Process :
            pc[q] \in Unlanded \cup {"committed", "finalized"} => cur[q] \in Txn
      /\ commits \in Seq(Owner) /\ DOMAIN commits = 1..Tip /\ Tip \in Nat
      /\ \A u \in Txn : facts[u].base \in Nat
  BY Owners
<1>2. /\ DOMAIN commits' = DOMAIN commits \cup {Tip + 1}
      /\ \A i \in DOMAIN commits : commits'[i] = commits[i]
      /\ commits'[Tip + 1] = x /\ Tip' = Tip + 1
  BY <1>1, Appended DEF Tip
<1>3. Rec' = Rec /\ Outside \notin Txn
  BY RecStays, KernelConstants
<1>4. \A u : u # x => (NoCommitOf(u) <=> \A i \in DOMAIN commits' : commits'[i] # u)
  BY <1>2 DEF NoCommitOf
<1>5. CASE x = Outside /\ pc' = pc
  <2>1. \A u \in Txn : "TransactionCompleted" \in Rec[u] => Effect(u)'
    BY <1>1, <1>2, <1>3, <1>4, <1>5 DEF Landed, Effect, NoCommitOf
  <2>2. ASSUME NEW q \in Process
        PROVE  /\ pc[q] \in Unlanded => NoCommitOf(cur[q])'
               /\ pc[q] = "committed" =>
                    \E i \in DOMAIN commits' :
                       commits'[i] = cur[q] /\ \A j \in DOMAIN commits' : commits'[j] = cur[q] => j = i
               /\ pc[q] = "finalized" /\ facts[cur[q]].commit = facts[cur[q]].base =>
                    \A i \in DOMAIN commits' : commits'[i] # cur[q]
               /\ cur[q] \in Txn => facts[cur[q]].base <= Tip + 1
    <3>1. pc[q] \in Unlanded => \A i \in DOMAIN commits' : commits'[i] # cur[q]
      BY <1>1, <1>3, <1>4, <1>5 DEF Landed
    <3>2. pc[q] = "committed" =>
             \E i \in DOMAIN commits' :
                commits'[i] = cur[q] /\ \A j \in DOMAIN commits' : commits'[j] = cur[q] => j = i
      BY <1>1, <1>2, <1>3, <1>5 DEF Landed
    <3>3. pc[q] = "finalized" /\ facts[cur[q]].commit = facts[cur[q]].base =>
             \A i \in DOMAIN commits' : commits'[i] # cur[q]
      BY <1>1, <1>3, <1>4, <1>5 DEF Landed
    <3>4. cur[q] \in Txn => facts[cur[q]].base <= Tip + 1
      BY <1>1 DEF Landed
    <3> QED BY <3>1, <3>2, <3>3, <3>4 DEF NoCommitOf
  <2>3. \A i \in DOMAIN commits' : commits'[i] # Outside => facts[commits'[i]].base < i
    BY <1>2, <1>5 DEF Landed
  <2> QED BY <1>2, <1>3, <1>5, <2>1, <2>2, <2>3 DEF Landed, NoCommitOf
<1>6. ASSUME NEW p \in Process, pc[p] = "checked", x = cur[p], x \in Txn,
             pc' = [pc EXCEPT ![p] = "committed"]
      PROVE  Landed'
  <2>1. /\ pc'[p] = "committed" /\ (\A q \in Process : q # p => pc'[q] = pc[q])
        /\ \A q \in Process : q # p => cur[q] # x
    BY <1>6 DEF Alone, Sound, TypeOK
  <2>2. NoCommitOf(x) /\ facts[x].base <= Tip
    BY <1>6 DEF Landed, Unlanded
  <2>3. ASSUME NEW u \in Txn, "TransactionCompleted" \in Rec[u]
        PROVE  Effect(u)'
    <3>1. u # x
      <4>1. Level("TransactionCompleted") = 10 /\ Reach("checked") = 8
        BY DEF Level, Reach, TerminalEventTypes
      <4> QED BY <1>6, <2>3, <4>1 DEF Histories
    <3>2. Effect(u)
      BY <2>3 DEF Landed
    <3> QED BY <1>2, <1>4, <3>1, <3>2 DEF Effect, NoCommitOf
  <2>4. ASSUME NEW q \in Process, q # p
        PROVE  /\ pc'[q] \in Unlanded => \A i \in DOMAIN commits' : commits'[i] # cur[q]
               /\ pc'[q] = "committed" =>
                    \E i \in DOMAIN commits' :
                       commits'[i] = cur[q] /\ \A j \in DOMAIN commits' : commits'[j] = cur[q] => j = i
               /\ pc'[q] = "finalized" /\ facts[cur[q]].commit = facts[cur[q]].base =>
                    \A i \in DOMAIN commits' : commits'[i] # cur[q]
               /\ cur[q] \in Txn => facts[cur[q]].base <= Tip + 1
    <3>1. pc[q] \in Unlanded => \A i \in DOMAIN commits' : commits'[i] # cur[q]
      BY <1>4, <2>1, <2>4 DEF Landed
    <3>2. pc[q] = "committed" =>
             \E i \in DOMAIN commits' :
                commits'[i] = cur[q] /\ \A j \in DOMAIN commits' : commits'[j] = cur[q] => j = i
      BY <1>2, <2>1, <2>4 DEF Landed
    <3>3. pc[q] = "finalized" /\ facts[cur[q]].commit = facts[cur[q]].base =>
             \A i \in DOMAIN commits' : commits'[i] # cur[q]
      BY <1>4, <2>1, <2>4 DEF Landed
    <3>4. cur[q] \in Txn => facts[cur[q]].base <= Tip + 1
      BY <1>1 DEF Landed
    <3> QED BY <2>1, <2>4, <3>1, <3>2, <3>3, <3>4
  <2>5. /\ commits'[Tip + 1] = cur[p] /\ Tip + 1 \in DOMAIN commits'
        /\ \A j \in DOMAIN commits' : commits'[j] = cur[p] => j = Tip + 1
    BY <1>2, <1>6, <2>2 DEF NoCommitOf
  <2>6. "committed" \notin Unlanded
    BY DEF Unlanded, FirstSteps
  <2>7. \A i \in DOMAIN commits' : commits'[i] # Outside => facts[commits'[i]].base < i
    BY <1>1, <1>2, <1>6, <2>2 DEF Landed
  <2>8. ASSUME NEW q \in Process
        PROVE  /\ pc'[q] \in Unlanded => \A i \in DOMAIN commits' : commits'[i] # cur[q]
               /\ pc'[q] = "committed" =>
                    \E i \in DOMAIN commits' :
                       commits'[i] = cur[q] /\ \A j \in DOMAIN commits' : commits'[j] = cur[q] => j = i
               /\ pc'[q] = "finalized" /\ facts[cur[q]].commit = facts[cur[q]].base =>
                    \A i \in DOMAIN commits' : commits'[i] # cur[q]
               /\ cur[q] \in Txn => facts[cur[q]].base <= Tip + 1
    <3>1. CASE q = p
      BY <1>1, <1>6, <2>1, <2>2, <2>5, <2>6, <3>1
    <3>2. CASE q # p
      BY <2>4, <3>2
    <3> QED BY <3>1, <3>2
  <2> QED BY <1>2, <1>3, <2>3, <2>7, <2>8 DEF Landed, NoCommitOf
<1> QED BY <1>5, <1>6

-----------------------------------------------------------------------------
(* The runner's steps, one by one.                                         *)

Order == Alone /\ Histories /\ Landed

\* A process that leaves its transaction.
LEMMA LeavingKeepsOrder ==
  ASSUME Sound, Order, NEW p \in Process, UNCHANGED <<hist, facts, commits>>,
         Unmoved(p), pc'[p] = "idle", cur'[p] = NoTxn
  PROVE  Order'
<1>1. Alone /\ Histories /\ Landed
  BY DEF Order
<1>2. NoTxn \notin Txn
  BY KernelConstants
<1>3. "idle" \notin Unlanded \cup EndSteps \cup {"committed", "finalized", "superseding"}
      /\ "idle" \in Steps
  BY DEF Unlanded, FirstSteps, EndSteps, Steps
<1>4. Alone' /\ Histories'
  BY <1>1, <1>3, SilentOrders
<1>5. Landed'
  BY <1>1, <1>2, <1>3, SilentLands
<1> QED BY <1>4, <1>5 DEF Order

\* An exception blocks a transaction or leaves it as it is.
LEMMA RaisedKeepsOrder ==
  ASSUME Sound, Order, NEW p \in Process, Raised(p)
  PROVE  Order'
<1>1. Alone /\ Histories /\ Landed /\ TypeOK
  BY DEF Order, Sound
<1>2. UNCHANGED <<hist, facts, commits>>
  BY DEF Raised, ledger, repository
<1>3. CASE Exit(p)
  <2>1. pc'[p] = "idle" /\ cur'[p] = NoTxn /\ Unmoved(p)
    BY <1>1, <1>3, ExitTyped
  <2> QED BY <1>2, <2>1, LeavingKeepsOrder
<1>4. CASE Handled(p) /\ Goto(p, "failing") /\ UNCHANGED <<cur, lease, holder>>
  <2>1. /\ Unmoved(p) /\ pc'[p] = "failing" /\ cur'[p] = cur[p]
        /\ pc[p] \in {"started", "active", "snapped", "launched", "resulted", "bounded",
                      "validating", "rejected", "finalizing", "checked"}
    BY <1>1, <1>4 DEF Goto, Handled, Unmoved, TypeOK
  <2>2. Reach(pc[p]) <= Reach("failing")
    BY <2>1 DEF Reach
  <2>3. /\ "failing" \notin Unlanded \cup EndSteps \cup {"committed", "finalized", "superseding", "idle"}
        /\ "failing" \in Steps
    BY DEF Unlanded, FirstSteps, EndSteps, Steps
  <2>4. Alone' /\ Histories'
    BY <1>1, <1>2, <2>1, <2>2, <2>3, SilentOrders
  <2>5. Landed'
    BY <1>1, <1>2, <2>1, <2>3, SilentLands
  <2> QED BY <2>4, <2>5 DEF Order
<1> QED BY <1>3, <1>4 DEF Raised, Raise

\* A fresh transaction has one process, no history and no commit.
LEMMA BeginKeepsOrder ==
  ASSUME Sound, Order, NEW p \in Process, NEW t \in Work, Begin(p, t)
  PROVE  Order'
<1>1. /\ Alone /\ Histories /\ Landed
      /\ TypeOK /\ Hands /\ Origins /\ Evidence /\ Validated
  BY DEF Order, Sound
<1>2. t \in Txn
  BY DEF Txn
<1>3. /\ pc[p] = "idle" /\ Fresh(t)
      /\ facts' = [facts EXCEPT ![t] = [facts[t] EXCEPT !.base = Tip]]
      /\ pc' = [pc EXCEPT ![p] = "leased"] /\ cur' = [cur EXCEPT ![p] = t]
      /\ UNCHANGED <<hist, commits>>
  BY DEF Begin, Goto, repository
<1>4. ~Begun(t)
  BY <1>3 DEF Fresh, NoFacts, Begun
<1>5. /\ Rec[t] = {} /\ (\A q \in Process : cur[q] # t)
      /\ \A i \in DOMAIN commits : commits[i] # t
  <2>1. Rec[t] = {} /\ \A q \in Process : cur[q] # t
    BY <1>1, <1>2, <1>4 DEF Hands, Origins
  <2>2. Outside # t
    BY <1>2, KernelConstants
  <2> QED BY <1>1, <2>1, <2>2 DEF Validated
<1>6. Rec' = Rec
  BY <1>3, RecStays
<1>7. /\ \A i \in DOMAIN commits : commits[i] # Outside => commits[i] \in Txn
      /\ commits \in Seq(Owner) /\ DOMAIN commits = 1..Tip /\ Tip \in Nat
      /\ facts \in [Txn -> Facts] /\ Rec \in [Txn -> SUBSET EventTypes]
  BY Owners
<1>8. /\ \A u \in Txn : u # t => facts'[u] = facts[u]
      /\ facts'[t].base = Tip
  <2>1. facts[t] \in Facts
    BY <1>2, <1>7
  <2>2. [facts[t] EXCEPT !.base = Tip].base = Tip
    BY <2>1 DEF Facts
  <2> QED BY <1>2, <1>3, <1>7, <2>2
<1>9. /\ pc'[p] = "leased" /\ cur'[p] = t
      /\ \A q \in Process : q # p => pc'[q] = pc[q] /\ cur'[q] = cur[q]
  BY <1>1, <1>3 DEF TypeOK
<1>10. Alone'
  BY <1>1, <1>5, <1>9 DEF Alone, Steps
<1>11. Histories'
  <2>1. \A u \in Txn : Climbs(hist'[u]) /\ Closed(u)'
    BY <1>1, <1>3, <1>6 DEF Histories, Closed
  <2>2. ASSUME NEW q \in Process, pc'[q] # "idle"
        PROVE  /\ \A n \in Rec[cur'[q]] : Level(n) <= Reach(pc'[q])
               /\ pc'[q] \in EndSteps => Rec[cur'[q]] \cap TerminalEventTypes # {}
    BY <1>1, <1>5, <1>9, <2>2 DEF Histories, EndSteps
  <2> QED BY <1>6, <2>1, <2>2 DEF Histories
<1>12. Landed'
  <2>1. \A u \in Txn : "TransactionCompleted" \in Rec[u] => Effect(u)'
    <3> SUFFICES ASSUME NEW u \in Txn, "TransactionCompleted" \in Rec[u]
                 PROVE  Effect(u)'
      OBVIOUS
    <3>1. u # t /\ Effect(u)
      BY <1>1, <1>5 DEF Landed
    <3> QED BY <1>3, <1>8, <3>1 DEF Effect, NoCommitOf
  <2>2. ASSUME NEW q \in Process
        PROVE  /\ pc'[q] \in Unlanded => \A i \in DOMAIN commits : commits[i] # cur'[q]
               /\ pc'[q] = "committed" =>
                    \E i \in DOMAIN commits :
                       commits[i] = cur'[q] /\ \A j \in DOMAIN commits : commits[j] = cur'[q] => j = i
               /\ pc'[q] = "finalized" /\ facts'[cur'[q]].commit = facts'[cur'[q]].base =>
                    \A i \in DOMAIN commits : commits[i] # cur'[q]
               /\ cur'[q] \in Txn => facts'[cur'[q]].base <= Tip
    <3>1. CASE q = p
      BY <1>5, <1>7, <1>8, <1>9, <3>1
    <3>2. CASE q # p
      <4>1. pc'[q] = pc[q] /\ cur'[q] = cur[q] /\ cur[q] # t
        BY <1>5, <1>9, <3>2
      <4>2. pc[q] = "finalized" => cur[q] \in Txn
        BY Owners
      <4> QED BY <1>1, <1>8, <4>1, <4>2 DEF Landed, NoCommitOf
    <3> QED BY <3>1, <3>2
  <2>3. \A i \in DOMAIN commits : commits[i] # Outside => facts'[commits[i]].base < i
    BY <1>1, <1>5, <1>7, <1>8 DEF Landed
  <2>4. Tip' = Tip /\ commits' = commits
    BY <1>3 DEF Tip
  <2> QED BY <1>6, <2>1, <2>2, <2>3, <2>4 DEF Landed, NoCommitOf
<1> QED BY <1>10, <1>11, <1>12 DEF Order

\* An append of the runner, above what was there, keeps the order.
LEMMA EmittedKeepsOrder ==
  ASSUME Sound, Order, NEW p \in Process, NEW t, t = cur[p],
         NEW type \in EventTypes, NEW fact, NEW c, c = facts[t].commit,
         NEW to \in Steps \ {"idle", "superseding"},
         Emitted(p, type, fact, to), MayRecord(t, type, fact), pc[p] # "idle",
         Reach(pc[p]) < Level(type), Level(type) <= Reach(to),
         type = "ProjectionUpdated" => pc[p] \in EndSteps,
         to \in EndSteps => pc[p] \in EndSteps \/ type \in TerminalEventTypes,
         type # "CommitFinalized" => fact.commit = c,
         type = "TransactionCompleted" => Effect(t),
         to \in Unlanded => pc[p] \in Unlanded,
         to # "committed",
         to = "finalized" => fact.commit # fact.base \/ NoCommitOf(t)
  PROVE  Order'
<1>1. Alone /\ Histories /\ Landed /\ Hands
  BY DEF Order, Sound
<1>2. t \in Txn
  BY <1>1 DEF Alone, Hands, Busy
<1>3. fact \in Facts /\ fact.base = facts[t].base
  BY DEF MayRecord
<1>4. Alone' /\ Histories'
  BY <1>1, <1>2, EmittedOrders
<1>5. Landed'
  BY <1>1, <1>2, <1>3, EmittedLands
<1> QED BY <1>4, <1>5 DEF Order

\* the calls of the runner without a payload, by their steps
PlainStep(p, from, type, to) ==
  \/ Start(p) /\ from = "leased" /\ type = "TransactionStarted" /\ to = "started"
  \/ AcquireLeaseRecorded(p) /\ from = "started" /\ type = "LeaseAcquired" /\ to = "active"
  \/ CaptureSnapshot(p) /\ from = "active" /\ type = "SnapshotCaptured" /\ to = "snapped"
  \/ SessionLaunched(p) /\ from = "snapped" /\ type = "SessionLaunched" /\ to = "launched"
  \/ StartValidation(p) /\ from = "bounded" /\ type = "ValidationStarted" /\ to = "validating"
  \/ PassValidation(p) /\ from = "validating" /\ type = "ValidationPassed" /\ to = "finalizing"
  \/ FailValidation(p) /\ from = "validating" /\ type = "ValidationFailed" /\ to = "rejected"
  \/ RecordRelease(p) /\ from = "unlinked" /\ type = "LeaseReleased" /\ to = "released"
  \/ RecordProjection(p) /\ from = "released" /\ type = "ProjectionUpdated" /\ to = "projected"

\* A call without a payload appends its event with the payload as it is.
LEMMA PlainStepEmits ==
  ASSUME NEW p \in Process, NEW from, NEW type, NEW to, NEW t, t = cur[p],
         PlainStep(p, from, type, to)
  PROVE  pc[p] = from /\ (Emitted(p, type, facts[t], to) \/ Raised(p))
<1>1. CASE Start(p) /\ from = "leased" /\ type = "TransactionStarted" /\ to = "started"
  BY <1>1 DEF Start, Step, Emitted, Raised
<1>2. CASE AcquireLeaseRecorded(p) /\ from = "started" /\ type = "LeaseAcquired" /\ to = "active"
  BY <1>2 DEF AcquireLeaseRecorded, Step, Emitted, Raised
<1>3. CASE CaptureSnapshot(p) /\ from = "active" /\ type = "SnapshotCaptured" /\ to = "snapped"
  BY <1>3 DEF CaptureSnapshot, Step, Emitted, Raised
<1>4. CASE SessionLaunched(p) /\ from = "snapped" /\ type = "SessionLaunched" /\ to = "launched"
  BY <1>4 DEF SessionLaunched, Step, Emitted, Raised
<1>5. CASE StartValidation(p) /\ from = "bounded" /\ type = "ValidationStarted" /\ to = "validating"
  BY <1>5 DEF StartValidation, Step, Emitted, Raised
<1>6. CASE PassValidation(p) /\ from = "validating" /\ type = "ValidationPassed" /\ to = "finalizing"
  BY <1>6 DEF PassValidation, Step, Emitted, Raised
<1>7. CASE FailValidation(p) /\ from = "validating" /\ type = "ValidationFailed" /\ to = "rejected"
  BY <1>7 DEF FailValidation, Step, Emitted, Raised
<1>8. CASE RecordRelease(p) /\ from = "unlinked" /\ type = "LeaseReleased" /\ to = "released"
  BY <1>8 DEF RecordRelease, Step, Emitted, Raised
<1>9. CASE RecordProjection(p) /\ from = "released" /\ type = "ProjectionUpdated" /\ to = "projected"
  BY <1>9 DEF RecordProjection, Step, Emitted, Raised
<1> QED BY <1>1, <1>2, <1>3, <1>4, <1>5, <1>6, <1>7, <1>8, <1>9 DEF PlainStep

\* Calls without a payload climb one level.
LEMMA PlainStepKeepsOrder ==
  ASSUME Sound, Order, NEW p \in Process, NEW from, NEW type, NEW to,
         PlainStep(p, from, type, to)
  PROVE  Order'
<1>1. PICK t : t = cur[p]
  OBVIOUS
<1>2. pc[p] = from /\ (Emitted(p, type, facts[t], to) \/ Raised(p))
  BY <1>1, PlainStepEmits
<1>3. /\ type \in EventTypes /\ to \in Steps \ {"idle", "superseding"} /\ from # "idle"
      /\ from \in Steps
  BY DEF PlainStep, EventTypes, Steps
<1>4. Reach(from) < Level(type) /\ Level(type) <= Reach(to)
  BY DEF PlainStep, Reach, Level, TerminalEventTypes
<1>5. /\ type = "ProjectionUpdated" => from \in EndSteps
      /\ to \in EndSteps => from \in EndSteps
      /\ type \notin {"CommitFinalized", "TransactionCompleted"}
      /\ to \in Unlanded => from \in Unlanded
      /\ to \notin {"committed", "finalized"}
  BY DEF PlainStep, EndSteps, Unlanded, FirstSteps
<1>6. t \in Txn
  BY <1>1, <1>2, <1>3 DEF Sound, Hands, Busy
<1>7. MayRecord(t, type, facts[t])
  BY <1>6 DEF Sound, TypeOK, MayRecord
<1>8. CASE Emitted(p, type, facts[t], to)
  BY <1>1, <1>2, <1>3, <1>4, <1>5, <1>7, <1>8, EmittedKeepsOrder
<1>9. CASE Raised(p)
  BY <1>9, RaisedKeepsOrder
<1> QED BY <1>2, <1>8, <1>9

\* What a session returns, and the boundary of its changes.
LEMMA ResultKeepsOrder ==
  ASSUME Sound, Order, NEW p \in Process,
         \/ \E said \in SUBSET {cur[p]}, verdict \in {"success", "stop"} :
               AcceptResult(p, said, verdict)
         \/ RecordFileMutationBoundary(p)
  PROVE  Order'
<1>1. TypeOK /\ Hands
  BY DEF Sound
<1>2. PICK t : t = cur[p]
  OBVIOUS
<1>3. pc[p] \in {"launched", "resulted"}
  BY DEF AcceptResult, RecordFileMutationBoundary, Step
<1>4. t \in Txn /\ facts[t] \in Facts
  BY <1>1, <1>2, <1>3 DEF Hands, Busy, Steps, TypeOK
<1>5. CASE Raised(p)
  BY <1>5, RaisedKeepsOrder
<1>6. ASSUME NEW said \in SUBSET {cur[p]}, NEW verdict \in {"success", "stop"},
             AcceptResult(p, said, verdict), ~Raised(p)
      PROVE  Order'
  <2>1. PICK fact : fact = [facts[t] EXCEPT !.said = said, !.verdict = verdict,
                              !.seen = IF said = ChangedPaths(t) THEN said ELSE NoDiff]
    OBVIOUS
  <2>2. said \in SUBSET Owner
    BY <1>2, <1>4 DEF Owner
  <2>3. (IF said = ChangedPaths(t) THEN said ELSE NoDiff) \in {NoDiff} \cup SUBSET Owner
    BY <2>2
  <2>4. PICK type \in EventTypes : type = "SessionResultAccepted"
    BY DEF EventTypes
  <2>5. PICK to \in Steps \ {"idle", "superseding"} : to = "resulted"
    BY DEF Steps
  <2>6. MayRecord(t, type, fact) /\ fact.commit = facts[t].commit
    BY <1>4, <2>1, <2>2, <2>3, <2>4 DEF MayRecord, Facts
  <2>7. Emitted(p, type, fact, to) /\ pc[p] = "launched"
    BY <1>2, <1>6, <2>1, <2>4, <2>5 DEF AcceptResult, Step, Emitted, Raised
  <2>8. Reach("launched") < Level(type) /\ Level(type) <= Reach(to)
    BY <2>4, <2>5 DEF Reach, Level, TerminalEventTypes
  <2>9. to \notin EndSteps /\ {"launched", to} \subseteq Unlanded
    BY <2>5 DEF EndSteps, Unlanded, FirstSteps
  <2> QED BY <1>2, <2>4, <2>5, <2>6, <2>7, <2>8, <2>9, EmittedKeepsOrder
<1>7. ASSUME RecordFileMutationBoundary(p), ~Raised(p)
      PROVE  Order'
  <2>1. PICK fact : fact = [facts[t] EXCEPT !.boundary = ChangedPaths(t)]
    OBVIOUS
  <2>2. ChangedPaths(t) \in SUBSET Owner
    BY <1>1, <1>4, ChangedPathsType
  <2>3. PICK type \in EventTypes : type = "ChangesDetected"
    BY DEF EventTypes
  <2>4. PICK to \in Steps \ {"idle", "superseding"} : to = "bounded"
    BY DEF Steps
  <2>5. MayRecord(t, type, fact) /\ fact.commit = facts[t].commit
    BY <1>4, <2>1, <2>2, <2>3 DEF MayRecord, Facts
  <2>6. Emitted(p, type, fact, to) /\ pc[p] = "resulted"
    BY <1>2, <1>7, <2>1, <2>3, <2>4 DEF RecordFileMutationBoundary, Step, Emitted, Raised
  <2>7. Reach("resulted") < Level(type) /\ Level(type) <= Reach(to)
    BY <2>3, <2>4 DEF Reach, Level, TerminalEventTypes
  <2>8. to \notin EndSteps /\ {"resulted", to} \subseteq Unlanded
    BY <2>4 DEF EndSteps, Unlanded, FirstSteps
  <2> QED BY <1>2, <2>3, <2>4, <2>5, <2>6, <2>7, <2>8, EmittedKeepsOrder
<1> QED BY <1>5, <1>6, <1>7

\* The commit of t is the newest and only one of t, and above its base.
LEMMA CommitIsOwn ==
  ASSUME Sound, Order, NEW p \in Process, NEW t, t = cur[p], pc[p] = "committed"
  PROVE  CommitOf(t) \in DOMAIN commits /\ facts[t].base < CommitOf(t)
<1>1. Landed /\ DOMAIN commits = 1..Tip /\ Tip \in Nat /\ t \in Txn
  BY Owners DEF Order
<1>2. PICK i \in DOMAIN commits : commits[i] = t /\ \A j \in DOMAIN commits : commits[j] = t => j = i
  BY <1>1 DEF Landed
<1>3. \A j \in (i+1)..Tip : j \in DOMAIN commits /\ j # i
  BY <1>1, <1>2
<1>4. commits[i] = t /\ \A j \in (i+1)..Tip : commits[j] # t
  BY <1>2, <1>3
<1>5. CommitOf(t) \in DOMAIN commits /\ commits[CommitOf(t)] = t
  BY <1>2, <1>4 DEF CommitOf
<1>6. t # Outside
  BY <1>1, KernelConstants
<1> QED BY <1>1, <1>5, <1>6 DEF Landed

\* The final commit is recorded: the base only if there is nothing above it.
LEMMA RecordCommitKeepsOrder ==
  ASSUME Sound, Order, NEW p \in Process,
         FinalizeUnchanged(p) \/ \E c \in DOMAIN commits : RecordCommit(p, c)
  PROVE  Order'
<1>1. TypeOK /\ Hands /\ Landed
  BY DEF Sound, Order
<1>2. PICK t : t = cur[p]
  OBVIOUS
<1>3. pc[p] \in {"finalizing", "committed"}
  BY DEF FinalizeUnchanged, RecordCommit
<1>4. t \in Txn /\ facts[t] \in Facts /\ facts[t].base \in Nat
  BY <1>1, <1>2, <1>3 DEF Hands, Busy, Steps, TypeOK, Facts
<1>5. PICK type \in EventTypes : type = "CommitFinalized"
  BY DEF EventTypes
<1>6. CASE Raised(p)
  BY <1>6, RaisedKeepsOrder
<1>7. CASE ~Raised(p)
  <2>1. \E c \in Nat, to \in {"finalized", "dirty"} :
          /\ Emitted(p, type, [facts[t] EXCEPT !.commit = c], to)
          /\ c # facts[t].base \/ NoCommitOf(t)
    <3>1. CASE FinalizeUnchanged(p)
      <4>1. Emitted(p, type, [facts[t] EXCEPT !.commit = facts[t].base], "finalized")
        BY <1>2, <1>5, <1>7, <3>1 DEF FinalizeUnchanged, Step, Emitted, Raised
      <4>2. pc[p] \in Unlanded
        BY <3>1 DEF FinalizeUnchanged, Unlanded
      <4>3. NoCommitOf(t)
        BY <1>1, <1>2, <4>2 DEF Landed
      <4> QED BY <1>4, <4>1, <4>3
    <3>2. CASE \E c \in DOMAIN commits : RecordCommit(p, c)
      <4>1. PICK c \in DOMAIN commits : RecordCommit(p, c)
        BY <3>2
      <4>2. c \in Nat
        BY <1>1 DEF TypeOK
      <4>3. PICK to \in {"finalized", "dirty"} :
               to = IF worktree = {} THEN "finalized" ELSE "dirty"
        OBVIOUS
      <4>4. Emitted(p, type, [facts[t] EXCEPT !.commit = c], to)
        BY <1>2, <1>5, <1>7, <4>1, <4>3 DEF RecordCommit, Step, Emitted, Raised
      <4>5. pc[p] = "committed" /\ c \in CommitOf(t)..Tip
        BY <1>2, <4>1 DEF RecordCommit
      <4>6. CommitOf(t) \in DOMAIN commits /\ facts[t].base < CommitOf(t)
        BY <1>2, <4>5, CommitIsOwn
      <4>7. DOMAIN commits = 1..Tip /\ Tip \in Nat
        BY Owners
      <4>8. c # facts[t].base
        BY <1>4, <4>5, <4>6, <4>7
      <4> QED BY <4>2, <4>4, <4>8
    <3> QED BY <3>1, <3>2
  <2>2. PICK c \in Nat, to \in {"finalized", "dirty"} :
          /\ Emitted(p, type, [facts[t] EXCEPT !.commit = c], to)
          /\ c # facts[t].base \/ NoCommitOf(t)
    BY <2>1
  <2>3. PICK fact : fact = [facts[t] EXCEPT !.commit = c]
    OBVIOUS
  <2>4. MayRecord(t, type, fact) /\ fact.commit = c /\ fact.base = facts[t].base
    BY <1>4, <1>5, <2>3 DEF MayRecord, Facts
  <2>5. /\ to \in Steps \ {"idle", "superseding"} /\ to # "committed"
        /\ to \notin EndSteps \cup Unlanded
    BY DEF Steps, EndSteps, Unlanded, FirstSteps
  <2>6. Reach(pc[p]) < Level(type) /\ Level(type) <= Reach(to)
    BY <1>3, <1>5 DEF Reach, Level, TerminalEventTypes
  <2> QED BY <1>2, <1>3, <1>5, <2>2, <2>3, <2>4, <2>5, <2>6, EmittedKeepsOrder
<1> QED BY <1>6, <1>7

\* A transaction completes with the effect it claims, or ends without one.
LEMMA EndKeepsOrder ==
  ASSUME Sound, Order, NEW p \in Process,
         Complete(p) \/ \E type \in TerminalEventTypes : Block(p, type)
  PROVE  Order'
<1>1. TypeOK /\ Hands /\ Landed /\ Alone /\ Origins
  BY DEF Sound, Order
<1>2. PICK t : t = cur[p]
  OBVIOUS
<1>3. pc[p] \in {"resulted", "failing", "finalized"}
  BY <1>1 DEF Complete, CompleteTransaction, Block, Step, Alone
<1>4. t \in Txn /\ facts[t] \in Facts
  BY <1>1, <1>2, <1>3 DEF Hands, Busy, Steps, TypeOK
<1>5. MayRecord(t, "TransactionCompleted", facts[t]) /\ \A n : MayRecord(t, n, facts[t])
  BY <1>4 DEF MayRecord
<1>6. PICK to \in Steps \ {"idle", "superseding"} : to = "terminal"
  BY DEF Steps
<1>7. Reach(pc[p]) < 10 /\ Reach(to) = 10 /\ \A n \in TerminalEventTypes : Level(n) = 10
  BY <1>3, <1>6 DEF Reach, Level, TerminalEventTypes
<1>8. to \notin Unlanded /\ to \notin {"committed", "finalized"}
  BY <1>6 DEF Unlanded, FirstSteps
<1>9. TerminalEventTypes \subseteq EventTypes
      /\ {"ProjectionUpdated", "CommitFinalized"} \cap TerminalEventTypes = {}
  BY DEF EventTypes, TerminalEventTypes
<1>10. CASE Raised(p)
  BY <1>10, RaisedKeepsOrder
<1>11. ASSUME NEW type \in TerminalEventTypes, Emitted(p, type, facts[t], to),
              type = "TransactionCompleted" => Effect(t)
       PROVE  Order'
  <2>1. type \in EventTypes /\ type \notin {"ProjectionUpdated", "CommitFinalized"}
    BY <1>9
  <2>2. MayRecord(t, type, facts[t])
    BY <1>5
  <2> QED BY <1>2, <1>3, <1>6, <1>7, <1>8, <1>11, <2>1, <2>2, EmittedKeepsOrder
<1>12. CASE ~Raised(p) /\ \E type \in TerminalEventTypes : Block(p, type)
  <2>1. PICK type \in TerminalEventTypes : Block(p, type)
    BY <1>12
  <2>2. type # "TransactionCompleted"
    BY <1>1, <2>1 DEF Block, Alone
  <2>3. Emitted(p, type, facts[t], to)
    BY <1>2, <1>6, <1>12, <2>1 DEF Block, Step, Emitted, Raised
  <2> QED BY <1>11, <2>2, <2>3
<1>13. CASE ~Raised(p) /\ Complete(p)
  <2>1. PICK type \in TerminalEventTypes : type = "TransactionCompleted"
    BY DEF TerminalEventTypes
  <2>2. Emitted(p, type, facts[t], to) /\ TerminalRepository(p) /\ pc[p] = "finalized"
    BY <1>2, <1>6, <1>13, <2>1 DEF Complete, CompleteTransaction, Step, Emitted, Raised
  <2>3. Tip = facts[t].commit /\ (facts[t].commit # facts[t].base => commits[Tip] = t)
    BY <1>2, <2>2 DEF TerminalRepository
  <2>4. Tip \in DOMAIN commits
    <3>1. commits \in Seq(Owner) /\ commits # <<>>
      BY <1>1 DEF TypeOK, Origins
    <3> QED BY <3>1 DEF Tip
  <2>5. facts[t].commit = facts[t].base => NoCommitOf(t)
    BY <1>1, <1>2, <2>2 DEF Landed
  <2>6. Effect(t)
    BY <2>3, <2>4, <2>5 DEF Effect
  <2> QED BY <1>11, <2>1, <2>2, <2>6
<1> QED BY <1>10, <1>12, <1>13

\* Edits, checks, commits and the tail of a transaction.
LEMMA SilentStepKeepsOrder ==
  ASSUME Sound, Order, NEW p \in Process,
         \/ SessionEdits(p) \/ CheckDiff(p) \/ GitCommit(p)
         \/ Rejected(p) \/ NotClean(p) \/ ReleaseLease(p) \/ Finish(p)
  PROVE  Order'
<1>1. /\ Alone /\ Histories /\ Landed /\ TypeOK /\ Hands
      /\ pc \in [Process -> Steps \cup RecoverySteps] /\ cur \in [Process -> Txn \cup {NoTxn}]
  BY DEF Order, Sound, TypeOK
<1>2. CASE Raised(p)
  BY <1>2, RaisedKeepsOrder
<1>3. CASE Rejected(p) \/ NotClean(p)
  <2>1. Raised(p)
    BY <1>3 DEF Rejected, NotClean, Raised, ledger, repository
  <2> QED BY <1>2, <2>1
<1>4. CASE ~Raised(p) /\ GitCommit(p)
  <2>1. /\ pc[p] = "checked" /\ commits' = Append(commits, cur[p])
        /\ pc' = [pc EXCEPT ![p] = "committed"] /\ UNCHANGED <<hist, facts, cur>>
    BY <1>4 DEF GitCommit, Goto, Raised, ledger, repository
  <2>2. cur[p] \in Txn
    BY <1>1, <2>1 DEF Hands, Busy, Steps
  <2>3. cur[p] \in Owner
    BY <2>2 DEF Owner
  <2>4. Landed'
    BY <1>1, <2>1, <2>2, <2>3, CommitLands
  <2>5. Unmoved(p) /\ pc'[p] = "committed" /\ cur'[p] = cur[p]
    BY <1>1, <2>1 DEF Unmoved
  <2>6. "committed" \in Steps \ {"idle", "superseding"} /\ "committed" \notin EndSteps
        /\ Reach("checked") <= Reach("committed")
    BY DEF Steps, EndSteps, Reach
  <2>7. Alone' /\ Histories'
    BY <1>1, <2>1, <2>5, <2>6, SilentOrders
  <2> QED BY <2>4, <2>7 DEF Order
<1>5. CASE ~Raised(p) /\ (SessionEdits(p) \/ CheckDiff(p) \/ ReleaseLease(p) \/ Finish(p))
  <2>1. /\ UNCHANGED <<hist, facts, commits>>
        /\ \/ pc[p] = "launched" /\ pc' = pc /\ cur' = cur
           \/ pc[p] = "finalizing" /\ pc' = [pc EXCEPT ![p] = "checked"] /\ cur' = cur
           \/ pc[p] = "terminal" /\ pc' = [pc EXCEPT ![p] = "unlinked"] /\ cur' = cur
           \/ pc[p] = "terminal" /\ pc' = [pc EXCEPT ![p] = "released"] /\ cur' = cur
           \/ pc' = [pc EXCEPT ![p] = "idle"] /\ cur' = [cur EXCEPT ![p] = NoTxn]
    <3>1. CASE SessionEdits(p)
      BY <3>1 DEF SessionEdits, ledger
    <3>2. CASE CheckDiff(p)
      BY <3>2 DEF CheckDiff, Goto, ledger, repository
    <3>3. CASE ReleaseLease(p)
      <4>1. ~Raise(p)
        BY <1>5, <3>3 DEF ReleaseLease, Raised, ledger
      <4>2. Owns(p) \/ lease = NoLease
        BY <3>3, <4>1 DEF ReleaseLease
      <4>3. CASE Owns(p)
        BY <3>3, <4>3 DEF ReleaseLease, Goto, ledger, repository
      <4>4. CASE ~Owns(p) /\ lease = NoLease
        BY <3>3, <4>4 DEF ReleaseLease, Goto, ledger, repository
      <4> QED BY <4>2, <4>3, <4>4
    <3>4. CASE Finish(p)
      <4>1. CASE Projectable
        BY <3>4, <4>1 DEF Finish, Rebuild, Goto, ledger, repository
      <4>2. CASE ~Projectable
        BY <1>5, <3>4, <4>2 DEF Finish, Rebuild, Raised, ledger
      <4> QED BY <4>1, <4>2
    <3> QED BY <1>5, <3>1, <3>2, <3>3, <3>4
  <2>2. Unmoved(p)
    BY <1>1, <2>1 DEF Unmoved
  <2>3. CASE pc' = [pc EXCEPT ![p] = "idle"] /\ cur' = [cur EXCEPT ![p] = NoTxn]
    <3>1. pc'[p] = "idle" /\ cur'[p] = NoTxn
      BY <1>1, <2>3
    <3> QED BY <2>1, <2>2, <3>1, LeavingKeepsOrder
  <2>4. ASSUME cur' = cur, NEW to,
               \/ pc[p] = "launched" /\ to = "launched"
               \/ pc[p] = "finalizing" /\ to = "checked"
               \/ pc[p] = "terminal" /\ to \in {"unlinked", "released"},
               pc' = [pc EXCEPT ![p] = to]
        PROVE  Order'
    <3>1. pc'[p] = to /\ cur'[p] = cur[p]
      BY <1>1, <2>4
    <3>2. /\ to \in Steps \ {"idle", "superseding"} /\ pc[p] # "idle"
          /\ to \in EndSteps => pc[p] \in EndSteps
          /\ to \in Unlanded => pc[p] \in Unlanded
          /\ to \notin {"committed", "finalized"}
          /\ Reach(pc[p]) <= Reach(to)
      BY <2>4 DEF Steps, EndSteps, Unlanded, FirstSteps, Reach
    <3>3. Alone' /\ Histories'
      BY <1>1, <2>1, <2>2, <3>1, <3>2, SilentOrders
    <3>4. Landed'
      BY <1>1, <2>1, <2>2, <3>1, <3>2, SilentLands
    <3> QED BY <3>3, <3>4 DEF Order
  <2>5. pc[p] = "launched" /\ pc' = pc => pc' = [pc EXCEPT ![p] = "launched"]
    BY <1>1
  <2> QED BY <2>1, <2>3, <2>4, <2>5
<1> QED BY <1>2, <1>3, <1>4, <1>5

\* Deaths and the outsider.
LEMMA OutsideKeepsOrder ==
  ASSUME Sound, Order, Drift \/ \E p \in Process : Die(p)
  PROVE  Order'
<1>1. Alone /\ Histories /\ Landed /\ TypeOK
  BY DEF Order, Sound
<1>2. ASSUME NEW p \in Process, Die(p)
      PROVE  Order'
  <2>1. pc'[p] = "idle" /\ cur'[p] = NoTxn /\ Unmoved(p)
    BY <1>1, <1>2, ExitTyped DEF Die
  <2>2. UNCHANGED <<hist, facts, commits>>
    BY <1>2 DEF Die, ledger, repository
  <2> QED BY <2>1, <2>2, LeavingKeepsOrder
<1>3. CASE Drift
  <2>1. /\ UNCHANGED <<hist, facts, pc, cur>>
        /\ commits' = commits \/ commits' = Append(commits, Outside)
    BY <1>3 DEF Drift, ledger, repository
  <2>2. Rec' = Rec
    BY <2>1, RecStays
  <2>3. Alone'
    BY <1>1, <2>1 DEF Alone
  <2>4. Histories'
    BY <1>1, <2>1, <2>2 DEF Histories, Closed
  <2>5. Landed'
    <3>1. CASE commits' = commits
      BY <1>1, <2>1, <2>2, <3>1 DEF Landed, Effect, NoCommitOf, Tip
    <3>2. CASE commits' = Append(commits, Outside)
      <4>1. Outside \in Owner
        BY DEF Owner
      <4> QED BY <1>1, <2>1, <3>2, <4>1, CommitLands
    <3> QED BY <2>1, <3>1, <3>2
  <2> QED BY <2>3, <2>4, <2>5 DEF Order
<1> QED BY <1>2, <1>3

-----------------------------------------------------------------------------
(* The invariants of the specification.                                    *)

\* Every step of the runner, of the outsider and of a death is sound.
LEMMA NextKeepsSound ==
  ASSUME Sound, Next
  PROVE  Sound'
<1>1. CASE Drift
  BY <1>1, DriftKeeps
<1>2. ASSUME NEW p \in Process, Die(p)
      PROVE  Sound'
  BY <1>2, DieKeeps
<1>3. ASSUME NEW p \in Process, RunnerStep(p)
      PROVE  Sound'
  <2>1. CASE \E t \in Work : Begin(p, t)
    BY <2>1, BeginKeeps
  <2>2. CASE Start(p) \/ Complete(p)
    BY <2>2, StartOrCompleteKeeps DEF Complete
  <2>3. CASE KernelStep(p)
    BY <2>3, KernelStepKeeps
  <2>4. CASE Finish(p)
    BY <2>4, TailKeeps DEF Finish
  <2> QED BY <1>3, <2>1, <2>2, <2>3, <2>4 DEF RunnerStep
<1> QED BY <1>1, <1>2, <1>3 DEF Next

\* Every step of the runner, of the outsider and of a death keeps the order.
LEMMA NextKeepsOrder ==
  ASSUME Sound, Order, Next
  PROVE  Order'
<1>1. CASE Drift \/ \E p \in Process : Die(p)
  BY <1>1, OutsideKeepsOrder
<1>2. ASSUME NEW p \in Process, RunnerStep(p)
      PROVE  Order'
  <2>1. CASE \E t \in Work : Begin(p, t)
    BY <2>1, BeginKeepsOrder
  <2>2. CASE \E from, type, to : PlainStep(p, from, type, to)
    BY <2>2, PlainStepKeepsOrder
  <2>3. CASE \/ Start(p) \/ AcquireLeaseRecorded(p) \/ CaptureSnapshot(p)
             \/ SessionLaunched(p) \/ StartValidation(p) \/ PassValidation(p)
             \/ FailValidation(p) \/ RecordRelease(p) \/ RecordProjection(p)
    BY <2>2, <2>3 DEF PlainStep
  <2>4. CASE \/ \E said \in SUBSET {cur[p]}, verdict \in {"success", "stop"} :
                   AcceptResult(p, said, verdict)
             \/ RecordFileMutationBoundary(p)
    BY <2>4, ResultKeepsOrder
  <2>5. CASE FinalizeUnchanged(p) \/ \E c \in DOMAIN commits : RecordCommit(p, c)
    BY <2>5, RecordCommitKeepsOrder
  <2>6. CASE Complete(p) \/ \E type \in TerminalEventTypes : Block(p, type)
    BY <2>6, EndKeepsOrder
  <2>7. CASE \/ SessionEdits(p) \/ CheckDiff(p) \/ GitCommit(p)
             \/ Rejected(p) \/ NotClean(p) \/ ReleaseLease(p) \/ Finish(p)
    BY <2>7, SilentStepKeepsOrder
  <2> QED BY <1>2, <2>1, <2>3, <2>4, <2>5, <2>6, <2>7 DEF RunnerStep, KernelStep
<1> QED BY <1>1, <1>2 DEF Next

\* At first no process works and nothing is recorded.
LEMMA InitOrder ==
  ASSUME Init
  PROVE  Order
<1>1. TypeOK
  BY InitSound DEF Sound
<1>2. \A t \in Txn : hist[t] = <<>> /\ Rec[t] = {}
  BY <1>1, RecMeaning DEF Init
<1>3. \A p \in Process : pc[p] = "idle" /\ cur[p] = NoTxn
  BY DEF Init
<1>4. commits = <<Outside>> /\ NoTxn \notin Txn
  BY KernelConstants DEF Init
<1>5. "idle" \in Steps \ {"superseding"}
      /\ "idle" \notin Unlanded \cup {"committed", "finalized"}
  BY DEF Steps, Unlanded, FirstSteps
<1>6. Alone
  BY <1>3, <1>4, <1>5 DEF Alone
<1>7. Histories
  BY <1>2, <1>3 DEF Histories, Climbs, Closed
<1>8. Landed
  BY <1>2, <1>3, <1>4, <1>5 DEF Landed
<1> QED BY <1>6, <1>7, <1>8 DEF Order

\* Nothing changes.
LEMMA StutterKeeps ==
  ASSUME IInv, UNCHANGED kernelVars
  PROVE  IInv'
<1>1. UNCHANGED <<hist, seq, facts, commits, worktree, lease, holder, leaseId, pc, cur,
                  cached, crashes, drift, edited, raced>>
  BY DEF kernelVars, ledger, repository, leaseFile, bounds
<1>2. Rec' = Rec
  BY <1>1, RecStays
<1>3. Sound'
  BY <1>1, <1>2 DEF IInv, Sound, TypeOK, Hands, Origins, FirstRuns, Evidence, Places,
                    Validated, Begun
<1>4. Alone' /\ Histories'
  BY <1>1, <1>2 DEF IInv, Alone, Histories, Closed
<1>5. Landed'
  BY <1>1, <1>2 DEF IInv, Landed, Effect, NoCommitOf, Tip
<1> QED BY <1>3, <1>4, <1>5 DEF IInv

\* The inductive invariant of the kernel under its runners: the evidence is
\* sound, ordered, and says what is on the branch.
THEOREM Invariance == Spec => []IInv
<1>1. Init => IInv
  BY InitSound, InitOrder DEF IInv, Order
<1>2. IInv /\ [Next]_kernelVars => IInv'
  <2> SUFFICES ASSUME IInv, [Next]_kernelVars
               PROVE  IInv'
    OBVIOUS
  <2>1. CASE Next
    <3>1. Sound /\ Order
      BY DEF IInv, Order
    <3>2. Sound' /\ Order'
      BY <2>1, <3>1, NextKeepsSound, NextKeepsOrder
    <3> QED BY <3>2 DEF IInv, Order
  <2>2. CASE UNCHANGED kernelVars
    BY <2>2, StutterKeeps
  <2> QED BY <2>1, <2>2
<1> QED BY <1>1, <1>2, PTL DEF Spec

\* Every variable keeps its type, whatever processes die and whatever an
\* outsider does to the checkout.
THEOREM TypeCorrectness == Spec => []TypeOK
<1>1. IInv => TypeOK
  BY DEF IInv, Sound
<1> QED BY <1>1, Invariance, PTL

\* What the appends' own checks let through, EvidenceLedger.read accepts: the
\* kernel never writes a history that is CORRUPT_EVIDENCE.
THEOREM HistoriesAreReadable == Spec => []LedgerStaysValid
<1>1. IInv => LedgerStaysValid
  <2> SUFFICES ASSUME IInv, NEW t \in Txn
               PROVE  ValidateHistory(hist[t])
    BY DEF LedgerStaysValid
  <2>1. TypeOK /\ Evidence /\ Climbs(hist[t]) /\ Closed(t)
    BY DEF IInv, Sound, Histories
  <2> QED BY <2>1, ClimbingIsValid
<1> QED BY <1>1, Invariance, PTL

\* A transaction that complete() recorded as completed has its commit on the
\* branch, or has changed nothing there.
THEOREM CompletionIsCommitted == Spec => []CompletedMeansCommitted
<1>1. IInv => CompletedMeansCommitted
  <2> SUFFICES ASSUME IInv, NEW t \in Txn, Recorded(t, "TransactionCompleted")
               PROVE  Effect(t)
    BY DEF CompletedMeansCommitted, Effect, NoCommitOf
  <2>1. TypeOK /\ Landed
    BY DEF IInv, Sound
  <2>2. "TransactionCompleted" \in Rec[t]
    BY <2>1, RecMeaning DEF EventTypes, TerminalEventTypes
  <2> QED BY <2>1, <2>2 DEF Landed
<1> QED BY <1>1, Invariance, PTL

-----------------------------------------------------------------------------
(***************************************************************************)
(* The bytes.  A path edited after its bytes were recorded is committed    *)
(* only if the edit came after the last comparison: the kernel compares,   *)
(* goes to "checked", and git commit takes what the worktree has by then.  *)
(***************************************************************************)
Compared ==
  /\ \A i \in DOMAIN commits :
        commits[i] # Outside =>
           /\ commits[i] \notin worktree
           /\ commits[i] \in edited => commits[i] \in raced
  /\ \A p \in Process : pc[p] = "checked" /\ cur[p] \in edited => cur[p] \in raced

\* neither the checkout nor the branch is touched, and nothing compared
Quiet(p) ==
  UNCHANGED <<commits, worktree, edited, raced>> /\ Unmoved(p) /\ pc'[p] # "checked"

LEMMA QuietCompares ==
  ASSUME Compared, NEW p \in Process, Quiet(p)
  PROVE  Compared'
BY DEF Compared, Quiet, Unmoved

LEMMA RaisedIsQuiet ==
  ASSUME TypeOK, NEW p \in Process, Raise(p), UNCHANGED <<repository, bounds>>
  PROVE  Quiet(p)
BY DEF TypeOK, Raise, Exit, Goto, repository, bounds, Quiet, Unmoved

LEMMA CallIsQuiet ==
  ASSUME TypeOK, NEW p \in Process, NEW to, to # "checked",
         \/ Goto(p, to) /\ cur' = cur
         \/ Raise(p),
         UNCHANGED <<repository, bounds>>
  PROVE  Quiet(p)
<1>1. CASE Goto(p, to) /\ cur' = cur
  BY <1>1 DEF TypeOK, Goto, repository, bounds, Quiet, Unmoved
<1>2. CASE Raise(p)
  BY <1>2, RaisedIsQuiet
<1> QED BY <1>1, <1>2

\* The steps of a kernel instance that are not about the diff.
LEMMA KernelIsQuiet ==
  ASSUME TypeOK, NEW p \in Process,
         KernelStep(p) \/ Start(p) \/ CompleteTransaction(p),
         ~SessionEdits(p), ~CheckDiff(p), ~GitCommit(p)
  PROVE  Quiet(p)
<1>1. PICK steps : steps = Steps \ {"checked"}
  OBVIOUS
<1>2. ASSUME NEW to \in steps, (Goto(p, to) /\ cur' = cur) \/ Raise(p),
             UNCHANGED <<repository, bounds>>
      PROVE  Quiet(p)
  BY <1>1, <1>2, CallIsQuiet
<1>3. CASE Start(p)
  BY <1>1, <1>2, <1>3 DEF Start, Step, Steps
<1>4. CASE AcquireLeaseRecorded(p)
  BY <1>1, <1>2, <1>4 DEF AcquireLeaseRecorded, Step, Steps
<1>5. CASE CaptureSnapshot(p)
  BY <1>1, <1>2, <1>5 DEF CaptureSnapshot, Step, Steps
<1>6. CASE SessionLaunched(p)
  BY <1>1, <1>2, <1>6 DEF SessionLaunched, Step, Steps
<1>7. CASE \E said \in SUBSET {cur[p]}, verdict \in {"success", "stop"} :
              AcceptResult(p, said, verdict)
  BY <1>1, <1>2, <1>7 DEF AcceptResult, Step, Steps
<1>8. CASE RecordFileMutationBoundary(p)
  BY <1>1, <1>2, <1>8 DEF RecordFileMutationBoundary, Step, Steps
<1>9. CASE StartValidation(p)
  BY <1>1, <1>2, <1>9 DEF StartValidation, Step, Steps
<1>10. CASE PassValidation(p) \/ FailValidation(p)
  BY <1>1, <1>2, <1>10 DEF PassValidation, FailValidation, Step, Steps
<1>11. CASE Rejected(p) \/ NotClean(p)
  BY <1>11, RaisedIsQuiet DEF Rejected, NotClean
<1>12. CASE FinalizeUnchanged(p)
  BY <1>1, <1>2, <1>12 DEF FinalizeUnchanged, Step, Steps
<1>13. CASE \E c \in DOMAIN commits : RecordCommit(p, c)
  <2>1. PICK to \in steps : to = IF worktree = {} THEN "finalized" ELSE "dirty"
    BY <1>1 DEF Steps
  <2> QED BY <1>2, <1>13, <2>1 DEF RecordCommit, Step
<1>14. CASE CompleteTransaction(p)
  BY <1>1, <1>2, <1>14 DEF CompleteTransaction, Step, Steps
<1>15. CASE \E type \in TerminalEventTypes : Block(p, type)
  BY <1>1, <1>2, <1>15 DEF Block, Step, Steps
<1>16. CASE ReleaseLease(p)
  BY <1>1, <1>2, <1>16 DEF ReleaseLease, Steps
<1>17. CASE RecordRelease(p) \/ RecordProjection(p)
  BY <1>1, <1>2, <1>17 DEF RecordRelease, RecordProjection, Step, Steps
<1> QED BY <1>3, <1>4, <1>5, <1>6, <1>7, <1>8, <1>9, <1>10, <1>11, <1>12, <1>13, <1>14,
           <1>15, <1>16, <1>17 DEF KernelStep

\* A session edits the path of a transaction that has not committed.
LEMMA SessionCompares ==
  ASSUME Sound, Compared, NEW p \in Process, SessionEdits(p)
  PROVE  Compared'
<1>1. PICK t : t = cur[p]
  OBVIOUS
<1>2. /\ pc[p] = "launched" /\ worktree' = worktree \cup {t} /\ t \in Txn
      /\ UNCHANGED <<commits, pc, cur, edited, raced>>
  BY <1>1 DEF SessionEdits, bounds, Txn
<1>3. "SessionResultAccepted" \notin Rec[t]
  BY <1>1, <1>2 DEF Sound, Places, FirstSteps
<1>4. "ValidationPassed" \notin Rec[t]
  BY <1>2, <1>3 DEF Sound, Evidence
<1>5. \A i \in DOMAIN commits : commits[i] # Outside => commits[i] # t
  BY <1>4 DEF Sound, Validated
<1> QED BY <1>2, <1>5 DEF Compared

\* The diff is compared with the boundary, and committed.
LEMMA CommitCompares ==
  ASSUME Sound, Compared, NEW p \in Process, CheckDiff(p) \/ GitCommit(p)
  PROVE  Compared'
<1>1. PICK t : t = cur[p]
  OBVIOUS
<1>2. TypeOK /\ t \in Txn
  BY <1>1 DEF Sound, Hands, Busy, Steps, CheckDiff, GitCommit
<1>3. CASE CheckDiff(p)
  <2>1. t \notin edited
    BY <1>1, <1>3 DEF CheckDiff, Finalizable, AtBoundary
  <2>2. /\ UNCHANGED <<commits, worktree, cur, edited, raced>>
        /\ \A q \in Process : pc'[q] = pc[q] \/ q = p
    BY <1>2, <1>3 DEF CheckDiff, Goto, repository, bounds, TypeOK
  <2> QED BY <1>1, <2>1, <2>2 DEF Compared
<1>4. CASE GitCommit(p) /\ t \in worktree
  <2>1. /\ commits' = Append(commits, t) /\ worktree' = worktree \ {t}
        /\ UNCHANGED <<cur, edited, raced>> /\ pc[p] = "checked"
        /\ \A q \in Process : pc'[q] = pc[q] \/ (q = p /\ pc'[q] = "committed")
    BY <1>1, <1>2, <1>4 DEF GitCommit, Goto, bounds, TypeOK
  <2>2. commits \in Seq(Owner) /\ t \in Owner
    BY <1>2 DEF TypeOK, Owner
  <2>3. /\ DOMAIN commits' = DOMAIN commits \cup {Len(commits) + 1}
        /\ \A i \in DOMAIN commits : commits'[i] = commits[i]
        /\ commits'[Len(commits) + 1] = t
    BY <2>1, <2>2, Appended
  <2>4. t \in edited => t \in raced
    BY <1>1, <2>1 DEF Compared
  <2> QED BY <2>1, <2>3, <2>4 DEF Compared
<1>5. CASE GitCommit(p) /\ t \notin worktree
  <2>1. Raise(p) /\ UNCHANGED <<repository, bounds>>
    BY <1>1, <1>5 DEF GitCommit, repository
  <2> QED BY <1>2, <2>1, RaisedIsQuiet, QuietCompares
<1> QED BY <1>3, <1>4, <1>5

LEMMA KernelCompares ==
  ASSUME Sound, Compared, NEW p \in Process,
         KernelStep(p) \/ Start(p) \/ CompleteTransaction(p)
  PROVE  Compared'
BY KernelIsQuiet, QuietCompares, SessionCompares, CommitCompares DEF Sound

LEMMA OpenOrCloseCompares ==
  ASSUME Sound, Compared, NEW p \in Process,
         \/ \E t \in Work : Begin(p, t)
         \/ \E to \in {"idle", "reacquire"} : Rebuild(p, to)
         \/ Die(p)
  PROVE  Compared'
<1>1. TypeOK
  BY DEF Sound
<1>2. CASE \E t \in Work : Begin(p, t)
  BY <1>1, <1>2, QuietCompares DEF Begin, Goto, repository, bounds, Quiet, Unmoved, TypeOK
<1>3. CASE Die(p)
  BY <1>1, <1>3, QuietCompares DEF Die, Exit, repository, Quiet, Unmoved, TypeOK
<1>4. ASSUME NEW to \in {"idle", "reacquire"}, Rebuild(p, to)
      PROVE  Compared'
  <2>1. CASE Projectable
    BY <1>1, <1>4, <2>1, QuietCompares
       DEF Rebuild, Goto, repository, bounds, Quiet, Unmoved, TypeOK
  <2>2. CASE ~Projectable
    BY <1>1, <1>4, <2>2, RaisedIsQuiet, QuietCompares DEF Rebuild
  <2> QED BY <2>1, <2>2
<1> QED BY <1>2, <1>3, <1>4

\* An edit after the comparison is noted as such.
LEMMA DriftCompares ==
  ASSUME Sound, Compared, Drift
  PROVE  Compared'
<1>1. commits \in Seq(Owner) /\ Outside \in Owner /\ UNCHANGED <<pc, cur>>
  BY DEF Sound, TypeOK, Owner, Drift
<1>2. CASE commits' = Append(commits, Outside) /\ UNCHANGED <<worktree, edited, raced>>
  <2>1. /\ DOMAIN commits' = DOMAIN commits \cup {Len(commits) + 1}
        /\ \A i \in DOMAIN commits : commits'[i] = commits[i]
        /\ commits'[Len(commits) + 1] = Outside
    BY <1>1, <1>2, Appended
  <2> QED BY <1>1, <1>2, <2>1 DEF Compared
<1>3. CASE worktree' \in {{}, worktree \cup {Outside}} /\ UNCHANGED <<commits, edited, raced>>
  BY <1>1, <1>3 DEF Compared
<1>4. ASSUME NEW t \in Work, EditPath(t), UNCHANGED repository
      PROVE  Compared'
  <2>1. /\ t \in worktree /\ edited' = edited \cup {t}
        /\ raced \subseteq raced' /\ UNCHANGED <<commits, worktree>>
        /\ (\E p \in Process : pc[p] = "checked" /\ cur[p] = t) => t \in raced'
    BY <1>4 DEF EditPath, repository
  <2> QED BY <1>1, <2>1 DEF Compared
<1> QED BY <1>2, <1>3, <1>4 DEF Drift

\* What is sound and was compared is validated before it is committed.
LEMMA SoundIsValidated ==
  ASSUME Sound, Compared
  PROVE  CommitsAreValidated
<1> SUFFICES ASSUME NEW i \in DOMAIN commits, commits[i] # Outside
             PROVE  /\ Recorded(commits[i], "ValidationPassed")
                    /\ facts[commits[i]].said = {commits[i]}
                    /\ facts[commits[i]].verdict = "success"
                    /\ commits[i] \in edited => commits[i] \in raced
  BY DEF CommitsAreValidated
<1>1. TypeOK /\ Evidence /\ Validated
  BY DEF Sound
<1>2. PICK t \in Txn : t = commits[i]
  BY Owners
<1>3. "ValidationPassed" \in Rec[t] /\ facts[t].said = {t}
  BY <1>1, <1>2 DEF Validated
<1>4. facts[t].verdict = "success"
  BY <1>1, <1>3 DEF Evidence
<1>5. Recorded(t, "ValidationPassed")
  BY <1>1, <1>3, RecMeaning DEF EventTypes
<1> QED BY <1>2, <1>3, <1>4, <1>5 DEF Compared

\* finalize commits what a session said and a validation passed, with the
\* bytes that were compared or an edit that came after the comparison, for any
\* number of processes and without trusting the lease file.
THEOREM OnlyValidatedCommits == Spec => []CommitsAreValidated
<1>1. Init => Compared
  BY KernelConstants DEF Init, Compared
<1>2. IInv /\ Compared /\ [Next]_kernelVars => Compared'
  <2> SUFFICES ASSUME Sound, Compared, [Next]_kernelVars
               PROVE  Compared'
    BY DEF IInv
  <2>1. CASE Drift
    BY <2>1, DriftCompares
  <2>2. ASSUME NEW p \in Process, RunnerStep(p) \/ Die(p)
        PROVE  Compared'
    BY <2>2, KernelCompares, OpenOrCloseCompares DEF RunnerStep, Complete, Finish
  <2>3. CASE UNCHANGED kernelVars
    BY <2>3 DEF kernelVars, repository, bounds, Compared
  <2> QED BY <2>1, <2>2, <2>3 DEF Next
<1>3. IInv /\ Compared => CommitsAreValidated
  BY SoundIsValidated DEF IInv
<1> QED BY <1>1, <1>2, <1>3, Invariance, PTL DEF Spec
=============================================================================
