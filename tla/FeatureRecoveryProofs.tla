------------------------ MODULE FeatureRecoveryProofs ------------------------
(***************************************************************************)
(* Proofs about FeatureRecovery: any number of commands, versions,         *)
(* transactions, foreign edits and deaths, called by either caller.        *)
(*                                                                         *)
(* Two kinds of exclusion carry them.  The transaction that is open has    *)
(* one command at work on it, whether or not that command has taken the    *)
(* reservation (prelaunch recovery takes none); and a plan that was        *)
(* verified under the reservation keeps the gate it was made for.  The two *)
(* caches are apart from that: prelaunch recoveries that have completed    *)
(* write them whenever they get to it, so they have an invariant of their  *)
(* own on top of the first.                                                *)
(***************************************************************************)
EXTENDS FeatureRecovery, FiniteSetTheorems, WellFoundedInduction, TLAPS

PlanSteps == {"invoked", "planned", "reserved", "verified"}
HostSteps == {"host", "metadata", "finalize"}
RepairSteps == {"session", "attempt", "validate"}
CommittedSteps == {"resolve", "complete"}
ApplySteps == HostSteps \cup RepairSteps \cup CommittedSteps
ActiveSteps == {"executing", "prelaunch"} \cup ApplySteps
CacheSteps == {"cycle_cache", "controller_cache"}
LateSteps == ActiveSteps \cup CacheSteps
\* what is left to a prelaunch recovery that has completed
RefreshSteps == {"controller_document", "cycle_file"}
Steps == {"idle", "dead"} \cup PlanSteps \cup LateSteps \cup RefreshSteps

Meta == {"plain", "session", "accepted"}
Route == {"prelaunch"} \cup Recovering
BranchHead == [commit : {0, 1}, impl : Version, meta : Meta]
Shown == [cycle : Nat, controller : Nat]
Plan == [route : Route, origin : Nat, via : Nat, attempt : Nat, tree : Tree, caches : Shown]
FileContent == [impl : Version, meta : Meta]
Attempt == [failure : {"alias", "environment", "other"}, pre : FileContent, post : FileContent]
FailedOutcome ==
  {"context_failed", "isolation_failed", "decision", "applied", "command_failed",
   "metadata_failed", "git_failed", "unexpected_paths", "exhausted", "repair_refused"}
Outcome ==
  FailedOutcome \cup {"structured_invalid", "commit_unclean", "accepted", "complete_failed"}
Record ==
  [mode : {"execution"} \cup Route, origin : Nat, via : Nat, start : Tree, end : Tree,
   outcome : {"open"} \cup Outcome, attempts : Seq(Attempt)]
Projection ==
  [state : {"feature_preparing", "validation_failed", "human_decision_required", "review",
            "integration_pending"},
   gate : Nat, accepted : Nat]

Typed ==
  /\ tree \in Tree /\ head \in BranchHead /\ txns \in Seq(Record)
  /\ open \in {0, Len(txns)} /\ proj \in Projection /\ proj.gate <= Len(txns)
  /\ caches \in Shown
  /\ reservation \in Process \cup {NoProcess} /\ owner \in Process \cup {NoProcess}
  /\ pc \in [Process -> Steps] /\ plan \in [Process -> Plan]
  /\ drifts \in Nat

-----------------------------------------------------------------------------
(* The inductive invariant.                                                *)

\* what holds of every transaction, whoever is at work
EntryOK(t) ==
  LET r == txns[t] IN
  /\ r.outcome = "open" <=> t = open
  /\ r.origin < t /\ r.via < t
  /\ Len(r.attempts) <= MaxAttempts
  /\ r.outcome = "structured_invalid" => r.end.meta # "accepted"
  /\ r.outcome = "accepted" =>
       /\ r.mode = "result" => r.origin # 0 /\ r.end.impl = txns[r.origin].end.impl
       /\ r.mode = "repair_recovery" =>
            r.via # 0 /\ r.end.impl = txns[r.via].attempts[MaxAttempts].post.impl
  /\ /\ r.mode \in Recovering
     /\ r.outcome \notin {"open", "accepted", "commit_unclean", "complete_failed"}
     => /\ r.end.meta # "accepted"
        /\ r.mode # "repair" /\ drifts = 0 => r.end = r.start

LedgerOK == \A t \in DOMAIN txns : EntryOK(t)

\* no repair of the result o has ended
Unrepaired(o) ==
  \A t \in DOMAIN txns : t # open /\ txns[t].mode = "repair" => txns[t].origin # o

\* one repair of a result, and none while the projection waits at its gate
RepairsOK ==
  /\ \A t, u \in DOMAIN txns :
       /\ txns[t].mode = "repair" /\ txns[u].mode = "repair"
       /\ txns[t].origin = txns[u].origin
       => t = u
  /\ proj.state = "human_decision_required" /\ proj.gate # 0 => Unrepaired(proj.gate)

\* the gate of a retained result is there until its commit is
GateOK ==
  (\E t \in DOMAIN txns : txns[t].outcome = "structured_invalid")
    => proj.gate # 0 \/ head.commit = 1

\* one command at work, on the open transaction or on the caches after it
Alone ==
  /\ \A p, q \in Process : pc[p] \in LateSteps /\ pc[q] \in LateSteps => p = q
  /\ head.commit = 0 => head = Base

\* whoever must have the reservation
Holding(p) ==
  \/ pc[p] \in LateSteps \ {"prelaunch"}
  \/ pc[p] \in {"reserved", "verified"} /\ plan[p].route # "prelaunch"

OneCommand == \A p \in Process : Holding(p) => reservation = p

\* a plan names transactions of the ledger, and its route has its steps
PlanOK(p) ==
  /\ plan[p].origin <= Len(txns) /\ plan[p].via <= Len(txns)
  /\ pc[p] \in PlanSteps => plan[p].attempt = 0
  /\ pc[p] \in HostSteps => plan[p].route \in {"result", "repair_recovery"}
  /\ pc[p] \in RepairSteps => plan[p].route = "repair"
  /\ pc[p] \in CommittedSteps => plan[p].route \in Recovering

\* before the commit, after it, and with the transaction ended
PlaceOK(p) ==
  /\ pc[p] \in ActiveSteps => open # 0
  /\ pc[p] \in CacheSteps => open = 0
  /\ pc[p] \in ActiveSteps \ CommittedSteps => head = Base
  /\ pc[p] \in CommittedSteps \cup CacheSteps => head.commit = 1

\* the transaction at work
OpenOK(p) ==
  LET r == txns[open] IN
  /\ pc[p] = "executing" => r.mode = "execution"
  /\ pc[p] = "prelaunch" => r.mode = "prelaunch"
  /\ pc[p] \in ApplySteps =>
       r.mode = plan[p].route /\ r.origin = plan[p].origin /\ r.via = plan[p].via
  /\ pc[p] = "session" => plan[p].attempt = Len(r.attempts) /\ Len(r.attempts) < MaxAttempts
  /\ pc[p] = "attempt" => plan[p].attempt = Len(r.attempts) + 1 /\ Len(r.attempts) < MaxAttempts

\* a plan verified under the reservation, until it is carried out
BoundOK(p) ==
  LET e == plan[p] IN
  (pc[p] \in {"verified"} \cup ApplySteps /\ e.route \in Recovering) =>
    /\ e.tree.meta # "accepted"
    /\ pc[p] # "complete" => proj.gate = e.origin
    /\ pc[p] = "complete" => proj.gate \in {0, e.origin}
    /\ e.route = "result" => Unrepaired(e.origin)
    /\ (pc[p] = "verified" /\ e.route = "repair") => Unrepaired(e.origin)
    /\ e.route = "result" =>
         e.origin \in DOMAIN txns /\ e.origin # open /\ e.tree = txns[e.origin].end
    /\ e.route = "repair_recovery" =>
         /\ e.via \in DOMAIN txns /\ e.via # open
         /\ e.tree.impl = txns[e.via].attempts[MaxAttempts].post.impl

\* the tree while it is carried out
TreeOK(p) ==
  LET e == plan[p] IN
  /\ pc[p] = "verified" /\ e.route \in Recovering => tree.meta # "accepted"
  /\ pc[p] \in {"host", "metadata", "session", "attempt"} => tree.meta # "accepted"
  /\ pc[p] \in CommittedSteps /\ e.route # "repair" => head.impl = e.tree.impl
  /\ drifts = 0 =>
       /\ pc[p] = "verified" /\ e.route \in Recovering => tree = e.tree
       /\ pc[p] \in {"host", "metadata"} => tree = e.tree
       /\ pc[p] = "finalize" => tree = [e.tree EXCEPT !.meta = "accepted"]
       /\ pc[p] \in HostSteps => txns[open].start = e.tree

CommandOK(p) == PlanOK(p) /\ PlaceOK(p) /\ OpenOK(p) /\ BoundOK(p) /\ TreeOK(p)

CommandsOK == \A p \in Process : CommandOK(p)

IInv ==
  /\ Typed /\ LedgerOK /\ RepairsOK /\ GateOK /\ Alone /\ OneCommand /\ CommandsOK

\* the positions and the ended transactions stand while the open one is rewritten
Rewritten ==
  /\ Len(txns') = Len(txns) /\ DOMAIN txns' = DOMAIN txns
  /\ \A t \in DOMAIN txns :
       /\ txns'[t].mode = txns[t].mode /\ txns'[t].origin = txns[t].origin
       /\ txns'[t].via = txns[t].via /\ txns'[t].start = txns[t].start
       /\ t # open => txns'[t] = txns[t]

\* only p has moved
Only(p) == \A q \in Process \ {p} : pc'[q] = pc[q] /\ plan'[q] = plan[q]

\* the reservation of everybody but p stands
ReservationsStand(p) == \A q \in Process \ {p} : reservation = q => reservation' = q

-----------------------------------------------------------------------------
(* The ledger.                                                             *)

\* The positions of the ledger.
LEMMA Positions ==
  ASSUME Typed
  PROVE  /\ Len(txns) \in Nat /\ DOMAIN txns = 1..Len(txns) /\ open \in Nat
         /\ \A t \in DOMAIN txns : txns[t] \in Record
         /\ open # 0 => open = Len(txns) /\ open \in DOMAIN txns
BY DEF Typed

\* What kind of value a record's fields hold.
LEMMA RecordTypes ==
  ASSUME NEW r \in Record
  PROVE  /\ r.origin \in Nat /\ r.via \in Nat /\ r.start \in Tree /\ r.end \in Tree
         /\ r.attempts \in Seq(Attempt) /\ Len(r.attempts) \in Nat
         /\ r.mode \in {"execution"} \cup Route /\ r.outcome \in {"open"} \cup Outcome
BY DEF Record

\* A ledger that stands stays in order when no edit is taken back.
LEMMA LedgerKept ==
  ASSUME Typed, LedgerOK, txns' = txns, open' = open, drifts' = 0 => drifts = 0
  PROVE  LedgerOK' /\ Rewritten
<1>1. ASSUME NEW t \in DOMAIN txns
      PROVE  EntryOK(t)'
  BY <1>1 DEF LedgerOK, EntryOK
<1> QED BY <1>1 DEF LedgerOK, Rewritten

\* A ledger stays in order when the record of the open transaction is
\* rewritten in order.
LEMMA LedgerRewritten ==
  ASSUME Typed, LedgerOK, NEW n \in DOMAIN txns, n = open, NEW e \in Record,
         txns' = [txns EXCEPT ![n] = e], open' \in {0, open},
         e.mode = txns[n].mode, e.origin = txns[n].origin, e.via = txns[n].via,
         e.start = txns[n].start,
         drifts' = 0 => drifts = 0,
         EntryOK(n)'
  PROVE  LedgerOK' /\ Rewritten /\ txns' \in Seq(Record) /\ txns'[n] = e
<1>1. /\ txns' \in Seq(Record) /\ Len(txns') = Len(txns) /\ DOMAIN txns' = DOMAIN txns
      /\ txns'[n] = e /\ \A t \in DOMAIN txns : t # n => txns'[t] = txns[t]
  BY DEF Typed
<1>2. Rewritten
  BY <1>1 DEF Rewritten
<1>3. ASSUME NEW t \in DOMAIN txns, t # n
      PROVE  EntryOK(t)'
  <2>1. EntryOK(t) /\ t \in 1..Len(txns) /\ n = Len(txns)
    BY <1>3, Positions DEF LedgerOK
  <2>2. txns'[t] = txns[t] /\ t # open'
    BY <1>1, <1>3, <2>1, Positions
  <2>3. txns[t].origin \in Nat /\ txns[t].via \in Nat
    BY <2>1, Positions, RecordTypes
  <2>4. txns[t].origin < t /\ txns[t].via < t
    BY <2>1 DEF EntryOK
  <2>5. /\ txns[t].origin # 0 => txns'[txns[t].origin] = txns[txns[t].origin]
        /\ txns[t].via # 0 => txns'[txns[t].via] = txns[txns[t].via]
    BY <1>1, <2>1, <2>3, <2>4, Positions
  <2> QED BY <1>3, <2>1, <2>2, <2>5 DEF EntryOK
<1> QED BY <1>1, <1>2, <1>3 DEF LedgerOK

\* A ledger stays in order when a record in order is appended.
LEMMA LedgerExtended ==
  ASSUME Typed, LedgerOK, NEW r \in Record, NEW n \in Nat, n = Len(txns) + 1,
         txns' = Append(txns, r), open' = n, drifts' = drifts,
         open \notin DOMAIN txns, EntryOK(n)'
  PROVE  /\ LedgerOK' /\ txns' \in Seq(Record) /\ txns'[n] = r /\ Len(txns') = n
         /\ DOMAIN txns' = 1..n /\ \A t \in DOMAIN txns : t < n /\ txns'[t] = txns[t]
<1>1. /\ txns' \in Seq(Record) /\ Len(txns') = n /\ txns'[n] = r
      /\ \A t \in DOMAIN txns : t < n /\ txns'[t] = txns[t]
      /\ DOMAIN txns' = 1..n /\ DOMAIN txns = 1..(n - 1)
  BY DEF Typed
<1>2. ASSUME NEW t \in DOMAIN txns
      PROVE  EntryOK(t)'
  <2>1. EntryOK(t) /\ t # open /\ t # n /\ t \in 1..(n - 1) /\ txns'[t] = txns[t]
    BY <1>1 DEF LedgerOK
  <2>2. txns[t].origin \in Nat /\ txns[t].via \in Nat
    BY <2>1, Positions, RecordTypes
  <2>3. txns[t].origin < t /\ txns[t].via < t
    BY <2>1 DEF EntryOK
  <2>4. /\ txns[t].origin # 0 => txns'[txns[t].origin] = txns[txns[t].origin]
        /\ txns[t].via # 0 => txns'[txns[t].via] = txns[txns[t].via]
    BY <1>1, <2>1, <2>2, <2>3
  <2> QED BY <2>1, <2>4 DEF EntryOK
<1>3. LedgerOK'
  BY <1>1, <1>2 DEF LedgerOK
<1> QED BY <1>1, <1>3

\* One repair of a result stays one while the open transaction is rewritten;
\* the gate that is then waited at must be that of an unrepaired result.
LEMMA RepairsStand ==
  ASSUME RepairsOK, Rewritten,
         proj'.state = "human_decision_required" /\ proj'.gate # 0 =>
           \A t \in DOMAIN txns :
             t # open' /\ txns[t].mode = "repair" => txns[t].origin # proj'.gate
  PROVE  RepairsOK'
BY DEF RepairsOK, Unrepaired, Rewritten

\* ... and while nothing that it is about changes.
LEMMA RepairsKept ==
  ASSUME RepairsOK, Rewritten, open' = open,
         proj' = proj \/ proj'.state # "human_decision_required" \/ proj'.gate = 0
  PROVE  RepairsOK'
<1>1. proj'.state = "human_decision_required" /\ proj'.gate # 0 =>
        \A t \in DOMAIN txns :
          t # open' /\ txns[t].mode = "repair" => txns[t].origin # proj'.gate
  BY DEF RepairsOK, Unrepaired
<1> QED BY <1>1, RepairsStand

\* A repair may begin when there was none of its result.
LEMMA RepairsExtended ==
  ASSUME Typed, RepairsOK, NEW n \in Nat, DOMAIN txns' = 1..n, open' = n, proj' = proj,
         DOMAIN txns = 1..(n - 1), open \notin DOMAIN txns,
         \A t \in DOMAIN txns : t < n /\ txns'[t] = txns[t],
         txns'[n].mode = "repair" =>
           \A t \in DOMAIN txns : txns[t].mode = "repair" => txns[t].origin # txns'[n].origin
  PROVE  RepairsOK'
<1>1. \A t \in 1..n : t = n \/ t \in DOMAIN txns
  OBVIOUS
<1>2. \A t \in DOMAIN txns : t # open /\ t # n
  OBVIOUS
<1>3. \A t, u \in 1..n :
        (/\ txns'[t].mode = "repair" /\ txns'[u].mode = "repair"
         /\ txns'[t].origin = txns'[u].origin)
        => t = u
  BY <1>1, <1>2 DEF RepairsOK
<1>4. proj.state = "human_decision_required" /\ proj.gate # 0 =>
        \A t \in 1..n : t # n /\ txns'[t].mode = "repair" => txns'[t].origin # proj.gate
  BY <1>1, <1>2 DEF RepairsOK, Unrepaired
<1> QED BY <1>3, <1>4 DEF RepairsOK, Unrepaired

-----------------------------------------------------------------------------
(* Commands.                                                               *)

\* A step of p to s with the plan e.
LEMMA Going ==
  ASSUME Typed, NEW p \in Process, NEW s \in Steps, Goto(p, s),
         NEW e \in Plan, plan' = [plan EXCEPT ![p] = e]
  PROVE  /\ pc' \in [Process -> Steps] /\ plan' \in [Process -> Plan]
         /\ pc'[p] = s /\ plan'[p] = e /\ Only(p)
BY DEF Typed, Goto, Only

\* ... with the plan that p had.
LEMMA GoingOn ==
  ASSUME Typed, NEW p \in Process, NEW s \in Steps, Goto(p, s), plan' = plan
  PROVE  /\ pc' \in [Process -> Steps] /\ plan' \in [Process -> Plan]
         /\ pc'[p] = s /\ plan'[p] = plan[p] /\ plan[p] \in Plan /\ Only(p)
BY DEF Typed, Goto, Only

\* NoPlan is a plan.
LEMMA NoPlanIsPlan == NoPlan \in Plan
<1>1. 0 \in Version
  BY RecoveryConstants DEF Version
<1> QED BY <1>1 DEF NoPlan, NoCaches, Plan, Shown, Route, Tree

\* The finally clause.
LEMMA Leaving ==
  ASSUME Typed, NEW p \in Process, Leave(p)
  PROVE  /\ pc' \in [Process -> Steps] /\ plan' \in [Process -> Plan]
         /\ pc'[p] = "idle" /\ plan'[p] = NoPlan /\ Only(p)
         /\ reservation' \in Process \cup {NoProcess} /\ owner' \in Process \cup {NoProcess}
         /\ ReservationsStand(p)
<1>1. "idle" \in Steps
  BY DEF Steps
<1>2. /\ pc' \in [Process -> Steps] /\ plan' \in [Process -> Plan]
      /\ pc'[p] = "idle" /\ plan'[p] = NoPlan /\ Only(p)
  BY <1>1, NoPlanIsPlan, Going DEF Leave
<1>3. /\ reservation' \in Process \cup {NoProcess} /\ owner' \in Process \cup {NoProcess}
      /\ ReservationsStand(p)
  BY DEF Leave, Typed, ReservationsStand
<1> QED BY <1>2, <1>3

\* A command that is not yet at work owes its plan only.
LEMMA AtRest ==
  ASSUME NEW p \in Process,
         pc'[p] \in {"idle", "dead", "invoked", "planned", "reserved"} \cup RefreshSteps,
         plan'[p].origin <= Len(txns'), plan'[p].via <= Len(txns'),
         pc'[p] \in PlanSteps => plan'[p].attempt = 0
  PROVE  CommandOK(p)' /\ pc'[p] \notin LateSteps
BY DEF CommandOK, PlanOK, PlaceOK, OpenOK, BoundOK, TreeOK, PlanSteps, LateSteps, ActiveSteps,
       ApplySteps, HostSteps, RepairSteps, CommittedSteps, CacheSteps, RefreshSteps

\* A command that left owes nothing.
LEMMA AtHome ==
  ASSUME NEW p \in Process, pc'[p] = "idle", plan'[p] = NoPlan, Len(txns') \in Nat
  PROVE  CommandOK(p)' /\ pc'[p] \notin LateSteps /\ ~Holding(p)'
<1>1. plan'[p].origin = 0 /\ plan'[p].via = 0 /\ pc'[p] \notin PlanSteps
  BY DEF NoPlan, PlanSteps
<1>2. CommandOK(p)' /\ pc'[p] \notin LateSteps
  BY <1>1, AtRest
<1>3. ~Holding(p)'
  BY <1>2 DEF Holding
<1> QED BY <1>2, <1>3

\* Only one command is ever past its plan, and the rest of them have not
\* verified anything under the reservation while it holds that.
LEMMA OthersWait ==
  ASSUME Typed, Alone, OneCommand, NEW p \in Process, NEW q \in Process \ {p},
         pc[p] \in LateSteps \ {"prelaunch"}
  PROVE  pc[q] \notin LateSteps /\ (pc[q] = "verified" => plan[q].route = "prelaunch")
BY DEF Alone, OneCommand, Holding

\* What a command owes that waits.
LEMMA Waiting ==
  ASSUME Typed, NEW q \in Process, CommandOK(q), pc'[q] = pc[q], plan'[q] = plan[q],
         Len(txns') \in Nat, Len(txns) <= Len(txns'),
         pc[q] \notin LateSteps, pc[q] = "verified" => plan[q].route = "prelaunch"
  PROVE  CommandOK(q)'
<1>1. plan[q].origin \in Nat /\ plan[q].via \in Nat /\ Len(txns) \in Nat
  BY Positions DEF Typed, Plan
<1>2. PlanOK(q)'
  BY <1>1 DEF CommandOK, PlanOK, LateSteps, ActiveSteps, ApplySteps, CacheSteps
<1>3. PlaceOK(q)' /\ OpenOK(q)' /\ BoundOK(q)' /\ TreeOK(q)'
  BY DEF PlaceOK, OpenOK, BoundOK, TreeOK, LateSteps, ActiveSteps, ApplySteps, HostSteps,
         RepairSteps, CommittedSteps, CacheSteps, Recovering
<1> QED BY <1>2, <1>3 DEF CommandOK

\* A step of a command at work under the reservation.
LEMMA HolderStep ==
  ASSUME IInv, Typed', NEW p \in Process, pc[p] \in LateSteps \ {"prelaunch"}, Only(p),
         Len(txns) <= Len(txns'), ReservationsStand(p),
         pc'[p] \in (LateSteps \ {"prelaunch"}) \cup {"idle", "dead"},
         Holding(p)' => reservation' = p,
         head'.commit = 0 => head' = Base,
         CommandOK(p)'
  PROVE  Alone' /\ OneCommand' /\ CommandsOK'
<1>1. ASSUME NEW q \in Process \ {p}
      PROVE  CommandOK(q)' /\ pc'[q] \notin LateSteps /\ (Holding(q)' => reservation' = q)
  <2>1. pc'[q] = pc[q] /\ plan'[q] = plan[q] /\ q \in Process
    BY DEF Only
  <2>2. pc[q] \notin LateSteps /\ (pc[q] = "verified" => plan[q].route = "prelaunch")
    BY OthersWait DEF IInv
  <2>3. CommandOK(q)'
    <3>1. Len(txns') \in Nat
      BY DEF Typed
    <3>2. CommandOK(q) /\ Typed
      BY <2>1 DEF IInv, CommandsOK
    <3> QED BY <2>1, <2>2, <3>1, <3>2, Waiting
  <2>4. Holding(q)' => reservation' = q
    <3>1. Holding(q)' = Holding(q)
      BY <2>1 DEF Holding
    <3>2. Holding(q) => reservation = q
      BY <2>1 DEF IInv, OneCommand
    <3> QED BY <3>1, <3>2 DEF ReservationsStand
  <2> QED BY <2>1, <2>2, <2>3, <2>4
<1>2. CommandsOK'
  BY <1>1 DEF CommandsOK
<1>3. OneCommand'
  BY <1>1 DEF OneCommand
<1>4. Alone'
  BY <1>1 DEF Alone
<1> QED BY <1>2, <1>3, <1>4

\* A step that changes nothing that the other commands know.
LEMMA QuietOthers ==
  ASSUME IInv, Typed', NEW p \in Process, NEW q \in Process \ {p}, Only(p),
         UNCHANGED <<tree, head, txns, open, proj, drifts>>
  PROVE  CommandOK(q)'
<1>1. pc'[q] = pc[q] /\ plan'[q] = plan[q] /\ CommandOK(q)
  BY DEF Only, IInv, CommandsOK
<1>2. PlanOK(q)' /\ PlaceOK(q)' /\ OpenOK(q)'
  BY <1>1 DEF CommandOK, PlanOK, PlaceOK, OpenOK
<1>3. BoundOK(q)'
  BY <1>1 DEF CommandOK, BoundOK, Unrepaired
<1>4. TreeOK(q)'
  BY <1>1 DEF CommandOK, TreeOK
<1> QED BY <1>2, <1>3, <1>4 DEF CommandOK

\* A step of a command before it is at work, or out of it.
LEMMA QuietStep ==
  ASSUME IInv, Typed', NEW p \in Process, Only(p), ReservationsStand(p),
         UNCHANGED <<tree, head, txns, open, proj, drifts>>,
         pc'[p] \notin LateSteps, CommandOK(p)',
         Holding(p)' => reservation' = p
  PROVE  IInv'
<1>1. ASSUME NEW q \in Process \ {p}
      PROVE  CommandOK(q)' /\ pc'[q] = pc[q] /\ (Holding(q)' => reservation' = q)
  <2>1. pc'[q] = pc[q] /\ plan'[q] = plan[q] /\ q \in Process
    BY DEF Only
  <2>2. CommandOK(q)'
    BY QuietOthers
  <2>3. Holding(q)' = Holding(q)
    BY <2>1 DEF Holding
  <2>4. Holding(q) => reservation = q
    BY <2>1 DEF IInv, OneCommand
  <2> QED BY <2>1, <2>2, <2>3, <2>4 DEF ReservationsStand
<1>2. CommandsOK'
  BY <1>1 DEF CommandsOK
<1>3. OneCommand'
  BY <1>1 DEF OneCommand
<1>4. Alone'
  <2>1. Alone
    BY DEF IInv
  <2> QED BY <1>1, <2>1 DEF Alone
<1>5. LedgerOK' /\ Rewritten
  BY LedgerKept DEF IInv
<1>6. RepairsOK'
  BY <1>5, RepairsKept DEF IInv
<1>7. GateOK'
  BY DEF IInv, GateOK
<1> QED BY <1>2, <1>3, <1>4, <1>5, <1>6, <1>7 DEF IInv

-----------------------------------------------------------------------------
(* From the invocation to the verified plan.                               *)

\* A nonempty set of positions has a last one: of the sets of later
\* positions, a least one is empty.
LEMMA LastPosition ==
  ASSUME NEW n \in Nat, NEW X \in SUBSET (1..n), X # {}
  PROVE  \E t \in X : \A u \in X : u <= t
<1> DEFINE Later(x) == {y \in X : x < y}
           T == {Later(x) : x \in X}
<1>1. IsFiniteSet(X)
  <2>1. IsFiniteSet(1..n)
    BY FS_Interval
  <2> QED BY <2>1, FS_Subset
<1>2. IsWellFoundedOn(StrictSubsetOrdering(X), SUBSET X)
  BY <1>1, FS_FiniteSubsetsOfFinite, FS_StrictSubsetOrderingWellFounded
<1>3. T \subseteq SUBSET X /\ T # {}
  OBVIOUS
<1> HIDE DEF T
<1>4. PICK m \in T : \A y \in T : ~(<<y, m>> \in StrictSubsetOrdering(X))
  BY <1>2, <1>3, WFMin
<1>5. PICK t \in X : m = Later(t)
  BY DEF T
<1>6. ASSUME NEW u \in X, t < u
      PROVE  FALSE
  <2>1. Later(u) \in T
    BY DEF T
  <2>2. \A x \in X : x \in Nat
    OBVIOUS
  <2>3. Later(u) \subseteq m /\ u \in m /\ u \notin Later(u)
    <3>1. t \in Nat /\ u \in Nat /\ t < u
      BY <1>6, <2>2
    <3>2. \A y \in X : u < y => t < y
      BY <2>2, <3>1
    <3>3. u \in Later(t) /\ u \notin Later(u) /\ Later(u) \subseteq Later(t)
      <4>1. u \in Later(t)
        BY <3>1, Zenon
      <4>2. ~(u < u)
        BY <3>1
      <4>3. u \notin Later(u)
        BY <4>2, Zenon
      <4>4. Later(u) \subseteq Later(t)
        BY <3>2, Zenon
      <4> QED BY <4>1, <4>3, <4>4
    <3> QED BY <1>5, <3>3
  <2>4. Later(u) \in SUBSET X /\ m \in SUBSET X
    BY <1>5
  <2>5. <<Later(u), m>> \in StrictSubsetOrdering(X)
    BY <2>3, <2>4 DEF StrictSubsetOrdering
  <2> QED BY <1>4, <2>1, <2>5
<1>7. \A u \in X : u \in Nat /\ t \in Nat
  OBVIOUS
<1> QED BY <1>6, <1>7

\* The latest execution is a transaction, or there is none.
LEMMA LatestExecutionIsPosition ==
  ASSUME Typed
  PROVE  LatestExecution \in 0..Len(txns)
<1> DEFINE X == {t \in DOMAIN txns : txns[t].mode # "prelaunch"}
<1>1. Len(txns) \in Nat /\ X \in SUBSET (1..Len(txns))
  BY Positions
<1> HIDE DEF X
<1>2. LatestExecution = IF X = {} THEN 0 ELSE CHOOSE t \in X : \A u \in X : u <= t
  BY DEF LatestExecution, X
<1>3. CASE X = {}
  BY <1>1, <1>2, <1>3
<1>4. CASE X # {}
  <2>1. \E t \in X : \A u \in X : u <= t
    BY <1>1, <1>4, LastPosition
  <2>2. LatestExecution \in X
    BY <1>2, <1>4, <2>1
  <2> QED BY <1>1, <2>2
<1> QED BY <1>3, <1>4

\* A step that only moves commands keeps the types.
LEMMA QuietTyped ==
  ASSUME Typed, UNCHANGED <<tree, head, txns, open, proj, drifts>>,
         caches' = caches \/ caches' \in Shown,
         pc' \in [Process -> Steps], plan' \in [Process -> Plan],
         reservation' \in Process \cup {NoProcess}, owner' \in Process \cup {NoProcess}
  PROVE  Typed'
BY DEF Typed

\* What is offered names transactions of the ledger.
LEMMA OffersAreBound ==
  ASSUME Typed, LedgerOK, NEW r \in Route, NEW o \in Offered(r)
  PROVE  /\ o.origin \in Nat /\ o.via \in Nat
         /\ o.origin <= Len(txns) /\ o.via <= Len(txns)
<1>1. /\ Len(txns) \in Nat /\ DOMAIN txns = 1..Len(txns)
      /\ proj.gate \in Nat /\ proj.gate <= Len(txns)
  BY Positions DEF Typed, Projection
<1>2. CASE r = "prelaunch"
  <2>1. o = [origin |-> 0, via |-> LatestExecution]
    BY <1>2 DEF Offered, OfferedPrelaunch
  <2> QED BY <1>1, <2>1, LatestExecutionIsPosition
<1>3. CASE r = "result"
  BY <1>1, <1>3 DEF Offered, OfferedResult
<1>4. CASE r = "repair"
  BY <1>1, <1>4 DEF Offered, OfferedRepair
<1>5. CASE r = "repair_recovery"
  <2>1. PICK t \in DOMAIN txns : o = [origin |-> txns[t].origin, via |-> t]
    BY <1>5 DEF Offered, OfferedRepairRecovery
  <2>2. txns[t].origin \in Nat /\ txns[t].origin < t
    BY Positions, RecordTypes DEF LedgerOK, EntryOK
  <2> QED BY <1>1, <2>1, <2>2
<1> QED BY <1>2, <1>3, <1>4, <1>5 DEF Route, Recovering

\* Invoke.
LEMMA InvokeKeeps ==
  ASSUME IInv, NEW p \in Process, NEW r \in Route, Invoke(p, r)
  PROVE  IInv'
<1>1. Typed /\ LedgerOK
  BY DEF IInv
<1>2. PICK o \in Offered(r) :
        plan' = [plan EXCEPT ![p] = [route |-> r, origin |-> o.origin, via |-> o.via,
                                     tree |-> NoPlan.tree, attempt |-> 0, caches |-> NoCaches]]
  BY DEF Invoke
<1> DEFINE e == [route |-> r, origin |-> o.origin, via |-> o.via,
                 tree |-> NoPlan.tree, attempt |-> 0, caches |-> NoCaches]
<1>3. /\ o.origin \in Nat /\ o.via \in Nat
      /\ o.origin <= Len(txns) /\ o.via <= Len(txns)
  BY <1>1, OffersAreBound
<1>4. e \in Plan /\ e.origin = o.origin /\ e.via = o.via /\ e.attempt = 0
  <2>1. NoPlan.tree \in Tree
    BY NoPlanIsPlan DEF Plan
  <2> QED BY <1>3, <2>1 DEF Plan, Shown, NoCaches
<1> HIDE DEF e
<1>5. /\ pc' \in [Process -> Steps] /\ plan' \in [Process -> Plan]
      /\ pc'[p] = "invoked" /\ plan'[p] = e /\ Only(p)
  <2>1. "invoked" \in Steps
    BY DEF Steps, PlanSteps
  <2>2. Goto(p, "invoked") /\ plan' = [plan EXCEPT ![p] = e]
    BY <1>2 DEF Invoke, e
  <2> QED BY <1>1, <1>4, <2>1, <2>2, Going
<1>6. /\ UNCHANGED <<tree, head, txns, open, proj, caches, drifts>> /\ reservation' = reservation
      /\ owner' \in Process \cup {NoProcess} /\ pc[p] = "idle"
  BY <1>1 DEF Invoke, Typed
<1>7. Typed' /\ ReservationsStand(p)
  <2>1. reservation' \in Process \cup {NoProcess}
    BY <1>1, <1>6 DEF Typed
  <2> QED BY <1>1, <1>5, <1>6, <2>1, QuietTyped DEF ReservationsStand
<1>8. CommandOK(p)' /\ pc'[p] \notin LateSteps
  BY <1>3, <1>4, <1>5, <1>6, AtRest
<1>9. ~Holding(p)'
  BY <1>5, <1>8 DEF Holding
<1> QED BY <1>5, <1>6, <1>7, <1>8, <1>9, QuietStep

\* A command that leaves without having changed anything.
LEMMA QuietLeaving ==
  ASSUME IInv, NEW p \in Process, Leave(p), caches' = caches \/ caches' \in Shown,
         UNCHANGED <<tree, head, txns, open, proj, drifts>>
  PROVE  IInv'
<1>1. Typed
  BY DEF IInv
<1>2. /\ pc' \in [Process -> Steps] /\ plan' \in [Process -> Plan]
      /\ pc'[p] = "idle" /\ plan'[p] = NoPlan /\ Only(p)
      /\ reservation' \in Process \cup {NoProcess} /\ owner' \in Process \cup {NoProcess}
      /\ ReservationsStand(p)
  BY <1>1, Leaving
<1>3. Typed'
  BY <1>1, <1>2, QuietTyped
<1>4. CommandOK(p)' /\ pc'[p] \notin LateSteps /\ ~Holding(p)'
  <2>1. Len(txns') \in Nat
    BY <1>3, Positions DEF Typed
  <2> QED BY <1>2, <2>1, AtHome
<1> QED BY <1>2, <1>3, <1>4, QuietStep

\* Inspect.
LEMMA InspectKeeps ==
  ASSUME IInv, NEW p \in Process, Inspect(p)
  PROVE  IInv'
<1>1. /\ Typed /\ pc[p] = "invoked"
      /\ UNCHANGED <<tree, head, txns, open, proj, caches, drifts>>
  BY DEF IInv, Inspect
<1>2. CASE Leave(p)
  BY <1>1, <1>2, QuietLeaving
<1>3. ASSUME plan' = [plan EXCEPT ![p] = Inspected(p)], reservation' = reservation,
             owner' = owner,
             NEW s \in {"reserved", "planned"}, Goto(p, s),
             s = "reserved" => plan[p].route = "prelaunch"
      PROVE  IInv'
  <2> DEFINE e == [plan[p] EXCEPT !.tree = tree]
  <2>1. /\ e \in Plan /\ e.origin = plan[p].origin /\ e.via = plan[p].via
        /\ e.attempt = plan[p].attempt /\ e.route = plan[p].route
    <3>1. plan[p] \in Plan /\ tree \in Tree
      BY <1>1 DEF Typed
    <3> QED BY <3>1 DEF Plan
  <2> HIDE DEF e
  <2>2. plan' = [plan EXCEPT ![p] = e] /\ s \in Steps
    BY <1>3 DEF Inspected, e, Steps, PlanSteps
  <2>3. /\ pc' \in [Process -> Steps] /\ plan' \in [Process -> Plan]
        /\ pc'[p] = s /\ plan'[p] = e /\ Only(p)
    BY <1>1, <1>3, <2>1, <2>2, Going
  <2>4. Typed' /\ ReservationsStand(p)
    <3>1. reservation' \in Process \cup {NoProcess} /\ owner' \in Process \cup {NoProcess}
      BY <1>1, <1>3 DEF Typed
    <3> QED BY <1>1, <1>3, <2>3, <3>1, QuietTyped DEF ReservationsStand
  <2>5. PlanOK(p)
    BY DEF IInv, CommandsOK, CommandOK
  <2>6. CommandOK(p)' /\ pc'[p] \notin LateSteps
    BY <1>1, <2>1, <2>3, <2>5, AtRest DEF PlanOK, PlanSteps
  <2>7. ~Holding(p)'
    BY <1>3, <2>1, <2>3, <2>6 DEF Holding
  <2> QED BY <1>1, <2>3, <2>4, <2>6, <2>7, QuietStep
<1>4. CASE Authentic(p, plan[p])
  <2>1. /\ plan' = [plan EXCEPT ![p] = Inspected(p)] /\ reservation' = reservation
        /\ owner' = owner
        /\ Goto(p, IF plan[p].route = "prelaunch" THEN "reserved" ELSE "planned")
    BY <1>4 DEF Inspect
  <2>2. CASE plan[p].route = "prelaunch"
    BY <1>3, <2>1, <2>2
  <2>3. CASE plan[p].route # "prelaunch"
    BY <1>3, <2>1, <2>3
  <2> QED BY <2>2, <2>3
<1> QED BY <1>2, <1>4 DEF Inspect

\* Reserve.
LEMMA ReserveKeeps ==
  ASSUME IInv, NEW p \in Process, Reserve(p)
  PROVE  IInv'
<1>1. /\ Typed /\ pc[p] = "planned"
      /\ UNCHANGED <<tree, head, txns, open, proj, caches, drifts>>
  BY DEF IInv, Reserve
<1>2. CASE Leave(p)
  BY <1>1, <1>2, QuietLeaving
<1>3. CASE reservation = NoProcess /\ reservation' = p /\ Goto(p, "reserved")
           /\ UNCHANGED <<owner, plan>>
  <2>1. /\ pc' \in [Process -> Steps] /\ plan' \in [Process -> Plan]
        /\ pc'[p] = "reserved" /\ plan'[p] = plan[p] /\ Only(p)
    <3>1. "reserved" \in Steps
      BY DEF Steps, PlanSteps
    <3> QED BY <1>1, <1>3, <3>1, GoingOn
  <2>2. Typed' /\ ReservationsStand(p)
    <3>1. reservation' \in Process \cup {NoProcess} /\ owner' \in Process \cup {NoProcess}
      BY <1>1, <1>3 DEF Typed
    <3>2. ReservationsStand(p)
      BY <1>3, RecoveryConstants DEF ReservationsStand
    <3> QED BY <1>1, <2>1, <3>1, <3>2, QuietTyped
  <2>3. PlanOK(p)
    BY DEF IInv, CommandsOK, CommandOK
  <2>4. CommandOK(p)' /\ pc'[p] \notin LateSteps
    BY <1>1, <2>1, <2>3, AtRest DEF PlanOK, PlanSteps
  <2> QED BY <1>1, <1>3, <2>1, <2>2, <2>4, QuietStep
<1> QED BY <1>2, <1>3 DEF Reserve

\* What an authenticated inspection says of a retained result: it waits
\* unrepaired at the gate.
LEMMA ResultIsRetained ==
  ASSUME IInv, NEW p \in Process, NEW o \in Nat, ResultAuthentic(p, o)
  PROVE  /\ o = proj.gate /\ o \in DOMAIN txns /\ open = 0 /\ Unrepaired(o)
         /\ tree = txns[o].end /\ tree.meta # "accepted"
<1>1. /\ o = proj.gate /\ o # 0 /\ proj.state = "human_decision_required"
      /\ txns[o].outcome = "structured_invalid" /\ tree = txns[o].end /\ open = 0
  BY DEF ResultAuthentic, OriginalTopology, Unowned
<1>2. o \in DOMAIN txns
  BY <1>1, Positions DEF IInv, Typed
<1>3. tree.meta # "accepted"
  BY <1>1, <1>2 DEF IInv, LedgerOK, EntryOK
<1>4. Unrepaired(o)
  BY <1>1 DEF IInv, RepairsOK, Unrepaired
<1> QED BY <1>1, <1>2, <1>3, <1>4

\* ... and of an exhausted repair: the tree is what its second session left.
LEMMA RepairIsExhausted ==
  ASSUME IInv, NEW p \in Process, NEW o \in Nat, NEW via \in Nat,
         RepairRecoveryAuthentic(p, o, via)
  PROVE  /\ o = proj.gate /\ via \in DOMAIN txns /\ open = 0 /\ tree.meta # "accepted"
         /\ tree.impl = txns[via].attempts[MaxAttempts].post.impl
<1>1. /\ o = proj.gate /\ via \in DOMAIN txns /\ open = 0 /\ txns[via].mode = "repair"
      /\ txns[via].outcome = "exhausted" /\ tree = txns[via].end
      /\ txns[via].attempts[2].post = Content(tree)
  BY DEF RepairRecoveryAuthentic, ExhaustedRepair, ChainAuthentic, Unowned, MaxAttempts
<1>2. tree.meta # "accepted"
  BY <1>1 DEF IInv, LedgerOK, EntryOK, Recovering
<1>3. txns[via].attempts[2].post.impl = tree.impl
  BY <1>1 DEF Content
<1> QED BY <1>1, <1>2, <1>3 DEF MaxAttempts

\* A verified plan.
LEMMA AuthenticIsBound ==
  ASSUME IInv, NEW p \in Process, plan[p].route \in Recovering, Authentic(p, plan[p]),
         tree = plan[p].tree, NEW s, s = plan[p]
  PROVE  /\ tree.meta # "accepted" /\ proj.gate = s.origin /\ open = 0
         /\ s.route \in {"result", "repair"} => Unrepaired(s.origin)
         /\ s.route = "result" => s.origin \in DOMAIN txns /\ s.tree = txns[s.origin].end
         /\ s.route = "repair_recovery" =>
              /\ s.via \in DOMAIN txns
              /\ s.tree.impl = txns[s.via].attempts[MaxAttempts].post.impl
<1>1. s \in Plan /\ s.origin \in Nat /\ s.via \in Nat /\ Authentic(p, s) /\ s.tree = tree
  BY DEF IInv, Typed, Plan
<1>2. CASE s.route = "result"
  <2>1. ResultAuthentic(p, s.origin)
    BY <1>1, <1>2 DEF Authentic
  <2> QED BY <1>1, <1>2, <2>1, ResultIsRetained
<1>3. CASE s.route = "repair"
  <2>1. ResultAuthentic(p, s.origin)
    BY <1>1, <1>3 DEF Authentic, RepairAuthentic
  <2> QED BY <1>1, <1>3, <2>1, ResultIsRetained
<1>4. CASE s.route = "repair_recovery"
  <2>1. RepairRecoveryAuthentic(p, s.origin, s.via)
    BY <1>1, <1>4 DEF Authentic
  <2> QED BY <1>1, <1>4, <2>1, RepairIsExhausted
<1> QED BY <1>2, <1>3, <1>4 DEF Recovering

\* Revalidate.
LEMMA RevalidateKeeps ==
  ASSUME IInv, NEW p \in Process, Revalidate(p)
  PROVE  IInv'
<1>1. /\ Typed /\ pc[p] = "reserved"
      /\ UNCHANGED <<tree, head, txns, open, proj, caches, drifts>>
  BY DEF IInv, Revalidate
<1>2. CASE Leave(p)
  BY <1>1, <1>2, QuietLeaving
<1>3. CASE Authentic(p, plan[p]) /\ tree = plan[p].tree /\ Goto(p, "verified")
           /\ UNCHANGED <<reservation, owner, plan>>
  <2>1. /\ pc' \in [Process -> Steps] /\ plan' \in [Process -> Plan]
        /\ pc'[p] = "verified" /\ plan'[p] = plan[p] /\ Only(p)
    <3>1. "verified" \in Steps
      BY DEF Steps, PlanSteps
    <3> QED BY <1>1, <1>3, <3>1, GoingOn
  <2>2. Typed' /\ ReservationsStand(p)
    <3>1. reservation' \in Process \cup {NoProcess} /\ owner' \in Process \cup {NoProcess}
      BY <1>1, <1>3 DEF Typed
    <3> QED BY <1>1, <1>3, <2>1, <3>1, QuietTyped DEF ReservationsStand
  <2>3. pc'[p] \notin LateSteps
    BY <2>1 DEF LateSteps, ActiveSteps, ApplySteps, HostSteps, RepairSteps, CommittedSteps,
                CacheSteps
  <2>4. Holding(p)' => reservation' = p
    BY <1>1, <1>3, <2>1, <2>3 DEF IInv, OneCommand, Holding
  <2>5. PlanOK(p)'
    <3>1. PlanOK(p) /\ pc[p] \in PlanSteps
      BY <1>1 DEF IInv, CommandsOK, CommandOK, PlanSteps
    <3> QED BY <1>1, <2>1, <3>1 DEF PlanOK, PlanSteps, HostSteps, RepairSteps, CommittedSteps
  <2>6. PlaceOK(p)' /\ OpenOK(p)'
    BY <2>1 DEF PlaceOK, OpenOK, ActiveSteps, ApplySteps, HostSteps, RepairSteps,
                CommittedSteps, CacheSteps
  <2>7. CASE plan[p].route \notin Recovering
    <3>1. BoundOK(p)' /\ TreeOK(p)'
      BY <2>1, <2>7 DEF BoundOK, TreeOK, HostSteps, CommittedSteps
    <3> QED BY <1>1, <2>1, <2>2, <2>3, <2>4, <2>5, <2>6, <3>1, QuietStep DEF CommandOK
  <2>8. CASE plan[p].route \in Recovering
    <3>1. PICK s : s = plan[p]
      OBVIOUS
    <3>2. /\ tree.meta # "accepted" /\ proj.gate = s.origin /\ open = 0
          /\ s.route \in {"result", "repair"} => Unrepaired(s.origin)
          /\ s.route = "result" => s.origin \in DOMAIN txns /\ s.tree = txns[s.origin].end
          /\ s.route = "repair_recovery" =>
               /\ s.via \in DOMAIN txns
               /\ s.tree.impl = txns[s.via].attempts[MaxAttempts].post.impl
      BY <1>3, <2>8, <3>1, AuthenticIsBound
    <3>3. open \notin DOMAIN txns
      BY <1>1, <3>2, Positions
    <3>4. plan'[p] = s /\ s.tree = tree
      BY <1>3, <2>1, <3>1
    <3>5. BoundOK(p)'
      BY <1>1, <2>1, <3>2, <3>3, <3>4 DEF BoundOK, Unrepaired
    <3>6. TreeOK(p)'
      BY <1>1, <2>1, <3>2, <3>4 DEF TreeOK, HostSteps, CommittedSteps
    <3> QED BY <1>1, <2>1, <2>2, <2>3, <2>4, <2>5, <2>6, <3>5, <3>6, QuietStep DEF CommandOK
  <2> QED BY <2>7, <2>8
<1> QED BY <1>2, <1>3 DEF Revalidate

\* Die.
LEMMA DieKeeps ==
  ASSUME IInv, NEW p \in Process, Die(p)
  PROVE  IInv'
<1>1. /\ Typed /\ pc[p] # "dead" /\ Goto(p, "dead") /\ plan' = plan
      /\ UNCHANGED <<tree, head, txns, open, proj, caches, drifts>>
      /\ UNCHANGED <<reservation, owner>>
  BY DEF IInv, Die
<1>2. /\ pc' \in [Process -> Steps] /\ plan' \in [Process -> Plan]
      /\ pc'[p] = "dead" /\ plan'[p] = plan[p] /\ Only(p)
  <2>1. "dead" \in Steps
    BY DEF Steps
  <2> QED BY <1>1, <2>1, GoingOn
<1>3. Typed' /\ ReservationsStand(p)
  <2>1. reservation' \in Process \cup {NoProcess} /\ owner' \in Process \cup {NoProcess}
    BY <1>1 DEF Typed
  <2> QED BY <1>1, <1>2, <2>1, QuietTyped DEF ReservationsStand
<1>4. PlanOK(p)
  BY DEF IInv, CommandsOK, CommandOK
<1>5. CommandOK(p)' /\ pc'[p] \notin LateSteps
  BY <1>1, <1>2, <1>4, AtRest DEF PlanOK, PlanSteps
<1>6. ~Holding(p)'
  BY <1>2, <1>5 DEF Holding
<1> QED BY <1>1, <1>2, <1>3, <1>5, <1>6, QuietStep

-----------------------------------------------------------------------------
(* Transactions begin.                                                     *)

\* An empty record of the tree as it is.
LEMMA NewRecord ==
  ASSUME Typed, NEW m \in {"execution"} \cup Route, NEW o \in Nat, NEW v \in Nat
  PROVE  LET r == Transaction(m, o, v) IN
         /\ r \in Record /\ r.mode = m /\ r.origin = o /\ r.via = v /\ r.outcome = "open"
         /\ r.start = tree /\ r.attempts = <<>>
<1>1. tree \in Tree /\ <<>> \in Seq(Attempt)
  BY DEF Typed
<1> QED BY <1>1 DEF Transaction, Record

\* A new transaction: nobody else is at work, and nobody else's verified
\* plan is about it.
LEMMA Beginning ==
  ASSUME IInv, NEW p \in Process, pc[p] \notin LateSteps, open = 0, head = Base,
         NEW m \in {"execution"} \cup Route, NEW o \in Nat, NEW v \in Nat,
         o <= Len(txns), v <= Len(txns),
         NEW r, r = Transaction(m, o, v), NEW n, n = Len(txns) + 1,
         txns' = Append(txns, r), open' = n,
         UNCHANGED <<tree, head, proj, caches, drifts>>,
         NEW s \in LateSteps, Goto(p, s), plan' = plan,
         reservation' \in Process \cup {NoProcess}, owner' \in Process \cup {NoProcess},
         ReservationsStand(p), Holding(p)' => reservation' = p,
         m = "repair" => Unrepaired(o), pc[p] # "dead"
  PROVE  /\ n \in Nat \ {0} /\ r \in Record /\ txns'[n] = r /\ r.mode = m /\ r.origin = o
         /\ r.via = v /\ r.start = tree /\ r.attempts = <<>> /\ Len(txns') = n
         /\ DOMAIN txns = 1..(n - 1) /\ DOMAIN txns' = 1..n
         /\ \A t \in DOMAIN txns : t < n /\ txns'[t] = txns[t]
         /\ pc'[p] = s /\ plan'[p] = plan[p]
         /\ CommandOK(p)' => IInv'
<1>1. Typed /\ LedgerOK /\ open \notin DOMAIN txns
  BY Positions DEF IInv
<1>2. /\ r \in Record /\ r.mode = m /\ r.origin = o /\ r.via = v /\ r.outcome = "open"
      /\ r.start = tree /\ r.attempts = <<>>
  BY <1>1, NewRecord
<1>3. n \in Nat \ {0} /\ DOMAIN txns = 1..(n - 1) /\ txns'[n] = r
  BY <1>1, <1>2, Positions DEF Typed
<1>4. EntryOK(n)'
  <2>1. o < n /\ v < n /\ Len(r.attempts) = 0 /\ MaxAttempts = 2
    BY <1>1, <1>2, Positions DEF MaxAttempts
  <2> QED BY <1>2, <1>3, <2>1 DEF EntryOK
<1>5. /\ LedgerOK' /\ txns' \in Seq(Record) /\ Len(txns') = n /\ DOMAIN txns' = 1..n
      /\ \A t \in DOMAIN txns : t < n /\ txns'[t] = txns[t]
  <2>1. n \in Nat
    BY <1>3
  <2> QED BY <1>1, <1>2, <1>4, <2>1, LedgerExtended
<1>6. /\ pc' \in [Process -> Steps] /\ plan' \in [Process -> Plan]
      /\ pc'[p] = s /\ plan'[p] = plan[p] /\ Only(p)
  <2>1. s \in Steps
    BY DEF Steps
  <2> QED BY <1>1, <2>1, GoingOn
<1>7. Typed'
  <2>1. /\ proj.gate \in Nat /\ proj.gate <= Len(txns) /\ Len(txns) \in Nat
        /\ caches \in Shown
    BY <1>1, Positions DEF Typed, Projection
  <2>3. caches' \in Shown /\ proj'.gate <= n
    BY <2>1, <1>3
  <2>4. /\ tree \in Tree /\ head \in BranchHead /\ proj \in Projection /\ drifts \in Nat
    BY <1>1 DEF Typed
  <2> QED BY <1>5, <1>6, <2>3, <2>4 DEF Typed
<1>8. RepairsOK'
  <2>1. txns'[n].mode = "repair" =>
          \A t \in DOMAIN txns : txns[t].mode = "repair" => txns[t].origin # txns'[n].origin
    BY <1>1, <1>2, <1>3 DEF Unrepaired
  <2>2. n \in Nat
    BY <1>3
  <2> QED BY <1>1, <1>3, <1>5, <2>1, <2>2, RepairsExtended DEF IInv
<1>9. GateOK'
  <2>1. \A t \in DOMAIN txns' : t = n \/ t \in DOMAIN txns
    BY <1>3, <1>5
  <2> QED BY <1>2, <1>3, <1>5, <2>1 DEF IInv, GateOK
<1>10. ASSUME NEW q \in Process \ {p}
       PROVE  CommandOK(q)' /\ pc'[q] \notin LateSteps /\ (Holding(q)' => reservation' = q)
              /\ pc'[q] = pc[q]
  <2>1. pc'[q] = pc[q] /\ plan'[q] = plan[q] /\ q \in Process
    BY <1>6 DEF Only
  <2>2. CommandOK(q)
    BY <2>1 DEF IInv, CommandsOK
  <2>3. pc[q] \notin LateSteps
    BY <2>2 DEF CommandOK, PlaceOK, LateSteps, Base
  <2>4. plan[q].origin \in Nat /\ plan[q].via \in Nat
    BY <1>1 DEF Typed, Plan
  <2>5. PlanOK(q)'
    <3>1. plan[q].origin <= Len(txns) /\ plan[q].via <= Len(txns) /\ Len(txns) < n
      BY <1>1, <2>2, Positions DEF CommandOK, PlanOK
    <3>2. plan[q].origin <= n /\ plan[q].via <= n
      BY <1>1, <1>3, <2>4, <3>1, Positions
    <3> QED BY <1>5, <2>1, <2>2, <3>2 DEF CommandOK, PlanOK
  <2>6. PlaceOK(q)' /\ OpenOK(q)'
    BY <2>1, <2>3 DEF PlaceOK, OpenOK, LateSteps, ActiveSteps, ApplySteps, HostSteps,
                      RepairSteps, CommittedSteps, CacheSteps
  <2>7. BoundOK(q)'
    <3>1. \A t \in DOMAIN txns : t # open /\ t # n
      BY <1>1, <1>3
    <3>2. \A t \in DOMAIN txns' : t = n \/ t \in DOMAIN txns
      BY <1>3, <1>5
    <3>3. \A t \in DOMAIN txns : t \in DOMAIN txns'
      BY <1>3, <1>5
    <3>4. BoundOK(q)
      BY <2>2 DEF CommandOK
    <3> QED BY <1>5, <2>1, <3>1, <3>2, <3>3, <3>4 DEF BoundOK, Unrepaired
  <2>8. TreeOK(q)'
    BY <2>1, <2>2, <2>3 DEF CommandOK, TreeOK, LateSteps, ActiveSteps, ApplySteps, HostSteps,
                      RepairSteps, CommittedSteps, CacheSteps
  <2>9. Holding(q)' => reservation' = q
    <3>1. Holding(q)' = Holding(q)
      BY <2>1 DEF Holding
    <3>2. Holding(q) => reservation = q
      BY <2>1 DEF IInv, OneCommand
    <3> QED BY <3>1, <3>2 DEF ReservationsStand
  <2> QED BY <2>1, <2>3, <2>5, <2>6, <2>7, <2>8, <2>9 DEF CommandOK
<1>11. Alone' /\ OneCommand'
  <2>1. Alone
    BY DEF IInv
  <2>2. Alone'
    BY <1>10, <2>1 DEF Alone
  <2>3. OneCommand'
    BY <1>10 DEF OneCommand
  <2> QED BY <2>2, <2>3
<1>13. CommandOK(p)' => IInv'
  <2>1. CommandOK(p)' => CommandsOK'
    BY <1>10 DEF CommandsOK
  <2> QED BY <1>5, <1>7, <1>8, <1>9, <1>11, <2>1 DEF IInv
<1> QED BY <1>2, <1>3, <1>5, <1>6, <1>13

\* BeginExecution.
LEMMA BeginExecutionKeeps ==
  ASSUME IInv, NEW p \in Process, BeginExecution(p)
  PROVE  IInv'
<1>1. /\ pc[p] = "idle" /\ reservation = NoProcess /\ open = 0 /\ head = Base
      /\ UNCHANGED <<tree, head, proj, caches, drifts>>
      /\ Goto(p, "executing") /\ plan' = plan /\ reservation' = p /\ owner' = owner
      /\ txns' = Append(txns, Transaction("execution", 0, 0)) /\ open' = Len(txns) + 1
  BY DEF BeginExecution
<1>2. Typed /\ Len(txns) \in Nat
  BY Positions DEF IInv
<1>3. PICK n, r : n = Len(txns) + 1 /\ r = Transaction("execution", 0, 0)
  OBVIOUS
<1>4. /\ "executing" \in LateSteps /\ pc[p] \notin LateSteps /\ pc[p] # "dead"
      /\ 0 <= Len(txns)
  BY <1>1, <1>2 DEF LateSteps, ActiveSteps, ApplySteps, HostSteps, RepairSteps,
                    CommittedSteps, CacheSteps
<1>5. /\ reservation' \in Process \cup {NoProcess} /\ owner' \in Process \cup {NoProcess}
      /\ ReservationsStand(p)
  BY <1>1, <1>2, RecoveryConstants DEF Typed, ReservationsStand
<1>6. /\ n \in Nat \ {0} /\ txns'[n] = r /\ r.mode = "execution"
      /\ Len(txns') = n /\ DOMAIN txns = 1..(n - 1)
      /\ pc'[p] = "executing" /\ plan'[p] = plan[p]
      /\ CommandOK(p)' => IInv'
  <2>1. txns' = Append(txns, r) /\ open' = n
    BY <1>1, <1>3
  <2> QED BY <1>1, <1>2, <1>3, <1>4, <1>5, <2>1, Beginning
<1>7. PlanOK(p)'
  <2>1. PlanOK(p) /\ plan[p].origin \in Nat /\ plan[p].via \in Nat
    BY <1>2 DEF IInv, CommandsOK, CommandOK, Typed, Plan
  <2>2. Len(txns) < n
    BY <1>2, <1>3
  <2> QED BY <1>2, <1>6, <2>1, <2>2 DEF PlanOK, PlanSteps, HostSteps, RepairSteps, CommittedSteps
<1>8. PlaceOK(p)'
  BY <1>1, <1>3, <1>6 DEF PlaceOK, CommittedSteps, CacheSteps
<1>9. OpenOK(p)'
  BY <1>1, <1>3, <1>6 DEF OpenOK, ApplySteps, HostSteps, RepairSteps, CommittedSteps
<1>10. BoundOK(p)' /\ TreeOK(p)'
  BY <1>6 DEF BoundOK, TreeOK, ApplySteps, HostSteps, RepairSteps, CommittedSteps
<1> QED BY <1>6, <1>7, <1>8, <1>9, <1>10 DEF CommandOK

\* BeginRecovery.
LEMMA BeginRecoveryKeeps ==
  ASSUME IInv, NEW p \in Process, BeginRecovery(p)
  PROVE  IInv'
<1>1. Typed /\ Len(txns) \in Nat /\ pc[p] = "verified"
  BY Positions DEF IInv, BeginRecovery
<1>2. CASE Leave(p) /\ UNCHANGED <<txns, open>>
  BY <1>1, <1>2, QuietLeaving DEF BeginRecovery
<1>3. ASSUME MayBegin(p), Begin(p, plan[p].route), UNCHANGED <<reservation, owner, plan>>,
             UNCHANGED <<tree, head, proj, caches, drifts>>,
             NEW s \in {"prelaunch", "session", "host"}, Goto(p, s),
             s = "prelaunch" => plan[p].route = "prelaunch",
             s = "session" => plan[p].route = "repair",
             s = "host" => plan[p].route \in {"result", "repair_recovery"}
      PROVE  IInv'
  <2>1. open = 0 /\ head = Base
    BY <1>3 DEF MayBegin
  <2>2. PICK n, r, e : /\ n = Len(txns) + 1 /\ e = plan[p]
                       /\ r = Transaction(e.route, e.origin, e.via)
    OBVIOUS
  <2>3. /\ e \in Plan /\ e.route \in Route /\ e.origin \in Nat /\ e.via \in Nat
        /\ e.origin <= Len(txns) /\ e.via <= Len(txns) /\ e.attempt = 0
    <3>1. PlanOK(p) /\ pc[p] \in PlanSteps
      BY <1>1 DEF IInv, CommandsOK, CommandOK, PlanSteps
    <3> QED BY <1>1, <2>2, <3>1 DEF PlanOK, Typed, Plan
  <2>4. txns' = Append(txns, r) /\ open' = n
    BY <1>3, <2>2 DEF Begin
  <2>5. /\ s \in LateSteps /\ pc[p] \notin LateSteps /\ pc[p] # "dead"
    BY <1>1 DEF LateSteps, ActiveSteps, ApplySteps, HostSteps, RepairSteps, CommittedSteps,
                CacheSteps
  <2>6. /\ reservation' \in Process \cup {NoProcess} /\ owner' \in Process \cup {NoProcess}
        /\ ReservationsStand(p)
    BY <1>1, <1>3 DEF Typed, ReservationsStand
  <2>7. BoundOK(p) /\ TreeOK(p) /\ (Holding(p) => reservation = p)
    BY DEF IInv, CommandsOK, CommandOK, OneCommand
  <2>8. pc'[p] = s
    BY <1>1, <1>3 DEF Goto, Typed
  <2>9. Holding(p)' => reservation' = p
    BY <1>1, <1>3, <2>2, <2>7, <2>8 DEF Holding
  <2>10. e.route = "repair" => Unrepaired(e.origin)
    BY <1>1, <2>2, <2>7 DEF BoundOK, Recovering, Unrepaired
  <2>11. /\ n \in Nat \ {0} /\ txns'[n] = r /\ r.mode = e.route /\ r.origin = e.origin
         /\ r.via = e.via /\ r.start = tree /\ r.attempts = <<>> /\ Len(txns') = n
         /\ DOMAIN txns = 1..(n - 1) /\ DOMAIN txns' = 1..n
         /\ \A t \in DOMAIN txns : t < n /\ txns'[t] = txns[t]
         /\ pc'[p] = s /\ plan'[p] = plan[p]
         /\ CommandOK(p)' => IInv'
    <3>1. e.route \in {"execution"} \cup Route /\ Goto(p, s) /\ plan' = plan
      BY <1>3, <2>3
    <3> QED BY <1>3, <2>1, <2>2, <2>3, <2>4, <2>5, <2>6, <2>9, <2>10, <3>1, Beginning
  <2>12. plan'[p] = e
    BY <2>2, <2>11
  <2>13. PlanOK(p)'
    <3>1. e.origin <= n /\ e.via <= n
      BY <1>1, <2>2, <2>3
    <3> QED BY <1>3, <2>2, <2>3, <2>8, <2>11, <2>12, <3>1
            DEF PlanOK, HostSteps, RepairSteps, CommittedSteps
  <2>14. PlaceOK(p)'
    BY <1>3, <2>1, <2>4, <2>8, <2>11 DEF PlaceOK, CommittedSteps, CacheSteps
  <2>15. OpenOK(p)'
    <3>1. Len(r.attempts) = 0 /\ 0 < MaxAttempts
      BY <2>11 DEF MaxAttempts
    <3>2. /\ txns'[open'].mode = e.route /\ txns'[open'].origin = e.origin
          /\ txns'[open'].via = e.via /\ Len(txns'[open'].attempts) = 0
      BY <2>4, <2>11, <3>1
    <3>3. s = "session" => e.attempt = 0
      BY <2>3
    <3> QED BY <1>3, <2>2, <2>8, <2>12, <3>1, <3>2, <3>3 DEF OpenOK
  <2>16. BoundOK(p)'
    <3>1. \A t \in DOMAIN txns : t # open /\ t # n
      BY <2>1, <2>11
    <3>2. \A t \in DOMAIN txns' : t = n \/ t \in DOMAIN txns
      BY <2>11
    <3>3. \A t \in DOMAIN txns : t \in DOMAIN txns'
      BY <2>11
    <3>4. /\ e.route \in Recovering =>
               /\ e.tree.meta # "accepted" /\ proj.gate = e.origin
          /\ e.route = "result" =>
               /\ \A t \in DOMAIN txns : txns[t].mode = "repair" => txns[t].origin # e.origin
               /\ e.origin \in DOMAIN txns /\ e.tree = txns[e.origin].end
          /\ e.route = "repair_recovery" =>
               /\ e.via \in DOMAIN txns
               /\ e.tree.impl = txns[e.via].attempts[MaxAttempts].post.impl
      <4>1. BoundOK(p) /\ plan[p] = e /\ pc[p] \in {"verified"} \cup ApplySteps
            /\ pc[p] # "complete"
        BY <1>1, <2>2, <2>7
      <4>2. e.route \in {"result", "repair_recovery"} => e.route \in Recovering
        BY DEF Recovering
      <4> QED BY <3>1, <4>1, <4>2 DEF BoundOK, Unrepaired
    <3> QED BY <1>3, <2>4, <2>8, <2>11, <2>12, <3>1, <3>2, <3>3, <3>4
            DEF BoundOK, Unrepaired
  <2>17. TreeOK(p)'
    <3>1. e.route \in Recovering =>
            tree.meta # "accepted" /\ (drifts = 0 => tree = e.tree)
      BY <1>1, <2>2, <2>7 DEF TreeOK
    <3> QED BY <1>3, <2>4, <2>8, <2>11, <2>12, <3>1
            DEF TreeOK, HostSteps, CommittedSteps, Recovering
  <2> QED BY <2>11, <2>13, <2>14, <2>15, <2>16, <2>17 DEF CommandOK
<1>4. CASE MayBegin(p)
  <2> DEFINE s == CASE plan[p].route = "prelaunch" -> "prelaunch"
                    [] plan[p].route = "repair" -> "session"
                    [] OTHER -> "host"
  <2>1. /\ Begin(p, plan[p].route) /\ UNCHANGED <<reservation, owner, plan>> /\ Goto(p, s)
        /\ UNCHANGED <<tree, head, proj, caches, drifts>>
    BY <1>4 DEF BeginRecovery
  <2>2. plan[p].route \in Route
    BY <1>1 DEF Typed, Plan
  <2>3. /\ s \in {"prelaunch", "session", "host"}
        /\ s = "prelaunch" => plan[p].route = "prelaunch"
        /\ s = "session" => plan[p].route = "repair"
        /\ s = "host" => plan[p].route \in {"result", "repair_recovery"}
    BY <2>2 DEF Route, Recovering
  <2> HIDE DEF s
  <2> QED BY <1>3, <1>4, <2>1, <2>3
<1> QED BY <1>2, <1>4 DEF BeginRecovery

-----------------------------------------------------------------------------
(* Transactions end.                                                       *)

\* End rewrites the record of the open transaction.
LEMMA EndRewrites ==
  ASSUME Typed, NEW n \in DOMAIN txns, n = open, NEW outcome \in Outcome, NEW t \in Tree,
         NEW state, NEW gate, NEW accepted, End(outcome, t, state, gate, accepted)
  PROVE  \E e \in Record :
           /\ txns' = [txns EXCEPT ![n] = e] /\ open' = 0
           /\ e.outcome = outcome /\ e.end = t
           /\ e.mode = txns[n].mode /\ e.origin = txns[n].origin /\ e.via = txns[n].via
           /\ e.start = txns[n].start /\ e.attempts = txns[n].attempts
<1>1. PICK r \in Record : r = txns[n]
  BY Positions
<1> DEFINE e == [r EXCEPT !.outcome = outcome, !.end = t]
<1>2. /\ e \in Record /\ e.outcome = outcome /\ e.end = t
      /\ e.mode = r.mode /\ e.origin = r.origin /\ e.via = r.via
      /\ e.start = r.start /\ e.attempts = r.attempts
  BY DEF Record
<1>3. txns' = [txns EXCEPT ![n] = e] /\ open' = 0
  BY <1>1 DEF End, Typed
<1> QED BY <1>1, <1>2, <1>3

\* A transaction that ends without acceptance ends in order: what a
\* recovery that wrote no commit left has no acceptance metadata.
LEMMA EndedInOrder ==
  ASSUME Typed, LedgerOK, NEW n \in DOMAIN txns, n = open, NEW e \in Record,
         txns' = [txns EXCEPT ![n] = e], open' = 0,
         e.mode = txns[n].mode, e.origin = txns[n].origin, e.via = txns[n].via,
         e.start = txns[n].start, Len(e.attempts) <= MaxAttempts,
         e.outcome \notin {"open", "accepted"},
         e.outcome = "structured_invalid" => e.end.meta # "accepted",
         e.mode \in Recovering /\ e.outcome \notin {"commit_unclean", "complete_failed"} =>
           /\ e.end.meta # "accepted"
           /\ e.mode # "repair" /\ drifts' = 0 => e.end = e.start
  PROVE  EntryOK(n)'
<1>1. EntryOK(n) /\ n # 0 /\ txns'[n] = e
  BY Positions DEF LedgerOK, Typed
<1> QED BY <1>1 DEF EntryOK

\* What ends by the command at work under the reservation.
LEMMA Closing ==
  ASSUME IInv, NEW p \in Process, pc[p] \in ActiveSteps \ {"prelaunch"}, Leave(p),
         NEW n \in DOMAIN txns, n = open, NEW e \in Record,
         txns' = [txns EXCEPT ![n] = e], open' = 0,
         e.mode = txns[n].mode, e.origin = txns[n].origin, e.via = txns[n].via,
         e.start = txns[n].start, EntryOK(n)',
         drifts' \in Nat, drifts' = 0 => drifts = 0, tree' \in Tree, caches' = caches,
         head' \in BranchHead, head'.commit = 0 => head' = Base,
         head.commit = 1 => head'.commit = 1,
         proj' \in Projection, proj'.gate <= Len(txns),
         proj'.state = "human_decision_required" /\ proj'.gate # 0 =>
           \A t \in DOMAIN txns : txns[t].mode = "repair" => txns[t].origin # proj'.gate,
         e.outcome = "structured_invalid" => proj'.gate # 0,
         proj.gate # 0 => proj'.gate # 0 \/ head.commit = 1
  PROVE  IInv'
<1>1. Typed /\ LedgerOK
  BY DEF IInv
<1>2. LedgerOK' /\ Rewritten /\ txns' \in Seq(Record) /\ txns'[n] = e
  <2>1. open' \in {0, open}
    OBVIOUS
  <2> QED BY <1>1, <2>1, LedgerRewritten
<1>3. /\ pc' \in [Process -> Steps] /\ plan' \in [Process -> Plan]
      /\ pc'[p] = "idle" /\ plan'[p] = NoPlan /\ Only(p)
      /\ reservation' \in Process \cup {NoProcess} /\ owner' \in Process \cup {NoProcess}
      /\ ReservationsStand(p)
  BY <1>1, Leaving
<1>4. Typed'
  <2>1. caches' \in Shown
    BY <1>1, <1>2 DEF Typed, Rewritten
  <2>2. proj'.gate <= Len(txns')
    BY <1>2 DEF Rewritten
  <2> QED BY <1>2, <1>3, <2>1, <2>2 DEF Typed
<1>5. RepairsOK'
  BY <1>2, RepairsStand DEF IInv
<1>6. GateOK'
  <2>1. ASSUME NEW t \in DOMAIN txns, txns'[t].outcome = "structured_invalid"
        PROVE  proj'.gate # 0 \/ head'.commit = 1
    <3>1. CASE t = n
      BY <1>2, <2>1, <3>1
    <3>2. CASE t # n
      <4>1. txns[t].outcome = "structured_invalid"
        BY <1>2, <2>1, <3>2 DEF Rewritten
      <4>2. proj.gate # 0 \/ head.commit = 1
        BY <4>1 DEF IInv, GateOK
      <4> QED BY <4>2
    <3> QED BY <3>1, <3>2
  <2> QED BY <1>2, <2>1 DEF GateOK, Rewritten
<1>8. Alone' /\ OneCommand' /\ CommandsOK'
  <2>1. CommandOK(p)' /\ pc'[p] \notin LateSteps /\ ~Holding(p)' /\ Len(txns) <= Len(txns')
    <3>1. Len(txns') \in Nat /\ Len(txns') = Len(txns)
      BY <1>1, <1>2, Positions DEF Rewritten
    <3>2. CommandOK(p)' /\ pc'[p] \notin LateSteps /\ ~Holding(p)'
      BY <1>3, <3>1, AtHome
    <3> QED BY <3>1, <3>2
  <2>2. pc[p] \in LateSteps \ {"prelaunch"}
    BY DEF LateSteps
  <2>3. pc'[p] \in (LateSteps \ {"prelaunch"}) \cup {"idle", "dead"}
    BY <1>3
  <2> QED BY <1>3, <1>4, <2>1, <2>2, <2>3, HolderStep
<1> QED BY <1>2, <1>4, <1>5, <1>6, <1>8 DEF IInv

\* What the command at work has open.
LEMMA AtWork ==
  ASSUME IInv, NEW p \in Process, pc[p] \in ActiveSteps
  PROVE  /\ Typed /\ open # 0 /\ open \in DOMAIN txns /\ open = Len(txns)
         /\ PlanOK(p) /\ OpenOK(p) /\ BoundOK(p) /\ TreeOK(p) /\ PlaceOK(p)
         /\ plan[p] \in Plan /\ LedgerOK
<1>1. open # 0
  BY DEF IInv, CommandsOK, CommandOK, PlaceOK
<1> QED BY <1>1, Positions DEF IInv, CommandsOK, CommandOK, Typed

\* The except clause: whatever outcome, whatever tree it leaves.
LEMMA BlockKeeps ==
  ASSUME IInv, NEW p \in Process, pc[p] \in ApplySteps,
         NEW outcome \in FailedOutcome \cup {"commit_unclean", "complete_failed"},
         NEW t \in Tree, Block(p, outcome, t), caches' = caches,
         drifts' \in Nat, drifts' = 0 => drifts = 0,
         head' \in BranchHead, head'.commit = 0 => head' = Base,
         head.commit = 1 => head'.commit = 1,
         outcome \notin {"commit_unclean", "complete_failed"} =>
           /\ t.meta # "accepted"
           /\ plan[p].route # "repair" /\ drifts' = 0 => t = txns[open].start
  PROVE  IInv'
<1>1. /\ Typed /\ open # 0 /\ open \in DOMAIN txns /\ LedgerOK
      /\ PlanOK(p) /\ OpenOK(p) /\ BoundOK(p) /\ plan[p] \in Plan
      /\ pc[p] \in ActiveSteps \ {"prelaunch"}
  BY AtWork DEF ActiveSteps, ApplySteps, HostSteps, RepairSteps, CommittedSteps
<1>2. PICK n \in DOMAIN txns, s \in Plan : n = open /\ s = plan[p]
  BY <1>1
<1>3. outcome \in Outcome /\ outcome \notin {"open", "accepted", "structured_invalid"}
  BY DEF Outcome, FailedOutcome
<1>4. /\ End(outcome, t, FailureState(s.route), proj.gate, proj.accepted)
      /\ tree' = t /\ Leave(p)
  BY <1>2 DEF Block
<1>5. PICK e \in Record :
           /\ txns' = [txns EXCEPT ![n] = e] /\ open' = 0
           /\ e.outcome = outcome /\ e.end = t
           /\ e.mode = txns[n].mode /\ e.origin = txns[n].origin /\ e.via = txns[n].via
           /\ e.start = txns[n].start /\ e.attempts = txns[n].attempts
  BY <1>1, <1>2, <1>3, <1>4, EndRewrites
<1>6. s.route \in Recovering /\ txns[n].mode = s.route /\ txns[n].origin = s.origin
  BY <1>1, <1>2 DEF PlanOK, OpenOK, ApplySteps, Recovering
<1>7. EntryOK(n)'
  <2>1. Len(e.attempts) <= MaxAttempts
    BY <1>1, <1>5 DEF LedgerOK, EntryOK
  <2>2. e.outcome \notin {"commit_unclean", "complete_failed"} =>
          /\ e.end.meta # "accepted"
          /\ e.mode # "repair" /\ drifts' = 0 => e.end = e.start
    BY <1>2, <1>5, <1>6
  <2> QED BY <1>1, <1>2, <1>3, <1>5, <2>1, <2>2, EndedInOrder
<1>8. proj' = [state |-> FailureState(s.route), gate |-> proj.gate, accepted |-> proj.accepted]
  BY <1>4 DEF End
<1>9. /\ proj' \in Projection /\ proj'.gate = proj.gate /\ proj'.gate <= Len(txns)
      /\ proj'.state = FailureState(s.route)
  BY <1>1, <1>8 DEF Typed, Projection, FailureState
<1>10. proj'.state = "human_decision_required" /\ proj'.gate # 0 =>
         \A u \in DOMAIN txns : txns[u].mode = "repair" => txns[u].origin # proj'.gate
  <2>1. SUFFICES ASSUME s.route = "result", proj.gate # 0,
                        NEW u \in DOMAIN txns, txns[u].mode = "repair"
                 PROVE  txns[u].origin # proj.gate
    BY <1>9 DEF FailureState
  <2>2. proj.gate = s.origin /\ Unrepaired(s.origin)
    <3>1. BoundOK(p) /\ plan[p] = s /\ s.route \in Recovering
      BY <1>1, <1>2, <1>6
    <3> QED BY <2>1, <3>1 DEF BoundOK, Unrepaired
  <2>3. u # open
    BY <1>2, <1>6, <2>1
  <2> QED BY <2>1, <2>2, <2>3 DEF Unrepaired
<1>11. tree' \in Tree
  BY <1>4
<1> QED BY <1>1, <1>2, <1>3, <1>4, <1>5, <1>7, <1>9, <1>10, <1>11, Closing

\* The ends of a feature execution.
LEMMA EndExecutionKeeps ==
  ASSUME IInv, NEW p \in Process,
         NEW outcome \in {"context_failed", "isolation_failed", "structured_invalid", "decision"},
         NEW t \in Tree, NEW state, NEW gate \in {proj.gate, open},
         state \in {"feature_preparing", "validation_failed"} \/
           (state = "human_decision_required" /\ gate = open),
         outcome = "structured_invalid" => t.meta # "accepted" /\ gate = open,
         EndExecution(p, outcome, t, state, gate)
  PROVE  IInv'
<1>1. /\ pc[p] = "executing" /\ tree' = t /\ End(outcome, t, state, gate, 0) /\ Leave(p)
      /\ UNCHANGED <<head, caches, drifts>>
  BY DEF EndExecution
<1>2. pc[p] \in ActiveSteps \ {"prelaunch"} /\ pc[p] \in ActiveSteps
  BY <1>1 DEF ActiveSteps
<1>3. /\ Typed /\ open # 0 /\ open \in DOMAIN txns /\ open = Len(txns) /\ LedgerOK
      /\ OpenOK(p)
  BY <1>2, AtWork
<1>4. PICK n \in DOMAIN txns : n = open
  BY <1>3
<1>5. outcome \in Outcome /\ outcome \notin {"open", "accepted"}
  BY DEF Outcome, FailedOutcome
<1>6. PICK e \in Record :
           /\ txns' = [txns EXCEPT ![n] = e] /\ open' = 0
           /\ e.outcome = outcome /\ e.end = t
           /\ e.mode = txns[n].mode /\ e.origin = txns[n].origin /\ e.via = txns[n].via
           /\ e.start = txns[n].start /\ e.attempts = txns[n].attempts
  BY <1>1, <1>3, <1>4, <1>5, EndRewrites
<1>7. txns[n].mode = "execution"
  BY <1>1, <1>3, <1>4 DEF OpenOK
<1>8. EntryOK(n)'
  <2>1. Len(e.attempts) <= MaxAttempts
    BY <1>3, <1>6 DEF LedgerOK, EntryOK
  <2>2. e.mode \notin Recovering
    BY <1>6, <1>7 DEF Recovering
  <2> QED BY <1>3, <1>4, <1>5, <1>6, <2>1, <2>2, EndedInOrder
<1>9. /\ head \in BranchHead /\ drifts \in Nat
      /\ head.commit = 0 => head = Base
      /\ proj \in Projection /\ proj.gate <= Len(txns)
  BY DEF IInv, Typed, Alone
<1>10. /\ open \in Nat /\ open <= Len(txns) /\ proj.gate \in Nat
  BY <1>3, <1>9, Positions DEF Projection
<1>11. proj' = [state |-> state, gate |-> gate, accepted |-> 0]
  BY <1>1 DEF End
<1>12. proj' \in Projection /\ proj'.gate = gate /\ proj'.state = state /\ gate <= Len(txns)
  BY <1>9, <1>10, <1>11 DEF Projection
<1>13. proj'.state = "human_decision_required" /\ proj'.gate # 0 =>
         \A u \in DOMAIN txns : txns[u].mode = "repair" => txns[u].origin # proj'.gate
  <2>1. SUFFICES ASSUME gate = open, NEW u \in DOMAIN txns
                 PROVE  txns[u].origin # gate
    BY <1>12
  <2>2. txns[u].origin \in Nat /\ txns[u].origin < u /\ u <= Len(txns) /\ u \in Nat
    BY <1>3, Positions, RecordTypes DEF LedgerOK, EntryOK
  <2> QED BY <1>3, <1>10, <2>1, <2>2
<1>14. /\ e.outcome = "structured_invalid" => proj'.gate # 0
       /\ proj.gate # 0 => proj'.gate # 0
  BY <1>3, <1>6, <1>12
<1>15. /\ tree' \in Tree /\ drifts' \in Nat /\ drifts' = drifts /\ caches' = caches
       /\ head' \in BranchHead
       /\ head'.commit = 0 => head' = Base
  BY <1>1, <1>9
<1>16. /\ head.commit = 1 => head'.commit = 1
       /\ e.outcome = "structured_invalid" => proj'.gate # 0
       /\ proj.gate # 0 => proj'.gate # 0 \/ head.commit = 1
       /\ proj'.gate <= Len(txns)
  BY <1>1, <1>12, <1>14
<1> QED BY <1>1, <1>2, <1>4, <1>6, <1>8, <1>12, <1>13, <1>15, <1>16, Closing

\* FailBeforeLaunch, ResultRetained, DecisionRequired.
LEMMA ExecutionEndsKeep ==
  ASSUME IInv, NEW p \in Process, FailBeforeLaunch(p) \/ ResultRetained(p) \/ DecisionRequired(p)
  PROVE  IInv'
<1>1. tree \in Tree
  BY DEF IInv, Typed
<1>2. CASE FailBeforeLaunch(p)
  BY <1>1, <1>2, EndExecutionKeeps DEF FailBeforeLaunch
<1>3. CASE ResultRetained(p)
  <2>1. PICK m \in {"plain", "session"} :
          EndExecution(p, "structured_invalid", [impl |-> 1, meta |-> m, extra |-> "none"],
                       "human_decision_required", open)
    BY <1>3 DEF ResultRetained
  <2>2. PICK t : t = [impl |-> 1, meta |-> m, extra |-> "none"]
    OBVIOUS
  <2>3. t \in Tree /\ t.meta # "accepted"
    <3>1. 1 \in Version
      BY RecoveryConstants DEF Version
    <3> QED BY <2>2, <3>1 DEF Tree
  <2>4. EndExecution(p, "structured_invalid", t, "human_decision_required", open)
    BY <2>1, <2>2
  <2> QED BY <2>3, <2>4, EndExecutionKeeps
<1>4. CASE DecisionRequired(p)
  BY <1>1, <1>4, EndExecutionKeeps DEF DecisionRequired
<1> QED BY <1>2, <1>3, <1>4

\* What a block changes, and what it leaves, when there is no commit yet.
LEMMA BlockBeforeCommit ==
  ASSUME IInv, NEW p \in Process, pc[p] \in HostSteps \cup RepairSteps,
         NEW outcome \in FailedOutcome, NEW t \in Tree, Block(p, outcome, t),
         UNCHANGED <<head, caches, drifts>>, t.meta # "accepted",
         plan[p].route # "repair" /\ drifts = 0 => t = txns[open].start
  PROVE  IInv'
<1>1. pc[p] \in ApplySteps
  BY DEF ApplySteps
<1>2. outcome \notin {"commit_unclean", "complete_failed"}
  BY DEF FailedOutcome
<1>3. /\ drifts' \in Nat /\ drifts' = drifts /\ caches' = caches
      /\ head' \in BranchHead /\ head' = head
      /\ head'.commit = 0 => head' = Base
  BY DEF IInv, Typed, Alone
<1> QED BY <1>1, <1>2, <1>3, BlockKeeps

\* HostCommandFails.
LEMMA HostCommandFailsKeeps ==
  ASSUME IInv, NEW p \in Process, HostCommandFails(p)
  PROVE  IInv'
<1>1. /\ pc[p] = "host" /\ Block(p, "command_failed", tree) /\ UNCHANGED <<head, caches, drifts>>
  BY DEF HostCommandFails
<1>2. pc[p] \in HostSteps \cup RepairSteps /\ pc[p] \in ActiveSteps
  BY <1>1 DEF HostSteps, ActiveSteps, ApplySteps
<1>3. Typed /\ TreeOK(p)
  BY <1>2, AtWork
<1>4. /\ tree \in Tree /\ tree.meta # "accepted"
      /\ drifts = 0 => tree = txns[open].start
  BY <1>1, <1>3 DEF Typed, TreeOK, HostSteps
<1>5. "command_failed" \in FailedOutcome
  BY DEF FailedOutcome
<1> QED BY <1>1, <1>2, <1>4, <1>5, BlockBeforeCommit

\* The metadata that was there when the plan was made is put back.
LEMMA RestoredTree ==
  ASSUME IInv, NEW p \in Process, pc[p] \in {"finalize", "validate"}, NEW t, t = Restored(p)
  PROVE  /\ t \in Tree /\ t.meta # "accepted"
         /\ plan[p].route # "repair" /\ drifts = 0 => t = txns[open].start
<1>1. pc[p] \in ActiveSteps /\ pc[p] \in {"verified"} \cup ApplySteps
  BY DEF HostSteps, RepairSteps, ActiveSteps, ApplySteps
<1>2. Typed /\ TreeOK(p) /\ BoundOK(p) /\ PlanOK(p) /\ plan[p] \in Plan
  BY <1>1, AtWork
<1>3. PICK s \in Plan : s = plan[p]
  BY <1>2
<1>4. s.route \in Recovering
  BY <1>2, <1>3 DEF PlanOK, HostSteps, RepairSteps, Recovering
<1>5. s.tree.meta # "accepted" /\ s.tree \in Tree /\ tree \in Tree
  BY <1>1, <1>2, <1>3, <1>4 DEF BoundOK, Typed, Plan
<1>6. t = [tree EXCEPT !.meta = s.tree.meta]
  BY <1>3 DEF Restored
<1>7. t \in Tree /\ t.meta # "accepted"
  BY <1>5, <1>6 DEF Tree
<1>8. ASSUME s.route # "repair", drifts = 0
      PROVE  t = txns[open].start
  <2>1. pc[p] = "finalize"
    BY <1>2, <1>3, <1>8 DEF PlanOK, RepairSteps
  <2>2. tree = [s.tree EXCEPT !.meta = "accepted"] /\ txns[open].start = s.tree
    BY <1>2, <1>3, <1>8, <2>1 DEF TreeOK, HostSteps
  <2>3. t = s.tree
    BY <1>5, <1>6, <2>2 DEF Tree
  <2> QED BY <2>2, <2>3
<1> QED BY <1>3, <1>7, <1>8

\* FinalizeRefused and GitFails.
LEMMA FinalizeFailuresKeep ==
  ASSUME IInv, NEW p \in Process, FinalizeRefused(p) \/ GitFails(p)
  PROVE  IInv'
<1>1. PICK t : t = Restored(p)
  OBVIOUS
<1>2. PICK outcome \in {"metadata_failed", "git_failed"} :
        pc[p] = "finalize" /\ Block(p, outcome, t) /\ UNCHANGED <<head, caches, drifts>>
  BY <1>1 DEF FinalizeRefused, GitFails
<1>3. /\ t \in Tree /\ t.meta # "accepted"
      /\ plan[p].route # "repair" /\ drifts = 0 => t = txns[open].start
  BY <1>1, <1>2, RestoredTree
<1>4. pc[p] \in HostSteps \cup RepairSteps /\ outcome \in FailedOutcome
  BY <1>2 DEF HostSteps, FailedOutcome
<1> QED BY <1>2, <1>3, <1>4, BlockBeforeCommit

-----------------------------------------------------------------------------
(* The command at work goes on.                                            *)

\* A step of the command at work that leaves its transaction open.
LEMMA Onward ==
  ASSUME IInv, NEW p \in Process, pc[p] \in ActiveSteps \ {"prelaunch"},
         NEW s \in ActiveSteps \ {"prelaunch"}, pc'[p] = s, Only(p),
         pc' \in [Process -> Steps], plan' \in [Process -> Plan],
         UNCHANGED <<open, caches, reservation, owner, drifts>>,
         LedgerOK', Rewritten, txns' \in Seq(Record), tree' \in Tree,
         head' \in BranchHead, head'.commit = 0 => head' = Base,
         head.commit = 1 => head'.commit = 1,
         proj' \in Projection, proj'.gate <= Len(txns),
         proj' = proj \/ (proj'.gate = 0 /\ head.commit = 1),
         CommandOK(p)'
  PROVE  IInv'
<1>1. Typed /\ LedgerOK
  BY DEF IInv
<1>2. Typed'
  <2>1. /\ Len(txns') = Len(txns) /\ owner' \in Process \cup {NoProcess}
        /\ reservation' \in Process \cup {NoProcess} /\ drifts' \in Nat
        /\ open' \in {0, Len(txns)}
        /\ caches' \in Shown
    BY <1>1 DEF Typed, Rewritten
  <2> QED BY <2>1 DEF Typed
<1>3. RepairsOK'
  <2>1. /\ RepairsOK /\ open' = open
        /\ proj' = proj \/ proj'.state # "human_decision_required" \/ proj'.gate = 0
    BY DEF IInv
  <2> QED BY <2>1, RepairsKept
<1>4. GateOK'
  <2>1. ASSUME NEW t \in DOMAIN txns, txns'[t].outcome = "structured_invalid"
        PROVE  proj'.gate # 0 \/ head'.commit = 1
    <3>1. t # open
      BY <2>1 DEF LedgerOK, EntryOK, Rewritten
    <3>2. txns[t].outcome = "structured_invalid"
      BY <2>1, <3>1 DEF Rewritten
    <3>3. proj.gate # 0 \/ head.commit = 1
      BY <3>2 DEF IInv, GateOK
    <3> QED BY <3>3
  <2> QED BY <2>1 DEF GateOK, Rewritten
<1>6. Alone' /\ OneCommand' /\ CommandsOK'
  <2>1. /\ pc[p] \in LateSteps \ {"prelaunch"}
        /\ pc'[p] \in (LateSteps \ {"prelaunch"}) \cup {"idle", "dead"}
    BY DEF LateSteps
  <2>2. reservation = p
    BY <2>1 DEF IInv, OneCommand, Holding
  <2>3. Len(txns) <= Len(txns') /\ ReservationsStand(p)
    BY <1>1, Positions DEF Rewritten, ReservationsStand
  <2>4. Holding(p)' => reservation' = p
    BY <2>2
  <2> QED BY <1>2, <2>1, <2>3, <2>4, HolderStep
<1> QED BY <1>2, <1>3, <1>4, <1>6 DEF IInv

\* ... and its record alone, the plan too.
LEMMA OnwardQuietly ==
  ASSUME IInv, NEW p \in Process, pc[p] \in ActiveSteps \ {"prelaunch"},
         NEW s \in ActiveSteps \ {"prelaunch"}, Goto(p, s),
         UNCHANGED <<txns, open, caches, reservation, owner, plan, drifts>>, tree' \in Tree,
         head' \in BranchHead, head'.commit = 0 => head' = Base,
         head.commit = 1 => head'.commit = 1,
         proj' \in Projection, proj'.gate <= Len(txns),
         proj' = proj \/ (proj'.gate = 0 /\ head.commit = 1)
  PROVE  pc'[p] = s /\ plan'[p] = plan[p] /\ (CommandOK(p)' => IInv')
<1>1. Typed /\ LedgerOK
  BY DEF IInv
<1>2. /\ pc' \in [Process -> Steps] /\ plan' \in [Process -> Plan]
      /\ pc'[p] = s /\ plan'[p] = plan[p] /\ Only(p)
  <2>1. s \in Steps
    BY DEF Steps, LateSteps
  <2> QED BY <1>1, <2>1, GoingOn
<1>3. LedgerOK' /\ Rewritten
  BY <1>1, LedgerKept
<1>4. txns' \in Seq(Record)
  BY <1>1 DEF Typed
<1> QED BY <1>2, <1>3, <1>4, Onward

\* What a step that leaves the branch and the projection keeps of them.
LEMMA BranchStands ==
  ASSUME IInv, head' = head, proj' = proj
  PROVE  /\ head' \in BranchHead /\ proj' \in Projection /\ proj'.gate <= Len(txns)
         /\ head'.commit = 0 => head' = Base
         /\ head.commit = 1 => head'.commit = 1
BY DEF IInv, Typed, Alone

\* The commit of the tree is the only one.
LEMMA OneCommit ==
  ASSUME Typed, head = Base, Commit
  PROVE  head' \in BranchHead /\ head'.commit = 1 /\ head'.impl = tree.impl
BY DEF Typed, Commit, Base, BranchHead, Tree, Meta

\* HostCommandsPass.
LEMMA HostCommandsPassKeeps ==
  ASSUME IInv, NEW p \in Process, HostCommandsPass(p)
  PROVE  IInv'
<1>1. /\ pc[p] = "host" /\ Goto(p, "metadata") /\ proj' = proj
      /\ UNCHANGED <<tree, head>>
      /\ UNCHANGED <<txns, open, caches, reservation, owner, plan, drifts>>
  BY DEF HostCommandsPass
<1>2. /\ pc[p] \in ActiveSteps /\ pc[p] # "prelaunch"
      /\ "metadata" \in ActiveSteps \ {"prelaunch"}
  BY <1>1 DEF ActiveSteps, ApplySteps, HostSteps
<1>3. Typed /\ PlanOK(p) /\ OpenOK(p) /\ BoundOK(p) /\ TreeOK(p) /\ PlaceOK(p)
  BY <1>2, AtWork
<1>4. pc'[p] = "metadata" /\ plan'[p] = plan[p] /\ (CommandOK(p)' => IInv')
  <2>1. tree' \in Tree
    BY <1>1, <1>3 DEF Typed
  <2> QED BY <1>1, <1>2, <2>1, BranchStands, OnwardQuietly
<1>5. PlanOK(p)' /\ PlaceOK(p)'
  BY <1>1, <1>3, <1>4 DEF PlanOK, PlaceOK, PlanSteps, ActiveSteps, ApplySteps, HostSteps,
                          RepairSteps, CommittedSteps, CacheSteps
<1>6. OpenOK(p)'
  BY <1>1, <1>3, <1>4 DEF OpenOK, ApplySteps, HostSteps
<1>7. BoundOK(p)'
  BY <1>1, <1>3, <1>4 DEF BoundOK, Unrepaired, ApplySteps, HostSteps
<1>8. TreeOK(p)'
  BY <1>1, <1>3, <1>4 DEF TreeOK, HostSteps, CommittedSteps
<1> QED BY <1>4, <1>5, <1>6, <1>7, <1>8 DEF CommandOK

\* WriteMetadata.
LEMMA WriteMetadataKeeps ==
  ASSUME IInv, NEW p \in Process, WriteMetadata(p)
  PROVE  IInv'
<1>1. /\ pc[p] = "metadata" /\ UNCHANGED <<head, caches, drifts>>
  BY DEF WriteMetadata
<1>2. /\ pc[p] \in ActiveSteps /\ pc[p] # "prelaunch" /\ pc[p] \in HostSteps \cup RepairSteps
      /\ "finalize" \in ActiveSteps \ {"prelaunch"}
  BY <1>1 DEF ActiveSteps, ApplySteps, HostSteps
<1>3. /\ Typed /\ PlanOK(p) /\ OpenOK(p) /\ BoundOK(p) /\ TreeOK(p) /\ PlaceOK(p)
      /\ tree \in Tree /\ plan[p] \in Plan
  BY <1>2, AtWork DEF Typed
<1>4. CASE Block(p, "metadata_failed", tree)
  <2>1. /\ tree.meta # "accepted" /\ "metadata_failed" \in FailedOutcome
        /\ drifts = 0 => tree = txns[open].start
    BY <1>1, <1>3 DEF TreeOK, HostSteps, FailedOutcome
  <2> QED BY <1>1, <1>2, <1>3, <1>4, <2>1, BlockBeforeCommit
<1>5. CASE /\ Preserved(p) /\ tree' = [tree EXCEPT !.meta = "accepted"] /\ Goto(p, "finalize")
           /\ UNCHANGED <<txns, open, proj, reservation, owner, plan>>
  <2>1. tree' \in Tree
    BY <1>3, <1>5 DEF Tree
  <2>2. pc'[p] = "finalize" /\ plan'[p] = plan[p] /\ (CommandOK(p)' => IInv')
    BY <1>1, <1>2, <1>5, <2>1, BranchStands, OnwardQuietly
  <2>3. PlanOK(p)' /\ PlaceOK(p)'
    BY <1>1, <1>3, <1>5, <2>2 DEF PlanOK, PlaceOK, PlanSteps, ActiveSteps, ApplySteps,
                                  HostSteps, RepairSteps, CommittedSteps, CacheSteps
  <2>4. OpenOK(p)'
    BY <1>1, <1>3, <1>5, <2>2 DEF OpenOK, ApplySteps, HostSteps
  <2>5. BoundOK(p)'
    BY <1>1, <1>3, <1>5, <2>2 DEF BoundOK, Unrepaired, ApplySteps, HostSteps
  <2>6. TreeOK(p)'
    BY <1>1, <1>3, <1>5, <2>2 DEF TreeOK, HostSteps, CommittedSteps
  <2> QED BY <2>2, <2>3, <2>4, <2>5, <2>6 DEF CommandOK
<1> QED BY <1>4, <1>5 DEF WriteMetadata

\* What a command owes when it has written the commit.
LEMMA Committed ==
  ASSUME IInv, NEW p \in Process, pc[p] \in {"finalize", "validate"},
         Commit, tree' = tree, proj' = proj, Goto(p, "resolve"),
         UNCHANGED <<txns, open, caches, reservation, owner, plan, drifts>>,
         pc[p] = "finalize" => Preserved(p)
  PROVE  IInv'
<1>1. /\ pc[p] \in ActiveSteps \ CommittedSteps /\ pc[p] # "prelaunch" /\ pc[p] \in ApplySteps
      /\ pc[p] \in ActiveSteps /\ "resolve" \in ActiveSteps \ {"prelaunch"}
  BY DEF ActiveSteps, ApplySteps, HostSteps, RepairSteps, CommittedSteps
<1>2. /\ Typed /\ PlanOK(p) /\ OpenOK(p) /\ BoundOK(p) /\ TreeOK(p) /\ PlaceOK(p)
      /\ tree \in Tree /\ plan[p] \in Plan
  BY <1>1, AtWork DEF Typed
<1>3. head = Base
  BY <1>1, <1>2 DEF PlaceOK
<1>4. head' \in BranchHead /\ head'.commit = 1 /\ head'.impl = tree.impl
  BY <1>2, <1>3, OneCommit
<1>5. pc'[p] = "resolve" /\ plan'[p] = plan[p] /\ (CommandOK(p)' => IInv')
  <2>1. proj' \in Projection /\ proj'.gate <= Len(txns)
    BY <1>2 DEF Typed
  <2>2. tree' \in Tree /\ (head'.commit = 0 => head' = Base)
    BY <1>2, <1>4
  <2> QED BY <1>1, <1>4, <2>1, <2>2, OnwardQuietly
<1>6. PICK e \in Plan : e = plan[p]
  BY <1>2
<1>7. /\ pc[p] = "finalize" => e.route \in {"result", "repair_recovery"}
      /\ pc[p] = "validate" => e.route = "repair"
      /\ e.route \in Recovering
  BY <1>2, <1>6 DEF PlanOK, HostSteps, RepairSteps, Recovering
<1>8. PlanOK(p)' /\ PlaceOK(p)'
  BY <1>2, <1>4, <1>5, <1>6, <1>7, <1>1
     DEF PlanOK, PlaceOK, PlanSteps, ActiveSteps, ApplySteps, HostSteps, RepairSteps,
         CommittedSteps, CacheSteps
<1>9. OpenOK(p)'
  BY <1>1, <1>2, <1>5 DEF OpenOK, ApplySteps, CommittedSteps
<1>10. BoundOK(p)'
  BY <1>1, <1>2, <1>5 DEF BoundOK, Unrepaired, ApplySteps, CommittedSteps
<1>11. TreeOK(p)'
  <2>1. e.route # "repair" => tree.impl = e.tree.impl
    BY <1>6, <1>7 DEF Preserved
  <2> QED BY <1>4, <1>5, <1>6, <2>1 DEF TreeOK, HostSteps
<1> QED BY <1>5, <1>8, <1>9, <1>10, <1>11 DEF CommandOK

\* Finalize.
LEMMA FinalizeKeeps ==
  ASSUME IInv, NEW p \in Process, Finalize(p)
  PROVE  IInv'
BY Committed DEF Finalize

\* FinalizeUnclean.
LEMMA FinalizeUncleanKeeps ==
  ASSUME IInv, NEW p \in Process, FinalizeUnclean(p)
  PROVE  IInv'
<1>1. PICK t : t = [tree EXCEPT !.extra = "foreign"]
  OBVIOUS
<1>2. /\ pc[p] = "finalize" /\ Commit /\ Block(p, "commit_unclean", t)
      /\ drifts' = drifts + 1 /\ caches' = caches
  BY <1>1 DEF FinalizeUnclean
<1>3. pc[p] \in ApplySteps /\ pc[p] \in ActiveSteps \ CommittedSteps /\ pc[p] \in ActiveSteps
  BY <1>2 DEF ActiveSteps, ApplySteps, HostSteps, CommittedSteps
<1>4. Typed /\ PlaceOK(p) /\ tree \in Tree /\ drifts \in Nat
  BY <1>3, AtWork DEF Typed
<1>5. head = Base
  BY <1>3, <1>4 DEF PlaceOK
<1>6. head' \in BranchHead /\ head'.commit = 1
  BY <1>2, <1>4, <1>5, OneCommit
<1>7. t \in Tree /\ drifts' \in Nat /\ drifts' # 0
  BY <1>1, <1>2, <1>4 DEF Tree
<1>8. PICK outcome \in FailedOutcome \cup {"commit_unclean", "complete_failed"} :
        outcome = "commit_unclean"
  OBVIOUS
<1>9. /\ Block(p, outcome, t) /\ caches' = caches /\ pc[p] \in ApplySteps
      /\ t \in Tree /\ drifts' \in Nat /\ head' \in BranchHead
      /\ drifts' = 0 => drifts = 0
      /\ head'.commit = 0 => head' = Base
      /\ head.commit = 1 => head'.commit = 1
  BY <1>2, <1>3, <1>6, <1>7, <1>8
<1> QED BY <1>8, <1>9, BlockKeeps

-----------------------------------------------------------------------------
(* Validation repair.                                                      *)

\* RunRepairSession.
LEMMA RunRepairSessionKeeps ==
  ASSUME IInv, NEW p \in Process, RunRepairSession(p)
  PROVE  IInv'
<1>1. /\ pc[p] = "session" /\ UNCHANGED <<head, caches, drifts>>
  BY DEF RunRepairSession
<1>2. /\ pc[p] \in ActiveSteps \ {"prelaunch"} /\ pc[p] \in HostSteps \cup RepairSteps
      /\ "attempt" \in ActiveSteps \ {"prelaunch"} /\ pc[p] \in ActiveSteps
      /\ "attempt" \in Steps
  BY <1>1 DEF ActiveSteps, ApplySteps, RepairSteps, Steps, LateSteps
<1>3. /\ Typed /\ PlanOK(p) /\ OpenOK(p) /\ BoundOK(p) /\ TreeOK(p) /\ PlaceOK(p)
      /\ tree \in Tree /\ plan[p] \in Plan /\ LedgerOK
  BY <1>2, AtWork DEF Typed
<1>4. plan[p].route = "repair" /\ tree.meta # "accepted"
  BY <1>1, <1>3 DEF PlanOK, TreeOK, RepairSteps
<1>5. CASE Block(p, "unexpected_paths", [tree EXCEPT !.extra = "foreign"])
  <2>1. PICK t : t = [tree EXCEPT !.extra = "foreign"]
    OBVIOUS
  <2>2. t \in Tree /\ t.meta # "accepted" /\ "unexpected_paths" \in FailedOutcome
    BY <1>3, <1>4, <2>1 DEF Tree, FailedOutcome
  <2> QED BY <1>1, <1>2, <1>4, <1>5, <2>1, <2>2, BlockBeforeCommit
<1>6. ASSUME NEW v \in Version, NEW m \in {tree.meta, "session"},
             tree' = [tree EXCEPT !.impl = v, !.meta = m], Goto(p, "attempt"),
             plan' = [plan EXCEPT ![p].attempt = @ + 1, ![p].tree = tree],
             UNCHANGED <<txns, open, proj, reservation, owner>>
      PROVE  IInv'
  <2>1. PICK s \in Plan : s = plan[p]
    BY <1>3
  <2> DEFINE k == s.attempt + 1
             e == [s EXCEPT !.attempt = k, !.tree = tree]
  <2>0. k \in Nat
    BY DEF Plan
  <2> HIDE DEF k
  <2>2. /\ e \in Plan /\ e.route = s.route /\ e.origin = s.origin /\ e.via = s.via
        /\ e.attempt = s.attempt + 1 /\ e.tree = tree
    <3>1. /\ e \in Plan /\ e.route = s.route /\ e.origin = s.origin /\ e.via = s.via
          /\ e.attempt = k /\ e.tree = tree
      BY <1>3, <2>0 DEF Plan
    <3> QED BY <3>1 DEF k
  <2>3. plan' = [plan EXCEPT ![p] = e]
    BY <1>3, <1>6, <2>1 DEF Typed, k
  <2> HIDE DEF e
  <2>4. /\ pc' \in [Process -> Steps] /\ plan' \in [Process -> Plan]
        /\ pc'[p] = "attempt" /\ plan'[p] = e /\ Only(p)
    BY <1>2, <1>3, <1>6, <2>2, <2>3, Going
  <2>5. tree' \in Tree /\ tree'.meta # "accepted"
    BY <1>3, <1>4, <1>6 DEF Tree
  <2>6. LedgerOK' /\ Rewritten /\ txns' \in Seq(Record)
    <3>1. txns' \in Seq(Record)
      BY <1>3, <1>6 DEF Typed
    <3> QED BY <1>1, <1>3, <1>6, <3>1, LedgerKept
  <2>7. PlanOK(p)' /\ PlaceOK(p)'
    BY <1>1, <1>2, <1>3, <1>4, <1>6, <2>1, <2>2, <2>4
       DEF PlanOK, PlaceOK, PlanSteps, ActiveSteps, ApplySteps, HostSteps, RepairSteps,
           CommittedSteps, CacheSteps
  <2>8. OpenOK(p)'
    BY <1>1, <1>3, <1>6, <2>1, <2>2, <2>4 DEF OpenOK, ApplySteps, RepairSteps
  <2>9. BoundOK(p)'
    BY <1>1, <1>3, <1>4, <1>6, <2>1, <2>2, <2>4
       DEF BoundOK, Unrepaired, ApplySteps, RepairSteps, Recovering
  <2>10. TreeOK(p)'
    BY <2>4, <2>5 DEF TreeOK, HostSteps, CommittedSteps
  <2>11. CommandOK(p)'
    BY <2>7, <2>8, <2>9, <2>10 DEF CommandOK
  <2>12. /\ head' \in BranchHead /\ proj' \in Projection /\ proj'.gate <= Len(txns)
         /\ head'.commit = 0 => head' = Base
         /\ head.commit = 1 => head'.commit = 1
    BY <1>1, <1>6, BranchStands
  <2> QED BY <1>1, <1>2, <1>6, <2>4, <2>5, <2>6, <2>11, <2>12, Onward
<1> QED BY <1>5, <1>6 DEF RunRepairSession

\* The entry of an attempt.
LEMMA AttemptEntry ==
  ASSUME Typed, NEW p \in Process, NEW failure \in {"alias", "environment", "other"},
         NEW c \in Seq(Attempt),
         NEW x, x = [failure |-> failure, pre |-> Content(plan[p].tree), post |-> Content(tree)]
  PROVE  Append(c, x) \in Seq(Attempt) /\ Len(Append(c, x)) = Len(c) + 1
<1>1. plan[p].tree \in Tree /\ tree \in Tree
  BY DEF Typed, Plan
<1>2. Content(plan[p].tree) \in FileContent /\ Content(tree) \in FileContent
  BY <1>1 DEF Tree, FileContent, Content, Meta
<1>3. x \in Attempt
  BY <1>2 DEF Attempt
<1> QED BY <1>3

\* AttemptFails.
LEMMA AttemptFailsKeeps ==
  ASSUME IInv, NEW p \in Process, NEW failure \in {"alias", "environment", "other"},
         AttemptFails(p, failure)
  PROVE  IInv'
<1>1. pc[p] = "attempt" /\ UNCHANGED <<tree, head, caches, drifts>>
  BY DEF AttemptFails
<1>2. /\ pc[p] \in ActiveSteps \ {"prelaunch"} /\ pc[p] \in ActiveSteps
      /\ "session" \in ActiveSteps \ {"prelaunch"} /\ "session" \in Steps
  BY <1>1 DEF ActiveSteps, ApplySteps, RepairSteps, Steps, LateSteps
<1>3. /\ Typed /\ PlanOK(p) /\ OpenOK(p) /\ BoundOK(p) /\ TreeOK(p) /\ PlaceOK(p)
      /\ tree \in Tree /\ plan[p] \in Plan /\ LedgerOK /\ open \in DOMAIN txns
  BY <1>2, AtWork DEF Typed
<1>4. plan[p].route = "repair" /\ tree.meta # "accepted"
  BY <1>1, <1>3 DEF PlanOK, TreeOK, RepairSteps
<1>5. PICK n \in DOMAIN txns, r \in Record, s \in Plan : n = open /\ r = txns[n] /\ s = plan[p]
  BY <1>3, Positions
<1>6. /\ r.mode = "repair" /\ r.origin = s.origin /\ r.via = s.via /\ r.outcome = "open"
      /\ s.attempt = Len(r.attempts) + 1 /\ Len(r.attempts) < MaxAttempts
      /\ r.origin < n /\ r.via < n /\ s.route = "repair"
  <2>1. EntryOK(n)
    BY <1>3, <1>5 DEF LedgerOK
  <2> QED BY <1>1, <1>3, <1>4, <1>5, <2>1 DEF OpenOK, EntryOK, ApplySteps, RepairSteps
<1>7. PICK x : x = [failure |-> failure, pre |-> Content(plan[p].tree), post |-> Content(tree)]
  OBVIOUS
<1>8. PICK chain \in Seq(Attempt) : /\ chain = Append(r.attempts, x)
                                    /\ Len(chain) = Len(r.attempts) + 1
  <2>1. r.attempts \in Seq(Attempt)
    BY RecordTypes
  <2> QED BY <1>3, <1>7, <2>1, AttemptEntry
<1>9. Len(r.attempts) \in Nat /\ Len(chain) \in Nat /\ MaxAttempts = 2 /\ Len(chain) <= 2
  BY <1>6, <1>8, RecordTypes DEF MaxAttempts
<1>10. CASE /\ txns' = [txns EXCEPT ![open].attempts = chain, ![open].end = tree,
                                    ![open].outcome = "exhausted"]
            /\ open' = 0 /\ proj' = [proj EXCEPT !.state = "review"] /\ Leave(p)
  <2> DEFINE e == [r EXCEPT !.attempts = chain, !.end = tree, !.outcome = "exhausted"]
  <2>1. /\ e \in Record /\ e.mode = r.mode /\ e.origin = r.origin /\ e.via = r.via
        /\ e.start = r.start /\ e.attempts = chain /\ e.end = tree /\ e.outcome = "exhausted"
    BY <1>3 DEF Record, Outcome, FailedOutcome
  <2>2. txns' = [txns EXCEPT ![n] = e]
    BY <1>3, <1>5, <1>10 DEF Typed
  <2> HIDE DEF e
  <2>3. EntryOK(n)'
    <3>1. /\ e.mode \in Recovering /\ e.outcome \notin {"commit_unclean", "complete_failed"} =>
               /\ e.end.meta # "accepted"
               /\ e.mode # "repair" /\ drifts' = 0 => e.end = e.start
          /\ Len(e.attempts) <= MaxAttempts
          /\ e.outcome = "structured_invalid" => e.end.meta # "accepted"
          /\ e.outcome \notin {"open", "accepted"}
      BY <1>4, <1>6, <1>9, <2>1
    <3> QED BY <1>3, <1>5, <1>10, <2>1, <2>2, <3>1, EndedInOrder
  <2>4. /\ proj' \in Projection /\ proj'.state = "review" /\ proj'.gate = proj.gate
        /\ proj.gate <= Len(txns)
    BY <1>3, <1>10 DEF Typed, Projection
  <2>5. /\ head' \in BranchHead /\ tree' \in Tree /\ drifts' \in Nat /\ drifts' = drifts
        /\ caches' = caches
        /\ head'.commit = 0 => head' = Base
        /\ head.commit = 1 => head'.commit = 1
    BY <1>1, <1>3 DEF IInv, Alone, Typed
  <2>6. /\ proj'.gate <= Len(txns)
        /\ proj'.state # "human_decision_required"
        /\ e.outcome # "structured_invalid"
        /\ proj.gate # 0 => proj'.gate # 0 \/ head.commit = 1
    BY <2>1, <2>4
  <2> QED BY <1>2, <1>5, <1>10, <2>1, <2>2, <2>3, <2>4, <2>5, <2>6, Closing
<1>11. CASE /\ txns' = [txns EXCEPT ![open].attempts = chain] /\ Goto(p, "session")
            /\ UNCHANGED <<open, proj, reservation, owner, plan>>
            /\ plan[p].attempt # MaxAttempts
  <2> DEFINE e == [r EXCEPT !.attempts = chain]
  <2>1. /\ e \in Record /\ e.mode = r.mode /\ e.origin = r.origin /\ e.via = r.via
        /\ e.start = r.start /\ e.attempts = chain /\ e.outcome = "open"
    BY <1>6 DEF Record
  <2>2. txns' = [txns EXCEPT ![n] = e] /\ txns'[n] = e
    BY <1>3, <1>5, <1>11 DEF Typed
  <2> HIDE DEF e
  <2>3. EntryOK(n)'
    BY <1>5, <1>6, <1>9, <1>11, <2>1, <2>2 DEF EntryOK
  <2>4. LedgerOK' /\ Rewritten /\ txns' \in Seq(Record)
    BY <1>1, <1>3, <1>5, <1>11, <2>1, <2>2, <2>3, LedgerRewritten
  <2>5. /\ pc' \in [Process -> Steps] /\ plan' \in [Process -> Plan]
        /\ pc'[p] = "session" /\ plan'[p] = s /\ Only(p)
    BY <1>2, <1>3, <1>5, <1>11, GoingOn
  <2>6. PlanOK(p)'
    BY <1>3, <1>5, <1>6, <2>4, <2>5
       DEF PlanOK, PlanSteps, HostSteps, RepairSteps, CommittedSteps, Rewritten
  <2>7. PlaceOK(p)'
    BY <1>1, <1>2, <1>3, <1>11, <2>5
       DEF PlaceOK, ActiveSteps, ApplySteps, RepairSteps, CommittedSteps, CacheSteps
  <2>8. OpenOK(p)'
    <3>1. s.attempt = Len(chain) /\ Len(chain) < MaxAttempts
      BY <1>5, <1>6, <1>8, <1>9, <1>11
    <3> QED BY <1>5, <1>6, <1>11, <2>1, <2>2, <2>5, <3>1 DEF OpenOK
  <2>9. BoundOK(p)'
    BY <1>1, <1>3, <1>5, <1>6, <1>11, <2>5
       DEF BoundOK, Unrepaired, ApplySteps, RepairSteps, Recovering
  <2>10. TreeOK(p)'
    BY <1>1, <1>4, <2>5 DEF TreeOK, HostSteps, CommittedSteps
  <2>11. CommandOK(p)'
    BY <2>6, <2>7, <2>8, <2>9, <2>10 DEF CommandOK
  <2>12. /\ head' \in BranchHead /\ proj' \in Projection /\ proj'.gate <= Len(txns)
         /\ head'.commit = 0 => head' = Base
         /\ head.commit = 1 => head'.commit = 1
    BY <1>1, <1>11, BranchStands
  <2> QED BY <1>1, <1>2, <1>3, <1>11, <2>4, <2>5, <2>11, <2>12, Onward
<1> QED BY <1>5, <1>7, <1>8, <1>10, <1>11 DEF AttemptFails, FailureState

\* AttemptPasses.
LEMMA AttemptPassesKeeps ==
  ASSUME IInv, NEW p \in Process, AttemptPasses(p)
  PROVE  IInv'
<1>1. /\ pc[p] = "attempt" /\ Goto(p, "validate") /\ proj' = proj /\ head' = head
      /\ tree' = [tree EXCEPT !.meta = "accepted"] /\ plan' = [plan EXCEPT ![p].tree = tree]
      /\ UNCHANGED <<txns, open, caches, reservation, owner, drifts>>
  BY DEF AttemptPasses
<1>2. /\ pc[p] \in ActiveSteps \ {"prelaunch"} /\ pc[p] \in ActiveSteps
      /\ "validate" \in ActiveSteps \ {"prelaunch"} /\ "validate" \in Steps
  BY <1>1 DEF ActiveSteps, ApplySteps, RepairSteps, Steps, LateSteps
<1>3. /\ Typed /\ PlanOK(p) /\ OpenOK(p) /\ BoundOK(p) /\ TreeOK(p) /\ PlaceOK(p)
      /\ tree \in Tree /\ plan[p] \in Plan /\ LedgerOK
  BY <1>2, AtWork DEF Typed
<1>4. plan[p].route = "repair" /\ tree.meta # "accepted"
  BY <1>1, <1>3 DEF PlanOK, TreeOK, RepairSteps
<1>5. PICK s \in Plan : s = plan[p]
  BY <1>3
<1> DEFINE e == [s EXCEPT !.tree = tree]
<1>6. /\ e \in Plan /\ e.route = s.route /\ e.origin = s.origin /\ e.via = s.via
      /\ e.attempt = s.attempt /\ e.tree = tree
  BY <1>3 DEF Plan
<1>7. plan' = [plan EXCEPT ![p] = e]
  BY <1>1, <1>3, <1>5 DEF Typed
<1> HIDE DEF e
<1>8. /\ pc' \in [Process -> Steps] /\ plan' \in [Process -> Plan]
      /\ pc'[p] = "validate" /\ plan'[p] = e /\ Only(p)
  BY <1>1, <1>2, <1>3, <1>6, <1>7, Going
<1>9. tree' \in Tree
  BY <1>1, <1>3 DEF Tree
<1>10. LedgerOK' /\ Rewritten /\ txns' \in Seq(Record)
  <2>1. txns' \in Seq(Record)
    BY <1>1, <1>3 DEF Typed
  <2> QED BY <1>1, <1>3, <2>1, LedgerKept
<1>11. PlanOK(p)' /\ PlaceOK(p)'
  BY <1>1, <1>2, <1>3, <1>4, <1>5, <1>6, <1>8
     DEF PlanOK, PlaceOK, PlanSteps, ActiveSteps, ApplySteps, HostSteps, RepairSteps,
         CommittedSteps, CacheSteps
<1>12. OpenOK(p)'
  BY <1>1, <1>3, <1>5, <1>6, <1>8 DEF OpenOK, ApplySteps, RepairSteps
<1>13. BoundOK(p)'
  BY <1>1, <1>3, <1>4, <1>5, <1>6, <1>8
     DEF BoundOK, Unrepaired, ApplySteps, RepairSteps, Recovering
<1>14. TreeOK(p)'
  BY <1>8 DEF TreeOK, HostSteps, CommittedSteps
<1>15. CommandOK(p)'
  BY <1>11, <1>12, <1>13, <1>14 DEF CommandOK
<1>16. /\ head' \in BranchHead /\ proj' \in Projection /\ proj'.gate <= Len(txns)
       /\ head'.commit = 0 => head' = Base
       /\ head.commit = 1 => head'.commit = 1
  BY <1>1, BranchStands
<1> QED BY <1>1, <1>2, <1>8, <1>9, <1>10, <1>15, <1>16, Onward

\* FinalizeRepair.
LEMMA FinalizeRepairKeeps ==
  ASSUME IInv, NEW p \in Process, FinalizeRepair(p)
  PROVE  IInv'
<1>1. pc[p] = "validate" /\ UNCHANGED <<caches, drifts>>
  BY DEF FinalizeRepair
<1>2. CASE /\ Commit /\ Goto(p, "resolve")
           /\ UNCHANGED <<tree, txns, open, proj, reservation, owner, plan>>
  BY <1>1, <1>2, Committed
<1>3. CASE Block(p, "repair_refused", Restored(p)) /\ UNCHANGED head
  <2>1. PICK t : t = Restored(p)
    OBVIOUS
  <2>2. /\ t \in Tree /\ t.meta # "accepted"
        /\ plan[p].route # "repair" /\ drifts = 0 => t = txns[open].start
    BY <1>1, <2>1, RestoredTree
  <2>3. pc[p] \in HostSteps \cup RepairSteps /\ "repair_refused" \in FailedOutcome
    BY <1>1 DEF RepairSteps, FailedOutcome
  <2> QED BY <1>1, <1>3, <2>1, <2>2, <2>3, BlockBeforeCommit
<1> QED BY <1>2, <1>3 DEF FinalizeRepair

-----------------------------------------------------------------------------
(* From the commit to the end.                                             *)

\* ResolveGate.
LEMMA ResolveGateKeeps ==
  ASSUME IInv, NEW p \in Process, ResolveGate(p)
  PROVE  IInv'
<1>1. /\ pc[p] = "resolve" /\ Goto(p, "complete")
      /\ proj' = [proj EXCEPT !.gate = IF @ = plan[p].origin THEN 0 ELSE @]
      /\ UNCHANGED <<tree, head>>
      /\ UNCHANGED <<txns, open, caches, reservation, owner, plan, drifts>>
  BY DEF ResolveGate
<1>2. /\ pc[p] \in ActiveSteps /\ pc[p] # "prelaunch" /\ pc[p] \in CommittedSteps
      /\ pc[p] \in ApplySteps
      /\ "complete" \in ActiveSteps \ {"prelaunch"}
  BY <1>1 DEF ActiveSteps, ApplySteps, CommittedSteps
<1>3. /\ Typed /\ PlanOK(p) /\ OpenOK(p) /\ BoundOK(p) /\ TreeOK(p) /\ PlaceOK(p)
      /\ plan[p] \in Plan
  BY <1>2, AtWork
<1>4. PICK s \in Plan : s = plan[p]
  BY <1>3
<1>5. proj.gate = s.origin
  BY <1>1, <1>2, <1>3, <1>4 DEF BoundOK, PlanOK
<1>6. proj' \in Projection /\ proj'.gate = 0 /\ Len(txns) \in Nat
  BY <1>1, <1>3, <1>4, <1>5, Positions DEF Typed, Projection
<1>7. pc'[p] = "complete" /\ plan'[p] = plan[p] /\ (CommandOK(p)' => IInv')
  <2>1. tree' \in Tree /\ proj'.gate <= Len(txns)
    BY <1>1, <1>3, <1>6 DEF Typed
  <2>2. /\ head' \in BranchHead /\ head.commit = 1 /\ head'.commit = 1
        /\ head'.commit = 0 => head' = Base
    BY <1>1, <1>2, <1>3 DEF PlaceOK, Typed
  <2> QED BY <1>1, <1>2, <1>6, <2>1, <2>2, OnwardQuietly
<1>8. PlanOK(p)' /\ PlaceOK(p)'
  BY <1>1, <1>2, <1>3, <1>7 DEF PlanOK, PlaceOK, PlanSteps, ActiveSteps, ApplySteps,
                                HostSteps, RepairSteps, CommittedSteps, CacheSteps
<1>9. OpenOK(p)'
  BY <1>1, <1>2, <1>3, <1>7 DEF OpenOK
<1>10. BoundOK(p)'
  <2>1. BoundOK(p) /\ pc[p] \in {"verified"} \cup ApplySteps
    BY <1>2, <1>3
  <2> QED BY <1>1, <1>6, <1>7, <2>1 DEF BoundOK, Unrepaired
<1>11. TreeOK(p)'
  BY <1>1, <1>2, <1>3, <1>7 DEF TreeOK, HostSteps, CommittedSteps
<1> QED BY <1>7, <1>8, <1>9, <1>10, <1>11 DEF CommandOK

\* What is accepted is what the plan was made for.
LEMMA AcceptedInOrder ==
  ASSUME IInv, NEW p \in Process, pc[p] = "complete", Clean,
         NEW n \in DOMAIN txns, n = open, NEW e \in Record,
         txns' = [txns EXCEPT ![n] = e], open' = 0,
         e.outcome = "accepted", e.end = tree, e.mode = txns[n].mode,
         e.origin = txns[n].origin, e.via = txns[n].via, e.attempts = txns[n].attempts
  PROVE  EntryOK(n)'
<1>1. /\ pc[p] \in ActiveSteps /\ pc[p] \in CommittedSteps /\ pc[p] \in ApplySteps
  BY DEF ActiveSteps, ApplySteps, CommittedSteps
<1>2. Typed /\ PlanOK(p) /\ OpenOK(p) /\ BoundOK(p) /\ TreeOK(p) /\ LedgerOK /\ plan[p] \in Plan
  BY <1>1, AtWork
<1>3. PICK s \in Plan : s = plan[p]
  BY <1>2
<1>4. txns[n].mode = s.route /\ txns[n].origin = s.origin /\ txns[n].via = s.via
  BY <1>1, <1>2, <1>3 DEF OpenOK
<1>5. EntryOK(n) /\ n # 0 /\ txns'[n] = e /\ 0 \notin DOMAIN txns
  BY <1>2, Positions DEF LedgerOK, Typed
<1>6. \A t \in DOMAIN txns : t # n => txns'[t] = txns[t]
  BY <1>2 DEF Typed
<1>7. s.route # "repair" => tree.impl = s.tree.impl
  BY <1>1, <1>2, <1>3 DEF TreeOK, Clean
<1>8. /\ s.route = "result" => s.origin \in DOMAIN txns /\ s.origin # n
                                /\ s.tree = txns[s.origin].end
      /\ s.route = "repair_recovery" =>
           /\ s.via \in DOMAIN txns /\ s.via # n
           /\ s.tree.impl = txns[s.via].attempts[MaxAttempts].post.impl
  <2>1. BoundOK(p) /\ pc[p] \in {"verified"} \cup ApplySteps
    BY <1>1, <1>2
  <2> QED BY <1>3, <2>1 DEF BoundOK, Recovering
<1>9. /\ s.route = "result" => s.origin # 0 /\ tree.impl = txns'[s.origin].end.impl
      /\ s.route = "repair_recovery" =>
           s.via # 0 /\ tree.impl = txns'[s.via].attempts[MaxAttempts].post.impl
  BY <1>5, <1>6, <1>7, <1>8
<1> QED BY <1>4, <1>5, <1>9 DEF EntryOK

\* Complete.
LEMMA CompleteKeeps ==
  ASSUME IInv, NEW p \in Process, Complete(p)
  PROVE  IInv'
<1>1. pc[p] = "complete" /\ UNCHANGED <<head, caches, drifts>>
  BY DEF Complete
<1>2. /\ pc[p] \in ActiveSteps \ {"prelaunch"} /\ pc[p] \in ActiveSteps
      /\ pc[p] \in CommittedSteps /\ pc[p] \in ApplySteps /\ pc[p] \in LateSteps \ {"prelaunch"}
      /\ "cycle_cache" \in Steps
  BY <1>1 DEF ActiveSteps, ApplySteps, CommittedSteps, LateSteps, Steps, CacheSteps
<1>3. /\ Typed /\ PlanOK(p) /\ PlaceOK(p) /\ tree \in Tree /\ plan[p] \in Plan /\ LedgerOK
      /\ open # 0 /\ open \in DOMAIN txns /\ open = Len(txns) /\ Len(txns) \in Nat
  BY <1>2, AtWork, Positions DEF Typed
<1>4. /\ head' \in BranchHead /\ head.commit = 1 /\ head'.commit = 1
      /\ drifts' \in Nat /\ drifts' = drifts
  BY <1>1, <1>2, <1>3 DEF PlaceOK, Typed
<1>5. CASE Block(p, "complete_failed", tree)
  <2>1. PICK outcome \in FailedOutcome \cup {"commit_unclean", "complete_failed"} :
          outcome = "complete_failed"
    OBVIOUS
  <2>2. /\ Block(p, outcome, tree) /\ caches' = caches
        /\ drifts' = 0 => drifts = 0
        /\ head'.commit = 0 => head' = Base
        /\ head.commit = 1 => head'.commit = 1
    BY <1>1, <1>4, <1>5, <2>1
  <2> QED BY <1>2, <1>3, <1>4, <2>1, <2>2, BlockKeeps
<1>6. CASE /\ Clean /\ End("accepted", tree, "integration_pending", proj.gate, head.commit)
           /\ plan' = [plan EXCEPT ![p].via = open] /\ Goto(p, "cycle_cache")
           /\ UNCHANGED <<tree, reservation, owner>>
  <2>1. PICK n \in DOMAIN txns : n = open
    BY <1>3
  <2>2. PICK outcome \in Outcome : outcome = "accepted"
    BY DEF Outcome
  <2>3. PICK e \in Record :
             /\ txns' = [txns EXCEPT ![n] = e] /\ open' = 0
             /\ e.outcome = outcome /\ e.end = tree
             /\ e.mode = txns[n].mode /\ e.origin = txns[n].origin /\ e.via = txns[n].via
             /\ e.start = txns[n].start /\ e.attempts = txns[n].attempts
    BY <1>3, <1>6, <2>1, <2>2, EndRewrites
  <2>4. EntryOK(n)'
    BY <1>1, <1>6, <2>1, <2>2, <2>3, AcceptedInOrder
  <2>5. LedgerOK' /\ Rewritten /\ txns' \in Seq(Record) /\ txns'[n] = e
    BY <1>3, <1>4, <2>1, <2>3, <2>4, LedgerRewritten
  <2>6. PICK s \in Plan : s = plan[p]
    BY <1>3
  <2> DEFINE f == [s EXCEPT !.via = open]
  <2>7. f \in Plan /\ f.origin = s.origin /\ f.via = open
    BY <1>3 DEF Plan
  <2>8. plan' = [plan EXCEPT ![p] = f]
    BY <1>3, <1>6, <2>6 DEF Typed
  <2> HIDE DEF f
  <2>9. /\ pc' \in [Process -> Steps] /\ plan' \in [Process -> Plan]
        /\ pc'[p] = "cycle_cache" /\ plan'[p] = f /\ Only(p)
    BY <1>2, <1>3, <1>6, <2>7, <2>8, Going
  <2>10. proj' = [state |-> "integration_pending", gate |-> proj.gate, accepted |-> head.commit]
    BY <1>6 DEF End
  <2>11. /\ proj' \in Projection /\ proj'.gate = proj.gate /\ proj'.gate <= Len(txns')
         /\ proj'.state = "integration_pending"
    <3>1. head.commit \in Nat /\ proj \in Projection /\ proj.gate <= Len(txns)
      BY <1>3, <1>4 DEF Typed
    <3> QED BY <2>5, <2>10, <3>1 DEF Projection, Rewritten
  <2>12. Typed'
    <3>1. /\ owner' \in Process \cup {NoProcess} /\ reservation' \in Process \cup {NoProcess}
          /\ caches' \in Shown /\ tree' \in Tree
          /\ open' \in {0, Len(txns')}
      BY <1>1, <1>3, <1>6, <2>3, <2>5 DEF Typed, Rewritten
    <3> QED BY <1>4, <2>5, <2>9, <2>11, <3>1 DEF Typed
  <2>13. RepairsOK'
    BY <2>5, <2>11, RepairsStand DEF IInv
  <2>14. GateOK'
    BY <1>4 DEF GateOK
  <2>16. CommandOK(p)'
    <3>1. PlanOK(p)'
      <4>1. s.origin <= Len(txns') /\ open <= Len(txns')
        BY <1>3, <2>5, <2>6 DEF PlanOK, Rewritten
      <4> QED BY <2>7, <2>9, <4>1 DEF PlanOK, PlanSteps, HostSteps, RepairSteps, CommittedSteps
    <3>2. PlaceOK(p)'
      BY <1>4, <2>3, <2>9 DEF PlaceOK, ActiveSteps, ApplySteps, HostSteps, RepairSteps,
                              CommittedSteps
    <3>3. OpenOK(p)' /\ BoundOK(p)' /\ TreeOK(p)'
      BY <2>9 DEF OpenOK, BoundOK, TreeOK, ApplySteps, HostSteps, RepairSteps, CommittedSteps
    <3> QED BY <3>1, <3>2, <3>3 DEF CommandOK
  <2>17. Alone' /\ OneCommand' /\ CommandsOK'
    <3>1. reservation = p
      BY <1>2 DEF IInv, OneCommand, Holding
    <3>2. /\ ReservationsStand(p) /\ Len(txns) <= Len(txns')
          /\ pc'[p] \in (LateSteps \ {"prelaunch"}) \cup {"idle", "dead"}
          /\ Holding(p)' => reservation' = p
      BY <1>3, <1>6, <2>5, <2>9, <3>1 DEF ReservationsStand, Rewritten, LateSteps, CacheSteps
    <3>3. head'.commit = 0 => head' = Base
      BY <1>4
    <3> QED BY <1>2, <2>9, <2>12, <2>16, <3>2, <3>3, HolderStep
  <2> QED BY <2>5, <2>12, <2>13, <2>14, <2>17 DEF IInv
<1> QED BY <1>5, <1>6 DEF Complete

\* The writes of the caches change nothing else.
LEMMA CacheStep ==
  ASSUME IInv, NEW p \in Process, pc[p] \in CacheSteps,
         UNCHANGED <<tree, head, txns, open, proj, drifts>>,
         caches' \in Shown,
         pc' \in [Process -> Steps], plan' \in [Process -> Plan], Only(p),
         reservation' \in Process \cup {NoProcess}, owner' \in Process \cup {NoProcess},
         ReservationsStand(p), pc'[p] \in CacheSteps \cup {"idle"},
         Holding(p)' => reservation' = p, CommandOK(p)'
  PROVE  IInv'
<1>1. Typed'
  BY DEF IInv, Typed
<1>2. LedgerOK' /\ Rewritten
  BY LedgerKept DEF IInv
<1>3. RepairsOK'
  BY <1>2, RepairsKept DEF IInv
<1>4. GateOK'
  BY DEF IInv, GateOK
<1>5. Alone' /\ OneCommand' /\ CommandsOK'
  <2>1. /\ pc[p] \in LateSteps \ {"prelaunch"} /\ Len(txns) <= Len(txns')
        /\ pc'[p] \in (LateSteps \ {"prelaunch"}) \cup {"idle", "dead"}
    BY <1>1, Positions DEF LateSteps, CacheSteps, IInv
  <2>2. head'.commit = 0 => head' = Base
    BY DEF IInv, Alone
  <2> QED BY <1>1, <2>1, <2>2, HolderStep
<1> QED BY <1>1, <1>2, <1>3, <1>4, <1>5 DEF IInv

\* WriteCycleCache.
LEMMA WriteCycleCacheKeeps ==
  ASSUME IInv, NEW p \in Process, WriteCycleCache(p)
  PROVE  IInv'
<1>1. /\ pc[p] = "cycle_cache" /\ UNCHANGED <<tree, head, txns, open, proj, drifts>>
  BY DEF WriteCycleCache
<1>2. CASE Leave(p) /\ UNCHANGED caches
  BY <1>1, <1>2, QuietLeaving
<1>3. CASE /\ caches' = [caches EXCEPT !.cycle = plan[p].via]
           /\ plan' = [plan EXCEPT ![p].caches = caches]
           /\ Goto(p, "controller_cache") /\ UNCHANGED <<reservation, owner>>
  <2>1. /\ Typed /\ PlanOK(p) /\ PlaceOK(p)
    BY DEF IInv, CommandsOK, CommandOK
  <2>2. PICK s \in Plan : s = plan[p]
    BY <2>1 DEF Typed
  <2> DEFINE e == [s EXCEPT !.caches = caches]
  <2>3. e \in Plan /\ e.origin = s.origin /\ e.via = s.via
    BY <2>1 DEF Plan, Typed
  <2>4. plan' = [plan EXCEPT ![p] = e]
    BY <1>3, <2>1, <2>2 DEF Typed
  <2> HIDE DEF e
  <2>5. /\ pc' \in [Process -> Steps] /\ plan' \in [Process -> Plan]
        /\ pc'[p] = "controller_cache" /\ plan'[p] = e /\ Only(p)
    <3>1. "controller_cache" \in Steps
      BY DEF Steps, LateSteps, CacheSteps
    <3> QED BY <1>3, <2>1, <2>3, <2>4, <3>1, Going
  <2>6. caches' \in Shown
    <3>1. plan[p].via \in Nat
      BY <2>1 DEF Typed, Plan
    <3> QED BY <1>3, <2>1, <3>1 DEF Typed, Shown
  <2>7. CommandOK(p)'
    <3>1. PlanOK(p)'
      BY <1>1, <2>1, <2>2, <2>3, <2>5
         DEF PlanOK, PlanSteps, HostSteps, RepairSteps, CommittedSteps
    <3>2. PlaceOK(p)'
      BY <1>1, <2>1, <2>5 DEF PlaceOK, ActiveSteps, ApplySteps, HostSteps, RepairSteps,
                              CommittedSteps, CacheSteps
    <3>3. OpenOK(p)' /\ BoundOK(p)' /\ TreeOK(p)'
      BY <2>5 DEF OpenOK, BoundOK, TreeOK, ApplySteps, HostSteps, RepairSteps, CommittedSteps
    <3> QED BY <3>1, <3>2, <3>3 DEF CommandOK
  <2>8. reservation = p
    BY <1>1 DEF IInv, OneCommand, Holding, LateSteps, CacheSteps
  <2>9. /\ reservation' \in Process \cup {NoProcess} /\ owner' \in Process \cup {NoProcess}
        /\ ReservationsStand(p) /\ reservation' = p
    BY <1>3, <2>1, <2>8 DEF Typed, ReservationsStand
  <2>10. pc[p] \in CacheSteps /\ pc'[p] \in CacheSteps \cup {"idle"}
    BY <1>1, <2>5 DEF CacheSteps
  <2> QED BY <1>1, <2>5, <2>6, <2>7, <2>9, <2>10, CacheStep
<1> QED BY <1>1, <1>2, <1>3 DEF WriteCycleCache

\* WriteControllerCache and the two writes of a prelaunch recovery leave, or
\* go on to the next write.
LEMMA WriteControllerCacheKeeps ==
  ASSUME IInv, NEW p \in Process, WriteControllerCache(p)
  PROVE  IInv'
<1>1. /\ UNCHANGED <<tree, head, txns, open, proj, drifts>> /\ Leave(p)
      /\ \/ caches' = [caches EXCEPT !.controller = plan[p].via]
         \/ caches' = plan[p].caches
  BY DEF WriteControllerCache
<1>2. plan[p] \in Plan /\ caches \in Shown
  BY DEF IInv, Typed
<1>3. caches' \in Shown
  BY <1>1, <1>2 DEF Plan, Shown
<1> QED BY <1>1, <1>3, QuietLeaving

LEMMA WriteCycleFileKeeps ==
  ASSUME IInv, NEW p \in Process, WriteCycleFile(p)
  PROVE  IInv'
<1>1. /\ UNCHANGED <<tree, head, txns, open, proj, drifts>> /\ Leave(p)
      /\ \/ caches' = caches
         \/ caches' = [caches EXCEPT !.cycle = plan[p].via]
  BY DEF WriteCycleFile
<1>2. plan[p] \in Plan /\ caches \in Shown
  BY DEF IInv, Typed
<1>3. caches' \in Shown
  BY <1>1, <1>2 DEF Plan, Shown
<1> QED BY <1>1, <1>3, QuietLeaving

LEMMA WriteControllerDocumentKeeps ==
  ASSUME IInv, NEW p \in Process, WriteControllerDocument(p)
  PROVE  IInv'
<1>1. /\ pc[p] = "controller_document" /\ UNCHANGED <<tree, head, txns, open, proj, drifts>>
  BY DEF WriteControllerDocument
<1>2. CASE Leave(p) /\ UNCHANGED caches
  BY <1>1, <1>2, QuietLeaving
<1>3. CASE /\ caches' = [caches EXCEPT !.controller = plan[p].via]
           /\ Goto(p, "cycle_file") /\ UNCHANGED <<reservation, owner, plan>>
  <2>1. Typed /\ PlanOK(p) /\ plan[p] \in Plan /\ caches \in Shown
    BY DEF IInv, CommandsOK, CommandOK, Typed
  <2>2. /\ pc' \in [Process -> Steps] /\ plan' \in [Process -> Plan]
        /\ pc'[p] = "cycle_file" /\ plan'[p] = plan[p] /\ plan[p] \in Plan /\ Only(p)
    <3>1. "cycle_file" \in Steps
      BY DEF Steps, RefreshSteps
    <3> QED BY <1>3, <2>1, <3>1, GoingOn
  <2>3. caches' \in Shown
    BY <1>3, <2>1 DEF Plan, Shown
  <2>4. Typed' /\ ReservationsStand(p)
    <3>1. reservation' \in Process \cup {NoProcess} /\ owner' \in Process \cup {NoProcess}
      BY <1>3, <2>1 DEF Typed
    <3> QED BY <1>1, <1>3, <2>1, <2>2, <2>3, <3>1, QuietTyped DEF ReservationsStand
  <2>5. CommandOK(p)' /\ pc'[p] \notin LateSteps
    BY <1>1, <2>1, <2>2, AtRest DEF PlanOK, PlanSteps, RefreshSteps
  <2>6. ~Holding(p)'
    BY <2>2, <2>5 DEF Holding
  <2> QED BY <1>1, <2>2, <2>4, <2>5, <2>6, QuietStep
<1> QED BY <1>1, <1>2, <1>3 DEF WriteControllerDocument

\* CompletePrelaunch: whoever verified a plan under the reservation
\* meanwhile finds the tree and the gate as they were.
LEMMA CompletePrelaunchKeeps ==
  ASSUME IInv, NEW p \in Process, CompletePrelaunch(p)
  PROVE  IInv'
<1>1. pc[p] = "prelaunch" /\ UNCHANGED <<tree, head, caches, drifts>>
  BY DEF CompletePrelaunch
<1>2. CASE Leave(p) /\ UNCHANGED <<txns, open, proj>>
  BY <1>1, <1>2, QuietLeaving
<1>3. CASE /\ End("applied", tree, "feature_preparing", proj.gate, proj.accepted)
           /\ plan' = [plan EXCEPT ![p].via = open]
           /\ Goto(p, "controller_document")
           /\ UNCHANGED <<reservation, owner>>
  <2>1. pc[p] \in ActiveSteps /\ pc[p] \in LateSteps
    BY <1>1 DEF ActiveSteps, LateSteps
  <2>2. /\ Typed /\ LedgerOK /\ OpenOK(p) /\ tree \in Tree
        /\ open # 0 /\ open \in DOMAIN txns /\ open = Len(txns) /\ Len(txns) \in Nat
    BY <2>1, AtWork, Positions DEF Typed
  <2>3. PICK n \in DOMAIN txns : n = open /\ txns[n].mode = "prelaunch"
    BY <1>1, <2>2 DEF OpenOK
  <2>4. PICK outcome \in Outcome : outcome = "applied"
    BY DEF Outcome, FailedOutcome
  <2>5. PICK e \in Record :
             /\ txns' = [txns EXCEPT ![n] = e] /\ open' = 0
             /\ e.outcome = outcome /\ e.end = tree
             /\ e.mode = txns[n].mode /\ e.origin = txns[n].origin /\ e.via = txns[n].via
             /\ e.start = txns[n].start /\ e.attempts = txns[n].attempts
    BY <1>3, <2>2, <2>3, <2>4, EndRewrites
  <2>6. EntryOK(n)'
    <3>1. Len(e.attempts) <= MaxAttempts /\ e.mode \notin Recovering
      BY <2>2, <2>3, <2>5 DEF LedgerOK, EntryOK, Recovering
    <3>2. e.outcome \notin {"open", "accepted", "structured_invalid"}
      BY <2>4, <2>5
    <3> QED BY <2>2, <2>3, <2>5, <3>1, <3>2, EndedInOrder
  <2>7. LedgerOK' /\ Rewritten /\ txns' \in Seq(Record) /\ txns'[n] = e
    BY <1>1, <2>2, <2>3, <2>5, <2>6, LedgerRewritten
  <2>8. proj' = [state |-> "feature_preparing", gate |-> proj.gate, accepted |-> proj.accepted]
    BY <1>3 DEF End
  <2>9. /\ proj' \in Projection /\ proj'.gate = proj.gate /\ proj'.gate <= Len(txns')
        /\ proj'.state = "feature_preparing"
    BY <2>2, <2>7, <2>8 DEF Typed, Projection, Rewritten
  <2>10. PICK d \in Plan : /\ d.origin = plan[p].origin /\ d.via = open
                           /\ plan' = [plan EXCEPT ![p] = d]
    <3>1. plan[p] \in Plan /\ open \in Nat /\ plan \in [Process -> Plan]
      BY <2>2 DEF Typed
    <3>2. PICK s \in Plan : s = plan[p]
      BY <3>1
    <3> DEFINE f == [s EXCEPT !.via = open]
    <3>3. f \in Plan /\ f.origin = s.origin /\ f.via = open
      BY <3>1 DEF Plan
    <3>4. plan' = [plan EXCEPT ![p] = f]
      BY <1>3, <3>1, <3>2
    <3> QED BY <3>2, <3>3, <3>4
  <2>11. /\ pc' \in [Process -> Steps] /\ plan' \in [Process -> Plan]
         /\ pc'[p] = "controller_document" /\ plan'[p] = d /\ Only(p)
         /\ reservation' \in Process \cup {NoProcess} /\ owner' \in Process \cup {NoProcess}
         /\ ReservationsStand(p)
    <3>1. "controller_document" \in Steps
      BY DEF Steps, RefreshSteps
    <3>2. /\ reservation' \in Process \cup {NoProcess} /\ owner' \in Process \cup {NoProcess}
          /\ ReservationsStand(p)
      BY <1>3, <2>2 DEF Typed, ReservationsStand
    <3> QED BY <1>3, <2>2, <2>10, <3>1, <3>2, Going
  <2>12. Typed'
    BY <1>1, <2>2, <2>5, <2>7, <2>9, <2>11 DEF Typed
  <2>13. RepairsOK'
    BY <2>7, <2>9, RepairsStand DEF IInv
  <2>14. GateOK'
    <3>1. ASSUME NEW t \in DOMAIN txns, txns'[t].outcome = "structured_invalid"
          PROVE  proj.gate # 0 \/ head.commit = 1
      <4>1. t # n
        BY <2>4, <2>5, <2>7, <3>1
      <4>2. txns[t].outcome = "structured_invalid"
        BY <2>3, <2>7, <3>1, <4>1 DEF Rewritten
      <4> QED BY <4>2 DEF IInv, GateOK
    <3> QED BY <1>1, <2>7, <2>9, <3>1 DEF GateOK, Rewritten
  <2>16. ASSUME NEW q \in Process \ {p}
         PROVE  CommandOK(q)' /\ pc'[q] \notin LateSteps /\ (Holding(q)' => reservation' = q)
    <3>1. pc'[q] = pc[q] /\ plan'[q] = plan[q] /\ q \in Process
      BY <2>11 DEF Only
    <3>2. CommandOK(q)
      BY <3>1 DEF IInv, CommandsOK
    <3>3. pc[q] \notin LateSteps
      BY <2>1, <3>1 DEF IInv, Alone
    <3>4. PlanOK(q)'
      BY <2>7, <3>1, <3>2, <3>3
         DEF CommandOK, PlanOK, Rewritten, LateSteps, CacheSteps
    <3>5. PlaceOK(q)' /\ OpenOK(q)'
      BY <3>1, <3>3 DEF PlaceOK, OpenOK, LateSteps, ActiveSteps, ApplySteps, HostSteps,
                        RepairSteps, CommittedSteps, CacheSteps
    <3>6. BoundOK(q)'
      <4>1. \A t \in DOMAIN txns : t = open => txns[t].mode # "repair"
        BY <2>3
      <4>2. /\ DOMAIN txns' = DOMAIN txns /\ 0 \notin DOMAIN txns
            /\ \A t \in DOMAIN txns : /\ t # open => txns'[t] = txns[t]
                                      /\ txns'[t].mode = txns[t].mode
                                      /\ txns'[t].origin = txns[t].origin
        BY <2>2, <2>7, Positions DEF Rewritten
      <4>3. BoundOK(q) /\ proj'.gate = proj.gate /\ open' = 0
        BY <2>5, <2>9, <3>2 DEF CommandOK
      <4> QED BY <3>1, <4>1, <4>2, <4>3 DEF BoundOK, Unrepaired
    <3>7. TreeOK(q)'
      BY <1>1, <3>1, <3>2, <3>3 DEF CommandOK, TreeOK, LateSteps, ActiveSteps, ApplySteps,
                                    HostSteps, RepairSteps, CommittedSteps, CacheSteps
    <3>8. Holding(q)' => reservation' = q
      <4>1. Holding(q)' = Holding(q)
        BY <3>1 DEF Holding
      <4>2. Holding(q) => reservation = q
        BY <3>1 DEF IInv, OneCommand
      <4> QED BY <2>11, <4>1, <4>2 DEF ReservationsStand
    <3> QED BY <3>1, <3>3, <3>4, <3>5, <3>6, <3>7, <3>8 DEF CommandOK
  <2>17. CommandOK(p)' /\ pc'[p] \notin LateSteps /\ ~Holding(p)'
    <3>1. d.origin <= Len(txns') /\ d.via <= Len(txns')
      BY <2>2, <2>7, <2>10, AtWork DEF Rewritten, CommandOK, PlanOK, IInv, CommandsOK
    <3>2. CommandOK(p)' /\ pc'[p] \notin LateSteps
      BY <2>11, <3>1, AtRest DEF PlanSteps, RefreshSteps
    <3> QED BY <2>11, <3>2 DEF Holding
  <2>18. Alone' /\ OneCommand' /\ CommandsOK'
    <3>1. Alone'
      <4>1. Alone
        BY DEF IInv
      <4> QED BY <1>1, <2>16, <2>17, <4>1 DEF Alone
    <3>2. OneCommand'
      BY <2>16, <2>17 DEF OneCommand
    <3>3. CommandsOK'
      BY <2>16, <2>17 DEF CommandsOK
    <3> QED BY <3>1, <3>2, <3>3
  <2> QED BY <2>7, <2>12, <2>13, <2>14, <2>18 DEF IInv
<1> QED BY <1>1, <1>2, <1>3 DEF CompletePrelaunch

-----------------------------------------------------------------------------
(* The environment, and the whole.                                         *)

\* Drift: what is bound to the tree is bound to who wrote its metadata, or
\* says so only while nobody else edits.
LEMMA DriftKeeps ==
  ASSUME IInv, Drift
  PROVE  IInv'
<1>1. /\ drifts' = drifts + 1
      /\ UNCHANGED <<head, txns, open, proj, caches, reservation, owner, pc, plan>>
  BY DEF Drift
<1>2. Typed /\ LedgerOK /\ tree \in Tree /\ drifts \in Nat
  BY DEF IInv, Typed
<1>3. tree' \in Tree /\ tree'.meta = tree.meta /\ drifts' \in Nat /\ drifts' # 0
  BY <1>2 DEF Drift, Tree
<1>4. Typed'
  BY <1>1, <1>2, <1>3 DEF Typed
<1>5. LedgerOK' /\ Rewritten
  BY <1>1, <1>2, <1>3, LedgerKept
<1>6. RepairsOK'
  BY <1>1, <1>5, RepairsKept DEF IInv
<1>7. GateOK' /\ Alone'
  BY <1>1 DEF IInv, GateOK, Alone
<1>8. OneCommand'
  BY <1>1 DEF IInv, OneCommand, Holding
<1>9. ASSUME NEW q \in Process
      PROVE  CommandOK(q)'
  <2>1. CommandOK(q)
    BY DEF IInv, CommandsOK
  <2>2. PlanOK(q)' /\ PlaceOK(q)' /\ OpenOK(q)'
    BY <1>1, <2>1 DEF CommandOK, PlanOK, PlaceOK, OpenOK
  <2>3. BoundOK(q)'
    BY <1>1, <2>1 DEF CommandOK, BoundOK, Unrepaired
  <2>4. TreeOK(q)'
    BY <1>1, <1>3, <2>1 DEF CommandOK, TreeOK
  <2> QED BY <2>2, <2>3, <2>4 DEF CommandOK
<1> QED BY <1>4, <1>5, <1>6, <1>7, <1>8, <1>9 DEF IInv, CommandsOK

\* The invariant holds at the start.
LEMMA InitHolds ==
  ASSUME Init
  PROVE  IInv
<1>1. 0 \in Version
  BY RecoveryConstants DEF Version
<1>2. /\ txns = <<>> /\ Len(txns) = 0 /\ DOMAIN txns = {} /\ open = 0 /\ drifts = 0
  BY DEF Init
<1>3. Typed
  <2>1. tree \in Tree /\ head \in BranchHead /\ proj \in Projection
    BY <1>1 DEF Init, Tree, BranchHead, Base, Projection, Meta
  <2>2. /\ txns \in Seq(Record) /\ caches \in Shown
        /\ proj.gate <= 0
    BY <1>2 DEF Init, Shown, NoCaches
  <2>3. pc \in [Process -> Steps] /\ plan \in [Process -> Plan]
    BY NoPlanIsPlan DEF Init, Steps
  <2>4. reservation = NoProcess /\ owner = NoProcess
    BY DEF Init
  <2> QED BY <1>2, <2>1, <2>2, <2>3, <2>4 DEF Typed
<1>4. LedgerOK /\ GateOK
  BY <1>2 DEF LedgerOK, GateOK
<1>5. RepairsOK
  BY <1>2 DEF RepairsOK, Unrepaired
<1>6. \A p \in Process : pc[p] = "idle" /\ plan[p] = NoPlan
  BY DEF Init
<1>7. ASSUME NEW p \in Process
      PROVE  CommandOK(p) /\ pc[p] \notin LateSteps /\ ~Holding(p)
  <2>1. pc[p] = "idle" /\ plan[p].origin = 0 /\ plan[p].via = 0
    BY <1>6 DEF NoPlan
  <2>2. PlanOK(p)
    BY <1>2, <2>1 DEF PlanOK, PlanSteps, HostSteps, RepairSteps, CommittedSteps
  <2>3. PlaceOK(p) /\ OpenOK(p) /\ BoundOK(p) /\ TreeOK(p)
    BY <2>1 DEF PlaceOK, OpenOK, BoundOK, TreeOK, ActiveSteps, ApplySteps, HostSteps,
                RepairSteps, CommittedSteps, CacheSteps
  <2>4. pc[p] \notin LateSteps
    BY <2>1 DEF LateSteps, ActiveSteps, ApplySteps, HostSteps, RepairSteps, CommittedSteps,
                CacheSteps
  <2>5. ~Holding(p)
    BY <2>1, <2>4 DEF Holding
  <2> QED BY <2>2, <2>3, <2>4, <2>5 DEF CommandOK
<1>8. Alone /\ OneCommand /\ CommandsOK
  BY <1>7 DEF Init, Alone, OneCommand, CommandsOK
<1> QED BY <1>3, <1>4, <1>5, <1>8 DEF IInv

\* ... and every step keeps it.
LEMMA NextKeeps ==
  ASSUME IInv, [Next]_vars
  PROVE  IInv'
<1>1. CASE UNCHANGED vars
  <2>1. UNCHANGED <<tree, head, txns, open, proj, caches, reservation, pc, plan, drifts>>
    BY <1>1 DEF vars
  <2>2. Typed'
    BY <1>1 DEF IInv, Typed, vars
  <2>3. LedgerOK' /\ Rewritten
    BY <2>1, LedgerKept DEF IInv
  <2>4. RepairsOK'
    BY <2>1, <2>3, RepairsKept DEF IInv
  <2>5. GateOK' /\ Alone'
    BY <2>1 DEF IInv, GateOK, Alone
  <2>6. OneCommand'
    BY <2>1 DEF IInv, OneCommand, Holding
  <2>7. ASSUME NEW q \in Process
        PROVE  CommandOK(q)'
    <3>1. CommandOK(q)
      BY DEF IInv, CommandsOK
    <3>2. PlanOK(q)' /\ PlaceOK(q)' /\ OpenOK(q)' /\ TreeOK(q)'
      BY <2>1, <3>1 DEF CommandOK, PlanOK, PlaceOK, OpenOK, TreeOK
    <3>3. BoundOK(q)'
      BY <2>1, <3>1 DEF CommandOK, BoundOK, Unrepaired
    <3> QED BY <3>2, <3>3 DEF CommandOK
  <2> QED BY <2>2, <2>3, <2>4, <2>5, <2>6, <2>7 DEF IInv, CommandsOK
<1>2. ASSUME NEW p \in Process, Execute(p)
      PROVE  IInv'
  BY <1>2, BeginExecutionKeeps, ExecutionEndsKeep DEF Execute
<1>3. ASSUME NEW p \in Process, Recover(p)
      PROVE  IInv'
  <2>1. CASE Inspect(p) \/ Reserve(p) \/ Revalidate(p) \/ BeginRecovery(p)
             \/ CompletePrelaunch(p) \/ WriteControllerDocument(p) \/ WriteCycleFile(p)
    BY <2>1, InspectKeeps, ReserveKeeps, RevalidateKeeps, BeginRecoveryKeeps,
       CompletePrelaunchKeeps, WriteControllerDocumentKeeps, WriteCycleFileKeeps
  <2>2. CASE HostCommandFails(p) \/ HostCommandsPass(p) \/ WriteMetadata(p)
             \/ Finalize(p) \/ FinalizeRefused(p) \/ GitFails(p) \/ FinalizeUnclean(p)
    BY <2>2, HostCommandFailsKeeps, HostCommandsPassKeeps, WriteMetadataKeeps,
       FinalizeKeeps, FinalizeFailuresKeep, FinalizeUncleanKeeps
  <2>3. CASE RunRepairSession(p) \/ AttemptPasses(p) \/ FinalizeRepair(p)
             \/ \E f \in {"alias", "environment", "other"} : AttemptFails(p, f)
    BY <2>3, RunRepairSessionKeeps, AttemptPassesKeeps, FinalizeRepairKeeps,
       AttemptFailsKeeps
  <2>4. CASE ResolveGate(p) \/ Complete(p) \/ WriteCycleCache(p) \/ WriteControllerCache(p)
    BY <2>4, ResolveGateKeeps, CompleteKeeps, WriteCycleCacheKeeps,
       WriteControllerCacheKeeps
  <2> QED BY <1>3, <2>1, <2>2, <2>3, <2>4 DEF Recover
<1> QED BY <1>1, <1>2, <1>3, DieKeeps, InvokeKeeps, DriftKeeps DEF Next, Route

\* The inductive invariant.
THEOREM Invariance == Spec => []IInv
BY InitHolds, NextKeeps, PTL DEF Spec

-----------------------------------------------------------------------------
(* The two caches, on top of the first invariant.                          *)

Prelaunched(n) == n \in DOMAIN txns /\ txns[n].mode = "prelaunch"

\* the two show the same, or the document a prelaunch recovery
Matched(c) == c.cycle = c.controller \/ Prelaunched(c.controller)

Named(c) == c.cycle <= Len(txns) /\ c.controller <= Len(txns)

\* what a command between two writes knows
CacheOK(p) ==
  /\ pc[p] \in RefreshSteps => Prelaunched(plan[p].via)
  /\ pc[p] = "cycle_file" /\ head.commit = 0 => caches.controller # 0
  /\ pc[p] = "controller_cache" =>
       caches.cycle = plan[p].via /\ Named(plan[p].caches) /\ Matched(plan[p].caches)

\* the second write is p's to make, or it died before it
Behind(p) ==
  /\ pc[p] = "controller_cache" \/ (pc[p] = "dead" /\ reservation = p)
  /\ plan[p].via = caches.cycle

CachesOK ==
  /\ Named(caches)
  /\ head.commit = 0 => caches.controller = 0 \/ Prelaunched(caches.controller)
  /\ Matched(caches) \/ (head.commit = 1 /\ \E p \in Process : Behind(p))
  /\ head.commit = 1 /\ open = 0 => proj.state # "feature_preparing"
  /\ \A p \in Process : CacheOK(p)

\* What a step does to the ledger that the caches know of.
Growing ==
  /\ Len(txns) <= Len(txns') /\ DOMAIN txns \subseteq DOMAIN txns'
  /\ \A t \in DOMAIN txns : txns'[t].mode = txns[t].mode

\* What the caches name stays named, and what is matched stays matched.
LEMMA NamesStand ==
  ASSUME Typed, Typed', Growing, NEW c \in Shown
  PROVE  /\ Prelaunched(c.controller) => Prelaunched(c.controller)'
         /\ Named(c) => Named(c)'
         /\ Matched(c) => Matched(c)'
<1>1. c.cycle \in Nat /\ c.controller \in Nat /\ Len(txns) \in Nat /\ Len(txns') \in Nat
  BY DEF Shown, Typed
<1>2. Prelaunched(c.controller) => Prelaunched(c.controller)'
  BY DEF Prelaunched, Growing
<1>3. Named(c) => Named(c)'
  BY <1>1 DEF Named, Growing
<1> QED BY <1>2, <1>3 DEF Matched

\* A step of p that leaves both caches alone, and with them the other
\* commands that are between two writes.
LEMMA CachesStand ==
  ASSUME IInv, IInv', CachesOK, caches' = caches, Growing,
         head' = head \/ (head.commit = 0 /\ head'.commit = 1),
         head'.commit = 1 /\ open' = 0 => proj'.state # "feature_preparing",
         NEW p \in Process, Only(p), ReservationsStand(p), Behind(p) => Behind(p)', CacheOK(p)'
  PROVE  CachesOK'
<1>1. Typed /\ Typed' /\ caches \in Shown
  BY DEF IInv, Typed
<1>2. Named(caches)'
  BY <1>1, NamesStand DEF CachesOK, Named
<1>3. head'.commit = 0 => caches'.controller = 0 \/ Prelaunched(caches.controller)'
  <2>1. Prelaunched(caches.controller) => Prelaunched(caches.controller)'
    BY DEF Prelaunched, Growing
  <2>2. head'.commit = 0 => head.commit = 0
    OBVIOUS
  <2> QED BY <2>1, <2>2 DEF CachesOK
<1>4. Matched(caches)' \/ (head'.commit = 1 /\ \E q \in Process : Behind(q)')
  <2>1. CASE Matched(caches)
    BY <1>1, <2>1, NamesStand DEF Matched, Prelaunched
  <2>2. ASSUME NEW q \in Process, Behind(q), head.commit = 1
        PROVE  head'.commit = 1 /\ Behind(q)'
    <3>1. CASE q = p
      BY <2>2, <3>1
    <3>2. CASE q # p
      <4>1. pc'[q] = pc[q] /\ plan'[q] = plan[q] /\ (reservation = q => reservation' = q)
        BY <3>2 DEF Only, ReservationsStand
      <4> QED BY <2>2, <4>1 DEF Behind
    <3>3. head'.commit = 1
      BY <2>2
    <3> QED BY <3>1, <3>2, <3>3
  <2> QED BY <2>1, <2>2 DEF CachesOK
<1>5. ASSUME NEW q \in Process \ {p}
      PROVE  CacheOK(q)'
  <2>1. pc'[q] = pc[q] /\ plan'[q] = plan[q] /\ CacheOK(q)
    BY DEF Only, CachesOK
  <2>2. plan[q] \in Plan /\ plan[q].caches \in Shown /\ plan[q].via \in Nat
    BY <1>1 DEF Typed, Plan
  <2>3. PICK c \in Shown : c = plan[q].caches
    BY <2>2
  <2>4. PICK v \in Nat : v = plan[q].via
    BY <2>2
  <2>5. Prelaunched(v) => Prelaunched(v)'
    BY DEF Prelaunched, Growing
  <2>6. (Named(c) => Named(c)') /\ (Matched(c) => Matched(c)')
    BY <1>1, NamesStand
  <2>7. pc[q] = "cycle_file" /\ head'.commit = 0 => caches'.controller # 0
    BY <2>1 DEF CacheOK
  <2>8. pc[q] \in RefreshSteps => Prelaunched(v)'
    BY <2>1, <2>4, <2>5 DEF CacheOK
  <2>9. pc[q] = "controller_cache" => caches'.cycle = v /\ Named(c)' /\ Matched(c)'
    BY <2>1, <2>3, <2>4, <2>6 DEF CacheOK
  <2>10. plan'[q].via = v /\ plan'[q].caches = c
    BY <2>1, <2>3, <2>4
  <2> QED BY <2>1, <2>7, <2>8, <2>9, <2>10 DEF CacheOK, Prelaunched, Named, Matched
<1>6. \A q \in Process : CacheOK(q)'
  BY <1>5
<1>7. head'.commit = 1 /\ open' = 0 => proj'.state # "feature_preparing"
  OBVIOUS
<1> QED BY <1>2, <1>3, <1>4, <1>6, <1>7 DEF CachesOK, Prelaunched

\* A step of a command that is not between two writes, before it or after.
Aside(p) ==
  /\ caches' = caches /\ Growing /\ Only(p) /\ ReservationsStand(p)
  /\ pc[p] \notin {"dead", "controller_cache"}
  /\ pc'[p] \notin RefreshSteps \cup {"controller_cache"}
  /\ head' = head \/ (head.commit = 0 /\ head'.commit = 1)
  /\ head'.commit = 1 /\ open' = 0 => proj'.state # "feature_preparing"

LEMMA AsideKeeps ==
  ASSUME IInv, IInv', CachesOK, NEW p \in Process, Aside(p)
  PROVE  CachesOK'
<1>1. ~Behind(p)
  BY DEF Aside, Behind
<1>2. CacheOK(p)'
  BY DEF Aside, CacheOK, RefreshSteps
<1> QED BY <1>1, <1>2, CachesStand DEF Aside

\* p alone has moved.
LEMMA MovingOn ==
  ASSUME Typed, NEW p \in Process, NEW s, Goto(p, s), NEW e,
         plan' = plan \/ plan' = [plan EXCEPT ![p] = e]
  PROVE  Only(p) /\ pc'[p] = s
BY DEF Typed, Goto, Only

\* The ledger while nothing is appended to it, and with one more record.
LEMMA LedgerStands ==
  ASSUME Typed, txns' = txns
  PROVE  Growing
BY Positions DEF Growing

LEMMA LedgerRewrites ==
  ASSUME Typed, NEW r, r.mode = txns[open].mode, txns' = [txns EXCEPT ![open] = r]
  PROVE  Growing
<1>1. Len(txns') = Len(txns) /\ DOMAIN txns' = DOMAIN txns /\ Len(txns) \in Nat
  BY Positions DEF Typed
<1>2. \A t \in DOMAIN txns : txns'[t].mode = txns[t].mode
  OBVIOUS
<1> QED BY <1>1, <1>2 DEF Growing

LEMMA LedgerGrows ==
  ASSUME Typed, NEW r \in Record, txns' = Append(txns, r)
  PROVE  Growing
<1>1. Len(txns') = Len(txns) + 1 /\ DOMAIN txns' = 1..(Len(txns) + 1) /\ Len(txns) \in Nat
  BY DEF Typed
<1>2. DOMAIN txns = 1..Len(txns) /\ \A t \in DOMAIN txns : txns'[t] = txns[t]
  BY DEF Typed
<1> QED BY <1>1, <1>2 DEF Growing

LEMMA EndGrows ==
  ASSUME Typed, open # 0, NEW outcome, NEW t, NEW state, NEW gate, NEW accepted,
         End(outcome, t, state, gate, accepted)
  PROVE  Growing /\ open' = 0 /\ proj'.state = state
<1>1. open \in DOMAIN txns /\ txns[open] \in Record /\ txns \in Seq(Record)
  BY Positions DEF Typed
<1>2. /\ Len(txns') = Len(txns) /\ DOMAIN txns' = DOMAIN txns /\ Len(txns) \in Nat
      /\ \A u \in DOMAIN txns : txns'[u].mode = txns[u].mode
  BY <1>1, Positions DEF End, Record
<1> QED BY <1>2 DEF End, Growing

\* A command that leaves, with or without an end of its transaction.
LEMMA LeavingAside ==
  ASSUME IInv, CachesOK, NEW p \in Process, Leave(p), caches' = caches,
         pc[p] \notin {"dead", "controller_cache"}, UNCHANGED <<txns, open, proj, head>>
  PROVE  Aside(p)
<1>1. Typed /\ Growing
  BY LedgerStands DEF IInv
<1>2. /\ pc'[p] = "idle" /\ Only(p) /\ ReservationsStand(p)
  BY <1>1, Leaving
<1> QED BY <1>1, <1>2 DEF Aside, CachesOK, RefreshSteps

LEMMA EndingAside ==
  ASSUME IInv, NEW p \in Process, pc[p] \in ActiveSteps, Leave(p), caches' = caches,
         NEW outcome, NEW t, NEW state, NEW gate, NEW accepted,
         End(outcome, t, state, gate, accepted),
         head' = head \/ (head.commit = 0 /\ head'.commit = 1),
         state = "feature_preparing" => head'.commit # 1
  PROVE  Aside(p)
<1>1. Typed /\ open # 0
  BY DEF IInv, CommandsOK, CommandOK, PlaceOK
<1>2. Growing /\ open' = 0 /\ proj'.state = state
  BY <1>1, EndGrows
<1>3. /\ pc'[p] = "idle" /\ Only(p) /\ ReservationsStand(p)
  BY <1>1, Leaving
<1>4. pc[p] \notin {"dead", "controller_cache"}
  BY DEF ActiveSteps, ApplySteps, HostSteps, RepairSteps, CommittedSteps
<1> QED BY <1>2, <1>3, <1>4 DEF Aside, RefreshSteps

LEMMA BlockAside ==
  ASSUME IInv, NEW p \in Process, pc[p] \in ActiveSteps, NEW outcome, NEW t,
         Block(p, outcome, t), caches' = caches,
         head' = head \/ (head.commit = 0 /\ head'.commit = 1)
  PROVE  Aside(p)
<1>1. /\ Leave(p)
      /\ End(outcome, t, FailureState(plan[p].route), proj.gate, proj.accepted)
  BY DEF Block
<1>2. FailureState(plan[p].route) # "feature_preparing"
  BY DEF FailureState
<1> QED BY <1>1, <1>2, EndingAside

\* A command that goes on with the ledger as it was.
LEMMA GoingAside ==
  ASSUME IInv, CachesOK, NEW p \in Process, NEW s, Goto(p, s), NEW e,
         plan' = plan \/ plan' = [plan EXCEPT ![p] = e],
         caches' = caches, UNCHANGED <<reservation, open>>, Growing,
         head' = head \/ (open # 0 /\ head.commit = 0 /\ head'.commit = 1),
         proj'.state = proj.state,
         pc[p] \notin {"dead", "controller_cache"},
         s \notin RefreshSteps \cup {"controller_cache"}
  PROVE  Aside(p)
<1>1. Typed
  BY DEF IInv
<1>2. Only(p) /\ pc'[p] = s
  BY <1>1, MovingOn
<1>3. ReservationsStand(p)
  BY DEF ReservationsStand
<1> QED BY <1>2, <1>3 DEF Aside, CachesOK

\* The steps that write no cache and are between no two writes.
LEMMA PlanningAside ==
  ASSUME IInv, CachesOK, NEW p \in Process,
         \/ Inspect(p) \/ Reserve(p) \/ Revalidate(p)
         \/ \E route \in Route : Invoke(p, route)
  PROVE  Aside(p)
<1>1. Typed /\ Growing /\ caches' = caches /\ UNCHANGED <<txns, open, proj, head>>
  BY LedgerStands DEF IInv, Inspect, Reserve, Revalidate, Invoke
<1>2. /\ pc[p] \in {"idle"} \cup PlanSteps
      /\ pc[p] \notin {"dead", "controller_cache"}
  BY DEF Inspect, Reserve, Revalidate, Invoke, PlanSteps
<1>3. CASE Leave(p)
  BY <1>1, <1>2, <1>3, LeavingAside
<1>4. ASSUME NEW s \in PlanSteps, Goto(p, s), NEW e,
             plan' = plan \/ plan' = [plan EXCEPT ![p] = e], ReservationsStand(p)
      PROVE  Aside(p)
  <2>1. Only(p) /\ pc'[p] = s
    BY <1>1, <1>4, MovingOn
  <2>2. s \notin RefreshSteps \cup {"controller_cache"}
    BY DEF PlanSteps, RefreshSteps
  <2> QED BY <1>1, <1>2, <1>4, <2>1, <2>2 DEF Aside, CachesOK
<1>5. CASE Inspect(p)
  <2>1. CASE /\ plan' = [plan EXCEPT ![p] = Inspected(p)] /\ UNCHANGED <<reservation, owner>>
             /\ Goto(p, IF plan[p].route = "prelaunch" THEN "reserved" ELSE "planned")
    <3>1. /\ ReservationsStand(p)
          /\ (IF plan[p].route = "prelaunch" THEN "reserved" ELSE "planned") \in PlanSteps
      BY <2>1 DEF ReservationsStand, PlanSteps
    <3> QED BY <1>4, <2>1, <3>1
  <2> QED BY <1>3, <1>5, <2>1 DEF Inspect
<1>6. CASE Reserve(p)
  <2>1. CASE ~Leave(p)
    <3>1. Goto(p, "reserved") /\ plan' = plan /\ ReservationsStand(p)
      BY <1>6, <2>1, RecoveryConstants DEF Reserve, ReservationsStand
    <3>2. "reserved" \in PlanSteps
      BY DEF PlanSteps
    <3> QED BY <1>4, <3>1, <3>2
  <2> QED BY <1>3, <2>1
<1>7. CASE Revalidate(p)
  <2>1. CASE ~Leave(p)
    <3>1. /\ Goto(p, "verified") /\ UNCHANGED reservation
          /\ plan' = plan \/ plan' = [plan EXCEPT ![p] = Inspected(p)]
      BY <1>7, <2>1 DEF Revalidate
    <3>2. "verified" \in PlanSteps /\ ReservationsStand(p)
      BY <3>1 DEF PlanSteps, ReservationsStand
    <3> QED BY <1>4, <3>1, <3>2
  <2> QED BY <1>3, <2>1
<1>8. CASE \E route \in Route : Invoke(p, route)
  <2>1. PICK route \in Route : Invoke(p, route)
    BY <1>8
  <2>2. PICK e : plan' = [plan EXCEPT ![p] = e]
    BY <2>1 DEF Invoke
  <2>3. Goto(p, "invoked") /\ UNCHANGED reservation
    BY <2>1 DEF Invoke
  <2>4. "invoked" \in PlanSteps /\ ReservationsStand(p)
    BY <2>3 DEF PlanSteps, ReservationsStand
  <2> QED BY <1>4, <2>2, <2>3, <2>4
<1> QED BY <1>5, <1>6, <1>7, <1>8

\* BeginExecution and BeginRecovery append, the ends of an execution end.
LEMMA BeginningAside ==
  ASSUME IInv, CachesOK, NEW p \in Process, BeginExecution(p) \/ BeginRecovery(p)
  PROVE  Aside(p)
<1>1. Typed
  BY DEF IInv
<1>2. ASSUME NEW m \in {"execution"} \cup Route, NEW o \in Nat, NEW v \in Nat,
             txns' = Append(txns, Transaction(m, o, v)), open' = Len(txns) + 1,
             NEW s, Goto(p, s), s \notin RefreshSteps \cup {"controller_cache"},
             plan' = plan, ReservationsStand(p), UNCHANGED <<head, caches>>,
             pc[p] \notin {"dead", "controller_cache"}
      PROVE  Aside(p)
  <2>1. PICK r \in Record : r = Transaction(m, o, v)
    BY <1>1, NewRecord
  <2>2. Growing
    BY <1>1, <1>2, <2>1, LedgerGrows
  <2>3. Only(p) /\ pc'[p] = s
    BY <1>1, <1>2, MovingOn
  <2>4. open' # 0
    BY <1>1, <1>2, Positions
  <2> QED BY <1>2, <2>2, <2>3, <2>4 DEF Aside
<1>3. CASE BeginExecution(p)
  <2>1. /\ txns' = Append(txns, Transaction("execution", 0, 0)) /\ open' = Len(txns) + 1
        /\ Goto(p, "executing") /\ plan' = plan /\ UNCHANGED <<head, caches>>
        /\ pc[p] = "idle" /\ reservation = NoProcess
    BY <1>3 DEF BeginExecution
  <2>2. ReservationsStand(p)
    BY <2>1, RecoveryConstants DEF ReservationsStand
  <2>3. "executing" \notin RefreshSteps \cup {"controller_cache"}
    BY DEF RefreshSteps
  <2> QED BY <1>2, <2>1, <2>2, <2>3
<1>4. CASE BeginRecovery(p)
  <2>1. pc[p] = "verified" /\ UNCHANGED <<head, proj, caches>>
    BY <1>4 DEF BeginRecovery
  <2>2. CASE Leave(p) /\ UNCHANGED <<txns, open>>
    BY <2>1, <2>2, LeavingAside
  <2>3. CASE MayBegin(p)
    <3>1. plan[p] \in Plan
      BY <1>1 DEF Typed
    <3>2. plan[p].route \in Route /\ plan[p].origin \in Nat /\ plan[p].via \in Nat
      BY <3>1 DEF Plan
    <3> DEFINE s == CASE plan[p].route = "prelaunch" -> "prelaunch"
                      [] plan[p].route = "repair" -> "session"
                      [] OTHER -> "host"
    <3>3. /\ txns' = Append(txns, Transaction(plan[p].route, plan[p].origin, plan[p].via))
          /\ open' = Len(txns) + 1 /\ Goto(p, s) /\ UNCHANGED <<reservation, plan>>
      BY <1>4, <2>3 DEF BeginRecovery, Begin
    <3>4. s \notin RefreshSteps \cup {"controller_cache"}
      BY DEF RefreshSteps
    <3>5. ReservationsStand(p)
      BY <3>3 DEF ReservationsStand
    <3> HIDE DEF s
    <3> QED BY <1>2, <2>1, <3>2, <3>3, <3>4, <3>5
  <2> QED BY <1>4, <2>2, <2>3 DEF BeginRecovery
<1> QED BY <1>3, <1>4

LEMMA ExecutionAside ==
  ASSUME IInv, CachesOK, NEW p \in Process, Execute(p)
  PROVE  Aside(p)
<1>1. ASSUME NEW outcome, NEW t, NEW state, NEW gate, EndExecution(p, outcome, t, state, gate)
      PROVE  Aside(p)
  <2>1. /\ pc[p] = "executing" /\ Leave(p) /\ head' = head /\ caches' = caches
        /\ End(outcome, t, state, gate, 0)
    BY <1>1 DEF EndExecution
  <2>2. pc[p] \in ActiveSteps
    BY <2>1 DEF ActiveSteps
  <2>3. head = Base
    BY <2>1, <2>2 DEF IInv, CommandsOK, CommandOK, PlaceOK, CommittedSteps
  <2>4. head'.commit # 1
    BY <2>1, <2>3 DEF Base
  <2> QED BY <2>1, <2>2, <2>4, EndingAside
<1>2. CASE FailBeforeLaunch(p)
  BY <1>1, <1>2 DEF FailBeforeLaunch
<1>3. CASE ResultRetained(p)
  BY <1>1, <1>3 DEF ResultRetained
<1>4. CASE DecisionRequired(p)
  BY <1>1, <1>4 DEF DecisionRequired
<1> QED BY <1>2, <1>3, <1>4, BeginningAside DEF Execute

\* The host commands, the metadata and the commit.
LEMMA ApplyAside ==
  ASSUME IInv, CachesOK, NEW p \in Process,
         \/ HostCommandFails(p) \/ HostCommandsPass(p) \/ WriteMetadata(p)
         \/ Finalize(p) \/ FinalizeRefused(p) \/ GitFails(p) \/ FinalizeUnclean(p)
         \/ FinalizeRepair(p)
  PROVE  Aside(p)
<1>1. Typed
  BY DEF IInv
<1>2. /\ pc[p] \in {"host", "metadata", "finalize", "validate"} /\ caches' = caches
      /\ pc[p] \in ActiveSteps /\ pc[p] \notin {"dead", "controller_cache"}
  BY DEF HostCommandFails, HostCommandsPass, WriteMetadata, Finalize, FinalizeRefused, GitFails,
         FinalizeUnclean, FinalizeRepair, ActiveSteps, ApplySteps, HostSteps, RepairSteps
<1>3. head = Base /\ open # 0 /\ head.commit = 0
  BY <1>2 DEF IInv, CommandsOK, CommandOK, PlaceOK, CommittedSteps, Base
<1>4. ASSUME NEW outcome, NEW t, Block(p, outcome, t), head' = head \/ head'.commit = 1
      PROVE  Aside(p)
  BY <1>2, <1>3, <1>4, BlockAside
<1>5. ASSUME NEW s \in {"metadata", "finalize", "resolve"}, Goto(p, s), plan' = plan,
             UNCHANGED <<txns, open, proj, reservation>>, head' = head \/ head'.commit = 1
      PROVE  Aside(p)
  <2>1. Growing /\ s \notin RefreshSteps \cup {"controller_cache"}
    BY <1>1, <1>5, LedgerStands DEF RefreshSteps
  <2> QED BY <1>2, <1>3, <1>5, <2>1, GoingAside
<1>6. Commit => head'.commit = 1
  BY <1>3 DEF Commit
<1>7. CASE HostCommandFails(p) \/ HostCommandsPass(p) \/ WriteMetadata(p)
  BY <1>4, <1>5, <1>7 DEF HostCommandFails, HostCommandsPass, WriteMetadata
<1>8. CASE Finalize(p) \/ FinalizeRefused(p)
  BY <1>4, <1>5, <1>6, <1>8 DEF Finalize, FinalizeRefused
<1>9. CASE GitFails(p) \/ FinalizeUnclean(p)
  BY <1>4, <1>6, <1>9 DEF GitFails, FinalizeUnclean
<1>10. CASE FinalizeRepair(p)
  BY <1>4, <1>5, <1>6, <1>10 DEF FinalizeRepair
<1> QED BY <1>7, <1>8, <1>9, <1>10

\* The sessions of a repair, and the end of an applied recovery.
LEMMA SessionsAside ==
  ASSUME IInv, CachesOK, NEW p \in Process,
         \/ RunRepairSession(p) \/ AttemptPasses(p) \/ ResolveGate(p) \/ Complete(p)
         \/ \E f \in {"alias", "environment", "other"} : AttemptFails(p, f)
  PROVE  Aside(p)
<1>1. Typed
  BY DEF IInv
<1>2. /\ pc[p] \in {"session", "attempt", "resolve", "complete"} /\ caches' = caches /\ head' = head
      /\ pc[p] \in ActiveSteps /\ pc[p] \notin {"dead", "controller_cache"}
  BY DEF RunRepairSession, AttemptPasses, ResolveGate, Complete, AttemptFails,
         ActiveSteps, ApplySteps, RepairSteps, CommittedSteps
<1>3. open # 0
  BY <1>2 DEF IInv, CommandsOK, CommandOK, PlaceOK
<1>4. ASSUME NEW outcome, NEW t, Block(p, outcome, t)
      PROVE  Aside(p)
  BY <1>2, <1>4, BlockAside
<1>5. ASSUME NEW s \in {"session", "attempt", "validate", "complete"}, Goto(p, s), NEW e,
             plan' = plan \/ plan' = [plan EXCEPT ![p] = e],
             UNCHANGED <<open, reservation>>, Growing, proj'.state = proj.state
      PROVE  Aside(p)
  <2>1. s \notin RefreshSteps \cup {"controller_cache"}
    BY DEF RefreshSteps
  <2> QED BY <1>2, <1>5, <2>1, GoingAside
<1>6. CASE RunRepairSession(p)
  <2>1. CASE Block(p, "unexpected_paths", [tree EXCEPT !.extra = "foreign"])
    BY <1>4, <2>1
  <2>2. CASE /\ Goto(p, "attempt")
             /\ plan' = [plan EXCEPT ![p].attempt = @ + 1, ![p].tree = tree]
             /\ UNCHANGED <<txns, open, proj, reservation, owner>>
    <3>1. PICK e : plan' = [plan EXCEPT ![p] = e]
      <4>1. plan' = [plan EXCEPT ![p] = [plan[p] EXCEPT !.attempt = @ + 1, !.tree = tree]]
        BY <1>1, <2>2 DEF Typed
      <4> QED BY <4>1
    <3>2. Growing
      BY <1>1, <2>2, LedgerStands
    <3> QED BY <1>5, <2>2, <3>1, <3>2
  <2> QED BY <1>6, <2>1, <2>2 DEF RunRepairSession
<1>7. CASE AttemptPasses(p)
  <2>1. /\ Goto(p, "validate") /\ plan' = [plan EXCEPT ![p].tree = tree]
        /\ UNCHANGED <<txns, open, proj, reservation>>
    BY <1>7 DEF AttemptPasses
  <2>2. plan' = [plan EXCEPT ![p] = [plan[p] EXCEPT !.tree = tree]] /\ Growing
    BY <1>1, <2>1, LedgerStands DEF Typed
  <2> QED BY <1>5, <2>1, <2>2
<1>8. CASE ResolveGate(p)
  <2>1. /\ Goto(p, "complete") /\ UNCHANGED <<txns, open, plan, reservation>>
        /\ proj' = [proj EXCEPT !.gate = IF @ = plan[p].origin THEN 0 ELSE @]
    BY <1>8 DEF ResolveGate
  <2>2. Growing /\ proj'.state = proj.state
    BY <1>1, <2>1, LedgerStands DEF Typed, Projection
  <2> QED BY <1>5, <2>1, <2>2
<1>9. CASE Complete(p)
  <2>1. CASE Block(p, "complete_failed", tree)
    BY <1>4, <2>1
  <2>2. CASE /\ End("accepted", tree, "integration_pending", proj.gate, head.commit)
             /\ plan' = [plan EXCEPT ![p].via = open] /\ Goto(p, "cycle_cache")
             /\ reservation' = reservation
    <3>1. Growing /\ open' = 0 /\ proj'.state = "integration_pending"
      BY <1>1, <1>3, <2>2, EndGrows
    <3>2. plan' = [plan EXCEPT ![p] = [plan[p] EXCEPT !.via = open]]
      BY <1>1, <2>2 DEF Typed
    <3>3. Only(p) /\ pc'[p] = "cycle_cache"
      BY <1>1, <2>2, <3>2, MovingOn
    <3> QED BY <1>2, <2>2, <3>1, <3>3 DEF Aside, ReservationsStand, RefreshSteps
  <2> QED BY <1>9, <2>1, <2>2 DEF Complete
<1>10. ASSUME NEW f \in {"alias", "environment", "other"}, AttemptFails(p, f)
       PROVE  Aside(p)
  <2>1. open \in DOMAIN txns /\ txns[open] \in Record /\ txns \in Seq(Record)
    BY <1>1, <1>3, Positions DEF Typed
  <2>2. PICK chain : \/ /\ txns' = [txns EXCEPT ![open].attempts = chain, ![open].end = tree,
                                                ![open].outcome = "exhausted"]
                        /\ open' = 0 /\ proj' = [proj EXCEPT !.state = FailureState("repair")]
                        /\ Leave(p)
                     \/ /\ txns' = [txns EXCEPT ![open].attempts = chain]
                        /\ Goto(p, "session") /\ UNCHANGED <<open, proj, reservation, plan>>
    BY <1>10 DEF AttemptFails
  <2>3. Growing
    <3>1. PICK x : /\ txns' = [txns EXCEPT ![open] = x] /\ x.mode = txns[open].mode
      <4> DEFINE y == [txns[open] EXCEPT !.attempts = chain, !.end = tree,
                                         !.outcome = "exhausted"]
                 z == [txns[open] EXCEPT !.attempts = chain]
      <4>1. y.mode = txns[open].mode /\ z.mode = txns[open].mode
        BY <2>1 DEF Record
      <4>2. \/ txns' = [txns EXCEPT ![open] = y] \/ txns' = [txns EXCEPT ![open] = z]
        BY <2>1, <2>2
      <4> HIDE DEF y, z
      <4> QED BY <4>1, <4>2
    <3> QED BY <1>1, <3>1, LedgerRewrites
  <2>4. CASE open' = 0 /\ proj' = [proj EXCEPT !.state = FailureState("repair")] /\ Leave(p)
    <3>1. Only(p) /\ pc'[p] = "idle" /\ ReservationsStand(p)
      BY <1>1, <2>4, Leaving
    <3>2. proj'.state # "feature_preparing"
      BY <1>1, <2>4 DEF Typed, Projection, FailureState
    <3> QED BY <1>2, <2>3, <3>1, <3>2 DEF Aside, RefreshSteps
  <2>5. CASE Goto(p, "session") /\ UNCHANGED <<open, proj, reservation, plan>>
    BY <1>5, <2>3, <2>5
  <2> QED BY <2>2, <2>4, <2>5
<1> QED BY <1>6, <1>7, <1>8, <1>9, <1>10

\* CompletePrelaunch leaves its own transaction to be shown.
LEMMA CompletePrelaunchShown ==
  ASSUME IInv, IInv', CachesOK, NEW p \in Process, CompletePrelaunch(p)
  PROVE  CachesOK'
<1>1. /\ Typed /\ pc[p] = "prelaunch" /\ UNCHANGED <<head, caches>>
      /\ pc[p] \in ActiveSteps \ CommittedSteps /\ pc[p] \notin {"dead", "controller_cache"}
  BY DEF IInv, CompletePrelaunch, ActiveSteps, CommittedSteps
<1>2. CASE Leave(p) /\ UNCHANGED <<txns, open, proj>>
  BY <1>1, <1>2, LeavingAside, AsideKeeps
<1>3. CASE /\ End("applied", tree, "feature_preparing", proj.gate, proj.accepted)
           /\ plan' = [plan EXCEPT ![p].via = open] /\ Goto(p, "controller_document")
           /\ UNCHANGED <<reservation, owner>>
  <2>1. head = Base /\ open # 0 /\ txns[open].mode = "prelaunch"
    BY <1>1 DEF IInv, CommandsOK, CommandOK, PlaceOK, OpenOK
  <2>2. Growing /\ open \in DOMAIN txns
    BY <1>1, <1>3, <2>1, EndGrows, Positions
  <2>3. plan' = [plan EXCEPT ![p] = [plan[p] EXCEPT !.via = open]]
    BY <1>1, <1>3 DEF Typed
  <2>4. Only(p) /\ pc'[p] = "controller_document" /\ ReservationsStand(p)
    BY <1>1, <1>3, <2>3, MovingOn DEF ReservationsStand
  <2>5. plan'[p].via = open
    BY <1>1, <2>3 DEF Typed, Plan
  <2>6. CacheOK(p)'
    BY <2>1, <2>2, <2>4, <2>5 DEF CacheOK, Prelaunched, Growing
  <2>7. ~Behind(p) /\ head'.commit # 1
    BY <1>1, <2>1 DEF Behind, Base
  <2> QED BY <1>1, <2>2, <2>4, <2>6, <2>7, CachesStand
<1> QED BY <1>1, <1>2, <1>3 DEF CompletePrelaunch

\* A write of the caches: the ledger, and what it names, stands.
LEMMA CachesWritten ==
  ASSUME IInv, CachesOK, UNCHANGED <<head, txns, open, proj>>,
         NEW p \in Process, Only(p), caches' \in Shown,
         Named(caches'), head.commit = 0 => Prelaunched(caches'.controller),
         Matched(caches') \/ (head.commit = 1 /\ \E q \in Process : Behind(q)'), CacheOK(p)',
         \A q \in Process \ {p} : pc[q] = "controller_cache" => caches'.cycle = caches.cycle,
         caches'.controller = 0 => caches.controller = 0 \/ head.commit = 1
  PROVE  CachesOK'
<1>1. ASSUME NEW q \in Process \ {p}
      PROVE  CacheOK(q)'
  <2>1. pc'[q] = pc[q] /\ plan'[q] = plan[q] /\ CacheOK(q)
    BY DEF Only, CachesOK
  <2> QED BY <2>1 DEF CacheOK, Prelaunched, Named, Matched
<1>2. \A q \in Process : CacheOK(q)'
  BY <1>1
<1>3. Named(caches)'
  BY DEF Named
<1>4. Matched(caches') => Matched(caches)'
  BY DEF Matched, Prelaunched
<1>5. head'.commit = 0 => Prelaunched(caches.controller)'
  BY DEF Prelaunched
<1>6. head'.commit = 1 /\ open' = 0 => proj'.state # "feature_preparing"
  BY DEF CachesOK
<1> QED BY <1>2, <1>3, <1>4, <1>5, <1>6 DEF CachesOK

\* The two writes of a prelaunch recovery, whoever has come before it.
LEMMA RefreshShown ==
  ASSUME IInv, IInv', CachesOK, NEW p \in Process,
         WriteControllerDocument(p) \/ WriteCycleFile(p)
  PROVE  CachesOK'
<1>1. /\ Typed /\ UNCHANGED <<head, txns, open, proj>> /\ pc[p] \in RefreshSteps
      /\ pc[p] \notin {"dead", "controller_cache"}
  BY DEF IInv, WriteControllerDocument, WriteCycleFile, RefreshSteps
<1>2. CASE Leave(p) /\ UNCHANGED caches
  BY <1>1, <1>2, LeavingAside, AsideKeeps
<1>3. /\ caches \in Shown /\ plan[p].via \in Nat /\ CacheOK(p) /\ Prelaunched(plan[p].via)
      /\ plan[p].via <= Len(txns) /\ plan[p].via # 0
  <2>1. plan[p] \in Plan /\ caches \in Shown
    BY <1>1 DEF Typed
  <2>2. CacheOK(p)
    BY DEF CachesOK
  <2>3. Prelaunched(plan[p].via)
    BY <1>1, <2>2 DEF CacheOK
  <2>4. plan[p].via \in 1..Len(txns)
    BY <1>1, <2>3, Positions DEF Prelaunched
  <2> QED BY <2>1, <2>2, <2>3, <2>4 DEF Plan
<1>4. Named(caches)
  BY DEF CachesOK
<1>5. CASE /\ pc[p] = "controller_document"
           /\ caches' = [caches EXCEPT !.controller = plan[p].via]
           /\ Goto(p, "cycle_file") /\ plan' = plan
  <2>1. Only(p) /\ pc'[p] = "cycle_file" /\ plan'[p] = plan[p]
    BY <1>1, <1>5, MovingOn
  <2>2. /\ caches' \in Shown /\ caches'.cycle = caches.cycle
        /\ caches'.controller = plan[p].via
    BY <1>3, <1>5 DEF Shown
  <2>3. Named(caches') /\ Prelaunched(caches'.controller) /\ Matched(caches')
    BY <1>3, <1>4, <2>2 DEF Named, Matched
  <2>4. CacheOK(p)'
    BY <1>1, <1>3, <2>1, <2>2 DEF CacheOK, Prelaunched, RefreshSteps
  <2> QED BY <1>1, <1>3, <2>1, <2>2, <2>3, <2>4, CachesWritten
<1>6. CASE /\ pc[p] = "cycle_file" /\ open = 0 /\ proj.state = "feature_preparing"
           /\ caches' = [caches EXCEPT !.cycle = plan[p].via] /\ Leave(p)
  <2>1. Only(p) /\ pc'[p] = "idle"
    BY <1>1, <1>6, Leaving
  <2>2. /\ caches' \in Shown /\ caches'.cycle = plan[p].via
        /\ caches'.controller = caches.controller
    BY <1>3, <1>6 DEF Shown
  <2>3. head.commit = 0
    <3>1. head \in BranchHead
      BY <1>1 DEF Typed
    <3>2. head.commit \in {0, 1}
      BY <3>1 DEF BranchHead
    <3> QED BY <1>6, <3>2 DEF CachesOK
  <2>4. Prelaunched(caches.controller) /\ caches.controller # 0
    BY <1>3, <1>6, <2>3 DEF CachesOK, CacheOK
  <2>5. Named(caches') /\ Prelaunched(caches'.controller) /\ Matched(caches')
    BY <1>3, <1>4, <2>2, <2>4 DEF Named, Matched
  <2>6. CacheOK(p)'
    BY <2>1 DEF CacheOK, RefreshSteps
  <2>7. \A q \in Process \ {p} : pc[q] # "controller_cache"
    BY <2>3 DEF IInv, CommandsOK, CommandOK, PlaceOK, CacheSteps
  <2> QED BY <1>1, <2>1, <2>2, <2>4, <2>5, <2>6, <2>7, CachesWritten
<1>7. CASE pc[p] = "cycle_file" /\ UNCHANGED caches /\ Leave(p)
  BY <1>2, <1>7
<1> QED BY <1>2, <1>5, <1>6, <1>7 DEF WriteControllerDocument, WriteCycleFile

\* The two writes of a recovery with a handler: what it puts back is what
\* matched before the first.
LEMMA CachesShown ==
  ASSUME IInv, IInv', CachesOK, NEW p \in Process, WriteCycleCache(p) \/ WriteControllerCache(p)
  PROVE  CachesOK'
<1>1. /\ Typed /\ UNCHANGED <<head, txns, open, proj>> /\ pc[p] \in CacheSteps
      /\ caches \in Shown
  BY DEF IInv, WriteCycleCache, WriteControllerCache, CacheSteps, Typed
<1>2. head.commit = 1 /\ reservation = p
  <2>1. head.commit = 1
    BY <1>1 DEF IInv, CommandsOK, CommandOK, PlaceOK
  <2>2. Holding(p)
    BY <1>1 DEF Holding, LateSteps, CacheSteps
  <2> QED BY <2>1, <2>2 DEF IInv, OneCommand
<1>3. \A q \in Process \ {p} : pc[q] # "controller_cache"
  BY <1>1 DEF IInv, Alone, LateSteps, CacheSteps
<1>4. /\ plan[p].via \in Nat /\ plan[p].via <= Len(txns) /\ Len(txns) \in Nat /\ CacheOK(p)
      /\ plan[p] \in Plan
  BY <1>1, Positions DEF IInv, CommandsOK, CommandOK, PlanOK, Typed, Plan, CachesOK
<1>5. CASE pc[p] = "cycle_cache" /\ Leave(p) /\ UNCHANGED caches
  BY <1>1, <1>5, LeavingAside, AsideKeeps
<1>6. CASE /\ pc[p] = "cycle_cache" /\ caches' = [caches EXCEPT !.cycle = plan[p].via]
           /\ plan' = [plan EXCEPT ![p].caches = caches] /\ Goto(p, "controller_cache")
  <2>1. PICK e \in Plan : /\ e = [plan[p] EXCEPT !.caches = caches]
                          /\ e.caches = caches /\ e.via = plan[p].via
    <3>1. PICK s \in Plan : s = plan[p]
      BY <1>4
    <3> DEFINE f == [s EXCEPT !.caches = caches]
    <3>2. f \in Plan /\ f.caches = caches /\ f.via = s.via
      BY <1>1 DEF Plan
    <3> QED BY <3>1, <3>2
  <2>2. plan' = [plan EXCEPT ![p] = e]
    BY <1>1, <1>6, <2>1 DEF Typed
  <2>3. Only(p) /\ pc'[p] = "controller_cache" /\ plan'[p] = e
    BY <1>1, <1>6, <2>2, MovingOn DEF Typed
  <2>4. caches' \in Shown /\ caches'.cycle = plan[p].via /\ caches'.controller = caches.controller
    BY <1>1, <1>4, <1>6 DEF Shown
  <2>5. Named(caches) /\ Matched(caches)
    <3>1. ASSUME NEW q \in Process, Behind(q)
          PROVE  FALSE
      <4>1. q # p
        BY <1>6, <3>1 DEF Behind
      <4> QED BY <1>2, <1>3, <3>1, <4>1 DEF Behind
    <3> QED BY <3>1 DEF CachesOK
  <2>6. Named(caches')
    BY <1>4, <2>4, <2>5 DEF Named
  <2>7. CacheOK(p)'
    BY <1>1, <2>1, <2>3, <2>4, <2>5 DEF CacheOK, RefreshSteps, Named, Matched, Prelaunched
  <2>8. Behind(p)'
    BY <2>1, <2>3, <2>4 DEF Behind
  <2> QED BY <1>1, <1>2, <1>3, <2>3, <2>4, <2>6, <2>7, <2>8, CachesWritten
<1>7. CASE pc[p] = "controller_cache" /\ WriteControllerCache(p)
  <2>1. /\ caches.cycle = plan[p].via
        /\ Named(plan[p].caches) /\ Matched(plan[p].caches)
    BY <1>4, <1>7 DEF CacheOK
  <2>2. Only(p) /\ pc'[p] = "idle"
    BY <1>1, <1>7, Leaving DEF WriteControllerCache
  <2>3. CacheOK(p)'
    BY <2>2 DEF CacheOK, RefreshSteps
  <2>4. /\ caches' \in Shown /\ Named(caches') /\ Matched(caches')
    <3>1. CASE caches' = plan[p].caches
      BY <1>4, <2>1, <3>1 DEF Plan
    <3>2. CASE caches' = [caches EXCEPT !.controller = plan[p].via]
      BY <1>1, <1>4, <2>1, <3>2 DEF Shown, Named, Matched
    <3> QED BY <1>7, <3>1, <3>2 DEF WriteControllerCache
  <2> QED BY <1>1, <1>2, <1>3, <2>2, <2>3, <2>4, CachesWritten
<1> QED BY <1>5, <1>6, <1>7 DEF WriteCycleCache, WriteControllerCache

\* A death between the two writes leaves the second to nobody.
LEMMA DieShown ==
  ASSUME IInv, IInv', CachesOK, NEW p \in Process, Die(p)
  PROVE  CachesOK'
<1>1. /\ Typed /\ Goto(p, "dead") /\ plan' = plan
      /\ UNCHANGED <<head, txns, open, proj, caches, reservation>> /\ pc[p] # "dead"
  BY DEF IInv, Die
<1>2. Only(p) /\ pc'[p] = "dead" /\ Growing /\ ReservationsStand(p)
  BY <1>1, MovingOn, LedgerStands DEF ReservationsStand
<1>3. Behind(p) => Behind(p)'
  <2>1. pc[p] = "controller_cache" => reservation = p
    BY DEF IInv, OneCommand, Holding, LateSteps, CacheSteps
  <2> QED BY <1>1, <1>2, <2>1 DEF Behind
<1>4. CacheOK(p)'
  BY <1>2 DEF CacheOK, RefreshSteps
<1>5. head'.commit = 1 /\ open' = 0 => proj'.state # "feature_preparing"
  BY <1>1 DEF CachesOK
<1> QED BY <1>1, <1>2, <1>3, <1>4, <1>5, CachesStand

\* ... and a step that nobody takes changes nothing of this.
LEMMA NobodyShown ==
  ASSUME CachesOK, UNCHANGED <<head, txns, open, proj, caches, reservation, pc, plan>>
  PROVE  CachesOK'
<1>1. \A q \in Process : CacheOK(q)' /\ (Behind(q) => Behind(q)')
  BY DEF CachesOK, CacheOK, Behind, Prelaunched, Named, Matched
<1>2. Named(caches)' /\ (Matched(caches) => Matched(caches)')
  BY DEF CachesOK, Named, Matched, Prelaunched
<1>3. head'.commit = 0 => caches'.controller = 0 \/ Prelaunched(caches.controller)'
  BY DEF CachesOK, Prelaunched
<1>4. head'.commit = 1 /\ open' = 0 => proj'.state # "feature_preparing"
  BY DEF CachesOK
<1>5. Matched(caches)' \/ (head'.commit = 1 /\ \E q \in Process : Behind(q)')
  BY <1>1, <1>2 DEF CachesOK
<1> QED BY <1>1, <1>2, <1>3, <1>4, <1>5 DEF CachesOK

LEMMA InitShown ==
  ASSUME Init
  PROVE  CachesOK
<1>1. /\ txns = <<>> /\ Len(txns) = 0 /\ caches.cycle = 0 /\ caches.controller = 0
      /\ head.commit = 0 /\ \A p \in Process : pc[p] = "idle"
  BY DEF Init, NoCaches, Base
<1> QED BY <1>1 DEF CachesOK, Named, Matched, CacheOK, RefreshSteps

\* The invariant of the caches.
LEMMA CachesKept ==
  ASSUME IInv, IInv', CachesOK, [Next]_vars
  PROVE  CachesOK'
<1>1. CASE UNCHANGED vars \/ Drift
  <2>1. UNCHANGED <<head, txns, open, proj, caches, reservation, pc, plan>>
    BY <1>1 DEF vars, Drift
  <2> QED BY <2>1, NobodyShown
<1>2. ASSUME NEW p \in Process, Execute(p)
      PROVE  CachesOK'
  BY <1>2, ExecutionAside, AsideKeeps
<1>3. ASSUME NEW p \in Process, Recover(p)
      PROVE  CachesOK'
  <2>1. CASE Inspect(p) \/ Reserve(p) \/ Revalidate(p) \/ BeginRecovery(p)
    BY <2>1, PlanningAside, BeginningAside, AsideKeeps
  <2>2. CASE CompletePrelaunch(p) \/ WriteControllerDocument(p) \/ WriteCycleFile(p)
             \/ WriteCycleCache(p) \/ WriteControllerCache(p)
    BY <2>2, CompletePrelaunchShown, RefreshShown, CachesShown
  <2>3. CASE HostCommandFails(p) \/ HostCommandsPass(p) \/ WriteMetadata(p)
             \/ Finalize(p) \/ FinalizeRefused(p) \/ GitFails(p) \/ FinalizeUnclean(p)
             \/ FinalizeRepair(p)
    BY <2>3, ApplyAside, AsideKeeps
  <2>4. CASE RunRepairSession(p) \/ AttemptPasses(p) \/ ResolveGate(p) \/ Complete(p)
             \/ \E f \in {"alias", "environment", "other"} : AttemptFails(p, f)
    BY <2>4, SessionsAside, AsideKeeps
  <2> QED BY <1>3, <2>1, <2>2, <2>3, <2>4 DEF Recover
<1>4. ASSUME NEW p \in Process, NEW r \in Route, Invoke(p, r)
      PROVE  CachesOK'
  BY <1>4, PlanningAside, AsideKeeps
<1> QED BY <1>1, <1>2, <1>3, <1>4, DieShown DEF Next, Route

THEOREM CachesInvariance == Spec => []CachesOK
BY Invariance, InitShown, CachesKept, PTL DEF Spec

-----------------------------------------------------------------------------
(* The properties.                                                         *)

\* Every state is one of those the vocabularies name, and a transaction is
\* open exactly while its record says so.
THEOREM TypeCorrectness == Spec => []TypeOK
<1>1. ASSUME IInv, CachesOK
      PROVE  TypeOK
  <2>1. Typed /\ LedgerOK
    BY <1>1 DEF IInv
  <2>2. ASSUME NEW t \in DOMAIN txns
        PROVE  /\ txns[t].mode \in {"execution", "prelaunch"} \cup Recovering
               /\ {txns[t].start, txns[t].end} \subseteq Tree
               /\ (txns[t].outcome = "open") <=> (t = open)
    <3>1. txns[t] \in Record /\ EntryOK(t)
      BY <2>1, Positions DEF LedgerOK
    <3> QED BY <3>1, RecordTypes DEF EntryOK, Route
  <2>3. {proj.gate, caches.cycle, caches.controller} \subseteq 0..Len(txns)
    <3>1. /\ proj.gate \in Nat /\ caches.cycle \in Nat /\ caches.controller \in Nat
          /\ Len(txns) \in Nat /\ proj.gate <= Len(txns)
      BY <2>1, Positions DEF Typed, Projection, Shown
    <3> QED BY <1>1, <3>1 DEF CachesOK, Named
  <2>4. tree \in Tree /\ head.commit \in Nat /\ head.impl \in Version
    BY <2>1 DEF Typed, BranchHead
  <2>5. /\ proj.state \in {"feature_preparing", "validation_failed", "human_decision_required",
                           "review", "integration_pending"}
        /\ {reservation, owner} \subseteq Process \cup {NoProcess}
    BY <2>1 DEF Typed, Projection
  <2> QED BY <2>2, <2>3, <2>4, <2>5 DEF TypeOK
<1> QED BY <1>1, Invariance, CachesInvariance, PTL

\* Result recovery and repair recovery accept the implementation that a
\* session left, for any number of commands and any edits meanwhile.
THEOREM BytesArePreserved == Spec => []RetainedBytesPreserved
<1>1. ASSUME IInv
      PROVE  RetainedBytesPreserved
  BY <1>1 DEF IInv, LedgerOK, EntryOK, RetainedBytesPreserved
<1> QED BY <1>1, Invariance, PTL

\* The gate of a retained result is resolved by the feature's commit only.
THEOREM GateWaitsForCommit == Spec => []GateResolvedByCommit
<1>1. ASSUME IInv
      PROVE  GateResolvedByCommit
  BY <1>1 DEF IInv, GateOK, GateResolvedByCommit
<1> QED BY <1>1, Invariance, PTL

\* A pair has two elements at most.
LEMMA PairHasTwo ==
  ASSUME NEW a, NEW b, NEW Z \in SUBSET {a, b}
  PROVE  Cardinality(Z) <= 2
<1>1. IsFiniteSet({a}) /\ Cardinality({a}) = 1
  BY FS_Singleton
<1>2. /\ IsFiniteSet({a} \cup {b})
      /\ Cardinality({a} \cup {b}) = IF b \in {a} THEN Cardinality({a}) ELSE Cardinality({a}) + 1
  BY <1>1, FS_AddElement
<1>3. {a, b} = {a} \cup {b}
  OBVIOUS
<1>4. IsFiniteSet({a, b}) /\ Cardinality({a, b}) \in {1, 2}
  BY <1>1, <1>2, <1>3
<1>5. IsFiniteSet(Z) /\ Cardinality(Z) <= Cardinality({a, b})
  BY <1>4, FS_Subset
<1>6. Cardinality(Z) \in Nat
  BY <1>5, FS_CardinalityType
<1> QED BY <1>4, <1>5, <1>6

\* A retained result is repaired by one repair, of two sessions at most:
\* what the gate waits for is unrepaired, and only that is repaired.
THEOREM SessionsAreBounded == Spec => []RepairSessionsBounded
<1>1. ASSUME IInv
      PROVE  RepairSessionsBounded
  <2>1. ASSUME NEW o \in DOMAIN txns
        PROVE  Cardinality({ti \in {t \in DOMAIN txns : txns[t].mode = "repair"
                                                        /\ txns[t].origin = o}
                                   \X (1..MaxAttempts) :
                              ti[2] <= Len(txns[ti[1]].attempts)}) <= MaxAttempts
    <3> DEFINE R == {t \in DOMAIN txns : txns[t].mode = "repair" /\ txns[t].origin = o}
               Z == {ti \in R \X (1..MaxAttempts) : ti[2] <= Len(txns[ti[1]].attempts)}
    <3>1. \A t, u \in R : t = u
      BY <1>1 DEF IInv, RepairsOK
    <3>2. PICK t : R \subseteq {t}
      BY <3>1
    <3>3. Z \subseteq R \X (1..2)
      BY DEF MaxAttempts
    <3> HIDE DEF R, Z
    <3>4. Z \subseteq {<<t, 1>>, <<t, 2>>}
      BY <3>2, <3>3
    <3>5. Cardinality(Z) <= 2
      BY <3>4, PairHasTwo
    <3> QED BY <3>5 DEF R, Z, MaxAttempts
  <2> QED BY <2>1 DEF RepairSessionsBounded
<1> QED BY <1>1, Invariance, PTL

\* A recovery that fails without a commit leaves no acceptance metadata
\* behind; a deterministic one leaves the tree as it found it.
THEOREM FailureIsHarmless == Spec => []FailurePreservesDiff
<1>1. ASSUME IInv
      PROVE  FailurePreservesDiff
  BY <1>1 DEF IInv, LedgerOK, EntryOK, FailurePreservesDiff
<1> QED BY <1>1, Invariance, PTL

\* The project document is behind the cycle cache only while the second
\* write of a recovery with a handler is outstanding; apart from that a
\* disagreement is a prelaunch recovery's.
THEOREM CachesStayTogether == Spec => []CachesAgree
<1>1. ASSUME IInv, CachesOK
      PROVE  CachesAgree
  <2>1. CASE Matched(caches)
    <3>1. 0 \notin DOMAIN txns
      BY <1>1, Positions DEF IInv
    <3> QED BY <2>1, <3>1 DEF Matched, Prelaunched, CachesAgree
  <2>2. CASE \E p \in Process : Behind(p)
    BY <2>2 DEF Behind, CachesAgree
  <2> QED BY <1>1, <2>1, <2>2 DEF CachesOK
<1> QED BY <1>1, Invariance, CachesInvariance, PTL
=============================================================================
