-------------------------- MODULE ProjectCycleProofs --------------------------
(***************************************************************************)
(* Proofs about ProjectCycle, for every set of features and dependencies,  *)
(* every set of engines and every bound.                                   *)
(*                                                                         *)
(* The argument.  An engine past the reservation is the only one           *)
(* (HandOK).  What its dispatch checked is then out of the reach of the    *)
(* other engines, but not of deliver-feature, of accept-feature and of the *)
(* operator, who take no reservation: of a plan only what those cannot     *)
(* undo stays true - the milestone only grows, and the commit the plan     *)
(* starts from stays what it is - and the rest is checked again when a     *)
(* transaction begins, from where on the open transaction keeps the        *)
(* operator from the checkout (HandOK's AtWork).                           *)
(***************************************************************************)
EXTENDS ProjectCycle, WellFoundedInduction, TLAPS

Statuses == {"ready", "pending", "integrated"}

QueueDocument == [status : [Feature -> Statuses], gate : {"open", "passed"}]

SomeFeature == Feature \cup {NoFeature}

Projection ==
  [state : States, current : SomeFeature, selected : SomeFeature, start : Nat,
   accepted : SUBSET Feature, integrated : SUBSET Feature, last : Nat,
   imported : SomeFeature]

Typed ==
  /\ milestone \in Seq(QueueDocument) /\ milestone # <<>>
  /\ branch \in [Feature -> [base : Nat, implemented : BOOLEAN]]
  /\ checkout \in SomeFeature /\ linked \in BOOLEAN /\ tree \in {"clean", "dirty"}
  /\ proj \in Projection
  /\ prepared \in [Feature -> Nat]
  /\ open \in [kind : {"none", "preparation", "execution", "integration", "gate"},
               feature : SomeFeature]
  /\ seq \in Nat
  /\ cycle \in [seq : Nat, phase : States \cup {"none", "feature_selected"}]
  /\ doc \in States
  /\ reservation \in Process \cup {NoProcess}
  /\ pc \in [Process -> Steps]
  /\ plan = [p \in Process |-> plan[p]]
  /\ deaths \in 0..MaxDeaths

\* commits named are commits of the milestone, records named are in the ledger
Bounded ==
  /\ \A f \in Feature : branch[f].base <= Tip /\ prepared[f] <= Tip
  /\ proj.start <= Tip /\ proj.last <= Tip
  /\ cycle.seq <= seq

(* What the ledger's projection says of the repository: what it accepted   *)
(* has an implementation, what has an implementation has a start, and its  *)
(* gate states are those of the milestone tip.                             *)
Faithful ==
  /\ \A f \in proj.accepted : branch[f].implemented
  /\ \A f \in Feature : branch[f].implemented => branch[f].base # NoCommit
  /\ proj.state = "milestone_gate" => MilestoneComplete(milestone[Tip])
  /\ proj.state = "milestone_ready_for_merge" => milestone[Tip].gate = "passed"

\* past the reservation
Held == Steps \ {"idle", "planned", "preflighted"}

\* with a transaction open
AtWork == {"preparing", "launching", "running", "integrating", "gating"}

OnFeature == {"prepare", "preparing", "prepared", "verified", "launching",
              "running", "candidate"}

InSession == {"launching", "running"}

(* One engine: it is the one with the reservation, its transaction is      *)
(* open, and what is left of the checks its step has behind it.            *)
HandOK(p) ==
  LET e == plan[p] IN
  /\ pc[p] \in Held => reservation = p
  /\ pc[p] \in AtWork => open.kind # "none"
  /\ pc[p] \in OnFeature =>
       /\ e.feature \in Feature /\ e.feature \notin proj.integrated
       /\ e.start \in Nat /\ 0 < e.start /\ e.start <= Tip
       /\ e.view.state \in {"feature_ready", "feature_preparing"}
       /\ DependenciesComplete(milestone[e.start], e.feature)
       /\ pc[p] # "candidate" => ~branch[e.feature].implemented
  /\ pc[p] \in InSession => checkout = e.feature /\ branch[e.feature].base = e.start
  /\ pc[p] \in {"integrate", "integrating"} => e.feature \in Feature
  /\ pc[p] \in {"gate", "gating"} =>
       e.view.state = "milestone_gate" /\ MilestoneComplete(milestone[Tip])

IInv ==
  /\ Typed
  /\ Bounded
  /\ Faithful
  /\ BoundCacheAgrees
  /\ \A p \in Process : HandOK(p)

-----------------------------------------------------------------------------
(* The milestone and the queue.                                            *)

\* The smallest of some numbers is one of them: no operator of the queue
\* invents a feature.
LEMMA LeastIsOne ==
  ASSUME NEW S \in SUBSET Nat, S # {}
  PROVE  Min(S) \in S
<1> DEFINE R == {ss \in Nat \X Nat : ss[1] < ss[2]}
<1>1. IsWellFoundedOn(R, Nat)
  BY NatLessThanWellFounded DEF OpToRel
<1>2. PICK x \in S : \A y \in S : ~(<<y, x>> \in R)
  <2> HIDE DEF R
  <2> QED BY <1>1, WFMin
<1>3. \A y \in S : x =< y
  <2> SUFFICES ASSUME NEW y \in S PROVE x =< y
    OBVIOUS
  <2>1. ~(<<y, x>> \in R) /\ x \in Nat /\ y \in Nat
    BY <1>2
  <2>2. <<y, x>> \in Nat \X Nat /\ <<y, x>>[1] = y /\ <<y, x>>[2] = x
    BY <2>1
  <2>3. ~(y < x)
    BY <2>1, <2>2
  <2> QED BY <2>1, <2>3
<1> QED BY <1>3 DEF Min

LEMMA SelectNextTyped ==
  ASSUME NEW q
  PROVE  SelectNext(q) \in SomeFeature
<1>1. ReadyFeatures(q) \subseteq Feature /\ Feature \subseteq Nat
  BY CycleConstants DEF ReadyFeatures
<1>2. ReadyFeatures(q) # {} => Min(ReadyFeatures(q)) \in ReadyFeatures(q)
  BY <1>1, LeastIsOne
<1> QED BY <1>1, <1>2 DEF SelectNext, SomeFeature

LEMMA TipTyped ==
  ASSUME Typed
  PROVE  Tip \in Nat /\ 0 < Tip /\ milestone[Tip] \in QueueDocument
<1>1. milestone \in Seq(QueueDocument) /\ milestone # <<>>
  BY DEF Typed
<1>2. Len(milestone) \in Nat /\ 0 < Len(milestone)
  BY <1>1
<1> QED BY <1>1, <1>2 DEF Tip

\* A commit is added at the tip; those before it stay.
LEMMA Appended ==
  ASSUME Typed, NEW q \in QueueDocument, milestone' = Append(milestone, q)
  PROVE  /\ milestone' \in Seq(QueueDocument) /\ milestone' # <<>>
         /\ Tip' = Tip + 1 /\ milestone'[Tip'] = q
         /\ \A c \in 1..Tip : milestone'[c] = milestone[c]
<1>1. milestone \in Seq(QueueDocument)
  BY DEF Typed
<1>2. Append(milestone, q) \in Seq(QueueDocument) /\ Len(Append(milestone, q)) = Len(milestone) + 1
      /\ Append(milestone, q)[Len(milestone) + 1] = q
      /\ \A c \in 1..Len(milestone) : Append(milestone, q)[c] = milestone[c]
  BY <1>1
<1>3. Len(milestone) \in Nat /\ Len(<<>>) = 0
  BY <1>1
<1>4. milestone' # <<>>
  BY <1>2, <1>3
<1> QED BY <1>2, <1>4 DEF Tip

\* An integration adds one integrated feature, and takes none back.
LEMMA IntegratedGrows ==
  ASSUME Typed, NEW f \in Feature
  PROVE  /\ Integrated(f) \in QueueDocument
         /\ Integrated(f).gate = milestone[Tip].gate
         /\ \A g \in Feature : DependenciesComplete(milestone[Tip], g)
                                 => DependenciesComplete(Integrated(f), g)
         /\ MilestoneComplete(milestone[Tip]) => MilestoneComplete(Integrated(f))
<1>1. milestone[Tip] \in QueueDocument
  BY TipTyped
<1>2. Integrated(f) \in QueueDocument /\ Integrated(f).gate = milestone[Tip].gate
  BY <1>1 DEF Integrated, QueueDocument, Statuses
<1>3. \A g \in Feature : milestone[Tip].status[g] = "integrated"
                           => Integrated(f).status[g] = "integrated"
  BY <1>1 DEF Integrated, QueueDocument
<1>4. \A g \in Feature : Dependencies[g] \subseteq Feature
  BY CycleConstants
<1> QED BY <1>2, <1>3, <1>4 DEF DependenciesComplete, MilestoneComplete

LEMMA GatePassedGrows ==
  ASSUME Typed
  PROVE  /\ GatePassed \in QueueDocument
         /\ GatePassed.gate = "passed" /\ GatePassed.status = milestone[Tip].status
<1>1. milestone[Tip] \in QueueDocument
  BY TipTyped
<1> QED BY <1>1 DEF GatePassed, QueueDocument

-----------------------------------------------------------------------------
(* The projection and the plan.                                            *)

Actions ==
  {"feature_cycle", "milestone_integration", "queue_reconciliation", "milestone_gate",
   "human_decision_resolution", "human_merge_approval", "verify_consistency"}

ViewRecord ==
  [state : States, current : SomeFeature, selected : SomeFeature, start : Nat,
   accepted : BOOLEAN, prepared : BOOLEAN, action : Actions]

\* a view of a state, with the action that state asks for
Routed(v) == v \in ViewRecord /\ v.action = NextAction(v.state)

LEMMA NextActions ==
  ASSUME NEW s \in States
  PROVE  /\ NextAction(s) = "feature_cycle" => s \in {"feature_ready", "feature_preparing"}
         /\ NextAction(s) = "milestone_gate" => s = "milestone_gate"
         /\ NextAction(s) \in Actions
  BY DEF NextAction, States, BlockedStates, Actions

LEMMA SettledTyped ==
  ASSUME proj \in Projection
  PROVE  /\ Settled \in Projection
         /\ Settled.state # proj.state => Settled.state = "queue_reconciliation"
  BY DEF Settled, Projection, SomeFeature, States, BlockedStates

LEMMA ViewRouted ==
  ASSUME proj \in Projection
  PROVE  /\ Routed(View) /\ ~View.prepared
         /\ View.state = "milestone_gate" => proj.state = "milestone_gate"
<1> DEFINE s == IF open.kind = "none" THEN Settled ELSE proj
<1>1. s \in Projection /\ (s.state = "milestone_gate" => proj.state = "milestone_gate")
  BY SettledTyped
<1>2. /\ View.state = s.state /\ View.current = s.current /\ View.selected = s.selected
      /\ View.start = s.start /\ View.prepared = FALSE /\ View.accepted \in BOOLEAN
      /\ View.action = NextAction(s.state)
      /\ View = [state |-> View.state, current |-> View.current, selected |-> View.selected,
                 start |-> View.start, accepted |-> View.accepted, action |-> View.action,
                 prepared |-> View.prepared]
  BY DEF View
<1> HIDE DEF s
<1>3. s.state \in States /\ s.current \in SomeFeature /\ s.selected \in SomeFeature
      /\ s.start \in Nat
  BY <1>1 DEF Projection
<1>4. View.action \in Actions
  BY <1>2, <1>3, NextActions
<1> QED BY <1>1, <1>2, <1>3, <1>4 DEF Routed, ViewRecord

\* Binding to the queue keeps the action that of the state, and never makes the
\* gate the next step.
LEMMA BindRouted ==
  ASSUME NEW v, Routed(v), NEW q
  PROVE  /\ Routed(Bind(v, q)) /\ (Bind(v, q).prepared <=> v.prepared)
         /\ Bind(v, q).state = "milestone_gate" => v.state = "milestone_gate"
<1> DEFINE f == IF v.action = "feature_cycle" /\ Identity(v) # NoFeature
                THEN Identity(v) ELSE SelectNext(q)
           state == IF f = NoFeature THEN "queue_reconciliation" ELSE "feature_ready"
           w == [v EXCEPT !.state = state, !.action = NextAction(state),
                          !.current = f, !.selected = f, !.accepted = FALSE]
<1>1. Bind(v, q) = IF Unbound(v, q) THEN v ELSE w
  BY DEF Bind
<1>2. v \in ViewRecord
  BY DEF Routed
<1>3. Identity(v) \in SomeFeature
  BY <1>2 DEF ViewRecord, Identity
<1>4. f \in SomeFeature
  BY <1>3, SelectNextTyped
<1>5. state \in States /\ state # "milestone_gate"
  BY DEF States
<1>6. NextAction(state) \in Actions
  BY <1>5, NextActions
<1> HIDE DEF f, state
<1>7. w \in ViewRecord /\ w.state = state /\ w.action = NextAction(state)
      /\ w.prepared = v.prepared
  BY <1>2, <1>4, <1>5, <1>6 DEF ViewRecord
<1> QED BY <1>1, <1>5, <1>7 DEF Routed

LEMMA BindPreparedRouted ==
  ASSUME prepared \in [Feature -> Nat], NEW v, Routed(v), ~v.prepared, NEW q
  PROVE  /\ Routed(BindPrepared(v, q))
         /\ BindPrepared(v, q).prepared => BindPrepared(v, q).action = "feature_cycle"
         /\ BindPrepared(v, q).state = "milestone_gate" => v.state = "milestone_gate"
<1> DEFINE w == [v EXCEPT !.start = prepared[Identity(v)], !.prepared = TRUE,
                          !.state = IF /\ checkout = Identity(v) /\ tree = "clean"
                                       /\ HeadCommit = prepared[Identity(v)]
                                    THEN "feature_preparing" ELSE @]
<1>1. v \in ViewRecord /\ v.action = NextAction(v.state)
  BY DEF Routed
<1>2. ReadyFeatures(q) = {Identity(v)} => prepared[Identity(v)] \in Nat
  BY DEF ReadyFeatures
<1>3. v.action = "feature_cycle" => NextAction("feature_preparing") = v.action
  BY DEF NextAction
<1>4. BindPrepared(v, q) = v \/
      (/\ BindPrepared(v, q) = w
       /\ v.action = "feature_cycle" /\ prepared[Identity(v)] \in Nat)
  BY <1>2 DEF BindPrepared
<1>5. ASSUME v.action = "feature_cycle", prepared[Identity(v)] \in Nat
      PROVE  /\ w \in ViewRecord /\ w.action = v.action
             /\ w.state \in {v.state, "feature_preparing"}
  BY <1>1, <1>5 DEF ViewRecord, States
<1> HIDE DEF w
<1>6. CASE BindPrepared(v, q) = v
  BY <1>6
<1>7. CASE /\ BindPrepared(v, q) = w
           /\ v.action = "feature_cycle" /\ prepared[Identity(v)] \in Nat
  BY <1>1, <1>3, <1>5, <1>7 DEF Routed
<1> QED BY <1>4, <1>6, <1>7

\* What a plan says: the feature is one of the queue, the action is the one of
\* the state, the gate is the projection's own, and only the plan of a feature
\* starts on a prepared branch.
LEMMA ContextRouted ==
  ASSUME Typed
  PROVE  /\ Authoritative.state \in States
         /\ Identity(Authoritative) \in SomeFeature
         /\ Authoritative.action = "feature_cycle"
              => Authoritative.state \in {"feature_ready", "feature_preparing"}
         /\ Authoritative.action = "milestone_gate"
              => Authoritative.state = "milestone_gate" /\ proj.state = "milestone_gate"
         /\ Authoritative.prepared => Authoritative.action = "feature_cycle"
         /\ Context.view = Authoritative /\ Context.feature = Identity(Authoritative)
<1>1. proj \in Projection /\ prepared \in [Feature -> Nat]
  BY DEF Typed
<1>2. /\ Routed(View) /\ ~View.prepared /\ (View.state = "milestone_gate" => proj.state = "milestone_gate")
  BY <1>1, ViewRouted
<1>3. PICK b : b = Bind(View, Queue)
  OBVIOUS
<1>4. Routed(b) /\ ~b.prepared /\ (b.state = "milestone_gate" => proj.state = "milestone_gate")
  BY <1>2, <1>3, BindRouted
<1>5. PICK a : a = BindPrepared(b, Queue)
  OBVIOUS
<1>6. /\ Routed(a) /\ (a.state = "milestone_gate" => proj.state = "milestone_gate")
      /\ a.prepared => a.action = "feature_cycle"
  BY <1>1, <1>4, <1>5, BindPreparedRouted
<1>7. a = Authoritative
  BY <1>3, <1>5 DEF Authoritative
<1>8. a \in ViewRecord /\ a.action = NextAction(a.state) /\ a.state \in States
  BY <1>6 DEF Routed, ViewRecord
<1>9. Identity(a) \in SomeFeature
  BY <1>8 DEF ViewRecord, Identity
<1>10. Context.view = Authoritative /\ Context.feature = Identity(Authoritative)
  BY DEF Context, ExecutionPlan
<1> QED BY <1>6, <1>7, <1>8, <1>9, <1>10, NextActions

\* With the projection that a terminal event leaves, the view is its state,
\* but for a feature the ledger integrated.
LEMMA ClosedTyped ==
  ASSUME proj \in Projection, NEW next \in States, NEW f \in SomeFeature, NEW last \in Nat
  PROVE  LET c == Closed(next, f, last) IN
         /\ c \in Projection
         /\ c.state = next /\ c.current = f /\ c.selected = NoFeature /\ c.last = last
         /\ c.accepted = proj.accepted /\ c.integrated = proj.integrated
         /\ c.start = proj.start /\ c.imported = proj.imported
  BY DEF Closed, Projection, SomeFeature

LEMMA StartedTyped ==
  ASSUME proj \in Projection, NEW f \in SomeFeature,
         NEW kind \in {"preparation", "execution", "integration", "gate"}
  PROVE  LET c == Started(kind, f) IN
         /\ c \in Projection
         /\ c.state = ActiveState(kind)
         /\ c.accepted = proj.accepted /\ c.integrated = proj.integrated
         /\ c.start = proj.start /\ c.last = proj.last
  BY DEF Started, ActiveState, Projection, SomeFeature, States, BlockedStates

-----------------------------------------------------------------------------
(* The engines.                                                            *)

LEMMA Engines ==
  ASSUME Typed, NEW p \in Process, NEW step \in Steps, Goto(p, step)
  PROVE  /\ pc' \in [Process -> Steps] /\ plan' = [r \in Process |-> plan'[r]]
         /\ pc'[p] = step
         /\ step # "idle" => plan'[p] = plan[p]
         /\ \A r \in Process \ {p} : pc'[r] = pc[r] /\ plan'[r] = plan[r]
<1>1. pc \in [Process -> Steps] /\ plan = [r \in Process |-> plan[r]]
  BY DEF Typed
<1>2. /\ pc' \in [Process -> Steps] /\ pc'[p] = step
      /\ \A r \in Process \ {p} : pc'[r] = pc[r]
  BY <1>1 DEF Goto
<1>3. CASE step = "idle"
  BY <1>1, <1>2, <1>3 DEF Goto
<1>4. CASE step # "idle"
  BY <1>1, <1>2, <1>4 DEF Goto
<1> QED BY <1>3, <1>4

\* The reservation is held by one.
LEMMA HeldByOne ==
  ASSUME NEW p \in Process, NEW r \in Process, HandOK(p), HandOK(r),
         pc[p] \in Held, pc[r] \in Held
  PROVE  p = r
  BY DEF HandOK

\* An engine that is not past the reservation answers for nothing.
LEMMA Unheld ==
  ASSUME NEW r, pc'[r] \notin Held
  PROVE  HandOK(r)'
  BY DEF HandOK, Held, Steps, AtWork, OnFeature, InSession

\* While the engine p is past the reservation, the others are not.
LEMMA OthersWait ==
  ASSUME NEW p \in Process, \A r \in Process : HandOK(r), pc[p] \in Held,
         \A r \in Process \ {p} : pc'[r] = pc[r]
  PROVE  \A r \in Process \ {p} : HandOK(r)'
<1> SUFFICES ASSUME NEW r \in Process \ {p} PROVE HandOK(r)'
  OBVIOUS
<1>1. pc'[r] \notin Held
  BY HeldByOne
<1> QED BY <1>1, Unheld

LEMMA HandsReleased ==
  ASSUME Typed, NEW p \in Process, \A r \in Process : HandOK(r), pc[p] \in Held, Release(p)
  PROVE  /\ pc' \in [Process -> Steps] /\ plan' = [r \in Process |-> plan'[r]]
         /\ reservation' \in Process \cup {NoProcess}
         /\ \A r \in Process : HandOK(r)'
<1>1. "idle" \in Steps /\ "idle" \notin Held /\ Goto(p, "idle") /\ reservation' = NoProcess
  BY DEF Release, Steps, Held
<1>2. /\ pc' \in [Process -> Steps] /\ plan' = [r \in Process |-> plan'[r]]
      /\ pc'[p] = "idle" /\ \A r \in Process \ {p} : pc'[r] = pc[r]
  BY <1>1, Engines
<1>3. HandOK(p)'
  BY <1>1, <1>2, Unheld
<1>4. \A r \in Process \ {p} : HandOK(r)'
  BY <1>2, OthersWait
<1> QED BY <1>1, <1>2, <1>3, <1>4

\* Steps that leave alone what the handlers have looked at.
LEMMA HandsKept ==
  ASSUME \A r \in Process : HandOK(r),
         UNCHANGED <<milestone, branch, checkout, open, reservation>>,
         proj'.integrated = proj.integrated,
         \A r \in Process : pc'[r] \notin Held \/ (pc'[r] = pc[r] /\ plan'[r] = plan[r])
  PROVE  \A r \in Process : HandOK(r)'
<1> SUFFICES ASSUME NEW r \in Process PROVE HandOK(r)'
  OBVIOUS
<1>1. CASE pc'[r] \notin Held
  BY <1>1, Unheld
<1>2. CASE pc'[r] = pc[r] /\ plan'[r] = plan[r]
  <2>1. HandOK(r)
    OBVIOUS
  <2> QED BY <1>2, <2>1 DEF HandOK, Tip, DependenciesComplete, MilestoneComplete
<1> QED BY <1>1, <1>2

-----------------------------------------------------------------------------
(* The cycle cache.                                                        *)

\* A cache that follows the terminal projection says what the ledger says.
LEMMA CacheFollows ==
  ASSUME open'.kind = "none", proj'.current \notin proj'.integrated,
         cycle'.phase = proj'.state
  PROVE  BoundCacheAgrees'
  BY DEF BoundCacheAgrees, View, Settled

\* A cache that is behind the ledger says nothing of it.
LEMMA CacheBehind ==
  ASSUME cycle'.seq # seq' \/ seq' = 0 \/ open'.kind # "none"
  PROVE  BoundCacheAgrees'
  BY DEF BoundCacheAgrees

LEMMA CacheKept ==
  ASSUME BoundCacheAgrees, UNCHANGED <<proj, open, seq, cycle>>
  PROVE  BoundCacheAgrees'
  BY DEF BoundCacheAgrees, View, Settled

\* A state of the project document the machine allows.
LEMMA Moves ==
  /\ Transition("queue_reconciliation", "feature_ready") = "feature_ready"
  /\ \A s \in {"feature_ready", "feature_preparing"} :
        /\ Transition(s, "feature_running") = "feature_running"
        /\ Transition(s, "human_decision_required") = "human_decision_required"
  /\ \A s \in BlockedStates :
        Transition("feature_running", s) = s /\ Transition("milestone_gate", s) = s
  /\ Transition("milestone_gate", "milestone_gate") = "milestone_gate"
  /\ Transition("milestone_gate", "milestone_ready_for_merge") = "milestone_ready_for_merge"
  BY DEF Transition, MayBecome, BlockedStates

-----------------------------------------------------------------------------
(* Steps that change neither the repository nor the ledger.                *)

LEMMA Quiet ==
  ASSUME Typed, Bounded, Faithful, BoundCacheAgrees,
         UNCHANGED <<repository, ledger, cycle>>, doc' \in States,
         pc' \in [Process -> Steps], plan' = [r \in Process |-> plan'[r]],
         reservation' \in Process \cup {NoProcess}, deaths' \in 0..MaxDeaths
  PROVE  Typed' /\ Bounded' /\ Faithful' /\ BoundCacheAgrees'
<1>1. UNCHANGED <<milestone, branch, checkout, linked, tree, proj, prepared, open, seq, cycle>>
  BY DEF repository, ledger
<1>2. Typed'
  BY <1>1 DEF Typed
<1>3. Bounded' /\ Faithful'
  BY <1>1 DEF Bounded, Faithful, Tip, MilestoneComplete
<1>4. BoundCacheAgrees'
  BY <1>1, CacheKept
<1> QED BY <1>2, <1>3, <1>4

\* An engine plans, gives up, or dies.
LEMMA Walks ==
  ASSUME IInv, NEW p \in Process, UNCHANGED <<repository, ledger, cycle, reservation>>,
         doc' \in States, deaths' \in 0..MaxDeaths,
         pc' \in [Process -> Steps], plan' = [r \in Process |-> plan'[r]],
         pc'[p] \notin Held,
         \A r \in Process \ {p} : pc'[r] = pc[r] /\ plan'[r] = plan[r]
  PROVE  IInv'
<1>1. Typed /\ Bounded /\ Faithful /\ BoundCacheAgrees /\ \A r \in Process : HandOK(r)
  BY DEF IInv
<1>2. reservation' \in Process \cup {NoProcess}
  BY <1>1 DEF Typed
<1>3. Typed' /\ Bounded' /\ Faithful' /\ BoundCacheAgrees'
  BY <1>1, <1>2, Quiet
<1>4. /\ UNCHANGED <<milestone, branch, checkout, open, reservation>>
      /\ proj'.integrated = proj.integrated
  BY DEF repository, ledger
<1>5. \A r \in Process : pc'[r] \notin Held \/ (pc'[r] = pc[r] /\ plan'[r] = plan[r])
  OBVIOUS
<1>6. \A r \in Process : HandOK(r)'
  BY <1>1, <1>4, <1>5, HandsKept
<1> QED BY <1>3, <1>6 DEF IInv

LEMMA Quits ==
  ASSUME IInv, NEW p \in Process, Goto(p, "idle"),
         UNCHANGED <<repository, ledger, caches, reservation>>, deaths' \in 0..MaxDeaths
  PROVE  IInv'
<1>1. Typed /\ "idle" \in Steps /\ "idle" \notin Held
  BY DEF IInv, Steps, Held
<1>2. /\ pc' \in [Process -> Steps] /\ plan' = [r \in Process |-> plan'[r]] /\ pc'[p] = "idle"
      /\ \A r \in Process \ {p} : pc'[r] = pc[r] /\ plan'[r] = plan[r]
  BY <1>1, Engines
<1>3. UNCHANGED cycle /\ doc' \in States
  BY <1>1 DEF caches, Typed
<1> QED BY <1>1, <1>2, <1>3, Walks

LEMMA FollowsPlan ==
  ASSUME IInv, NEW p \in Process, RunProject(p) \/ ResumeProject(p)
  PROVE  IInv'
<1>1. Typed /\ "planned" \in Steps /\ "planned" \notin Held
  BY DEF IInv, Steps, Held
<1>2. /\ Follow(p, Context)
      /\ UNCHANGED <<repository, ledger, caches, reservation, deaths>>
  BY DEF RunProject, ResumeProject
<1>3. pc \in [Process -> Steps] /\ plan = [r \in Process |-> plan[r]]
  BY <1>1 DEF Typed
<1>4. PICK e : e = Context
  OBVIOUS
<1>5. pc' = [pc EXCEPT ![p] = "planned"] /\ plan' = [plan EXCEPT ![p] = e]
  BY <1>2, <1>4 DEF Follow
<1>6. /\ pc' \in [Process -> Steps] /\ plan' = [r \in Process |-> plan'[r]]
      /\ pc'[p] = "planned"
      /\ \A r \in Process \ {p} : pc'[r] = pc[r] /\ plan'[r] = plan[r]
  BY <1>1, <1>3, <1>5
<1>7. UNCHANGED cycle /\ doc' \in States /\ deaths' \in 0..MaxDeaths
  BY <1>1, <1>2 DEF caches, Typed
<1> QED BY <1>1, <1>2, <1>6, <1>7, Walks

LEMMA Preflights ==
  ASSUME IInv, NEW p \in Process, PreflightFeature(p) \/ PreflightGate(p)
  PROVE  IInv'
<1>1. /\ Goto(p, "preflighted") \/ Goto(p, "idle")
      /\ UNCHANGED <<repository, ledger, caches, reservation, deaths>>
  BY DEF PreflightFeature, PreflightGate, Preflight
<1>2. PICK step \in {"preflighted", "idle"} : Goto(p, step)
  BY <1>1
<1>3. Typed /\ step \in Steps /\ step \notin Held
  BY DEF IInv, Steps, Held
<1>4. /\ pc' \in [Process -> Steps] /\ plan' = [r \in Process |-> plan'[r]] /\ pc'[p] = step
      /\ \A r \in Process \ {p} : pc'[r] = pc[r] /\ plan'[r] = plan[r]
  BY <1>2, <1>3, Engines
<1>5. UNCHANGED cycle /\ doc' \in States /\ deaths' \in 0..MaxDeaths
  BY <1>1, <1>3 DEF caches, Typed
<1> QED BY <1>1, <1>3, <1>4, <1>5, Walks

LEMMA Reserves ==
  ASSUME IInv, NEW p \in Process, Reserve(p)
  PROVE  IInv'
<1>1. Typed /\ Bounded /\ Faithful /\ BoundCacheAgrees /\ \A r \in Process : HandOK(r)
  BY DEF IInv
<1>2. UNCHANGED <<repository, ledger, caches, deaths>>
  BY DEF Reserve
<1>3. UNCHANGED cycle /\ doc' \in States /\ deaths' \in 0..MaxDeaths
  BY <1>1, <1>2 DEF caches, Typed
<1>4. CASE reservation = NoProcess
  <2>1. reservation' = p /\ Goto(p, "reserved") /\ "reserved" \in Steps
    BY <1>4 DEF Reserve, Steps
  <2>2. /\ pc' \in [Process -> Steps] /\ plan' = [r \in Process |-> plan'[r]]
        /\ pc'[p] = "reserved"
        /\ \A r \in Process \ {p} : pc'[r] = pc[r]
    BY <1>1, <2>1, Engines
  <2>3. Typed' /\ Bounded' /\ Faithful' /\ BoundCacheAgrees'
    BY <1>1, <1>2, <1>3, <2>1, <2>2, Quiet
  <2>4. HandOK(p)'
    BY <2>1, <2>2 DEF HandOK, AtWork, OnFeature, InSession
  <2>5. ASSUME NEW r \in Process \ {p} PROVE HandOK(r)'
    <3>1. pc[r] \notin Held
      BY <1>1, <1>4, CycleConstants DEF HandOK
    <3> QED BY <2>2, <3>1, Unheld
  <2> QED BY <2>3, <2>4, <2>5 DEF IInv
<1>5. CASE reservation # NoProcess
  BY <1>2, <1>3, <1>5, Quits DEF Reserve
<1> QED BY <1>4, <1>5

LEMMA Dies ==
  ASSUME IInv, NEW p \in Process, Die(p)
  PROVE  IInv'
<1>1. deaths \in 0..MaxDeaths /\ MaxDeaths \in Nat
  BY CycleConstants DEF IInv, Typed
<1>2. /\ Goto(p, "idle") /\ UNCHANGED <<repository, ledger, caches, reservation>>
      /\ deaths < MaxDeaths /\ deaths' = deaths + 1
  BY DEF Die
<1>3. deaths' \in 0..MaxDeaths
  BY <1>1, <1>2
<1> QED BY <1>2, <1>3, Quits

LEMMA Reconciles ==
  ASSUME IInv, NEW p \in Process, ReconcileControllerState(p)
  PROVE  IInv'
<1>1. Typed
  BY DEF IInv
<1>2. /\ pc[p] = "idle" /\ doc' = CompatibilityDocument
      /\ UNCHANGED <<repository, ledger, cycle, reservation, pc, plan, deaths>>
  BY DEF ReconcileControllerState
<1>3. doc' \in States
  BY <1>1, <1>2, ContextRouted DEF CompatibilityDocument
<1>4. /\ pc' \in [Process -> Steps] /\ plan' = [r \in Process |-> plan'[r]]
      /\ deaths' \in 0..MaxDeaths
  BY <1>1, <1>2 DEF Typed
<1>5. pc'[p] \notin Held
  BY <1>2 DEF Held
<1> QED BY <1>2, <1>3, <1>4, <1>5, Walks

LEMMA RemovesReservation ==
  ASSUME IInv, RemoveReservation
  PROVE  IInv'
<1>1. Typed /\ Bounded /\ Faithful /\ BoundCacheAgrees /\ \A r \in Process : HandOK(r)
  BY DEF IInv
<1>2. /\ pc[reservation] \notin Held /\ reservation' = NoProcess
      /\ UNCHANGED <<repository, ledger, caches, pc, plan, deaths>>
  BY DEF RemoveReservation, Held
<1>3. /\ UNCHANGED cycle /\ doc' \in States /\ deaths' \in 0..MaxDeaths
      /\ pc' \in [Process -> Steps] /\ plan' = [r \in Process |-> plan'[r]]
  BY <1>1, <1>2 DEF caches, Typed
<1>4. Typed' /\ Bounded' /\ Faithful' /\ BoundCacheAgrees'
  BY <1>1, <1>2, <1>3, Quiet
<1>5. ASSUME NEW r \in Process PROVE HandOK(r)'
  <2>1. pc[r] \notin Held
    BY <1>1, <1>2 DEF HandOK
  <2> QED BY <1>2, <2>1, Unheld
<1> QED BY <1>4, <1>5 DEF IInv

-----------------------------------------------------------------------------
(* Steps without a transaction.                                            *)

LEMMA Selects ==
  ASSUME IInv, NEW p \in Process, SelectFeature(p)
  PROVE  IInv'
<1>1. Typed /\ Bounded /\ Faithful /\ BoundCacheAgrees /\ \A r \in Process : HandOK(r)
  BY DEF IInv
<1>2. PICK f : f = SelectNext(Queue)
  OBVIOUS
<1>3. f \in SomeFeature
  BY <1>2, SelectNextTyped
<1>0. PICK next \in States : next = "feature_ready"
  BY DEF States
<1>4. PICK c : c = Closed(next, f, Tip)
  OBVIOUS
<1>5. /\ proj' = [c EXCEPT !.selected = f, !.start = Tip]
      /\ doc = "queue_reconciliation" /\ doc' = Transition(doc, "feature_ready")
      /\ seq = 0 /\ seq' = seq + 2
      /\ UNCHANGED <<milestone, branch, checkout, linked, tree, prepared, open, cycle,
                     reservation, pc, plan, deaths>>
  BY <1>0, <1>2, <1>4 DEF SelectFeature, repository
<1>6. Tip \in Nat /\ Tip' = Tip
  BY <1>1, <1>5, TipTyped DEF Tip
<1>7. /\ c \in Projection /\ c.state = "feature_ready" /\ c.last = Tip
      /\ c.accepted = proj.accepted /\ c.integrated = proj.integrated
  BY <1>0, <1>1, <1>3, <1>4, <1>6, ClosedTyped DEF Typed
<1>8. /\ proj' \in Projection /\ proj'.state = "feature_ready"
      /\ proj'.start = Tip /\ proj'.last = Tip
      /\ proj'.accepted = proj.accepted /\ proj'.integrated = proj.integrated
  BY <1>3, <1>5, <1>6, <1>7 DEF Projection
<1>9. doc' \in States
  BY <1>5, Moves DEF States
<1>10. Typed'
  BY <1>1, <1>5, <1>8, <1>9 DEF Typed
<1>11. Bounded' /\ Faithful'
  BY <1>1, <1>5, <1>6, <1>8 DEF Bounded, Faithful, Typed
<1>12. BoundCacheAgrees'
  BY <1>1, <1>5, CacheBehind DEF Typed, Bounded
<1>13. \A r \in Process : HandOK(r)'
  BY <1>1, <1>5, <1>8, HandsKept
<1> QED BY <1>10, <1>11, <1>12, <1>13 DEF IInv

\* What an acceptance leaves: its feature has an implementation.
LEMMA Accepts ==
  ASSUME Typed, Bounded, Faithful, NEW f \in Feature, Acceptable(f),
         proj' = Acceptance(f), UNCHANGED <<milestone, branch, prepared>>,
         cycle'.seq <= seq'
  PROVE  /\ proj' \in Projection /\ Bounded' /\ Faithful'
         /\ proj'.state = "integration_pending" /\ proj'.current = f
         /\ proj'.integrated = proj.integrated
<1>0. PICK next \in States : next = "integration_pending"
  BY DEF States
<1>1. PICK c : c = Closed(next, f, NoCommit)
  OBVIOUS
<1>2. proj' = [c EXCEPT !.accepted = c.accepted \cup {f}, !.imported = NoFeature]
  BY <1>0, <1>1 DEF Acceptance
<1>3. Tip \in Nat /\ Tip' = Tip
  BY TipTyped DEF Tip
<1>4. /\ c \in Projection /\ c.state = "integration_pending" /\ c.current = f
      /\ c.last = 0 /\ c.start = proj.start
      /\ c.accepted = proj.accepted /\ c.integrated = proj.integrated
  <2>1. f \in SomeFeature /\ NoCommit \in Nat /\ NoCommit = 0 /\ proj \in Projection
    BY DEF SomeFeature, NoCommit, Typed
  <2> QED BY <1>0, <1>1, <2>1, ClosedTyped
<1>5. /\ proj' \in Projection
      /\ proj'.state = "integration_pending" /\ proj'.current = f
      /\ proj'.last = 0 /\ proj'.start = proj.start
      /\ proj'.accepted = proj.accepted \cup {f} /\ proj'.integrated = proj.integrated
  <2>1. c.accepted \cup {f} \in SUBSET Feature /\ NoFeature \in SomeFeature
    BY <1>4 DEF Projection, SomeFeature
  <2> QED BY <1>2, <1>4, <2>1 DEF Projection
<1>6. branch[f].implemented
  BY DEF Acceptable
<1>7. Bounded'
  BY <1>3, <1>5 DEF Bounded
<1>8. Faithful'
  BY <1>5, <1>6 DEF Faithful
<1> QED BY <1>5, <1>7, <1>8

LEMMA AcceptsByHand ==
  ASSUME IInv, NEW f \in Feature, AcceptByHand(f)
  PROVE  IInv'
<1>1. Typed /\ Bounded /\ Faithful /\ BoundCacheAgrees /\ \A r \in Process : HandOK(r)
  BY DEF IInv
<1>2. /\ Acceptable(f) /\ proj' = Acceptance(f) /\ seq' = seq + 2
      /\ UNCHANGED <<milestone, branch, checkout, linked, tree, prepared, open, cycle, doc,
                     reservation, pc, plan, deaths>>
  BY DEF AcceptByHand, repository, caches
<1>3. cycle'.seq <= seq /\ seq \in Nat /\ cycle'.seq \in Nat
  BY <1>1, <1>2 DEF Typed, Bounded
<1>4. cycle'.seq <= seq' /\ cycle'.seq # seq'
  BY <1>2, <1>3
<1>5. /\ proj' \in Projection /\ Bounded' /\ Faithful'
      /\ proj'.integrated = proj.integrated
  BY <1>1, <1>2, <1>4, Accepts
<1>6. Typed'
  BY <1>1, <1>2, <1>5 DEF Typed
<1>7. BoundCacheAgrees'
  BY <1>4, CacheBehind
<1>8. \A r \in Process : HandOK(r)'
  BY <1>1, <1>2, <1>5, HandsKept
<1> QED BY <1>5, <1>6, <1>7, <1>8 DEF IInv

LEMMA RecoversCacheBinding ==
  ASSUME IInv, NEW p \in Process, RecoverCacheBinding(p)
  PROVE  IInv'
<1>1. Typed /\ Bounded /\ Faithful /\ BoundCacheAgrees /\ \A r \in Process : HandOK(r)
  BY DEF IInv
<1>2. /\ cycle' = [seq |-> seq, phase |-> View.state]
      /\ UNCHANGED <<milestone, branch, checkout, linked, tree, proj, prepared, open, seq,
                     doc, reservation, pc, plan, deaths>>
  BY DEF RecoverCacheBinding, WriteTerminalCache, repository, ledger
<1>3. View.state \in States
  BY <1>1, ViewRouted DEF Typed, Routed, ViewRecord
<1>4. Typed'
  BY <1>1, <1>2, <1>3 DEF Typed
<1>5. Bounded' /\ Faithful'
  BY <1>1, <1>2 DEF Bounded, Faithful, Tip, MilestoneComplete, Typed
<1>6. View' = View
  BY <1>2 DEF View, Settled
<1>7. BoundCacheAgrees'
  BY <1>2, <1>6 DEF BoundCacheAgrees
<1>8. \A r \in Process : HandOK(r)'
  BY <1>1, <1>2, HandsKept
<1> QED BY <1>4, <1>5, <1>7, <1>8 DEF IInv

\* No transaction is open while the operator changes the checkout.
LEMMA Operates ==
  ASSUME IInv,
         (\E b \in SomeFeature : Switch(b)) \/ Link \/ CleanUp
  PROVE  IInv'
<1>1. Typed /\ Bounded /\ Faithful /\ BoundCacheAgrees /\ \A r \in Process : HandOK(r)
  BY DEF IInv
<1>2. /\ UNCHANGED <<milestone, branch, proj, prepared, open, seq, cycle, doc,
                     reservation, pc, plan, deaths>>
      /\ checkout' \in SomeFeature /\ linked' \in BOOLEAN /\ tree' \in {"clean", "dirty"}
      /\ open.kind = "none" \/ checkout' = checkout
  BY <1>1 DEF Switch, Link, CleanUp, ledger, caches, Typed
<1>3. Typed'
  BY <1>1, <1>2 DEF Typed
<1>4. Bounded' /\ Faithful'
  BY <1>1, <1>2 DEF Bounded, Faithful, Tip, MilestoneComplete
<1>5. BoundCacheAgrees'
  BY <1>1, <1>2, CacheKept
<1>6. ASSUME NEW r \in Process PROVE HandOK(r)'
  <2>1. HandOK(r)
    BY <1>1
  <2> QED BY <1>2, <2>1 DEF HandOK, Tip, DependenciesComplete, MilestoneComplete, InSession,
                            AtWork
<1> QED BY <1>3, <1>4, <1>5, <1>6 DEF IInv

\* deliver-feature and the operator only add to the milestone.
LEMMA Grows ==
  ASSUME IInv, NEW q \in QueueDocument, milestone' = Append(milestone, q),
         q.gate = milestone[Tip].gate,
         MilestoneComplete(milestone[Tip]) => MilestoneComplete(q),
         UNCHANGED <<branch, checkout, linked, tree, proj, prepared, open, seq, cycle, doc,
                     reservation, pc, plan, deaths>>
  PROVE  IInv'
<1>1. Typed /\ Bounded /\ Faithful /\ BoundCacheAgrees /\ \A r \in Process : HandOK(r)
  BY DEF IInv
<1>3. /\ milestone' = Append(milestone, q)
      /\ UNCHANGED <<branch, checkout, linked, tree, proj, prepared, open, seq, cycle, doc,
                     reservation, pc, plan, deaths>>
  OBVIOUS
<1>4. /\ q \in QueueDocument /\ q.gate = milestone[Tip].gate
      /\ MilestoneComplete(milestone[Tip]) => MilestoneComplete(q)
  OBVIOUS
<1>5. /\ milestone' \in Seq(QueueDocument) /\ milestone' # <<>>
      /\ Tip' = Tip + 1 /\ milestone'[Tip'] = q /\ Tip \in Nat
      /\ \A c \in 1..Tip : milestone'[c] = milestone[c]
  BY <1>1, <1>3, <1>4, Appended, TipTyped
<1>6. Typed'
  BY <1>1, <1>3, <1>5 DEF Typed
<1>7. Bounded'
  BY <1>1, <1>3, <1>5 DEF Bounded, Typed, Projection
<1>8. Faithful'
  BY <1>1, <1>3, <1>4, <1>5 DEF Faithful
<1>9. BoundCacheAgrees'
  BY <1>1, <1>3, CacheKept
<1>10. ASSUME NEW r \in Process PROVE HandOK(r)'
  <2>1. HandOK(r)
    BY <1>1
  <2>2. pc[r] \in OnFeature =>
          DependenciesComplete(milestone'[plan[r].start], plan[r].feature)
    <3> SUFFICES ASSUME pc[r] \in OnFeature
                 PROVE  DependenciesComplete(milestone'[plan[r].start], plan[r].feature)
      OBVIOUS
    <3>1. PICK e : e = plan[r]
      OBVIOUS
    <3>2. /\ e.start \in Nat /\ 0 < e.start /\ e.start <= Tip
          /\ DependenciesComplete(milestone[e.start], e.feature)
      BY <2>1, <3>1 DEF HandOK
    <3>3. e.start \in 1..Tip
      BY <1>5, <3>2
    <3>4. milestone'[e.start] = milestone[e.start]
      BY <1>5, <3>3
    <3>5. DependenciesComplete(milestone'[e.start], e.feature)
      BY <3>2, <3>4
    <3> QED BY <3>1, <3>5
  <2>3. pc[r] \in {"gate", "gating"} =>
          plan[r].view.state = "milestone_gate" /\ MilestoneComplete(milestone'[Tip'])
    BY <1>4, <1>5, <2>1 DEF HandOK
  <2>4. Tip <= Tip' /\ Tip' \in Nat
    BY <1>5
  <2>5. /\ pc' = pc /\ plan' = plan /\ reservation' = reservation /\ open' = open
        /\ branch' = branch /\ checkout' = checkout /\ proj' = proj
    BY <1>3
  <2>6. /\ pc[r] \in Held => reservation = r
        /\ pc[r] \in AtWork => open.kind # "none"
        /\ pc[r] \in {"integrate", "integrating"} => plan[r].feature \in Feature
        /\ pc[r] \in InSession =>
              checkout = plan[r].feature /\ branch[plan[r].feature].base = plan[r].start
    BY <2>1 DEF HandOK
  <2>7. pc[r] \in OnFeature =>
         /\ plan[r].feature \in Feature /\ plan[r].feature \notin proj.integrated
         /\ plan[r].start \in Nat /\ 0 < plan[r].start /\ plan[r].start <= Tip'
         /\ plan[r].view.state \in {"feature_ready", "feature_preparing"}
         /\ pc[r] # "candidate" => ~branch[plan[r].feature].implemented
    <3>1. Tip \in Nat
      BY <1>5
    <3> QED BY <2>1, <2>4, <3>1 DEF HandOK
  <2> QED BY <2>2, <2>3, <2>5, <2>6, <2>7 DEF HandOK, DependenciesComplete, MilestoneComplete
<1> QED BY <1>6, <1>7, <1>8, <1>9, <1>10 DEF IInv

LEMMA Delivers ==
  ASSUME IInv, NEW f \in Feature, Deliver(f)
  PROVE  IInv'
<1>1. PICK q : q = Integrated(f)
  OBVIOUS
<1>2. /\ milestone' = Append(milestone, q)
      /\ UNCHANGED <<branch, checkout, linked, tree, proj, prepared, open, seq, cycle, doc,
                     reservation, pc, plan, deaths>>
  BY <1>1 DEF Deliver, ledger, caches
<1>3. /\ q \in QueueDocument /\ q.gate = milestone[Tip].gate
      /\ MilestoneComplete(milestone[Tip]) => MilestoneComplete(q)
  BY <1>1, IntegratedGrows DEF IInv
<1> QED BY <1>2, <1>3, Grows

LEMMA CommitsByHand ==
  ASSUME IInv, CommitByHand
  PROVE  IInv'
<1>1. PICK q : q = milestone[Tip]
  OBVIOUS
<1>2. /\ milestone' = Append(milestone, q)
      /\ UNCHANGED <<branch, checkout, linked, tree, proj, prepared, open, seq, cycle, doc,
                     reservation, pc, plan, deaths>>
  BY <1>1 DEF CommitByHand, ledger, caches
<1>3. /\ q \in QueueDocument /\ q.gate = milestone[Tip].gate
      /\ MilestoneComplete(milestone[Tip]) => MilestoneComplete(q)
  BY <1>1, TipTyped DEF IInv
<1> QED BY <1>2, <1>3, Grows

-----------------------------------------------------------------------------
(* The dispatch: under the reservation, the plan is still the plan.        *)

\* What the dispatch of a feature has checked, wherever the checkout is.
LEMMA DispatchedFeature ==
  ASSUME Typed, Faithful, NEW e, Dispatchable(e), e.view.action = "feature_cycle"
  PROVE  /\ e.feature \in Feature /\ e.feature \notin proj.integrated
         /\ e.start = Tip
         /\ e.view.state \in {"feature_ready", "feature_preparing"}
         /\ DependenciesComplete(milestone[Tip], e.feature)
         /\ ~branch[e.feature].implemented
<1>1. /\ HasContext /\ Context = e /\ e.start # NoCommit /\ Tip = e.start
      /\ HeadCommit = e.start /\ Readiness(Queue, e.feature)
      /\ BranchPreparable(e.feature, e.start)
  BY DEF Dispatchable
<1>2. PICK a : a = Authoritative
  OBVIOUS
<1>3. e.view = a /\ e.feature = Identity(a) /\ a.state \in States /\ Identity(a) \in SomeFeature
  BY <1>1, <1>2, ContextRouted
<1>4. a.state \in {"feature_ready", "feature_preparing"}
  BY <1>2, <1>3, ContextRouted
<1>5. Identity(a) # NoFeature /\ Identity(a) \notin proj.integrated
  BY <1>1, <1>2, <1>3 DEF HasContext, Plannable
<1>6. checkout \in SomeFeature /\ Tip \in Nat
  BY TipTyped DEF Typed
<1>7. Queue = milestone[Tip]
  <2>1. CASE checkout = Milestone
    BY <2>1 DEF Queue
  <2>2. CASE checkout # Milestone
    <3>1. HeadCommit = branch[checkout].base
      BY <1>1, <2>2 DEF HeadCommit, NoCommit
    <3> QED BY <1>1, <2>2, <3>1 DEF Queue
  <2> QED BY <2>1, <2>2
<1>8. e.feature \in Feature
  BY <1>3, <1>5 DEF SomeFeature
<1>9. ~branch[e.feature].implemented
  BY <1>1, <1>8 DEF BranchPreparable, Faithful
<1> QED BY <1>1, <1>3, <1>4, <1>5, <1>7, <1>8, <1>9 DEF Readiness

LEMMA DispatchedElsewhere ==
  ASSUME Typed, Faithful, NEW e, Dispatchable(e)
  PROVE  /\ e.view.action = "milestone_integration" => e.feature \in Feature
         /\ e.view.action = "milestone_gate" =>
              e.view.state = "milestone_gate" /\ MilestoneComplete(milestone[Tip])
         /\ e.view.action \in {"feature_cycle", "milestone_integration", "milestone_gate"}
         /\ e.view.prepared => e.view.action = "feature_cycle"
<1>1. HasContext /\ Context = e
  BY DEF Dispatchable
<1>2. PICK a : a = Authoritative
  OBVIOUS
<1>3. e.view = a /\ e.feature = Identity(a) /\ Identity(a) \in SomeFeature
  BY <1>1, <1>2, ContextRouted
<1>4. a.action = "milestone_integration" => Identity(a) # NoFeature
  BY <1>1, <1>2 DEF HasContext, Plannable
<1>5. a.action = "milestone_gate" => a.state = "milestone_gate" /\ proj.state = "milestone_gate"
  BY <1>2, ContextRouted
<1>6. e.view.action \in {"feature_cycle", "milestone_integration", "milestone_gate"}
  BY DEF Dispatchable
<1>7. a.prepared => a.action = "feature_cycle"
  BY <1>2, ContextRouted
<1> QED BY <1>3, <1>4, <1>5, <1>6, <1>7 DEF SomeFeature, Faithful

LEMMA Dispatches ==
  ASSUME IInv, NEW p \in Process, Dispatch(p)
  PROVE  IInv'
<1>1. Typed /\ Bounded /\ Faithful /\ BoundCacheAgrees /\ \A r \in Process : HandOK(r)
  BY DEF IInv
<1>2. pc[p] = "reserved" /\ pc[p] \in Held
  BY DEF Dispatch, Held, Steps
<1>3. PICK e : e = plan[p]
  OBVIOUS
<1>4. UNCHANGED <<milestone, branch, checkout, linked, tree, proj, prepared, open, seq, doc,
                  deaths>>
  BY DEF Dispatch, repository, ledger
<1>5. CASE ~Dispatchable(e)
  <2>1. Release(p) /\ UNCHANGED <<repository, ledger, doc, deaths>> /\ UNCHANGED cycle
    BY <1>3, <1>5 DEF Dispatch
  <2>2. doc' \in States /\ deaths' \in 0..MaxDeaths
    BY <1>1, <2>1 DEF Typed
  <2> QED BY <1>1, <1>2, <2>1, <2>2, HandsReleased, Quiet DEF IInv
<1>6. CASE Dispatchable(e)
  <2>1. PICK step \in {"integrate", "gate", "prepared", "prepare"} :
          /\ step = CASE e.view.action = "milestone_integration" -> "integrate"
                      [] e.view.action = "milestone_gate" -> "gate"
                      [] e.view.prepared -> "prepared"
                      [] OTHER -> "prepare"
          /\ Goto(p, step)
    BY <1>3, <1>6 DEF Dispatch
  <2>2. /\ reservation' = reservation
        /\ cycle' = cycle \/ cycle' = [seq |-> 0, phase |-> "feature_selected"]
        /\ seq > 0
    BY <1>3, <1>6 DEF Dispatch, Dispatchable, HasContext
  <2>3. step \in Steps /\ step # "idle"
    BY <2>1 DEF Steps
  <2>4. /\ pc' \in [Process -> Steps] /\ plan' = [r \in Process |-> plan'[r]]
        /\ pc'[p] = step /\ plan'[p] = e
        /\ \A r \in Process \ {p} : pc'[r] = pc[r]
    BY <1>1, <1>3, <2>1, <2>3, Engines
  <2>5. Typed'
    BY <1>1, <1>4, <2>2, <2>4 DEF Typed
  <2>6. Bounded' /\ Faithful'
    BY <1>1, <1>4, <2>2 DEF Bounded, Faithful, Tip, MilestoneComplete, Typed
  <2>7. BoundCacheAgrees'
    <3>1. CASE cycle' = cycle
      BY <1>1, <1>4, <3>1, CacheKept
    <3>2. CASE cycle' = [seq |-> 0, phase |-> "feature_selected"]
      <4>1. cycle'.seq # seq'
        BY <1>4, <2>2, <3>2
      <4> QED BY <4>1, CacheBehind
    <3> QED BY <2>2, <3>1, <3>2
  <2>8. HandOK(p)'
    <3>1. reservation' = p
      BY <1>1, <1>2, <2>2 DEF HandOK
    <3>2. Tip' = Tip /\ milestone'[Tip'] = milestone[Tip] /\ Tip \in Nat /\ 0 < Tip
      BY <1>1, <1>4, TipTyped DEF Tip
    <3>3. e.view.action \in {"feature_cycle", "milestone_integration", "milestone_gate"}
      BY <1>1, <1>6, DispatchedElsewhere
    <3>4. CASE e.view.action = "feature_cycle"
      <4>1. /\ e.feature \in Feature /\ e.feature \notin proj.integrated
            /\ e.start = Tip /\ e.view.state \in {"feature_ready", "feature_preparing"}
            /\ DependenciesComplete(milestone[Tip], e.feature)
            /\ ~branch[e.feature].implemented
        BY <1>1, <1>6, <3>4, DispatchedFeature
      <4>2. step \in {"prepared", "prepare"}
        BY <2>1, <3>4
      <4> QED BY <1>4, <2>4, <3>1, <3>2, <4>1, <4>2 DEF HandOK, AtWork, InSession
    <3>5. CASE e.view.action = "milestone_integration"
      <4>1. e.feature \in Feature /\ ~e.view.prepared
        BY <1>1, <1>6, <3>5, DispatchedElsewhere
      <4>2. step = "integrate"
        BY <2>1, <3>5, <4>1
      <4> QED BY <2>4, <3>1, <4>1, <4>2 DEF HandOK, AtWork, OnFeature, InSession
    <3>6. CASE e.view.action = "milestone_gate"
      <4>1. /\ e.view.state = "milestone_gate" /\ MilestoneComplete(milestone[Tip])
            /\ ~e.view.prepared
        BY <1>1, <1>6, <3>6, DispatchedElsewhere
      <4>2. step = "gate"
        BY <2>1, <3>6, <4>1
      <4> QED BY <2>4, <3>1, <3>2, <4>1, <4>2 DEF HandOK, AtWork, OnFeature, InSession
    <3> QED BY <3>3, <3>4, <3>5, <3>6
  <2>9. \A r \in Process \ {p} : HandOK(r)'
    BY <1>1, <1>2, <2>4, OthersWait
  <2> QED BY <2>5, <2>6, <2>7, <2>8, <2>9 DEF IInv
<1> QED BY <1>5, <1>6

-----------------------------------------------------------------------------
(* Transactions.                                                           *)

Kinds == {"preparation", "execution", "integration", "gate"}

\* A transaction begins: nothing is said of the repository yet, and no cache is
\* bound to an open transaction.
LEMMA Begins ==
  ASSUME IInv, NEW p \in Process, pc[p] \in Held, NEW kind \in Kinds, NEW f \in SomeFeature,
         kind = "gate" => MilestoneComplete(milestone[Tip]),
         BeginTransaction(kind, f), NEW step \in Steps, step # "idle", Goto(p, step),
         UNCHANGED <<repository, caches, reservation, deaths>>,
         HandOK(p)'
  PROVE  IInv'
<1>1. Typed /\ Bounded /\ Faithful /\ BoundCacheAgrees /\ \A r \in Process : HandOK(r)
  BY DEF IInv
<1>2. PICK c : c = Started(kind, f)
  OBVIOUS
<1>3. /\ c \in Projection /\ c.state = ActiveState(kind)
      /\ c.accepted = proj.accepted /\ c.start = proj.start /\ c.last = proj.last
  BY <1>1, <1>2, StartedTyped DEF Typed, Kinds
<1>4. /\ open' = [kind |-> kind, feature |-> f] /\ proj' = c /\ seq' = seq + 1
      /\ prepared' = prepared
      /\ UNCHANGED <<milestone, branch, checkout, linked, tree, cycle, doc, reservation,
                     deaths>>
  BY <1>2 DEF BeginTransaction, repository, caches
<1>5. /\ pc' \in [Process -> Steps] /\ plan' = [r \in Process |-> plan'[r]]
      /\ \A r \in Process \ {p} : pc'[r] = pc[r]
  BY <1>1, Engines
<1>6. Tip' = Tip /\ milestone'[Tip'] = milestone[Tip]
  BY <1>4 DEF Tip
<1>7. kind # "none" /\ open'.kind = kind
  BY <1>4 DEF Kinds
<1>8. Typed'
  BY <1>1, <1>3, <1>4, <1>5 DEF Typed, Kinds
<1>9. Bounded'
  BY <1>1, <1>3, <1>4, <1>6 DEF Bounded, Typed
<1>10. Faithful'
  <2>1. c.state = "milestone_gate" => kind = "gate"
    BY <1>3 DEF ActiveState, Kinds
  <2>2. c.state # "milestone_ready_for_merge"
    BY <1>3 DEF ActiveState, Kinds
  <2> QED BY <1>1, <1>3, <1>4, <1>6, <2>1, <2>2 DEF Faithful
<1>11. BoundCacheAgrees'
  BY <1>7, CacheBehind
<1>12. \A r \in Process \ {p} : HandOK(r)'
  BY <1>1, <1>5, OthersWait
<1> QED BY <1>8, <1>9, <1>10, <1>11, <1>12 DEF IInv

Unfinished == States \ {"milestone_gate", "milestone_ready_for_merge"}

\* A transaction ends without a commit: the cache follows or is left behind.
LEMMA EndsShort ==
  ASSUME IInv, NEW p \in Process, pc[p] \in Held, Release(p),
         NEW next \in Unfinished, NEW f \in SomeFeature, NEW last \in Nat, last <= Tip,
         EndTransaction(Closed(next, f, last)),
         \/ cycle' = cycle
         \/ f \notin proj.integrated /\ cycle' = Materialized(Closed(next, f, last)),
         UNCHANGED <<milestone, branch, checkout, linked, prepared, deaths>>,
         tree' \in {"clean", "dirty"}, doc' \in States
  PROVE  IInv'
<1>1. Typed /\ Bounded /\ Faithful /\ BoundCacheAgrees /\ \A r \in Process : HandOK(r)
  BY DEF IInv
<1>2. PICK c : c = Closed(next, f, last)
  OBVIOUS
<1>3. next \in States /\ next # "milestone_gate" /\ next # "milestone_ready_for_merge"
  BY DEF Unfinished
<1>4. /\ c \in Projection /\ c.state = next /\ c.current = f /\ c.last = last
      /\ c.accepted = proj.accepted /\ c.integrated = proj.integrated /\ c.start = proj.start
  BY <1>1, <1>2, <1>3, ClosedTyped DEF Typed
<1>5. /\ open' = [kind |-> "none", feature |-> NoFeature] /\ proj' = c /\ seq' = seq + 1
  BY <1>2 DEF EndTransaction
<1>6. cycle' = cycle \/ (f \notin proj.integrated /\ cycle' = [seq |-> seq + 1, phase |-> next])
  BY <1>2, <1>4 DEF Materialized, WriteTerminalCache
<1>7. /\ pc' \in [Process -> Steps] /\ plan' = [r \in Process |-> plan'[r]]
      /\ reservation' \in Process \cup {NoProcess}
      /\ \A r \in Process : HandOK(r)'
  BY <1>1, HandsReleased
<1>8. Typed'
  BY <1>1, <1>3, <1>4, <1>5, <1>6, <1>7 DEF Typed, SomeFeature
<1>9. seq \in Nat /\ cycle.seq \in Nat /\ cycle.seq <= seq
  BY <1>1 DEF Typed, Bounded
<1>10. cycle'.seq <= seq'
  BY <1>5, <1>6, <1>9
<1>11. Bounded' /\ Faithful'
  BY <1>1, <1>3, <1>4, <1>5, <1>10 DEF Bounded, Faithful, Tip
<1>12. BoundCacheAgrees'
  <2>1. CASE cycle' = cycle
    <3>1. cycle'.seq # seq'
      BY <1>5, <1>9, <2>1
    <3> QED BY <3>1, CacheBehind
  <2>2. CASE f \notin proj.integrated /\ cycle' = [seq |-> seq + 1, phase |-> next]
    <3>1. open'.kind = "none" /\ proj'.current \notin proj'.integrated
          /\ cycle'.phase = proj'.state
      BY <1>4, <1>5, <2>2
    <3> QED BY <3>1, CacheFollows
  <2> QED BY <1>6, <2>1, <2>2
<1> QED BY <1>7, <1>8, <1>11, <1>12 DEF IInv

-----------------------------------------------------------------------------
(* The preparation and the execution of a feature.                         *)

LEMMA BeginsPreparation ==
  ASSUME IInv, NEW p \in Process, BeginPreparation(p)
  PROVE  IInv'
<1>1. Typed /\ \A r \in Process : HandOK(r)
  BY DEF IInv
<1>2. pc[p] = "prepare" /\ pc[p] \in Held /\ UNCHANGED <<repository, caches, deaths>>
  BY DEF BeginPreparation, Held, Steps
<1>3. PICK e : e = plan[p]
  OBVIOUS
<1>4. CASE StartsAt(Milestone, e)
  <2>1. BeginTransaction("preparation", e.feature) /\ Goto(p, "preparing")
        /\ UNCHANGED reservation
    BY <1>3, <1>4 DEF BeginPreparation
  <2>2. PICK kind \in Kinds : kind = "preparation"
    BY DEF Kinds
  <2>3. PICK step \in Steps : step = "preparing"
    BY DEF Steps
  <2>4. pc'[p] = "preparing" /\ plan'[p] = e
    BY <1>1, <1>3, <2>1, <2>3, Engines
  <2>5. e.feature \in Feature /\ reservation = p
    BY <1>1, <1>2, <1>3 DEF HandOK, OnFeature
  <2>6. open'.kind # "none" /\ proj'.integrated = proj.integrated
    BY <2>1 DEF BeginTransaction, Started, Typed, Projection
  <2>7. HandOK(p)'
    BY <1>1, <1>2, <1>3, <2>1, <2>4, <2>5, <2>6
       DEF HandOK, OnFeature, InSession, repository, Tip, DependenciesComplete
  <2>8. e.feature \in SomeFeature
    BY <2>5 DEF SomeFeature
  <2> QED BY <1>2, <2>1, <2>2, <2>3, <2>7, <2>8, Begins
<1>5. CASE ~StartsAt(Milestone, e)
  <2>1. Release(p) /\ UNCHANGED <<repository, ledger, cycle, doc, deaths>>
    BY <1>2, <1>3, <1>5 DEF BeginPreparation, caches
  <2>2. doc' \in States /\ deaths' \in 0..MaxDeaths
    BY <1>1, <2>1 DEF Typed
  <2> QED BY <1>1, <1>2, <2>1, <2>2, HandsReleased, Quiet DEF IInv
<1> QED BY <1>4, <1>5

LEMMA CompletesPreparation ==
  ASSUME IInv, NEW p \in Process, CompletePreparation(p)
  PROVE  IInv'
<1>1. Typed /\ Bounded /\ Faithful /\ BoundCacheAgrees /\ \A r \in Process : HandOK(r)
  BY DEF IInv
<1>2. pc[p] = "preparing" /\ pc[p] \in Held
  BY DEF CompletePreparation, Held, Steps
<1>3. PICK e : e = plan[p]
  OBVIOUS
<1>4. /\ e.feature \in Feature /\ e.feature \notin proj.integrated
      /\ e.start \in Nat /\ 0 < e.start /\ e.start <= Tip
      /\ e.view.state \in {"feature_ready", "feature_preparing"}
      /\ DependenciesComplete(milestone[e.start], e.feature)
      /\ ~branch[e.feature].implemented /\ reservation = p
  BY <1>1, <1>2, <1>3 DEF HandOK, OnFeature
<1>5. PICK next \in States : next = "feature_preparing"
  BY DEF States
<1>6. PICK c : c = Closed(next, e.feature, e.start)
  OBVIOUS
<1>7. e.feature \in SomeFeature
  BY <1>4 DEF SomeFeature
<1>8. /\ c \in Projection /\ c.state = next /\ c.current = e.feature /\ c.last = e.start
      /\ c.accepted = proj.accepted /\ c.integrated = proj.integrated /\ c.start = proj.start
  BY <1>1, <1>4, <1>6, <1>7, ClosedTyped DEF Typed
<1>9. /\ branch' = [branch EXCEPT ![e.feature] = [base |-> e.start, implemented |-> FALSE]]
      /\ checkout' = e.feature /\ prepared' = [prepared EXCEPT ![e.feature] = e.start]
      /\ open' = [kind |-> "none", feature |-> NoFeature] /\ proj' = c /\ seq' = seq + 1
      /\ cycle' = [seq |-> seq + 1, phase |-> next]
      /\ Goto(p, "prepared")
      /\ UNCHANGED <<milestone, linked, tree, doc, reservation, deaths>>
  BY <1>3, <1>5, <1>6, <1>8 DEF CompletePreparation, EndTransaction, Materialized,
                                WriteTerminalCache
<1>10. PICK step \in Steps : step = "prepared"
  BY DEF Steps
<1>11. /\ pc' \in [Process -> Steps] /\ plan' = [r \in Process |-> plan'[r]]
       /\ pc'[p] = "prepared" /\ plan'[p] = e
       /\ \A r \in Process \ {p} : pc'[r] = pc[r]
  BY <1>1, <1>3, <1>9, <1>10, Engines
<1>12. Typed'
  BY <1>1, <1>4, <1>7, <1>8, <1>9, <1>11 DEF Typed, SomeFeature
<1>13. Bounded'
  BY <1>1, <1>4, <1>8, <1>9 DEF Bounded, Typed, Tip
<1>14. Faithful'
  BY <1>1, <1>4, <1>5, <1>8, <1>9 DEF Faithful, Typed, NoCommit
<1>15. BoundCacheAgrees'
  BY <1>4, <1>8, <1>9, CacheFollows
<1>16. HandOK(p)'
  <2>1. Tip' = Tip /\ milestone'[Tip'] = milestone[Tip]
    BY <1>9 DEF Tip
  <2>2. ~branch'[e.feature].implemented
    BY <1>1, <1>4, <1>9 DEF Typed
  <2> QED BY <1>4, <1>8, <1>9, <1>11, <2>1, <2>2 DEF HandOK, AtWork, InSession,
                                                               DependenciesComplete
<1>17. \A r \in Process \ {p} : HandOK(r)'
  BY <1>1, <1>2, <1>11, OthersWait
<1> QED BY <1>12, <1>13, <1>14, <1>15, <1>16, <1>17 DEF IInv

\* The execution begins with the checks of its plan made again: the session
\* starts on the branch of its feature, which starts at the plan's commit.
LEMMA VerifiesBranch ==
  ASSUME IInv, NEW p \in Process, VerifyBranch(p)
  PROVE  IInv'
<1>1. Typed /\ Bounded /\ Faithful /\ BoundCacheAgrees /\ \A r \in Process : HandOK(r)
  BY DEF IInv
<1>2. pc[p] = "prepared" /\ pc[p] \in Held
      /\ UNCHANGED <<repository, ledger, cycle, doc, deaths>>
  BY DEF VerifyBranch, Held, Steps, caches
<1>3. doc' \in States /\ deaths' \in 0..MaxDeaths
  BY <1>1, <1>2 DEF Typed
<1>4. CASE Goto(p, "verified") /\ UNCHANGED reservation
  <2>1. PICK step \in Steps : step = "verified"
    BY DEF Steps
  <2>2. /\ pc' \in [Process -> Steps] /\ plan' = [r \in Process |-> plan'[r]]
        /\ pc'[p] = "verified" /\ plan'[p] = plan[p]
        /\ \A r \in Process \ {p} : pc'[r] = pc[r]
    BY <1>1, <1>4, <2>1, Engines
  <2>3. reservation' \in Process \cup {NoProcess}
    BY <1>1, <1>4 DEF Typed
  <2>4. Typed' /\ Bounded' /\ Faithful' /\ BoundCacheAgrees'
    BY <1>1, <1>2, <1>3, <2>2, <2>3, Quiet
  <2>5. HandOK(p)'
    <3>1. HandOK(p)
      BY <1>1
    <3> QED BY <1>2, <1>4, <2>2, <3>1 DEF HandOK, AtWork, OnFeature, InSession, repository,
                                    ledger, Tip, DependenciesComplete, Held, Steps
  <2>6. \A r \in Process \ {p} : HandOK(r)'
    BY <1>1, <1>2, <2>2, OthersWait
  <2> QED BY <2>4, <2>5, <2>6 DEF IInv
<1>5. CASE Release(p)
  BY <1>1, <1>2, <1>3, <1>5, HandsReleased, Quiet DEF IInv
<1> QED BY <1>4, <1>5 DEF VerifyBranch

LEMMA BeginsExecution ==
  ASSUME IInv, NEW p \in Process, BeginExecution(p)
  PROVE  IInv'
<1>1. Typed /\ \A r \in Process : HandOK(r)
  BY DEF IInv
<1>2. pc[p] = "verified" /\ pc[p] \in Held /\ UNCHANGED <<repository, caches, deaths>>
  BY DEF BeginExecution, Held, Steps
<1>3. PICK e : e = plan[p]
  OBVIOUS
<1>4. CASE StartsAt(e.feature, e)
  <2>1. BeginTransaction("execution", e.feature) /\ Goto(p, "launching")
        /\ UNCHANGED reservation
    BY <1>3, <1>4 DEF BeginExecution
  <2>2. PICK kind \in Kinds : kind = "execution"
    BY DEF Kinds
  <2>3. PICK step \in Steps : step = "launching"
    BY DEF Steps
  <2>4. pc'[p] = "launching" /\ plan'[p] = e
    BY <1>1, <1>3, <2>1, <2>3, Engines
  <2>5. /\ e.feature \in Feature /\ e.feature \notin proj.integrated
        /\ e.start \in Nat /\ 0 < e.start /\ e.start <= Tip
        /\ e.view.state \in {"feature_ready", "feature_preparing"}
        /\ DependenciesComplete(milestone[e.start], e.feature)
        /\ ~branch[e.feature].implemented /\ reservation = p
    BY <1>1, <1>2, <1>3 DEF HandOK, OnFeature
  <2>6. open'.kind # "none" /\ proj'.integrated = proj.integrated
    BY <2>1 DEF BeginTransaction, Started, Typed, Projection
  <2>7. checkout = e.feature /\ branch[e.feature].base = e.start
    <3>1. e.feature # Milestone
      BY <2>5, CycleConstants DEF Milestone
    <3> QED BY <1>4, <2>5, <3>1 DEF StartsAt, HeadCommit
  <2>8. HandOK(p)'
    BY <1>2, <2>1, <2>4, <2>5, <2>6, <2>7 DEF HandOK, repository, Tip, DependenciesComplete
  <2>9. e.feature \in SomeFeature
    BY <2>5 DEF SomeFeature
  <2> QED BY <1>2, <2>1, <2>2, <2>3, <2>8, <2>9, Begins
<1>5. CASE ~StartsAt(e.feature, e)
  <2>1. Release(p) /\ UNCHANGED <<repository, ledger, cycle, doc, deaths>>
    BY <1>2, <1>3, <1>5 DEF BeginExecution, caches
  <2>2. doc' \in States /\ deaths' \in 0..MaxDeaths
    BY <1>1, <2>1 DEF Typed
  <2> QED BY <1>1, <1>2, <2>1, <2>2, HandsReleased, Quiet DEF IInv
<1> QED BY <1>4, <1>5

LEMMA Launches ==
  ASSUME IInv, NEW p \in Process, LaunchSession(p)
  PROVE  IInv'
<1>1. Typed /\ \A r \in Process : HandOK(r)
  BY DEF IInv
<1>2. /\ pc[p] = "launching" /\ pc[p] \in Held /\ Goto(p, "running")
      /\ doc' = Transition(plan[p].view.state, "feature_running")
      /\ UNCHANGED <<repository, ledger, cycle, reservation, deaths>>
  BY DEF LaunchSession, Held, Steps
<1>3. PICK step \in Steps : step = "running"
  BY DEF Steps
<1>4. /\ pc' \in [Process -> Steps] /\ plan' = [r \in Process |-> plan'[r]]
      /\ pc'[p] = "running" /\ plan'[p] = plan[p]
      /\ \A r \in Process \ {p} : pc'[r] = pc[r]
  BY <1>1, <1>2, <1>3, Engines
<1>5. plan[p].view.state \in {"feature_ready", "feature_preparing"}
  BY <1>1, <1>2 DEF HandOK, OnFeature
<1>6. doc' \in States
  BY <1>2, <1>5, Moves DEF States
<1>7. reservation' \in Process \cup {NoProcess} /\ deaths' \in 0..MaxDeaths
  BY <1>1, <1>2 DEF Typed
<1>8. Typed' /\ Bounded' /\ Faithful' /\ BoundCacheAgrees'
  BY <1>2, <1>4, <1>6, <1>7, Quiet DEF IInv
<1>9. HandOK(p)'
  <2>1. HandOK(p)
    BY <1>1
  <2> QED BY <1>2, <1>4, <2>1 DEF HandOK, AtWork, OnFeature, InSession, repository, ledger, Tip,
                                  DependenciesComplete, Held, Steps
<1>10. \A r \in Process \ {p} : HandOK(r)'
  BY <1>1, <1>2, <1>4, OthersWait
<1> QED BY <1>8, <1>9, <1>10 DEF IInv

\* what a session's engine knows of its feature
LEMMA SessionFeature ==
  ASSUME IInv, NEW p \in Process, pc[p] \in InSession
  PROVE  /\ pc[p] \in Held
         /\ plan[p].feature \in SomeFeature /\ plan[p].feature \notin proj.integrated
         /\ plan[p].start \in Nat /\ plan[p].start <= Tip
         /\ plan[p].view.state \in {"feature_ready", "feature_preparing"}
         /\ proj.last \in Nat /\ proj.last <= Tip
         /\ tree \in {"clean", "dirty"} /\ doc \in States
<1>1. HandOK(p) /\ pc[p] \in OnFeature /\ pc[p] \in Held
  BY DEF IInv, InSession, OnFeature, Held, Steps
<1> QED BY <1>1 DEF IInv, HandOK, Typed, Bounded, Projection, SomeFeature

LEMMA FailsPrelaunch ==
  ASSUME IInv, NEW p \in Process, FailPrelaunch(p)
  PROVE  IInv'
<1>1. PICK next \in Unfinished : next = "feature_preparing"
  BY DEF Unfinished, States
<1>2. PICK f, last : f = plan[p].feature /\ last = plan[p].start
  OBVIOUS
<1>3. /\ pc[p] \in InSession /\ Release(p)
      /\ EndTransaction(Closed(next, f, last)) /\ cycle' = Materialized(Closed(next, f, last))
      /\ UNCHANGED <<milestone, branch, checkout, linked, prepared, deaths>>
      /\ tree' = tree /\ doc' = doc
  BY <1>1, <1>2 DEF FailPrelaunch, InSession, repository
<1>4. /\ pc[p] \in Held /\ f \in SomeFeature /\ f \notin proj.integrated
      /\ last \in Nat /\ last <= Tip /\ tree' \in {"clean", "dirty"} /\ doc' \in States
  BY <1>2, <1>3, SessionFeature
<1> QED BY <1>3, <1>4, EndsShort

LEMMA LosesSession ==
  ASSUME IInv, NEW p \in Process, SessionLost(p)
  PROVE  IInv'
<1>1. PICK next \in Unfinished : next = "human_decision_required"
  BY DEF Unfinished, States, BlockedStates
<1>2. PICK f, last : f = plan[p].feature /\ last = proj.last
  OBVIOUS
<1>3. /\ pc[p] \in InSession /\ Release(p)
      /\ EndTransaction(Closed(next, f, last)) /\ cycle' = Materialized(Closed(next, f, last))
      /\ UNCHANGED <<milestone, branch, checkout, linked, prepared, deaths>>
      /\ tree' \in {"clean", "dirty"}
      /\ doc' = Transition(IF pc[p] = "running" THEN "feature_running"
                           ELSE plan[p].view.state, "human_decision_required")
  BY <1>1, <1>2 DEF SessionLost, InSession
<1>4. /\ pc[p] \in Held /\ f \in SomeFeature /\ f \notin proj.integrated
      /\ last \in Nat /\ last <= Tip
      /\ plan[p].view.state \in {"feature_ready", "feature_preparing"}
  BY <1>2, <1>3, SessionFeature
<1>5. doc' \in States
  BY <1>3, <1>4, Moves DEF States, BlockedStates
<1> QED BY <1>3, <1>4, <1>5, EndsShort

LEMMA HandlesFailure ==
  ASSUME IInv, NEW p \in Process, FailLaunch(p) \/ SessionRaises(p) \/ ValidationFails(p)
  PROVE  IInv'
<1>1. PICK next \in Unfinished : next = "validation_failed"
  BY DEF Unfinished, States, BlockedStates
<1>2. PICK f, last : f = plan[p].feature /\ last = plan[p].start
  OBVIOUS
<1>3. /\ pc[p] \in InSession /\ HandledFailure(p)
      /\ tree' = tree \/ tree' \in {"clean", "dirty"}
  BY DEF FailLaunch, SessionRaises, ValidationFails, InSession
<1>4. /\ Release(p) /\ EndTransaction(Closed(next, f, last)) /\ cycle' = cycle
      /\ UNCHANGED <<milestone, branch, checkout, linked, prepared, deaths>>
      /\ doc' = doc
  BY <1>1, <1>2, <1>3 DEF HandledFailure, caches
<1>5. /\ pc[p] \in Held /\ f \in SomeFeature
      /\ last \in Nat /\ last <= Tip /\ tree' \in {"clean", "dirty"} /\ doc' \in States
  BY <1>2, <1>3, <1>4, SessionFeature
<1> QED BY <1>4, <1>5, EndsShort

LEMMA BlocksSession ==
  ASSUME IInv, NEW p \in Process, NEW s \in BlockedStates, SessionBlocked(p, s)
  PROVE  IInv'
<1>1. s \in Unfinished
  BY DEF Unfinished, States, BlockedStates
<1>2. PICK f, last : /\ f = plan[p].feature
                     /\ last = IF s = "validation_failed" THEN plan[p].start ELSE proj.last
  OBVIOUS
<1>3. /\ pc[p] \in InSession /\ Release(p)
      /\ EndTransaction(Closed(s, f, last)) /\ cycle' = cycle
      /\ UNCHANGED <<milestone, branch, checkout, linked, prepared, deaths>>
      /\ tree' \in {"clean", "dirty"} /\ doc' = Transition("feature_running", s)
  BY <1>2 DEF SessionBlocked, InSession
<1>4. /\ pc[p] \in Held /\ f \in SomeFeature /\ last \in Nat /\ last <= Tip
  BY <1>2, <1>3, SessionFeature
<1>5. doc' \in States
  BY <1>3, Moves DEF States
<1> QED BY <1>1, <1>3, <1>4, <1>5, EndsShort

LEMMA CommitsCandidate ==
  ASSUME IInv, NEW p \in Process, CommitCandidate(p)
  PROVE  IInv'
<1>1. Typed /\ Bounded /\ Faithful /\ BoundCacheAgrees /\ \A r \in Process : HandOK(r)
  BY DEF IInv
<1>2. pc[p] = "running" /\ pc[p] \in Held
  BY DEF CommitCandidate, Held, Steps
<1>3. PICK e : e = plan[p]
  OBVIOUS
<1>4. /\ e.feature \in Feature /\ e.feature \notin proj.integrated
      /\ e.start \in Nat /\ 0 < e.start /\ e.start <= Tip
      /\ e.view.state \in {"feature_ready", "feature_preparing"}
      /\ DependenciesComplete(milestone[e.start], e.feature)
      /\ branch[e.feature].base = e.start /\ reservation = p
  BY <1>1, <1>2, <1>3 DEF HandOK, OnFeature, InSession
<1>5. PICK next \in States : next = "feature_accepted"
  BY DEF States
<1>6. PICK last \in Nat : last = NoCommit
  BY DEF NoCommit
<1>6a. PICK c : c = Closed(next, e.feature, last)
  OBVIOUS
<1>7. e.feature \in SomeFeature
  BY <1>4 DEF SomeFeature
<1>8. /\ c \in Projection /\ c.state = next /\ c.current = e.feature /\ c.last = last
      /\ c.accepted = proj.accepted /\ c.integrated = proj.integrated /\ c.start = proj.start
  BY <1>1, <1>6a, <1>7, ClosedTyped DEF Typed
<1>9. /\ branch' = [branch EXCEPT ![e.feature].implemented = TRUE]
      /\ open' = [kind |-> "none", feature |-> NoFeature] /\ proj' = c /\ seq' = seq + 1
      /\ cycle' = [seq |-> seq + 1, phase |-> next]
      /\ Goto(p, "candidate")
      /\ UNCHANGED <<milestone, checkout, linked, tree, prepared, doc, reservation, deaths>>
  BY <1>3, <1>5, <1>6, <1>6a, <1>8 DEF CommitCandidate, EndTransaction, Materialized,
                                WriteTerminalCache
<1>10. PICK step \in Steps : step = "candidate"
  BY DEF Steps
<1>11. /\ pc' \in [Process -> Steps] /\ plan' = [r \in Process |-> plan'[r]]
       /\ pc'[p] = "candidate" /\ plan'[p] = e
       /\ \A r \in Process \ {p} : pc'[r] = pc[r]
  BY <1>1, <1>3, <1>9, <1>10, Engines
<1>12. /\ branch' \in [Feature -> [base : Nat, implemented : BOOLEAN]]
       /\ branch'[e.feature].implemented
       /\ \A g \in Feature : /\ branch'[g].base = branch[g].base
                             /\ branch[g].implemented => branch'[g].implemented
  <2>1. branch \in [Feature -> [base : Nat, implemented : BOOLEAN]]
    BY <1>1 DEF Typed
  <2> QED BY <1>4, <1>9, <2>1
<1>13. Typed'
  <2>1. branch' \in [Feature -> [base : Nat, implemented : BOOLEAN]]
    BY <1>12
  <2> QED BY <1>1, <1>8, <1>9, <1>11, <2>1 DEF Typed, SomeFeature
<1>14. Tip' = Tip /\ milestone'[Tip'] = milestone[Tip] /\ Tip \in Nat /\ 0 < Tip
  BY <1>1, <1>9, TipTyped DEF Tip
<1>15. Bounded'
  BY <1>1, <1>6, <1>8, <1>9, <1>12, <1>14 DEF Bounded, Typed, NoCommit
<1>16. Faithful'
  <2>1. \A g \in proj.accepted : g \in Feature
    BY <1>1 DEF Typed, Projection
  <2> QED BY <1>1, <1>4, <1>5, <1>8, <1>9, <1>12, <1>14, <2>1 DEF Faithful, NoCommit
<1>17. BoundCacheAgrees'
  BY <1>4, <1>8, <1>9, CacheFollows
<1>18. HandOK(p)'
  BY <1>4, <1>8, <1>9, <1>11, <1>14 DEF HandOK, AtWork, InSession, DependenciesComplete
<1>19. \A r \in Process \ {p} : HandOK(r)'
  BY <1>1, <1>2, <1>11, OthersWait
<1> QED BY <1>13, <1>15, <1>16, <1>17, <1>18, <1>19 DEF IInv

LEMMA AcceptsCandidate ==
  ASSUME IInv, NEW p \in Process, AcceptCandidate(p)
  PROVE  IInv'
<1>1. Typed /\ Bounded /\ Faithful /\ BoundCacheAgrees /\ \A r \in Process : HandOK(r)
  BY DEF IInv
<1>2. /\ pc[p] = "candidate" /\ pc[p] \in Held /\ Release(p)
      /\ UNCHANGED <<milestone, branch, checkout, linked, tree, prepared, open, doc, deaths>>
  BY DEF AcceptCandidate, Held, Steps, repository
<1>3. PICK f : f = plan[p].feature
  OBVIOUS
<1>4. f \in Feature /\ f \notin proj.integrated
  BY <1>1, <1>2, <1>3 DEF HandOK, OnFeature
<1>5. /\ pc' \in [Process -> Steps] /\ plan' = [r \in Process |-> plan'[r]]
      /\ reservation' \in Process \cup {NoProcess}
      /\ \A r \in Process : HandOK(r)'
  BY <1>1, <1>2, HandsReleased
<1>6. CASE Acceptable(f)
  <2>1. /\ proj' = Acceptance(f) /\ seq' = seq + 2
        /\ cycle' = [seq |-> seq + 2, phase |-> Acceptance(f).state]
    BY <1>3, <1>6 DEF AcceptCandidate, WriteTerminalCache
  <2>2. seq \in Nat /\ cycle'.seq <= seq'
    BY <1>1, <2>1 DEF Typed
  <2>3. /\ proj' \in Projection /\ Bounded' /\ Faithful'
        /\ proj'.state = "integration_pending" /\ proj'.current = f
        /\ proj'.integrated = proj.integrated
    BY <1>1, <1>2, <1>4, <1>6, <2>1, <2>2, Accepts
  <2>4. cycle' = [seq |-> seq', phase |-> proj'.state]
    BY <2>1
  <2>5. Typed'
    BY <1>1, <1>2, <1>5, <2>1, <2>2, <2>3, <2>4 DEF Typed, Projection
  <2>6. open.kind = "none"
    BY <1>6 DEF Acceptable
  <2>7. BoundCacheAgrees'
    BY <1>2, <1>4, <2>3, <2>4, <2>6, CacheFollows
  <2> QED BY <1>5, <2>3, <2>5, <2>7 DEF IInv
<1>7. CASE ~Acceptable(f)
  <2>1. UNCHANGED <<repository, ledger, cycle>>
    BY <1>2, <1>3, <1>7 DEF AcceptCandidate, repository, ledger
  <2>2. doc' \in States /\ deaths' \in 0..MaxDeaths
    BY <1>1, <1>2 DEF Typed
  <2> QED BY <1>1, <1>5, <2>1, <2>2, Quiet DEF IInv
<1> QED BY <1>6, <1>7

-----------------------------------------------------------------------------
(* The integration and the gate.                                           *)

LEMMA BeginsIntegration ==
  ASSUME IInv, NEW p \in Process, BeginIntegration(p)
  PROVE  IInv'
<1>1. Typed /\ \A r \in Process : HandOK(r)
  BY DEF IInv
<1>2. PICK f : f = plan[p].feature
  OBVIOUS
<1>3. PICK kind \in Kinds, step \in Steps : kind = "integration" /\ step = "integrating"
  BY DEF Kinds, Steps
<1>4. /\ pc[p] = "integrate" /\ pc[p] \in Held /\ BeginTransaction(kind, f) /\ Goto(p, step)
      /\ UNCHANGED <<repository, caches, reservation, deaths>>
  BY <1>2, <1>3 DEF BeginIntegration, Held, Steps
<1>5. f \in Feature /\ f \in SomeFeature /\ reservation = p
  BY <1>1, <1>2, <1>4 DEF HandOK, SomeFeature
<1>6. pc'[p] = "integrating" /\ plan'[p] = plan[p]
  BY <1>1, <1>3, <1>4, Engines
<1>7. open'.kind # "none"
  BY <1>3, <1>4 DEF BeginTransaction
<1>8. HandOK(p)'
  BY <1>2, <1>4, <1>5, <1>6, <1>7 DEF HandOK, OnFeature, InSession
<1> QED BY <1>3, <1>4, <1>5, <1>8, Begins

\* An integration leaves its feature as the current one, and the ledger has
\* integrated it: the view forgets it, as the cache does.
LEMMA CompletesIntegration ==
  ASSUME IInv, NEW p \in Process, NEW finalized \in BOOLEAN, CompleteIntegration(p, finalized)
  PROVE  IInv'
<1>1. Typed /\ Bounded /\ Faithful /\ BoundCacheAgrees /\ \A r \in Process : HandOK(r)
  BY DEF IInv
<1>2. pc[p] = "integrating" /\ pc[p] \in Held /\ Release(p)
  BY DEF CompleteIntegration, Held, Steps
<1>3. PICK f, q : f = plan[p].feature /\ q = Integrated(f)
  OBVIOUS
<1>4. f \in Feature /\ f \in SomeFeature
  BY <1>1, <1>2, <1>3 DEF HandOK, SomeFeature
<1>5. PICK next \in States : next = NextAfterIntegration(q)
  BY DEF NextAfterIntegration, States
<1>6. next \in {"milestone_gate", "feature_ready"}
      /\ (next = "milestone_gate" => MilestoneComplete(q))
  BY <1>5 DEF NextAfterIntegration
<1>7. PICK c, done : /\ c = Closed(next, f, Tip + 1)
                     /\ done = [c EXCEPT !.integrated = c.integrated \cup {f}]
  OBVIOUS
<1>8. /\ milestone' = Append(milestone, q)
      /\ open' = [kind |-> "none", feature |-> NoFeature] /\ proj' = done /\ seq' = seq + 1
      /\ cycle' = IF finalized THEN FinalizedCache(done) ELSE cycle
      /\ UNCHANGED <<branch, checkout, linked, tree, prepared, doc, deaths>>
  BY <1>3, <1>5, <1>7 DEF CompleteIntegration, EndTransaction
<1>9. q \in QueueDocument /\ q.gate = milestone[Tip].gate
  BY <1>1, <1>3, <1>4, IntegratedGrows
<1>10. /\ milestone' \in Seq(QueueDocument) /\ milestone' # <<>>
       /\ Tip' = Tip + 1 /\ milestone'[Tip'] = q /\ Tip \in Nat /\ Tip + 1 \in Nat
  <2>1. milestone' = Append(milestone, q)
    BY <1>8
  <2>2. /\ milestone' \in Seq(QueueDocument) /\ milestone' # <<>>
        /\ Tip' = Tip + 1 /\ milestone'[Tip'] = q
    BY <1>1, <1>9, <2>1, Appended
  <2>3. Tip \in Nat
    BY <1>1, TipTyped
  <2> QED BY <2>2, <2>3
<1>11. /\ c \in Projection /\ c.state = next /\ c.current = f /\ c.selected = NoFeature
       /\ c.last = Tip + 1 /\ c.accepted = proj.accepted /\ c.start = proj.start
       /\ c.integrated = proj.integrated
  BY <1>1, <1>4, <1>7, <1>10, ClosedTyped DEF Typed
<1>12. /\ done \in Projection /\ done.state = next /\ done.current = f
       /\ done.selected = NoFeature /\ done.last = Tip + 1 /\ done.start = proj.start
       /\ done.accepted = proj.accepted /\ f \in done.integrated
  <2>1. c.integrated \cup {f} \in SUBSET Feature
    BY <1>4, <1>11 DEF Projection
  <2> QED BY <1>7, <1>11, <2>1 DEF Projection
<1>13. /\ pc' \in [Process -> Steps] /\ plan' = [r \in Process |-> plan'[r]]
       /\ reservation' \in Process \cup {NoProcess}
       /\ \A r \in Process : HandOK(r)'
  BY <1>1, <1>2, HandsReleased
<1>14. PICK phase \in States :
         phase = IF next = "milestone_gate" THEN "milestone_gate" ELSE "queue_reconciliation"
  BY DEF States
<1>15. cycle' = cycle \/ cycle' = [seq |-> seq + 1, phase |-> phase]
  BY <1>8, <1>12, <1>14 DEF FinalizedCache, Materialized, WriteTerminalCache
<1>16. Typed'
  <2>1. cycle' \in [seq : Nat, phase : States \cup {"none", "feature_selected"}] /\ seq' \in Nat
    BY <1>1, <1>8, <1>15 DEF Typed
  <2>2. open' \in [kind : {"none", "preparation", "execution", "integration", "gate"},
                   feature : SomeFeature]
    BY <1>8 DEF SomeFeature
  <2> QED BY <1>1, <1>8, <1>10, <1>12, <1>13, <2>1, <2>2 DEF Typed
<1>17. seq \in Nat /\ cycle.seq \in Nat /\ cycle.seq <= seq
  BY <1>1 DEF Typed, Bounded
<1>18. cycle'.seq <= seq'
  BY <1>8, <1>15, <1>17
<1>19. Bounded'
  BY <1>1, <1>8, <1>10, <1>12, <1>18 DEF Bounded, Typed, Projection
<1>20. Faithful'
  BY <1>1, <1>6, <1>8, <1>10, <1>12 DEF Faithful
<1>21. BoundCacheAgrees'
  <2>1. CASE cycle' = cycle
    <3>1. cycle'.seq # seq'
      BY <1>8, <1>17, <2>1
    <3> QED BY <3>1, CacheBehind
  <2>2. CASE cycle' = [seq |-> seq + 1, phase |-> phase]
    <3>1. NoFeature \notin proj'.integrated
      BY <1>8, <1>12, CycleConstants DEF Projection, NoFeature
    <3>2. proj'.current \in proj'.integrated /\ proj'.selected = NoFeature
          /\ proj'.state = next /\ open'.kind = "none"
      BY <1>8, <1>12
    <3>3. View'.state = IF next = "feature_ready" THEN "queue_reconciliation" ELSE next
      BY <1>6, <1>8, <1>12, <3>1, <3>2 DEF View, Settled, Projection
    <3>4. View'.state = phase
      BY <1>6, <1>14, <3>3
    <3> QED BY <2>2, <3>4 DEF BoundCacheAgrees
  <2> QED BY <1>15, <2>1, <2>2
<1> QED BY <1>13, <1>16, <1>19, <1>20, <1>21 DEF IInv

\* where the checkout is, is on the milestone or nowhere
LEMMA HeadBounded ==
  ASSUME Typed, Bounded
  PROVE  HeadCommit \in Nat /\ HeadCommit <= Tip
<1>1. Tip \in Nat /\ checkout \in SomeFeature
  BY TipTyped DEF Typed
<1>2. checkout # Milestone => branch[checkout].base \in Nat /\ branch[checkout].base <= Tip
  BY <1>1 DEF Typed, Bounded, SomeFeature, Milestone, NoFeature
<1> QED BY <1>1, <1>2 DEF HeadCommit, NoCommit

LEMMA FailsIntegration ==
  ASSUME IInv, NEW p \in Process, NEW s \in BlockedStates, FailIntegration(p, s)
  PROVE  IInv'
<1>1. s \in Unfinished
  BY DEF Unfinished, States, BlockedStates
<1>2. PICK f, last : /\ f = plan[p].feature
                     /\ last = IF s = "validation_failed" THEN HeadCommit ELSE proj.last
  OBVIOUS
<1>3. /\ pc[p] = "integrating" /\ pc[p] \in Held /\ Release(p)
      /\ EndTransaction(Closed(s, f, last)) /\ cycle' = cycle
      /\ UNCHANGED <<milestone, branch, checkout, linked, prepared, deaths>>
      /\ tree' \in {"clean", "dirty"} /\ doc' = doc
  BY <1>2 DEF FailIntegration, Held, Steps, caches
<1>4. f \in SomeFeature
  BY <1>2, <1>3 DEF IInv, HandOK, SomeFeature
<1>5. last \in Nat /\ last <= Tip
  BY <1>2, HeadBounded DEF IInv, Typed, Bounded, Projection
<1>6. doc' \in States
  BY <1>3 DEF IInv, Typed
<1> QED BY <1>1, <1>3, <1>4, <1>5, <1>6, EndsShort

LEMMA BeginsGate ==
  ASSUME IInv, NEW p \in Process, BeginGate(p)
  PROVE  IInv'
<1>1. Typed /\ Bounded /\ Faithful /\ BoundCacheAgrees /\ \A r \in Process : HandOK(r)
  BY DEF IInv
<1>2. /\ pc[p] = "gate" /\ pc[p] \in Held
      /\ UNCHANGED <<repository, caches, deaths>>
  BY DEF BeginGate, Held, Steps
<1>3. plan[p].view.state = "milestone_gate" /\ MilestoneComplete(milestone[Tip])
      /\ reservation = p
  BY <1>1, <1>2 DEF HandOK
<1>4. CASE StartsAt(Milestone, plan[p]) /\ cycle.phase \in GatePhases
  <2>1. PICK kind \in Kinds, step \in Steps : kind = "gate" /\ step = "gating"
    BY DEF Kinds, Steps
  <2>2. BeginTransaction(kind, NoFeature) /\ Goto(p, step) /\ UNCHANGED reservation
    BY <1>4, <2>1 DEF BeginGate
  <2>3. pc'[p] = "gating" /\ plan'[p] = plan[p]
    BY <1>1, <2>1, <2>2, Engines
  <2>4. open'.kind # "none" /\ Tip' = Tip /\ milestone' = milestone
    BY <1>2, <2>1, <2>2 DEF BeginTransaction, repository, Tip
  <2>5. HandOK(p)'
    BY <1>3, <2>2, <2>3, <2>4 DEF HandOK, OnFeature, InSession, MilestoneComplete
  <2>6. NoFeature \in SomeFeature
    BY DEF SomeFeature
  <2> QED BY <1>2, <1>3, <2>1, <2>2, <2>5, <2>6, Begins
<1>5. CASE StartsAt(Milestone, plan[p]) /\ cycle.phase \notin GatePhases
  <2>1. PICK next \in States : next = "validation_failed"
    BY DEF States, BlockedStates
  <2>2. PICK c : c = Closed(next, NoFeature, Tip)
    OBVIOUS
  <2>3. /\ proj' = [c EXCEPT !.imported = NoFeature] /\ seq' = seq + 2 /\ Release(p)
        /\ UNCHANGED <<milestone, branch, checkout, linked, tree, prepared, open, cycle, doc,
                       deaths>>
    BY <1>2, <1>5, <2>1, <2>2 DEF BeginGate, repository, caches
  <2>4. Tip \in Nat /\ NoFeature \in SomeFeature
    BY <1>1, TipTyped DEF SomeFeature
  <2>5. /\ c \in Projection /\ c.state = next /\ c.last = Tip /\ c.start = proj.start
        /\ c.accepted = proj.accepted
    BY <1>1, <2>2, <2>4, ClosedTyped DEF Typed
  <2>6. /\ proj' \in Projection /\ proj'.state = next /\ proj'.last = Tip
        /\ proj'.start = proj.start /\ proj'.accepted = proj.accepted
    BY <2>3, <2>4, <2>5 DEF Projection
  <2>7. /\ pc' \in [Process -> Steps] /\ plan' = [r \in Process |-> plan'[r]]
        /\ reservation' \in Process \cup {NoProcess}
        /\ \A r \in Process : HandOK(r)'
    BY <1>1, <1>2, <2>3, HandsReleased
  <2>8. Typed'
    BY <1>1, <2>3, <2>6, <2>7 DEF Typed
  <2>9. seq \in Nat /\ cycle.seq \in Nat /\ cycle.seq <= seq
    BY <1>1 DEF Typed, Bounded
  <2>10. cycle'.seq <= seq' /\ cycle'.seq # seq'
    BY <2>3, <2>9
  <2>11. Bounded' /\ Faithful'
    BY <1>1, <2>1, <2>3, <2>4, <2>6, <2>10 DEF Bounded, Faithful, Tip
  <2>12. BoundCacheAgrees'
    BY <2>10, CacheBehind
  <2> QED BY <2>7, <2>8, <2>11, <2>12 DEF IInv
<1>6. CASE ~StartsAt(Milestone, plan[p])
  <2>1. Release(p) /\ UNCHANGED <<repository, ledger, cycle, doc, deaths>>
    BY <1>2, <1>6 DEF BeginGate, caches
  <2>2. doc' \in States /\ deaths' \in 0..MaxDeaths
    BY <1>1, <2>1 DEF Typed
  <2> QED BY <1>1, <1>2, <2>1, <2>2, HandsReleased, Quiet DEF IInv
<1> QED BY <1>4, <1>5, <1>6

\* what the engine of the gate knows
LEMMA GateEngine ==
  ASSUME IInv, NEW p \in Process, pc[p] = "gating"
  PROVE  /\ pc[p] \in Held /\ plan[p].view.state = "milestone_gate"
         /\ MilestoneComplete(milestone[Tip])
  BY DEF IInv, HandOK, Held, Steps

LEMMA CompletesGate ==
  ASSUME IInv, NEW p \in Process, CompleteGate(p)
  PROVE  IInv'
<1>1. Typed /\ Bounded /\ Faithful /\ BoundCacheAgrees /\ \A r \in Process : HandOK(r)
  BY DEF IInv
<1>2. pc[p] = "gating" /\ Release(p)
  BY DEF CompleteGate
<1>3. PICK q : q = GatePassed
  OBVIOUS
<1>4. PICK next \in States : next = "milestone_ready_for_merge"
  BY DEF States
<1>5. PICK c : c = Closed(next, NoFeature, Tip + 1)
  OBVIOUS
<1>6. Tip \in Nat /\ Tip + 1 \in Nat /\ NoFeature \in SomeFeature
  BY <1>1, TipTyped DEF SomeFeature
<1>7. /\ c \in Projection /\ c.state = next /\ c.current = NoFeature
      /\ c.last = Tip + 1 /\ c.accepted = proj.accepted /\ c.start = proj.start
      /\ c.integrated = proj.integrated
  BY <1>1, <1>5, <1>6, ClosedTyped DEF Typed
<1>8. /\ milestone' = Append(milestone, q)
      /\ open' = [kind |-> "none", feature |-> NoFeature] /\ proj' = c /\ seq' = seq + 1
      /\ cycle' = [seq |-> seq + 1, phase |-> next]
      /\ doc' = Transition(Transition(plan[p].view.state, "milestone_gate"),
                           "milestone_ready_for_merge")
      /\ UNCHANGED <<branch, checkout, linked, tree, prepared, deaths>>
  BY <1>3, <1>4, <1>5, <1>7 DEF CompleteGate, EndTransaction, Materialized, WriteTerminalCache
<1>9. q \in QueueDocument /\ q.gate = "passed"
  BY <1>1, <1>3, GatePassedGrows
<1>10. /\ milestone' \in Seq(QueueDocument) /\ milestone' # <<>>
       /\ Tip' = Tip + 1 /\ milestone'[Tip'] = q
  BY <1>1, <1>8, <1>9, Appended
<1>11. doc' \in States
  BY <1>2, <1>4, <1>8, GateEngine, Moves
<1>12. /\ pc' \in [Process -> Steps] /\ plan' = [r \in Process |-> plan'[r]]
       /\ reservation' \in Process \cup {NoProcess}
       /\ \A r \in Process : HandOK(r)'
  BY <1>1, <1>2, GateEngine, HandsReleased
<1>13. Typed'
  <2>1. cycle' \in [seq : Nat, phase : States \cup {"none", "feature_selected"}] /\ seq' \in Nat
    BY <1>1, <1>8 DEF Typed
  <2>2. open' \in [kind : {"none", "preparation", "execution", "integration", "gate"},
                   feature : SomeFeature]
    BY <1>8 DEF SomeFeature
  <2> QED BY <1>1, <1>7, <1>8, <1>10, <1>11, <1>12, <2>1, <2>2 DEF Typed
<1>14. Bounded'
  BY <1>1, <1>6, <1>7, <1>8, <1>10 DEF Bounded, Typed, Projection
<1>15. Faithful'
  BY <1>1, <1>4, <1>7, <1>8, <1>9, <1>10 DEF Faithful
<1>16. BoundCacheAgrees'
  <2>1. NoFeature \notin proj.integrated
    BY <1>1, CycleConstants DEF Typed, Projection, NoFeature
  <2> QED BY <1>7, <1>8, <2>1, CacheFollows
<1> QED BY <1>12, <1>13, <1>14, <1>15, <1>16 DEF IInv

\* The commit of a session that did not pass the gate: nothing is undone.
LEMMA LacksEvidence ==
  ASSUME IInv, NEW p \in Process, GateLacksEvidence(p)
  PROVE  IInv'
<1>1. Typed /\ Bounded /\ Faithful /\ BoundCacheAgrees /\ \A r \in Process : HandOK(r)
  BY DEF IInv
<1>2. PICK q : q = milestone[Tip]
  OBVIOUS
<1>3. /\ pc[p] = "gating" /\ Release(p) /\ milestone' = Append(milestone, q)
      /\ UNCHANGED <<branch, checkout, linked, tree, proj, prepared, open, seq, cycle, doc,
                     deaths>>
  BY <1>2 DEF GateLacksEvidence, ledger, caches
<1>4. q \in QueueDocument /\ Tip \in Nat
  BY <1>1, <1>2, TipTyped
<1>5. /\ milestone' \in Seq(QueueDocument) /\ milestone' # <<>>
      /\ Tip' = Tip + 1 /\ milestone'[Tip'] = q
  BY <1>1, <1>3, <1>4, Appended
<1>6. /\ pc' \in [Process -> Steps] /\ plan' = [r \in Process |-> plan'[r]]
      /\ reservation' \in Process \cup {NoProcess}
      /\ \A r \in Process : HandOK(r)'
  BY <1>1, <1>3, GateEngine, HandsReleased
<1>7. Typed'
  BY <1>1, <1>3, <1>5, <1>6 DEF Typed
<1>8. Bounded'
  BY <1>1, <1>3, <1>4, <1>5 DEF Bounded, Typed, Projection
<1>9. Faithful'
  BY <1>1, <1>2, <1>3, <1>5 DEF Faithful
<1>10. BoundCacheAgrees'
  BY <1>1, <1>3, CacheKept
<1> QED BY <1>6, <1>7, <1>8, <1>9, <1>10 DEF IInv

LEMMA FailsGate ==
  ASSUME IInv, NEW p \in Process, NEW s \in BlockedStates, NEW enveloped \in BOOLEAN,
         FailGate(p, s, enveloped)
  PROVE  IInv'
<1>1. s \in Unfinished /\ s \in States
  BY DEF Unfinished, States, BlockedStates
<1>2. PICK last : last = IF s = "validation_failed" THEN Tip ELSE proj.last
  OBVIOUS
<1>3. /\ pc[p] = "gating" /\ Release(p)
      /\ EndTransaction(Closed(s, NoFeature, last)) /\ cycle' = cycle
      /\ UNCHANGED <<milestone, branch, checkout, linked, tree, prepared, deaths>>
      /\ doc' = IF enveloped THEN Transition(plan[p].view.state, s) ELSE doc
  BY <1>2 DEF FailGate, repository
<1>4. /\ last \in Nat /\ last <= Tip /\ tree' \in {"clean", "dirty"} /\ doc \in States
  BY <1>2, <1>3, TipTyped DEF IInv, Typed, Bounded, Projection
<1>5. pc[p] \in Held /\ plan[p].view.state = "milestone_gate"
  BY <1>3, GateEngine
<1>6. doc' \in States
  BY <1>1, <1>3, <1>4, <1>5, Moves
<1>7. NoFeature \in SomeFeature
  BY DEF SomeFeature
<1> QED BY <1>1, <1>3, <1>4, <1>5, <1>6, <1>7, EndsShort

-----------------------------------------------------------------------------
(* The whole engine.                                                       *)

LEMMA FirstCommit ==
  ASSUME NEW q \in QueueDocument, milestone = <<q>>
  PROVE  milestone \in Seq(QueueDocument) /\ milestone # <<>> /\ Tip = 1 /\ milestone[Tip] = q
  BY DEF Tip

LEMMA Initially ==
  ASSUME Init
  PROVE  IInv
<1>1. /\ checkout = Milestone /\ linked = FALSE /\ tree = "clean"
      /\ prepared = [f \in Feature |-> NoCommit]
      /\ open = [kind |-> "none", feature |-> NoFeature]
      /\ reservation = NoProcess
      /\ pc = [p \in Process |-> "idle"] /\ plan = [p \in Process |-> NoPlan] /\ deaths = 0
  BY DEF Init
<1>2. \A p \in Process : HandOK(p)
  BY <1>1 DEF HandOK, Held, AtWork, OnFeature, InSession
<1>3. /\ milestone \in Seq(QueueDocument) /\ milestone # <<>> /\ Tip = 1
      /\ branch \in [Feature -> [base : Nat, implemented : BOOLEAN]]
      /\ \A f \in Feature : branch[f].base <= 1
                            /\ (branch[f].implemented => branch[f].base # NoCommit)
      /\ proj \in Projection /\ proj.state \in {"discover", "integration_pending"}
      /\ proj.start = 0 /\ proj.last <= 1 /\ proj.accepted = {}
      /\ seq \in Nat /\ cycle \in [seq : Nat, phase : States \cup {"none"}]
      /\ cycle.seq = 0 /\ (seq = 0 \/ cycle.seq # seq) /\ doc \in States
  <2>1. CASE InitFresh
    <3>1. PICK q : q = [status |-> [f \in Feature |-> "ready"], gate |-> "open"]
      OBVIOUS
    <3>2. q \in QueueDocument
      BY <3>1 DEF QueueDocument, Statuses
    <3>3. milestone = <<q>>
      BY <2>1, <3>1 DEF InitFresh
    <3>4. /\ branch \in [Feature -> [base : Nat, implemented : BOOLEAN]]
          /\ \A f \in Feature : branch[f].base = 0 /\ ~branch[f].implemented
      BY <2>1 DEF InitFresh, NoCommit
    <3>5. /\ proj \in Projection /\ proj.state = "discover"
          /\ proj.start = 0 /\ proj.last = 0 /\ proj.accepted = {}
      BY <2>1 DEF InitFresh, Projection, SomeFeature, NoCommit, States
    <3>6. /\ seq = 0 /\ cycle \in [seq : Nat, phase : States \cup {"none"}] /\ cycle.seq = 0
          /\ doc \in States
      BY <2>1 DEF InitFresh, States
    <3> QED BY <3>2, <3>3, <3>4, <3>5, <3>6, FirstCommit
  <2>2. CASE InitMigrated
    <3>1. PICK f \in Feature, done \in SUBSET Feature,
               phase \in {"none", "integration_pending"} :
            /\ f \notin done /\ Dependencies[f] \subseteq done
            /\ \A d \in done : Dependencies[d] \subseteq done
            /\ milestone = <<[gate |-> "open",
                 status |-> [g \in Feature |-> CASE g \in done -> "integrated"
                                                [] g = f -> "pending" [] OTHER -> "ready"]]>>
            /\ branch = [g \in Feature |-> [base |-> IF g = f THEN 1 ELSE NoCommit,
                                            implemented |-> g = f]]
            /\ proj = [state |-> "integration_pending", current |-> f,
                       selected |-> NoFeature, start |-> NoCommit, accepted |-> {},
                       integrated |-> {}, last |-> 1, imported |-> f]
            /\ seq = 2
            /\ cycle = [seq |-> 0, phase |-> phase]
            /\ doc = "integration_pending"
      BY <2>2 DEF InitMigrated
    <3>2. PICK status : status = [g \in Feature |-> CASE g \in done -> "integrated"
                                                     [] g = f -> "pending" [] OTHER -> "ready"]
      OBVIOUS
    <3>3. status \in [Feature -> Statuses]
      BY <3>1, <3>2 DEF Statuses
    <3>4. PICK q : q = [gate |-> "open", status |-> status]
      OBVIOUS
    <3>5. q \in QueueDocument /\ milestone = <<q>>
      BY <3>1, <3>2, <3>3, <3>4 DEF QueueDocument
    <3>6. /\ branch \in [Feature -> [base : Nat, implemented : BOOLEAN]]
          /\ \A g \in Feature : branch[g].base <= 1
                                /\ (branch[g].implemented => branch[g].base # NoCommit)
      <4>1. ASSUME NEW g \in Feature
            PROVE  branch[g] = [base |-> IF g = f THEN 1 ELSE 0, implemented |-> g = f]
        BY <3>1 DEF NoCommit
      <4>2. ASSUME NEW g \in Feature
            PROVE  /\ branch[g] \in [base : Nat, implemented : BOOLEAN] /\ branch[g].base <= 1
                   /\ branch[g].implemented => branch[g].base # 0
        <5>1. CASE g = f
          <6>1. branch[g] = [base |-> 1, implemented |-> TRUE]
            BY <4>1, <5>1
          <6> QED BY <6>1
        <5>2. CASE g # f
          <6>1. branch[g] = [base |-> 0, implemented |-> FALSE]
            BY <4>1, <5>2
          <6> QED BY <6>1
        <5> QED BY <5>1, <5>2
      <4>3. branch = [g \in Feature |-> branch[g]]
        BY <3>1
      <4> QED BY <4>2, <4>3 DEF NoCommit
    <3>7. /\ proj \in Projection /\ proj.state = "integration_pending"
          /\ proj.start = 0 /\ proj.last = 1 /\ proj.accepted = {}
      BY <3>1 DEF Projection, SomeFeature, NoCommit, States
    <3>8. /\ seq = 2 /\ cycle \in [seq : Nat, phase : States \cup {"none"}] /\ cycle.seq = 0
          /\ doc \in States
      BY <3>1 DEF States
    <3> QED BY <3>5, <3>6, <3>7, <3>8, FirstCommit
  <2> QED BY <2>1, <2>2 DEF Init
<1>4. Typed
  <2>1. checkout \in SomeFeature /\ linked \in BOOLEAN /\ tree \in {"clean", "dirty"}
    BY <1>1 DEF SomeFeature, Milestone, NoFeature
  <2>2. prepared \in [Feature -> Nat]
    BY <1>1 DEF NoCommit
  <2>3. /\ open \in [kind : {"none", "preparation", "execution", "integration", "gate"},
                      feature : SomeFeature]
        /\ reservation \in Process \cup {NoProcess}
    BY <1>1 DEF SomeFeature
  <2>4. pc \in [Process -> Steps] /\ plan = [p \in Process |-> plan[p]]
    BY <1>1 DEF Steps
  <2>5. deaths \in 0..MaxDeaths
    BY <1>1, CycleConstants
  <2>6. cycle \in [seq : Nat, phase : States \cup {"none", "feature_selected"}]
    BY <1>3
  <2> QED BY <1>3, <2>1, <2>2, <2>3, <2>4, <2>5, <2>6 DEF Typed
<1>5. Bounded
  BY <1>1, <1>3 DEF Bounded, NoCommit
<1>6. Faithful
  BY <1>3 DEF Faithful
<1>7. BoundCacheAgrees
  BY <1>3 DEF BoundCacheAgrees
<1> QED BY <1>2, <1>4, <1>5, <1>6, <1>7 DEF IInv

LEMMA Step ==
  ASSUME IInv, [Next]_vars
  PROVE  IInv'
<1>1. CASE UNCHANGED vars
  <2>1. UNCHANGED <<repository, ledger, cycle, doc, reservation, pc, plan, deaths>>
    BY <1>1 DEF vars, caches
  <2>2. Typed /\ Bounded /\ Faithful /\ BoundCacheAgrees /\ \A r \in Process : HandOK(r)
    BY DEF IInv
  <2>3. /\ doc' \in States /\ pc' \in [Process -> Steps]
        /\ plan' = [r \in Process |-> plan'[r]]
        /\ reservation' \in Process \cup {NoProcess} /\ deaths' \in 0..MaxDeaths
    BY <2>1, <2>2 DEF Typed
  <2>4. Typed' /\ Bounded' /\ Faithful' /\ BoundCacheAgrees'
    BY <2>1, <2>2, <2>3, Quiet
  <2>5. /\ UNCHANGED <<milestone, branch, checkout, open, reservation>>
        /\ proj'.integrated = proj.integrated
        /\ \A r \in Process : pc'[r] = pc[r] /\ plan'[r] = plan[r]
    BY <2>1 DEF repository, ledger
  <2>6. \A r \in Process : HandOK(r)'
    BY <2>2, <2>5, HandsKept
  <2> QED BY <2>4, <2>6 DEF IInv
<1>2. ASSUME NEW p \in Process,
             \/ SelectFeature(p) \/ RunProject(p) \/ ResumeProject(p)
             \/ PreflightFeature(p) \/ PreflightGate(p) \/ Reserve(p) \/ Dispatch(p)
             \/ RecoverCacheBinding(p) \/ ReconcileControllerState(p) \/ Die(p)
      PROVE  IInv'
  BY <1>2, Selects, FollowsPlan, Preflights, Reserves, Dispatches, RecoversCacheBinding,
     Reconciles, Dies
<1>3. ASSUME NEW p \in Process,
             \/ BeginPreparation(p) \/ CompletePreparation(p) \/ VerifyBranch(p)
             \/ BeginExecution(p)
             \/ LaunchSession(p) \/ FailPrelaunch(p) \/ FailLaunch(p) \/ SessionLost(p)
             \/ SessionRaises(p) \/ ValidationFails(p)
             \/ CommitCandidate(p) \/ AcceptCandidate(p)
             \/ \E s \in BlockedStates : SessionBlocked(p, s)
      PROVE  IInv'
  BY <1>3, BeginsPreparation, CompletesPreparation, VerifiesBranch, BeginsExecution, Launches, FailsPrelaunch,
     HandlesFailure, LosesSession, BlocksSession, CommitsCandidate, AcceptsCandidate
<1>4. ASSUME NEW p \in Process,
             \/ BeginIntegration(p) \/ BeginGate(p) \/ CompleteGate(p) \/ GateLacksEvidence(p)
             \/ \E b \in BOOLEAN : CompleteIntegration(p, b)
             \/ \E s \in BlockedStates : FailIntegration(p, s)
             \/ \E s \in BlockedStates, b \in BOOLEAN : FailGate(p, s, b)
      PROVE  IInv'
  BY <1>4, BeginsIntegration, CompletesIntegration, FailsIntegration, BeginsGate,
     CompletesGate, LacksEvidence, FailsGate
<1>5. ASSUME \/ \E f \in Feature : AcceptByHand(f) \/ Deliver(f) \/ Switch(f)
             \/ Switch(Milestone) \/ CommitByHand \/ Link \/ CleanUp \/ RemoveReservation
      PROVE  IInv'
  <2>1. Feature \subseteq SomeFeature /\ Milestone \in SomeFeature
    BY DEF SomeFeature, Milestone, NoFeature
  <2> QED BY <1>5, <2>1, AcceptsByHand, Delivers, CommitsByHand, Operates, RemovesReservation
<1> QED BY <1>1, <1>2, <1>3, <1>4, <1>5 DEF Next

THEOREM Invariance == Spec => []IInv
<1>1. Init => IInv
  BY Initially
<1>2. IInv /\ [Next]_vars => IInv'
  BY Step
<1> QED BY <1>1, <1>2, PTL DEF Spec

-----------------------------------------------------------------------------
\* The documents and the branches are what the code takes them for: no command
\* asks the project document for a move its machine refuses (_transition_project),
\* whatever happened to the project since it was planned.
THEOREM TypeCorrectness == Spec => []TypeOK
<1>1. IInv => TypeOK
  <2> SUFFICES ASSUME IInv PROVE TypeOK
    OBVIOUS
  <2>1. Typed /\ Bounded /\ Tip \in Nat
    BY TipTyped DEF IInv
  <2>2. \A c \in 1..Tip : milestone[c] \in QueueDocument
    BY <2>1 DEF Typed, Tip
  <2>3. branch \in [Feature -> [base : 0..Tip, implemented : BOOLEAN]]
    BY <2>1 DEF Typed, Bounded
  <2>4. proj \in [state : States, current : SomeFeature, selected : SomeFeature,
                  start : 0..Tip, accepted : SUBSET Feature, integrated : SUBSET Feature,
                  last : 0..Tip, imported : SomeFeature]
    BY <2>1 DEF Typed, Bounded, Projection
  <2>5. prepared \in [Feature -> 0..Tip]
    BY <2>1 DEF Typed, Bounded
  <2>6. open.feature \in SomeFeature /\ seq \in Nat /\ cycle.seq \in 0..seq
        /\ cycle.phase \in States \cup {"none", "feature_selected"}
    BY <2>1 DEF Typed, Bounded
  <2>7. checkout \in Feature \cup {Milestone}
    BY <2>1 DEF Typed, SomeFeature, Milestone, NoFeature
  <2> QED BY <2>1, <2>2, <2>3, <2>4, <2>5, <2>6, <2>7
          DEF TypeOK, Typed, QueueDocument, Statuses, SomeFeature
<1> QED BY <1>1, Invariance, PTL

\* A session works on the branch of its feature, from the planned milestone commit,
\* which has its dependencies, alone, and never on work that was accepted or
\* integrated, whoever moves the milestone before the execution lease or after it
\* (_execute_feature, _verify_feature_branch_runtime, begin).
THEOREM SessionsAreOnBase == Spec => []SessionOnItsBase
<1>1. IInv => SessionOnItsBase
  <2> SUFFICES ASSUME IInv, NEW p \in Process, pc[p] \in InSession
               PROVE  LET f == plan[p].feature IN
                      /\ checkout = f /\ branch[f].base = plan[p].start /\ ~branch[f].implemented
                      /\ DependenciesComplete(milestone[branch[f].base], f)
                      /\ f \notin proj.accepted \cup proj.integrated
                      /\ \A r \in Process \ {p} : pc[r] \in {"idle", "planned", "preflighted"}
    BY DEF SessionOnItsBase, InSession
  <2>1. /\ pc[p] \in OnFeature /\ pc[p] # "candidate" /\ pc[p] \in Held
        /\ \A r \in Process : HandOK(r)
        /\ Typed /\ Faithful
    BY DEF InSession, OnFeature, Held, Steps, IInv
  <2>2. PICK f : f = plan[p].feature
    OBVIOUS
  <2>3. /\ checkout = f /\ branch[f].base = plan[p].start /\ ~branch[f].implemented
        /\ DependenciesComplete(milestone[branch[f].base], f) /\ f \notin proj.integrated
    BY <2>1, <2>2 DEF HandOK
  <2>4. f \notin proj.accepted
    BY <2>1, <2>3 DEF Faithful
  <2>5. ASSUME NEW r \in Process \ {p}
        PROVE  pc[r] \in {"idle", "planned", "preflighted"}
    <3>1. pc[r] \notin Held
      BY <2>1, HeldByOne
    <3>2. pc[r] \in Steps
      BY <2>1 DEF Typed
    <3> QED BY <3>1, <3>2 DEF Held
  <2> QED BY <2>2, <2>3, <2>4, <2>5
<1> QED BY <1>1, Invariance, PTL

\* The gate runs on a complete milestone and is passed on its tip
\* (_execute_milestone_gate).
THEOREM GateWaits == Spec => []GateOnlyWhenComplete
<1>1. IInv => GateOnlyWhenComplete
  BY DEF IInv, HandOK, Faithful, GateOnlyWhenComplete
<1> QED BY <1>1, Invariance, PTL

\* A bound cycle cache and the ledger's projection never disagree
\* (_materialize_terminal_cycle_cache, _apply_cache_binding_recovery).
THEOREM BoundCachesAgree == Spec => []BoundCacheAgrees
<1>1. IInv => BoundCacheAgrees
  BY DEF IInv
<1> QED BY <1>1, Invariance, PTL

=============================================================================
