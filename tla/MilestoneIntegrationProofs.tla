---------------------- MODULE MilestoneIntegrationProofs ----------------------
(***************************************************************************)
(* Proofs about MilestoneIntegration, for every number of processes,       *)
(* features, transactions, versions, deaths and foreign steps.             *)
(*                                                                         *)
(* The argument.  A command at work holds the writer lease, so only one is *)
(* at work, and what the others do to the milestone is to append to it.    *)
(* What a handler saw of a prefix of the milestone therefore stays true,   *)
(* and a check "HEAD is still the planned start" makes that prefix the     *)
(* whole milestone again at the moment of the append (CommandOK).  The     *)
(* ledger grows in the same way: an entry changes until it has its         *)
(* terminal event and never after (EntryOK).                               *)
(*                                                                         *)
(* A version may be accepted twice, by two commands that looked for an     *)
(* earlier acceptance before either had the lease.  It is picked once all  *)
(* the same: the executor wants one acceptance, made where the milestone   *)
(* is now, and an earlier pick had one made where the milestone was.       *)
(***************************************************************************)
EXTENDS MilestoneIntegration, FiniteSetTheorems, WellFoundedInduction, TLAPS

\* what a commit of the milestone is
CommitRecord ==
  [kind : CommitKinds, feature : Feature \cup {NoFeature}, ver : Nat]

Accepting == {"accepting", "accepted"}

\* steps of an integration before its outcome is recorded
Unrecorded ==
  {"begun", "started", "snapped", "resumed", "planned", "picking", "conflicted",
   "staged", "picked", "marked", "validated"}

Integrating == Unrecorded \cup {"recorded", "finalized", "failed"}

\* steps at which a command holds the lease
Working == Accepting \cup Integrating \cup {"releasing"}

\* the two steps between a passing outcome and the end of its transaction
Pending == {"recorded", "finalized"}

\* steps of an integration that has a plan
Planned ==
  {"planned", "picking", "staged", "picked", "marked", "validated", "recorded", "finalized"}

\* steps that leave the worktree as the commit before them did
Clear == {"picked", "marked", "validated", "recorded", "finalized"}

Steps == Working \cup {"idle", "released", "inspected"}

FinalKinds == {"passed", "failed"}
MarkKinds == {"marking"} \cup FinalKinds

FailedClasses == {"VALIDATION_FAILED", "SUPERSEDED", "TERMINAL_INTEGRATION_FAILURE"}

Typed ==
  /\ milestone \in Seq(CommitRecord)
  /\ cand \in [Feature -> [ver : 0..MaxVersion, base : Nat]]
  /\ tree \in {"clean", "dirty", "staged", "conflict"}
  /\ hist \in [Txn -> Seq(EventTypes)]
  /\ fact \in [Txn -> Fact]
  /\ lease \in Txn \cup {NoTxn} /\ holder \in Process \cup {NoProcess}
  /\ pc \in [Process -> Steps]
  /\ cur \in [Process -> Txn \cup {NoTxn}]
  /\ todo \in [Process -> Seq(EventTypes)]
  /\ crashes \in Nat /\ drift \in Nat
  /\ plans \in SUBSET Txn
  /\ runtime \in [plan : Txn \cup {NoTxn}, phase : Phases]
  /\ blockers \in [Process -> BOOLEAN]

\* a is a completed acceptance
Accepted(a) == fact[a].kind = "acceptance" /\ fact[a].class = "FEATURE_ACCEPTED"

\* t integrates a version that was accepted on the commit it is picked onto
Based(t) ==
  \E a \in Txn : /\ Accepted(a) /\ fact[a].feature = fact[t].feature
                  /\ fact[a].ver = fact[t].ver /\ fact[a].start = PickBase(t)

\* a transaction with a plan
PlanOK(t) == fact[t].kind = "integration" /\ fact[t].of = NoTxn /\ Based(t)

\* the milestone does not have version v of f
Unpicked(f, v) == \A i \in DOMAIN milestone : milestone[i] # Pick(f, v)

\* the milestone records the end of the integration of f
Final(i, f) == milestone[i].feature = f /\ milestone[i].kind \in FinalKinds

(* One transaction.  Its class is that of a terminal event; it is about a  *)
(* version that exists and a commit the milestone has; what it resumes is  *)
(* the integration of the same version; its outcome is on the milestone    *)
(* after its start; and its class is what the milestone shows.             *)
EntryOK(t) ==
  /\ fact[t].class # "open" => Terminated(hist[t])
  /\ fact[t].kind = "none" => fact[t].evidence = 0
  /\ fact[t].kind # "none" =>
       /\ fact[t].feature \in Feature
       /\ fact[t].ver \in 1..cand[fact[t].feature].ver
       /\ fact[t].start <= Tip
  /\ fact[t].of # NoTxn =>
       /\ fact[fact[t].of].kind = "integration"
       /\ fact[fact[t].of].feature = fact[t].feature
       /\ fact[fact[t].of].ver = fact[t].ver
  /\ fact[t].evidence # 0 =>
       /\ fact[t].kind = "integration"
       /\ fact[t].start < fact[t].evidence /\ fact[t].evidence <= Tip
  /\ fact[t].class = "INTEGRATED" =>
       /\ fact[t].kind = "integration" /\ Based(t)
       /\ PickBase(t) < Tip /\ milestone[PickBase(t) + 1] = Pick(fact[t].feature, fact[t].ver)
       /\ fact[t].evidence # 0 /\ milestone[fact[t].evidence] = Commit("passed", fact[t].feature)
  /\ drift = 0 /\ fact[t].evidence # 0 /\ fact[t].feature \notin Ranged
     /\ fact[t].class \in FailedClasses
     => milestone[fact[t].evidence].kind = "failed"

(* One commit.  An implementation was accepted on a commit before it and   *)
(* comes after the dependencies of its feature.                            *)
PickOK(i) ==
  /\ milestone[i].kind # "pick" => milestone[i].ver = 0
  /\ milestone[i].kind = "pick" =>
       /\ milestone[i].feature \in Feature
       /\ \E a \in Txn : /\ Accepted(a)
                         /\ fact[a].feature = milestone[i].feature
                         /\ fact[a].ver = milestone[i].ver
                         /\ fact[a].start < i
       /\ \A d \in Dependencies[milestone[i].feature] :
             \E j \in 1..(i - 1) : milestone[j] = Commit("passed", d)

\* nothing is recorded of a feature after its outcome
FinalOnce ==
  \A i, j \in DOMAIN milestone :
     /\ milestone[i].kind \in FinalKinds /\ milestone[j].kind \in MarkKinds
     /\ milestone[i].feature = milestone[j].feature
     => j <= i

Unended(f) == \A i \in DOMAIN milestone : ~Final(i, f)

\* only the pick and others touch the worktree
Clean ==
  drift = 0 => \A p \in Process : /\ pc[p] = "staged" => tree = "staged"
                                  /\ pc[p] \in Clear => tree = "clean"

(* One process.  It holds the lease while it is at work, and a process     *)
(* with a transaction is one that is in a command.                         *)
HandOK(p) ==
  /\ pc[p] = "idle" => todo[p] = <<>>
  /\ pc[p] # "idle" => cur[p] \in Txn
  /\ pc[p] \in Working => Owns(p)

(* What its step says about its transaction and the milestone.             *)
CommandOK(p) ==
  LET t == cur[p]
      f == fact[t].feature
      v == fact[t].ver
      b == PickBase(t) IN
  /\ pc[p] \in Integrating =>
       /\ fact[t].kind = "integration" /\ fact[t].class = "open"
       /\ \A a \in Txn : Accepted(a) /\ fact[a].feature = f => fact[a].ver <= v
  /\ pc[p] \in Unrecorded => fact[t].evidence = 0
  /\ pc[p] \in {"snapped", "planned", "picking", "staged", "picked"} => fact[t].of = NoTxn
  /\ pc[p] = "resumed" => fact[t].of # NoTxn
  /\ pc[p] \in Planned => Based(t)
  /\ pc[p] \in {"picking", "staged"} =>
       /\ Unpicked(f, v)
       /\ \A d \in Dependencies[f] : \E j \in 1..b : milestone[j] = Commit("passed", d)
  /\ pc[p] \in {"marked", "validated", "recorded", "finalized"} =>
       b < Tip /\ milestone[b + 1] = Pick(f, v)
  /\ pc[p] \in {"marked", "validated"} => Unended(f)
  /\ pc[p] \in {"marked", "validated"} /\ drift = 0 => Tip = b + 2
  /\ pc[p] \in {"recorded", "finalized", "failed"} =>
       /\ fact[t].evidence # 0
       /\ milestone[fact[t].evidence] = Commit(Outcome(p), f)
  /\ pc[p] \in Pending /\ drift = 0 => Tip = fact[t].evidence /\ fact[t].evidence = b + 3
  /\ pc[p] = "finalized" => ~blockers[p]
  /\ pc[p] = "failed" => blockers[p]

(* With nobody else at the repository and no death: a passing outcome is   *)
(* that of a completed integration or of one about to be, or was there     *)
(* before anything was built.                                              *)
Accounted(f) ==
  \/ cand[f].ver = 0
  \/ \E t \in Txn : fact[t].feature = f /\ fact[t].class = "INTEGRATED"
  \/ \E p \in Process : pc[p] \in Pending /\ fact[cur[p]].feature = f

Honest ==
  crashes = 0 /\ drift = 0 =>
     \A i \in DOMAIN milestone :
        milestone[i].kind = "passed" /\ milestone[i].feature \in Feature \ Ranged =>
           Accounted(milestone[i].feature)

IInv ==
  /\ Typed
  /\ \A t \in Txn : EntryOK(t)
  /\ \A t \in plans : PlanOK(t)
  /\ \A i \in DOMAIN milestone : PickOK(i)
  /\ IntegratedOnce
  /\ FinalOnce
  /\ Clean
  /\ \A p \in Process : HandOK(p) /\ CommandOK(p)
  /\ Honest

-----------------------------------------------------------------------------
(* The queue of the milestone tip.                                         *)

\* A nonempty set of positions has a last one: the sets of the elements
\* above an element have a least one, which is empty.
LEMMA LastMark ==
  ASSUME NEW n \in Nat, NEW X \in SUBSET (1..n), X # {}
  PROVE  \E t \in X : \A u \in X : u <= t
<1> DEFINE Above(x) == {y \in X : x < y}
           Sets == {Above(x) : x \in X}
<1>1. IsFiniteSet(X)
  <2>1. IsFiniteSet(1..n)
    BY FS_Interval
  <2> QED BY <2>1, FS_Subset
<1>2. IsWellFoundedOn(StrictSubsetOrdering(X), SUBSET X)
  BY <1>1, FS_FiniteSubsetsOfFinite, FS_StrictSubsetOrderingWellFounded
<1>3. Sets \subseteq SUBSET X /\ Sets # {}
  OBVIOUS
<1> HIDE DEF Sets
<1>4. PICK m \in Sets : \A y \in Sets : ~(<<y, m>> \in StrictSubsetOrdering(X))
  BY <1>2, <1>3, WFMin
<1>5. PICK t \in X : m = Above(t)
  BY DEF Sets
<1>6. \A x \in X : x \in Nat
  OBVIOUS
<1>7. ASSUME NEW u \in X, t < u
      PROVE  FALSE
  <2>1. Above(u) \in Sets
    BY DEF Sets
  <2>2. u \in m
    BY <1>5, <1>7
  <2>3. u \notin Above(u)
    BY <1>6
  <2>4. \A y \in X : u < y => t < y
    BY <1>6, <1>7
  <2>5. Above(u) \subseteq m
    BY <1>5, <2>4, Zenon
  <2>6. Above(u) \in SUBSET X /\ m \in SUBSET X
    BY <1>5
  <2>7. <<Above(u), m>> \in StrictSubsetOrdering(X)
    BY <2>2, <2>3, <2>5, <2>6 DEF StrictSubsetOrdering
  <2> QED BY <1>4, <2>1, <2>7
<1> QED BY <1>6, <1>7

\* The status of a feature is that of its last mark.
LEMMA StatusIsLastMark ==
  ASSUME Typed, NEW f
  PROVE  \/ /\ QueueStatus(f) = "pending"
            /\ \A i \in DOMAIN milestone :
                  milestone[i].feature = f => milestone[i].kind \notin MarkKinds
         \/ \E i \in DOMAIN milestone :
               /\ milestone[i].feature = f /\ milestone[i].kind \in MarkKinds
               /\ QueueStatus(f) = milestone[i].kind
               /\ \A j \in DOMAIN milestone :
                     milestone[j].feature = f /\ milestone[j].kind \in MarkKinds => j <= i
<1> DEFINE marks == {i \in DOMAIN milestone :
                       milestone[i].feature = f
                       /\ milestone[i].kind \in {"marking", "passed", "failed"}}
           last == CHOOSE i \in marks : \A j \in marks : j <= i
<1>1. QueueStatus(f) = IF marks = {} THEN "pending" ELSE milestone[last].kind
  BY DEF QueueStatus
<1>2. MarkKinds = {"marking", "passed", "failed"}
  BY DEF MarkKinds, FinalKinds
<1>3. CASE marks = {}
  BY <1>1, <1>2, <1>3
<1>4. CASE marks # {}
  <2>1. DOMAIN milestone = 1..Len(milestone) /\ Len(milestone) \in Nat
    BY DEF Typed
  <2>2. marks \in SUBSET (1..Len(milestone))
    BY <2>1
  <2>3. \E i \in marks : \A j \in marks : j <= i
    <3> HIDE DEF marks
    <3> QED BY <1>4, <2>1, <2>2, LastMark
  <2>4. last \in marks /\ \A j \in marks : j <= last
    <3> HIDE DEF marks
    <3> QED BY <2>3
  <2>5. QueueStatus(f) = milestone[last].kind
    BY <1>1, <1>4
  <2> HIDE DEF last
  <2> QED BY <1>2, <2>4, <2>5
<1> QED BY <1>3, <1>4

\* What the queue calls integrated has its outcome on the milestone.
LEMMA PassedIsRecorded ==
  ASSUME Typed, \A i \in DOMAIN milestone : PickOK(i), NEW f, QueueStatus(f) = "passed"
  PROVE  \E j \in DOMAIN milestone : milestone[j] = Commit("passed", f)
<1>1. PICK j \in DOMAIN milestone : milestone[j].feature = f /\ milestone[j].kind = "passed"
  BY StatusIsLastMark
<1>2. milestone[j] \in CommitRecord /\ milestone[j].ver = 0
  BY <1>1 DEF Typed, PickOK
<1>3. milestone[j] = Commit("passed", f)
  BY <1>1, <1>2 DEF CommitRecord, Commit
<1> QED BY <1>3

\* A feature that may be marked has no outcome yet.
LEMMA MarkableIsUnended ==
  ASSUME Typed, FinalOnce, NEW f, QueueStatus(f) \in {"pending", "marking"}
  PROVE  Unended(f)
<1> SUFFICES ASSUME NEW i \in DOMAIN milestone, Final(i, f)
             PROVE  FALSE
  BY DEF Unended
<1>1. milestone[i].feature = f /\ milestone[i].kind \in FinalKinds
  BY DEF Final
<1>2. PICK j \in DOMAIN milestone :
        /\ milestone[j].feature = f /\ milestone[j].kind = "marking" /\ i <= j
  BY <1>1, StatusIsLastMark DEF MarkKinds, FinalKinds
<1>3. j <= i
  BY <1>1, <1>2 DEF FinalOnce, MarkKinds
<1>4. i \in Nat /\ j \in Nat
  BY DEF Typed
<1>5. i = j
  BY <1>2, <1>3, <1>4
<1> QED BY <1>1, <1>2, <1>5 DEF FinalKinds

\* A feature whose queue entry is pending has no outcome either.
LEMMA PendingIsUnended ==
  ASSUME Typed, NEW f, QueueStatus(f) = "pending"
  PROVE  Unended(f)
BY StatusIsLastMark DEF Unended, Final, MarkKinds, FinalKinds

-----------------------------------------------------------------------------
(* Steps that only add to the milestone and the ledger.                    *)

\* The commits the commands make.
LEMMA CommitsAreRecords ==
  ASSUME NEW k \in CommitKinds, NEW f \in Feature \cup {NoFeature}, NEW v \in Nat
  PROVE  Commit(k, f) \in CommitRecord /\ Pick(f, v) \in CommitRecord
BY DEF CommitRecord, Commit, Pick, CommitKinds

\* The milestone only grows, versions and the counters do too, a terminal
\* event stays, and what an entry is about is said once.
Advanced ==
  /\ Len(milestone) <= Len(milestone')
  /\ \A i \in DOMAIN milestone : milestone'[i] = milestone[i]
  /\ \A f \in Feature : cand[f].ver <= cand'[f].ver
  /\ drift <= drift' /\ crashes <= crashes'
  /\ \A t \in Txn : Terminated(hist[t]) => Terminated(hist'[t])
  /\ \A t \in Txn : fact[t].kind # "none" =>
        /\ fact'[t].kind = fact[t].kind /\ fact'[t].feature = fact[t].feature
        /\ fact'[t].ver = fact[t].ver /\ fact'[t].start = fact[t].start
        /\ fact'[t].of = fact[t].of
  /\ \A t \in Txn : fact[t].class # "open" => fact'[t] = fact[t]

\* Entries that say something are left alone, and none becomes an acceptance.
Settled ==
  /\ \A t \in Txn : fact[t].kind # "none" => fact'[t] = fact[t]
  /\ \A a \in Txn : Accepted(a)' => Accepted(a)

\* New commits are of others.
Foreign ==
  \A i \in DOMAIN milestone' \ DOMAIN milestone :
     milestone'[i].kind = "outside" /\ milestone'[i].ver = 0

Only(p) ==
  \A q \in Process \ {p} : pc'[q] = pc[q] /\ cur'[q] = cur[q] /\ todo'[q] = todo[q]

\* Positions of the milestone.
LEMMA Positions ==
  ASSUME Typed
  PROVE  /\ Tip \in Nat /\ DOMAIN milestone = 1..Tip
         /\ \A i \in DOMAIN milestone : milestone[i] \in CommitRecord /\ i \in Nat
BY DEF Typed, Tip

\* An append.
LEMMA Appended ==
  ASSUME Typed, NEW c \in CommitRecord, milestone' = Append(milestone, c)
  PROVE  /\ milestone' \in Seq(CommitRecord)
         /\ Tip' = Tip + 1 /\ milestone'[Tip + 1] = c
         /\ DOMAIN milestone' = 1..(Tip + 1)
         /\ \A i \in DOMAIN milestone : milestone'[i] = milestone[i]
         /\ DOMAIN milestone' = DOMAIN milestone \cup {Tip + 1}
BY DEF Typed, Tip

\* An entry about something is about something the model knows.
LEMMA EntryIsFact ==
  ASSUME Typed, NEW t \in Txn
  PROVE  /\ fact[t] \in Fact /\ fact[t].of \in Txn \cup {NoTxn}
         /\ fact[t].start \in Nat /\ fact[t].evidence \in Nat /\ fact[t].ver \in Nat
BY DEF Typed, Fact

\* The commit an implementation is picked onto is that of the plan.
LEMMA PickBaseIsNat ==
  ASSUME Typed, NEW t \in Txn
  PROVE  PickBase(t) \in Nat
BY EntryIsFact DEF PickBase, PlanOf

\* ... and stays it.
LEMMA PickBaseStands ==
  ASSUME Typed, Advanced, NEW t \in Txn, EntryOK(t), fact[t].kind # "none"
  PROVE  PickBase(t)' = PickBase(t)
<1>1. fact'[t].of = fact[t].of /\ fact'[t].start = fact[t].start
  BY DEF Advanced
<1>2. CASE fact[t].of = NoTxn
  BY <1>1, <1>2 DEF PickBase, PlanOf
<1>3. CASE fact[t].of # NoTxn
  <2>1. fact[t].of \in Txn /\ fact[fact[t].of].kind # "none"
    BY <1>3, EntryIsFact DEF EntryOK
  <2>2. fact'[fact[t].of].start = fact[fact[t].of].start
    BY <2>1 DEF Advanced
  <2> QED BY <1>1, <1>3, <2>2 DEF PickBase, PlanOf
<1> QED BY <1>2, <1>3

\* The acceptance it is made on does too.
LEMMA BasedStands ==
  ASSUME Typed, Advanced, NEW t \in Txn, EntryOK(t), fact[t].kind # "none", Based(t)
  PROVE  Based(t)'
<1>1. PICK a \in Txn : /\ Accepted(a) /\ fact[a].feature = fact[t].feature
                       /\ fact[a].ver = fact[t].ver /\ fact[a].start = PickBase(t)
  BY DEF Based
<1>2. fact'[a] = fact[a]
  BY <1>1 DEF Accepted, Advanced
<1>3. PickBase(t)' = PickBase(t) /\ fact'[t].feature = fact[t].feature /\ fact'[t].ver = fact[t].ver
  BY PickBaseStands DEF Advanced
<1> QED BY <1>1, <1>2, <1>3 DEF Based, Accepted

\* A plan stays one.
LEMMA PlanStands ==
  ASSUME Typed, Advanced, NEW t \in Txn, EntryOK(t), PlanOK(t)
  PROVE  PlanOK(t)'
<1>1. fact[t].kind = "integration" /\ fact[t].of = NoTxn /\ Based(t)
  BY DEF PlanOK
<1>2. fact'[t].kind = "integration" /\ fact'[t].of = NoTxn
  BY <1>1 DEF Advanced
<1>3. Based(t)'
  BY <1>1, BasedStands
<1> QED BY <1>2, <1>3 DEF PlanOK

\* An entry that a step leaves alone.
LEMMA EntryStands ==
  ASSUME Typed, Typed', Advanced, NEW t \in Txn, EntryOK(t), fact'[t] = fact[t]
  PROVE  EntryOK(t)'
<1>1. Tip \in Nat /\ Tip' \in Nat /\ Tip <= Tip' /\ DOMAIN milestone = 1..Tip
  BY Positions DEF Advanced, Typed, Tip
<1>2. fact[t].class # "open" => Terminated(hist[t])'
  BY DEF EntryOK, Advanced
<1>3. fact[t].kind # "none" =>
        /\ fact[t].feature \in Feature
        /\ fact[t].ver \in 1..cand'[fact[t].feature].ver
        /\ fact[t].start <= Tip'
  <2> SUFFICES ASSUME fact[t].kind # "none"
               PROVE  /\ fact[t].feature \in Feature
                      /\ fact[t].ver \in 1..cand'[fact[t].feature].ver
                      /\ fact[t].start <= Tip'
    OBVIOUS
  <2>1. fact[t].feature \in Feature /\ fact[t].ver \in 1..cand[fact[t].feature].ver
        /\ fact[t].start <= Tip
    BY DEF EntryOK
  <2>2. PICK f \in Feature : f = fact[t].feature
    BY <2>1
  <2>3. cand[f].ver \in Nat /\ cand'[f].ver \in Nat /\ cand[f].ver <= cand'[f].ver
    BY DEF Typed, Advanced
  <2>4. fact[t].start \in Nat
    BY EntryIsFact
  <2> QED BY <1>1, <2>1, <2>2, <2>3, <2>4
<1>4. fact[t].of # NoTxn =>
        /\ fact'[fact[t].of].kind = "integration"
        /\ fact'[fact[t].of].feature = fact[t].feature
        /\ fact'[fact[t].of].ver = fact[t].ver
  <2>1. fact[t].of # NoTxn => fact[t].of \in Txn /\ fact[fact[t].of].kind = "integration"
    BY EntryIsFact DEF EntryOK
  <2> QED BY <2>1 DEF EntryOK, Advanced
<1>5. fact[t].evidence # 0 =>
        /\ fact[t].kind = "integration"
        /\ fact[t].start < fact[t].evidence /\ fact[t].evidence <= Tip'
        /\ milestone'[fact[t].evidence] = milestone[fact[t].evidence]
  BY <1>1, EntryIsFact DEF EntryOK, Advanced
<1>6. fact[t].class = "INTEGRATED" =>
        /\ fact[t].kind = "integration" /\ Based(t)'
        /\ PickBase(t)' < Tip'
        /\ milestone'[PickBase(t)' + 1] = Pick(fact[t].feature, fact[t].ver)
        /\ fact[t].evidence # 0
        /\ milestone'[fact[t].evidence] = Commit("passed", fact[t].feature)
  <2> SUFFICES ASSUME fact[t].class = "INTEGRATED"
               PROVE  /\ fact[t].kind = "integration" /\ Based(t)'
                      /\ PickBase(t)' < Tip'
                      /\ milestone'[PickBase(t)' + 1] = Pick(fact[t].feature, fact[t].ver)
                      /\ fact[t].evidence # 0
                      /\ milestone'[fact[t].evidence] = Commit("passed", fact[t].feature)
    OBVIOUS
  <2>1. /\ fact[t].kind = "integration" /\ Based(t)
        /\ PickBase(t) < Tip
        /\ milestone[PickBase(t) + 1] = Pick(fact[t].feature, fact[t].ver)
        /\ fact[t].evidence # 0
        /\ milestone[fact[t].evidence] = Commit("passed", fact[t].feature)
    BY DEF EntryOK
  <2>2. PickBase(t)' = PickBase(t) /\ PickBase(t) \in Nat
    BY <2>1, PickBaseStands, PickBaseIsNat
  <2>3. PickBase(t) + 1 \in DOMAIN milestone
    BY <1>1, <2>1, <2>2
  <2>4. milestone'[PickBase(t) + 1] = milestone[PickBase(t) + 1]
    BY <2>3 DEF Advanced
  <2>5. Based(t)'
    BY <2>1, BasedStands
  <2> QED BY <1>1, <1>5, <2>1, <2>2, <2>4, <2>5
<1>7. drift' = 0 => drift = 0
  BY DEF Typed, Advanced
<1> QED BY <1>2, <1>3, <1>4, <1>5, <1>6, <1>7 DEF EntryOK

\* A commit that was there.
LEMMA PickStands ==
  ASSUME Typed, Typed', Advanced, NEW i \in DOMAIN milestone, PickOK(i)
  PROVE  PickOK(i)'
<1>1. milestone'[i] = milestone[i] /\ DOMAIN milestone = 1..Tip /\ Tip \in Nat /\ i \in 1..Tip
  BY Positions DEF Advanced
<1>2. CASE milestone[i].kind # "pick"
  BY <1>1, <1>2 DEF PickOK
<1>3. CASE milestone[i].kind = "pick"
  <2>1. PICK a \in Txn : /\ Accepted(a)
                         /\ fact[a].feature = milestone[i].feature
                         /\ fact[a].ver = milestone[i].ver
                         /\ fact[a].start < i
    BY <1>3 DEF PickOK
  <2>2. fact'[a] = fact[a]
    BY <2>1 DEF Accepted, Advanced
  <2>3. \A d \in Dependencies[milestone[i].feature] :
           \E j \in 1..(i - 1) : milestone'[j] = Commit("passed", d)
    <3> SUFFICES ASSUME NEW d \in Dependencies[milestone[i].feature]
                 PROVE  \E j \in 1..(i - 1) : milestone'[j] = Commit("passed", d)
      OBVIOUS
    <3>1. PICK j \in 1..(i - 1) : milestone[j] = Commit("passed", d)
      BY <1>3 DEF PickOK
    <3>2. j \in DOMAIN milestone
      BY <1>1
    <3> QED BY <3>1, <3>2 DEF Advanced
  <2>4. milestone[i].feature \in Feature
    BY <1>3 DEF PickOK
  <2> QED BY <1>1, <1>3, <2>1, <2>2, <2>3, <2>4 DEF PickOK, Accepted
<1> QED BY <1>2, <1>3

\* What is said of the entries and the commits, in a step that changes no
\* entry and makes no commit of its own.
LEMMA Still ==
  ASSUME IInv, Typed', Advanced, Foreign, fact' = fact
  PROVE  /\ \A t \in Txn : EntryOK(t)'
         /\ \A i \in DOMAIN milestone' : PickOK(i)'
         /\ IntegratedOnce'
         /\ FinalOnce'
<1>1. Typed
  BY DEF IInv
<1>2. \A t \in Txn : EntryOK(t)'
  <2> SUFFICES ASSUME NEW t \in Txn
               PROVE  EntryOK(t)'
    OBVIOUS
  <2>1. EntryOK(t)
    BY DEF IInv
  <2> QED BY <1>1, <2>1, EntryStands
<1>3. IntegratedOnce'
  <2>1. \A i \in DOMAIN milestone' :
           milestone'[i].kind = "pick" => i \in DOMAIN milestone /\ milestone'[i] = milestone[i]
    BY DEF Foreign, Advanced
  <2>2. IntegratedOnce
    BY DEF IInv
  <2> QED BY <2>1, <2>2 DEF IntegratedOnce
<1>4. \A i \in DOMAIN milestone' : PickOK(i)'
  <2> SUFFICES ASSUME NEW i \in DOMAIN milestone'
               PROVE  PickOK(i)'
    OBVIOUS
  <2>1. CASE i \in DOMAIN milestone
    <3>1. PickOK(i)
      BY <2>1 DEF IInv
    <3> QED BY <1>1, <2>1, <3>1, PickStands
  <2>2. CASE i \notin DOMAIN milestone
    BY <2>2 DEF Foreign, PickOK
  <2> QED BY <2>1, <2>2
<1>5. FinalOnce'
  <2>1. \A i \in DOMAIN milestone' :
           milestone'[i].kind \in MarkKinds => i \in DOMAIN milestone /\ milestone'[i] = milestone[i]
    BY DEF Foreign, Advanced, MarkKinds, FinalKinds
  <2>2. FinalKinds \subseteq MarkKinds
    BY DEF MarkKinds
  <2>3. FinalOnce
    BY DEF IInv
  <2> QED BY <2>1, <2>2, <2>3 DEF FinalOnce
<1> QED BY <1>2, <1>3, <1>4, <1>5

\* While one command is at work the others are not.
LEMMA OthersRest ==
  ASSUME IInv, NEW p \in Process, pc[p] \in Working, NEW q \in Process \ {p}
  PROVE  pc[q] \notin Working
BY DEF IInv, HandOK, Owns

\* Without a lease, or with one of the dead, nobody is at work.
LEMMA NobodyWorks ==
  ASSUME IInv, lease = NoTxn \/ holder = NoProcess, NEW q \in Process
  PROVE  pc[q] \notin Working
<1>1. NoTxn \notin Txn /\ NoProcess \notin Process
  BY PhaseConstants
<1>2. "idle" \notin Working
  BY DEF Working, Accepting, Integrating, Unrecorded
<1> QED BY <1>1, <1>2 DEF IInv, HandOK, Owns

\* Who is not at work owes nothing.
LEMMA RestingOwesNothing ==
  ASSUME NEW q \in Process, pc[q] \notin Integrating
  PROVE  CommandOK(q)
<1>1. /\ pc[q] \notin Unrecorded /\ pc[q] \notin Pending
      /\ pc[q] \notin {"snapped", "planned", "picking", "staged", "picked"}
      /\ pc[q] \notin {"marked", "validated", "recorded", "finalized"}
      /\ pc[q] \notin {"recorded", "finalized", "failed"}
      /\ pc[q] \notin {"marked", "validated"}
      /\ pc[q] \notin {"resumed", "picking", "staged", "finalized", "failed"} /\ pc[q] \notin Planned
  BY DEF Integrating, Unrecorded, Pending, Planned
<1> QED BY <1>1 DEF CommandOK

\* ... before a step and after it.
LEMMA RestingOwesNothingNext ==
  ASSUME NEW q \in Process, pc'[q] \notin Integrating
  PROVE  CommandOK(q)'
<1>1. /\ pc'[q] \notin Unrecorded /\ pc'[q] \notin Pending
      /\ pc'[q] \notin {"snapped", "planned", "picking", "staged", "picked"}
      /\ pc'[q] \notin {"marked", "validated", "recorded", "finalized"}
      /\ pc'[q] \notin {"recorded", "finalized", "failed"}
      /\ pc'[q] \notin {"marked", "validated"}
      /\ pc'[q] \notin {"resumed", "picking", "staged", "finalized", "failed"} /\ pc'[q] \notin Planned
  BY DEF Integrating, Unrecorded, Pending, Planned
<1> QED BY <1>1 DEF CommandOK

\* A process that is left alone and not at work.
LEMMA Resting ==
  ASSUME IInv, NEW q \in Process, pc[q] \notin Working,
         pc'[q] = pc[q], cur'[q] = cur[q], todo'[q] = todo[q]
  PROVE  HandOK(q)' /\ CommandOK(q)'
<1>1. pc[q] \notin Integrating
  BY DEF Working
<1>2. HandOK(q)
  BY DEF IInv
<1>3. HandOK(q)'
  BY <1>2 DEF HandOK
<1> QED BY <1>1, <1>3, RestingOwesNothingNext

\* The feature of an integration that others watch.
LEMMA UnendedStands ==
  ASSUME Advanced, Foreign, NEW f, Unended(f)
  PROVE  Unended(f)'
<1> SUFFICES ASSUME NEW i \in DOMAIN milestone'
             PROVE  ~(milestone'[i].feature = f /\ milestone'[i].kind \in FinalKinds)
  BY DEF Unended, Final
<1>1. CASE i \in DOMAIN milestone
  BY <1>1 DEF Advanced, Unended, Final
<1>2. CASE i \notin DOMAIN milestone
  BY <1>2 DEF Foreign, FinalKinds
<1> QED BY <1>1, <1>2

\* A version that is not there yet.
LEMMA UnpickedStands ==
  ASSUME Advanced, Foreign, NEW f, NEW v, Unpicked(f, v)
  PROVE  Unpicked(f, v)'
<1> SUFFICES ASSUME NEW i \in DOMAIN milestone'
             PROVE  milestone'[i] # Pick(f, v)
  BY DEF Unpicked
<1>1. CASE i \in DOMAIN milestone
  BY <1>1 DEF Advanced, Unpicked
<1>2. CASE i \notin DOMAIN milestone
  BY <1>2 DEF Foreign, Pick
<1> QED BY <1>1, <1>2

\* A process at work, while others change what they may.
LEMMA Watching ==
  ASSUME IInv, Typed', Advanced, Foreign, Settled, NEW q \in Process, cur[q] \in Txn,
         pc'[q] = pc[q], cur'[q] = cur[q], todo'[q] = todo[q], blockers'[q] = blockers[q],
         drift' = 0 => milestone' = milestone
  PROVE  CommandOK(q)'
<1> SUFFICES ASSUME pc[q] \in Integrating
             PROVE  CommandOK(q)'
  BY RestingOwesNothingNext
<1>1. Typed /\ CommandOK(q) /\ EntryOK(cur[q])
  BY DEF IInv
<1>2. PICK t \in Txn : t = cur[q]
  OBVIOUS
<1>3. PICK f : f = fact[t].feature
  OBVIOUS
<1>4. PICK v : v = fact[t].ver
  OBVIOUS
<1>5. PICK b \in Nat : b = PickBase(t)
  BY <1>1, PickBaseIsNat
<1>6. fact'[t] = fact[t] /\ PickBase(t)' = b /\ fact[t].kind = "integration"
  <2>1. fact[t].kind = "integration"
    BY <1>1, <1>2 DEF CommandOK
  <2> QED BY <1>1, <1>2, <1>5, <2>1, PickBaseStands DEF Settled
<1>7. Tip \in Nat /\ Tip' \in Nat /\ Tip <= Tip' /\ DOMAIN milestone = 1..Tip
  BY <1>1, Positions DEF Advanced, Typed, Tip
<1>8. drift' = 0 => drift = 0 /\ Tip' = Tip
  BY <1>1 DEF Typed, Advanced, Tip
<1>9. Outcome(q)' = Outcome(q)
  BY DEF Outcome
<1>10. pc[q] \in {"picking", "staged"} =>
         /\ Unpicked(f, v)'
         /\ \A d \in Dependencies[f] : \E j \in 1..b : milestone'[j] = Commit("passed", d)
  <2> SUFFICES ASSUME pc[q] \in {"picking", "staged"}
               PROVE  /\ Unpicked(f, v)'
                      /\ \A d \in Dependencies[f] :
                            \E j \in 1..b : milestone'[j] = Commit("passed", d)
    OBVIOUS
  <2>1. Unpicked(f, v)
    BY <1>1, <1>2, <1>3, <1>4 DEF CommandOK
  <2>2. \A d \in Dependencies[f] : \E j \in 1..b : milestone[j] = Commit("passed", d)
    BY <1>1, <1>2, <1>3, <1>5 DEF CommandOK
  <2>3. b <= Tip
    <3>1. fact[t].of = NoTxn
      BY <1>1, <1>2 DEF CommandOK
    <3> QED BY <1>1, <1>2, <1>5, <1>6, <3>1 DEF EntryOK, PickBase, PlanOf
  <2>4. \A j \in 1..b : milestone'[j] = milestone[j]
    BY <1>7, <2>3 DEF Advanced
  <2> QED BY <2>1, <2>2, <2>4, UnpickedStands
<1>11. pc[q] \in {"marked", "validated", "recorded", "finalized"} =>
         b < Tip' /\ milestone'[b + 1] = Pick(f, v)
  BY <1>1, <1>2, <1>3, <1>4, <1>5, <1>7 DEF CommandOK, Advanced
<1>12. pc[q] \in {"marked", "validated"} => Unended(f)'
  BY <1>1, <1>2, <1>3, UnendedStands DEF CommandOK
<1>13. pc[q] \in {"recorded", "finalized", "failed"} =>
         /\ fact[t].evidence # 0
         /\ milestone'[fact[t].evidence] = Commit(Outcome(q)', f)
  BY <1>1, <1>2, <1>3, <1>7, <1>9, EntryIsFact DEF CommandOK, EntryOK, Advanced
<1>14. /\ pc[q] \in {"marked", "validated"} /\ drift' = 0 => Tip' = b + 2
       /\ pc[q] \in Pending /\ drift' = 0 => Tip' = fact[t].evidence /\ fact[t].evidence = b + 3
  BY <1>1, <1>2, <1>5, <1>8 DEF CommandOK
<1>15. /\ fact[t].class = "open"
       /\ \A a \in Txn : Accepted(a)' /\ fact'[a].feature = f => fact'[a].ver <= v
  <2>1. \A a \in Txn : Accepted(a)' => Accepted(a) /\ fact'[a] = fact[a]
    BY DEF Settled, Accepted
  <2> QED BY <1>1, <1>2, <1>3, <1>4, <2>1 DEF CommandOK
<1>16. /\ pc[q] \in Unrecorded => fact[t].evidence = 0
       /\ pc[q] \in {"snapped", "planned", "picking", "staged", "picked"} => fact[t].of = NoTxn
       /\ pc[q] = "resumed" => fact[t].of # NoTxn
       /\ pc[q] = "finalized" => ~blockers[q]
       /\ pc[q] = "failed" => blockers[q]
  BY <1>1, <1>2 DEF CommandOK
<1>17. pc[q] \in Planned => Based(t)'
  <2>1. pc[q] \in Planned => Based(t)
    BY <1>1, <1>2 DEF CommandOK
  <2> QED BY <1>1, <1>2, <1>6, <2>1, BasedStands
<1> QED BY <1>2, <1>3, <1>4, <1>6, <1>10, <1>11, <1>12, <1>13, <1>14, <1>15, <1>16, <1>17
    DEF CommandOK

\* Passing outcomes stay accounted for.
LEMMA HonestStands ==
  ASSUME IInv, Typed', Advanced,
         \A i \in DOMAIN milestone' : milestone'[i].kind = "passed" => i \in DOMAIN milestone,
         \A f \in Feature : cand[f].ver = 0 => cand'[f].ver = 0 \/ Unended(f),
         \A q \in Process : /\ pc[q] \in Pending /\ crashes' = 0 /\ drift' = 0
                            /\ fact[cur[q]].feature \notin Ranged
                            /\ (\E i \in DOMAIN milestone :
                                   milestone[i].kind = "passed"
                                   /\ milestone[i].feature = fact[cur[q]].feature)
                            => \/ pc'[q] \in Pending /\ cur'[q] = cur[q]
                               \/ /\ fact'[cur[q]].class = "INTEGRATED"
                                  /\ fact'[cur[q]].feature = fact[cur[q]].feature
  PROVE  Honest'
<1> SUFFICES ASSUME crashes' = 0, drift' = 0, NEW i \in DOMAIN milestone',
                    milestone'[i].kind = "passed", NEW f \in Feature \ Ranged,
                    milestone'[i].feature = f
             PROVE  Accounted(f)'
  BY DEF Honest, Accounted
<1>1. Typed
  BY DEF IInv
<1>2. crashes = 0 /\ drift = 0
  BY <1>1 DEF Typed, Advanced
<1>3. i \in DOMAIN milestone /\ milestone'[i] = milestone[i]
  BY DEF Advanced
<1>4. f = milestone[i].feature
  BY <1>3
<1>5. Accounted(f)
  BY <1>2, <1>3, <1>4 DEF IInv, Honest, Accounted
<1>6. Accounted(f)'
  <2>1. CASE cand[f].ver = 0
    <3>1. ~Unended(f)
      BY <1>3, <1>4 DEF Unended, Final, FinalKinds
    <3> QED BY <2>1, <3>1 DEF Accounted
  <2>2. CASE \E t \in Txn : fact[t].feature = f /\ fact[t].class = "INTEGRATED"
    <3>1. PICK t \in Txn : fact[t].feature = f /\ fact[t].class = "INTEGRATED"
      BY <2>2
    <3>2. fact'[t] = fact[t]
      BY <3>1 DEF Advanced
    <3> QED BY <3>1, <3>2 DEF Accounted
  <2>3. CASE \E p \in Process : pc[p] \in Pending /\ fact[cur[p]].feature = f
    <3>1. PICK p \in Process : pc[p] \in Pending /\ fact[cur[p]].feature = f
      BY <2>3
    <3>2. HandOK(p) /\ CommandOK(p)
      BY DEF IInv
    <3>3. cur[p] \in Txn /\ fact[cur[p]].kind = "integration"
      BY <3>1, <3>2 DEF HandOK, CommandOK, Pending, Integrating
    <3>4. fact'[cur[p]].feature = f
      BY <3>1, <3>3 DEF Advanced
    <3>5. \/ pc'[p] \in Pending /\ cur'[p] = cur[p]
          \/ fact'[cur[p]].class = "INTEGRATED"
      BY <1>3, <1>4, <3>1
    <3> QED BY <3>3, <3>4, <3>5 DEF Accounted
  <2> QED BY <1>5, <2>1, <2>2, <2>3 DEF Accounted
<1> QED BY <1>6

-----------------------------------------------------------------------------
(* Steps that change no entry and make no commit of their own.             *)

\* A process that is left alone.
LEMMA LeftAlone ==
  ASSUME IInv, Typed', Advanced, Foreign, Settled, NEW q \in Process,
         pc'[q] = pc[q], cur'[q] = cur[q], todo'[q] = todo[q], blockers'[q] = blockers[q],
         pc[q] \in Working /\ Owns(q) => lease' = lease /\ holder' = holder,
         drift' = 0 => milestone' = milestone
  PROVE  HandOK(q)' /\ CommandOK(q)'
<1>1. CASE pc[q] \notin Working
  BY <1>1, Resting
<1>2. CASE pc[q] \in Working
  <2>1. HandOK(q)
    BY DEF IInv
  <2>2. cur[q] \in Txn /\ Owns(q)
    BY <1>2, <2>1 DEF HandOK, Working, Accepting, Integrating, Unrecorded
  <2>3. HandOK(q)'
    BY <1>2, <2>1, <2>2 DEF HandOK, Owns
  <2>4. CommandOK(q)'
    BY <2>2, Watching
  <2> QED BY <2>3, <2>4
<1> QED BY <1>1, <1>2

\* A quiet step is one that changes no more than the histories.
LEMMA QuietAdvances ==
  ASSUME Typed, Typed', UNCHANGED <<milestone, cand, fact>>, drift <= drift', crashes <= crashes',
         \A t \in Txn : Terminated(hist[t]) => Terminated(hist'[t])
  PROVE  Advanced /\ Foreign /\ Settled
<1>1. \A f \in Feature : cand[f].ver \in Nat
  BY DEF Typed
<1>2. Len(milestone) \in Nat
  BY Positions DEF Tip
<1> QED BY <1>1, <1>2 DEF Advanced, Foreign, Settled, Accepted

\* A quiet step of p.
LEMMA QuietStep ==
  ASSUME IInv, Typed', NEW p \in Process, Only(p), UNCHANGED <<milestone, cand, fact>>,
         drift <= drift', crashes <= crashes',
         \A t \in Txn : Terminated(hist[t]) => Terminated(hist'[t]),
         \A q \in Process \ {p} : pc[q] \in Working /\ Owns(q) => lease' = lease /\ holder' = holder,
         \A q \in Process \ {p} : blockers'[q] = blockers[q],
         \A t \in plans' : PlanOK(t),
         Clean', Honest', HandOK(p)', CommandOK(p)'
  PROVE  IInv'
<1>1. Advanced /\ Foreign /\ Settled
  BY QuietAdvances DEF IInv
<1>2. ASSUME NEW q \in Process
      PROVE  HandOK(q)' /\ CommandOK(q)'
  <2>1. CASE q = p
    BY <2>1
  <2>2. CASE q # p
    BY <1>1, <2>2, LeftAlone DEF Only
  <2> QED BY <2>1, <2>2
<1>3. \A t \in plans' : PlanOK(t)'
  <2> SUFFICES ASSUME NEW t \in plans'
               PROVE  PlanOK(t)'
    OBVIOUS
  <2>1. t \in Txn /\ PlanOK(t) /\ EntryOK(t)
    BY DEF Typed, IInv
  <2> QED BY <1>1, <2>1, PlanStands DEF IInv
<1> QED BY <1>1, <1>2, <1>3, Still DEF IInv

\* Passing outcomes in a quiet step of p.
LEMMA QuietHonest ==
  ASSUME IInv, Typed', NEW p \in Process, Only(p), UNCHANGED <<milestone, cand, fact>>,
         drift <= drift', crashes <= crashes',
         \A t \in Txn : Terminated(hist[t]) => Terminated(hist'[t]),
         /\ pc[p] \in Pending /\ crashes' = 0 /\ drift' = 0
         /\ fact[cur[p]].feature \notin Ranged
         /\ (\E i \in DOMAIN milestone :
                milestone[i].kind = "passed" /\ milestone[i].feature = fact[cur[p]].feature)
         => pc'[p] \in Pending /\ cur'[p] = cur[p]
  PROVE  Honest'
<1>1. Advanced
  BY QuietAdvances DEF IInv
<1>2. \A q \in Process : /\ pc[q] \in Pending /\ crashes' = 0 /\ drift' = 0
                         /\ fact[cur[q]].feature \notin Ranged
                         /\ (\E i \in DOMAIN milestone :
                                milestone[i].kind = "passed"
                                /\ milestone[i].feature = fact[cur[q]].feature)
                         => pc'[q] \in Pending /\ cur'[q] = cur[q]
  BY DEF Only
<1> QED BY <1>1, <1>2, HonestStands

\* The step a handler goes to.
LEMMA Going ==
  ASSUME Typed, NEW p \in Process, NEW s \in Steps, NEW events \in Seq(EventTypes),
         Goto(p, s, events), cur' = cur
  PROVE  /\ pc' \in [Process -> Steps] /\ todo' \in [Process -> Seq(EventTypes)]
         /\ pc'[p] = s /\ todo'[p] = events /\ cur'[p] = cur[p] /\ Only(p)
BY DEF Typed, Goto, Only, Steps

\* The worktree in a step of p that leaves it alone.
LEMMA CleanStands ==
  ASSUME Clean, NEW p \in Process, Only(p), tree' = tree, drift' = 0 => drift = 0,
         pc'[p] = "staged" => pc[p] = "staged",
         pc'[p] \in Clear => pc[p] \in Clear \/ tree = "clean"
  PROVE  Clean'
<1> SUFFICES ASSUME drift' = 0, NEW q \in Process
             PROVE  /\ pc'[q] = "staged" => tree' = "staged"
                    /\ pc'[q] \in Clear => tree' = "clean"
  BY DEF Clean
<1>1. /\ pc[q] = "staged" => tree = "staged"
      /\ pc[q] \in Clear => tree = "clean"
  BY DEF Clean
<1>2. CASE q = p
  BY <1>1, <1>2
<1>3. CASE q # p
  BY <1>1, <1>3 DEF Only
<1> QED BY <1>2, <1>3

\* ... and in a step that leaves every command where it is.
LEMMA CleanWaits ==
  ASSUME Clean, tree' = tree, pc' = pc, drift' = 0 => drift = 0
  PROVE  Clean'
BY DEF Clean

\* Nobody else holds the lease while p does.
LEMMA OthersDoNotOwn ==
  ASSUME NEW p \in Process, Owns(p)
  PROVE  \A q \in Process \ {p} : ~Owns(q)
BY DEF Owns

\* The end of a command.
LEMMA Leaving ==
  ASSUME IInv, NEW p \in Process, Leave(p)
  PROVE  /\ pc' \in [Process -> Steps] /\ todo' \in [Process -> Seq(EventTypes)]
         /\ cur' \in [Process -> Txn \cup {NoTxn}]
         /\ pc'[p] = "idle" /\ Only(p) /\ HandOK(p)' /\ CommandOK(p)'
<1>1. /\ pc' \in [Process -> Steps] /\ todo' \in [Process -> Seq(EventTypes)]
      /\ cur' \in [Process -> Txn \cup {NoTxn}]
      /\ pc'[p] = "idle" /\ todo'[p] = <<>> /\ Only(p)
  BY DEF IInv, Typed, Leave, Only, Steps
<1>2. "idle" \notin Integrating /\ "idle" \notin Working
  BY DEF Working, Accepting, Integrating, Unrecorded
<1>3. HandOK(p)'
  BY <1>1, <1>2 DEF HandOK
<1> QED BY <1>1, <1>2, <1>3, RestingOwesNothingNext

\* A command that ends, or dies, and leaves its lease.
LEMMA AbandonKeeps ==
  ASSUME IInv, NEW p \in Process, Abandon(p),
         UNCHANGED <<repository, book, integrationVars, drift>>,
         crashes' \in Nat, crashes <= crashes',
         pc[p] \in Pending => crashes' # 0 \/ drift # 0 \/ fact[cur[p]].feature \in Ranged
  PROVE  IInv'
<1>1. /\ pc' \in [Process -> Steps] /\ todo' \in [Process -> Seq(EventTypes)]
      /\ cur' \in [Process -> Txn \cup {NoTxn}]
      /\ pc'[p] = "idle" /\ Only(p) /\ HandOK(p)' /\ CommandOK(p)'
  BY Leaving DEF Abandon
<1>2. Typed'
  BY <1>1 DEF IInv, Typed, Steps, Abandon, repository, book, integrationVars
<1>3. \A q \in Process \ {p} : Owns(q) => lease' = lease /\ holder' = holder
  BY DEF Abandon, Owns
<1>4. /\ UNCHANGED <<milestone, cand, fact>> /\ drift <= drift'
      /\ \A t \in Txn : Terminated(hist[t]) => Terminated(hist'[t])
      /\ \A q \in Process \ {p} : blockers'[q] = blockers[q]
      /\ \A t \in plans' : PlanOK(t)
  BY DEF IInv, Typed, repository, book, integrationVars
<1>5. Honest'
  BY <1>1, <1>2, <1>4, QuietHonest
<1>6. Clean'
  BY <1>1, CleanStands DEF IInv, Clear, repository
<1> QED BY <1>1, <1>2, <1>3, <1>4, <1>5, <1>6, QuietStep

\* A process dies.
LEMMA DieKeeps ==
  ASSUME IInv, NEW p \in Process, Die(p), UNCHANGED integrationVars
  PROVE  IInv'
<1>1. crashes' \in Nat /\ crashes <= crashes' /\ crashes' # 0
  BY DEF IInv, Typed, Die
<1> QED BY <1>1, AbandonKeeps DEF Die

\* A terminal event stays.
LEMMA TerminalStays ==
  ASSUME NEW h \in Seq(EventTypes), NEW events \in Seq(EventTypes), Terminated(h)
  PROVE  Terminated(h \o events)
<1>1. PICK n \in TerminalEventTypes : Has(h, n)
  BY DEF Terminated
<1>2. PICK i \in DOMAIN h : h[i] = n
  BY <1>1 DEF Has
<1>3. i \in DOMAIN (h \o events) /\ (h \o events)[i] = n
  BY <1>2
<1> QED BY <1>3 DEF Terminated, Has

\* The events of a terminal type end a history.
LEMMA TerminalEnds ==
  ASSUME NEW h \in Seq(EventTypes), NEW n \in TerminalEventTypes
  PROVE  Append(h, n) \in Seq(EventTypes) /\ Terminated(Append(h, n))
<1>1. n \in EventTypes
  BY DEF EventTypes
<1>2. Append(h, n) \in Seq(EventTypes)
  BY <1>1
<1>3. Len(h) + 1 \in DOMAIN Append(h, n) /\ Append(h, n)[Len(h) + 1] = n
  BY <1>1
<1> QED BY <1>2, <1>3 DEF Terminated, Has

\* ... when one more event is appended, too.
LEMMA AppendStays ==
  ASSUME NEW h \in Seq(EventTypes), NEW n \in EventTypes, Terminated(h)
  PROVE  Terminated(Append(h, n))
<1>1. Append(h, n) = h \o <<n>> /\ <<n>> \in Seq(EventTypes)
  OBVIOUS
<1> QED BY <1>1, TerminalStays

\* The handler appends its next event.
LEMMA EmitKeeps ==
  ASSUME IInv, NEW p \in Process, EmitNext(p), UNCHANGED integrationVars
  PROVE  IInv'
<1>1. Typed /\ HandOK(p) /\ CommandOK(p)
  BY DEF IInv
<1>2. cur[p] \in Txn /\ pc[p] # "idle"
  BY <1>1 DEF HandOK, EmitNext
<1>3. /\ todo[p] \in Seq(EventTypes) /\ todo[p] # <<>>
      /\ Head(todo[p]) \in EventTypes /\ Tail(todo[p]) \in Seq(EventTypes)
  BY <1>1 DEF Typed, EmitNext
<1>4. hist' \in [Txn -> Seq(EventTypes)] /\ todo' \in [Process -> Seq(EventTypes)]
  BY <1>1, <1>2, <1>3 DEF Typed, EmitNext
<1>5. Typed'
  BY <1>1, <1>4 DEF Typed, EmitNext, repository, lock, bounds, integrationVars
<1>6. \A t \in Txn : Terminated(hist[t]) => Terminated(hist'[t])
  BY <1>1, <1>2, <1>3, AppendStays DEF Typed, EmitNext
<1>7. /\ UNCHANGED <<milestone, cand, fact, pc, cur, lease, holder, blockers>>
      /\ drift <= drift' /\ crashes <= crashes' /\ Only(p) /\ UNCHANGED <<tree, drift>>
      /\ \A t \in plans' : PlanOK(t)
  BY <1>1 DEF IInv, Typed, EmitNext, Only, repository, lock, bounds, integrationVars
<1>8. HandOK(p)'
  BY <1>1, <1>2, <1>7 DEF HandOK, Owns
<1>9. CommandOK(p)'
  <2>1. blockers'[p] = blockers[p] /\ pc'[p] = pc[p] /\ cur'[p] = cur[p] /\ fact' = fact
        /\ milestone' = milestone /\ drift' = drift
    BY <1>7 DEF EmitNext, bounds
  <2>2. PickBase(cur[p])' = PickBase(cur[p]) /\ (Based(cur[p]) => Based(cur[p])')
    BY <2>1 DEF PickBase, PlanOf, Based, Accepted
  <2> QED BY <1>1, <1>7, <2>1, <2>2
      DEF CommandOK, Accepted, Unpicked, Unended, Final, Tip, Outcome
<1>10. Honest'
  BY <1>5, <1>6, <1>7, QuietHonest
<1>11. Clean'
  BY <1>7, CleanWaits DEF IInv
<1> QED BY <1>5, <1>6, <1>7, <1>8, <1>9, <1>10, <1>11, QuietStep

\* The lease is given back.
LEMMA ReleaseKeeps ==
  ASSUME IInv, NEW p \in Process, ReleaseLease(p), UNCHANGED integrationVars
  PROVE  IInv'
<1>1. Typed /\ HandOK(p) /\ pc[p] = "releasing"
  BY DEF IInv, ReleaseLease, Ready
<1>2. Owns(p) /\ cur[p] \in Txn
  BY <1>1 DEF HandOK, Working
<1>3. "released" \in Steps /\ <<"LeaseReleased", "ProjectionUpdated">> \in Seq(EventTypes)
  BY DEF Steps, EventTypes
<1>4. /\ pc' \in [Process -> Steps] /\ todo' \in [Process -> Seq(EventTypes)]
      /\ pc'[p] = "released" /\ cur'[p] = cur[p] /\ Only(p)
  BY <1>1, <1>3, Going DEF ReleaseLease
<1>5. Typed'
  BY <1>1, <1>4 DEF Typed, Steps, ReleaseLease, repository, book, bounds, integrationVars
<1>6. "released" \notin Integrating /\ "released" \notin Working /\ "releasing" \notin Pending
  BY DEF Working, Accepting, Integrating, Unrecorded, Pending
<1>7. HandOK(p)' /\ CommandOK(p)'
  BY <1>2, <1>4, <1>6, RestingOwesNothingNext DEF HandOK
<1>8. /\ UNCHANGED <<milestone, cand, fact, blockers>>
      /\ drift <= drift' /\ crashes <= crashes' /\ UNCHANGED <<tree, drift>>
      /\ \A t \in plans' : PlanOK(t)
      /\ \A t \in Txn : Terminated(hist[t]) => Terminated(hist'[t])
  BY <1>1 DEF IInv, Typed, ReleaseLease, repository, book, bounds, integrationVars
<1>9. Honest'
  BY <1>1, <1>4, <1>5, <1>6, <1>8, QuietHonest
<1>10. \A q \in Process \ {p} : Owns(q) => lease' = lease /\ holder' = holder
  BY <1>2, OthersDoNotOwn
<1>11. Clean'
  BY <1>4, <1>8, CleanStands DEF IInv, Clear
<1> QED BY <1>4, <1>5, <1>7, <1>8, <1>9, <1>10, <1>11, QuietStep

\* The command is over.
LEMMA FinishKeeps ==
  ASSUME IInv, NEW p \in Process, Finish(p), UNCHANGED integrationVars
  PROVE  IInv'
<1>1. /\ pc' \in [Process -> Steps] /\ todo' \in [Process -> Seq(EventTypes)]
      /\ cur' \in [Process -> Txn \cup {NoTxn}]
      /\ pc'[p] = "idle" /\ Only(p) /\ HandOK(p)' /\ CommandOK(p)'
  BY Leaving DEF Finish
<1>2. Typed'
  BY <1>1 DEF IInv, Typed, Steps, Finish, repository, book, lock, bounds, integrationVars
<1>3. /\ UNCHANGED <<milestone, cand, fact, blockers, lease, holder>>
      /\ drift <= drift' /\ crashes <= crashes' /\ UNCHANGED <<tree, drift>>
      /\ \A t \in plans' : PlanOK(t)
      /\ \A t \in Txn : Terminated(hist[t]) => Terminated(hist'[t])
  BY DEF IInv, Typed, Finish, repository, book, lock, bounds, integrationVars
<1>4. pc[p] \notin Pending
  BY DEF Finish, Ready, Pending
<1>5. Honest'
  BY <1>1, <1>2, <1>3, <1>4, QuietHonest
<1>6. Clean'
  BY <1>1, <1>3, CleanStands DEF IInv, Clear
<1> QED BY <1>1, <1>2, <1>3, <1>5, <1>6, QuietStep

-----------------------------------------------------------------------------
(* Steps of nobody's command.                                              *)

\* A step of nobody in particular, that takes no lease from its holder.
LEMMA OutsiderStep ==
  ASSUME IInv, Typed', Advanced, Foreign, UNCHANGED <<fact, control, blockers, plans>>,
         \A q \in Process : Owns(q) => lease' = lease /\ holder' = holder,
         drift' = 0 => milestone' = milestone,
         \A f \in Feature : cand[f].ver = 0 => cand'[f].ver = 0 \/ Unended(f),
         Clean'
  PROVE  IInv'
<1>1. ASSUME NEW q \in Process
      PROVE  HandOK(q)' /\ CommandOK(q)'
  <2>1. Settled
    BY DEF Settled, Accepted
  <2> QED BY <2>1, LeftAlone DEF control
<1>2. Honest'
  <2>1. \A i \in DOMAIN milestone' : milestone'[i].kind = "passed" => i \in DOMAIN milestone
    BY DEF Foreign
  <2>2. UNCHANGED <<pc, cur>>
    BY DEF control
  <2> QED BY <2>1, <2>2, HonestStands
<1>3. \A t \in plans' : PlanOK(t)'
  <2> SUFFICES ASSUME NEW t \in plans
               PROVE  PlanOK(t)'
    OBVIOUS
  <2>1. Typed /\ t \in Txn /\ PlanOK(t) /\ EntryOK(t)
    BY DEF Typed, IInv
  <2> QED BY <2>1, PlanStands
<1> QED BY <1>1, <1>2, <1>3, Still DEF IInv

\* A stale lease is archived by a recovery, or removed by the operator.
LEMMA LeaseRemovalKeeps ==
  ASSUME IInv, holder = NoProcess, lease' = NoTxn, drift' \in Nat, drift <= drift',
         UNCHANGED <<repository, book, holder, control, crashes, integrationVars>>
  PROVE  IInv'
<1>1. Typed /\ Clean
  BY DEF IInv
<1>2. Typed'
  BY <1>1 DEF Typed, repository, book, control, integrationVars
<1>3. /\ UNCHANGED <<milestone, cand, fact, tree, hist, blockers, plans>>
      /\ drift <= drift' /\ crashes <= crashes'
  BY <1>1 DEF Typed, repository, book, integrationVars
<1>4. Advanced /\ Foreign
  BY <1>1, <1>2, <1>3, QuietAdvances
<1>5. \A q \in Process : ~Owns(q)
  BY PhaseConstants DEF Owns
<1>6. Clean'
  <2>1. drift' = 0 => drift = 0
    BY <1>1 DEF Typed
  <2> QED BY <1>1, <1>3, <2>1, CleanWaits DEF control
<1> QED BY <1>2, <1>3, <1>4, <1>5, <1>6, OutsiderStep

\* A recovery archives a stale lease.
LEMMA ArchiveKeeps ==
  ASSUME IInv, NEW p \in Process, ArchiveLease(p), UNCHANGED integrationVars
  PROVE  IInv'
<1>1. drift' \in Nat /\ drift <= drift' /\ UNCHANGED crashes
  BY DEF IInv, Typed, ArchiveLease, bounds
<1> QED BY <1>1, LeaseRemovalKeeps DEF ArchiveLease, Stale

\* The operator removes the file of a stale lease.
LEMMA RemoveKeeps ==
  ASSUME IInv, RemoveLease, UNCHANGED integrationVars
  PROVE  IInv'
<1>1. drift' \in Nat /\ drift <= drift'
  BY DEF IInv, Typed, RemoveLease
<1> QED BY <1>1, LeaseRemovalKeeps DEF RemoveLease, Stale

\* Others commit, dirty the worktree or clean it up.
LEMMA DriftKeeps ==
  ASSUME IInv, Drift, UNCHANGED integrationVars
  PROVE  IInv'
<1>1. Typed
  BY DEF IInv
<1>2. drift' \in Nat /\ drift <= drift' /\ drift' # 0
  BY <1>1 DEF Typed, Drift
<1>3. /\ UNCHANGED <<cand, fact, hist, control, lease, holder, blockers, plans, crashes>>
      /\ crashes <= crashes'
  BY <1>1 DEF Typed, Drift, book, lock, integrationVars
<1>4. CASE milestone' = Append(milestone, Commit("outside", NoFeature)) /\ UNCHANGED tree
  <2> DEFINE c == Commit("outside", NoFeature)
  <2>1. c \in CommitRecord /\ c.kind = "outside" /\ c.ver = 0
    BY DEF CommitRecord, Commit, CommitKinds
  <2> HIDE DEF c
  <2>2. /\ milestone' \in Seq(CommitRecord)
        /\ Tip' = Tip + 1 /\ milestone'[Tip + 1] = c
        /\ \A i \in DOMAIN milestone : milestone'[i] = milestone[i]
        /\ DOMAIN milestone' = DOMAIN milestone \cup {Tip + 1}
    BY <1>1, <1>4, <2>1, Appended DEF c
  <2>3. Typed'
    BY <1>1, <1>2, <1>4, <2>2 DEF Typed, Drift, book, lock, control, integrationVars
  <2>4. Foreign
    BY <2>1, <2>2 DEF Foreign
  <2>5. Advanced
    <3>1. \A f \in Feature : cand[f].ver \in Nat
      BY <1>1 DEF Typed
    <3>2. Tip \in Nat
      BY <1>1, Positions
    <3> QED BY <1>2, <1>3, <2>2, <3>1, <3>2 DEF Advanced, Tip
  <2>6. Clean'
    BY <1>2 DEF Clean
  <2> QED BY <1>2, <1>3, <2>3, <2>4, <2>5, <2>6, OutsiderStep
<1>5. CASE tree' \in {"clean", "dirty"} \ {tree} /\ UNCHANGED milestone
  <2>1. Typed'
    BY <1>1, <1>2, <1>5 DEF Typed, Drift, book, lock, control, integrationVars
  <2>2. Advanced /\ Foreign
    BY <1>1, <1>2, <1>3, <1>5, <2>1, QuietAdvances
  <2>3. Clean'
    BY <1>2 DEF Clean
  <2> QED BY <1>2, <1>3, <2>1, <2>2, <2>3, OutsiderStep
<1> QED BY <1>4, <1>5 DEF Drift

\* The feature session makes a candidate.
LEMMA ImplementKeeps ==
  ASSUME IInv, NEW f \in Feature, Implement(f), UNCHANGED integrationVars
  PROVE  IInv'
<1>1. Typed
  BY DEF IInv
<1>2. cand[f].ver \in 0..MaxVersion /\ cand[f].ver < MaxVersion /\ MaxVersion \in Nat
  BY <1>1, PhaseConstants DEF Typed, Implement
<1>3. PICK n \in 1..MaxVersion : n = cand[f].ver + 1
  BY <1>2
<1>4. cand' = [cand EXCEPT ![f] = [ver |-> n, base |-> Tip]]
  BY <1>3 DEF Implement
<1>5. Tip \in Nat
  BY <1>1, Positions
<1>6. cand' \in [Feature -> [ver : 0..MaxVersion, base : Nat]]
  BY <1>1, <1>3, <1>4, <1>5 DEF Typed
<1>7. Typed'
  BY <1>1, <1>6 DEF Typed, Implement, book, lock, control, bounds, integrationVars
<1>8. /\ UNCHANGED <<milestone, fact, hist, tree, control, lease, holder, blockers, plans,
                     crashes, drift>>
      /\ crashes <= crashes' /\ drift <= drift'
  BY <1>1 DEF Typed, Implement, book, lock, bounds, integrationVars
<1>9. \A g \in Feature : cand[g].ver <= cand'[g].ver
  <2>1. \A g \in Feature : cand[g].ver \in Nat
    BY <1>1 DEF Typed
  <2> QED BY <1>1, <1>2, <1>3, <1>4, <2>1 DEF Typed
<1>10. Advanced /\ Foreign
  BY <1>5, <1>8, <1>9 DEF Advanced, Foreign, Tip
<1>11. \A g \in Feature : cand[g].ver = 0 => cand'[g].ver = 0 \/ Unended(g)
  <2>1. Unended(f)
    BY <1>1, PendingIsUnended DEF Implement
  <2> QED BY <1>1, <1>4, <2>1 DEF Typed
<1>12. Clean'
  BY <1>8, CleanWaits DEF IInv, control
<1> QED BY <1>7, <1>8, <1>10, <1>11, <1>12, OutsiderStep

-----------------------------------------------------------------------------
(* The end of a transaction.                                               *)

Classes ==
  {"open", "FEATURE_ACCEPTED", "INTEGRATED", "RECOVERED_COMPLETION", "VALIDATION_FAILED",
   "SEMANTIC_CONFLICT", "SUPERSEDED", "TERMINAL_INTEGRATION_FAILURE",
   "FEATURE_VALIDATION_FAILED"}

References == {"none", "SafetyViolation", "validation", "other"}

\* The class of t is set, and what it is about stays.
ClassSet(t, class) ==
  /\ fact' \in [Txn -> Fact]
  /\ \A u \in Txn \ {t} : fact'[u] = fact[u]
  /\ fact'[t].class = class
  /\ fact'[t].kind = fact[t].kind /\ fact'[t].feature = fact[t].feature
  /\ fact'[t].ver = fact[t].ver /\ fact'[t].start = fact[t].start
  /\ fact'[t].of = fact[t].of /\ fact'[t].evidence = fact[t].evidence

\* A terminal event sets the class, and the reference if it blocks.
LEMMA SettingClass ==
  ASSUME Typed, NEW t \in Txn, NEW class \in Classes, NEW reference \in References,
         \/ fact' = [fact EXCEPT ![t].class = class, ![t].reference = reference]
         \/ fact' = [fact EXCEPT ![t].class = class]
  PROVE  ClassSet(t, class)
<1>1. PICK r \in Fact : r = fact[t]
  BY DEF Typed
<1>2. CASE fact' = [fact EXCEPT ![t].class = class, ![t].reference = reference]
  <2> DEFINE e == [r EXCEPT !.class = class, !.reference = reference]
  <2>1. /\ e \in Fact /\ e.class = class /\ e.kind = r.kind /\ e.feature = r.feature
        /\ e.ver = r.ver /\ e.start = r.start /\ e.of = r.of /\ e.evidence = r.evidence
    BY DEF Fact, Classes, References
  <2>2. fact' = [fact EXCEPT ![t] = e]
    BY <1>1, <1>2
  <2> HIDE DEF e
  <2> QED BY <1>1, <2>1, <2>2 DEF ClassSet, Typed
<1>3. CASE fact' = [fact EXCEPT ![t].class = class]
  <2> DEFINE e == [r EXCEPT !.class = class]
  <2>1. /\ e \in Fact /\ e.class = class /\ e.kind = r.kind /\ e.feature = r.feature
        /\ e.ver = r.ver /\ e.start = r.start /\ e.of = r.of /\ e.evidence = r.evidence
    BY DEF Fact, Classes
  <2>2. fact' = [fact EXCEPT ![t] = e]
    BY <1>1, <1>3
  <2> HIDE DEF e
  <2> QED BY <1>1, <2>1, <2>2 DEF ClassSet, Typed
<1> QED BY <1>2, <1>3

\* What a terminal class asks for.
Deserved(t, class) ==
  /\ class = "INTEGRATED" =>
       /\ fact[t].kind = "integration" /\ Based(t)
       /\ PickBase(t) < Tip /\ milestone[PickBase(t) + 1] = Pick(fact[t].feature, fact[t].ver)
       /\ fact[t].evidence # 0 /\ milestone[fact[t].evidence] = Commit("passed", fact[t].feature)
  /\ drift = 0 /\ fact[t].evidence # 0 /\ fact[t].feature \notin Ranged
     /\ class \in FailedClasses
     => milestone[fact[t].evidence].kind = "failed"

\* What is said of the entries and the commits when a transaction ends as it
\* deserves.
LEMMA ClosingEntries ==
  ASSUME IInv, Typed', NEW t \in Txn, fact[t].class = "open", NEW class \in Classes,
         ClassSet(t, class), Deserved(t, class), UNCHANGED <<milestone, cand, drift, plans>>,
         crashes <= crashes', Terminated(hist'[t]),
         \A u \in Txn : Terminated(hist[u]) => Terminated(hist'[u])
  PROVE  /\ Advanced /\ Foreign
         /\ \A u \in Txn : EntryOK(u)'
         /\ \A u \in plans' : PlanOK(u)'
         /\ \A i \in DOMAIN milestone' : PickOK(i)'
         /\ IntegratedOnce'
         /\ FinalOnce'
<1>1. Typed
  BY DEF IInv
<1>2. Advanced /\ Foreign
  <2>1. \A f \in Feature : cand[f].ver \in Nat
    BY <1>1 DEF Typed
  <2>2. Len(milestone) \in Nat /\ drift \in Nat
    BY <1>1, Positions DEF Tip, Typed
  <2> QED BY <2>1, <2>2 DEF Advanced, Foreign, ClassSet
<1>3. EntryOK(t)'
  <2>1. EntryOK(t)
    BY DEF IInv
  <2>2. \A u \in Txn : /\ fact'[u].kind = fact[u].kind /\ fact'[u].feature = fact[u].feature
                       /\ fact'[u].ver = fact[u].ver /\ fact'[u].start = fact[u].start
                       /\ fact'[u].of = fact[u].of
    BY DEF ClassSet
  <2>3. fact'[t].evidence = fact[t].evidence /\ fact'[t].class = class
    BY DEF ClassSet
  <2>4. fact[t].of \in Txn \cup {NoTxn}
    BY <1>1, EntryIsFact
  <2>5. PickBase(t)' = PickBase(t)
    BY <2>2, <2>4 DEF PickBase, PlanOf
  <2>6. Tip' = Tip /\ UNCHANGED <<milestone, cand, drift>>
    BY DEF Tip
  <2>7. /\ fact'[t].class # "open" => Terminated(hist[t])'
        /\ fact'[t].kind = "none" => fact'[t].evidence = 0
        /\ fact'[t].kind # "none" =>
             /\ fact'[t].feature \in Feature
             /\ fact'[t].ver \in 1..cand'[fact'[t].feature].ver
             /\ fact'[t].start <= Tip'
        /\ fact'[t].of # NoTxn =>
             /\ fact'[fact'[t].of].kind = "integration"
             /\ fact'[fact'[t].of].feature = fact'[t].feature
             /\ fact'[fact'[t].of].ver = fact'[t].ver
        /\ fact'[t].evidence # 0 =>
             /\ fact'[t].kind = "integration"
             /\ fact'[t].start < fact'[t].evidence /\ fact'[t].evidence <= Tip'
    BY <2>1, <2>2, <2>3, <2>4, <2>6 DEF EntryOK
  <2>8. class = "INTEGRATED" => Based(t)'
    BY <1>1, <1>2, <2>1, BasedStands DEF Deserved
  <2> QED BY <2>2, <2>3, <2>5, <2>6, <2>7, <2>8 DEF EntryOK, Deserved
<1>4. \A u \in Txn : EntryOK(u)'
  <2> SUFFICES ASSUME NEW u \in Txn, u # t
               PROVE  EntryOK(u)'
    BY <1>3
  <2>1. EntryOK(u) /\ fact'[u] = fact[u]
    BY DEF IInv, ClassSet
  <2> QED BY <1>1, <1>2, <2>1, EntryStands
<1>5. IntegratedOnce'
  BY DEF IInv, IntegratedOnce
<1>6. \A u \in plans' : PlanOK(u)'
  <2> SUFFICES ASSUME NEW u \in plans
               PROVE  PlanOK(u)'
    OBVIOUS
  <2>1. u \in Txn /\ PlanOK(u) /\ EntryOK(u)
    BY DEF Typed, IInv
  <2> QED BY <1>1, <1>2, <2>1, PlanStands
<1>7. \A i \in DOMAIN milestone' : PickOK(i)'
  <2> SUFFICES ASSUME NEW i \in DOMAIN milestone
               PROVE  PickOK(i)'
    OBVIOUS
  <2>1. PickOK(i)
    BY DEF IInv
  <2> QED BY <1>1, <1>2, <2>1, PickStands
<1>8. FinalOnce'
  BY DEF IInv, FinalOnce
<1> QED BY <1>2, <1>4, <1>5, <1>6, <1>7, <1>8

\* A transaction that can still get a terminal event has none.
LEMMA OpenUntilTerminal ==
  ASSUME Typed, NEW t \in Txn, EntryOK(t), ~Terminated(hist[t])
  PROVE  fact[t].class = "open"
BY DEF EntryOK

\* The ledger refuses a second terminal event.
LEMMA TerminalNeedsOpen ==
  ASSUME NEW h \in Seq(EventTypes), NEW type \in TerminalEventTypes, ValidateAppend(h, type)
  PROVE  ~Terminated(h)
<1>1. type \notin PostTerminalTypes /\ type # "TransactionStarted"
  BY DEF TerminalEventTypes, PostTerminalTypes
<1> QED BY <1>1 DEF ValidateAppend

\* complete and block.
LEMMA EndKeeps ==
  ASSUME IInv, NEW p \in Process, pc[p] \in Accepting \cup Integrating,
         NEW type \in TerminalEventTypes, NEW class \in Classes, NEW reference \in References,
         NEW next, End(p, type, class, reference, next), UNCHANGED integrationVars,
         Deserved(cur[p], class),
         /\ pc[p] \in Pending /\ crashes = 0 /\ drift = 0
         /\ fact[cur[p]].feature \notin Ranged
         /\ (\E i \in DOMAIN milestone :
                milestone[i].kind = "passed" /\ milestone[i].feature = fact[cur[p]].feature)
         => class = "INTEGRATED"
  PROVE  IInv'
<1>1. Typed /\ HandOK(p) /\ pc[p] \in Working /\ pc[p] # "idle"
  BY DEF IInv, Working, Accepting, Integrating, Unrecorded
<1>2. PICK t \in Txn : t = cur[p]
  BY <1>1 DEF HandOK
<1>3. /\ ValidateAppend(hist[t], type)
      /\ hist' = [hist EXCEPT ![t] = Append(@, type)]
      /\ fact' = [fact EXCEPT ![t].class = class, ![t].reference = reference]
  BY <1>2 DEF End, Terminal
<1>4. hist[t] \in Seq(EventTypes)
  BY <1>1 DEF Typed
<1>5. ~Terminated(hist[t])
  BY <1>3, <1>4, TerminalNeedsOpen
<1>6. fact[t].class = "open"
  BY <1>1, <1>5, OpenUntilTerminal DEF IInv
<1>7. ClassSet(t, class)
  BY <1>1, <1>3, SettingClass
<1>8. "releasing" \in Steps /\ <<>> \in Seq(EventTypes)
  BY DEF Steps, Working
<1>9. /\ pc' \in [Process -> Steps] /\ todo' \in [Process -> Seq(EventTypes)]
      /\ pc'[p] = "releasing" /\ cur'[p] = cur[p] /\ Only(p)
  BY <1>1, <1>8, Going DEF End
<1>10. hist' \in [Txn -> Seq(EventTypes)] /\ Terminated(hist'[t])
       /\ \A u \in Txn : Terminated(hist[u]) => Terminated(hist'[u])
  <2>1. Append(hist[t], type) \in Seq(EventTypes) /\ Terminated(Append(hist[t], type))
    BY <1>4, TerminalEnds
  <2> QED BY <1>1, <1>3, <2>1 DEF Typed
<1>11. Typed'
  BY <1>1, <1>7, <1>9, <1>10 DEF Typed, Steps, ClassSet, End, repository, lock, bounds, integrationVars
<1>12. /\ UNCHANGED <<milestone, cand, drift, plans, blockers, tree, lease, holder, crashes>>
       /\ crashes <= crashes'
  BY <1>1 DEF Typed, End, repository, lock, bounds, integrationVars
<1>13. Deserved(t, class)
  BY <1>2
<1>14. /\ Advanced /\ Foreign
       /\ \A u \in Txn : EntryOK(u)'
       /\ \A u \in plans' : PlanOK(u)'
       /\ \A i \in DOMAIN milestone' : PickOK(i)'
       /\ IntegratedOnce'
       /\ FinalOnce'
  BY <1>6, <1>7, <1>10, <1>11, <1>12, <1>13, ClosingEntries
<1>15. HandOK(p)' /\ CommandOK(p)'
  <2>1. Owns(p) /\ cur[p] \in Txn
    BY <1>1, <1>2 DEF HandOK
  <2>2. Owns(p)'
    BY <1>9, <1>12, <2>1 DEF Owns
  <2>3. "releasing" \notin Integrating
    BY DEF Integrating, Unrecorded
  <2>4. HandOK(p)'
    BY <1>9, <2>1, <2>2 DEF HandOK
  <2> QED BY <1>9, <2>3, <2>4, RestingOwesNothingNext
<1>16. ASSUME NEW q \in Process, q # p
       PROVE  HandOK(q)' /\ CommandOK(q)'
  <2>1. pc[q] \notin Working
    BY <1>1, <1>16, OthersRest
  <2> QED BY <1>9, <1>16, <2>1, Resting DEF Only
<1>17. Clean'
  BY <1>9, <1>12, CleanStands DEF IInv, Clear
<1>18. Honest'
  <2>1. \A q \in Process : /\ pc[q] \in Pending /\ crashes' = 0 /\ drift' = 0
                           /\ fact[cur[q]].feature \notin Ranged
                           /\ (\E i \in DOMAIN milestone :
                                  milestone[i].kind = "passed"
                                  /\ milestone[i].feature = fact[cur[q]].feature)
                           => \/ pc'[q] \in Pending /\ cur'[q] = cur[q]
                              \/ /\ fact'[cur[q]].class = "INTEGRATED"
                                 /\ fact'[cur[q]].feature = fact[cur[q]].feature
    <3>1. fact'[cur[p]].class = class /\ fact'[cur[p]].feature = fact[cur[p]].feature
      BY <1>2, <1>7 DEF ClassSet
    <3> QED BY <1>9, <1>12, <3>1 DEF Only
  <2> QED BY <1>11, <1>12, <1>14, <2>1, HonestStands
<1> QED BY <1>11, <1>14, <1>15, <1>16, <1>17, <1>18 DEF IInv

\* The recovery of an incomplete transaction, whatever it makes of it.
LEMMA RecoveryEnds ==
  ASSUME IInv, lease = NoTxn \/ holder = NoProcess, lease' \in {lease, NoTxn},
         NEW t \in Incomplete(TRUE), NEW class \in Classes,
         fact' = [fact EXCEPT ![t].class = class],
         NEW events \in Seq(EventTypes), hist' = [hist EXCEPT ![t] = @ \o events],
         Terminated(hist'[t]), Deserved(t, class),
         UNCHANGED <<repository, holder, control, bounds, integrationVars>>
  PROVE  IInv'
<1>1. Typed /\ t \in Txn /\ ~Terminated(hist[t])
  BY DEF IInv, Incomplete
<1>2. fact[t].class = "open"
  BY <1>1, OpenUntilTerminal DEF IInv
<1>3. ClassSet(t, class)
  <2>1. "none" \in References
    BY DEF References
  <2> QED BY <1>1, <2>1, SettingClass
<1>4. hist' \in [Txn -> Seq(EventTypes)]
      /\ \A u \in Txn : Terminated(hist[u]) => Terminated(hist'[u])
  BY <1>1, TerminalStays DEF Typed
<1>5. Typed'
  BY <1>1, <1>3, <1>4 DEF Typed, ClassSet, repository, control, bounds, integrationVars
<1>6. /\ UNCHANGED <<milestone, cand, drift, plans, blockers, tree, crashes, pc, cur, todo>>
      /\ crashes <= crashes'
  BY <1>1 DEF Typed, repository, control, bounds, integrationVars
<1>7. /\ Advanced /\ Foreign
      /\ \A u \in Txn : EntryOK(u)'
      /\ \A u \in plans' : PlanOK(u)'
      /\ \A i \in DOMAIN milestone' : PickOK(i)'
      /\ IntegratedOnce'
      /\ FinalOnce'
  BY <1>1, <1>2, <1>3, <1>4, <1>5, <1>6, ClosingEntries
<1>8. ASSUME NEW q \in Process
      PROVE  HandOK(q)' /\ CommandOK(q)'
  BY <1>6, NobodyWorks, Resting
<1>9. Clean'
  BY <1>6, CleanWaits DEF IInv
<1>10. Honest'
  BY <1>5, <1>6, <1>7, HonestStands
<1> QED BY <1>5, <1>7, <1>8, <1>9, <1>10 DEF IInv

\* Histories that end in what they are given.
LEMMA GivenTerminal ==
  ASSUME NEW h \in Seq(EventTypes), NEW events \in Seq(EventTypes), NEW i \in DOMAIN events,
         events[i] \in TerminalEventTypes
  PROVE  Terminated(h \o events)
<1>1. Len(h) + i \in DOMAIN (h \o events) /\ (h \o events)[Len(h) + i] = events[i]
  OBVIOUS
<1> QED BY <1>1 DEF Terminated, Has

\* RecoveryPlanner completes or supersedes.
LEMMA RecoverKeeps ==
  ASSUME IInv, NEW p \in Process, NEW t \in Txn, RecoverIncomplete(p, t), UNCHANGED integrationVars
  PROVE  IInv'
<1>1. Typed /\ EntryOK(t)
  BY DEF IInv
<1>2. /\ t \in Incomplete(TRUE)
      /\ lease = NoTxn \/ holder = NoProcess
      /\ lease' \in {lease, NoTxn}
      /\ UNCHANGED <<repository, holder, control, bounds>>
  BY DEF RecoverIncomplete, Stale
<1>3. hist[t] \in Seq(EventTypes) /\ hist \in [Txn -> Seq(EventTypes)]
  BY <1>1 DEF Typed
<1>4. CASE /\ hist' = [hist EXCEPT ![t] = @ \o <<"TransactionCompleted", "RecoveryApplied">>]
           /\ fact' = [fact EXCEPT ![t].class = "RECOVERED_COMPLETION"]
  <2>1. PICK class \in Classes : class = "RECOVERED_COMPLETION"
    BY DEF Classes
  <2>2. PICK events \in Seq(EventTypes) : events = <<"TransactionCompleted", "RecoveryApplied">>
    <3>1. <<"TransactionCompleted", "RecoveryApplied">> \in Seq(EventTypes)
      BY DEF EventTypes, TerminalEventTypes
    <3> QED BY <3>1
  <2>3. Terminated(hist'[t])
    <3>1. 1 \in DOMAIN events /\ events[1] \in TerminalEventTypes
      BY <2>2 DEF TerminalEventTypes
    <3>2. hist'[t] = hist[t] \o events
      BY <1>3, <1>4, <2>2
    <3> QED BY <1>3, <3>1, <3>2, GivenTerminal
  <2>4. Deserved(t, class)
    BY <2>1 DEF Deserved, FailedClasses
  <2> QED BY <1>2, <1>4, <2>1, <2>2, <2>3, <2>4, RecoveryEnds
<1>5. CASE /\ Resumable(t)
           /\ hist' = [hist EXCEPT ![t] =
                @ \o <<"RecoveryApplied", "LeaseAcquired", "TransactionSuperseded">>]
           /\ fact' = [fact EXCEPT ![t].class = "SUPERSEDED"]
  <2>1. PICK class \in Classes : class = "SUPERSEDED"
    BY DEF Classes
  <2>2. PICK events \in Seq(EventTypes) :
          events = <<"RecoveryApplied", "LeaseAcquired", "TransactionSuperseded">>
    <3>1. <<"RecoveryApplied", "LeaseAcquired", "TransactionSuperseded">> \in Seq(EventTypes)
      BY DEF EventTypes, TerminalEventTypes
    <3> QED BY <3>1
  <2>3. Terminated(hist'[t])
    <3>1. 3 \in DOMAIN events /\ events[3] \in TerminalEventTypes
      BY <2>2 DEF TerminalEventTypes
    <3>2. hist'[t] = hist[t] \o events
      BY <1>3, <1>5, <2>2
    <3> QED BY <1>3, <3>1, <3>2, GivenTerminal
  <2>4. fact[t].evidence = 0
    <3>1. fact[t].evidence # 0 =>
            fact[t].kind = "integration" /\ fact[t].start < fact[t].evidence
            /\ fact[t].evidence <= Tip
      BY <1>1 DEF EntryOK
    <3>2. fact[t].kind = "integration" => Tip = fact[t].start
      BY <1>5 DEF Resumable, AtStart
    <3>3. Tip \in Nat /\ fact[t].evidence \in Nat /\ fact[t].start \in Nat
      BY <1>1, Positions, EntryIsFact
    <3> QED BY <3>1, <3>2, <3>3
  <2>5. Deserved(t, class)
    BY <2>1, <2>4 DEF Deserved
  <2> QED BY <1>2, <1>5, <2>1, <2>2, <2>3, <2>5, RecoveryEnds
<1> QED BY <1>4, <1>5 DEF RecoverIncomplete

\* accept-feature supersedes a start that got no further.
LEMMA SupersedeKeeps ==
  ASSUME IInv, NEW p \in Process, NEW t \in Txn, SupersedeIncompleteStart(p, t),
         UNCHANGED integrationVars
  PROVE  IInv'
<1>1. Typed /\ EntryOK(t)
  BY DEF IInv
<1>2. /\ t \in Incomplete(TRUE) /\ lease = NoTxn /\ lease' \in {lease, NoTxn}
      /\ UNCHANGED <<repository, holder, control, bounds>>
      /\ fact[t].kind = "acceptance"
      /\ hist' = [hist EXCEPT ![t] = @ \o <<"TransactionSuperseded", "RecoveryApplied">>]
      /\ fact' = [fact EXCEPT ![t].class = "SUPERSEDED"]
  BY DEF SupersedeIncompleteStart, lock
<1>3. hist[t] \in Seq(EventTypes) /\ hist \in [Txn -> Seq(EventTypes)]
  BY <1>1 DEF Typed
<1>4. PICK class \in Classes : class = "SUPERSEDED"
  BY DEF Classes
<1>5. PICK events \in Seq(EventTypes) : events = <<"TransactionSuperseded", "RecoveryApplied">>
  <2>1. <<"TransactionSuperseded", "RecoveryApplied">> \in Seq(EventTypes)
    BY DEF EventTypes, TerminalEventTypes
  <2> QED BY <2>1
<1>6. Terminated(hist'[t])
  <2>1. 1 \in DOMAIN events /\ events[1] \in TerminalEventTypes
    BY <1>5 DEF TerminalEventTypes
  <2>2. hist'[t] = hist[t] \o events
    BY <1>2, <1>3, <1>5
  <2> QED BY <1>3, <2>1, <2>2, GivenTerminal
<1>7. fact[t].evidence = 0
  BY <1>1, <1>2 DEF EntryOK
<1>8. Deserved(t, class)
  BY <1>4, <1>7 DEF Deserved
<1> QED BY <1>2, <1>4, <1>5, <1>6, <1>8, RecoveryEnds

-----------------------------------------------------------------------------
(* The start of a transaction.                                             *)

\* A new entry, on the milestone as it is.
LEMMA OpeningEntries ==
  ASSUME IInv, Typed', NEW t \in Txn, NEW e \in Fact, fact[t] = NoFact,
         fact' = [fact EXCEPT ![t] = e],
         e.kind # "none", e.class = "open", e.evidence = 0, e.feature \in Feature,
         e.ver \in 1..cand[e.feature].ver, e.start = Tip,
         e.of # NoTxn =>
           /\ fact[e.of].kind = "integration"
           /\ fact[e.of].feature = e.feature /\ fact[e.of].ver = e.ver,
         UNCHANGED <<milestone, cand, hist, drift, crashes, plans>>
  PROVE  /\ fact'[t] = e /\ Advanced /\ Foreign /\ Settled
         /\ \A u \in Txn : EntryOK(u)'
         /\ \A u \in plans' : PlanOK(u)'
         /\ \A i \in DOMAIN milestone' : PickOK(i)'
         /\ IntegratedOnce' /\ FinalOnce'
<1>1. Typed
  BY DEF IInv
<1>2. fact[t].kind = "none" /\ fact[t].class = "open"
  BY DEF NoFact
<1>3. fact'[t] = e /\ \A u \in Txn \ {t} : fact'[u] = fact[u]
  BY <1>1 DEF Typed
<1>4. Tip' = Tip /\ Tip \in Nat
  BY <1>1, Positions DEF Tip
<1>5. Advanced /\ Foreign
  <2>1. \A f \in Feature : cand[f].ver \in Nat
    BY <1>1 DEF Typed
  <2>2. drift \in Nat /\ crashes \in Nat
    BY <1>1 DEF Typed
  <2> QED BY <1>2, <1>3, <1>4, <2>1, <2>2 DEF Advanced, Foreign, Tip
<1>6. Settled
  BY <1>2, <1>3 DEF Settled, Accepted
<1>7. EntryOK(t)'
  <2>1. e.of # NoTxn => e.of \in Txn /\ e.of # t
    BY <1>2 DEF Fact
  <2> QED BY <1>3, <1>4, <2>1 DEF EntryOK
<1>8. \A u \in Txn : EntryOK(u)'
  <2> SUFFICES ASSUME NEW u \in Txn, u # t
               PROVE  EntryOK(u)'
    BY <1>7
  <2>1. EntryOK(u) /\ fact'[u] = fact[u]
    BY <1>3 DEF IInv
  <2> QED BY <1>1, <1>5, <2>1, EntryStands
<1>9. \A i \in DOMAIN milestone' : PickOK(i)'
  <2> SUFFICES ASSUME NEW i \in DOMAIN milestone
               PROVE  PickOK(i)'
    OBVIOUS
  <2>1. PickOK(i)
    BY DEF IInv
  <2> QED BY <1>1, <1>5, <2>1, PickStands
<1>10. IntegratedOnce' /\ FinalOnce'
  BY DEF IInv, IntegratedOnce, FinalOnce
<1>11. \A u \in plans' : PlanOK(u)'
  <2> SUFFICES ASSUME NEW u \in plans
               PROVE  PlanOK(u)'
    OBVIOUS
  <2>1. u \in Txn /\ PlanOK(u) /\ EntryOK(u)
    BY <1>1 DEF IInv, Typed
  <2> QED BY <1>1, <1>5, <2>1, PlanStands
<1> QED BY <1>3, <1>5, <1>6, <1>8, <1>9, <1>10, <1>11

\* An integration begins: nobody else is at work, and its entry is new.
LEMMA OpeningKeeps ==
  ASSUME IInv, NEW p \in Process, NEW t \in Txn, NEW e \in Fact, OpenTransaction(p, t, e),
         e.kind = "integration", e.class = "open", e.evidence = 0, e.feature \in Feature,
         e.ver \in 1..cand[e.feature].ver, e.start = Tip,
         e.of # NoTxn =>
           /\ fact[e.of].kind = "integration"
           /\ fact[e.of].feature = e.feature /\ fact[e.of].ver = e.ver,
         NEW events \in Seq(EventTypes), Goto(p, "begun", events),
         \A a \in Txn : Accepted(a) /\ fact[a].feature = e.feature => fact[a].ver <= e.ver,
         UNCHANGED integrationVars
  PROVE  IInv'
<1>1. Typed
  BY DEF IInv
<1>2. /\ fact[t] = NoFact /\ lease = NoTxn
      /\ fact' = [fact EXCEPT ![t] = e] /\ lease' = t /\ holder' = p
      /\ cur' = [cur EXCEPT ![p] = t] /\ pc[p] = "idle"
  BY DEF OpenTransaction, Fresh
<1>3. PICK s \in Steps : s = "begun"
  BY DEF Steps, Working, Integrating, Unrecorded
<1>4. /\ pc' \in [Process -> Steps] /\ todo' \in [Process -> Seq(EventTypes)]
      /\ cur' \in [Process -> Txn \cup {NoTxn}]
      /\ pc'[p] = s /\ cur'[p] = t /\ Only(p)
  BY <1>1, <1>2, <1>3 DEF Typed, Goto, Only
<1>5. fact' \in [Txn -> Fact]
  BY <1>1, <1>2 DEF Typed
<1>6. Typed'
  BY <1>1, <1>2, <1>4, <1>5 DEF Typed, OpenTransaction, repository, bounds, integrationVars
<1>7. UNCHANGED <<milestone, cand, tree, hist, drift, crashes, plans, blockers>>
  BY DEF OpenTransaction, repository, bounds, integrationVars
<1>8. e.kind # "none"
  OBVIOUS
<1>9. /\ fact'[t] = e /\ Advanced /\ Foreign /\ Settled
      /\ \A u \in Txn : EntryOK(u)'
      /\ \A u \in plans' : PlanOK(u)'
      /\ \A i \in DOMAIN milestone' : PickOK(i)'
      /\ IntegratedOnce' /\ FinalOnce'
  BY <1>2, <1>6, <1>7, <1>8, OpeningEntries
<1>10. Clean'
  BY <1>3, <1>4, <1>7, CleanStands DEF IInv, Clear
<1>11. HandOK(p)' /\ CommandOK(p)'
  <2>1. HandOK(p)'
    BY <1>2, <1>3, <1>4 DEF HandOK, Owns
  <2>2. /\ s \in Integrating /\ s \in Unrecorded /\ s \notin Planned /\ s \notin Pending
        /\ s \notin {"snapped", "planned", "picking", "staged", "picked"} /\ s # "resumed"
        /\ s \notin {"picking", "staged"} /\ s \notin {"marked", "validated", "recorded", "finalized"}
        /\ s \notin {"marked", "validated"}
        /\ s \notin {"recorded", "finalized", "failed"} /\ s # "finalized" /\ s # "failed"
    BY <1>3 DEF Integrating, Unrecorded, Planned, Pending
  <2>3. \A a \in Txn : Accepted(a)' => Accepted(a) /\ fact'[a] = fact[a]
    BY <1>9 DEF Settled, Accepted
  <2>4. /\ fact'[t].kind = "integration" /\ fact'[t].class = "open"
        /\ fact'[t].evidence = 0
        /\ \A a \in Txn : Accepted(a)' /\ fact'[a].feature = fact'[t].feature =>
              fact'[a].ver <= fact'[t].ver
    BY <1>9, <2>3
  <2> QED BY <1>4, <2>1, <2>2, <2>4 DEF CommandOK
<1>12. ASSUME NEW q \in Process, q # p
       PROVE  HandOK(q)' /\ CommandOK(q)'
  <2>1. pc[q] \notin Working
    BY <1>2, NobodyWorks
  <2> QED BY <1>4, <1>12, <2>1, Resting DEF Only
<1>13. Honest'
  <2>1. "idle" \notin Pending
    BY DEF Pending
  <2>2. \A q \in Process : pc[q] \in Pending => pc'[q] \in Pending /\ cur'[q] = cur[q]
    BY <1>2, <1>4, <2>1 DEF Only
  <2> QED BY <1>6, <1>7, <1>9, <2>2, HonestStands
<1> QED BY <1>6, <1>9, <1>10, <1>11, <1>12, <1>13 DEF IInv

-----------------------------------------------------------------------------
(* The steps of a handler.                                                 *)

\* A step of a command at work that makes no commit and changes no entry.
LEMMA HandlerStep ==
  ASSUME IInv, NEW p \in Process, pc[p] \in Accepting \cup Integrating,
         NEW s \in Working, NEW events \in Seq(EventTypes), Goto(p, s, events),
         UNCHANGED <<milestone, cand, book, lock, cur, crashes, linked>>,
         tree' \in {"clean", "dirty", "staged", "conflict"},
         drift' \in Nat, drift <= drift',
         plans' \in SUBSET Txn, \A t \in plans' : PlanOK(t),
         runtime' \in [plan : Txn \cup {NoTxn}, phase : Phases],
         blockers' \in [Process -> BOOLEAN],
         \A q \in Process \ {p} : blockers'[q] = blockers[q],
         Clean', CommandOK(p)',
         /\ pc[p] \in Pending /\ crashes' = 0 /\ drift' = 0
         /\ fact[cur[p]].feature \notin Ranged
         /\ (\E i \in DOMAIN milestone :
                milestone[i].kind = "passed" /\ milestone[i].feature = fact[cur[p]].feature)
         => s \in Pending
  PROVE  IInv'
<1>1. Typed /\ HandOK(p)
  BY DEF IInv
<1>2. s \in Steps /\ s # "idle" /\ pc[p] \in Working /\ pc[p] # "idle"
  BY DEF Steps, Working, Accepting, Integrating, Unrecorded
<1>3. /\ pc' \in [Process -> Steps] /\ todo' \in [Process -> Seq(EventTypes)]
      /\ pc'[p] = s /\ cur'[p] = cur[p] /\ Only(p)
  BY <1>1, <1>2, Going
<1>4. Typed'
  BY <1>1, <1>3 DEF Typed, Steps, book, lock
<1>5. UNCHANGED <<fact, hist, lease, holder>> /\ crashes <= crashes'
      /\ \A t \in Txn : Terminated(hist[t]) => Terminated(hist'[t])
  BY <1>1 DEF book, lock, Typed
<1>6. HandOK(p)'
  BY <1>1, <1>2, <1>3, <1>5 DEF HandOK, Owns
<1>7. Honest'
  BY <1>3, <1>4, <1>5, QuietHonest
<1> QED BY <1>3, <1>4, <1>5, <1>6, <1>7, QuietStep

\* A step of a command at work that changes nothing but its place.
LEMMA HandlerGoes ==
  ASSUME IInv, NEW p \in Process, pc[p] \in Accepting \cup Integrating,
         NEW s \in Working, NEW events \in Seq(EventTypes), Goto(p, s, events),
         UNCHANGED <<repository, book, lock, cur, bounds, integrationVars>>,
         s # "staged", s \in Clear => pc[p] \in Clear \/ tree = "clean",
         CommandOK(p)',
         /\ pc[p] \in Pending
         /\ (\E i \in DOMAIN milestone :
                milestone[i].kind = "passed" /\ milestone[i].feature = fact[cur[p]].feature)
         => s \in Pending
  PROVE  IInv'
<1>1. /\ UNCHANGED <<milestone, cand, tree, crashes, drift, linked, plans, runtime, blockers>>
      /\ UNCHANGED <<book, lock, cur>>
  BY DEF repository, bounds, integrationVars
<1>2. /\ tree' \in {"clean", "dirty", "staged", "conflict"} /\ drift' \in Nat /\ drift <= drift'
      /\ plans' \in SUBSET Txn /\ (\A t \in plans' : PlanOK(t))
      /\ runtime' \in [plan : Txn \cup {NoTxn}, phase : Phases]
      /\ blockers' \in [Process -> BOOLEAN]
      /\ (\A q \in Process \ {p} : blockers'[q] = blockers[q])
  BY <1>1 DEF IInv, Typed
<1>3. Clean'
  <2>1. pc'[p] = s /\ Only(p)
    BY Going DEF IInv, Steps
  <2> QED BY <1>1, <2>1, CleanStands DEF IInv
<1> QED BY <1>1, <1>2, <1>3, HandlerStep

\* accept_feature looks at the candidate, whoever else is at work.
LEMMA InspectForAcceptanceKeeps ==
  ASSUME IInv, NEW p \in Process, NEW t \in Txn, NEW f \in Feature, InspectForAcceptance(p, t, f),
         UNCHANGED integrationVars
  PROVE  IInv'
<1>1. Typed
  BY DEF IInv
<1>2. PICK v \in Nat : v = cand[f].ver
  BY <1>1 DEF Typed
<1>3. Tip \in Nat /\ NoTxn \in Txn \cup {NoTxn}
  BY <1>1, Positions
<1> DEFINE e == [NoFact EXCEPT !.kind = "acceptance", !.feature = f, !.ver = v, !.start = Tip]
<1>4. /\ e \in Fact /\ e.kind = "acceptance" /\ e.class = "open" /\ e.evidence = 0
      /\ e.feature = f /\ e.ver = v /\ e.start = Tip /\ e.of = NoTxn
  BY <1>2, <1>3 DEF NoFact, Fact
<1>5. /\ fact[t] = NoFact /\ fact' = [fact EXCEPT ![t] = e] /\ pc[p] = "idle"
      /\ cur' = [cur EXCEPT ![p] = t] /\ Goto(p, "inspected", <<>>)
      /\ UNCHANGED <<repository, hist, ended, state, current, lock, bounds, integrationVars>>
  BY <1>2 DEF InspectForAcceptance, Fresh
<1> HIDE DEF e
<1>6. PICK s \in Steps : s = "inspected"
  BY DEF Steps
<1>7. /\ pc' \in [Process -> Steps] /\ todo' \in [Process -> Seq(EventTypes)]
      /\ cur' \in [Process -> Txn \cup {NoTxn}]
      /\ pc'[p] = s /\ cur'[p] = t /\ Only(p)
  BY <1>1, <1>5, <1>6 DEF Typed, Goto, Only
<1>8. fact' \in [Txn -> Fact]
  BY <1>1, <1>4, <1>5 DEF Typed
<1>9. Typed'
  BY <1>1, <1>5, <1>7, <1>8 DEF Typed, repository, lock, bounds, integrationVars
<1>10. UNCHANGED <<milestone, cand, tree, hist, drift, crashes, plans, blockers, lease, holder>>
  BY <1>5 DEF repository, lock, bounds, integrationVars
<1>11. e.ver \in 1..cand[e.feature].ver /\ e.kind # "none" /\ e.feature \in Feature
  BY <1>2, <1>4 DEF InspectForAcceptance, InspectAcceptanceCandidate
<1>12. /\ Advanced /\ Foreign /\ Settled
       /\ \A u \in Txn : EntryOK(u)'
       /\ \A u \in plans' : PlanOK(u)'
       /\ \A i \in DOMAIN milestone' : PickOK(i)'
       /\ IntegratedOnce' /\ FinalOnce'
  BY <1>4, <1>5, <1>9, <1>10, <1>11, OpeningEntries
<1>13. Clean'
  BY <1>6, <1>7, <1>10, CleanStands DEF IInv, Clear
<1>14. s \notin Integrating /\ s \notin Working /\ s # "idle"
  BY <1>6 DEF Integrating, Unrecorded, Working, Accepting
<1>15. HandOK(p)' /\ CommandOK(p)'
  <2>1. HandOK(p)'
    BY <1>7, <1>14 DEF HandOK
  <2> QED BY <1>7, <1>14, <2>1, RestingOwesNothingNext
<1>16. ASSUME NEW q \in Process, q # p
       PROVE  HandOK(q)' /\ CommandOK(q)'
  BY <1>7, <1>9, <1>10, <1>12, <1>16, LeftAlone DEF Only
<1>17. Honest'
  <2>1. "idle" \notin Pending
    BY DEF Pending
  <2>2. \A q \in Process : pc[q] \in Pending => pc'[q] \in Pending /\ cur'[q] = cur[q]
    BY <1>5, <1>7, <2>1 DEF Only
  <2>3. \A g \in Feature : cand[g].ver = 0 => cand'[g].ver = 0 \/ Unended(g)
    BY <1>10
  <2>4. \A i \in DOMAIN milestone' : milestone'[i].kind = "passed" => i \in DOMAIN milestone
    BY <1>10
  <2> QED BY <1>9, <1>12, <2>2, <2>3, <2>4, HonestStands
<1> QED BY <1>9, <1>12, <1>13, <1>15, <1>16, <1>17 DEF IInv

\* accept_feature begins, with a lease nobody had, or gives up.
LEMMA BeginAcceptanceKeeps ==
  ASSUME IInv, NEW p \in Process, BeginAcceptance(p), UNCHANGED integrationVars
  PROVE  IInv'
<1>1. Typed /\ HandOK(p) /\ pc[p] = "inspected"
  BY DEF IInv, BeginAcceptance, Ready
<1>2. cur[p] \in Txn /\ pc[p] \notin Pending
  BY <1>1 DEF HandOK, Pending
<1>3. UNCHANGED <<repository, book, bounds, integrationVars>>
  BY DEF BeginAcceptance
<1>4. /\ UNCHANGED <<milestone, cand, fact, tree, drift, blockers>>
      /\ drift <= drift' /\ crashes <= crashes'
      /\ \A t \in plans' : PlanOK(t)
      /\ \A t \in Txn : Terminated(hist[t]) => Terminated(hist'[t])
  BY <1>1, <1>3 DEF IInv, Typed, repository, book, bounds, integrationVars
<1>5. CASE /\ lease = NoTxn /\ lease' = cur[p] /\ holder' = p
           /\ Goto(p, "accepting", <<"TransactionStarted", "LeaseAcquired">>) /\ UNCHANGED cur
  <2>1. PICK s \in Steps : s = "accepting"
    BY DEF Steps, Working, Accepting
  <2>2. PICK events \in Seq(EventTypes) : events = <<"TransactionStarted", "LeaseAcquired">>
    <3>1. <<"TransactionStarted", "LeaseAcquired">> \in Seq(EventTypes)
      BY DEF EventTypes
    <3> QED BY <3>1
  <2>3. Goto(p, s, events) /\ cur' = cur
    BY <1>5, <2>1, <2>2
  <2>4. /\ pc' \in [Process -> Steps] /\ todo' \in [Process -> Seq(EventTypes)]
        /\ pc'[p] = s /\ cur'[p] = cur[p] /\ Only(p)
    BY <1>1, <2>3, Going
  <2>5. Typed'
    BY <1>1, <1>2, <1>3, <1>5, <2>4 DEF Typed, repository, book, bounds, integrationVars
  <2>6. s \notin Integrating
    BY <2>1 DEF Integrating, Unrecorded
  <2>7. HandOK(p)' /\ CommandOK(p)'
    <3>1. HandOK(p)'
      BY <1>2, <1>5, <2>1, <2>4 DEF HandOK, Owns
    <3> QED BY <2>4, <2>6, <3>1, RestingOwesNothingNext
  <2>8. \A q \in Process : pc[q] \notin Working
    BY <1>5, NobodyWorks
  <2>9. Clean'
    BY <1>4, <2>1, <2>4, CleanStands DEF IInv, Clear
  <2>10. Honest'
    BY <1>2, <1>4, <2>4, <2>5, QuietHonest
  <2> QED BY <1>4, <2>4, <2>5, <2>7, <2>8, <2>9, <2>10, QuietStep
<1>6. CASE Leave(p) /\ UNCHANGED lock
  <2>1. /\ pc' \in [Process -> Steps] /\ todo' \in [Process -> Seq(EventTypes)]
        /\ cur' \in [Process -> Txn \cup {NoTxn}]
        /\ pc'[p] = "idle" /\ Only(p) /\ HandOK(p)' /\ CommandOK(p)'
    BY <1>6, Leaving
  <2>2. Typed'
    BY <1>1, <1>3, <1>6, <2>1 DEF Typed, repository, book, lock, bounds, integrationVars
  <2>3. UNCHANGED <<lease, holder>>
    BY <1>6 DEF lock
  <2>4. Clean'
    BY <1>4, <2>1, CleanStands DEF IInv, Clear
  <2>5. Honest'
    BY <1>2, <1>4, <2>1, <2>2, QuietHonest
  <2> QED BY <1>4, <2>1, <2>2, <2>3, <2>4, <2>5, QuietStep
<1> QED BY <1>5, <1>6 DEF BeginAcceptance

\* The events of an acceptance are decided on.
LEMMA RecordAcceptanceKeeps ==
  ASSUME IInv, NEW p \in Process, RecordAcceptance(p), UNCHANGED integrationVars
  PROVE  IInv'
<1>1. Typed
  BY DEF IInv
<1>2. pc[p] = "accepting" /\ pc[p] \in Accepting /\ pc[p] \notin Pending
  BY DEF RecordAcceptance, Ready, Accepting, Pending
<1>3. PICK s \in Working : s = "accepted"
  BY DEF Working, Accepting
<1>4. PICK events \in Seq(EventTypes) :
        events = <<"SnapshotCaptured", "DeterministicExecutionStarted",
                   "DeterministicResultAccepted", "ValidationStarted", "ValidationPassed",
                   "CommitFinalized">>
  <2>1. <<"SnapshotCaptured", "DeterministicExecutionStarted", "DeterministicResultAccepted",
          "ValidationStarted", "ValidationPassed", "CommitFinalized">> \in Seq(EventTypes)
    BY DEF EventTypes
  <2> QED BY <2>1
<1>5. Goto(p, s, events) /\ UNCHANGED <<repository, book, lock, cur, bounds, integrationVars>>
  BY <1>3, <1>4 DEF RecordAcceptance
<1>6. CommandOK(p)'
  <2>1. s \notin Integrating
    BY <1>3 DEF Integrating, Unrecorded
  <2>2. pc'[p] = s
    BY <1>1, <1>5 DEF Goto, Typed
  <2> QED BY <2>1, <2>2, RestingOwesNothingNext
<1>7. s # "staged" /\ s \notin Clear
  BY <1>3 DEF Clear
<1> QED BY <1>2, <1>5, <1>6, <1>7, HandlerGoes

\* The candidate is accepted.
LEMMA CompleteAcceptanceKeeps ==
  ASSUME IInv, NEW p \in Process, CompleteAcceptance(p), UNCHANGED integrationVars
  PROVE  IInv'
<1>2. pc[p] \in Accepting /\ pc[p] \notin Pending
  BY DEF CompleteAcceptance, Ready, Accepting, Pending
<1>3. PICK type \in TerminalEventTypes : type = "TransactionCompleted"
  BY DEF TerminalEventTypes
<1>4. PICK class \in Classes : class = "FEATURE_ACCEPTED"
  BY DEF Classes
<1>5. PICK reference \in References : reference = "none"
  BY DEF References
<1>6. End(p, type, class, reference, "integration_pending")
  BY <1>3, <1>4, <1>5 DEF CompleteAcceptance
<1>7. Deserved(cur[p], class)
  BY <1>4 DEF Deserved, FailedClasses
<1> QED BY <1>2, <1>6, <1>7, EndKeeps

\* The candidate is refused.
LEMMA FailAcceptanceKeeps ==
  ASSUME IInv, NEW p \in Process, FailAcceptance(p), UNCHANGED integrationVars
  PROVE  IInv'
<1>1. pc[p] \in Accepting /\ pc[p] \notin Pending
  BY DEF FailAcceptance, Ready, Accepting, Pending
<1>2. PICK type \in TerminalEventTypes : type = "TransactionBlocked"
  BY DEF TerminalEventTypes
<1>3. PICK class \in Classes : class = "FEATURE_VALIDATION_FAILED"
  BY DEF Classes
<1>4. PICK reference \in References : reference = "other"
  BY DEF References
<1>5. End(p, type, class, reference, "validation_failed")
  BY <1>2, <1>3, <1>4 DEF FailAcceptance
<1>6. Deserved(cur[p], class)
  BY <1>3 DEF Deserved, FailedClasses
<1> QED BY <1>1, <1>5, <1>6, EndKeeps

\* The except clauses of the two callers.
LEMMA FailureKeeps ==
  ASSUME IInv, NEW p \in Process, pc[p] \in Unrecorded \cup Pending,
         NEW raised \in References, Failure(p, raised), UNCHANGED integrationVars,
         pc[p] \in Pending => drift # 0 \/ fact[cur[p]].feature \in Ranged
  PROVE  IInv'
<1>1. Typed /\ CommandOK(p)
  BY DEF IInv
<1>2. pc[p] \in Integrating
  BY DEF Integrating, Pending
<1>3. CASE /\ p \in Delivery \/ ~Recorded(cur[p], "CommitFinalized")
           /\ End(p, "TransactionBlocked",
                  IF p \in Delivery THEN "TERMINAL_INTEGRATION_FAILURE" ELSE "VALIDATION_FAILED",
                  FailureReference(p, raised), "validation_failed")
  <2>1. PICK type \in TerminalEventTypes : type = "TransactionBlocked"
    BY DEF TerminalEventTypes
  <2>2. PICK class \in Classes :
          class = IF p \in Delivery THEN "TERMINAL_INTEGRATION_FAILURE" ELSE "VALIDATION_FAILED"
    BY DEF Classes
  <2>3. PICK reference \in References : reference = FailureReference(p, raised)
    BY DEF FailureReference, References
  <2>4. End(p, type, class, reference, "validation_failed")
    BY <1>3, <2>1, <2>2, <2>3
  <2>5. pc[p] \in Unrecorded => fact[cur[p]].evidence = 0
    BY <1>1 DEF CommandOK
  <2>6. Deserved(cur[p], class)
    BY <2>2, <2>5 DEF Deserved
  <2> QED BY <1>2, <2>4, <2>6, EndKeeps
<1>4. CASE Abandon(p) /\ UNCHANGED <<repository, book, bounds>>
  <2>1. crashes' \in Nat /\ crashes <= crashes' /\ UNCHANGED drift
    BY <1>1, <1>4 DEF Typed, bounds
  <2> QED BY <1>4, <2>1, AbandonKeeps
<1> QED BY <1>3, <1>4 DEF Failure

\* begin_for_branch.
LEMMA StartKeeps ==
  ASSUME IInv, NEW p \in Process, StartIntegration(p)
  PROVE  IInv'
<1>1. Typed /\ CommandOK(p) /\ HandOK(p)
  BY DEF IInv
<1>2. pc[p] = "begun" /\ pc[p] \in Integrating /\ pc[p] \in Working /\ pc[p] \notin Pending
  BY DEF StartIntegration, Ready, Integrating, Unrecorded, Working, Pending
<1>3. UNCHANGED <<repository, book, bounds, integrationVars>>
  BY DEF StartIntegration
<1>4. CASE /\ Goto(p, "started", <<"TransactionStarted", "LeaseAcquired">>)
           /\ UNCHANGED <<lock, cur>>
  <2>1. PICK s \in Working : s = "started"
    BY DEF Working, Integrating, Unrecorded
  <2>2. PICK events \in Seq(EventTypes) : events = <<"TransactionStarted", "LeaseAcquired">>
    <3>1. <<"TransactionStarted", "LeaseAcquired">> \in Seq(EventTypes)
      BY DEF EventTypes
    <3> QED BY <3>1
  <2>3. pc'[p] = "started" /\ cur' = cur /\ fact' = fact
    BY <1>1, <1>3, <1>4 DEF Goto, Typed, book
  <2>4. CommandOK(p)'
    <3>1. /\ fact[cur[p]].kind = "integration" /\ fact[cur[p]].class = "open"
          /\ fact[cur[p]].evidence = 0
          /\ \A a \in Txn : Accepted(a) /\ fact[a].feature = fact[cur[p]].feature
                => fact[a].ver <= fact[cur[p]].ver
      BY <1>1, <1>2 DEF CommandOK, Integrating, Unrecorded
    <3>2. "started" \notin Planned /\ "started" \notin Pending
      BY DEF Planned, Pending
    <3> QED BY <2>3, <3>1, <3>2 DEF CommandOK, Accepted
  <2>5. s # "staged" /\ s \notin Clear
    BY <2>1 DEF Clear
  <2> QED BY <1>2, <1>3, <1>4, <2>1, <2>2, <2>4, <2>5, HandlerGoes
<1>5. CASE Leave(p) /\ lease' = NoTxn /\ holder' = NoProcess
  <2>1. /\ pc' \in [Process -> Steps] /\ todo' \in [Process -> Seq(EventTypes)]
        /\ cur' \in [Process -> Txn \cup {NoTxn}]
        /\ pc'[p] = "idle" /\ Only(p) /\ HandOK(p)' /\ CommandOK(p)'
    BY <1>5, Leaving
  <2>2. Typed'
    BY <1>1, <1>3, <1>5, <2>1 DEF Typed, Steps, repository, book, bounds, integrationVars
  <2>3. /\ UNCHANGED <<milestone, cand, fact, blockers, tree, drift>>
        /\ drift <= drift' /\ crashes <= crashes'
        /\ \A t \in plans' : PlanOK(t)
        /\ \A t \in Txn : Terminated(hist[t]) => Terminated(hist'[t])
    BY <1>1, <1>3 DEF IInv, Typed, repository, book, bounds, integrationVars
  <2>4. \A q \in Process \ {p} : Owns(q) => lease' = lease /\ holder' = holder
    BY <1>1, <1>2, OthersDoNotOwn DEF HandOK
  <2>5. Honest'
    BY <1>2, <2>1, <2>2, <2>3, QuietHonest
  <2>6. Clean'
    BY <2>1, <2>3, CleanStands DEF IInv, Clear
  <2> QED BY <2>1, <2>2, <2>3, <2>4, <2>5, <2>6, QuietStep
<1> QED BY <1>4, <1>5 DEF StartIntegration

\* A handler whose check fails.
LEMMA ActFails ==
  ASSUME IInv, NEW p \in Process, NEW from \in Unrecorded \cup Pending, pc[p] = from,
         Failure(p, "other"), UNCHANGED integrationVars,
         from \in Pending => drift # 0 \/ fact[cur[p]].feature \in Ranged
  PROVE  IInv'
<1>1. PICK raised \in References : raised = "other"
  BY DEF References
<1> QED BY <1>1, FailureKeeps

-----------------------------------------------------------------------------
(* The integration of a feature, up to the pick.                           *)

\* A candidate accepted on a start.
LEMMA AcceptedOnShows ==
  ASSUME IInv, NEW f \in Feature, NEW start, AcceptedOn(f, start)
  PROVE  /\ \E a \in Txn : /\ Accepted(a) /\ fact[a].feature = f /\ fact[a].ver = cand[f].ver
                           /\ fact[a].start = start
         /\ \A a \in Txn : /\ Accepted(a) /\ fact[a].feature = f /\ fact[a].ver = cand[f].ver
                           => fact[a].start = start
         /\ cand[f].ver \in 1..cand[f].ver
         /\ \A a \in Txn : Accepted(a) /\ fact[a].feature = f => fact[a].ver <= cand[f].ver
<1>1. PICK a \in Txn : Acceptances(f, cand[f].ver) = {a} /\ fact[a].start = start
  BY DEF AcceptedOn
<1>2. Accepted(a) /\ fact[a].feature = f /\ fact[a].ver = cand[f].ver
  BY <1>1 DEF Acceptances, Accepted
<1>3. \A u \in Txn : /\ Accepted(u) /\ fact[u].feature = f /\ fact[u].ver = cand[f].ver
                     => fact[u].start = start
  BY <1>1 DEF Acceptances, Accepted
<1>4. \A u \in Txn : fact[u].kind = "acceptance" /\ fact[u].feature = f => fact[u].ver \in 1..cand[f].ver
  BY DEF IInv, EntryOK
<1>5. cand[f].ver \in Nat
  BY DEF IInv, Typed
<1> QED BY <1>1, <1>2, <1>3, <1>4, <1>5 DEF Accepted

\* An integration begins.
LEMMA BeginIntegrationKeeps ==
  ASSUME IInv, NEW p \in Process, NEW t \in Txn, NEW f \in Feature, BeginIntegration(p, t, f)
  PROVE  IInv'
<1>1. Typed
  BY DEF IInv
<1>2. PICK v \in Nat : v = cand[f].ver
  BY <1>1 DEF Typed
<1>3. PICK main \in {TRUE, FALSE} : main = (p \notin Delivery)
  OBVIOUS
<1>4. Tip \in Nat /\ NoTxn \in Txn \cup {NoTxn}
  BY <1>1, Positions
<1> DEFINE e == [NoFact EXCEPT !.kind = "integration", !.main = main, !.feature = f, !.ver = v,
                   !.start = Tip]
<1>5. /\ e \in Fact /\ e.kind = "integration" /\ e.class = "open" /\ e.evidence = 0
      /\ e.feature = f /\ e.ver = v /\ e.start = Tip /\ e.of = NoTxn
  BY <1>2, <1>3, <1>4 DEF NoFact, Fact
<1>6. OpenTransaction(p, t, e)
  BY <1>2, <1>3 DEF BeginIntegration
<1> HIDE DEF e
<1>7. AcceptedOn(f, Tip)
  BY DEF BeginIntegration, InspectTwoRefs
<1>8. /\ e.ver \in 1..cand[e.feature].ver
      /\ \A a \in Txn : Accepted(a) /\ fact[a].feature = e.feature => fact[a].ver <= e.ver
  BY <1>2, <1>5, <1>7, AcceptedOnShows
<1>9. PICK events \in Seq(EventTypes) : events = <<>>
  <2>1. <<>> \in Seq(EventTypes)
    OBVIOUS
  <2> QED BY <2>1
<1>10. Goto(p, "begun", events) /\ UNCHANGED integrationVars
  BY <1>9 DEF BeginIntegration
<1>11. e.feature \in Feature
  BY <1>5
<1> QED BY <1>5, <1>6, <1>8, <1>10, <1>11, OpeningKeeps

\* _recover_integration_finalization begins.
LEMMA RecoverFinalizationKeeps ==
  ASSUME IInv, NEW p \in Process, NEW t \in Txn, RecoverFinalization(p, t)
  PROVE  IInv'
<1>1. Typed
  BY DEF IInv
<1>2. PICK r : r = Refused
  OBVIOUS
<1>3. InspectFinalizationRecovery(r)
  BY <1>2 DEF RecoverFinalization
<1>4. r \in plans /\ r \in Txn /\ fact[r].kind = "integration"
  BY <1>1, <1>3 DEF InspectFinalizationRecovery, IInv, Typed, PlanOK
<1>5. PICK f \in Feature : f = fact[r].feature
  BY <1>4 DEF IInv, EntryOK
<1>6. PICK v \in Nat : v = fact[r].ver
  BY <1>1, <1>4, EntryIsFact
<1>7. v \in 1..cand[f].ver /\ cand[f].ver = v
  BY <1>3, <1>4, <1>5, <1>6 DEF IInv, EntryOK, InspectFinalizationRecovery
<1>8. Tip \in Nat /\ NoTxn \notin Txn
  BY <1>1, Positions, PhaseConstants
<1> DEFINE e == [NoFact EXCEPT !.kind = "integration", !.feature = f, !.ver = v,
                   !.start = Tip, !.of = r]
<1>9. /\ e \in Fact /\ e.kind = "integration" /\ e.class = "open" /\ e.evidence = 0
      /\ e.feature = f /\ e.ver = v /\ e.start = Tip /\ e.of = r
  BY <1>4, <1>6, <1>8 DEF NoFact, Fact
<1>10. OpenTransaction(p, t, e)
  BY <1>2, <1>5, <1>6 DEF RecoverFinalization
<1> HIDE DEF e
<1>11. \A a \in Txn : Accepted(a) /\ fact[a].feature = e.feature => fact[a].ver <= e.ver
  <2>1. \A a \in Txn : fact[a].kind = "acceptance" /\ fact[a].feature = f => fact[a].ver \in 1..cand[f].ver
    BY DEF IInv, EntryOK
  <2> QED BY <1>6, <1>7, <1>9, <2>1 DEF Accepted
<1>12. PICK events \in Seq(EventTypes) : events = <<>>
  <2>1. <<>> \in Seq(EventTypes)
    OBVIOUS
  <2> QED BY <2>1
<1>13. Goto(p, "begun", events) /\ UNCHANGED integrationVars
  BY <1>12 DEF RecoverFinalization
<1>14. e.feature \in Feature /\ e.ver \in 1..cand[e.feature].ver
  BY <1>7, <1>9
<1>15. fact[e.of].kind = "integration" /\ fact[e.of].feature = e.feature /\ fact[e.of].ver = e.ver
  BY <1>4, <1>5, <1>6, <1>9
<1> QED BY <1>9, <1>10, <1>11, <1>13, <1>14, <1>15, OpeningKeeps

\* What every step of an integration knows.
LEMMA IntegratingKnows ==
  ASSUME NEW p \in Process, CommandOK(p), pc[p] \in Integrating
  PROVE  /\ fact[cur[p]].kind = "integration" /\ fact[cur[p]].class = "open"
         /\ \A a \in Txn : Accepted(a) /\ fact[a].feature = fact[cur[p]].feature
               => fact[a].ver <= fact[cur[p]].ver
         /\ pc[p] \in Unrecorded => fact[cur[p]].evidence = 0
BY DEF CommandOK

\* ... and goes on knowing while it makes no commit.
LEMMA GoingOnKnows ==
  ASSUME NEW p \in Process, CommandOK(p), pc[p] \in Unrecorded,
         pc'[p] \in {"snapped", "resumed", "planned", "conflicted"},
         NEW t, t = cur[p], cur'[p] = t, fact' = fact,
         pc'[p] \in {"snapped", "planned"} => fact[t].of = NoTxn,
         pc'[p] = "resumed" => fact[t].of # NoTxn,
         pc'[p] = "planned" => Based(t)'
  PROVE  CommandOK(p)'
<1>1. /\ fact[t].kind = "integration" /\ fact[t].class = "open"
      /\ \A a \in Txn : Accepted(a) /\ fact[a].feature = fact[t].feature
            => fact[a].ver <= fact[t].ver
      /\ fact[t].evidence = 0
  BY IntegratingKnows DEF Integrating
<1>2. /\ pc'[p] # "planned" => pc'[p] \notin Planned
      /\ pc'[p] \notin Pending
      /\ pc'[p] \notin {"picking", "staged", "picked", "marked", "validated", "recorded",
                        "finalized", "failed"}
  BY DEF Planned, Pending
<1> QED BY <1>1, <1>2 DEF CommandOK, Accepted

\* The branch is prepared and the snapshot taken.
LEMMA PrepareKeeps ==
  ASSUME IInv, NEW p \in Process, PrepareBranch(p)
  PROVE  IInv'
<1>1. Typed /\ CommandOK(p)
  BY DEF IInv
<1>2. pc[p] = "started" /\ pc[p] \in Unrecorded /\ pc[p] \in Integrating /\ pc[p] \notin Pending
  BY DEF PrepareBranch, Act, Ready, Integrating, Unrecorded, Pending
<1>3. CASE /\ Goto(p, IF fact[cur[p]].of = NoTxn THEN "snapped" ELSE "resumed", <<"SnapshotCaptured">>)
           /\ UNCHANGED <<repository, book, lock, cur, bounds, integrationVars>>
  <2>1. PICK s \in Working : s = IF fact[cur[p]].of = NoTxn THEN "snapped" ELSE "resumed"
    BY DEF Working, Integrating, Unrecorded
  <2>2. PICK events \in Seq(EventTypes) : events = <<"SnapshotCaptured">>
    <3>1. <<"SnapshotCaptured">> \in Seq(EventTypes)
      BY DEF EventTypes
    <3> QED BY <3>1
  <2>3. pc'[p] = s /\ cur' = cur /\ fact' = fact
    BY <1>1, <1>3, <2>1 DEF Goto, Typed, book
  <2>4. PICK t : t = cur[p]
    OBVIOUS
  <2>5. /\ s \in {"snapped", "resumed"}
        /\ s = "snapped" => fact[t].of = NoTxn
        /\ s = "resumed" => fact[t].of # NoTxn
    BY <2>1, <2>4
  <2>6. CommandOK(p)'
    BY <1>1, <1>2, <2>3, <2>4, <2>5, GoingOnKnows
  <2>7. s # "staged" /\ s \notin Clear
    BY <2>5 DEF Clear
  <2> QED BY <1>2, <1>3, <2>1, <2>2, <2>6, <2>7, HandlerGoes
<1>4. CASE Failure(p, "other") /\ UNCHANGED integrationVars
  BY <1>2, <1>4, ActFails
<1> QED BY <1>3, <1>4 DEF PrepareBranch, Act

\* What the planner and the executor find is what the command began with.  A
\* pick of the version would have had an acceptance made where the milestone
\* was then, and the only one was made where the milestone is now.
LEMMA RefsShow ==
  ASSUME IInv, NEW p \in Process, pc[p] \in {"snapped", "planned"},
         InspectTwoRefs(fact[cur[p]].feature, fact[cur[p]].start),
         NEW t \in Txn, t = cur[p]
  PROVE  /\ fact[t].kind = "integration" /\ fact[t].of = NoTxn
         /\ PickBase(t) = Tip /\ Based(t) /\ Unpicked(fact[t].feature, fact[t].ver)
         /\ \A d \in Dependencies[fact[t].feature] :
               \E j \in 1..PickBase(t) : milestone[j] = Commit("passed", d)
<1>1. Typed /\ CommandOK(p)
  BY DEF IInv
<1>2. pc[p] \in Integrating
  BY DEF Integrating, Unrecorded
<1>3. fact[t].kind = "integration" /\ fact[t].of = NoTxn
  BY <1>1, <1>2 DEF CommandOK
<1>4. PickBase(t) = fact[t].start /\ Tip = fact[t].start
  BY <1>3 DEF PickBase, PlanOf, InspectTwoRefs, RefsMatch
<1>5. PICK f \in Feature : f = fact[t].feature
  BY <1>3 DEF IInv, EntryOK
<1>6. PICK b \in Nat : b = PickBase(t)
  BY <1>1, PickBaseIsNat
<1>7. AcceptedOn(f, b)
  BY <1>4, <1>5, <1>6 DEF InspectTwoRefs
<1>8. PICK a \in Txn : /\ Accepted(a) /\ fact[a].feature = f /\ fact[a].ver = cand[f].ver
                       /\ fact[a].start = b
  BY <1>7, AcceptedOnShows
<1>9. cand[f].ver = fact[t].ver
  <2>1. fact[a].ver <= fact[t].ver
    BY <1>1, <1>2, <1>5, <1>8, IntegratingKnows
  <2>2. fact[t].ver \in 1..cand[f].ver
    BY <1>3, <1>5 DEF IInv, EntryOK
  <2>3. cand[f].ver \in Nat
    BY <1>1 DEF Typed
  <2> QED BY <1>8, <2>1, <2>2, <2>3
<1>10. Based(t)
  BY <1>5, <1>6, <1>8, <1>9 DEF Based
<1>11. Unpicked(f, fact[t].ver)
  <2> SUFFICES ASSUME NEW i \in DOMAIN milestone, milestone[i] = Pick(f, fact[t].ver)
               PROVE  FALSE
    BY DEF Unpicked
  <2>1. /\ milestone[i].kind = "pick" /\ milestone[i].feature = f
        /\ milestone[i].ver = fact[t].ver
    BY DEF Pick
  <2>2. PICK u \in Txn : /\ Accepted(u) /\ fact[u].feature = f /\ fact[u].ver = fact[t].ver
                         /\ fact[u].start < i
    BY <2>1 DEF IInv, PickOK
  <2>3. fact[u].start = b
    BY <1>7, <1>9, <2>2, AcceptedOnShows
  <2>4. i \in 1..b
    BY <1>1, <1>4, <1>6, Positions
  <2> QED BY <2>2, <2>3, <2>4
<1>12. ASSUME NEW d \in Dependencies[f]
       PROVE  \E j \in 1..b : milestone[j] = Commit("passed", d)
  <2>1. QueueStatus(d) = "passed"
    BY <1>5 DEF InspectTwoRefs, DependenciesIntegrated, Integrated
  <2>2. \E j \in DOMAIN milestone : milestone[j] = Commit("passed", d)
    BY <1>1, <2>1, PassedIsRecorded DEF IInv
  <2>3. DOMAIN milestone = 1..b
    BY <1>1, <1>4, <1>6, Positions
  <2> QED BY <2>2, <2>3
<1> QED BY <1>3, <1>4, <1>5, <1>6, <1>10, <1>11, <1>12

\* The plan is persisted.
LEMMA PersistKeeps ==
  ASSUME IInv, NEW p \in Process, PersistPlan(p)
  PROVE  IInv'
<1>1. Typed /\ CommandOK(p) /\ HandOK(p) /\ Clean
  BY DEF IInv
<1>2. pc[p] = "snapped" /\ pc[p] \in Unrecorded /\ pc[p] \in Integrating /\ pc[p] \notin Pending
  BY DEF PersistPlan, Act, Ready, Integrating, Unrecorded, Pending
<1>3. CASE /\ InspectTwoRefs(fact[cur[p]].feature, fact[cur[p]].start)
           /\ plans' = plans \cup {cur[p]}
           /\ Goto(p, "planned", <<>>)
           /\ UNCHANGED <<repository, book, lock, cur, bounds, linked, runtime, blockers>>
  <2>1. PICK s \in Working : s = "planned"
    BY DEF Working, Integrating, Unrecorded
  <2>2. PICK events \in Seq(EventTypes) : events = <<>>
    <3>1. <<>> \in Seq(EventTypes)
      OBVIOUS
    <3> QED BY <3>1
  <2>3. Goto(p, s, events) /\ cur' = cur /\ fact' = fact
    BY <1>3, <2>1, <2>2 DEF book
  <2>4. PICK t \in Txn : t = cur[p]
    BY <1>1, <1>2 DEF HandOK, Unrecorded
  <2>5. fact[t].kind = "integration" /\ fact[t].of = NoTxn /\ Based(t)
    BY <1>2, <1>3, <2>4, RefsShow
  <2>6. s \in Steps /\ pc'[p] = s /\ Only(p)
    <3>1. s \in Steps
      BY DEF Steps
    <3> QED BY <1>1, <2>3, <3>1, Going
  <2>7. CommandOK(p)'
    <3>1. Based(t)'
      BY <2>3, <2>5 DEF Based, Accepted, PickBase, PlanOf
    <3> QED BY <1>1, <1>2, <2>1, <2>3, <2>4, <2>5, <2>6, <3>1, GoingOnKnows
  <2>8. plans' \in SUBSET Txn /\ \A u \in plans' : PlanOK(u)
    BY <1>1, <1>3, <2>4, <2>5 DEF IInv, Typed, PlanOK
  <2>9. /\ UNCHANGED <<milestone, cand, tree, crashes, drift, linked, runtime, blockers>>
        /\ UNCHANGED <<book, lock, cur>>
    BY <1>3 DEF repository, bounds
  <2>10. /\ tree' \in {"clean", "dirty", "staged", "conflict"} /\ drift' \in Nat /\ drift <= drift'
         /\ runtime' \in [plan : Txn \cup {NoTxn}, phase : Phases]
         /\ blockers' \in [Process -> BOOLEAN]
         /\ (\A q \in Process \ {p} : blockers'[q] = blockers[q])
    BY <1>1, <2>9 DEF Typed
  <2>11. Clean'
    BY <1>1, <2>1, <2>6, <2>9, CleanStands DEF Clear
  <2> QED BY <1>2, <2>3, <2>7, <2>8, <2>9, <2>10, <2>11, HandlerStep
<1>4. CASE Failure(p, "other") /\ UNCHANGED integrationVars
  BY <1>2, <1>4, ActFails
<1> QED BY <1>3, <1>4 DEF PersistPlan, Act

\* The executor has compared the plan with the repository.
LEMMA ValidatePlanKeeps ==
  ASSUME IInv, NEW p \in Process, ValidatePlan(p)
  PROVE  IInv'
<1>1. Typed /\ CommandOK(p) /\ HandOK(p) /\ Clean
  BY DEF IInv
<1>2. pc[p] = "planned" /\ pc[p] \in Unrecorded /\ pc[p] \in Integrating /\ pc[p] \notin Pending
  BY DEF ValidatePlan, Act, Ready, Integrating, Unrecorded, Pending
<1>3. CASE /\ InspectTwoRefs(fact[cur[p]].feature, fact[cur[p]].start)
           /\ runtime' = [plan |-> cur[p], phase |-> "validated"]
           /\ Goto(p, "picking", <<>>)
           /\ UNCHANGED <<repository, book, lock, cur, bounds, linked, plans, blockers>>
  <2>1. PICK s \in Working : s = "picking"
    BY DEF Working, Integrating, Unrecorded
  <2>2. PICK events \in Seq(EventTypes) : events = <<>>
    <3>1. <<>> \in Seq(EventTypes)
      OBVIOUS
    <3> QED BY <3>1
  <2>3. Goto(p, s, events) /\ UNCHANGED <<cur, fact, milestone>>
    BY <1>3, <2>1, <2>2 DEF book, repository
  <2>4. PICK t \in Txn : t = cur[p]
    BY <1>1, <1>2 DEF HandOK, Unrecorded
  <2>5. PICK f : f = fact[t].feature
    OBVIOUS
  <2>6. PICK v : v = fact[t].ver
    OBVIOUS
  <2>7. PICK b \in Nat : b = PickBase(t)
    BY <1>1, PickBaseIsNat
  <2>8. /\ fact[t].kind = "integration" /\ fact[t].of = NoTxn
        /\ Based(t) /\ Unpicked(f, v)
        /\ \A d \in Dependencies[f] : \E j \in 1..b : milestone[j] = Commit("passed", d)
    BY <1>2, <1>3, <2>4, <2>5, <2>6, <2>7, RefsShow
  <2>9. /\ fact[t].class = "open" /\ fact[t].evidence = 0
        /\ \A a \in Txn : Accepted(a) /\ fact[a].feature = f => fact[a].ver <= v
    BY <1>1, <1>2, <2>4, <2>5, <2>6, IntegratingKnows
  <2>10. pc'[p] = s /\ Only(p)
    <3>1. s \in Steps
      BY DEF Steps
    <3> QED BY <1>1, <2>3, <3>1, Going
  <2>11. CommandOK(p)'
    <3>1. PickBase(t)' = b /\ Based(t)' /\ Unpicked(f, v)'
      BY <2>3, <2>7, <2>8 DEF PickBase, PlanOf, Based, Accepted, Unpicked
    <3>2. s \notin Pending /\ s # "resumed" /\ s \notin {"recorded", "finalized", "failed"}
          /\ s \notin {"marked", "validated", "recorded", "finalized"} /\ s \notin {"marked", "validated"}
      BY <2>1 DEF Pending
    <3> QED BY <2>1, <2>3, <2>4, <2>5, <2>6, <2>8, <2>9, <2>10, <3>1, <3>2 DEF CommandOK, Accepted
  <2>12. /\ UNCHANGED <<milestone, cand, tree, crashes, drift, linked, plans, blockers>>
         /\ UNCHANGED <<book, lock, cur>>
    BY <1>3 DEF repository, bounds
  <2>13. /\ tree' \in {"clean", "dirty", "staged", "conflict"} /\ drift' \in Nat /\ drift <= drift'
         /\ plans' \in SUBSET Txn /\ (\A u \in plans' : PlanOK(u))
         /\ blockers' \in [Process -> BOOLEAN]
         /\ (\A q \in Process \ {p} : blockers'[q] = blockers[q])
    BY <1>1, <2>12 DEF IInv, Typed
  <2>14. runtime' \in [plan : Txn \cup {NoTxn}, phase : Phases]
    BY <1>3, <2>4 DEF Phases
  <2>15. Clean'
    BY <1>1, <2>1, <2>10, <2>12, CleanStands DEF Clear
  <2> QED BY <1>2, <2>3, <2>11, <2>12, <2>13, <2>14, <2>15, HandlerStep
<1>4. CASE Failure(p, "other") /\ UNCHANGED integrationVars
  BY <1>2, <1>4, ActFails
<1> QED BY <1>3, <1>4 DEF ValidatePlan, Act

\* A conflict is somebody else's doing, and the worktree shows it.
LEMMA CherryPickConflictKeeps ==
  ASSUME IInv, NEW p \in Process, CherryPickConflict(p)
  PROVE  IInv'
<1>1. Typed /\ CommandOK(p) /\ HandOK(p)
  BY DEF IInv
<1>2. pc[p] = "picking" /\ pc[p] \in Unrecorded /\ pc[p] \in Integrating /\ pc[p] \notin Pending
  BY DEF CherryPickConflict, Ready, Integrating, Unrecorded, Pending
<1>3. "conflicted" \in Working
  BY DEF Working, Integrating, Unrecorded
<1>4. PICK events \in Seq(EventTypes) :
        events = <<"DeterministicExecutionStarted", "DeterministicResultAccepted">>
  <2>1. <<"DeterministicExecutionStarted", "DeterministicResultAccepted">> \in Seq(EventTypes)
    BY DEF EventTypes
  <2> QED BY <2>1
<1>5. Goto(p, "conflicted", events)
  BY <1>4 DEF CherryPickConflict
<1>6. /\ pc'[p] = "conflicted" /\ cur' = cur /\ fact' = fact
      /\ UNCHANGED <<milestone, cand, book, lock, cur, crashes, linked, plans, blockers>>
  BY <1>1, <1>5 DEF Goto, Typed, book, CherryPickConflict
<1>7. CommandOK(p)'
  <2>1. PICK t : t = cur[p]
    OBVIOUS
  <2> QED BY <1>1, <1>2, <1>6, <2>1, GoingOnKnows
<1>8. cur[p] \in Txn
  BY <1>1, <1>2 DEF HandOK, Unrecorded
<1>9. /\ tree' \in {"clean", "dirty", "staged", "conflict"} /\ drift' \in Nat /\ drift <= drift' /\ drift' # 0
      /\ runtime' \in [plan : Txn \cup {NoTxn}, phase : Phases]
  BY <1>1, <1>8 DEF CherryPickConflict, Typed, Phases
<1>10. /\ plans' \in SUBSET Txn /\ (\A u \in plans' : PlanOK(u))
       /\ blockers' \in [Process -> BOOLEAN]
       /\ (\A q \in Process \ {p} : blockers'[q] = blockers[q]) /\ Clean'
  BY <1>1, <1>6, <1>9 DEF IInv, Typed, Clean
<1> QED BY <1>2, <1>3, <1>5, <1>6, <1>7, <1>9, <1>10, HandlerStep

-----------------------------------------------------------------------------
(* The commits of an integration.                                          *)

\* A commit adds to the milestone and to the entry of who makes it.
LEMMA CommitAdvances ==
  ASSUME Typed, NEW c \in CommitRecord, milestone' = Append(milestone, c),
         UNCHANGED <<cand, hist, bounds>>, NEW t,
         \A u \in Txn : u # t => fact'[u] = fact[u],
         fact[t].class = "open",
         /\ fact'[t].kind = fact[t].kind /\ fact'[t].feature = fact[t].feature
         /\ fact'[t].ver = fact[t].ver /\ fact'[t].start = fact[t].start
         /\ fact'[t].of = fact[t].of
  PROVE  Advanced
<1>1. /\ \A i \in DOMAIN milestone : milestone'[i] = milestone[i]
      /\ Len(milestone) <= Len(milestone')
  <2>1. Tip' = Tip + 1 /\ Tip \in Nat /\ \A i \in DOMAIN milestone : milestone'[i] = milestone[i]
    BY Appended, Positions
  <2> QED BY <2>1 DEF Tip
<1>2. \A f \in Feature : cand[f].ver <= cand'[f].ver
  BY DEF Typed
<1>3. drift <= drift' /\ crashes <= crashes'
  BY DEF Typed, bounds
<1>4. \A u \in Txn : fact[u].kind # "none" =>
        /\ fact'[u].kind = fact[u].kind /\ fact'[u].feature = fact[u].feature
        /\ fact'[u].ver = fact[u].ver /\ fact'[u].start = fact[u].start
        /\ fact'[u].of = fact[u].of
  OBVIOUS
<1>5. \A u \in Txn : fact[u].class # "open" => fact'[u] = fact[u]
  OBVIOUS
<1> QED BY <1>1, <1>2, <1>3, <1>4, <1>5 DEF Advanced

\* A command commits: it says of its commit what the others are said to be,
\* and the rest stands.
LEMMA CommitKeeps ==
  ASSUME IInv, Typed', NEW p \in Process, pc[p] \in Integrating, pc'[p] \in Integrating,
         cur'[p] = cur[p], todo'[p] = <<>>, Only(p),
         NEW c \in CommitRecord, milestone' = Append(milestone, c),
         UNCHANGED <<cand, hist, lock, bounds, plans>>,
         \A t \in Txn : t # cur[p] => fact'[t] = fact[t],
         fact[cur[p]].class = "open",
         LET t == cur[p] IN
           /\ fact'[t].kind = fact[t].kind /\ fact'[t].feature = fact[t].feature
           /\ fact'[t].ver = fact[t].ver /\ fact'[t].start = fact[t].start
           /\ fact'[t].of = fact[t].of /\ fact'[t].class = fact[t].class
           /\ fact'[t].evidence \in {fact[t].evidence, Tip + 1},
         c.kind # "pick" => c.ver = 0,
         c.kind = "pick" =>
           /\ c.feature \in Feature
           /\ \A i \in DOMAIN milestone : milestone[i] # c
           /\ \E a \in Txn : /\ Accepted(a) /\ fact[a].feature = c.feature
                             /\ fact[a].ver = c.ver /\ fact[a].start <= Tip
           /\ \A d \in Dependencies[c.feature] :
                 \E j \in 1..Tip : milestone[j] = Commit("passed", d),
         c.kind \in MarkKinds => Unended(c.feature),
         Clean', CommandOK(p)', Honest'
  PROVE  IInv'
<1>1. Typed /\ HandOK(p) /\ CommandOK(p)
  BY DEF IInv
<1>2. PICK t \in Txn : t = cur[p]
  BY <1>1 DEF HandOK, Integrating, Unrecorded
<1>3. /\ Tip \in Nat /\ Tip' = Tip + 1 /\ milestone'[Tip + 1] = c /\ DOMAIN milestone = 1..Tip
      /\ DOMAIN milestone' = DOMAIN milestone \cup {Tip + 1}
      /\ \A i \in DOMAIN milestone : milestone'[i] = milestone[i]
  BY <1>1, Positions, Appended
<1>4. fact[t].kind = "integration"
  BY <1>1, <1>2, IntegratingKnows
<1>5. Advanced
  BY <1>1, CommitAdvances
<1>6. \A u \in Txn : EntryOK(u)'
  <2> SUFFICES ASSUME NEW u \in Txn
               PROVE  EntryOK(u)'
    OBVIOUS
  <2>1. EntryOK(u)
    BY DEF IInv
  <2>2. CASE u # t
    BY <1>1, <1>2, <1>5, <2>1, <2>2, EntryStands
  <2>3. CASE u = t
    <3>1. /\ fact[t].feature \in Feature /\ fact[t].ver \in 1..cand[fact[t].feature].ver
          /\ fact[t].start <= Tip /\ fact[t].start \in Nat
      BY <1>1, <1>4, <2>1, <2>3, EntryIsFact DEF EntryOK
    <3>2. /\ fact'[t].kind = "integration" /\ fact'[t].feature = fact[t].feature
          /\ fact'[t].ver = fact[t].ver /\ fact'[t].start = fact[t].start
          /\ fact'[t].of = fact[t].of /\ fact'[t].class = "open"
          /\ fact'[t].evidence \in {fact[t].evidence, Tip + 1}
      BY <1>2, <1>4
    <3>3. /\ fact'[t].feature \in Feature /\ fact'[t].ver \in 1..cand'[fact'[t].feature].ver
          /\ fact'[t].start <= Tip'
      BY <1>3, <3>1, <3>2
    <3>4. fact[t].of # NoTxn =>
            /\ fact'[fact[t].of].kind = "integration"
            /\ fact'[fact[t].of].feature = fact[t].feature
            /\ fact'[fact[t].of].ver = fact[t].ver
      <4>1. fact[t].of # NoTxn =>
              /\ fact[t].of \in Txn /\ fact[fact[t].of].kind = "integration"
              /\ fact[fact[t].of].feature = fact[t].feature
              /\ fact[fact[t].of].ver = fact[t].ver
        BY <1>1, <2>1, <2>3, EntryIsFact DEF EntryOK
      <4> QED BY <1>5, <4>1 DEF Advanced
    <3>5. fact'[t].evidence # 0 =>
            fact'[t].start < fact'[t].evidence /\ fact'[t].evidence <= Tip'
      <4>1. fact[t].evidence # 0 => fact[t].start < fact[t].evidence /\ fact[t].evidence <= Tip
        BY <2>1, <2>3 DEF EntryOK
      <4>2. fact[t].evidence \in Nat
        BY <1>1, EntryIsFact
      <4> QED BY <1>3, <3>1, <3>2, <4>1, <4>2
    <3> QED BY <2>3, <3>2, <3>3, <3>4, <3>5 DEF EntryOK, FailedClasses
  <2> QED BY <2>2, <2>3
<1>7. \A u \in plans' : PlanOK(u)'
  <2> SUFFICES ASSUME NEW u \in plans
               PROVE  PlanOK(u)'
    OBVIOUS
  <2>1. u \in Txn /\ PlanOK(u) /\ EntryOK(u)
    BY <1>1 DEF IInv, Typed
  <2> QED BY <1>1, <1>5, <2>1, PlanStands
<1>8. IntegratedOnce'
  <2> SUFFICES ASSUME NEW i \in DOMAIN milestone', NEW j \in DOMAIN milestone',
                      milestone'[i].kind = "pick", milestone'[j] = milestone'[i]
               PROVE  i = j
    BY DEF IntegratedOnce
  <2>1. CASE i \in DOMAIN milestone /\ j \in DOMAIN milestone
    BY <1>3, <2>1 DEF IInv, IntegratedOnce
  <2>2. CASE i = Tip + 1 /\ j \in DOMAIN milestone
    BY <1>3, <2>2
  <2>3. CASE i \in DOMAIN milestone /\ j = Tip + 1
    BY <1>3, <2>3
  <2> QED BY <1>3, <2>1, <2>2, <2>3
<1>9. \A i \in DOMAIN milestone' : PickOK(i)'
  <2> SUFFICES ASSUME NEW i \in DOMAIN milestone'
               PROVE  PickOK(i)'
    OBVIOUS
  <2>1. CASE i \in DOMAIN milestone
    <3>1. PickOK(i)
      BY <2>1 DEF IInv
    <3> QED BY <1>1, <1>5, <2>1, <3>1, PickStands
  <2>2. CASE i = Tip + 1
    <3>1. milestone'[i] = c /\ i - 1 = Tip
      BY <1>3, <2>2
    <3>2. CASE c.kind # "pick"
      BY <3>1, <3>2 DEF PickOK
    <3>3. CASE c.kind = "pick"
      <4>1. PICK a \in Txn : /\ Accepted(a) /\ fact[a].feature = c.feature
                             /\ fact[a].ver = c.ver /\ fact[a].start <= Tip
        BY <3>3
      <4>2. fact'[a] = fact[a]
        BY <1>5, <4>1 DEF Advanced, Accepted
      <4>3. c.feature \in Feature
        BY <3>3
      <4>4. \A d \in Dependencies[c.feature] :
               \E j \in 1..(i - 1) : milestone'[j] = Commit("passed", d)
        BY <1>3, <3>1, <3>3
      <4>5. fact[a].start < i
        BY <1>1, <1>3, <2>2, <4>1, EntryIsFact
      <4> QED BY <3>1, <3>3, <4>1, <4>2, <4>3, <4>4, <4>5 DEF PickOK, Accepted
    <3> QED BY <3>2, <3>3
  <2> QED BY <1>3, <2>1, <2>2
<1>10. FinalOnce'
  <2> SUFFICES ASSUME NEW i \in DOMAIN milestone', NEW j \in DOMAIN milestone',
                      milestone'[i].kind \in FinalKinds, milestone'[j].kind \in MarkKinds,
                      milestone'[i].feature = milestone'[j].feature
               PROVE  j <= i
    BY DEF FinalOnce
  <2>1. CASE i \in DOMAIN milestone /\ j \in DOMAIN milestone
    BY <1>3, <2>1 DEF IInv, FinalOnce
  <2>2. CASE i = Tip + 1
    BY <1>3, <2>2
  <2>3. CASE i \in DOMAIN milestone /\ j = Tip + 1
    <3>1. milestone'[i] = milestone[i] /\ milestone'[j] = c
      BY <1>3, <2>3
    <3>2. Unended(c.feature) /\ Final(i, c.feature)
      BY <3>1 DEF Final
    <3> QED BY <2>3, <3>2 DEF Unended
  <2> QED BY <1>3, <2>1, <2>2, <2>3
<1>11. ASSUME NEW q \in Process
       PROVE  HandOK(q)' /\ CommandOK(q)'
  <2>1. CASE q = p
    <3>1. HandOK(p)'
      BY <1>1 DEF HandOK, Owns, lock, Working, Integrating, Unrecorded
    <3> QED BY <2>1, <3>1
  <2>2. CASE q # p
    <3>1. pc[p] \in Working
      BY DEF Working
    <3>2. pc[q] \notin Working
      BY <2>2, <3>1, OthersRest
    <3> QED BY <2>2, <3>2, Resting DEF Only
  <2> QED BY <2>1, <2>2
<1> QED BY <1>6, <1>7, <1>8, <1>9, <1>10, <1>11 DEF IInv

\* Passing outcomes when a command commits something else.
LEMMA CommitHonest ==
  ASSUME IInv, Typed', Advanced, NEW p \in Process, pc[p] \notin Pending, Only(p),
         NEW c \in CommitRecord, milestone' = Append(milestone, c), c.kind # "passed",
         cand' = cand
  PROVE  Honest'
<1>1. /\ Tip \in Nat /\ DOMAIN milestone' = DOMAIN milestone \cup {Tip + 1}
      /\ milestone'[Tip + 1] = c
  BY Positions, Appended DEF IInv
<1>2. \A i \in DOMAIN milestone' : milestone'[i].kind = "passed" => i \in DOMAIN milestone
  BY <1>1
<1>3. \A q \in Process : pc[q] \in Pending => pc'[q] \in Pending /\ cur'[q] = cur[q]
  BY DEF Only
<1> QED BY <1>2, <1>3, HonestStands

\* The worktree when p, at work, has done something to it.
LEMMA CleanChanges ==
  ASSUME IInv, NEW p \in Process, pc[p] \in Working, Only(p),
         drift' = 0 => /\ pc'[p] = "staged" => tree' = "staged"
                       /\ pc'[p] \in Clear => tree' = "clean"
  PROVE  Clean'
<1> SUFFICES ASSUME drift' = 0, NEW q \in Process, q # p
             PROVE  pc'[q] # "staged" /\ pc'[q] \notin Clear
  BY DEF Clean
<1>1. pc[q] \notin Working
  BY OthersRest
<1> QED BY <1>1 DEF Only, Working, Integrating, Unrecorded, Clear

\* The change is in the index.
LEMMA CherryPickKeeps ==
  ASSUME IInv, NEW p \in Process, CherryPick(p)
  PROVE  IInv'
<1>1. Typed /\ CommandOK(p) /\ HandOK(p)
  BY DEF IInv
<1>2. /\ pc[p] = "picking" /\ pc[p] \in Working
      /\ pc[p] \in Unrecorded /\ pc[p] \in Integrating /\ pc[p] \notin Pending
  BY DEF CherryPick, Act, Ready, Working, Integrating, Unrecorded, Pending
<1>3. CASE /\ tree' = "staged"
           /\ Goto(p, "staged", <<>>)
           /\ UNCHANGED <<milestone, cand, book, lock, cur, bounds, integrationVars>>
  <2>1. PICK s \in Working : s = "staged"
    BY DEF Working, Integrating, Unrecorded
  <2>2. PICK events \in Seq(EventTypes) : events = <<>>
    <3>1. <<>> \in Seq(EventTypes)
      OBVIOUS
    <3> QED BY <3>1
  <2>3. Goto(p, s, events) /\ UNCHANGED <<cur, fact, milestone>>
    BY <1>3, <2>1, <2>2 DEF book
  <2>4. PICK t \in Txn : t = cur[p]
    BY <1>1, <1>2 DEF HandOK, Unrecorded
  <2>5. PICK f : f = fact[t].feature
    OBVIOUS
  <2>6. PICK v : v = fact[t].ver
    OBVIOUS
  <2>7. PICK b \in Nat : b = PickBase(t)
    BY <1>1, PickBaseIsNat
  <2>8. /\ fact[t].kind = "integration" /\ fact[t].class = "open" /\ fact[t].evidence = 0
        /\ \A a \in Txn : Accepted(a) /\ fact[a].feature = f => fact[a].ver <= v
    BY <1>1, <1>2, <2>4, <2>5, <2>6, IntegratingKnows
  <2>9. fact[t].of = NoTxn /\ Based(t) /\ Unpicked(f, v)
        /\ \A d \in Dependencies[f] : \E j \in 1..b : milestone[j] = Commit("passed", d)
    BY <1>1, <1>2, <2>4, <2>5, <2>6, <2>7 DEF CommandOK, Planned
  <2>10. pc'[p] = s /\ Only(p)
    <3>1. s \in Steps
      BY DEF Steps
    <3> QED BY <1>1, <2>3, <3>1, Going
  <2>11. CommandOK(p)'
    <3>1. PickBase(t)' = b /\ Based(t)' /\ Unpicked(f, v)'
      BY <2>3, <2>7, <2>9 DEF PickBase, PlanOf, Based, Accepted, Unpicked
    <3>2. s \notin Pending /\ s # "resumed" /\ s \notin {"recorded", "finalized", "failed"}
          /\ s \notin {"marked", "validated", "recorded", "finalized"} /\ s \notin {"marked", "validated"}
      BY <2>1 DEF Pending
    <3> QED BY <2>1, <2>3, <2>4, <2>5, <2>6, <2>8, <2>9, <2>10, <3>1, <3>2 DEF CommandOK, Accepted
  <2>12. /\ UNCHANGED <<milestone, cand, crashes, drift, linked, plans, runtime, blockers>>
         /\ UNCHANGED <<book, lock, cur>>
    BY <1>3 DEF bounds, integrationVars
  <2>13. /\ tree' \in {"clean", "dirty", "staged", "conflict"} /\ drift' \in Nat /\ drift <= drift'
         /\ plans' \in SUBSET Txn /\ (\A u \in plans' : PlanOK(u))
         /\ runtime' \in [plan : Txn \cup {NoTxn}, phase : Phases]
         /\ blockers' \in [Process -> BOOLEAN]
         /\ (\A q \in Process \ {p} : blockers'[q] = blockers[q])
    BY <1>1, <1>3, <2>12 DEF IInv, Typed
  <2>14. Clean'
    BY <1>2, <1>3, <2>1, <2>10, CleanChanges DEF Clear
  <2> QED BY <1>2, <2>3, <2>11, <2>12, <2>13, <2>14, HandlerStep
<1>4. CASE Failure(p, "other") /\ UNCHANGED integrationVars
  BY <1>2, <1>4, ActFails
<1> QED BY <1>3, <1>4 DEF CherryPick, Act

\* The implementation is committed, or what somebody put in its place.
LEMMA CommitPickKeeps ==
  ASSUME IInv, NEW p \in Process, CommitPick(p)
  PROVE  IInv'
<1>1. Typed /\ CommandOK(p) /\ HandOK(p) /\ Clean
  BY DEF IInv
<1>2. /\ pc[p] = "staged" /\ todo[p] = <<>> /\ pc[p] \in Working
      /\ pc[p] \in Unrecorded /\ pc[p] \in Integrating /\ pc[p] \notin Pending
  BY DEF CommitPick, Act, Ready, Working, Integrating, Unrecorded, Pending
<1>3. CASE /\ \E c \in {Pick(fact[cur[p]].feature, fact[cur[p]].ver),
                        Commit("outside", NoFeature)} : milestone' = Append(milestone, c)
           /\ tree' = IF tree = "staged" THEN "clean" ELSE tree
           /\ Goto(p, "picked", <<>>)
           /\ UNCHANGED <<cand, book, lock, cur, bounds, integrationVars>>
  <2>1. PICK t \in Txn : t = cur[p]
    BY <1>1, <1>2 DEF HandOK, Unrecorded
  <2>2. /\ fact[t].kind = "integration" /\ fact[t].class = "open" /\ fact[t].evidence = 0
        /\ \A a \in Txn : Accepted(a) /\ fact[a].feature = fact[t].feature
              => fact[a].ver <= fact[t].ver
    BY <1>1, <1>2, <2>1, IntegratingKnows
  <2>3. PICK f \in Feature : f = fact[t].feature
    BY <2>2 DEF IInv, EntryOK
  <2>4. PICK v \in Nat : v = fact[t].ver
    BY <1>1, EntryIsFact
  <2>5. PICK b \in Nat : b = PickBase(t)
    BY <1>1, PickBaseIsNat
  <2>6. /\ fact[t].of = NoTxn /\ Based(t) /\ Unpicked(f, v)
        /\ \A d \in Dependencies[f] : \E j \in 1..b : milestone[j] = Commit("passed", d)
    BY <1>1, <1>2, <2>1, <2>3, <2>4, <2>5 DEF CommandOK, Planned
  <2>7. b <= Tip /\ Tip \in Nat
    <3>1. b = fact[t].start
      BY <2>5, <2>6 DEF PickBase, PlanOf
    <3>2. Tip \in Nat
      BY <1>1, Positions
    <3> QED BY <2>2, <3>1, <3>2 DEF IInv, EntryOK
  <2>8. PICK pick \in CommitRecord : pick = Pick(f, v)
    <3>1. "pick" \in CommitKinds /\ f \in Feature \cup {NoFeature}
      BY DEF CommitKinds
    <3> QED BY <3>1, CommitsAreRecords
  <2>9. PICK other \in CommitRecord : other = Commit("outside", NoFeature)
    <3>1. "outside" \in CommitKinds /\ NoFeature \in Feature \cup {NoFeature} /\ 0 \in Nat
      BY DEF CommitKinds
    <3> QED BY <3>1, CommitsAreRecords
  <2>10. /\ pick.kind = "pick" /\ pick.feature = f /\ pick.ver = v
         /\ other.kind = "outside" /\ other.ver = 0
    BY <2>8, <2>9 DEF Pick, Commit
  <2>11. PICK c \in {pick, other} : milestone' = Append(milestone, c)
    BY <1>3, <2>1, <2>3, <2>4, <2>8, <2>9
  <2>12. /\ c \in CommitRecord /\ c.kind \in {"pick", "outside"} /\ c.kind # "passed"
         /\ c.kind # "pick" => c.ver = 0
         /\ c.kind = "pick" => c = pick /\ c.feature = f /\ c.ver = v
    BY <2>10
  <2>13. PICK s \in Steps : s = "picked"
    BY DEF Steps, Working, Integrating, Unrecorded
  <2>14. /\ pc' \in [Process -> Steps] /\ todo' \in [Process -> Seq(EventTypes)]
         /\ pc'[p] = s /\ todo'[p] = <<>> /\ cur'[p] = cur[p] /\ Only(p)
    <3>1. <<>> \in Seq(EventTypes) /\ cur' = cur
      BY <1>3
    <3>2. Goto(p, s, <<>>)
      BY <1>3, <2>13
    <3> QED BY <1>1, <3>1, <3>2, Going
  <2>15. /\ milestone' \in Seq(CommitRecord) /\ Tip' = Tip + 1 /\ milestone'[Tip + 1] = c
    BY <1>1, <2>11, <2>12, Appended
  <2>16. UNCHANGED <<cand, hist, fact, cur, lease, holder, crashes, drift, plans, runtime,
                     blockers>>
    BY <1>3 DEF book, lock, bounds, integrationVars
  <2>17. tree' \in {"clean", "dirty", "staged", "conflict"}
    BY <1>1, <1>3 DEF Typed
  <2>18. Typed'
    BY <1>1, <2>14, <2>15, <2>16, <2>17 DEF Typed, Steps
  <2>19. c.kind = "pick" =>
           /\ c.feature \in Feature
           /\ \A i \in DOMAIN milestone : milestone[i] # c
           /\ \E a \in Txn : /\ Accepted(a) /\ fact[a].feature = c.feature
                             /\ fact[a].ver = c.ver /\ fact[a].start <= Tip
           /\ \A d \in Dependencies[c.feature] :
                 \E j \in 1..Tip : milestone[j] = Commit("passed", d)
    <3> SUFFICES ASSUME c.kind = "pick"
                 PROVE  /\ c.feature \in Feature
                        /\ \A i \in DOMAIN milestone : milestone[i] # c
                        /\ \E a \in Txn : /\ Accepted(a) /\ fact[a].feature = c.feature
                                          /\ fact[a].ver = c.ver /\ fact[a].start <= Tip
                        /\ \A d \in Dependencies[c.feature] :
                              \E j \in 1..Tip : milestone[j] = Commit("passed", d)
      OBVIOUS
    <3>1. c = Pick(f, v) /\ c.feature = f /\ c.ver = v
      BY <2>8, <2>12
    <3>2. \A i \in DOMAIN milestone : milestone[i] # c
      BY <2>6, <3>1 DEF Unpicked
    <3>3. \E a \in Txn : /\ Accepted(a) /\ fact[a].feature = f
                         /\ fact[a].ver = v /\ fact[a].start <= Tip
      BY <2>3, <2>4, <2>5, <2>6, <2>7 DEF Based
    <3>4. \A d \in Dependencies[f] : \E j \in 1..Tip : milestone[j] = Commit("passed", d)
      BY <2>5, <2>6, <2>7
    <3> QED BY <3>1, <3>2, <3>3, <3>4
  <2>20. Advanced
    BY <1>1, <2>2, <2>11, <2>12, <2>16, CommitAdvances DEF bounds
  <2>21. Honest'
    BY <1>2, <2>11, <2>12, <2>14, <2>16, <2>18, <2>20, CommitHonest
  <2>22. CommandOK(p)'
    <3>1. Based(t)'
      BY <2>6, <2>16 DEF Based, Accepted, PickBase, PlanOf
    <3>2. s \notin Pending /\ s \notin {"picking", "staged"} /\ s # "resumed"
          /\ s \notin {"marked", "validated", "recorded", "finalized"} /\ s \notin {"marked", "validated"}
          /\ s \notin {"recorded", "finalized", "failed"} /\ s # "finalized" /\ s # "failed"
      BY <2>13 DEF Pending
    <3> QED BY <2>1, <2>2, <2>6, <2>14, <2>16, <3>1, <3>2 DEF CommandOK, Accepted
  <2>23. pc'[p] \in Integrating
    BY <2>13, <2>14 DEF Integrating, Unrecorded
  <2>24. UNCHANGED <<cand, hist, lock, bounds, plans>>
    BY <2>16 DEF lock, bounds
  <2>25. "pick" \notin MarkKinds /\ "outside" \notin MarkKinds
    BY DEF MarkKinds, FinalKinds
  <2>26. Clean'
    <3>1. drift' = 0 => tree = "staged"
      BY <1>1, <1>2, <2>16 DEF Clean
    <3>2. s # "staged"
      BY <2>13
    <3> QED BY <1>2, <1>3, <2>14, <3>1, <3>2, CleanChanges
  <2> QED BY <1>2, <2>1, <2>2, <2>11, <2>12, <2>14, <2>16, <2>18, <2>19, <2>21, <2>22, <2>23,
             <2>24, <2>25, <2>26, CommitKeeps
<1>4. CASE Failure(p, "other") /\ UNCHANGED integrationVars
  BY <1>2, <1>4, ActFails
<1> QED BY <1>3, <1>4 DEF CommitPick, Act

\* The feature is marked as being integrated.
LEMMA MarkIntegratingKeeps ==
  ASSUME IInv, NEW p \in Process, MarkIntegrating(p)
  PROVE  IInv'
<1>1. Typed /\ CommandOK(p) /\ HandOK(p) /\ FinalOnce
  BY DEF IInv
<1>2. /\ pc[p] = "picked" /\ todo[p] = <<>>
      /\ pc[p] \in Unrecorded /\ pc[p] \in Integrating /\ pc[p] \notin Pending
  BY DEF MarkIntegrating, Act, Ready, Integrating, Unrecorded, Pending
<1>3. CASE /\ MayMark(p)
           /\ milestone' = Append(milestone, Commit("marking", fact[cur[p]].feature))
           /\ runtime' = [plan |-> cur[p], phase |-> "integrating"]
           /\ Goto(p, "marked", <<>>)
           /\ UNCHANGED <<cand, tree, book, lock, cur, bounds, linked, plans, blockers>>
  <2>1. PICK t \in Txn : t = cur[p]
    BY <1>1, <1>2 DEF HandOK, Unrecorded
  <2>2. /\ fact[t].kind = "integration" /\ fact[t].class = "open" /\ fact[t].evidence = 0
        /\ \A a \in Txn : Accepted(a) /\ fact[a].feature = fact[t].feature
              => fact[a].ver <= fact[t].ver
    BY <1>1, <1>2, <2>1, IntegratingKnows
  <2>3. PICK f \in Feature : f = fact[t].feature
    BY <2>2 DEF IInv, EntryOK
  <2>4. PICK b \in Nat : b = PickBase(t)
    BY <1>1, PickBaseIsNat
  <2>5. fact[t].of = NoTxn /\ Based(t)
    BY <1>1, <1>2, <2>1 DEF CommandOK, Planned
  <2>6. Tip = b + 1 /\ b < Tip /\ milestone[b + 1] = Pick(f, fact[t].ver)
    BY <1>3, <2>1, <2>3, <2>4, <2>5 DEF MayMark, PickBase, PlanOf
  <2>7. Unended(f)
    BY <1>1, <1>3, <2>1, <2>3, MarkableIsUnended DEF MayMark
  <2>8. PICK c \in CommitRecord : c = Commit("marking", f)
    <3>1. "marking" \in CommitKinds /\ f \in Feature \cup {NoFeature} /\ 0 \in Nat
      BY DEF CommitKinds
    <3> QED BY <3>1, CommitsAreRecords
  <2>9. c.kind = "marking" /\ c.feature = f /\ c.ver = 0
    BY <2>8 DEF Commit
  <2>10. milestone' = Append(milestone, c)
    BY <1>3, <2>1, <2>3, <2>8
  <2>11. PICK s \in Steps : s = "marked"
    BY DEF Steps, Working, Integrating, Unrecorded
  <2>12. /\ pc' \in [Process -> Steps] /\ todo' \in [Process -> Seq(EventTypes)]
         /\ pc'[p] = s /\ todo'[p] = <<>> /\ cur'[p] = cur[p] /\ Only(p)
    <3>1. <<>> \in Seq(EventTypes) /\ cur' = cur
      BY <1>3
    <3>2. Goto(p, s, <<>>)
      BY <1>3, <2>11
    <3> QED BY <1>1, <3>1, <3>2, Going
  <2>13. /\ milestone' \in Seq(CommitRecord) /\ Tip' = Tip + 1 /\ milestone'[Tip + 1] = c
         /\ Tip \in Nat /\ DOMAIN milestone = 1..Tip
         /\ DOMAIN milestone' = DOMAIN milestone \cup {Tip + 1}
         /\ \A i \in DOMAIN milestone : milestone'[i] = milestone[i]
    BY <1>1, <2>10, Appended, Positions
  <2>14. UNCHANGED <<cand, tree, hist, fact, cur, lease, holder, crashes, drift, plans, blockers>>
    BY <1>3 DEF book, lock, bounds
  <2>15. Typed'
    <3>1. runtime' \in [plan : Txn \cup {NoTxn}, phase : Phases]
      BY <1>3, <2>1 DEF Phases
    <3> QED BY <1>1, <2>12, <2>13, <2>14, <3>1 DEF Typed, Steps
  <2>16. Advanced
    BY <1>1, <2>2, <2>10, <2>14, CommitAdvances DEF bounds
  <2>17. Honest'
    BY <1>2, <2>9, <2>10, <2>12, <2>14, <2>15, <2>16, CommitHonest
  <2>18. Unended(f)'
    <3> SUFFICES ASSUME NEW i \in DOMAIN milestone'
                 PROVE  ~(milestone'[i].feature = f /\ milestone'[i].kind \in FinalKinds)
      BY DEF Unended, Final
    <3>1. CASE i \in DOMAIN milestone
      BY <2>7, <2>13, <3>1 DEF Unended, Final
    <3>2. CASE i = Tip + 1
      BY <2>9, <2>13, <3>2 DEF FinalKinds
    <3> QED BY <2>13, <3>1, <3>2
  <2>19. CommandOK(p)'
    <3>1. PickBase(t)' = b
      BY <2>4, <2>14 DEF PickBase, PlanOf
    <3>2. /\ s \notin Pending /\ s # "resumed" /\ s \notin {"picking", "staged"}
          /\ s \notin {"snapped", "planned", "picking", "staged", "picked"}
          /\ s \notin {"recorded", "finalized", "failed"} /\ s # "finalized" /\ s # "failed"
      BY <2>11 DEF Pending
    <3>3. b < Tip' /\ milestone'[b + 1] = Pick(f, fact[t].ver) /\ Tip' = b + 2
      BY <2>4, <2>6, <2>13
    <3>4. Based(t)'
      BY <2>5, <2>14 DEF Based, Accepted, PickBase, PlanOf
    <3> QED BY <2>1, <2>2, <2>3, <2>12, <2>14, <2>18, <3>1, <3>2, <3>3, <3>4
         DEF CommandOK, Accepted
  <2>20. pc'[p] \in Integrating
    BY <2>11, <2>12 DEF Integrating, Unrecorded
  <2>21. UNCHANGED <<cand, hist, lock, bounds, plans>>
    BY <2>14 DEF lock, bounds
  <2>22. Clean'
    BY <1>2, <2>12, <2>11, <2>14, CleanStands DEF IInv, Clear
  <2> QED BY <1>2, <2>1, <2>2, <2>7, <2>9, <2>10, <2>12, <2>14, <2>15, <2>17, <2>19, <2>20,
             <2>21, <2>22, CommitKeeps
<1>4. CASE Failure(p, "other") /\ UNCHANGED integrationVars
  BY <1>2, <1>4, ActFails
<1> QED BY <1>3, <1>4 DEF MarkIntegrating, Act

\* Validation only finds or does not find blockers.
LEMMA ValidateKeeps ==
  ASSUME IInv, NEW p \in Process, NEW found \in {TRUE, FALSE}, Validate(p, found)
  PROVE  IInv'
<1>1. Typed /\ CommandOK(p) /\ HandOK(p) /\ Clean
  BY DEF IInv
<1>2. /\ pc[p] = "marked" /\ pc[p] \in Unrecorded /\ pc[p] \in Integrating /\ pc[p] \notin Pending
  BY DEF Validate, Ready, Integrating, Unrecorded, Pending
<1>3. PICK t \in Txn : t = cur[p]
  BY <1>1, <1>2 DEF HandOK, Unrecorded
<1>4. PICK f : f = fact[t].feature
  OBVIOUS
<1>5. PICK b : b = PickBase(t)
  OBVIOUS
<1>6. "validated" \in Working /\ <<>> \in Seq(EventTypes)
  BY DEF Working, Integrating, Unrecorded
<1>7. /\ Goto(p, "validated", <<>>)
      /\ UNCHANGED <<milestone, cand, tree, crashes, drift, linked, plans, runtime>>
      /\ UNCHANGED <<book, lock, cur>>
  BY DEF Validate, repository, bounds
<1>8. pc'[p] = "validated" /\ cur' = cur /\ fact' = fact /\ Only(p)
  <2>1. PICK s \in Steps : s = "validated"
    BY DEF Steps, Working, Integrating, Unrecorded
  <2>2. PICK events \in Seq(EventTypes) : events = <<>>
    <3>1. <<>> \in Seq(EventTypes)
      OBVIOUS
    <3> QED BY <3>1
  <2>3. Goto(p, s, events) /\ cur' = cur
    BY <1>7, <2>1, <2>2
  <2> QED BY <1>1, <1>7, <2>1, <2>3, Going DEF book
<1>9. /\ fact[t].kind = "integration" /\ fact[t].class = "open" /\ fact[t].evidence = 0
      /\ \A a \in Txn : Accepted(a) /\ fact[a].feature = f => fact[a].ver <= fact[t].ver
  BY <1>1, <1>2, <1>3, <1>4, IntegratingKnows
<1>10. /\ b < Tip /\ milestone[b + 1] = Pick(f, fact[t].ver) /\ Unended(f) /\ Based(t)
       /\ drift = 0 => Tip = b + 2
  BY <1>1, <1>2, <1>3, <1>4, <1>5 DEF CommandOK, Planned
<1>11. Unended(f)'
  BY <1>7, <1>10 DEF Unended, Final
<1>12. CommandOK(p)'
  <2>1. PickBase(t)' = b /\ Tip' = Tip
    BY <1>5, <1>7, <1>8 DEF PickBase, PlanOf, Tip
  <2>2. "validated" \notin Pending
    BY DEF Pending
  <2>3. Based(t)'
    BY <1>8, <1>10 DEF Based, Accepted, PickBase, PlanOf
  <2> QED BY <1>3, <1>4, <1>7, <1>8, <1>9, <1>10, <1>11, <2>1, <2>2, <2>3 DEF CommandOK, Accepted
<1>13. /\ tree' \in {"clean", "dirty", "staged", "conflict"} /\ drift' \in Nat /\ drift <= drift'
       /\ plans' \in SUBSET Txn /\ (\A u \in plans' : PlanOK(u))
       /\ runtime' \in [plan : Txn \cup {NoTxn}, phase : Phases]
  BY <1>1, <1>7 DEF IInv, Typed
<1>14. /\ blockers' \in [Process -> BOOLEAN]
       /\ \A q \in Process \ {p} : blockers'[q] = blockers[q]
  BY <1>1 DEF Validate, Typed
<1>15. Clean'
  BY <1>1, <1>2, <1>7, <1>8, CleanStands DEF Clear
<1> QED BY <1>2, <1>6, <1>7, <1>12, <1>13, <1>14, <1>15, HandlerStep

\* A refused command is a failure of its own kind.
LEMMA RefuseCommandKeeps ==
  ASSUME IInv, NEW p \in Process, RefuseCommand(p)
  PROVE  IInv'
<1>1. pc[p] \in Unrecorded \cup Pending /\ pc[p] \notin Pending
  BY DEF RefuseCommand, Ready, Unrecorded, Pending
<1>2. PICK raised \in References : raised = "SafetyViolation"
  BY DEF References
<1>3. Failure(p, raised) /\ UNCHANGED integrationVars
  BY <1>2 DEF RefuseCommand
<1> QED BY <1>1, <1>2, <1>3, FailureKeeps

\* A passing outcome that a command records is the command's to account for.
LEMMA RecordingHonest ==
  ASSUME IInv, NEW p \in Process, pc[p] = "validated", pc'[p] = "recorded", cur'[p] = cur[p],
         Only(p), Advanced, drift' = drift, crashes' = crashes, cand' = cand,
         NEW c \in CommitRecord, milestone' = Append(milestone, c),
         c.feature = fact[cur[p]].feature,
         \A u \in Txn : fact'[u].feature = fact[u].feature
  PROVE  Honest'
<1>1. Typed /\ HandOK(p)
  BY DEF IInv
<1>2. /\ Tip \in Nat /\ DOMAIN milestone' = DOMAIN milestone \cup {Tip + 1}
      /\ milestone'[Tip + 1] = c
      /\ \A i \in DOMAIN milestone : milestone'[i] = milestone[i]
  BY <1>1, Positions, Appended
<1>3. cur[p] \in Txn
  BY <1>1 DEF HandOK
<1> SUFFICES ASSUME crashes = 0, drift = 0, NEW i \in DOMAIN milestone',
                    milestone'[i].kind = "passed", NEW f \in Feature \ Ranged,
                    milestone'[i].feature = f
             PROVE  Accounted(f)'
  BY DEF Honest, Accounted
<1>4. CASE i = Tip + 1
  <2>1. fact'[cur'[p]].feature = f
    BY <1>2, <1>3, <1>4
  <2> QED BY <2>1 DEF Accounted, Pending
<1>5. CASE i \in DOMAIN milestone
  <2>1. Accounted(f)
    BY <1>2, <1>5 DEF IInv, Honest, Accounted
  <2>2. CASE cand[f].ver = 0
    BY <2>2 DEF Accounted
  <2>3. CASE \E t \in Txn : fact[t].feature = f /\ fact[t].class = "INTEGRATED"
    BY <2>3 DEF Accounted, Advanced
  <2>4. CASE \E q \in Process : pc[q] \in Pending /\ fact[cur[q]].feature = f
    <3>1. PICK q \in Process : pc[q] \in Pending /\ fact[cur[q]].feature = f
      BY <2>4
    <3>2. q # p /\ HandOK(q) /\ pc[q] # "idle"
      BY <3>1 DEF Pending, IInv
    <3>3. pc'[q] = pc[q] /\ cur'[q] = cur[q] /\ cur[q] \in Txn
      BY <3>2 DEF Only, HandOK
    <3> QED BY <3>1, <3>3 DEF Accounted
  <2> QED BY <2>1, <2>2, <2>3, <2>4 DEF Accounted
<1> QED BY <1>2, <1>4, <1>5

\* The outcome is committed.
LEMMA RecordFinalMetadataKeeps ==
  ASSUME IInv, NEW p \in Process, RecordFinalMetadata(p)
  PROVE  IInv'
<1>1. Typed /\ CommandOK(p) /\ HandOK(p)
  BY DEF IInv
<1>2. /\ pc[p] = "validated" /\ todo[p] = <<>>
      /\ pc[p] \in Unrecorded /\ pc[p] \in Integrating /\ pc[p] \notin Pending
  BY DEF RecordFinalMetadata, Ready, Integrating, Unrecorded, Pending
<1>3. PICK t \in Txn : t = cur[p]
  BY <1>1, <1>2 DEF HandOK, Unrecorded
<1>4. /\ fact[t].kind = "integration" /\ fact[t].class = "open" /\ fact[t].evidence = 0
      /\ \A a \in Txn : Accepted(a) /\ fact[a].feature = fact[t].feature
            => fact[a].ver <= fact[t].ver
  BY <1>1, <1>2, <1>3, IntegratingKnows
<1>5. PICK f \in Feature : f = fact[t].feature
  BY <1>4 DEF IInv, EntryOK
<1>6. PICK v \in Nat : v = fact[t].ver
  BY <1>1, EntryIsFact
<1>7. PICK b \in Nat : b = PickBase(t)
  BY <1>1, PickBaseIsNat
<1>8. /\ b < Tip /\ milestone[b + 1] = Pick(f, v) /\ Unended(f) /\ Based(t)
      /\ drift = 0 => Tip = b + 2
  BY <1>1, <1>2, <1>3, <1>5, <1>6, <1>7 DEF CommandOK, Planned
<1>9. PICK k \in FinalKinds : k = Outcome(p)
  BY DEF Outcome, FinalKinds
<1>10. PICK c \in CommitRecord : c = Commit(k, f)
  <2>1. k \in CommitKinds /\ f \in Feature \cup {NoFeature} /\ 0 \in Nat
    BY DEF CommitKinds, FinalKinds
  <2> QED BY <2>1, CommitsAreRecords
<1>11. c.kind = k /\ c.kind # "pick" /\ c.feature = f /\ c.ver = 0
  BY <1>10 DEF Commit, FinalKinds
<1>12. milestone' = Append(milestone, c)
  BY <1>3, <1>5, <1>9, <1>10 DEF RecordFinalMetadata
<1>13. /\ Goto(p, "recorded", <<>>)
       /\ UNCHANGED <<cand, tree, hist, ended, state, current, lock, cur, bounds, linked, plans,
                      blockers>>
  BY DEF RecordFinalMetadata
<1>14. PICK s \in Steps : s = "recorded"
  BY DEF Steps, Working, Integrating, Unrecorded
<1>15. /\ pc' \in [Process -> Steps] /\ todo' \in [Process -> Seq(EventTypes)]
       /\ pc'[p] = s /\ todo'[p] = <<>> /\ cur'[p] = cur[p] /\ Only(p)
  <2>1. <<>> \in Seq(EventTypes) /\ cur' = cur
    BY <1>13
  <2>2. Goto(p, s, <<>>)
    BY <1>13, <1>14
  <2> QED BY <1>1, <2>1, <2>2, Going
<1>16. /\ milestone' \in Seq(CommitRecord) /\ Tip' = Tip + 1 /\ milestone'[Tip + 1] = c
       /\ Tip \in Nat /\ DOMAIN milestone = 1..Tip
       /\ \A i \in DOMAIN milestone : milestone'[i] = milestone[i]
  BY <1>1, <1>12, Appended, Positions
<1>17. UNCHANGED <<cand, tree, hist, cur, lease, holder, crashes, drift, plans, blockers>>
  BY <1>13 DEF lock, bounds
<1> DEFINE e == [fact[t] EXCEPT !.evidence = Tip + 1]
<1>18. /\ e \in Fact /\ e.kind = fact[t].kind /\ e.feature = f /\ e.ver = v
       /\ e.start = fact[t].start /\ e.of = fact[t].of /\ e.class = "open"
       /\ e.evidence = Tip + 1
  <2>1. fact[t] \in Fact /\ Tip + 1 \in Nat
    BY <1>1, <1>16, EntryIsFact
  <2> QED BY <1>4, <1>5, <1>6, <2>1 DEF Fact
<1>19. fact'[t] = e /\ fact' \in [Txn -> Fact] /\ \A u \in Txn : u # t => fact'[u] = fact[u]
  <2>1. fact' = [fact EXCEPT ![t] = e]
    BY <1>3 DEF RecordFinalMetadata
  <2> HIDE DEF e
  <2> QED BY <1>1, <1>18, <2>1 DEF Typed
<1> HIDE DEF e
<1>20. Typed'
  <2>1. runtime' \in [plan : Txn \cup {NoTxn}, phase : Phases]
    <3>1. PlanOf(t) \in Txn \cup {NoTxn}
      BY <1>1, EntryIsFact DEF PlanOf
    <3>2. runtime' = [plan |-> PlanOf(t), phase |-> IF blockers[p] THEN "validation_failed" ELSE "complete"]
      BY <1>3 DEF RecordFinalMetadata
    <3> QED BY <3>1, <3>2 DEF Phases
  <2> QED BY <1>1, <1>15, <1>16, <1>17, <1>19, <2>1 DEF Typed, Steps
<1>21. /\ fact'[t].kind = fact[t].kind /\ fact'[t].feature = fact[t].feature
       /\ fact'[t].ver = fact[t].ver /\ fact'[t].start = fact[t].start
       /\ fact'[t].of = fact[t].of /\ fact'[t].class = fact[t].class
       /\ fact'[t].evidence = Tip + 1
  BY <1>4, <1>5, <1>6, <1>18, <1>19
<1>22. Advanced
  BY <1>1, <1>4, <1>12, <1>17, <1>19, <1>21, CommitAdvances DEF bounds
<1>23. Honest'
  <2>1. \A u \in Txn : fact'[u].feature = fact[u].feature
    BY <1>19, <1>21
  <2> QED BY <1>2, <1>3, <1>5, <1>11, <1>12, <1>14, <1>15, <1>17, <1>22, <2>1, RecordingHonest
<1>24. CommandOK(p)'
  <2>1. PickBase(t)' = b
    BY <1>1, <1>4, <1>7, <1>22, PickBaseStands DEF IInv
  <2>2. /\ s \notin Unrecorded
        /\ s \notin {"snapped", "planned", "picking", "staged", "picked", "resumed", "marked",
                     "validated", "finalized", "failed"}
    BY <1>14 DEF Unrecorded
  <2>3. /\ b < Tip' /\ milestone'[b + 1] = Pick(f, v)
        /\ fact'[t].evidence # 0 /\ milestone'[fact'[t].evidence] = Commit(Outcome(p)', f)
    BY <1>7, <1>8, <1>9, <1>10, <1>16, <1>17, <1>21 DEF Outcome
  <2>4. drift' = 0 => Tip' = fact'[t].evidence /\ fact'[t].evidence = b + 3
    BY <1>7, <1>8, <1>16, <1>17, <1>21
  <2>5. \A a \in Txn : Accepted(a)' /\ fact'[a].feature = f => fact'[a].ver <= v
    <3>1. \A a \in Txn : Accepted(a)' => Accepted(a) /\ fact'[a] = fact[a]
      BY <1>4, <1>19, <1>21 DEF Accepted
    <3> QED BY <1>4, <1>5, <1>6, <3>1
  <2>6. fact'[t].feature = f /\ fact'[t].ver = v /\ fact'[t].kind = "integration"
        /\ fact'[t].class = "open"
    BY <1>4, <1>5, <1>6, <1>21
  <2>7. pc'[p] = "recorded" /\ cur'[p] = t
    BY <1>3, <1>14, <1>15
  <2>8. Based(t)'
    BY <1>1, <1>4, <1>8, <1>22, BasedStands DEF IInv
  <2> QED BY <1>14, <2>1, <2>2, <2>3, <2>4, <2>5, <2>6, <2>7, <2>8 DEF CommandOK
<1>25. pc'[p] \in Integrating
  BY <1>14, <1>15 DEF Integrating
<1>26. UNCHANGED <<cand, hist, lock, bounds, plans>>
  BY <1>17 DEF lock, bounds
<1>27. Clean'
  BY <1>2, <1>14, <1>15, <1>17, CleanStands DEF IInv, Clear
<1> QED BY <1>2, <1>3, <1>4, <1>8, <1>11, <1>12, <1>15, <1>19, <1>20, <1>21, <1>23, <1>24, <1>25,
           <1>26, <1>27, CommitKeeps

-----------------------------------------------------------------------------
(* The end of an integration.                                              *)

\* What an integration knows of its outcome.
LEMMA OutcomeKnows ==
  ASSUME IInv, NEW p \in Process, pc[p] \in {"recorded", "finalized", "failed"},
         NEW t, t = cur[p]
  PROVE  /\ t \in Txn /\ Owns(p) /\ fact[t].kind = "integration" /\ fact[t].class = "open"
         /\ \A a \in Txn : Accepted(a) /\ fact[a].feature = fact[t].feature
               => fact[a].ver <= fact[t].ver
         /\ fact[t].evidence # 0
         /\ milestone[fact[t].evidence] = Commit(Outcome(p), fact[t].feature)
         /\ pc[p] \in Pending =>
              /\ Based(t) /\ PickBase(t) < Tip
              /\ milestone[PickBase(t) + 1] = Pick(fact[t].feature, fact[t].ver)
         /\ pc[p] \in Pending /\ drift = 0 =>
              Tip = fact[t].evidence /\ fact[t].evidence = PickBase(t) + 3
         /\ pc[p] = "finalized" => ~blockers[p]
         /\ pc[p] = "failed" => blockers[p]
<1>1. pc[p] \in Integrating /\ pc[p] \in Working /\ pc[p] # "idle"
  BY DEF Integrating, Working
<1>2. HandOK(p) /\ CommandOK(p)
  BY DEF IInv
<1>3. t \in Txn /\ Owns(p)
  BY <1>1, <1>2 DEF HandOK
<1>4. /\ fact[t].kind = "integration" /\ fact[t].class = "open"
      /\ \A a \in Txn : Accepted(a) /\ fact[a].feature = fact[t].feature
            => fact[a].ver <= fact[t].ver
  BY <1>1, <1>2, IntegratingKnows
<1> QED BY <1>2, <1>3, <1>4 DEF CommandOK, Pending, Planned

\* The outcome is accepted as the result of the session.
LEMMA AcceptResultKeeps ==
  ASSUME IInv, NEW p \in Process, AcceptResult(p)
  PROVE  IInv'
<1>1. Typed /\ FinalOnce /\ Clean
  BY DEF IInv
<1>2. pc[p] = "recorded" /\ pc[p] \in Integrating /\ pc[p] \in Pending
  BY DEF AcceptResult, Act, Ready, Integrating, Pending
<1>3. PICK t : t = cur[p]
  OBVIOUS
<1>4. /\ t \in Txn /\ Owns(p) /\ fact[t].kind = "integration" /\ fact[t].class = "open"
      /\ \A a \in Txn : Accepted(a) /\ fact[a].feature = fact[t].feature
            => fact[a].ver <= fact[t].ver
      /\ fact[t].evidence # 0
      /\ milestone[fact[t].evidence] = Commit(Outcome(p), fact[t].feature)
      /\ Based(t) /\ PickBase(t) < Tip
      /\ milestone[PickBase(t) + 1] = Pick(fact[t].feature, fact[t].ver)
      /\ drift = 0 => Tip = fact[t].evidence /\ fact[t].evidence = PickBase(t) + 3
  BY <1>2, <1>3, OutcomeKnows
<1> DEFINE following == <<"DeterministicExecutionStarted", "DeterministicResultAccepted",
                          "ValidationStarted">>
                        \o IF blockers[p] THEN <<"ValidationFailed">>
                           ELSE <<"ValidationPassed", "CommitFinalized">>
           step == IF blockers[p] THEN "failed" ELSE "finalized"
<1>5. CASE /\ Goto(p, step, following)
           /\ UNCHANGED <<repository, book, lock, cur, bounds, integrationVars>>
  <2>1. PICK s \in Working : s = step
    BY DEF Working, Integrating
  <2>2. PICK events \in Seq(EventTypes) : events = following
    <3>1. /\ <<"DeterministicExecutionStarted", "DeterministicResultAccepted",
               "ValidationStarted">> \in Seq(EventTypes)
          /\ <<"ValidationFailed">> \in Seq(EventTypes)
          /\ <<"ValidationPassed", "CommitFinalized">> \in Seq(EventTypes)
      BY DEF EventTypes
    <3>2. following \in Seq(EventTypes)
      BY <3>1
    <3> QED BY <3>2
  <2>3. pc'[p] = s /\ cur' = cur /\ fact' = fact /\ milestone' = milestone
        /\ blockers' = blockers /\ drift' = drift
    BY <1>1, <1>5, <2>1 DEF Goto, Typed, book, repository, integrationVars, bounds
  <2>4. CommandOK(p)'
    <3>1. /\ s \notin Unrecorded
          /\ s \notin {"snapped", "planned", "picking", "staged", "picked", "resumed", "marked",
                       "validated", "recorded"}
      BY <2>1 DEF Unrecorded
    <3>2. PickBase(t)' = PickBase(t) /\ Tip' = Tip /\ Outcome(p)' = Outcome(p)
      BY <2>3 DEF PickBase, PlanOf, Tip, Outcome
    <3>3. s = "failed" => blockers'[p]
      BY <2>1, <2>3
    <3>4. s = "finalized" => ~blockers'[p]
      BY <2>1, <2>3
    <3>5. cur'[p] = t
      BY <1>3, <2>3
    <3>6. /\ fact'[t].evidence # 0
          /\ milestone'[fact'[t].evidence] = Commit(Outcome(p)', fact'[t].feature)
          /\ PickBase(t)' < Tip'
          /\ milestone'[PickBase(t)' + 1] = Pick(fact'[t].feature, fact'[t].ver)
          /\ drift' = 0 => Tip' = fact'[t].evidence /\ fact'[t].evidence = PickBase(t)' + 3
      BY <1>4, <2>3, <3>2
    <3>7. /\ fact'[t].kind = "integration" /\ fact'[t].class = "open"
          /\ \A a \in Txn : Accepted(a)' /\ fact'[a].feature = fact'[t].feature
                => fact'[a].ver <= fact'[t].ver
      BY <1>4, <2>3 DEF Accepted
    <3>8. Based(t)'
      BY <1>4, <2>3 DEF Based, Accepted, PickBase, PlanOf
    <3> QED BY <2>3, <3>1, <3>3, <3>4, <3>5, <3>6, <3>7, <3>8 DEF CommandOK
  <2>5. (\E i \in DOMAIN milestone :
            milestone[i].kind = "passed" /\ milestone[i].feature = fact[cur[p]].feature)
        => s \in Pending
    <3> SUFFICES ASSUME NEW i \in DOMAIN milestone, milestone[i].kind = "passed",
                        milestone[i].feature = fact[t].feature, blockers[p]
                 PROVE  FALSE
      BY <1>3, <2>1 DEF Pending
    <3>1. PICK j : j = fact[t].evidence
      OBVIOUS
    <3>2. milestone[j].kind = "failed" /\ milestone[j].feature = fact[t].feature
      BY <1>4, <3>1 DEF Commit, Outcome
    <3>3. j \in DOMAIN milestone /\ i \in Nat /\ j \in Nat
      <4>1. j <= Tip /\ j \in Nat /\ j # 0
        BY <1>1, <1>4, <3>1, EntryIsFact DEF IInv, EntryOK
      <4> QED BY <1>1, <4>1, Positions
    <3>4. i <= j /\ j <= i
      BY <1>1, <3>2, <3>3 DEF FinalOnce, FinalKinds, MarkKinds
    <3> QED BY <3>2, <3>3, <3>4
  <2>6. Goto(p, s, events)
    BY <1>5, <2>1, <2>2
  <2>7. s # "staged" /\ pc[p] \in Clear
    BY <1>2, <2>1 DEF Clear
  <2> QED BY <1>2, <1>5, <2>4, <2>5, <2>6, <2>7, HandlerGoes
<1>6. CASE Failure(p, "other") /\ UNCHANGED integrationVars /\ ~(Owns(p) /\ tree = "clean")
  <2>1. drift # 0
    BY <1>1, <1>2, <1>4, <1>6 DEF Clean, Clear
  <2> QED BY <1>2, <1>6, <2>1, ActFails
<1> QED BY <1>5, <1>6 DEF AcceptResult, Act

\* The transaction of a completed integration ends.
LEMMA CompleteIntegrationKeeps ==
  ASSUME IInv, NEW p \in Process, CompleteIntegration(p)
  PROVE  IInv'
<1>1. Typed /\ Clean
  BY DEF IInv
<1>2. pc[p] = "finalized" /\ pc[p] \in Integrating /\ pc[p] \in Pending
  BY DEF CompleteIntegration, Act, Ready, Integrating, Pending
<1>3. PICK t : t = cur[p]
  OBVIOUS
<1>4. /\ t \in Txn /\ Owns(p) /\ fact[t].kind = "integration"
      /\ fact[t].evidence # 0
      /\ milestone[fact[t].evidence] = Commit(Outcome(p), fact[t].feature)
      /\ Based(t) /\ PickBase(t) < Tip
      /\ milestone[PickBase(t) + 1] = Pick(fact[t].feature, fact[t].ver)
      /\ drift = 0 => Tip = fact[t].evidence /\ fact[t].evidence = PickBase(t) + 3
      /\ ~blockers[p]
  BY <1>2, <1>3, OutcomeKnows
<1>5. CASE /\ End(p, "TransactionCompleted", "INTEGRATED", "none",
                  IF MilestoneComplete THEN "milestone_gate" ELSE "feature_ready")
           /\ UNCHANGED integrationVars
  <2>1. PICK type \in TerminalEventTypes : type = "TransactionCompleted"
    BY DEF TerminalEventTypes
  <2>2. PICK class \in Classes : class = "INTEGRATED"
    BY DEF Classes
  <2>3. PICK reference \in References : reference = "none"
    BY DEF References
  <2>4. PICK next : next = IF MilestoneComplete THEN "milestone_gate" ELSE "feature_ready"
    OBVIOUS
  <2>5. End(p, type, class, reference, next)
    BY <1>5, <2>1, <2>2, <2>3, <2>4
  <2>6. Deserved(cur[p], class)
    BY <1>3, <1>4, <2>2 DEF Deserved, Outcome, FailedClasses
  <2> QED BY <1>2, <1>5, <2>2, <2>5, <2>6, EndKeeps
<1>6. CASE Failure(p, "other") /\ UNCHANGED integrationVars /\ ~TerminalRepository(p)
  <2>1. drift # 0 \/ fact[t].feature \in Ranged
    BY <1>1, <1>2, <1>3, <1>4, <1>6 DEF Clean, Clear, TerminalRepository
  <2> QED BY <1>2, <1>3, <1>6, <2>1, ActFails
<1> QED BY <1>5, <1>6 DEF CompleteIntegration, Act

\* A conflict goes to a human.
LEMMA BlockConflictKeeps ==
  ASSUME IInv, NEW p \in Process, BlockConflict(p)
  PROVE  IInv'
<1>1. pc[p] \in Integrating /\ pc[p] \notin Pending
  BY DEF BlockConflict, Ready, Integrating, Unrecorded, Pending
<1>2. PICK type \in TerminalEventTypes : type = "HumanGateRaised"
  BY DEF TerminalEventTypes
<1>3. PICK class \in Classes : class = "SEMANTIC_CONFLICT"
  BY DEF Classes
<1>4. PICK reference \in References : reference = "none"
  BY DEF References
<1>5. End(p, type, class, reference, "human_decision_required") /\ UNCHANGED integrationVars
  BY <1>2, <1>3, <1>4 DEF BlockConflict
<1>6. Deserved(cur[p], class)
  BY <1>3 DEF Deserved, FailedClasses
<1> QED BY <1>1, <1>5, <1>6, EndKeeps

\* A recorded failure blocks.
LEMMA BlockFailedKeeps ==
  ASSUME IInv, NEW p \in Process, BlockFailed(p)
  PROVE  IInv'
<1>1. pc[p] = "failed" /\ pc[p] \in Integrating /\ pc[p] \notin Pending
  BY DEF BlockFailed, Ready, Integrating, Pending
<1>2. PICK type \in TerminalEventTypes : type = "TransactionBlocked"
  BY DEF TerminalEventTypes
<1>3. PICK class \in Classes : class = "VALIDATION_FAILED"
  BY DEF Classes
<1>4. PICK reference \in References : reference = "validation"
  BY DEF References
<1>5. End(p, type, class, reference, "validation_failed") /\ UNCHANGED integrationVars
  BY <1>2, <1>3, <1>4 DEF BlockFailed
<1>6. PICK t : t = cur[p]
  OBVIOUS
<1>7. milestone[fact[t].evidence] = Commit(Outcome(p), fact[t].feature) /\ blockers[p]
  BY <1>1, <1>6, OutcomeKnows
<1>8. Deserved(cur[p], class)
  BY <1>3, <1>6, <1>7 DEF Deserved, Outcome, Commit
<1> QED BY <1>1, <1>5, <1>8, EndKeeps

\* A resumed integration finds its commits where the refused one left them.
LEMMA ResumeFinalizationKeeps ==
  ASSUME IInv, NEW p \in Process, ResumeFinalization(p)
  PROVE  IInv'
<1>1. Typed /\ CommandOK(p) /\ HandOK(p) /\ FinalOnce
  BY DEF IInv
<1>2. pc[p] = "resumed" /\ pc[p] \in Unrecorded /\ pc[p] \in Integrating /\ pc[p] \notin Pending
  BY DEF ResumeFinalization, Act, Ready, Integrating, Unrecorded, Pending
<1>3. CASE /\ InspectFinalizationRecovery(fact[cur[p]].of)
           /\ Goto(p, "marked", <<>>)
           /\ UNCHANGED <<repository, book, lock, cur, bounds, integrationVars>>
  <2>1. PICK t \in Txn : t = cur[p]
    BY <1>1, <1>2 DEF HandOK, Unrecorded
  <2>2. PICK f : f = fact[t].feature
    OBVIOUS
  <2>3. PICK r \in Txn : r = fact[t].of
    BY <1>1, <1>2, <2>1, EntryIsFact DEF CommandOK
  <2>4. fact[t].of # NoTxn /\ fact[r].feature = f /\ fact[r].ver = fact[t].ver
    BY <1>1, <1>2, <2>1, <2>2, <2>3 DEF CommandOK, IInv, EntryOK
  <2>5. PICK b \in Nat : b = fact[r].start
    BY <1>1, EntryIsFact
  <2>6. PickBase(t) = b
    BY <2>3, <2>4, <2>5 DEF PickBase, PlanOf
  <2>7. /\ Tip = b + 2 /\ milestone[Tip] = Commit("marking", f)
        /\ milestone[Tip - 1] = Pick(f, fact[t].ver)
    BY <1>3, <2>1, <2>3, <2>4, <2>5 DEF InspectFinalizationRecovery
  <2>8. b < Tip /\ milestone[b + 1] = Pick(f, fact[t].ver) /\ Based(t) /\ tree = "clean"
    <3>1. r \in plans /\ tree = "clean"
      BY <1>3, <2>1, <2>3 DEF InspectFinalizationRecovery
    <3>2. PlanOK(r)
      BY <3>1 DEF IInv
    <3>3. PickBase(r) = b
      BY <2>5, <3>2 DEF PlanOK, PickBase, PlanOf
    <3> QED BY <2>2, <2>4, <2>5, <2>6, <2>7, <3>1, <3>2, <3>3 DEF PlanOK, Based
  <2>9. Unended(f)
    <3> SUFFICES ASSUME NEW i \in DOMAIN milestone, milestone[i].feature = f,
                        milestone[i].kind \in FinalKinds
                 PROVE  FALSE
      BY DEF Unended, Final
    <3>1. Tip \in DOMAIN milestone /\ DOMAIN milestone = 1..Tip /\ Tip \in Nat
      BY <1>1, <2>7, Positions
    <3>2. milestone[Tip].kind = "marking" /\ milestone[Tip].feature = f
      BY <2>7 DEF Commit
    <3>3. Tip <= i
      BY <1>1, <3>1, <3>2 DEF FinalOnce, MarkKinds
    <3>4. i = Tip
      BY <3>1, <3>3
    <3> QED BY <3>2, <3>4 DEF FinalKinds
  <2>10. /\ fact[t].kind = "integration" /\ fact[t].class = "open" /\ fact[t].evidence = 0
         /\ \A a \in Txn : Accepted(a) /\ fact[a].feature = f => fact[a].ver <= fact[t].ver
    BY <1>1, <1>2, <2>1, <2>2, IntegratingKnows
  <2>11. pc'[p] = "marked" /\ cur' = cur /\ fact' = fact /\ milestone' = milestone
    BY <1>1, <1>3 DEF Goto, Typed, book, repository
  <2>12. CommandOK(p)'
    <3>1. PickBase(t)' = b /\ Tip' = Tip
      BY <2>6, <2>11 DEF PickBase, PlanOf, Tip
    <3>2. "marked" \notin Pending
      BY DEF Pending
    <3>3. Unended(f)' /\ Based(t)'
      BY <2>8, <2>9, <2>11 DEF Unended, Final, Based, Accepted, PickBase, PlanOf
    <3> QED BY <2>1, <2>2, <2>7, <2>8, <2>10, <2>11, <3>1, <3>2, <3>3 DEF CommandOK, Accepted
  <2>13. "marked" \in Working /\ <<>> \in Seq(EventTypes)
    BY DEF Working, Integrating, Unrecorded
  <2> QED BY <1>2, <1>3, <2>8, <2>12, <2>13, HandlerGoes
<1>4. CASE Failure(p, "other") /\ UNCHANGED integrationVars
  BY <1>2, <1>4, ActFails
<1> QED BY <1>3, <1>4 DEF ResumeFinalization, Act

-----------------------------------------------------------------------------
(* The invariant.                                                          *)

\* A sequence of two.
LEMMA TwoItems ==
  ASSUME NEW S, NEW a \in S, NEW b \in S
  PROVE  /\ Append(<<a>>, b) \in Seq(S) /\ DOMAIN Append(<<a>>, b) = 1..2
         /\ Append(<<a>>, b)[1] = a /\ Append(<<a>>, b)[2] = b
<1>1. <<a>> \in Seq(S) /\ Len(<<a>>) = 1 /\ <<a>>[1] = a
  OBVIOUS
<1> QED BY <1>1

\* The milestone to begin with: a base, and an integration of the past.
LEMMA InitialMilestone ==
  ASSUME IntegrationInit
  PROVE  /\ milestone \in Seq(CommitRecord)
         /\ \A i \in DOMAIN milestone :
               /\ milestone[i].kind \in {"base", "passed"} /\ milestone[i].ver = 0
               /\ milestone[i].kind = "passed" => i = 2
<1>1. PICK k \in CommitKinds : k = "base"
  BY DEF CommitKinds
<1>2. PICK base \in CommitRecord : base = Commit(k, NoFeature)
  BY CommitsAreRecords
<1>3. base.kind = "base" /\ base.ver = 0
  BY <1>1, <1>2 DEF Commit
<1>4. Base = <<base>>
  BY <1>1, <1>2 DEF Base
<1>5. CASE milestone = Base
  BY <1>3, <1>4, <1>5
<1>6. CASE \E f \in Feature : milestone = Append(Base, Commit("passed", f))
  <2>1. PICK f \in Feature : milestone = Append(Base, Commit("passed", f))
    BY <1>6
  <2>2. PICK c \in CommitRecord : c = Commit("passed", f)
    <3>1. "passed" \in CommitKinds /\ f \in Feature \cup {NoFeature} /\ 0 \in Nat
      BY DEF CommitKinds
    <3> QED BY <3>1, CommitsAreRecords
  <2>3. c.kind = "passed" /\ c.ver = 0
    BY <2>2 DEF Commit
  <2>4. milestone = Append(<<base>>, c)
    BY <1>4, <2>1, <2>2
  <2>5. /\ milestone \in Seq(CommitRecord) /\ DOMAIN milestone = 1..2
        /\ milestone[1] = base /\ milestone[2] = c
    BY <2>4, TwoItems
  <2> QED BY <1>3, <2>3, <2>5
<1> QED BY <1>5, <1>6 DEF IntegrationInit, Init, Independent

\* The invariant holds of a project that has built nothing.
LEMMA InitKeeps ==
  ASSUME IntegrationInit
  PROVE  IInv
<1>1. NoFact \in Fact /\ NoFact.kind = "none" /\ NoFact.class = "open" /\ NoFact.evidence = 0
      /\ NoFact.of = NoTxn
  BY DEF NoFact, Fact
<1>2. /\ \A t \in Txn : fact[t] = NoFact
      /\ fact \in [Txn -> Fact]
  BY <1>1 DEF IntegrationInit, Init
<1>3. /\ milestone \in Seq(CommitRecord)
      /\ \A i \in DOMAIN milestone :
            /\ milestone[i].kind \in {"base", "passed"} /\ milestone[i].ver = 0
            /\ milestone[i].kind = "passed" => i = 2
  BY InitialMilestone
<1>4. Typed
  <2>1. <<>> \in Seq(EventTypes)
    OBVIOUS
  <2>2. cand \in [Feature -> [ver : 0..MaxVersion, base : Nat]]
    BY PhaseConstants DEF IntegrationInit, Init
  <2>3. runtime \in [plan : Txn \cup {NoTxn}, phase : Phases]
    BY DEF IntegrationInit, Phases
  <2>4. pc \in [Process -> Steps] /\ tree \in {"clean", "dirty", "staged", "conflict"}
    BY DEF IntegrationInit, Init, Steps
  <2>5. blockers \in [Process -> BOOLEAN] /\ plans \in SUBSET Txn
    BY DEF IntegrationInit
  <2> QED BY <1>2, <1>3, <2>1, <2>2, <2>3, <2>4, <2>5 DEF IntegrationInit, Init, Typed
<1>5. \A t \in Txn : EntryOK(t)
  BY <1>1, <1>2 DEF EntryOK
<1>6. IntegratedOnce
  BY <1>3 DEF IntegratedOnce
<1>7. \A i \in DOMAIN milestone : PickOK(i)
  BY <1>3 DEF PickOK
<1>8. FinalOnce
  BY <1>3 DEF FinalOnce, FinalKinds, MarkKinds
<1>9. Clean /\ \A t \in plans : PlanOK(t)
  BY DEF IntegrationInit, Init, Clean, Clear
<1>10. \A p \in Process : HandOK(p) /\ CommandOK(p)
  <2> SUFFICES ASSUME NEW p \in Process
               PROVE  HandOK(p) /\ CommandOK(p)
    OBVIOUS
  <2>1. pc[p] = "idle" /\ todo[p] = <<>>
    BY DEF IntegrationInit, Init
  <2>2. "idle" \notin Integrating /\ "idle" \notin Working
    BY DEF Working, Accepting, Integrating, Unrecorded
  <2>3. HandOK(p)
    BY <2>1, <2>2 DEF HandOK
  <2> QED BY <2>1, <2>2, <2>3, RestingOwesNothing
<1>11. Honest
  BY DEF IntegrationInit, Init, Honest, Accounted
<1> QED BY <1>4, <1>5, <1>6, <1>7, <1>8, <1>9, <1>10, <1>11 DEF IInv

\* A step that changes nothing.
LEMMA StutterKeeps ==
  ASSUME IInv, UNCHANGED vars
  PROVE  IInv'
<1>1. /\ UNCHANGED <<milestone, cand, tree, hist, fact, lease, holder, pc, cur, todo, crashes,
                     drift, plans, runtime, blockers>>
  BY DEF vars, phaseVars, repository, book, lock, control, bounds, integrationVars
<1>2. Typed'
  BY <1>1 DEF IInv, Typed
<1>3. Advanced /\ Foreign
  <2>1. drift <= drift' /\ crashes <= crashes'
    BY <1>1 DEF IInv, Typed
  <2> QED BY <1>1, <1>2, <2>1, QuietAdvances DEF IInv
<1>4. Clean'
  BY <1>1, CleanWaits DEF IInv
<1> QED BY <1>1, <1>2, <1>3, <1>4, OutsiderStep DEF control

\* What the steps every command has preserve.
LEMMA SharedKeeps ==
  ASSUME IInv, Shared, UNCHANGED integrationVars
  PROVE  IInv'
<1>1. CASE Drift
  BY <1>1, DriftKeeps
<1>2. CASE RemoveLease
  BY <1>2, RemoveKeeps
<1>3. CASE \E f \in Feature : Implement(f)
  BY <1>3, ImplementKeeps
<1>4. ASSUME NEW p \in Process,
             EmitNext(p) \/ ReleaseLease(p) \/ Finish(p) \/ Die(p) \/ ArchiveLease(p)
      PROVE  IInv'
  BY <1>4, EmitKeeps, ReleaseKeeps, FinishKeeps, DieKeeps, ArchiveKeeps
<1>5. CASE \E p \in Process, t \in Txn : RecoverIncomplete(p, t)
  BY <1>5, RecoverKeeps
<1> QED BY <1>1, <1>2, <1>3, <1>4, <1>5 DEF Shared

\* What the steps of accept-feature preserve.
LEMMA AcceptanceKeeps ==
  ASSUME IInv, NEW p \in Process, AcceptanceStep(p), UNCHANGED integrationVars
  PROVE  IInv'
<1>1. CASE \E t \in Txn, f \in Feature : InspectForAcceptance(p, t, f)
  BY <1>1, InspectForAcceptanceKeeps
<1>2. CASE BeginAcceptance(p)
  BY <1>2, BeginAcceptanceKeeps
<1>3. CASE RecordAcceptance(p)
  BY <1>3, RecordAcceptanceKeeps
<1>4. CASE CompleteAcceptance(p)
  BY <1>4, CompleteAcceptanceKeeps
<1>5. CASE FailAcceptance(p)
  BY <1>5, FailAcceptanceKeeps
<1>6. CASE \E t \in Txn : SupersedeIncompleteStart(p, t)
  BY <1>6, SupersedeKeeps
<1> QED BY <1>1, <1>2, <1>3, <1>4, <1>5, <1>6 DEF AcceptanceStep

\* What the steps of an integration preserve.
LEMMA IntegrationKeeps ==
  ASSUME IInv, NEW p \in Process, IntegrationStep(p)
  PROVE  IInv'
<1>1. CASE \E t \in Txn, f \in Feature : BeginIntegration(p, t, f)
  BY <1>1, BeginIntegrationKeeps
<1>2. CASE \E t \in Txn : RecoverFinalization(p, t)
  BY <1>2, RecoverFinalizationKeeps
<1>3. CASE StartIntegration(p) \/ PrepareBranch(p) \/ PersistPlan(p) \/ ValidatePlan(p)
  BY <1>3, StartKeeps, PrepareKeeps, PersistKeeps, ValidatePlanKeeps
<1>4. CASE CherryPick(p) \/ CherryPickConflict(p) \/ CommitPick(p) \/ MarkIntegrating(p)
  BY <1>4, CherryPickKeeps, CherryPickConflictKeeps, CommitPickKeeps, MarkIntegratingKeeps
<1>5. CASE (\E found \in {TRUE, FALSE} : Validate(p, found)) \/ RefuseCommand(p)
  BY <1>5, ValidateKeeps, RefuseCommandKeeps
<1>6. CASE RecordFinalMetadata(p) \/ AcceptResult(p)
  BY <1>6, RecordFinalMetadataKeeps, AcceptResultKeeps
<1>7. CASE CompleteIntegration(p) \/ BlockConflict(p) \/ BlockFailed(p) \/ ResumeFinalization(p)
  BY <1>7, CompleteIntegrationKeeps, BlockConflictKeeps, BlockFailedKeeps,
     ResumeFinalizationKeeps
<1> QED BY <1>1, <1>2, <1>3, <1>4, <1>5, <1>6, <1>7 DEF IntegrationStep

\* The invariant behind the results below: however many commands and others
\* work at the repository, die and are recovered.
THEOREM Invariance == Spec => []IInv
<1>1. IntegrationInit => IInv
  BY InitKeeps
<1>2. IInv /\ [IntegrationNext]_vars => IInv'
  BY SharedKeeps, AcceptanceKeeps, IntegrationKeeps, StutterKeeps DEF IntegrationNext
<1> QED BY <1>1, <1>2, PTL DEF Spec

\* The variables keep their types.
THEOREM TypeCorrectness == Spec => []TypeOK
<1>1. ASSUME IInv
      PROVE  TypeOK
  <2>1. Typed
    BY <1>1 DEF IInv
  <2>2. \A i \in DOMAIN milestone : milestone[i] \in CommitRecord
    BY <2>1, Positions
  <2> QED BY <2>1, <2>2 DEF Typed, TypeOK, CommitRecord
<1> QED BY <1>1, Invariance, PTL

\* An accepted version reaches the milestone once, however often it is
\* accepted: what allows a pick is one acceptance, made where the milestone is.
THEOREM IntegrationIsOnce == Spec => []IntegratedOnce
<1>1. IInv => IntegratedOnce
  BY DEF IInv
<1> QED BY <1>1, Invariance, PTL

\* A feature is picked after the passing outcomes of what it depends on.
THEOREM DependenciesComeFirst == Spec => []DependenciesFirst
<1>1. ASSUME IInv
      PROVE  DependenciesFirst
  BY <1>1 DEF IInv, PickOK, DependenciesFirst
<1> QED BY <1>1, Invariance, PTL

\* The class of a transaction is what the milestone shows.
THEOREM ClassIsTruthful == Spec => []ClassIsOnMilestone
<1>1. ASSUME IInv
      PROVE  ClassIsOnMilestone
  <2>1. Typed /\ FinalOnce
    BY <1>1 DEF IInv
  <2>2. ASSUME NEW t \in Txn, fact[t].class = "INTEGRATED", NEW f, f = fact[t].feature,
               NEW b, b = PickBase(t)
        PROVE  /\ \E a \in Acceptances(f, fact[t].ver) : fact[a].start = b
               /\ milestone[b + 1] = Pick(f, fact[t].ver)
               /\ milestone[fact[t].evidence] = Commit("passed", f)
               /\ ~\E i \in DOMAIN milestone : milestone[i] = Commit("failed", f)
    <3>1. /\ b < Tip /\ milestone[b + 1] = Pick(f, fact[t].ver)
          /\ fact[t].evidence # 0 /\ milestone[fact[t].evidence] = Commit("passed", f)
          /\ fact[t].evidence <= Tip
      BY <1>1, <2>2 DEF IInv, EntryOK
    <3>2. b \in Nat /\ Tip \in Nat /\ DOMAIN milestone = 1..Tip
      BY <2>1, <2>2, PickBaseIsNat, Positions
    <3>3. \E a \in Txn : /\ Accepted(a) /\ fact[a].feature = f /\ fact[a].ver = fact[t].ver
                         /\ fact[a].start = b
      BY <1>1, <2>2 DEF IInv, EntryOK, Based
    <3>4. ASSUME NEW i \in DOMAIN milestone, milestone[i] = Commit("failed", f)
          PROVE  FALSE
      <4>1. PICK j : j = fact[t].evidence
        OBVIOUS
      <4>2. j \in DOMAIN milestone /\ i \in Nat /\ j \in Nat
        <5>1. j \in Nat
          BY <2>1, <4>1, EntryIsFact
        <5> QED BY <3>1, <3>2, <4>1, <5>1
      <4>3. /\ milestone[i].kind = "failed" /\ milestone[i].feature = f
            /\ milestone[j].kind = "passed" /\ milestone[j].feature = f
        BY <3>1, <3>4, <4>1 DEF Commit
      <4>4. i <= j /\ j <= i
        BY <2>1, <4>2, <4>3 DEF FinalOnce, FinalKinds, MarkKinds
      <4> QED BY <4>2, <4>3, <4>4
    <3> QED BY <3>1, <3>3, <3>4 DEF Acceptances, Accepted
  <2>3. ASSUME NEW t \in Txn, drift = 0, fact[t].evidence # 0, fact[t].feature \notin Ranged,
               fact[t].class \in FailedClasses
        PROVE  milestone[fact[t].evidence].kind = "failed"
    BY <1>1, <2>3 DEF IInv, EntryOK
  <2> QED BY <2>2, <2>3 DEF ClassIsOnMilestone, FailedClasses
<1> QED BY <1>1, Invariance, PTL

\* What the queue calls integrated has a completed transaction, once every
\* command is over and nobody died or stepped in.
THEOREM PassedIsCompleted == Spec => []PassedMeansCompleted
<1>1. ASSUME IInv
      PROVE  PassedMeansCompleted
  <2> SUFFICES ASSUME crashes = 0, drift = 0, \A p \in Process : pc[p] = "idle",
                      NEW i \in DOMAIN milestone, milestone[i].kind = "pick",
                      milestone[i].feature \in Integrated \ Ranged
               PROVE  \E t \in Txn : /\ fact[t].feature = milestone[i].feature
                                     /\ fact[t].class = "INTEGRATED"
    BY DEF PassedMeansCompleted
  <2>1. PICK f \in Feature : f = milestone[i].feature /\ f \notin Ranged
    BY DEF Integrated
  <2>2. QueueStatus(f) = "passed"
    BY <2>1 DEF Integrated
  <2>3. PICK j \in DOMAIN milestone : milestone[j] = Commit("passed", f)
    BY <1>1, <2>2, PassedIsRecorded DEF IInv
  <2>4. Accounted(f)
    <3>1. milestone[j].kind = "passed" /\ milestone[j].feature = f
      BY <2>3 DEF Commit
    <3> QED BY <1>1, <2>1, <3>1 DEF IInv, Honest, Accounted
  <2>5. cand[f].ver # 0
    <3>1. PICK a \in Txn : Accepted(a) /\ fact[a].feature = f
      BY <1>1, <2>1 DEF IInv, PickOK
    <3>2. fact[a].ver \in 1..cand[f].ver
      BY <1>1, <3>1 DEF IInv, EntryOK, Accepted
    <3> QED BY <3>2
  <2>6. \A p \in Process : pc[p] \notin Pending
    BY DEF Pending
  <2> QED BY <2>1, <2>4, <2>5, <2>6 DEF Accounted
<1> QED BY <1>1, Invariance, PTL
=============================================================================
