------------------------ MODULE EvidenceLedgerProofs ------------------------
(***************************************************************************)
(* Proofs about EvidenceLedger, for any number of processes, transactions  *)
(* and events.                                                             *)
(*                                                                         *)
(* The invariants of the file are not inductive by themselves: what keeps  *)
(* the chain unbroken is that a process past its reading step holds the    *)
(* lock and has a draft that extends exactly the file that is there.       *)
(***************************************************************************)
EXTENDS EvidenceLedger, TLAPS, FiniteSetTheorems, WellFoundedInduction

\* Whoever is inside append holds the lock, alone.
LockDiscipline ==
  \A p \in Process : pc[p] # "idle" => flock = p

\* A built draft extends the file as it is, and the contract allows it there.
DraftFits ==
  \A p \in Process : pc[p] = "built" =>
     /\ ending = "newline"
     /\ HeadExact
     /\ cache[p] \in CacheRecord
     /\ cache[p].events = file
     /\ draft[p] \in Event
     /\ draft[p].seq = Len(file) + 1
     /\ draft[p].prev = TailFingerprint(file)
     /\ ValidateAppend(History(Contents(file), draft[p].content[2]), draft[p].content[1])

\* Between the write and the anchor the file is the cached one plus the draft.
DraftWritten ==
  \A p \in Process : pc[p] = "written" =>
     /\ ending = "newline"
     /\ cache[p] \in CacheRecord
     /\ draft[p] \in Event
     /\ file = Append(cache[p].events, draft[p])

\* A cache never describes more than the file, and a matching one is exact.
CachesFit ==
  \A p \in Process : cache[p] # NoCache =>
     /\ cache[p].sig[1] <= Len(file)
     /\ cache[p].sig[2] = "newline"
     /\ CacheHit(p) => cache[p].events = file /\ HeadExact

IInv ==
  /\ TypeOK
  /\ ChainIntact
  /\ HeadAnchorsFile
  /\ LockDiscipline
  /\ DraftFits
  /\ DraftWritten
  /\ CachesFit

-----------------------------------------------------------------------------
LEMMA FingerprintType ==
  ASSUME NEW e \in Event
  PROVE  /\ Fingerprint(e) \in Seq(Content)
         /\ Anchor(e) \in HeadRecord
BY DEF Event, Fingerprint, Anchor, HeadRecord

LEMMA TailFingerprintType ==
  ASSUME NEW s \in Seq(Event)
  PROVE  TailFingerprint(s) \in Seq(Content)
<1>1. CASE s = <<>>
  BY <1>1 DEF TailFingerprint, Genesis
<1>2. CASE s # <<>>
  <2>1. Len(s) \in 1..Len(s) /\ s[Len(s)] \in Event
    BY <1>2
  <2>. QED  BY <1>2, <2>1, FingerprintType DEF TailFingerprint
<1>. QED  BY <1>1, <1>2

LEMMA NextEventType ==
  ASSUME NEW s \in Seq(Event), NEW type \in Types, NEW t \in Txn
  PROVE  /\ NextEvent(s, type, t) \in Event
         /\ NextEvent(s, type, t).seq = Len(s) + 1
         /\ NextEvent(s, type, t).prev = TailFingerprint(s)
         /\ NextEvent(s, type, t).content = <<type, t>>
<1>1. TailFingerprint(s) \in Seq(Content) /\ Len(s) + 1 \in Nat
  BY TailFingerprintType
<1>2. <<type, t>> \in Content
  BY DEF Content
<1>. QED  BY <1>1, <1>2 DEF NextEvent, Event

(* An anchor is never mistaken for a missing one. *)
LEMMA AnchorExists ==
  ASSUME NEW e \in Event
  PROVE  Anchor(e) # NoHead
BY FingerprintType, LedgerConstants DEF Content, HeadRecord

(* What a reader leaves behind: an anchor that names the tail. *)
LEMMA RepairIsExact ==
  ASSUME IInv, HeadVerified, head' = RepairedHead, UNCHANGED file
  PROVE  HeadExact' /\ HeadAnchorsFile' /\ head' \in {NoHead} \cup HeadRecord
<1>1. CASE file = <<>>
  <2>1. ~HeadOneBehind /\ head = NoHead
    BY <1>1 DEF HeadVerified, HeadOneBehind, HeadExact
  <2>. QED  BY <1>1, <2>1 DEF RepairedHead, HeadExact, HeadAnchorsFile
<1>2. CASE file # <<>>
  <2>. DEFINE n == Len(file)
  <2>1. n \in 1..n /\ file[n] \in Event /\ file[n].seq = n
    BY <1>2 DEF IInv, TypeOK, ChainIntact, ChainValid
  <2>2. Anchor(file[n]) \in HeadRecord /\ Anchor(file[n]) # NoHead
    BY <2>1, FingerprintType, AnchorExists
  <2>3. head' = Anchor(file[n])
    BY <1>2 DEF RepairedHead, HeadVerified, HeadExact
  <2>4. Anchor(file[n]).seq = n
    BY <2>1 DEF Anchor
  <2>. QED  BY <1>2, <2>1, <2>2, <2>3, <2>4 DEF HeadExact, HeadAnchorsFile, IInv, TypeOK
<1>. QED  BY <1>1, <1>2
(* Leaving append, by success, error or death, frees the lock. *)
LEMMA UnlockEffect ==
  ASSUME IInv, NEW p \in Process, Unlock(p)
  PROVE  /\ flock' \in Process \cup {NoProcess}
         /\ pc' \in [Process -> {"idle", "built", "written"}]
         /\ draft' \in [Process -> {NoDraft} \cup Event]
         /\ LockDiscipline'
         /\ pc'[p] = "idle"
         /\ \A q \in Process : q # p => pc'[q] = pc[q] /\ draft'[q] = draft[q]
BY DEF IInv, TypeOK, LockDiscipline, Unlock

LEMMA InitEstablishes == Init => IInv
<1>. SUFFICES ASSUME Init PROVE IInv
  OBVIOUS
<1>1. TypeOK
  BY DEF Init, TypeOK
<1>2. ChainIntact /\ HeadAnchorsFile
  BY DEF Init, ChainIntact, ChainValid, HeadAnchorsFile
<1>3. LockDiscipline /\ DraftFits /\ DraftWritten /\ CachesFit
  BY DEF Init, LockDiscipline, DraftFits, DraftWritten, CachesFit
<1>. QED  BY <1>1, <1>2, <1>3 DEF IInv

LEMMA ReadPreserves ==
  ASSUME IInv, NEW p \in Process, Read(p)
  PROVE  IInv'
<1>1. HeadExact' /\ HeadAnchorsFile' /\ head' \in {NoHead} \cup HeadRecord
  BY RepairIsExact DEF Read, Readable
<1>2. TypeOK' /\ ChainIntact' /\ LockDiscipline'
  BY <1>1 DEF IInv, TypeOK, Read, ChainIntact, LockDiscipline
<1>3. DraftFits' /\ DraftWritten'
  BY <1>1 DEF IInv, Read, DraftFits, DraftWritten
<1>4. CachesFit'
  BY <1>1 DEF IInv, Read, CachesFit, CacheHit, Signature
<1>. QED  BY <1>1, <1>2, <1>3, <1>4 DEF IInv

LEMMA BeginAppendPreserves ==
  ASSUME IInv, NEW p \in Process, NEW type \in Types, NEW t \in Txn, BeginAppend(p, type, t)
  PROVE  IInv'
<1>1. UNCHANGED <<file, ending>> /\ pc[p] = "idle" /\ flock = NoProcess
  BY DEF BeginAppend
<1>2. /\ HeadExact' /\ HeadAnchorsFile'
      /\ head' \in {NoHead} \cup HeadRecord
      /\ cache' \in [Process -> {NoCache} \cup CacheRecord]
      /\ cache'[p].events = file
      /\ \A q \in Process : q # p => cache'[q] = cache[q]
      /\ cache'[p].sig = Signature
      /\ cache'[p] \in CacheRecord
      /\ ending = "newline"
  <2>1. CASE CacheHit(p)
    <3>1. UNCHANGED <<head, cache>>
      BY <2>1 DEF BeginAppend, ReadForAppend
    <3>2. cache[p].events = file /\ HeadExact /\ cache[p] # NoCache /\ cache[p].sig = Signature
      BY <2>1 DEF IInv, CachesFit, CacheHit
    <3>3. cache[p] \in CacheRecord
      BY <3>2 DEF IInv, TypeOK
    <3>4. HeadExact' /\ HeadAnchorsFile'
      BY <1>1, <3>1, <3>2 DEF IInv, HeadExact, HeadAnchorsFile
    <3>5. ending = "newline"
      BY <3>2 DEF IInv, CachesFit, Signature
    <3>. QED  BY <2>1, <3>1, <3>2, <3>3, <3>4, <3>5 DEF IInv, TypeOK
  <2>2. CASE ~CacheHit(p)
    <3>1. Readable /\ head' = RepairedHead
          /\ cache' = [cache EXCEPT ![p] = [sig |-> Signature, events |-> file]]
      BY <2>2 DEF BeginAppend, ReadForAppend
    <3>2. HeadExact' /\ HeadAnchorsFile' /\ head' \in {NoHead} \cup HeadRecord
      BY <1>1, <3>1, RepairIsExact DEF Readable
    <3>3. [sig |-> Signature, events |-> file] \in CacheRecord
      BY DEF IInv, TypeOK, Signature, CacheRecord
    <3>. QED  BY <1>1, <3>1, <3>2, <3>3 DEF IInv, TypeOK, Readable
  <2>. QED  BY <2>1, <2>2
<1>. DEFINE accepted == ValidateAppend(History(Contents(cache'[p].events), t), type)
            e == NextEvent(cache'[p].events, type, t)
<1>3. e \in Event /\ e.seq = Len(file) + 1 /\ e.prev = TailFingerprint(file) /\ e.content = <<type, t>>
  BY <1>2, NextEventType DEF IInv, TypeOK
<1>4. CASE accepted
  <2>1. flock' = p /\ pc' = [pc EXCEPT ![p] = "built"] /\ draft' = [draft EXCEPT ![p] = e]
    BY <1>4 DEF BeginAppend
  <2>2. TypeOK'
    BY <1>1, <1>2, <1>3, <2>1 DEF IInv, TypeOK
  <2>3. ChainIntact'
    BY <1>1 DEF IInv, ChainIntact
  <2>4. \A q \in Process : q # p => pc'[q] = "idle"
    BY <1>1, <2>1, LedgerConstants DEF IInv, TypeOK, LockDiscipline
  <2>5. pc'[p] = "built" /\ draft'[p] = e
    BY <2>1 DEF IInv, TypeOK
  <2>6. LockDiscipline' /\ DraftWritten'
    BY <2>1, <2>4, <2>5 DEF LockDiscipline, DraftWritten
  <2>7. ValidateAppend(History(Contents(file), e.content[2]), e.content[1])
    BY <1>2, <1>3, <1>4
  <2>9. DraftFits'
    BY <1>1, <1>2, <1>3, <2>4, <2>5, <2>7 DEF DraftFits
  <2>10. CachesFit'
    BY <1>1, <1>2 DEF IInv, TypeOK, CachesFit, CacheHit, Signature
  <2>. QED  BY <1>2, <2>2, <2>3, <2>6, <2>9, <2>10 DEF IInv
<1>5. CASE ~accepted
  <2>1. UNCHANGED <<flock, pc, draft>>
    BY <1>5 DEF BeginAppend
  <2>2. TypeOK' /\ ChainIntact' /\ LockDiscipline'
    BY <1>1, <1>2, <2>1 DEF IInv, TypeOK, ChainIntact, LockDiscipline
  <2>3. \A q \in Process : pc'[q] = "idle"
    BY <1>1, <2>1, LedgerConstants DEF IInv, TypeOK, LockDiscipline
  <2>4. DraftFits' /\ DraftWritten'
    BY <2>3 DEF DraftFits, DraftWritten
  <2>5. CachesFit'
    BY <1>1, <1>2 DEF IInv, TypeOK, CachesFit, CacheHit, Signature
  <2>. QED  BY <1>2, <2>2, <2>4, <2>5 DEF IInv
<1>. QED  BY <1>4, <1>5

LEMMA WriteRecordPreserves ==
  ASSUME IInv, NEW p \in Process, WriteRecord(p)
  PROVE  IInv'
<1>1. /\ pc[p] = "built" /\ flock = p /\ HeadExact /\ ending = "newline"
      /\ file' = Append(file, draft[p]) /\ pc' = [pc EXCEPT ![p] = "written"]
      /\ UNCHANGED <<ending, head, flock, draft, cache>>
  BY DEF WriteRecord, IInv, LockDiscipline, DraftFits
<1>2. /\ draft[p] \in Event /\ draft[p].seq = Len(file) + 1
      /\ draft[p].prev = TailFingerprint(file) /\ cache[p].events = file /\ cache[p] \in CacheRecord
  BY <1>1 DEF IInv, DraftFits
<1>3. TypeOK'
  BY <1>1, <1>2 DEF IInv, TypeOK
<1>4. /\ file \in Seq(Event) /\ file' \in Seq(Event) /\ Len(file') = Len(file) + 1
      /\ \A i \in 1..Len(file) : file'[i] = file[i]
      /\ file'[Len(file) + 1] = draft[p]
  BY <1>1, <1>2 DEF IInv, TypeOK
<1>5. ChainIntact'
  <2>. SUFFICES ASSUME NEW i \in 1..(Len(file) + 1)
               PROVE  /\ file'[i].seq = i
                      /\ file'[i].prev = IF i = 1 THEN Genesis ELSE Fingerprint(file'[i-1])
    BY <1>4 DEF ChainIntact, ChainValid
  <2>1. CASE i \in 1..Len(file)
    <3>1. file[i].seq = i /\ file[i].prev = IF i = 1 THEN Genesis ELSE Fingerprint(file[i-1])
      BY <1>4, <2>1 DEF IInv, ChainIntact, ChainValid
    <3>. QED  BY <1>4, <2>1, <3>1
  <2>2. CASE i = Len(file) + 1
    <3>0. file'[i] = draft[p]
      BY <1>4, <2>2
    <3>1. file'[i].seq = i /\ file'[i].prev = TailFingerprint(file)
      BY <1>2, <2>2, <3>0
    <3>2. CASE file = <<>>
      BY <1>4, <2>2, <3>1, <3>2 DEF TailFingerprint
    <3>3. CASE file # <<>>
      <4>1. i # 1 /\ i - 1 = Len(file) /\ i - 1 \in 1..Len(file)
        BY <1>4, <2>2, <3>3
      <4>2. file'[i-1] = file[Len(file)]
        BY <1>4, <4>1
      <4>. QED  BY <3>1, <3>3, <4>1, <4>2 DEF TailFingerprint
    <3>. QED  BY <3>2, <3>3
  <2>. QED  BY <1>4, <2>1, <2>2
<1>6. HeadAnchorsFile'
  <2>1. CASE file = <<>>
    BY <1>1, <1>4, <2>1 DEF HeadExact, HeadAnchorsFile
  <2>2. CASE file # <<>>
    <3>1. Len(file) \in 1..Len(file) /\ file[Len(file)] \in Event /\ file[Len(file)].seq = Len(file)
      BY <1>4, <2>2 DEF IInv, ChainIntact, ChainValid
    <3>2. head = Anchor(file[Len(file)]) /\ head.seq = Len(file) /\ head # NoHead
      BY <1>1, <2>2, <3>1, AnchorExists DEF HeadExact, Anchor
    <3>. QED  BY <1>1, <1>4, <3>1, <3>2 DEF HeadAnchorsFile
  <2>. QED  BY <2>1, <2>2
<1>7. \A q \in Process : q # p => pc'[q] = "idle"
  BY <1>1 DEF IInv, TypeOK, LockDiscipline
<1>8. pc'[p] = "written"
  BY <1>1 DEF IInv, TypeOK
<1>9. LockDiscipline' /\ DraftFits' /\ DraftWritten'
  BY <1>1, <1>2, <1>7, <1>8 DEF LockDiscipline, DraftFits, DraftWritten
<1>10. CachesFit'
  <2>. SUFFICES ASSUME NEW q \in Process, cache[q] # NoCache
               PROVE  /\ cache[q].sig[1] <= Len(file') /\ cache[q].sig # Signature'
                      /\ cache[q].sig[2] = "newline"
    BY <1>1 DEF CachesFit, CacheHit
  <2>1. cache[q].sig[1] <= Len(file) /\ cache[q].sig[2] = "newline" /\ cache[q] \in CacheRecord
    BY DEF IInv, CachesFit, TypeOK
  <2>2. cache[q].sig[1] \in Nat
    BY <2>1 DEF CacheRecord
  <2>. QED  BY <1>4, <2>1, <2>2 DEF Signature
<1>. QED  BY <1>3, <1>5, <1>6, <1>9, <1>10 DEF IInv

LEMMA ShortWritePreserves ==
  ASSUME IInv, NEW p \in Process, ShortWrite(p)
  PROVE  IInv'
<1>1. pc[p] = "built" /\ ending' = "torn" /\ Unlock(p) /\ UNCHANGED <<file, head, cache>>
  BY DEF ShortWrite
<1>2. TypeOK' /\ LockDiscipline'
  BY <1>1, UnlockEffect DEF IInv, TypeOK
<1>3. ChainIntact' /\ HeadAnchorsFile'
  BY <1>1 DEF IInv, ChainIntact, HeadAnchorsFile
<1>4. \A q \in Process : pc'[q] = "idle"
  BY <1>1, UnlockEffect DEF IInv, LockDiscipline, TypeOK
<1>5. DraftFits' /\ DraftWritten'
  BY <1>4 DEF DraftFits, DraftWritten
<1>6. CachesFit'
  <2>. SUFFICES ASSUME NEW q \in Process, cache[q] # NoCache
               PROVE  /\ cache[q].sig[1] <= Len(file) /\ cache[q].sig[2] = "newline"
                      /\ cache[q].sig # Signature'
    BY <1>1 DEF CachesFit, CacheHit
  <2>1. cache[q].sig[1] <= Len(file) /\ cache[q].sig[2] = "newline"
    BY DEF IInv, CachesFit
  <2>2. Signature'[2] = "torn"
    BY <1>1 DEF Signature
  <2>. QED  BY <2>1, <2>2
<1>. QED  BY <1>2, <1>3, <1>5, <1>6 DEF IInv

LEMMA PublishHeadPreserves ==
  ASSUME IInv, NEW p \in Process, PublishHead(p)
  PROVE  IInv'
<1>1. /\ pc[p] = "written" /\ Unlock(p) /\ UNCHANGED <<file, ending>>
      /\ head' = Anchor(draft[p])
      /\ cache' = [cache EXCEPT ![p] = [sig |-> Signature,
                                        events |-> Append(cache[p].events, draft[p])]]
  BY DEF PublishHead, IInv, TypeOK
<1>2. /\ ending = "newline" /\ cache[p] \in CacheRecord /\ draft[p] \in Event
      /\ file = Append(cache[p].events, draft[p])
  BY <1>1 DEF IInv, DraftWritten
<1>3. cache[p].events \in Seq(Event)
  BY <1>2 DEF CacheRecord
<1>4. /\ file # <<>> /\ Len(file) \in 1..Len(file) /\ file[Len(file)] = draft[p]
  BY <1>2, <1>3
<1>5. draft[p].seq = Len(file)
  BY <1>4 DEF IInv, ChainIntact, ChainValid, TypeOK
<1>6. Anchor(draft[p]) \in HeadRecord /\ Anchor(draft[p]) # NoHead /\ Anchor(draft[p]).seq = Len(file)
  BY <1>2, <1>5, FingerprintType, AnchorExists DEF Anchor
<1>7. HeadExact' /\ HeadAnchorsFile'
  BY <1>1, <1>4, <1>6 DEF HeadExact, HeadAnchorsFile
<1>8. cache' = [cache EXCEPT ![p] = [sig |-> Signature, events |-> file]]
  BY <1>1, <1>2
<1>9. [sig |-> Signature, events |-> file] \in CacheRecord
  BY DEF IInv, TypeOK, Signature, CacheRecord
<1>10. TypeOK' /\ LockDiscipline'
  BY <1>1, <1>6, <1>8, <1>9, UnlockEffect DEF IInv, TypeOK
<1>11. ChainIntact'
  BY <1>1 DEF IInv, ChainIntact
<1>12. \A q \in Process : pc'[q] = "idle"
  BY <1>1, UnlockEffect DEF IInv, LockDiscipline, TypeOK
<1>13. DraftFits' /\ DraftWritten'
  BY <1>12 DEF DraftFits, DraftWritten
<1>14. CachesFit'
  <2>. SUFFICES ASSUME NEW q \in Process, cache'[q] # NoCache
               PROVE  /\ cache'[q].sig[1] <= Len(file) /\ cache'[q].sig[2] = "newline"
                      /\ cache'[q].sig = Signature => cache'[q].events = file
    BY <1>1, <1>7 DEF CachesFit, CacheHit, Signature
  <2>1. CASE q = p
    <3>1. cache'[q].sig = Signature /\ cache'[q].events = file
      BY <1>8, <2>1 DEF IInv, TypeOK
    <3>. QED  BY <1>2, <1>4, <3>1 DEF Signature
  <2>2. CASE q # p
    BY <1>8, <2>2 DEF IInv, TypeOK, CachesFit, CacheHit
  <2>. QED  BY <2>1, <2>2
<1>. QED  BY <1>7, <1>10, <1>11, <1>13, <1>14 DEF IInv

(* An error leaves the caches alone, a crash empties one of them. *)
LEMMA LeaveAppendPreserves ==
  ASSUME IInv, NEW p \in Process, AppendError(p) \/ Crash(p)
  PROVE  IInv'
<1>1. /\ Unlock(p) /\ UNCHANGED <<file, ending, head>>
      /\ cache' = cache \/ cache' = [cache EXCEPT ![p] = NoCache]
  BY DEF AppendError, Crash
<1>2. TypeOK' /\ LockDiscipline'
  BY <1>1, UnlockEffect DEF IInv, TypeOK
<1>3. ChainIntact' /\ HeadAnchorsFile' /\ (HeadExact => HeadExact')
  BY <1>1 DEF IInv, ChainIntact, HeadAnchorsFile, HeadExact
<1>4. \A q \in Process : q # p => pc'[q] = pc[q] /\ draft'[q] = draft[q] /\ cache'[q] = cache[q]
  BY <1>1, UnlockEffect DEF IInv, TypeOK
<1>5. pc'[p] = "idle"
  BY <1>1, UnlockEffect
<1>6. DraftFits'
  BY <1>1, <1>3, <1>4, <1>5 DEF IInv, DraftFits
<1>7. DraftWritten'
  BY <1>1, <1>4, <1>5 DEF IInv, DraftWritten
<1>8. CachesFit'
  BY <1>1, <1>3 DEF IInv, TypeOK, CachesFit, CacheHit, Signature
<1>. QED  BY <1>2, <1>3, <1>6, <1>7, <1>8 DEF IInv

LEMMA StutterPreserves ==
  ASSUME IInv, UNCHANGED vars
  PROVE  IInv'
BY DEF IInv, vars, TypeOK, ChainIntact, HeadAnchorsFile, LockDiscipline, DraftFits,
       DraftWritten, CachesFit, HeadExact, CacheHit, Signature

LEMMA StepPreserves == IInv /\ [Next]_vars => IInv'
BY ReadPreserves, BeginAppendPreserves, WriteRecordPreserves, ShortWritePreserves,
   PublishHeadPreserves, LeaveAppendPreserves, StutterPreserves DEF Next

(* The inductive invariant holds in every reachable state. *)
THEOREM Inductive == Spec => []IInv
BY InitEstablishes, StepPreserves, PTL DEF Spec

(* Every variable of the ledger keeps its type. *)
THEOREM TypeCorrect == Spec => []TypeOK
BY Inductive, PTL DEF IInv

(* No interleaving, crash or stale cache breaks the hash chain: append     *)
(* always extends the tail that is in the file.                            *)
THEOREM ChainNeverBreaks == Spec => []ChainIntact
BY Inductive, PTL DEF IInv

(* The head anchor is exact or one record behind, never ahead.             *)
THEOREM HeadIsAnchored == Spec => []HeadAnchorsFile
BY Inductive, PTL DEF IInv

(* A process that skips validation on a cache hit skips nothing.           *)
THEOREM CacheIsSafe == Spec => []CacheCoherent
<1>1. IInv => CacheCoherent
  BY DEF IInv, CacheCoherent, CachesFit, CacheHit
<1>. QED  BY <1>1, Inductive, PTL

(* A torn record stays the last thing in the file.                         *)
THEOREM TornEndsTheLedger == Spec => TornIsFinal
<1>1. IInv /\ [Next]_vars => [ending = "torn" => UNCHANGED <<file, head>>]_vars
  <2>. SUFFICES ASSUME IInv, Next, ending = "torn"
               PROVE  UNCHANGED <<file, head>>
    OBVIOUS
  <2>. PICK p \in Process : \/ Read(p)
                            \/ \E type \in Types, t \in Txn : BeginAppend(p, type, t)
                            \/ WriteRecord(p) \/ ShortWrite(p) \/ PublishHead(p)
                            \/ AppendError(p) \/ Crash(p)
    BY DEF Next
  <2>1. ~Read(p)
    BY DEF Read, Readable
  <2>2. ASSUME NEW type \in Types, NEW t \in Txn, BeginAppend(p, type, t)
        PROVE  UNCHANGED <<file, head>>
    BY <2>2 DEF BeginAppend, ReadForAppend, Readable
  <2>3. ~WriteRecord(p) /\ ~PublishHead(p)
    BY DEF IInv, DraftFits, DraftWritten, WriteRecord, PublishHead
  <2>4. ShortWrite(p) \/ AppendError(p) \/ Crash(p) => UNCHANGED <<file, head>>
    BY DEF ShortWrite, AppendError, Crash
  <2>. QED  BY <2>1, <2>2, <2>3, <2>4
<1>. QED  BY <1>1, Inductive, PTL DEF Spec, TornIsFinal

(* The log's copy of the contract is the ledger's. *)
LEMMA SameContract ==
  ASSUME NEW log, NEW t, NEW type
  PROVE  Log!ValidateAppend(Log!History(log, t), type) <=> ValidateAppend(History(log, t), type)
<1>1. Log!History(log, t) = History(log, t)
  BY Zenon DEF Log!History, History, Log!OwnUpTo, OwnUpTo,
     Log!Place, Place, Log!Cardinality, Cardinality
<1>2. ASSUME NEW h PROVE Log!ValidateAppend(h, type) <=> ValidateAppend(h, type)
  BY Zenon DEF Log!ValidateAppend, ValidateAppend, Log!Has, Has, Log!Terminated, Terminated,
     Log!TerminalEventTypes, TerminalEventTypes, Log!PostTerminalTypes, PostTerminalTypes,
     Log!Predecessors, Predecessors, Log!CompletionRequires, CompletionRequires
<1>. QED  BY <1>1, <1>2

(* The protocol with its lock, anchor and caches implements the plain      *)
(* append-only log.                                                        *)
THEOREM LedgerImplementsLog == Spec => ImplementsLog
<1>1. Init => Log!Init
  BY DEF Init, Log!Init, Contents
<1>2. IInv /\ [Next]_vars => [Log!Next]_(Log!logVars)
  <2>. SUFFICES ASSUME IInv, [Next]_vars
               PROVE  Log!Next \/ UNCHANGED Log!logVars
    OBVIOUS
  <2>1. CASE UNCHANGED <<file, ending>>
    BY <2>1 DEF Log!logVars, Contents
  <2>2. ASSUME NEW p \in Process, ShortWrite(p)
        PROVE  Log!Next
    BY <2>2 DEF ShortWrite, Log!Next, Log!Tear, Contents
  <2>3. ASSUME NEW p \in Process, WriteRecord(p)
        PROVE  Log!Next
    <3>1. /\ draft[p] \in Event /\ ending = "newline" /\ UNCHANGED ending
          /\ file' = Append(file, draft[p])
          /\ ValidateAppend(History(Contents(file), draft[p].content[2]), draft[p].content[1])
      BY <2>3 DEF IInv, DraftFits, WriteRecord
    <3>2. PICK type \in Types, t \in Txn : draft[p].content = <<type, t>>
      BY <3>1 DEF Event, Content
    <3>3. Contents(file') = Append(Contents(file), <<type, t>>)
      BY <3>1, <3>2 DEF IInv, TypeOK, Contents
    <3>4. Log!Record(type, t)
      BY <3>1, <3>2, <3>3, SameContract DEF Log!Record
    <3>. QED  BY <3>4 DEF Log!Next
  <2>4. \/ UNCHANGED <<file, ending>>
        \/ \E p \in Process : ShortWrite(p) \/ WriteRecord(p)
    BY DEF Next, vars, Read, BeginAppend, PublishHead, AppendError, Crash
  <2>. QED  BY <2>1, <2>2, <2>3, <2>4
<1>. QED  BY <1>1, <1>2, Inductive, PTL DEF Spec, ImplementsLog, Log!Spec
-----------------------------------------------------------------------------
(***************************************************************************)
(* What the append admits, and what the next read wants beyond it.  Every  *)
(* type of the contract may be recorded.  The read asks five things that   *)
(* no append checks; a process that keeps to them, whatever it records,    *)
(* never leaves a ledger the read refuses.                                 *)
(***************************************************************************)
InReadOrder(h, type) ==
  /\ type = "SessionLaunched" => Has(h, "SnapshotCaptured")
  /\ type = "LeaseAcquired" =>
        \A i \in DOMAIN h : h[i] = "LeaseAcquired" =>
           \E j \in DOMAIN h : i < j /\ h[j] = "RecoveryApplied"
  /\ type = "TransactionCompleted" => ~Has(h, "LeaseReleased")
  /\ type = "LeaseReleased" => ~Has(h, "ProjectionUpdated")
  /\ type = "ProjectionUpdated" => Terminated(h)

\* The record p writes keeps to it, in the ledger as it is.
WritesInReadOrder(p) ==
  InReadOrder(History(Contents(file), draft[p].content[2]), draft[p].content[1])

\* what an append asks for before a type is there
Closed(h) ==
  /\ \A pre \in Predecessors : Has(h, pre[2]) => Has(h, pre[1])
  /\ Has(h, "SessionLaunched") => Has(h, "SnapshotCaptured")

Below == {pair \in Nat \X Nat : pair[1] < pair[2]}

LEMMA LeastNatural ==
  ASSUME NEW S, S \subseteq Nat, S # {}
  PROVE  \E m \in S : \A n \in S : m <= n
<1>1. IsWellFoundedOn(Below, Nat)
  BY NatLessThanWellFounded DEF OpToRel, Below
<1>2. PICK m \in S : \A n \in S : <<n, m>> \notin Below
  BY <1>1, WFMin
<1>3. \A n \in S : ~(n < m)
  BY <1>2 DEF Below
<1>. QED  BY <1>3

LEMMA FirstIsThere ==
  ASSUME NEW S, NEW h \in Seq(S), NEW n, Has(h, n)
  PROVE  FirstAt(h, n) \in DOMAIN h /\ h[FirstAt(h, n)] = n
<1>. DEFINE At == {i \in DOMAIN h : h[i] = n}
<1>1. DOMAIN h = 1..Len(h) /\ Len(h) \in Nat
  OBVIOUS
<1>2. PICK i \in At : \A j \in At : i <= j
  <2>1. At \subseteq Nat /\ At # {}
    BY <1>1 DEF Has
  <2>. HIDE DEF At
  <2>. QED  BY <2>1, LeastNatural
<1>3. \A j \in 1..(i-1) : h[j] # n
  BY <1>1, <1>2
<1>. QED  BY <1>2, <1>3 DEF FirstAt

\* The first places of an extended history.
LEMMA FirstAfterAppend ==
  ASSUME NEW S, NEW h \in Seq(S), NEW type \in S, NEW n
  PROVE  /\ Has(Append(h, type), n) <=> Has(h, n) \/ n = type
         /\ Has(h, n) => FirstAt(Append(h, type), n) = FirstAt(h, n)
         /\ ~Has(h, n) /\ n = type => FirstAt(Append(h, type), n) = Len(h) + 1
<1>. DEFINE g == Append(h, type)
<1>1. /\ Len(h) \in Nat /\ DOMAIN h = 1..Len(h) /\ DOMAIN g = 1..(Len(h) + 1)
      /\ \A i \in DOMAIN h : g[i] = h[i]
      /\ g[Len(h) + 1] = type
  OBVIOUS
<1>. HIDE DEF g
<1>2. Has(g, n) <=> Has(h, n) \/ n = type
  BY <1>1 DEF Has
<1>3. ASSUME Has(h, n) PROVE FirstAt(g, n) = FirstAt(h, n)
  <2>1. PICK k \in DOMAIN h : h[k] = n
    BY <1>3 DEF Has
  <2>2. \A i \in DOMAIN g : \A j \in 1..(i-1) : j \in DOMAIN h
    BY <1>1
  <2>3. ASSUME NEW i \in DOMAIN g
        PROVE  g[i] = n /\ (\A j \in 1..(i-1) : g[j] # n)
                 <=> i \in DOMAIN h /\ h[i] = n /\ (\A j \in 1..(i-1) : h[j] # n)
    <3>1. (\A j \in 1..(i-1) : g[j] # n) <=> \A j \in 1..(i-1) : h[j] # n
      BY <1>1, <2>2, <2>3
    <3>2. CASE i \in DOMAIN h
      BY <1>1, <3>1, <3>2
    <3>3. CASE i \notin DOMAIN h
      <4>1. k \in 1..(i-1)
        BY <1>1, <2>1, <2>3, <3>3
      <4>. QED  BY <1>1, <2>1, <3>3, <4>1
    <3>. QED  BY <3>2, <3>3
  <2>4. DOMAIN h \subseteq DOMAIN g
    BY <1>1
  <2>. QED  BY <2>3, <2>4 DEF FirstAt
<1>4. ASSUME ~Has(h, n), n = type PROVE FirstAt(g, n) = Len(h) + 1
  <2>1. \A i \in DOMAIN g : g[i] = n <=> i = Len(h) + 1
    BY <1>1, <1>4 DEF Has
  <2>2. Len(h) + 1 \in DOMAIN g /\ \A j \in 1..Len(h) : g[j] # n
    BY <1>1, <2>1
  <2>3. (Len(h) + 1) - 1 = Len(h)
    BY <1>1
  <2>. QED  BY <2>1, <2>2, <2>3 DEF FirstAt
<1>. QED  BY <1>2, <1>3, <1>4 DEF g

LEMMA AppendIsReadable ==
  ASSUME NEW S, NEW h \in Seq(S), NEW type \in S,
         ValidateHistory(h), Closed(h), ValidateAppend(h, type), InReadOrder(h, type)
  PROVE  /\ Append(h, type) \in Seq(S)
         /\ ValidateHistory(Append(h, type))
         /\ Closed(Append(h, type))
<1>. DEFINE g == Append(h, type)
<1>1. /\ Len(h) \in Nat /\ DOMAIN h = 1..Len(h) /\ DOMAIN g = 1..(Len(h) + 1)
      /\ Len(g) = Len(h) + 1
      /\ \A i \in DOMAIN h : g[i] = h[i]
      /\ g[Len(h) + 1] = type
      /\ g \in Seq(S) /\ g # <<>>
      /\ h # <<>> <=> Len(h) # 0
  <2>1. /\ Len(h) \in Nat /\ DOMAIN h = 1..Len(h)
        /\ h # <<>> <=> Len(h) # 0
    OBVIOUS
  <2>2. g \in Seq(S) /\ Len(g) = Len(h) + 1
    OBVIOUS
  <2>3. g[Len(h) + 1] = type /\ \A i \in 1..Len(h) : g[i] = h[i]
    OBVIOUS
  <2>4. DOMAIN g = 1..(Len(h) + 1) /\ g # <<>>
    BY <2>1, <2>2
  <2>. QED  BY <2>1, <2>2, <2>3, <2>4
<1>2. \A n : /\ Has(g, n) <=> Has(h, n) \/ n = type
             /\ Has(h, n) => FirstAt(g, n) = FirstAt(h, n)
             /\ ~Has(h, n) /\ n = type => FirstAt(g, n) = Len(h) + 1
  BY FirstAfterAppend
<1>3. Terminated(h) => Terminated(g)
  BY <1>2 DEF Terminated
<1>. HIDE DEF g
<1>4. type = "TransactionStarted" <=> h = <<>>
  BY DEF ValidateAppend
<1>5. Closed(g)
  <2>0. Has(g, "SessionLaunched") => Has(g, "SnapshotCaptured")
    BY <1>2 DEF Closed, InReadOrder
  <2>. SUFFICES ASSUME NEW pre \in Predecessors, Has(g, pre[2])
                PROVE  Has(g, pre[1])
    BY <2>0 DEF Closed
  <2>1. CASE Has(h, pre[2])
    BY <1>2, <2>1 DEF Closed
  <2>2. CASE pre[2] = type
    <3>1. type # "TransactionStarted"
      BY <2>2 DEF Predecessors
    <3>. QED  BY <1>2, <2>2, <3>1 DEF ValidateAppend
  <2>. QED  BY <1>2, <2>1, <2>2
<1>6. g[1] = "TransactionStarted" /\ \A i \in 2..Len(g) : g[i] # "TransactionStarted"
  <2>1. CASE h = <<>>
    BY <1>1, <1>4, <2>1
  <2>2. CASE h # <<>>
    <3>1. h[1] = "TransactionStarted" /\ \A i \in 2..Len(h) : h[i] # "TransactionStarted"
      BY <2>2 DEF ValidateHistory
    <3>2. 1 \in DOMAIN h
      BY <1>1, <2>2
    <3>3. \A i \in 2..Len(g) : (i \in 2..Len(h) /\ i \in DOMAIN h) \/ i = Len(h) + 1
      BY <1>1
    <3>. QED  BY <1>1, <1>4, <2>2, <3>1, <3>2, <3>3
  <2>. QED  BY <2>1, <2>2
<1>7. TerminalImmutable(g)
  <2>. SUFFICES ASSUME NEW i \in DOMAIN g, NEW k \in DOMAIN g, i < k, g[i] \in TerminalEventTypes
                PROVE  g[k] \in PostTerminalTypes
    BY DEF TerminalImmutable
  <2>1. i \in DOMAIN h /\ h[i] \in TerminalEventTypes
    BY <1>1
  <2>2. h # <<>> /\ Terminated(h)
    BY <1>1, <2>1 DEF Terminated, Has
  <2>3. CASE k \in DOMAIN h
    BY <1>1, <2>1, <2>2, <2>3 DEF ValidateHistory, TerminalImmutable
  <2>4. CASE k = Len(h) + 1
    BY <1>1, <1>4, <2>2, <2>4 DEF ValidateAppend
  <2>. QED  BY <1>1, <2>3, <2>4
<1>8. LeasesAuthorized(g)
  <2>. SUFFICES ASSUME NEW i \in DOMAIN g, NEW k \in DOMAIN g, i < k,
                       g[i] = "LeaseAcquired", g[k] = "LeaseAcquired",
                       \A j \in (i+1)..(k-1) : g[j] # "LeaseAcquired"
                PROVE  \E j \in (i+1)..(k-1) : g[j] = "RecoveryApplied"
    BY DEF LeasesAuthorized
  <2>1. i \in DOMAIN h /\ h[i] = "LeaseAcquired" /\ i \in Nat
    BY <1>1
  <2>2. CASE k \in DOMAIN h
    <3>1. \A j \in (i+1)..(k-1) : j \in DOMAIN h /\ h[j] = g[j]
      BY <1>1, <2>2
    <3>2. h # <<>> /\ LeasesAuthorized(h) /\ h[k] = "LeaseAcquired"
      BY <1>1, <2>2 DEF ValidateHistory
    <3>3. PICK j \in (i+1)..(k-1) : h[j] = "RecoveryApplied"
      BY <2>1, <2>2, <3>1, <3>2 DEF LeasesAuthorized
    <3>. QED  BY <3>1, <3>3
  <2>3. CASE k = Len(h) + 1
    <3>1. type = "LeaseAcquired"
      BY <1>1, <2>3
    <3>2. PICK j \in DOMAIN h : i < j /\ h[j] = "RecoveryApplied"
      BY <2>1, <3>1 DEF InReadOrder
    <3>3. j \in (i+1)..(k-1) /\ g[j] = h[j]
      BY <1>1, <2>1, <2>3, <3>2
    <3>. QED  BY <3>2, <3>3
  <2>. QED  BY <1>1, <2>2, <2>3
<1>9. ASSUME NEW pair \in OrderedPairs, Has(g, pair[1]), Has(g, pair[2])
      PROVE  FirstAt(g, pair[1]) < FirstAt(g, pair[2])
  <2>3. pair[1] # pair[2]
    BY DEF OrderedPairs
  <2>4. CASE Has(h, pair[2])
    <3>1. h # <<>>
      BY <1>1, <2>4 DEF Has
    <3>2. Has(h, pair[1])
      <4>1. type # "TransactionStarted" /\ (Terminated(h) => type \in PostTerminalTypes)
        BY <1>4, <3>1 DEF ValidateAppend
      <4>2. CASE pair \in Predecessors \/ pair = <<"SnapshotCaptured", "SessionLaunched">>
        BY <2>4, <4>2 DEF Closed
      <4>3. CASE pair = <<"CommitFinalized", "TransactionCompleted">>
        <5>1. Terminated(h)
          BY <2>4, <4>3 DEF Terminated, TerminalEventTypes
        <5>2. type # "CommitFinalized"
          BY <4>1, <5>1 DEF PostTerminalTypes
        <5>. QED  BY <1>2, <1>9, <4>3, <5>2
      <4>4. CASE pair \in {<<"TransactionCompleted", "LeaseReleased">>,
                           <<"LeaseReleased", "ProjectionUpdated">>}
        BY <1>2, <1>9, <2>4, <4>4 DEF InReadOrder
      <4>5. CASE pair[1] = "TransactionStarted"
        BY <1>2, <1>9, <4>1, <4>5
      <4>. QED  BY <4>2, <4>3, <4>4, <4>5 DEF OrderedPairs, Predecessors
    <3>. QED  BY <1>2, <1>9, <2>4, <3>1, <3>2 DEF ValidateHistory
  <2>5. CASE ~Has(h, pair[2])
    <3>1. pair[2] = type /\ FirstAt(g, pair[2]) = Len(h) + 1
      BY <1>2, <1>9, <2>5
    <3>2. Has(h, pair[1])
      BY <1>2, <1>9, <2>3, <3>1
    <3>3. FirstAt(g, pair[1]) \in DOMAIN h
      BY <1>2, <3>2, FirstIsThere
    <3>. QED  BY <1>1, <3>1, <3>3
  <2>. QED  BY <2>4, <2>5
<1>10. /\ Has(g, "SessionResultAccepted") => Has(g, "SessionLaunched")
       /\ Has(g, "ValidationPassed") => Has(g, "ValidationStarted")
       /\ Has(g, "CommitFinalized") => Has(g, "ValidationPassed")
  BY <1>5 DEF Closed, Predecessors
<1>11. /\ Has(g, "ProjectionUpdated") => Terminated(g)
       /\ Has(g, "TransactionCompleted") => \A n \in CompletionRequires : Has(g, n)
  <2>1. Has(h, "ProjectionUpdated") \/ Has(h, "TransactionCompleted") => h # <<>>
    BY <1>1 DEF Has
  <2>2. Has(h, "ProjectionUpdated") => Terminated(h)
    BY <2>1 DEF ValidateHistory
  <2>3. Has(h, "TransactionCompleted") => \A n \in CompletionRequires : Has(h, n)
    BY <2>1 DEF ValidateHistory
  <2>4. type = "ProjectionUpdated" => Terminated(h)
    BY DEF InReadOrder
  <2>5. type = "TransactionCompleted" => \A n \in CompletionRequires : Has(h, n)
    BY DEF ValidateAppend
  <2>. QED  BY <1>2, <1>3, <2>2, <2>3, <2>4, <2>5
<1>12. ValidateHistory(g)
  BY <1>6, <1>7, <1>8, <1>9, <1>10, <1>11 DEF ValidateHistory
<1>. QED  BY <1>1, <1>5, <1>12 DEF g

\* Every record of t is its n-th for some n: counting them misses none.
LEMMA EveryCountIsReached ==
  ASSUME NEW S, NEW log \in Seq(S), NEW t,
         NEW k \in 1..Cardinality(OwnUpTo(log, t, Len(log)))
  PROVE  \E i \in OwnUpTo(log, t, Len(log)) : Cardinality(OwnUpTo(log, t, i)) = k
<1>. DEFINE reached == {i \in 0..Len(log) : k <= Cardinality(OwnUpTo(log, t, i))}
<1>1. Len(log) \in Nat /\ DOMAIN log = 1..Len(log)
  OBVIOUS
<1>2. ASSUME NEW i \in 0..Len(log)
      PROVE  IsFiniteSet(OwnUpTo(log, t, i)) /\ Cardinality(OwnUpTo(log, t, i)) \in Nat
  <2>1. OwnUpTo(log, t, i) \in SUBSET (1..Len(log))
    BY <1>1 DEF OwnUpTo
  <2>2. IsFiniteSet(1..Len(log))
    BY <1>1, FS_Interval
  <2>. QED  BY <2>1, <2>2, FS_Subset, FS_CardinalityType
<1>3. k \in Nat /\ k # 0
  BY <1>1, <1>2
<1>4. Len(log) \in reached /\ reached \subseteq Nat
  BY <1>1, <1>2
<1>5. PICK m \in reached : \A i \in reached : m <= i
  BY <1>4, LeastNatural
<1>6. m # 0
  <2>1. OwnUpTo(log, t, 0) = {}
    BY <1>1 DEF OwnUpTo
  <2>2. Cardinality(OwnUpTo(log, t, 0)) = 0
    BY <2>1, FS_EmptySet
  <2>. QED  BY <1>3, <1>5, <2>2
<1>7. m \in 1..Len(log) /\ m - 1 \in 0..Len(log) /\ m - 1 \notin reached
  BY <1>1, <1>4, <1>5, <1>6
<1>8. PICK before : before = OwnUpTo(log, t, m - 1)
  OBVIOUS
<1>9. OwnUpTo(log, t, m) = IF log[m][2] = t THEN before \cup {m} ELSE before
  BY <1>1, <1>7, <1>8 DEF OwnUpTo
<1>10. m \notin before
  BY <1>1, <1>7, <1>8 DEF OwnUpTo
<1>11. IsFiniteSet(before) /\ Cardinality(before) \in Nat /\ Cardinality(before) < k
  BY <1>2, <1>3, <1>7, <1>8
<1>12. k <= Cardinality(OwnUpTo(log, t, m))
  BY <1>5
<1>13. log[m][2] = t
  BY <1>3, <1>9, <1>11, <1>12
<1>14. Cardinality(OwnUpTo(log, t, m)) = k
  <2>1. Cardinality(before \cup {m}) = Cardinality(before) + 1
    BY <1>10, <1>11, FS_AddElement
  <2>. QED  BY <1>3, <1>9, <1>11, <1>12, <1>13, <2>1
<1>15. m \in OwnUpTo(log, t, Len(log))
  BY <1>1, <1>7, <1>13 DEF OwnUpTo
<1>. QED  BY <1>14, <1>15

\* A place is known by its count.
LEMMA PlaceOf ==
  ASSUME NEW S, NEW log \in Seq(S), NEW t, NEW i \in OwnUpTo(log, t, Len(log))
  PROVE  Place(log, t, Cardinality(OwnUpTo(log, t, i))) = i
<1>1. Len(log) \in Nat /\ DOMAIN log = 1..Len(log)
  OBVIOUS
<1>2. ASSUME NEW a \in OwnUpTo(log, t, Len(log)), NEW b \in OwnUpTo(log, t, Len(log)),
             Cardinality(OwnUpTo(log, t, a)) = Cardinality(OwnUpTo(log, t, b)), a <= b
      PROVE  a = b
  <2>1. OwnUpTo(log, t, b) \in SUBSET (1..Len(log)) /\ IsFiniteSet(1..Len(log))
    BY <1>1, FS_Interval DEF OwnUpTo
  <2>2. OwnUpTo(log, t, a) \in SUBSET OwnUpTo(log, t, b)
    BY <1>1, <1>2 DEF OwnUpTo
  <2>3. OwnUpTo(log, t, a) = OwnUpTo(log, t, b)
    BY <1>2, <2>1, <2>2, FS_Subset
  <2>4. b \in OwnUpTo(log, t, b)
    BY <1>1 DEF OwnUpTo
  <2>. QED  BY <1>1, <1>2, <2>3, <2>4 DEF OwnUpTo
<1>3. \A a, b \in OwnUpTo(log, t, Len(log)) : a <= b \/ b <= a
  BY <1>1 DEF OwnUpTo
<1>4. \A a, b \in OwnUpTo(log, t, Len(log)) :
         Cardinality(OwnUpTo(log, t, a)) = Cardinality(OwnUpTo(log, t, b)) => a = b
  BY <1>2, <1>3
<1>. QED  BY <1>4 DEF Place

\* What one record more does to the histories.
LEMMA HistoryGrows ==
  ASSUME NEW S, NEW log \in Seq(S), NEW e \in S, NEW t
  PROVE  History(Append(log, e), t) =
           IF e[2] = t THEN Append(History(log, t), e[1]) ELSE History(log, t)
<1>1a. PICK n \in Nat : n = Len(log)
  OBVIOUS
<1>1b. PICK own, c : own = OwnUpTo(log, t, n) /\ c = Cardinality(own)
  OBVIOUS
<1>1. n = Len(log) /\ own = OwnUpTo(log, t, n) /\ c = Cardinality(own)
  BY <1>1a, <1>1b
<1>2. PICK more \in Seq(S) : more = Append(log, e)
  <2>1. Append(log, e) \in Seq(S)
    OBVIOUS
  <2>. QED  BY <2>1
<1>3. /\ Len(more) = n + 1 /\ DOMAIN log = 1..n /\ DOMAIN more = 1..(n + 1)
      /\ \A i \in 1..n : more[i] = log[i]
      /\ more[n + 1] = e
  BY <1>1, <1>2
<1>4. own \subseteq 1..n
  BY <1>1, <1>3 DEF OwnUpTo
<1>5. \A i \in 1..n : OwnUpTo(more, t, i) = OwnUpTo(log, t, i)
  BY <1>3 DEF OwnUpTo
<1>6. OwnUpTo(more, t, n + 1) = IF e[2] = t THEN own \cup {n + 1} ELSE own
  BY <1>1, <1>3 DEF OwnUpTo
<1>7. IsFiniteSet(own) /\ c \in Nat
  <2>1. IsFiniteSet(1..n) /\ own \in SUBSET (1..n)
    BY <1>1, <1>4, FS_Interval
  <2>. QED  BY <1>1, <2>1, FS_Subset, FS_CardinalityType
<1>8. ASSUME NEW k \in 1..c
      PROVE  Place(log, t, k) \in own /\ Place(more, t, k) = Place(log, t, k)
  <2>1. PICK i \in own : Cardinality(OwnUpTo(log, t, i)) = k
    BY <1>1, EveryCountIsReached
  <2>2. Place(log, t, k) = i
    BY <1>1, <2>1, PlaceOf
  <2>3. i \in OwnUpTo(more, t, Len(more)) /\ Cardinality(OwnUpTo(more, t, i)) = k
    BY <1>3, <1>4, <1>5, <1>6, <2>1
  <2>4. Place(more, t, k) = i
    BY <1>2, <2>3, PlaceOf
  <2>. QED  BY <2>2, <2>4
<1>9. \A k \in 1..c : more[Place(more, t, k)] = log[Place(log, t, k)]
  BY <1>3, <1>4, <1>8
<1>10. /\ History(log, t) = [k \in 1..c |-> log[Place(log, t, k)][1]]
       /\ History(more, t) = [k \in 1..Cardinality(OwnUpTo(more, t, n + 1)) |->
                                more[Place(more, t, k)][1]]
  BY <1>1, <1>3 DEF History
<1>11. CASE e[2] = t
  <2>1. n + 1 \notin own
    BY <1>1, <1>4
  <2>2. Cardinality(OwnUpTo(more, t, n + 1)) = c + 1
    BY <1>1, <1>6, <1>7, <1>11, <2>1, FS_AddElement
  <2>3. Place(more, t, c + 1) = n + 1
    BY <1>2, <1>3, <1>6, <1>11, <2>2, PlaceOf
  <2>4. PICK old, new : /\ old = History(log, t)
                        /\ new = [k \in 1..(c + 1) |-> more[Place(more, t, k)][1]]
    OBVIOUS
  <2>5. new = History(more, t)
    BY <1>10, <2>2, <2>4
  <2>6. PICK R : R = {log[Place(log, t, k)][1] : k \in 1..c}
    OBVIOUS
  <2>7. old \in Seq(R) /\ Len(old) = c
    BY <1>7, <1>10, <2>4, <2>6
  <2>8. /\ \A k \in 1..c : new[k] = old[k]
        /\ new[c + 1] = e[1]
        /\ DOMAIN new = 1..(c + 1)
    BY <1>3, <1>7, <1>9, <1>10, <2>3, <2>4
  <2>9. Append(old, e[1]) = [k \in 1..(c + 1) |-> IF k = c + 1 THEN e[1] ELSE old[k]]
    BY <1>7, <2>7
  <2>10. new = [k \in 1..(c + 1) |-> IF k = c + 1 THEN e[1] ELSE old[k]]
    <3>1. \A k \in 1..(c + 1) : new[k] = IF k = c + 1 THEN e[1] ELSE old[k]
      BY <1>7, <2>8
    <3>2. new = [k \in 1..(c + 1) |-> new[k]]
      BY <2>4
    <3>. QED  BY <3>1, <3>2
  <2>. QED  BY <1>2, <1>11, <2>4, <2>5, <2>9, <2>10
<1>12. CASE e[2] # t
  <2>1. Cardinality(OwnUpTo(more, t, n + 1)) = c
    BY <1>1, <1>6, <1>12
  <2>. QED  BY <1>2, <1>9, <1>10, <1>12, <2>1
<1>. QED  BY <1>11, <1>12

\* what appends have built, the read accepts
HistoriesKept ==
  \A t \in Txn : /\ History(Contents(file), t) \in Seq(Types)
                 /\ ValidateHistory(History(Contents(file), t))
                 /\ Closed(History(Contents(file), t))

LEMMA NoHistoryAtFirst ==
  ASSUME Init
  PROVE  HistoriesKept
<1>1. Contents(file) = <<>> /\ Len(<<>>) = 0
  BY DEF Init, Contents
<1>2. ASSUME NEW t \in Txn PROVE History(Contents(file), t) = <<>>
  <2>1. OwnUpTo(Contents(file), t, Len(Contents(file))) = {}
    BY <1>1 DEF OwnUpTo
  <2>. QED  BY <2>1, FS_EmptySet DEF History
<1>3. ValidateHistory(<<>>) /\ Closed(<<>>)
  <2>1. ValidateHistory(<<>>)
    BY DEF ValidateHistory
  <2>2. \A n : ~Has(<<>>, n)
    BY DEF Has
  <2>. QED  BY <2>1, <2>2 DEF Closed
<1>4. <<>> \in Seq(Types)
  OBVIOUS
<1>. QED  BY <1>2, <1>3, <1>4 DEF HistoriesKept

LEMMA WriteKeepsHistories ==
  ASSUME IInv, HistoriesKept, NEW p \in Process, WriteRecord(p), WritesInReadOrder(p)
  PROVE  HistoriesKept'
<1>1. /\ draft[p] \in Event /\ file \in Seq(Event) /\ file' = Append(file, draft[p])
      /\ ValidateAppend(History(Contents(file), draft[p].content[2]), draft[p].content[1])
      /\ InReadOrder(History(Contents(file), draft[p].content[2]), draft[p].content[1])
  BY DEF IInv, TypeOK, DraftFits, WriteRecord, WritesInReadOrder
<1>2. PICK type \in Types, t \in Txn : draft[p].content = <<type, t>>
  BY <1>1 DEF Event, Content
<1>3. PICK e \in Content : e = <<type, t>>
  BY DEF Content
<1>4. PICK log : log = Contents(file)
  OBVIOUS
<1>5. log \in Seq(Content)
  <2>1. /\ Len(file) \in Nat /\ DOMAIN file = 1..Len(file)
        /\ \A i \in DOMAIN file : file[i] \in Event
    BY <1>1
  <2>2. \A i \in DOMAIN file : file[i].content \in Content
    BY <2>1 DEF Event
  <2>. QED  BY <1>4, <2>1, <2>2 DEF Contents
<1>6. Contents(file') = Append(log, e)
  BY <1>1, <1>2, <1>3, <1>4 DEF Contents
<1>7. ASSUME NEW u \in Txn
      PROVE  LET h == History(Contents(file'), u)
             IN  h \in Seq(Types) /\ ValidateHistory(h) /\ Closed(h)
  <2>1. PICK h : h = History(log, u)
    OBVIOUS
  <2>2. h \in Seq(Types) /\ ValidateHistory(h) /\ Closed(h)
    BY <1>4, <2>1 DEF HistoriesKept
  <2>3. History(Contents(file'), u) = IF u = t THEN Append(h, type) ELSE h
    BY <1>3, <1>5, <1>6, <2>1, HistoryGrows
  <2>4. u = t => ValidateAppend(h, type) /\ InReadOrder(h, type)
    BY <1>1, <1>2, <1>4, <2>1
  <2>5. u = t => LET g == Append(h, type)
                 IN  g \in Seq(Types) /\ ValidateHistory(g) /\ Closed(g)
    BY <2>2, <2>4, AppendIsReadable
  <2>. QED  BY <2>2, <2>3, <2>5
<1>. QED  BY <1>7 DEF HistoriesKept

\* A whole chain and its anchor pass the checks of a read.
LEMMA AnchorVerifies ==
  ASSUME IInv, head # NoHead
  PROVE  HeadVerified
<1>1. PICK n \in Nat : n = Len(file)
  BY DEF IInv, TypeOK
<1>2. PICK k \in 1..n : k = head.seq /\ n <= k + 1 /\ head = Anchor(file[k])
  BY <1>1 DEF IInv, HeadAnchorsFile
<1>3. DOMAIN file = 1..n /\ file # <<>> /\ file[k].seq = k
  BY <1>1, <1>2 DEF IInv, TypeOK, ChainIntact, ChainValid
<1>4. CASE n = k
  BY <1>1, <1>2, <1>3, <1>4 DEF HeadVerified, HeadExact
<1>5. CASE n = k + 1
  <2>1. n \in DOMAIN file /\ n # 1 /\ n - 1 = k
    <3>1. k \in Nat /\ k # 0
      BY <1>1
    <3>. QED  BY <1>3, <1>5, <3>1
  <2>2. file[n].seq = n /\ file[n].prev = Fingerprint(file[k])
    BY <2>1 DEF IInv, ChainIntact, ChainValid
  <2>3. head.fingerprint = Fingerprint(file[k])
    BY <1>2 DEF Anchor
  <2>. QED  BY <1>1, <1>2, <1>3, <1>5, <2>2, <2>3 DEF HeadVerified, HeadOneBehind
<1>. QED  BY <1>1, <1>2, <1>4, <1>5

(* What any number of processes have appended, each after its own check,   *)
(* every later read accepts, wherever one of them died or failed: chain,   *)
(* anchor and the complete contract (read, _validate, _validate_append).   *)
(* Any record of the contract may be among them, if no process writes one  *)
(* of the five that only the read would refuse (InReadOrder).              *)
THEOREM LedgerStaysReadable ==
  Spec /\ [][\A p \in Process : WriteRecord(p) => WritesInReadOrder(p)]_vars
    => []ReadableOnceAnchored
<1>. DEFINE Step == \A p \in Process : WriteRecord(p) => WritesInReadOrder(p)
<1>1. Init => HistoriesKept
  BY NoHistoryAtFirst
<1>2. IInv /\ HistoriesKept /\ [Next]_vars /\ [Step]_vars => HistoriesKept'
  <2>. SUFFICES ASSUME IInv, HistoriesKept, [Next]_vars, [Step]_vars
                PROVE  HistoriesKept'
    OBVIOUS
  <2>1. CASE UNCHANGED file
    BY <2>1 DEF HistoriesKept, Contents
  <2>2. ASSUME NEW p \in Process, WriteRecord(p), Step
        PROVE  HistoriesKept'
    BY <2>2, WriteKeepsHistories
  <2>3. CASE UNCHANGED vars
    BY <2>1, <2>3 DEF vars
  <2>4. CASE Next /\ Step
    <3>1. UNCHANGED file \/ \E p \in Process : WriteRecord(p)
      BY <2>4 DEF Next, Read, BeginAppend, ShortWrite, PublishHead, AppendError, Crash
    <3>. QED  BY <2>1, <2>2, <2>4, <3>1
  <2>. QED  BY <2>3, <2>4
<1>3. IInv /\ HistoriesKept => ReadableOnceAnchored
  <2>1. IInv /\ head # NoHead => HeadVerified
    BY AnchorVerifies
  <2>2. IInv => ChainValid(file)
    BY DEF IInv, ChainIntact
  <2>. QED  BY <2>1, <2>2 DEF HistoriesKept, ReadableOnceAnchored, Readable, Validate
<1>. HIDE DEF Step
<1>4. Spec /\ [][Step]_vars => []ReadableOnceAnchored
  BY <1>1, <1>2, <1>3, Inductive, PTL DEF Spec
<1>. QED  BY <1>4 DEF Step
=============================================================================
