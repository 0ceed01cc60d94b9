--------------------------- MODULE EvidenceLedger ---------------------------
(***************************************************************************)
(* The durable protocol of EvidenceLedger (ledger.py).                     *)
(*                                                                         *)
(* One JSON-lines file and one head anchor beside it, shared by every      *)
(* controller process.  An append runs under an flock: it reads what is    *)
(* there (or trusts a per-process cache whose file signature still         *)
(* matches), chains the new record to the tail, writes and fsyncs it, and  *)
(* only then replaces the head anchor and refreshes the cache.  A process  *)
(* may die, and a system call may fail, between any two of these steps; a  *)
(* write may be short.                                                     *)
(*                                                                         *)
(* A fingerprint is the hash of a record that holds the previous           *)
(* fingerprint.  Hashes do not collide, so a fingerprint is modelled by    *)
(* what it stands for: the chain of contents that leads to the record.     *)
(***************************************************************************)
EXTENDS LedgerContract

CONSTANTS
  Process,     \* controller processes that open this ledger
  Txn,         \* transaction identities
  Types,       \* the event types the processes try to append
  MaxEvents,   \* bound on the length of the file
  NoProcess, NoHead, NoCache, NoDraft

ASSUME LedgerConstants ==
  /\ Types \subseteq EventTypes
  /\ MaxEvents \in Nat
  /\ NoProcess \notin Process
  /\ NoHead \notin [seq : Nat, fingerprint : Seq(Types \X Txn)]

VARIABLES
  file,    \* the complete records of the ledger file, in order
  ending,  \* how the file ends: "newline", or "torn" by a short write
  head,    \* the head anchor: sequence and fingerprint, or NoHead
  flock,   \* the process that holds the exclusive lock, or NoProcess
  pc,      \* where each process is inside append
  draft,   \* the record each process is about to write
  cache    \* each process's append cache: file signature and events

vars == <<file, ending, head, flock, pc, draft, cache>>

Content == Types \X Txn

Event == [seq : Nat, content : Content, prev : Seq(Content)]

HeadRecord == [seq : Nat, fingerprint : Seq(Content)]

CacheRecord == [sig : Nat \X {"newline", "torn"}, events : Seq(Event)]

Genesis == <<>>

Fingerprint(e) == Append(e.prev, e.content)

TailFingerprint(events) ==
  IF events = <<>> THEN Genesis ELSE Fingerprint(events[Len(events)])

\* mutant: the anchor forgets the fingerprint
AnchorWithoutFingerprint(e) == [seq |-> e.seq]

Anchor(e) == [seq |-> e.seq, fingerprint |-> Fingerprint(e)]

\* The inode never changes and every write grows the file, so the signature
\* (inode, size, mtime) tells exactly how much has been written.
Signature == <<Len(file), ending>>

Contents(events) == [i \in DOMAIN events |-> events[i].content]

ChainValid(events) ==
  \A i \in DOMAIN events :
     /\ events[i].seq = i
     /\ events[i].prev = IF i = 1 THEN Genesis ELSE Fingerprint(events[i-1])

Validate(events) ==
  /\ ChainValid(events)
  /\ \A t \in Txn : ValidateHistory(History(Contents(events), t))

(* _verify_head with repair_one_ahead: the anchor must name the tail, or   *)
(* the record just before it.                                              *)
HeadExact ==
  IF file = <<>> THEN head = NoHead
  ELSE head = Anchor(file[Len(file)])

HeadOneBehind ==
  /\ file # <<>>
  /\ head # NoHead
  /\ file[Len(file)].seq = head.seq + 1
  /\ file[Len(file)].prev = head.fingerprint

HeadVerified == HeadExact \/ HeadOneBehind

\* mutant: verification leaves a stale anchor where it is
RepairedHeadKept == head

RepairedHead == IF HeadOneBehind THEN Anchor(file[Len(file)]) ELSE head

\* mutant: a partial last line is ignored
ReadableTorn == Validate(file) /\ HeadVerified

\* Decoding a torn file fails, as does a broken chain or a bad anchor.
Readable == ending = "newline" /\ Validate(file) /\ HeadVerified

-----------------------------------------------------------------------------
Init ==
  /\ file = <<>>
  /\ ending = "newline"
  /\ head = NoHead
  /\ flock = NoProcess
  /\ pc = [p \in Process |-> "idle"]
  /\ draft = [p \in Process |-> NoDraft]
  /\ cache = [p \in Process |-> NoCache]

(* read and verify: under the lock, decode, validate, repair the anchor.   *)
Read(p) ==
  /\ pc[p] = "idle"
  /\ flock = NoProcess
  /\ Readable
  /\ head' = RepairedHead
  /\ UNCHANGED <<file, ending, flock, pc, draft, cache>>

\* mutant: the signature of the file is not compared
CacheHitAlways(p) == cache[p] # NoCache

CacheHit(p) == cache[p] # NoCache /\ cache[p].sig = Signature

NextEvent(existing, type, t) ==
  [seq     |-> Len(existing) + 1,
   content |-> <<type, t>>,
   prev    |-> TailFingerprint(existing)]

(* _read_for_append: on a cache hit nothing is read and nothing verified;  *)
(* on a miss the whole file is, and the cache is refilled.                 *)
ReadForAppend(p) ==
  \/ /\ CacheHit(p)
     /\ UNCHANGED <<head, cache>>
  \/ /\ ~CacheHit(p)
     /\ Readable
     /\ head' = RepairedHead
     /\ cache' = [cache EXCEPT ![p] = [sig |-> Signature, events |-> file]]

\* mutant: the record is built without taking the lock
BeginAppendUnlocked(p, type, t) ==
  /\ pc[p] = "idle"
  /\ Len(file) < MaxEvents
  /\ ReadForAppend(p)
  /\ ValidateAppend(History(Contents(cache'[p].events), t), type)
  /\ pc' = [pc EXCEPT ![p] = "built"]
  /\ draft' = [draft EXCEPT ![p] = NextEvent(cache'[p].events, type, t)]
  /\ UNCHANGED <<file, ending, flock>>

(* append up to _validate_append.  A refused append releases the lock and  *)
(* leaves only the anchor repair and the refilled cache behind.            *)
BeginAppend(p, type, t) ==
  /\ pc[p] = "idle"
  /\ flock = NoProcess
  /\ Len(file) < MaxEvents
  /\ ReadForAppend(p)
  /\ IF ValidateAppend(History(Contents(cache'[p].events), t), type)
     THEN /\ flock' = p
          /\ pc' = [pc EXCEPT ![p] = "built"]
          /\ draft' = [draft EXCEPT ![p] = NextEvent(cache'[p].events, type, t)]
     ELSE UNCHANGED <<flock, pc, draft>>
  /\ UNCHANGED <<file, ending>>

WriteRecord(p) ==
  /\ pc[p] = "built"
  /\ file' = Append(file, draft[p])
  /\ pc' = [pc EXCEPT ![p] = "written"]
  /\ UNCHANGED <<ending, head, flock, draft, cache>>

Unlock(p) ==
  /\ flock' = IF flock = p THEN NoProcess ELSE flock
  /\ pc' = [pc EXCEPT ![p] = "idle"]
  /\ draft' = [draft EXCEPT ![p] = NoDraft]

(* os.write returned fewer bytes than the record has: append raises.       *)
ShortWrite(p) ==
  /\ pc[p] = "built"
  /\ ending' = "torn"
  /\ Unlock(p)
  /\ UNCHANGED <<file, head, cache>>

(* The anchor is replaced atomically, the cache takes the new record.      *)
PublishHead(p) ==
  /\ pc[p] = "written"
  /\ head' = Anchor(draft[p])
  /\ cache' = [cache EXCEPT ![p] = [sig |-> Signature,
                                    events |-> Append(@.events, draft[p])]]
  /\ Unlock(p)
  /\ UNCHANGED <<file, ending>>

\* mutant: the cache takes the record although the anchor was not replaced
AppendErrorCached(p) ==
  /\ pc[p] = "written"
  /\ cache' = [cache EXCEPT ![p] = [sig |-> Signature,
                                    events |-> Append(@.events, draft[p])]]
  /\ Unlock(p)
  /\ UNCHANGED <<file, ending, head>>

(* A system call failed before or after the write: append raises, the lock *)
(* is released, and the process lives on with the cache it had.            *)
AppendError(p) ==
  /\ pc[p] \in {"built", "written"}
  /\ Unlock(p)
  /\ UNCHANGED <<file, ending, head, cache>>

(* The process dies: the kernel drops its flock; its successor starts with *)
(* an empty cache.                                                         *)
Crash(p) ==
  /\ Unlock(p)
  /\ cache' = [cache EXCEPT ![p] = NoCache]
  /\ UNCHANGED <<file, ending, head>>

Next ==
  \E p \in Process :
     \/ Read(p)
     \/ \E type \in Types, t \in Txn : BeginAppend(p, type, t)
     \/ WriteRecord(p)
     \/ ShortWrite(p)
     \/ PublishHead(p)
     \/ AppendError(p)
     \/ Crash(p)

Spec == Init /\ [][Next]_vars

-----------------------------------------------------------------------------
TypeOK ==
  /\ file \in Seq(Event)
  /\ ending \in {"newline", "torn"}
  /\ head \in {NoHead} \cup HeadRecord
  /\ flock \in Process \cup {NoProcess}
  /\ pc \in [Process -> {"idle", "built", "written"}]
  /\ draft \in [Process -> {NoDraft} \cup Event]
  /\ cache \in [Process -> {NoCache} \cup CacheRecord]

(* The chain of the file is unbroken, whatever interleaving, crash, failed *)
(* call or stale append cache there was: no two processes ever extend the  *)
(* same tail.                                                              *)
ChainIntact == ChainValid(file)

(* The anchor never runs ahead of the file and is at most one record       *)
(* behind it.                                                              *)
HeadAnchorsFile ==
  IF head = NoHead THEN Len(file) <= 1
  ELSE /\ head.seq \in 1..Len(file)
       /\ Len(file) <= head.seq + 1
       /\ head = Anchor(file[head.seq])

(* Whoever trusts its append cache trusts the real file: when the          *)
(* signature matches, the cached events are the file and the anchor check  *)
(* that a hit skips would have passed.                                     *)
CacheCoherent ==
  \A p \in Process :
     CacheHit(p) /\ flock = NoProcess => cache[p].events = file /\ HeadExact

(* Once one append has published its anchor, no crash or failed call other *)
(* than a short write makes the ledger unreadable.                         *)
ReadableOnceAnchored == head # NoHead /\ ending = "newline" => Readable

(* Nothing is ever added after a torn record: a partial last line is never *)
(* glued to the next record.                                               *)
TornIsFinal == [][ending = "torn" => UNCHANGED <<file, head>>]_vars

(* What the comment of read() promises: a process that dies after the      *)
(* fsync and before the anchor leaves a ledger that read() repairs.        *)
CrashIsRepaired == ending = "newline" /\ flock = NoProcess => HeadVerified

(* The ledger implements the plain append-only log: each record enters the *)
(* log in one step, and the contract allows it after the log as it is.     *)
Log == INSTANCE AppendOnlyLog WITH log <- Contents(file), broken <- (ending = "torn")

ImplementsLog == Log!Spec
=============================================================================
