---------------------- MODULE AutopilotOwnershipProofs ----------------------
(***************************************************************************)
(* Proofs about AutopilotOwnership, for any number of runs that start,     *)
(* displace each other and die at any time.                                *)
(*                                                                         *)
(* NoRecordLeft needs two facts about runs that have not ended: whoever    *)
(* the ownership file names is past its creation of the file, and a run    *)
(* past the writing of it never finds its own record unreadable.           *)
(***************************************************************************)
EXTENDS AutopilotOwnership, TLAPS

\* the steps after the ownership file was written
Owning ==
  Looping \cup {"emit", "beating", "rewriting", "closing", "releasing", "removing"}

\* The file names a run that created it and has not ended, or has died.
NamedRunIsLive ==
  ownership # NoFile => pc[ownership.run] \in Owning \cup {"writing", "dead"}

OwningRunHasWritten == \A r \in Run : pc[r] \in Owning => r \in written

\* A heartbeat rewrites a record of its own run.
HeartbeatIsOwn ==
  \A r \in Run : pc[r] = "rewriting" => existing[r] \in Record

\* What is proved dead, checked or displaced is a record.
ExistingIsRecord ==
  \A r \in Run : pc[r] \in {"proving", "archiving", "unlinking", "replacing"}
                    => existing[r] \in Record

IInv ==
  /\ TypeOK
  /\ NamedRunIsLive
  /\ OwningRunHasWritten
  /\ HeartbeatIsOwn
  /\ ExistingIsRecord

-----------------------------------------------------------------------------
(* A step of one run that leaves the ownership file alone keeps the       *)
(* invariant where it keeps what the run's next step relies on.            *)
LEMMA MovePreserves ==
  ASSUME IInv, NEW r \in Run, NEW step \in Steps, Goto(r, step),
         UNCHANGED <<files, crashes>>,
         stop' \in 0..MaxRequests, asked' \in 0..MaxRequests, ack' \in 0..MaxRequests,
         status' \in [run : Run \cup {NoRun}, active : {"yes", "no"}],
         after' \in [Run -> Looping \cup {"closing"}],
         want' \in [Run -> 0..MaxRequests],
         existing' \in [Run -> {NoFile} \cup Record],
         \A q \in Run \ {r} : existing'[q] = existing[q],
         step \in Owning => pc[r] \in Owning,
         pc[r] \in Owning => step \in Owning \/ ownership = NoFile \/ ownership.run # r,
         pc[r] # "writing",
         pc[r] # "dead",
         step \in {"rewriting", "proving", "archiving", "unlinking", "replacing"}
           => existing'[r] \in Record
  PROVE  IInv'
<1>1. /\ pc' \in [Run -> Steps]
      /\ pc'[r] = step
      /\ \A q \in Run : q # r => pc'[q] = pc[q]
  BY DEF IInv, TypeOK, Goto
<1>2. TypeOK'
  BY <1>1 DEF IInv, TypeOK, files
<1>3. NamedRunIsLive'
  <2>1. ownership # NoFile => ownership.run \in Run
    BY DEF IInv, TypeOK, Record
  <2>. QED  BY <1>1, <2>1 DEF IInv, NamedRunIsLive, files
<1>4. OwningRunHasWritten'
  BY <1>1 DEF IInv, OwningRunHasWritten, files
<1>5. HeartbeatIsOwn' /\ ExistingIsRecord'
  BY <1>1 DEF IInv, HeartbeatIsOwn, ExistingIsRecord
<1>. QED  BY <1>2, <1>3, <1>4, <1>5 DEF IInv

(* The markers that are no record. *)
LEMMA RecordIsNoMarker == NoFile \notin Record
BY OwnershipConstants DEF Record

(* Nobody owns anything at first. *)
LEMMA InitEstablishes == Init => IInv
<1>. SUFFICES ASSUME Init PROVE IInv
  OBVIOUS
<1>1. TypeOK
  <2>1. displaced \in BOOLEAN
    BY DEF Init
  <2>. QED  BY OwnershipConstants, <2>1 DEF Init, TypeOK, Steps, Ended, Looping
<1>2. NamedRunIsLive /\ OwningRunHasWritten /\ HeartbeatIsOwn /\ ExistingIsRecord
  BY DEF Init, NamedRunIsLive, OwningRunHasWritten, HeartbeatIsOwn, ExistingIsRecord,
         Owning, Looping
<1>. QED  BY <1>1, <1>2 DEF IInv

(* Steps that change no file but the program counter and what a run read.  *)
LEMMA AcquirePreserves ==
  ASSUME IInv, NEW r \in Run, Acquire(r)
  PROVE  IInv'
<1>. USE DEF IInv, TypeOK, NamedRunIsLive, OwningRunHasWritten, HeartbeatIsOwn,
             ExistingIsRecord, Owning, Looping, Steps, Ended
<1>1. CASE ReadOwnership(r)
  BY <1>1, RecordIsNoMarker DEF ReadOwnership, Goto, files, stops
<1>2. CASE AuthenticateDeadOwner(r)
  <2>1. \E step \in {"archiving", "done"} : Goto(r, step)
    BY <1>2 DEF AuthenticateDeadOwner
  <2>2. ownership # NoFile => ownership.run # r
    BY <1>2 DEF AuthenticateDeadOwner
  <2>3. existing[r] \in Record
    BY <1>2 DEF AuthenticateDeadOwner
  <2>. QED  BY <1>2, <2>1, <2>2, <2>3 DEF AuthenticateDeadOwner, Goto, files, stops
<1>3. CASE CheckArchive(r)
  BY <1>3 DEF CheckArchive, Goto, files, stops
<1>4. CASE DisplaceOwner(r)
  <2>1. existing[r] \in Record /\ existing[r].run \in Run
    BY <1>4 DEF DisplaceOwner, Record
  <2>2. recovered' \in [Run -> {NoFile} \cup Record]
    BY <1>4, <2>1 DEF DisplaceOwner
  <2>3. CASE ownership = NoFile
    BY <1>4, <2>3 DEF DisplaceOwner, Goto, stops
  <2>4. CASE ownership # NoFile
    <3>1. Goto(r, "creating") /\ ownership' = NoFile
      BY <1>4, <2>4 DEF DisplaceOwner
    <3>2. pc[r] \in {"unlinking", "replacing"}
      BY <1>4 DEF DisplaceOwner
    <3>3. TypeOK'
      BY <1>4, <2>2, <3>1 DEF DisplaceOwner, Goto, stops
    <3>4. NamedRunIsLive'
      BY <3>1
    <3>5. OwningRunHasWritten' /\ HeartbeatIsOwn' /\ ExistingIsRecord'
      BY <1>4, <3>1, <3>2 DEF DisplaceOwner, Goto
    <3>. QED  BY <3>3, <3>4, <3>5
  <2>. QED  BY <2>3, <2>4
<1>5. CASE CreateOwnership(r)
  <2>1. [run |-> r, beat |-> 0] \in Record
    BY OwnershipConstants DEF Record
  <2>2. CASE ownership = NoFile
    <3>1. ownership' = [run |-> r, beat |-> 0] /\ Goto(r, "writing")
      BY <1>5, <2>2 DEF CreateOwnership
    <3>2. pc' \in [Run -> Steps] /\ pc'[r] = "writing"
      BY <3>1 DEF Goto
    <3>3. TypeOK'
      BY <1>5, <2>1, <3>1, <3>2 DEF CreateOwnership, stops
    <3>4. NamedRunIsLive'
      BY <3>1, <3>2
    <3>5. OwningRunHasWritten' /\ HeartbeatIsOwn' /\ ExistingIsRecord'
      BY <1>5, <3>1 DEF CreateOwnership, Goto
    <3>. QED  BY <3>3, <3>4, <3>5
  <2>3. CASE ownership # NoFile
    <3>1. Goto(r, "done") /\ UNCHANGED ownership
      BY <1>5, <2>3 DEF CreateOwnership
    <3>. QED  BY <1>5, <3>1, MovePreserves DEF CreateOwnership, files, stops
  <2>. QED  BY <2>2, <2>3
<1>6. CASE WriteOwnership(r)
  BY <1>6 DEF WriteOwnership, Emit, Goto, stops
<1>. QED  BY <1>1, <1>2, <1>3, <1>4, <1>5, <1>6 DEF Acquire

(* The heartbeat of a run touches the file only in its last step.          *)
LEMMA HeartbeatPreserves ==
  ASSUME IInv, NEW r \in Run, Heartbeat(r)
  PROVE  IInv'
<1>. USE DEF IInv, TypeOK, NamedRunIsLive, OwningRunHasWritten, HeartbeatIsOwn,
             ExistingIsRecord, Owning, Looping, Steps, Ended
<1>1. CASE FindOwnership(r)
  <2>1. \E step \in Looping \cup {"closing", "beating"} : Goto(r, step)
    BY <1>1 DEF FindOwnership
  <2>. QED  BY <1>1, <2>1, MovePreserves DEF FindOwnership, files, stops
<1>2. CASE ReadHeartbeat(r)
  <2>1. CASE Goto(r, "rewriting") /\ existing' = [existing EXCEPT ![r] = ownership]
                                 /\ ownership # NoFile
    BY <1>2, <2>1, MovePreserves DEF ReadHeartbeat, files, stops
  <2>2. CASE EmitFailed(r) /\ UNCHANGED existing
    <3>1. \E step \in {"releasing", "ending"} : Goto(r, step)
      BY <2>2 DEF EmitFailed
    <3>. QED  BY <1>2, <2>2, <3>1, MovePreserves DEF ReadHeartbeat, files, stops
  <2>. QED  BY <1>2, <2>1, <2>2 DEF ReadHeartbeat
<1>3. CASE WriteHeartbeat(r)
  <2>1. ownership' \in Record /\ ownership'.run = r /\ ownership' # NoFile
    BY <1>3, RecordIsNoMarker DEF WriteHeartbeat, Record
  <2>. QED  BY <1>3, <2>1 DEF WriteHeartbeat, Goto, stops
<1>. QED  BY <1>1, <1>2, <1>3 DEF Heartbeat

(* Going to emit an event, with a step of the loop to follow. *)
LEMMA EmitPreserves ==
  ASSUME IInv, NEW r \in Run, NEW then \in Looping, pc[r] \in Looping, Emit(r, then),
         UNCHANGED <<files, stops, status, existing, crashes>>,
         want' \in [Run -> 0..MaxRequests]
  PROVE  IInv'
<1>1. after' \in [Run -> Looping \cup {"closing"}]
  BY DEF IInv, TypeOK, Emit
<1>2. Goto(r, "emit") /\ "emit" \in Steps
  BY DEF Emit, Steps
<1>3. pc[r] \in Owning /\ "emit" \in Owning /\ pc[r] # "writing" /\ pc[r] # "dead"
  BY DEF Owning, Looping
<1>. QED  BY <1>1, <1>2, <1>3, MovePreserves DEF IInv, TypeOK, files, stops

(* Going to another step of the loop, without an event. *)
LEMMA PassPreserves ==
  ASSUME IInv, NEW r \in Run, NEW step \in Looping, pc[r] \in Looping, Goto(r, step),
         UNCHANGED <<files, stops, status, after, existing, crashes>>,
         want' \in [Run -> 0..MaxRequests]
  PROVE  IInv'
<1>1. step \in Steps /\ step \in Owning
  BY DEF Steps, Owning
<1>2. pc[r] \in Owning /\ pc[r] # "writing" /\ pc[r] # "dead"
  BY DEF Owning, Looping
<1>3. step \notin {"rewriting", "proving", "archiving", "unlinking", "replacing"}
  BY DEF Looping
<1>. QED  BY <1>1, <1>2, <1>3, MovePreserves DEF IInv, TypeOK, files, stops

(* Both checks for a stop request. *)
LEMMA ReadStopPreserves ==
  ASSUME IInv, NEW r \in Run, NEW none \in Looping, pc[r] \in Looping,
         ReadStop(r, none), UNCHANGED <<files, stops, status, existing, crashes>>
  PROVE  IInv'
<1>1. want' \in [Run -> 0..MaxRequests]
  BY DEF IInv, TypeOK, ReadStop
<1>2. CASE stop = 0
  BY <1>1, <1>2, PassPreserves DEF ReadStop
<1>3. CASE stop # 0
  <2>1. "acking" \in Looping
    BY DEF Looping
  <2>. QED  BY <1>1, <1>3, <2>1, EmitPreserves DEF ReadStop
<1>. QED  BY <1>2, <1>3

(* The steps of the loop touch neither the file nor what it names. *)
LEMMA LoopPreserves ==
  ASSUME IInv, NEW r \in Run, Loop(r)
  PROVE  IInv'
<1>. USE DEF IInv, TypeOK, NamedRunIsLive, OwningRunHasWritten, HeartbeatIsOwn,
             ExistingIsRecord, Owning, Looping, Steps, Ended
<1>1. CASE CheckStop(r)
  BY <1>1, ReadStopPreserves DEF CheckStop
<1>2. CASE Select(r)
  BY <1>2, EmitPreserves, PassPreserves DEF Select
<1>3. CASE Route(r)
  BY <1>3, EmitPreserves, PassPreserves DEF Route
<1>4. CASE Observe(r)
  BY <1>4 DEF Observe, Goto, files, stops
<1>5. CASE CheckStopAgain(r)
  BY <1>5, ReadStopPreserves DEF CheckStopAgain
<1>6. CASE HandleStop(r)
  BY <1>6 DEF HandleStop, Goto, files, stops
<1>7. CASE AcknowledgeStop(r)
  BY <1>7 DEF AcknowledgeStop, Goto, files
<1>8. CASE ClearStop(r)
  BY <1>8, OwnershipConstants DEF ClearStop, Goto, files
<1>. QED  BY <1>1, <1>2, <1>3, <1>4, <1>5, <1>6, <1>7, <1>8 DEF Loop

(* The end of a run: done is reached only when the file is not its own.    *)
LEMMA ReleasePreserves ==
  ASSUME IInv, NEW r \in Run, Release(r)
  PROVE  IInv'
<1>. USE DEF IInv, TypeOK, NamedRunIsLive, OwningRunHasWritten, HeartbeatIsOwn,
             ExistingIsRecord, Owning, Looping, Steps, Ended
<1>1. CASE Ending(r)
  BY <1>1 DEF Ending, Emit, Goto, files, stops
<1>2. CASE WriteStatus(r)
  BY <1>2 DEF WriteStatus, Goto, files, stops
<1>3. CASE ReadRelease(r)
  BY <1>3 DEF ReadRelease, Readable, Goto, files, stops
<1>4. CASE RemoveOwnership(r)
  BY <1>4 DEF RemoveOwnership, Goto, stops
<1>. QED  BY <1>1, <1>2, <1>3, <1>4 DEF Release

(* Stop requests, launches and deaths. *)
LEMMA OutsidePreserves ==
  ASSUME IInv, RequestStop \/ (\E r \in Run : Launch(r) \/ Crash(r)) \/ UNCHANGED vars
  PROVE  IInv'
<1>. USE DEF IInv, TypeOK, NamedRunIsLive, OwningRunHasWritten, HeartbeatIsOwn,
             ExistingIsRecord, Owning, Looping, Steps, Ended
<1>1. CASE RequestStop
  BY <1>1, OwnershipConstants DEF RequestStop, files
<1>2. ASSUME NEW r \in Run, Launch(r) PROVE IInv'
  BY <1>2 DEF Launch, Goto, files, stops
<1>3. ASSUME NEW r \in Run, Crash(r) PROVE IInv'
  BY <1>3, OwnershipConstants DEF Crash, Alive, Goto, files, stops
<1>4. CASE UNCHANGED vars
  BY <1>4 DEF vars
<1>. QED  BY <1>1, <1>2, <1>3, <1>4

(* The invariant behind both results below. *)
THEOREM Inductive == Spec => []IInv
<1>1. IInv /\ [Next]_vars => IInv'
  BY AcquirePreserves, HeartbeatPreserves, LoopPreserves, ReleasePreserves,
     OutsidePreserves DEF Next, Proceed
<1>. QED  BY <1>1, InitEstablishes, PTL DEF Spec

(* The variables keep their types. *)
THEOREM TypeCorrect == Spec => []TypeOK
<1>1. IInv => TypeOK
  BY DEF IInv
<1>. QED  BY <1>1, Inductive, PTL

(* apply releases its ownership on every path on which it ends: however    *)
(* many runs contend, no run that ended is still named by the file.        *)
THEOREM RecordIsRemoved == Spec => []NoRecordLeft
<1>1. IInv => NoRecordLeft
  BY DEF IInv, TypeOK, NamedRunIsLive, NoRecordLeft, Owning, Looping, Record
<1>. QED  BY <1>1, Inductive, PTL

-----------------------------------------------------------------------------
(* While no acquisition has taken the record of a live run away, the file  *)
(* names every run between its creation of the file and its end.           *)

\* the steps of a run whose record is in the file
Keeping == Looping \cup {"emit", "beating", "rewriting", "writing", "removing"}

KeepsRecord ==
  ~displaced => \A r \in Run : pc[r] \in Keeping => ownership # NoFile /\ ownership.run = r

(* A step that leaves the file alone.                                      *)
LEMMA KeepingMoves ==
  ASSUME IInv, KeepsRecord, NEW r \in Run, NEW step \in Steps, Goto(r, step),
         UNCHANGED <<ownership, displaced>>,
         step \in Keeping => pc[r] \in Keeping \/ (ownership # NoFile /\ ownership.run = r)
  PROVE  KeepsRecord'
<1>1. pc'[r] = step /\ \A q \in Run \ {r} : pc'[q] = pc[q]
  BY DEF IInv, TypeOK, Goto
<1>. QED  BY <1>1 DEF KeepsRecord

(* A step that writes or removes the file: nobody else has its record in   *)
(* it, then.                                                               *)
LEMMA KeepingWrites ==
  ASSUME IInv, KeepsRecord, NEW r \in Run, NEW step \in Steps, Goto(r, step),
         displaced => displaced',
         step \in Keeping => ownership' # NoFile /\ ownership'.run = r,
         ~displaced' => \A q \in Run \ {r} : pc[q] \notin Keeping
  PROVE  KeepsRecord'
<1>1. pc'[r] = step /\ \A q \in Run \ {r} : pc'[q] = pc[q]
  BY DEF IInv, TypeOK, Goto
<1>. QED  BY <1>1 DEF KeepsRecord

(* What a run displaces while nothing live has been displaced belongs to   *)
(* nobody that is still at work; what it creates, it creates where nothing *)
(* is.                                                                     *)
LEMMA AcquireKeeps ==
  ASSUME IInv, KeepsRecord, NEW r \in Run, Acquire(r)
  PROVE  KeepsRecord'
<1>. USE DEF Steps, Ended, Looping, Keeping
<1>1. CASE ReadOwnership(r)
  <2>1. PICK step \in {"done", "creating", "proving"} : Goto(r, step)
    BY <1>1 DEF ReadOwnership
  <2>. QED  BY <1>1, <2>1, KeepingMoves DEF ReadOwnership, files
<1>2. CASE AuthenticateDeadOwner(r)
  BY <1>2, KeepingMoves DEF AuthenticateDeadOwner, files
<1>3. CASE CheckArchive(r)
  <2>1. PICK step \in {"replacing", "unlinking", "done"} : Goto(r, step)
    BY <1>3 DEF CheckArchive
  <2>. QED  BY <1>3, <2>1, KeepingMoves DEF CheckArchive, files
<1>4. CASE DisplaceOwner(r)
  <2>1. CASE ownership = NoFile
    BY <1>4, <2>1, KeepingMoves DEF DisplaceOwner
  <2>2. CASE ownership # NoFile
    <3>1. Goto(r, "creating") /\ displaced' = (displaced \/ Alive(ownership.run))
      BY <1>4, <2>2 DEF DisplaceOwner
    <3>2. ASSUME ~displaced', NEW q \in Run \ {r} PROVE pc[q] \notin Keeping
      BY <2>2, <3>1, <3>2 DEF KeepsRecord, Alive
    <3>. QED  BY <3>1, <3>2, KeepingWrites
  <2>. QED  BY <2>1, <2>2
<1>5. CASE CreateOwnership(r)
  <2>1. displaced' = displaced
    BY <1>5 DEF CreateOwnership
  <2>2. CASE ownership = NoFile
    <3>1. Goto(r, "writing") /\ ownership' = [run |-> r, beat |-> 0]
      BY <1>5, <2>2 DEF CreateOwnership
    <3>2. ownership' # NoFile /\ ownership'.run = r
      BY <3>1, OwnershipConstants, RecordIsNoMarker DEF Record
    <3>3. ~displaced => \A q \in Run : pc[q] \notin Keeping
      BY <2>2 DEF KeepsRecord
    <3>. QED  BY <2>1, <3>1, <3>2, <3>3, KeepingWrites
  <2>3. CASE ownership # NoFile
    BY <1>5, <2>1, <2>3, KeepingMoves DEF CreateOwnership
  <2>. QED  BY <2>2, <2>3
<1>6. CASE WriteOwnership(r)
  BY <1>6, KeepingMoves DEF WriteOwnership, Emit
<1>. QED  BY <1>1, <1>2, <1>3, <1>4, <1>5, <1>6 DEF Acquire

(* A run that rewrites or unlinks the record does it to its own.           *)
LEMMA RunKeeps ==
  ASSUME IInv, KeepsRecord, NEW r \in Run, Heartbeat(r) \/ Loop(r) \/ Release(r)
  PROVE  KeepsRecord'
<1>. USE DEF Steps, Ended, Looping, Keeping
<1>1. ~displaced /\ pc[r] \in Keeping => \A q \in Run \ {r} : pc[q] \notin Keeping
  BY DEF KeepsRecord
<1>2. CASE WriteHeartbeat(r)
  <2>1. PICK beat \in 1..MaxBeats : ownership' = [run |-> r, beat |-> beat]
    BY <1>2 DEF WriteHeartbeat
  <2>2. ownership' # NoFile /\ ownership'.run = r
    <3>1. ownership' \in Record
      BY <2>1, OwnershipConstants DEF Record
    <3>. QED  BY <2>1, <3>1, RecordIsNoMarker
  <2>3. PICK step \in Looping \cup {"closing"} : Goto(r, step)
    BY <1>2 DEF WriteHeartbeat, IInv, TypeOK
  <2>. QED  BY <1>1, <1>2, <2>2, <2>3, KeepingWrites DEF WriteHeartbeat
<1>3. CASE RemoveOwnership(r)
  <2>1. pc[r] = "removing" /\ Goto(r, "done") /\ displaced' = displaced
    BY <1>3 DEF RemoveOwnership
  <2>. QED  BY <1>1, <2>1, KeepingWrites
<1>4. CASE FindOwnership(r) \/ ReadHeartbeat(r) \/ Loop(r) \/ Ending(r)
  <2>1. pc[r] \in Keeping /\ UNCHANGED <<ownership, displaced>>
    BY <1>4 DEF FindOwnership, ReadHeartbeat, Loop, Ending, CheckStop, Select, Route, Observe,
         CheckStopAgain, HandleStop, AcknowledgeStop, ClearStop, files
  <2>2. PICK step \in Looping \cup {"emit", "beating", "rewriting", "closing", "releasing"} :
          Goto(r, step)
    BY <1>4 DEF FindOwnership, ReadHeartbeat, EmitFailed, Loop, Ending, Emit, CheckStop, Select,
         Route, Observe, CheckStopAgain, ReadStop, HandleStop, AcknowledgeStop, ClearStop,
         IInv, TypeOK
  <2>. QED  BY <2>1, <2>2, KeepingMoves
<1>5. CASE WriteStatus(r)
  BY <1>5, KeepingMoves DEF WriteStatus, files
<1>6. CASE ReadRelease(r)
  <2>1. PICK step \in {"removing", "done"} :
          Goto(r, step) /\ (step = "removing" => ownership # NoFile /\ ownership.run = r)
    BY <1>6 DEF ReadRelease
  <2>. QED  BY <1>6, <2>1, KeepingMoves DEF ReadRelease, files
<1>. QED  BY <1>2, <1>3, <1>4, <1>5, <1>6 DEF Heartbeat, Release

LEMMA OutsideKeeps ==
  ASSUME IInv, KeepsRecord,
         RequestStop \/ (\E r \in Run : Launch(r) \/ Crash(r)) \/ UNCHANGED vars
  PROVE  KeepsRecord'
<1>. USE DEF Steps, Ended, Looping, Keeping
<1>1. CASE RequestStop \/ UNCHANGED vars
  BY <1>1 DEF RequestStop, vars, files, KeepsRecord
<1>2. ASSUME NEW r \in Run, Launch(r) PROVE KeepsRecord'
  BY <1>2, KeepingMoves DEF Launch, files
<1>3. ASSUME NEW r \in Run, Crash(r) PROVE KeepsRecord'
  BY <1>3, KeepingMoves DEF Crash, Alive, files
<1>. QED  BY <1>1, <1>2, <1>3

(* However many runs contend, stop and die: as long as no acquisition has  *)
(* taken the record of a live run away (the rename or unlink of acquire),  *)
(* whoever is in the loop of apply is named by the ownership file, and so  *)
(* the loop is single.  OneProjectLoop is false, therefore, for this one   *)
(* reason.                                                                 *)
THEOREM LoopIsExclusive == Spec => [](LoopOwnsRecord /\ (~displaced => OneProjectLoop))
<1>1. Init => KeepsRecord
  BY DEF Init, KeepsRecord, Keeping, Looping
<1>2. IInv /\ KeepsRecord /\ [Next]_vars => KeepsRecord'
  BY AcquireKeeps, RunKeeps, OutsideKeeps DEF Next, Proceed
<1>3. KeepsRecord => LoopOwnsRecord /\ (~displaced => OneProjectLoop)
  BY DEF KeepsRecord, LoopOwnsRecord, OneProjectLoop, InLoop, Keeping, Looping
<1>. QED  BY <1>1, <1>2, <1>3, Inductive, PTL DEF Spec
=============================================================================
