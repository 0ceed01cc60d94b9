------------------------- MODULE AutopilotOwnership -------------------------
(***************************************************************************)
(* Ownership, heartbeat and stop requests of the autopilot (autopilot.py). *)
(*                                                                         *)
(* A run of `autopilot --apply` owns a project through one file, which it  *)
(* creates exclusively and then writes, rewrites at every event it emits,  *)
(* and unlinks when it ends.  A run that finds the record of a dead one    *)
(* moves it to an archive named after the dead run.  `stop-autopilot`      *)
(* replaces a request file that the running loop reads, acknowledges in    *)
(* another file and unlinks.  No lock protects any of this: every step     *)
(* below is one file-system operation, and others may act in between.      *)
(*                                                                         *)
(* What the loop routes, and when it gives up, is left open: a route       *)
(* returns, raises, or ends the loop.                                      *)
(*                                                                         *)
(* A record is the run that wrote it and how often it was rewritten since; *)
(* rewrite 0 is the file the run created, readable once `written`.  Times  *)
(* are whole seconds, so a heartbeat may leave the record as it was.       *)
(***************************************************************************)
EXTENDS Naturals, FiniteSets

CONSTANTS
  Run,          \* runs of `autopilot --apply`, one process each
  MaxBeats,     \* bound on distinguishable heartbeats of one run
  MaxRequests,  \* bound on stop requests
  MaxCrashes,   \* bound on process deaths
  NoFile, NoRun

ASSUME OwnershipConstants ==
  /\ MaxBeats \in Nat /\ MaxRequests \in Nat /\ MaxCrashes \in Nat
  /\ NoFile \notin [run : Run, beat : 0..MaxBeats]
  /\ NoRun \notin Run

VARIABLES
  ownership,  \* ownership.json
  written,    \* the runs whose created file has its content
  recovered,  \* ownership.recovered-<run>.json, per run
  displaced,  \* whether a record went while its run was alive
  stop,       \* stop-request.json: the number of the request, 0 if none
  asked,      \* stop requests so far
  ack,        \* last-stop-request.json
  status,     \* latest.json: the run it reports and whether it is active
  pc,         \* the next step of each run
  after,      \* where a run goes once the event it emits is recorded
  existing,   \* the record each run read
  want,       \* the stop request each run read
  crashes

vars == <<ownership, written, recovered, displaced, stop, asked, ack, status, pc, after,
          existing, want, crashes>>

stops == <<stop, asked, ack>>
files == <<ownership, written, recovered, displaced>>

Record == [run : Run, beat : 0..MaxBeats]

\* read_lock raises on a file that was created and never written
Readable(f) == f # NoFile => f.beat > 0 \/ f.run \in written

Ended == {"unborn", "done", "dead"}

Alive(r) == pc[r] \notin Ended

\* between a successful acquire and the terminal event
Looping ==
  {"loop", "selected", "routing", "observing", "returned", "acking", "clearing",
   "handling", "ending"}

InLoop(r) == pc[r] \in Looping \/ (pc[r] \in {"emit", "beating", "rewriting"})

Goto(r, step) == pc' = [pc EXCEPT ![r] = step]

-----------------------------------------------------------------------------
(* acquire *)

Launch(r) ==
  /\ pc[r] = "unborn"
  /\ Goto(r, "reading")
  /\ UNCHANGED <<files, stops, status, after, existing, want, crashes>>

ReadOwnership(r) ==
  /\ pc[r] = "reading"
  /\ existing' = [existing EXCEPT ![r] = ownership]
  /\ Goto(r, IF ~Readable(ownership) THEN "done"
             ELSE IF ownership = NoFile THEN "creating" ELSE "proving")
  /\ UNCHANGED <<files, stops, status, after, want, crashes>>

(* The recorded process must be dead.  Whether the repository and the      *)
(* writer lease authenticate the death is decided outside this model.      *)
AuthenticateDeadOwner(r) ==
  /\ pc[r] = "proving"
  /\ \/ ~Alive(existing[r].run) /\ Goto(r, "archiving")
     \/ Goto(r, "done")
  /\ UNCHANGED <<files, stops, status, after, existing, want, crashes>>

\* recovered.exists(): an equal archive means the file is only to be unlinked
CheckArchive(r) ==
  LET prior == recovered[existing[r].run] IN
  /\ pc[r] = "archiving"
  /\ Goto(r, IF prior = NoFile THEN "replacing"
             ELSE IF Readable(prior) /\ prior = existing[r] THEN "unlinking" ELSE "done")
  /\ UNCHANGED <<files, stops, status, after, existing, want, crashes>>

\* whatever record is there by now is the one that goes
DisplaceOwner(r) ==
  /\ pc[r] \in {"unlinking", "replacing"}
  /\ IF ownership = NoFile
     THEN Goto(r, "done") /\ UNCHANGED <<ownership, recovered, displaced>>
     ELSE /\ ownership' = NoFile
          /\ displaced' = (displaced \/ Alive(ownership.run))
          /\ recovered' = IF pc[r] = "unlinking" THEN recovered
                          ELSE [recovered EXCEPT ![existing[r].run] = ownership]
          /\ Goto(r, "creating")
  /\ UNCHANGED <<written, stops, status, after, existing, want, crashes>>

CreateOwnership(r) ==
  /\ pc[r] = "creating"
  /\ IF ownership = NoFile
     THEN ownership' = [run |-> r, beat |-> 0] /\ Goto(r, "writing")
     ELSE UNCHANGED ownership /\ Goto(r, "done")
  /\ UNCHANGED <<written, recovered, displaced, stops, status, after, existing, want, crashes>>

Emit(r, then) == after' = [after EXCEPT ![r] = then] /\ Goto(r, "emit")

WriteOwnership(r) ==
  /\ pc[r] = "writing"
  /\ written' = written \cup {r}
  /\ Emit(r, "loop")
  /\ UNCHANGED <<ownership, recovered, displaced, stops, status, existing, want, crashes>>

-----------------------------------------------------------------------------
(* _emit: where an ownership file exists it must still be this run's, and  *)
(* is rewritten; where none exists the loop goes on without.               *)

\* A raised LockError ends the loop; at the terminal event it only skips
\* the final status.
EmitFailed(r) == Goto(r, IF after[r] = "closing" THEN "releasing" ELSE "ending")

FindOwnership(r) ==
  /\ pc[r] = "emit"
  /\ Goto(r, IF ownership = NoFile THEN after[r] ELSE "beating")
  /\ UNCHANGED <<files, stops, status, after, existing, want, crashes>>

ReadHeartbeat(r) ==
  /\ pc[r] = "beating"
  /\ IF Readable(ownership) /\ ownership # NoFile /\ ownership.run = r
     THEN /\ existing' = [existing EXCEPT ![r] = ownership]
          /\ Goto(r, "rewriting")
     ELSE UNCHANGED existing /\ EmitFailed(r)
  /\ UNCHANGED <<files, stops, status, after, want, crashes>>

\* with the status report, which no run reads
WriteHeartbeat(r) ==
  /\ pc[r] = "rewriting"
  /\ \E beat \in existing[r].beat .. existing[r].beat + 1 :
        /\ beat \in 1..MaxBeats
        /\ ownership' = [run |-> r, beat |-> beat]
  /\ status' = [run |-> r, active |-> "yes"]
  /\ Goto(r, after[r])
  /\ UNCHANGED <<written, recovered, displaced, stops, after, existing, want, crashes>>

-----------------------------------------------------------------------------
(* apply *)

\* mutant: the request file is not looked at
ReadStopNever(r, none) ==
  /\ Goto(r, none)
  /\ UNCHANGED <<after, want>>

\* _stop_requested, and the event for it
ReadStop(r, none) ==
  IF stop = 0
  THEN Goto(r, none) /\ UNCHANGED <<after, want>>
  ELSE want' = [want EXCEPT ![r] = stop] /\ Emit(r, "acking")

CheckStop(r) ==
  /\ pc[r] = "loop"
  /\ ReadStop(r, "selected")
  /\ UNCHANGED <<files, stops, status, existing, crashes>>

\* The plan is read: a gate or completion ends the loop, else it is routed;
\* only a feature or a recovery is worth an event.
Select(r) ==
  /\ pc[r] = "selected"
  /\ \/ \E step \in {"ending", "routing"} : Goto(r, step) /\ UNCHANGED after
     \/ Emit(r, "routing")
  /\ UNCHANGED <<files, stops, status, existing, want, crashes>>

(* The route returns, with an event or without; or raises or is final; or  *)
(* reaches a lifecycle boundary, which the observer may record first.      *)
Route(r) ==
  /\ pc[r] = "routing"
  /\ \/ \E step \in {"returned", "observing"} : Emit(r, step)
     \/ \E step \in {"returned", "loop", "ending", "observing"} :
           Goto(r, step) /\ UNCHANGED after
  /\ UNCHANGED <<files, stops, status, existing, want, crashes>>

(* _observe_lifecycle: the engine raises AutopilotStopRequested.           *)
Observe(r) ==
  /\ pc[r] = "observing"
  /\ Goto(r, IF stop = 0 THEN "routing" ELSE "handling")
  /\ UNCHANGED <<files, stops, status, after, existing, want, crashes>>

\* the safe boundary before the next transition
CheckStopAgain(r) ==
  /\ pc[r] = "returned"
  /\ ReadStop(r, "loop")
  /\ UNCHANGED <<files, stops, status, existing, crashes>>

\* the except clause reads the request again
HandleStop(r) ==
  /\ pc[r] = "handling"
  /\ want' = [want EXCEPT ![r] = stop]
  /\ Goto(r, IF stop = 0 THEN "ending" ELSE "acking")
  /\ UNCHANGED <<files, stops, status, after, existing, crashes>>

AcknowledgeStop(r) ==
  /\ pc[r] = "acking"
  /\ ack' = want[r]
  /\ Goto(r, "clearing")
  /\ UNCHANGED <<files, stop, asked, status, after, existing, want, crashes>>

\* the request that is there by now; if none is, unlink raises
ClearStop(r) ==
  /\ pc[r] = "clearing"
  /\ stop' = 0
  /\ Goto(r, "ending")
  /\ UNCHANGED <<files, asked, ack, status, after, existing, want, crashes>>

\* mutant: no finally clause, the record stays
EndingUnreleased(r) ==
  /\ pc[r] = "ending"
  /\ Goto(r, "done")
  /\ UNCHANGED <<files, stops, status, after, existing, want, crashes>>

\* mutant: the terminal event is not followed by the terminal status
EndingWithoutStatus(r) ==
  /\ pc[r] = "ending"
  /\ Emit(r, "releasing")
  /\ UNCHANGED <<files, stops, status, existing, want, crashes>>

Ending(r) ==
  /\ pc[r] = "ending"
  /\ Emit(r, "closing")
  /\ UNCHANGED <<files, stops, status, existing, want, crashes>>

WriteStatus(r) ==
  /\ pc[r] = "closing"
  /\ status' = [run |-> r, active |-> "no"]
  /\ Goto(r, "releasing")
  /\ UNCHANGED <<files, stops, after, existing, want, crashes>>

\* release: no record, or another run's, is left alone
ReadRelease(r) ==
  /\ pc[r] = "releasing"
  /\ Goto(r, IF ownership # NoFile /\ Readable(ownership) /\ ownership.run = r
             THEN "removing" ELSE "done")
  /\ UNCHANGED <<files, stops, status, after, existing, want, crashes>>

RemoveOwnership(r) ==
  /\ pc[r] = "removing"
  /\ ownership' = NoFile
  /\ Goto(r, "done")
  /\ UNCHANGED <<written, recovered, displaced, stops, status, after, existing, want, crashes>>

-----------------------------------------------------------------------------
(* request_stop, by anybody at any time *)
RequestStop ==
  /\ asked < MaxRequests
  /\ asked' = asked + 1
  /\ stop' = asked + 1
  /\ UNCHANGED <<files, ack, status, pc, after, existing, want, crashes>>

Crash(r) ==
  /\ Alive(r)
  /\ crashes < MaxCrashes
  /\ crashes' = crashes + 1
  /\ Goto(r, "dead")
  /\ UNCHANGED <<files, stops, status, after, existing, want>>

Init ==
  /\ ownership = NoFile
  /\ written = {}
  /\ recovered = [r \in Run |-> NoFile]
  /\ displaced = FALSE
  /\ stop = 0 /\ asked = 0 /\ ack = 0
  /\ status = [run |-> NoRun, active |-> "no"]
  /\ pc = [r \in Run |-> "unborn"]
  /\ after = [r \in Run |-> "loop"]
  /\ existing = [r \in Run |-> NoFile]
  /\ want = [r \in Run |-> 0]
  /\ crashes = 0

Acquire(r) ==
  \/ ReadOwnership(r) \/ AuthenticateDeadOwner(r) \/ CheckArchive(r)
  \/ DisplaceOwner(r) \/ CreateOwnership(r) \/ WriteOwnership(r)

Heartbeat(r) == FindOwnership(r) \/ ReadHeartbeat(r) \/ WriteHeartbeat(r)

Loop(r) ==
  \/ CheckStop(r) \/ Select(r) \/ Route(r) \/ Observe(r) \/ CheckStopAgain(r)
  \/ HandleStop(r) \/ AcknowledgeStop(r) \/ ClearStop(r)

Release(r) == Ending(r) \/ WriteStatus(r) \/ ReadRelease(r) \/ RemoveOwnership(r)

Proceed(r) == Acquire(r) \/ Heartbeat(r) \/ Loop(r) \/ Release(r)

Next == RequestStop \/ \E r \in Run : Launch(r) \/ Proceed(r) \/ Crash(r)

Spec == Init /\ [][Next]_vars

\* A process that runs keeps running; a route reaches a boundary or its end.
FairSpec == Spec /\ \A r \in Run : WF_vars(Proceed(r))

-----------------------------------------------------------------------------
Steps ==
  Ended \cup Looping \cup
  {"reading", "proving", "archiving", "unlinking", "replacing", "creating", "writing",
   "emit", "beating", "rewriting", "closing", "releasing", "removing"}

TypeOK ==
  /\ ownership \in {NoFile} \cup Record
  /\ written \in SUBSET Run
  /\ recovered \in [Run -> {NoFile} \cup Record]
  /\ displaced \in BOOLEAN
  /\ stop \in 0..MaxRequests /\ asked \in 0..MaxRequests /\ ack \in 0..MaxRequests
  /\ status \in [run : Run \cup {NoRun}, active : {"yes", "no"}]
  /\ pc \in [Run -> Steps]
  /\ after \in [Run -> Looping \cup {"closing"}]
  /\ existing \in [Run -> {NoFile} \cup Record]
  /\ want \in [Run -> 0..MaxRequests]
  /\ crashes \in 0..MaxCrashes

(* A project has one loop: while one run has a route in progress, no other *)
(* run has.  The code does not keep this among three runs: two of them     *)
(* prove the same owner dead, the first creates its own record, and the    *)
(* rename of the second takes that one away (acquire).                     *)
OneProjectLoop ==
  \A q, r \in Run :
     pc[q] \in {"routing", "observing"} /\ pc[r] \in {"routing", "observing"} => q = r

(* Until an acquisition takes the record of a live run away, whoever is in *)
(* the loop has its own record in the ownership file, and so is alone.     *)
LoopOwnsRecord ==
  ~displaced => \A r \in Run : InLoop(r) => ownership # NoFile /\ ownership.run = r

(* A run that ended, on whatever path, left no record of its own behind.   *)
NoRecordLeft ==
  \A r \in Run : pc[r] = "done" => ownership = NoFile \/ ownership.run # r

(* A stop request that finds a run in its loop ends that loop.             *)
StopHonoured == \A r \in Run : stop # 0 /\ pc[r] \in Looping ~> ~InLoop(r)
=============================================================================
