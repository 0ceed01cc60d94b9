# Verification of development-conveyor

The conveyor is a controller that drives software development sessions over a Git
repository: it starts a session for a phase (plan, scope, implement, review,
integrate), decides from evidence whether its result may be committed, and can be
interrupted at any point and resumed. It has no server; every command is a process
that opens the same files. What makes it correct is therefore what it leaves on
disk between two steps. This directory models those files and the processes that
change them, checks the models with TLC and proves the core with TLAPS.

All source paths below are relative to `src/src/development_conveyor/`.

## 1. Inventory

| Component | State it keeps | Operations | Hard behaviour | What makes it correct |
|---|---|---|---|---|
| Evidence ledger (`ledger.py`) | one JSON-lines file, one head anchor, an append cache per process | `append`, `read`, `verify` | processes append concurrently; death or error between write, fsync, anchor and cache; short write | hash chain never forks; anchor at most one record behind; a cache that is trusted is right; what an append admits a read accepts |
| Transaction kernel (`kernel.py`) | the events of its transaction, the lease, the checkout | `begin`, `acquire_lease`, `capture_snapshot`, `session_launched`, `accept_result`, `record_file_mutation_boundary`, `validate`, `finalize`, `complete`, `block`, `restore` | death between any two durable effects; somebody else edits or commits in the checkout | nothing unvalidated is committed; a completed transaction has the effect it claims; the ledger stays readable |
| Writer lease (`workflow_lease.py`) | one lease file per repository | `acquire`, `revalidate`, `release`, `stale_evidence`, adopted leases | owner dies; two processes take over | one writer; a live writer keeps its lease |
| Recovery planner (`workflow_recovery.py`) and its caller (`cycle_engine.py`, `_kernel_recovery_preflight`) | archive of displaced leases, takeover lock, a recovery transaction in the ledger | `inspect`, `apply`, continuation | plan made before the lock is taken; the recovery itself dies; two recoverers | every recoverable interruption ends; nothing is committed twice or lost; the lease of a live process is not displaced |
| Projection (`projection.py`) | cache of the fold of all events, bound to a ledger sequence | `rebuild`, `load_cache`, `current` | ledger grows between reading and stamping | a cache that claims to be current is the fold of the ledger |
| Repository inspection (`repository.py`, `snapshots.py`) | none (reads Git) | head, diff, identity | read twice, changed in between | - |
| Typed contracts and state machines (`contracts.py`, `state_machine.py`) | none | transition tables, envelope parsing | illegal transitions after a resume | tables closed under the transitions the engine makes |
| Durable locks (`locks.py`) | launch reservation file | `acquire`, `heartbeat`, `release`, `recover_stale` | check, then rename or unlink | one reservation; a live one is not displaced |
| Autopilot (`autopilot.py`, `retries.py`, `scheduler.py`) | ownership file, stop request, retry budgets | `acquire`, loop step, stop, acknowledge | two autopilots; stop racing acknowledge; retry of what was done | one owner; a stop request is honoured; budgets bound |
| Cycle engine (`cycle_engine.py`) | cycle record per project, portfolio state | phase selection and phase runners | phases resumed in the middle | phases in order, each terminal outcome routed |
| Integration (`integration_executor.py`, `feature_integration.py`, `integration_discovery.py`) | integration plan, milestone branch, runtime record | build plan, execute, inspect and resume | death between cherry-pick and the metadata commits | accepted work is integrated once |
| Acceptance (`acceptance.py`, `accepted_commit.py`, `accepted_commit_recovery.py`, ...) | acceptance record, accepted commit | accept, finalize, recover | evidence and branch disagree | only the accepted commit is finalized |
| Feature result recovery (`feature_result_recovery.py`, `retained_feature_repair.py`, `feature_prelaunch_recovery.py`, `recovery.py`) | retained results and repairs | classify, retain, re-apply | result applied after its base moved | retained work is neither lost nor applied twice |
| Queue and planning (`queue.py`, `queue_control.py`, `planning.py`, ...) | feature queue | status changes, priorities, holds | legal calls in an unusual order | status lifecycle; dependencies before dependants |
| Human gates (`human_resolution.py`, `policy_rebind.py`) | open gates | raise, resolve, materialize | gate resolved twice, or after the transaction went on | each gate resolved once |
| Cycle cache (`cycle_cache.py`, `cycle_cache_repair.py`, `consistency.py`) | compatibility cache | write, validate, repair | cache and ledger disagree after a crash | the repair yields what the ledger says |
| Sessions and budgets (`sessions.py`, `execution_*.py`, `cost_policy.py`, `validation*.py`) | session records, budgets | launch, resume, account | a session result that arrives twice | budgets are bounds |
| Migration (`migration.py`, `compatibility*.py`, `legacy_adapter.py`) | imported events | import | import interrupted and repeated | idempotent |
| Bridge, simulator, command line, reports | none of their own | - | - | - |

How they interact: every phase runner of the cycle engine opens a *transaction* with
the kernel; the kernel takes the writer lease, appends events to the ledger, lets a
session edit the worktree, validates, commits with Git, appends the terminal event,
releases the lease and rebuilds the projection. Before a runner starts anything,
`_kernel_recovery_preflight` asks the recovery planner whether the files tell of an
interruption, and repairs it through a *recovery transaction* of the same kernel.
The files are shared state; there are no messages. The evidence is spread, though: `deliver-feature` keeps a ledger of its own next to the
engine's, the queue is a file tracked on the milestone branch, and project document and
cycle cache repeat what the ledger says. Three exclusions overlap and none covers the
others: the controller reservation (a command), the writer lease (a transaction) and the
Autopilot's ownership file (a loop). The hazards this exposes the code to are listed,
line by line, in `PROJECT.json`.

## 2. Modules

| Module | Models |
|---|---|
| `LedgerContract` | event types and the two lifecycle checks: `ValidateAppend` (incremental, every append) and `ValidateHistory` (complete, every read) |
| `AppendOnlyLog` | abstract specification: a log that grows by one legal event at a time |
| `EvidenceLedger` | the file protocol of `ledger.py`; implements `AppendOnlyLog` |
| `EvidenceLedgerProofs` | TLAPS proofs about `EvidenceLedger` |
| `WorkflowKernel` | kernel, lease file, checkout, projection binding, phase runner |
| `WorkflowKernelProofs` | TLAPS proofs about `WorkflowKernel` |
| `RecoveryPlanner` | extends `WorkflowKernel` with `inspect`, `apply` and the continuation |
| `RecoveryPlannerProofs` | TLAPS proofs about `RecoveryPlanner` |
| `AutopilotOwnership` | ownership file, heartbeat, stop request and release of `autopilot --apply` |
| `AutopilotOwnershipProofs` | TLAPS proofs about `AutopilotOwnership` |
| `PhaseCommands` | what accept, integrate and deliver share: milestone branch, feature branches, two ledgers, the lease, their model-free transactions |
| `FeatureAcceptance` | extends `PhaseCommands` with `accept-feature` |
| `MilestoneIntegration` | extends `FeatureAcceptance` with the integration executor, its two callers, and recovery |
| `MilestoneIntegrationProofs` | TLAPS proofs about `MilestoneIntegration` |
| `ProjectCycle` | the cycle engine: projection, queue, plan, dispatch, transactions as begin and end, caches |
| `ProjectCycleProofs` | TLAPS proofs about `ProjectCycle` |
| `FeatureRecovery` | the four routes that take up a feature execution without an accepted result |
| `FeatureRecoveryProofs` | TLAPS proofs about `FeatureRecovery` |
| `PlanningTransaction` | planning session, finalization, and the recoveries with and without a ledger |
| `PlanningTransactionProofs` | TLAPS proofs about `PlanningTransaction` |
| `MC*` | constants for TLC |

The modules are layers. `WorkflowKernel` and `RecoveryPlanner` have every durable step of
one transaction; the phase modules above them take a transaction's events one by one
where a death between two of them matters to that phase, and as begin and end where it
does not (`ProjectCycle`). `PhaseCommands` and its extensions use the event types and the
append check of `LedgerContract`.

### EvidenceLedger

`file` is the list of complete records and `ending` says whether a short write tore
the last line; `head` is the anchor file; `cache` is `_append_cache`; `flock` is the
exclusive lock of `synchronized`. `BeginAppend` is `append` up to `_validate_append`,
`WriteRecord` the write and its fsync, `PublishHead` the replacement of the anchor and
the new cache; `ShortWrite`, `AppendError` and `Crash` leave in between. The steps
before the write touch no file, so a death there is `Crash` at `built`. Fingerprints are collision-free:
one is the chain of contents it hashes.

The signature of a file (inode, size, mtime) is modelled by how much was written.
Every write grows the file and no code replaces it, so size alone tells two states of
it apart; this is where the model relies on the file being written by this class only.

### WorkflowKernel

One action is one durable effect. `Step(p, from, check, type, fact, to)` is a kernel
call: the checks of the method, one append, the next step, or the exception
(`Raise`), which ends in `_terminalize_handled_kernel_failure` blocking the
transaction (`failing`) or in the process giving up. The append is atomic because
`EvidenceLedger` implements `AppendOnlyLog`.

Paths and contents are abstracted to owners: every transaction edits one path of its
own, the outsider edits another. The worktree is the set of owners with uncommitted
edits, which is also the diff fingerprint; a commit is its author. That keeps apart
what the checks compare: own changes, foreign changes, missing changes.

The outsider (`Drift`) commits, adds a path, discards everything, or edits the recorded
path of a transaction (`EditPath`). The last puts the transaction into `edited`: its bytes
are no longer those in `facts`, and a check that compares fingerprints fails, a check
that compares paths does not. `finalize` compares bytes (`checked`), and `git commit`
after it takes the paths as they are, so an edit in that window is committed; it is
remembered in `raced`, and `CommitsAreValidated` says exactly this: a commit has the
validated bytes unless it is in `raced`. An edit before the mutation boundary is recorded
(`ChangesDetected`) counts as the session's, since nothing in the code tells the two apart.

`facts` holds the payload fields that later decisions read back (starting HEAD,
baseline diff, claimed paths, recorded boundary, final commit).

`holder` stands for the owner fields of the lease (host, pid, process start time),
evaluated: the live process they name. A pid that is reused is caught by the process
start evidence, so a dead owner is always recognised.

The materialization callback of `complete`, used only to resolve human gates, is not
part of this module; `ResolveGate` of `FeatureRecovery` is its use by result recovery.

### RecoveryPlanner

`Inspect` is the decision list of `inspect`; `Recover`, `ReadOldLease`,
`ArchiveLease`, `TakeLease`/`TakeFreeLease`, `StartRecovery`, `Repay`,
`CompleteRecovery`, `FinishRecovery`, `ReacquireLease` and `RecordReacquired` are the
durable steps of `apply`, and `ResumeAt` is what `restore` and the continuation do
with the resumed transaction. Between `StartRecovery` and `CompleteRecovery` the
recovery transaction runs through the kernel actions, as in the code. Order matters
and is kept: the old lease is read and its owner proved dead *before* the takeover
lock; the archive moves whatever lease file is there *under* it.

`Caller` says who drives the planner. `"direct"` is the planner as it is constructed by
the simulator and the tests, and what its own code promises; `"engine"` adds the two
things the commands of `cycle_engine.py` do around it: `resume` plans the project first,
which raises for a projection cache behind the ledger (`Reaches`), and the planner's
interruption hook is `_kernel_interruption`, which cannot take a boundary without a
transaction (`HookAccepts`). Section 5 says what follows.

### AutopilotOwnership

One action is one file-system operation of `autopilot.py`, since no lock protects its
files: `ReadOwnership`, `AuthenticateDeadOwner`, `CheckArchive`, `DisplaceOwner`,
`CreateOwnership` and `WriteOwnership` are `acquire`; `FindOwnership`, `ReadHeartbeat`
and `WriteHeartbeat` what `_emit` does to the file; `CheckStop`, `Select`, `Route`,
`Observe` and `CheckStopAgain` the body of the loop; `HandleStop` its `except` clause
and `Ending`, `WriteStatus`, `ReadRelease` and `RemoveOwnership` its `finally` clause.
`displaced` is a history variable: an acquisition took the record of a live run away.
`after` is where the code goes on once `_emit` returns. A record is its run and a
number of rewrites; `written` tells a file that was created from one that has its
content, so that `read_lock` can raise. `read_lock` tests and reads in one step: a file
that vanishes in between raises, and every caller ends as it does for a missing or a
foreign record.
What a route does and how often it is retried is left open (`Route` may return, raise,
end the loop or reach a boundary). `process_alive` is exact for the processes of
`Run`; whether repository and writer lease authenticate a death is a free choice.

### PhaseCommands, FeatureAcceptance, MilestoneIntegration

A milestone commit is what made it: the picked implementation of one version of a
feature (`Pick`), one of the two metadata commits of its integration (`marking`, then
`passed` or `failed`), or somebody else's. The queue file is tracked, so a feature's status is a function of the
branch (`QueueStatus`). `cand` is a version of a feature branch and the milestone commit
it starts from. The events a handler appends one after the other are its `todo`;
`EmitNext` appends one, so a process may die between any two.

`InspectForAcceptance` to `SupersedeIncompleteStart` are `accept_feature`: its inspection
and duplicate check, the lease and the transaction, the terminal check, and
`--recover-incomplete-transaction`, which supersedes a start that got no further. The
duplicate check is made without the lease, so two commands may both pass it and both
accept the same version one after the other (`BeginAcceptance` looks only at what the
code looks at under the lease). The integration refuses both then, since `AcceptedOn`
wants exactly one acceptance of the version.
`InspectTwoRefs` to `TerminalRepository` are the executor
(`ValidatePlan`, persist, switch and cherry-pick with its conflict, commit, marking,
validation, `RecordFinalMetadata`, complete) for both callers. `CherryPick` only stages
(`cherry-pick --no-commit` and the check of the staged paths); `CommitPick` is the
`git commit` after it, which takes the index onto whatever HEAD is by then: what an
outsider does in between is in the commit or below it, and the check of the made commit
(`MayMark`: a child of the planned start with the accepted tree) comes after it.
As for the callers: a process in `Delivery` is
`deliver-feature`, which works in a linked worktree and writes the other ledger, the
rest are engines. `RecoverFinalization` is `_recover_integration_finalization`. What
`RecoveryPlanner` does in many steps with an interrupted transaction is one action
(`RecoverIncomplete`), with the outcome it has for these workflows; `RemoveLease` is the
operator. The project starts as a migration leaves it: `Queued` are the features its
queue already calls accepted, and a feature without dependencies may be integrated
already (`Base`). `Ranged` features have branches of several commits.

### ProjectCycle

State: the milestone as the queue at each of its commits, the feature branches (start,
and whether there is work on them), checkout and linked worktree, the projection as the
fold of the event kinds the engine writes (`Started`, `Closed`, `Settled`), the open
transaction, the cycle cache with the ledger sequence it is bound to, the project
document, the controller reservation, and each process's plan.

`Authoritative` is `_authoritative_projection`: `View`, then
`Bind` to the queue of the *checkout* and `BindPrepared` to a finished preparation.
`RunProject` and `ResumeProject` make the plan; `PreflightFeature` and `PreflightGate`
compare it before the reservation, `Dispatch` under it. Then come preparation,
execution and its five ways to end, acceptance, integration and the gate; each
transaction is its begin and its end. `VerifyBranch` (`_verify_feature_branch_runtime`)
compares the branch with the live milestone, `BeginExecution` is the transaction and its
lease, which compare the checkout only: in between `Deliver` or `CommitByHand` may move the
milestone, and then the session runs on a base that is no longer the tip. The property
`SessionOnItsBase` does not promise the tip, therefore; `AcceptFeature`, like the code,
refuses the stale base afterwards. `RecoverCacheBinding` and
`ReconcileControllerState` are the commands that write the caches alone. Environment:
`Deliver` (the whole of `deliver-feature`, which has a reservation and a ledger of its
own), `CommitByHand` (the operator commits on the milestone), `AcceptByHand`, `Switch`,
`Link`, `CleanUp`, `Die` and `RemoveReservation`; nothing in the engine removes the
reservation of a dead process (`recover_stale` is not called), so only a person does.

### FeatureRecovery

One feature. The ledger is the list of its transactions with what an inspection reads of
them: mode, what it recovers (`origin`, `via`), snapshots, outcome, repair attempts. The
tree is a version of the implementation, whose metadata it holds, and whether there is a
path nobody authorised. `Invoke` starts a route (`prelaunch`, `result`, `repair`,
`repair_recovery`), `Inspect` authenticates the lineage, `Reserve` and `Revalidate`
follow for the routes that do so (prelaunch recovery takes no reservation), and each
route ends in `Complete`, `WriteCycleCache` and `WriteControllerCache`, or in one of the
failures with what its handler puts back. `Block` is the common handler; prelaunch
recovery has none, and another order: `CompletePrelaunch` completes the transaction,
`WriteControllerDocument` writes the project document, and `WriteCycleFile` reads the
cycle file, which may raise, and writes the cycle cache unless that shows a newer recovery. A failure or a death
in between leaves the document ahead of the cycle cache, and nothing puts it back.
`CachesAgree` says that this is the only way round without a command at work: the document
is never left behind. A check of fingerprints and the commit right after it are one step:
an edit in that window is not told apart, everywhere else it is (`Drift`).
`Caller = "autopilot"` adds the ownership file that `Autopilot.apply` holds while it
invokes a route.

### PlanningTransaction

The planning documents are an edition plus what its queue says: nothing ready, a newly
ready feature with an execution policy, or one without (`unbound`). `Session` is
`_execute_queue_reconciliation`, `Recover` is `_recover_terminal_planning_finalization`
(commit the retained diff, policy completed, or adopt the commit that is there),
`RecoverLegacy` is `recover-planning` from the planning file alone, up to its
`_transition_project` (`LegacyProject`), which goes through `legacy_adapter.py` and so
begins the ledger. Each transaction carries its planning file (`file`) as the code writes
it beside the ledger.

Comparison and commit are two steps on each route (`CompareSession`/`CommitSession`,
`CompareRetained`/`CommitRetained`/`ConfirmRecovery`, `LegacyCompare`/`LegacyFinalize`):
the code appends ledger records between them and looks at the paths only afterwards.
`Drift` may change the edition, idle the queue, drop the policy of a ready feature or add a
path, at any step. An edit between a comparison and its commit is committed, as in the
code, and remembered in `raced`; `RecoveredDiffIsRetained`, `ReadyIsBound` and
`LegacyCommittedOnce` leave those transactions out and nothing else. "Ready" means *newly*
ready: of a feature that was ready before, `planning.py` 2526-2530 asks no policy.
`RecoveryFails` is terminal for every transaction: the one the code names,
`_failed_planning_recovery_supersession`, is a historical identifier.

At this commit no command reaches `_execute_queue_reconciliation`; only tests call it. Its
results exist in ledgers of earlier controllers and in files of projects without a
ledger. Therefore three initial worlds: `InitEmpty` (the session runs here),
`InitPolicyFailed` (a ledger whose planning result failed for its missing policy) and
`InitLegacy` (a planning file and no ledger). The properties of the recoveries are about
the last two as much as the first.

## 3. Runs

| Run | Instance | Shows |
|---|---|---|
| `evidence_ledger` | 2 processes, 2 transactions, 4 event types, files up to 4 records | chain, anchor and caches coherent through crashes, errors and short writes; refinement of `AppendOnlyLog` |
| `recovery_planner` | 1 process at a time, 1 transaction, 3 recoveries, 2 crashes, 1 outsider step | after recoveries, and recoveries of recoveries: the ledger is one a read accepts, only validated changes are committed, completed work is on the branch, a blocked transaction left no commit |
| `recovery_concurrent` | 2 processes, 1 transaction, 2 recoveries, 1 crash | completed still means committed with two recoverers at once |
| `recovery_liveness` | 1 process, 1 transaction, 3 recoveries, 2 crashes, fair | the planner ends clean and validated interruptions |
| `recovery_engine` | the same with 1 crash and `Caller = "engine"` | violation, section 5 |
| `autopilot_ownership` | 2 runs, 2 heartbeats, 2 stop requests, 1 death, fair | no ended run leaves its record; a stop request ends the loop it meets |
| `autopilot_contention` | 3 runs, 1 heartbeat, 1 death | violation, section 5 |
| `milestone_integration` | engine and delivery, 2 features (one needs the other), 3 transactions, 1 crash, 1 outsider step | an accepted change arrives once, on its commit, after its dependencies; a transaction's class is what the branch shows |
| `project_cycle` | 2 engines, 2 dependent features, runs begin up to ledger record 10, 1 death, operator commits up to milestone commit 3; from a fresh and from every migrated project | a session works alone and on its base; the gate waits for every feature; a bound cache agrees with the ledger |
| `feature_recovery` | 2 commands, 2 versions, commands begin with up to 4 transactions, 1 foreign edit, 1 death | what is recovered is what a session left; gates, attempts, failures; the project document is not left behind the cycle cache |
| `recovery_by_autopilot` | 1 command under `Caller = "autopilot"`, no faults, fair | violation, section 5 |
| `planning_transaction` | 2 commands, 2 editions, 2 transactions, 1 foreign edit, 1 death; the three initial worlds | a planning result is finalized once, byte for byte up to the last comparison, and newly ready features are bound to the head |

Bounds. Four records are enough for the ledger: the protocol looks only at the tail,
its predecessor and the anchor, and four allow a stale cache of one process two
records behind another. Two crashes are needed for the death of a recovery; three
recovery ids let the recovery of that recovery be interrupted and still leave one to
finish. Where `Recovery` ids run out `Recover` is disabled, which the liveness run
could mistake for being stuck: with two crashes at most two recoveries die, and the
third id is the one that succeeds. One outsider step separates every check from its
use; two would only undo each other. Symmetry is used in the safety runs only: recovery ids and
processes are interchangeable there, as no action or property names one.
Two runs of the autopilot allow one takeover, with the displacement of the other's record;
a third is what a second contender for the same dead record needs, and has a run of its
own, `autopilot_contention`. What the two-run instance shows does not depend on the
number for `NoRecordLeft`, which is proved for any; two stop requests are what it takes to replace
one that is being acknowledged. One heartbeat may leave the record unchanged, as its
times are whole seconds, and a second makes it differ from an archived copy.

Two features, the second of which needs the first, are what the dependency checks, the
selection and the gate tell apart. Three transactions are one acceptance, one
integration and one retry or acceptance of the other feature; a run of `project_cycle`
that begins by record 10 lets the first feature be prepared, executed, accepted and
integrated and the second one started, with a failure on the way. In `feature_recovery`
a command that begins with four transactions allows execution, failed result recovery,
repair and repaired-result recovery, and a fifth transaction that must not be admitted.
Two versions are the retained one and another; MaxTransactions, MaxSequence and the
editions bound when something may begin, never how it ends. `MaxCommits` of `project_cycle` lets the operator add a commit until the
milestone has three: one before and one after a preparation or a verification. One death
and one foreign edit are placed at every step; with two processes the survivor meets what the death
left. Symmetry over processes is used in the invariant runs of the three modules above
them that have interchangeable processes (`ProjectCycle`, `FeatureRecovery`,
`PlanningTransaction`).

`CHECK_DEADLOCK FALSE`: all these systems may stop (no work is left, the bound on
crashes or ids is reached, or a human decision is awaited).

Fairness (`FairPlannerSpec`): weak fairness of `Proceed(p)`, the disjunction of every
step of a running process and of `Recover`. A process that is not killed goes on to its next
step, since no step waits for anything but the takeover lock, whose holder
proceeds as well; and the operator, or the autopilot's loop, runs the command again
while it reports something recoverable (an assumption about the operator, not about
the code). Crashes, the outsider and the start of
new work are not fair. `FairSpec` of `AutopilotOwnership` is weak fairness of every step
of a running process; that a route returns or reaches a lifecycle boundary follows from
the time limits of sessions and commands. Launches, deaths and requests are not fair. `FairSpec` of
`FeatureRecovery` is weak fairness of a running command and strong fairness of
`Invoke(p, "result")`: the Autopilot's loop invokes the registered route whenever the
failure shows again. It is used in the run that refutes recovery all the same.

## 4. Proofs

`EvidenceLedgerProofs` proves, for any number of processes, transactions, event types
and records:

- `TypeCorrect`, `ChainNeverBreaks`, `HeadIsAnchored`, `CacheIsSafe`: the invariants of
  the run `evidence_ledger`;
- `TornEndsTheLedger`: the action property `TornIsFinal`;
- `LedgerImplementsLog`: the file protocol implements `AppendOnlyLog`;
- `LedgerStaysReadable`: `ReadableOnceAnchored` for every event type of the contract, as
  long as each write keeps to the order that only the read asks for (`WritesInReadOrder`).

Assumptions: `LedgerConstants` (the event types are known ones, the markers for
"none" are not records).

Argument. The chain is not inductive by itself: an append could extend a tail that is
no longer there. `IInv` adds that whoever is inside `append` holds the lock
(`LockDiscipline`); that a draft, once built, extends the file as it is, fits the
contract there, and its process's cache equals the file (`DraftFits`); that between
write and anchor the file is the cached events plus the draft (`DraftWritten`); and
that no cache claims more than the file, and a matching one equals it with an exact
anchor (`CachesFit`). The last is the subtle one: on a cache hit `append` verifies
neither chain nor anchor, so the invariant must say that the anchor was exact when
the cache was filled and that nothing which could invalidate it leaves the signature
alone. One lemma per action shows that it preserves `IInv`. For the refinement
`WriteRecord` is `Record`, `ShortWrite` is `Tear`, all else stutters.

A read checks more than the appends did. `InReadOrder` has the five things that only the
read asks: `SessionLaunched` not before the snapshot, an acquisition after another one not
without a `RecoveryApplied` in between, `TransactionCompleted` not after `LeaseReleased`,
`LeaseReleased` not after `ProjectionUpdated`, and `ProjectionUpdated` not before the end.
An append lets each of them through, so that the file protocol alone does not keep a
ledger readable, and TLC finds the counterexample at once with these types in `Types`
(`MCTypes` of the run keeps to four on which the checks agree). The theorem therefore has
the rules as a premise on each single write, `[][WriteRecord(p) => WritesInReadOrder(p)]`,
and no premise on the types: then every history the appends have built is one the read
accepts, for transactions of any length (`Closed`: a recorded type has its predecessors;
`FirstAfterAppend`: the first place of a type never moves; `HistoryGrows`: what a record
does to the history of each transaction). The premise is discharged where the events come
from: `HistoriesAreReadable` below proves that the runners of the kernel never append
anything else, and the run `recovery_planner` checks it of a recoverer that re-acquires
leases. With two recoverers at once it is false (section 5, item 10).

`AutopilotOwnershipProofs` proves `TypeCorrect`, `RecordIsRemoved` (`NoRecordLeft`) and
`LoopIsExclusive` for any number of runs, from `OwnershipConstants` only. A run may end only if the file does
not name it, and the steps that end it read the file one step earlier. `IInv` therefore
says that the file never names a run that has not created it or has ended
(`NamedRunIsLive`), that a run past its creation has written it, so `release` never
takes its own record for unreadable (`OwningRunHasWritten`), and that what a run rewrites
or displaces was a record (`HeartbeatIsOwn`, `ExistingIsRecord`). The point is that a
displaced run never comes back into the file: it writes only after it has read its own
record there, and a record that was read and then displaced is written again before
the run can end, so the run reads it once more when it releases.

`LoopIsExclusive` is the other half of what `autopilot_contention` shows. `OneProjectLoop`
is false with three runs; the theorem says for how many reasons: one. As long as no
acquisition has taken the record of a live run away (`displaced`), whoever is in the loop
is named by the ownership file, whatever dies, stops or takes over, and the loop is
single. Exclusive creation, heartbeat, release and the takeover of a dead owner add no
other way to two loops.

`PlanningTransactionProofs` proves all six invariants of the run `planning_transaction`
(`TypeCorrectness`, `RecoveryIsFaithful`, `RecoveryIsOnce`, `FileIsTruthful`,
`ReadinessIsBound`, `LegacyIsOnce`) for any number of commands, editions, transactions,
foreign edits and deaths, from each of the three initial worlds, assuming
`PlanningConstants`. Whoever changes branch, ledger or projection holds the reservation
(`OneCommand`); a transaction that has ended never changes, so what a plan read of it
*before* the reservation is still so when it is applied (`PlansBound`), and what it was
checked against afterwards is kept by the exclusion (`CommandsOK`). That does not hold of the checkout, which an outsider edits at any time:
a bytewise fact about it is known at a comparison, and after it only for a transaction
that is not in `raced` (`RecoveryOK`, `SessionOK`), which is where the properties put the
same exception. `LedgerOK` relates
each record to its planning file and, for an applied recovery, to the transaction it
recovers; `WorldOK` is what is special to a project without a ledger.

`FeatureRecoveryProofs` proves all six invariants of `feature_recovery`
(`TypeCorrectness`, `BytesArePreserved`, `GateWaitsForCommit`, `SessionsAreBounded`,
`FailureIsHarmless`, `CachesStayTogether`) for any number of commands, versions,
transactions, foreign edits and deaths and for either `Caller`, assuming
`RecoveryConstants`. The reservation is not enough here, since prelaunch recovery takes
none: `Alone` says that one command at most is at work on the open transaction, or on the
caches after it, all the same, because `begin` admits one open transaction and its runner
alone goes on with it.
`OneCommand` says that the routes with a reservation exclude each other, so a plan that
was verified under it keeps its gate and its retained bytes until it is applied
(`CommandsOK`). `RepairsOK` allows one repair transaction per retained result; the bound
on sessions counts the attempts in that one's record. `CachesOK` says what the two caches
may show between commands: the same recovery, or a document that a prelaunch recovery
wrote last. A prelaunch recovery that is still writing while another command goes on
cannot overwrite the cycle cache of that one: `WriteCycleFile` asks for a ledger that
projects `feature_preparing`, and once the feature has its commit no ended ledger does
(`CachesOK`, fourth conjunct). The others may leave the document behind only at the step
before their second write.

`MilestoneIntegrationProofs` proves all five invariants of `milestone_integration`
(`TypeCorrectness`, `IntegrationIsOnce`, `DependenciesComeFirst`, `ClassIsTruthful`,
`PassedIsCompleted`) for any number of processes of either kind, any features with any
dependencies, any transactions, versions, deaths and foreign steps, assuming
`PhaseConstants` and `QueuedAssumption`. The milestone only grows. A command at work
holds the lease, so what a handler saw of a prefix of the milestone stays true of that
prefix (`HandOK`), and its check that HEAD is still the planned start makes the prefix
the whole milestone again when it appends (`CommandOK`). A ledger entry changes until its
terminal event and never after (`EntryOK`), a plan is of a version that was accepted on
the commit it is picked onto (`PlanOK`, `Based`), a pick has an acceptance made on a commit
before it and its dependencies below it (`PickOK`), and nothing is recorded of a feature
after its outcome (`FinalOnce`).

Why a version is picked once: an acceptance is not unique, since the duplicate check is made
without the lease. But a plan wants exactly one acceptance of the version, made on the
present tip, and a version that has been picked before has one that was made before that
pick (`PickOK`), on an earlier commit. Both cannot be the one, so the version is not on the milestone
when the plan is made (`Unpicked`), and the checks of the tip keep it so up to the pick. From
`CherryPick` to `CommitPick` nothing is checked: what an outsider puts below the pick there
is not a pick, and what gets into the commit makes it an outsider's commit, which
`MayMark` refuses.

`PassedIsCompleted` speaks of worlds without a death and an outsider: there the worktree
has nothing but the staged pick (`Clean`), so nothing can come between a passing outcome and the end of its
transaction. The versions are where the
proof is worth more than the run: the run keeps to one version of a branch, the theorem
covers replaced branches.

`ProjectCycleProofs` proves all four invariants of `project_cycle` (`TypeCorrectness`,
`SessionsAreOnBase`, `GateWaits`, `BoundCachesAgree`) for any number of engines, features,
dependencies, ledger records and deaths, and from a fresh or any migrated project,
assuming `CycleConstants`. An engine past the reservation is the only one, but
`deliver-feature`, `accept-feature` and the operator take no reservation. `HandOK`
therefore keeps of a checked plan only what those three cannot undo (the milestone grows,
what is integrated stays integrated, a start is never above the tip), and the rest only
from the point where the open transaction keeps them out. That is the part of the engine
that looks redundant and is not: the comparison of the checkout when the transaction
begins, after the branch was verified against the milestone, is what puts a session on
its base. It does not put the base at the tip: `Deliver` and `CommitByHand` between the two
are allowed, and the theorem is silent about the tip for that reason. `Faithful` ties the projection to the repository (a gate
state is one of a complete milestone), and `Bounded` keeps a cache from being bound to a
record that is not written yet.

`WorkflowKernelProofs` proves `TypeCorrectness`, `HistoriesAreReadable`
(`LedgerStaysValid`), `CompletionIsCommitted` (`CompletedMeansCommitted`) and
`OnlyValidatedCommits` (`CommitsAreValidated`) for any number of processes, transactions,
deaths and foreign steps, assuming `KernelConstants`. The invariant has two halves.

- `Sound` is what a kernel instance keeps whoever drives it. Evidence is only added: a
  mutation boundary needs the accepted result, a validation the boundary, and what was
  claimed is what was bounded (`Evidence`); the step of a process implies what its
  transaction has recorded (`Places`). A result is accepted once because ids are fresh, so
  a transaction has one first run (`FirstRuns`). Hence what is committed is what was
  validated, and nowhere does the argument use the lease. `Compared` adds the bytes: a
  process past the last comparison has a transaction whose recorded bytes are in the
  worktree, or one that was edited since (`raced`).
- `Order` is what holds of the runner alone. One process works on a transaction (`Alone`),
  each event it appends is higher on a ladder of event types than all before it, and its
  step bounds how high that is (`Histories`). A climbing history with the predecessors an
  append checks is one that `read` accepts (`ClimbingIsValid`), although the two checks are
  different predicates. `Landed` places the commit: a transaction commits once and above
  its base, which is why "the recorded commit is the base" means that nothing was changed.

`RecoveryPlannerProofs` takes `Sound` up under `PlannerSpec`, for any number of recoverers
at once, of recoveries, deaths and foreign steps, and for either `Caller`:
`PlannerTypeCorrectness` (`PlannerTypeOK`) and `RecoveredCommitsAreValidated`
(`CommitsAreValidated`). `Order` does not survive recovery (two processes write to one
transaction, and its lease is acquired twice); `Sound` does, since what recovery writes to
a transaction of somebody else is never evidence of a session, a boundary or a validation
(`ForeignAppendKeeps`), and a resumed transaction is taken up no later than its evidence
ends. `Plans` adds that a plan in use that owes or resumes something is one for a
transaction the ledger has. So the concurrency flaws of section 5 (items 4 and 5) cost a
lease or a block, and never let an unvalidated change onto the branch.

Nor do they record work as done that is not on the branch:
`CompletedWorkSurvivesRecovery` (`CompletedWorkIsOnBranch`) follows from `BranchInvariance`,
for any number of recoverers, deaths and foreign steps. `BranchInv` has three parts.

- `Committed`: a transaction commits once and above its base. A session leaves a path in
  the worktree only while its transaction has no commit, and no session runs after its
  validation (`NoSessionAfterValidation`), so there is nothing left for a second commit.
- `Finalized`: a final commit is recorded only of a validated transaction and by somebody
  who knows it. That is the process that committed (the recorded commit is its own or one
  that came on top), one that found HEAD at the base and nothing to commit, or a recovery
  that saw exactly one child of the base.
- `Grounds`: a recovery owes `TransactionCompleted` only to a transaction whose final commit
  is recorded or that has ended, and owes both only to one whose commit is the child of its
  base. What a recovery saw stays true until it repays, whatever else runs in between,
  because records and commits are never taken back (`Grows`). This is why the plan may be
  old when it is used, and why neither the lease nor a single recoverer is needed.

What is given up is not on the branch, either, but this needs a single recoverer:
`GivenUpWorkHasNoCommit` (`NoCommitBehindABlock`) assumes `\A p, q \in Process : p = q`, and
nothing of the number of deaths, recoveries and foreign steps. With two processes it is
false (section 5, item 5: TLC finds it after 36 steps, one of them a death), so some
assumption of this kind is needed. `UnblockedInv` says that what has committed was not given up
(`Blockless`), and that what may still commit is open (`Awaits`): the transaction of a
process before `git commit`, the one a process has just taken up again, and the one a plan
is going to resume. The last is the argument for `inspect`: `resume` requires HEAD at the
base, hence no commit (`InspectIsOpen`), and while the one recoverer runs its own recovery
transaction nobody else can commit the resumed one, so it may be superseded without looking
at HEAD again. Recovery transactions never commit, which is why superseding an interrupted
recovery is safe (`RepayAwaits`).

The inductive invariant of each module was checked by TLC on the instance of its run
before it was proved, and each conjunct was added because a step lemma failed without it.

Only model-checked:

- `NoCommitBehindABlock` with two processes is false (section 5, item 5), and so is
  `LedgerStaysValid` (item 10). With one recoverer the first is proved, the second is
  checked (`recovery_planner`); `WorkflowKernelProofs` proves it for the runners.
- `CompletedMeansCommitted` under recovery (`recovery_concurrent`). `WorkflowKernelProofs`
  proves it for runners without recovery; with an outsider and recovery it is false (item 6).
- `OneProjectLoop` with three runs is false (section 5, item 3); what is true of it is
  `LoopIsExclusive`.
- The liveness properties `StopHonoured` and `CleanInterruptionIsRecovered`, and ENABLED,
  which the prover does not handle; and the three violation runs.

No module uses a RECURSIVE operator.

## 5. What the checks found

Runs with expectation `violation`:

1. `recovery_engine`: the command does not recover what the planner would. `resume` plans
   the project before its recovery preflight, and planning raises for a projection cache
   that a crash left behind the ledger; where planning succeeds, `apply` announces
   `before_lease` without a transaction and the engine's hook dereferences it. The
   repository's own test of `resume` fails at this commit.
2. `recovery_by_autopilot`: every feature recovery refuses while an Autopilot ownership file
   exists, and the Autopilot holds its own while it invokes them. The planning recovery
   admits the current process instead.
3. `autopilot_contention`: two runs prove one Autopilot owner dead; the first archives its
   record, creates its own and enters the loop; the second's rename then takes that live
   record away, and it enters the loop too (`acquire`, autopilot.py 214-228).

Seen with other instances or by adding a property to a run; the definitions are in the
modules:

4. `LiveWriterKeepsLease` (`RecoveryPlanner`, two processes): two recoverers that proved the
   same lease stale displace each other; the second removes the lease of the live first
   one. The transaction-level property of `recovery_concurrent` still holds, because
   each kernel step revalidates the lease.
5. `NoCommitBehindABlock` with two processes: a clean resume plan is not compared with HEAD
   again; a transaction that committed after the inspection is superseded.
6. `CompletedMeansCommitted` in `RecoveryPlanner` with an outsider: HEAD is read again after
   `git commit`; with a foreign commit on top `complete` refuses, and recovery then
   completes the transaction with the foreign commit.
7. `ExactDirtIsRecovered` (`RecoveryPlanner`): an interruption between the accepted result
   and the mutation boundary is called resumable and never ends.
8. `CrashIsRepaired` (`EvidenceLedger`): the crash that `read` promises to repair is not
   repaired for the first record, as there is no anchor yet to be one behind.
9. `PassedMeansCompleted` (`MilestoneIntegration`) without its exclusion of `Ranged`
   features, for `Ranged = {f1}`: the terminal check of an integration compares one picked
   commit; for a branch of several commits it refuses after the passing outcome is on the
   milestone, and the queue says integrated while the ledger has a failed transaction. The
   recovery refuses ranged features too.
10. `LedgerStaysValid` (`RecoveryPlanner`, two processes): two recoverers that displace each
    other (4) may both re-acquire the lease of one transaction, and the second acquisition
    has no `RecoveryApplied` of its own. The appends admit it, and every read refuses the
    ledger from then on.

Windows between a check and its use, kept in the models as separate steps; the properties
say what is true with them:

- Bytes are compared before `git commit`, and paths after: an edit of an own path in
  between is committed by the kernel (`EditPath`, `raced`), by a planning finalization and
  its recovery, and by `recover-planning`. It may drop an execution policy that the
  validation had seen, and the feature is projected ready without one.
- `git cherry-pick --no-commit` and the `git commit` after it: an outsider's edit gets into
  the pick. Here the tree of the commit is compared afterwards, and the integration stops
  with that commit on the milestone.
- The milestone may move between `_verify_feature_branch_runtime` and the execution lease:
  the session runs on a base that acceptance then refuses.
- Two `accept-feature` commands may accept one version twice; integration refuses both.
- A prelaunch recovery that fails or dies after the project document leaves the cycle
  cache behind it; nothing in the route puts either back.
- `recover-planning` that dies or is refused between its planning file and
  `_transition_project` does not make up for it when it is repeated: the repeat finds the
  committed file and returns (`LegacyProjectFails`).

Also visible in the models, without a property of their own:

- The gate refuses for the phase of the cycle cache, bound or not (second disjunct of
  `BeginGate`), although docs/ARCHITECTURE.md:69 says the caches "never override routing".
- An acceptance by the engine leads to an integration that the engine refuses: the queue
  of its checkout never names the feature, so only `deliver-feature` or a migrated queue
  brings it on (`AcceptCandidate`).
- A delivery after a selection leaves `start` of the projection behind the milestone, and
  every later dispatch of that selection is refused.
- A completed recovery of a deterministic integration is recorded without its
  classification and feature (`RECOVERED_COMPLETION`).
- An unrecoverable planning failure makes its inspection raise inside the plan: status,
  run and resume raise from then on. Nonfatal inventory warnings end in a semantic
  conflict after the commit (`Conflict`).
- A death after the metadata write of a feature recovery leaves a tree that no route
  accepts, and a prelaunch recovery that fails after `begin` leaves its transaction open.
- A pick is not undone when the marking after it fails, as it does for somebody's commit on
  top. The feature can be accepted again from a replaced branch, and both versions'
  implementations are on the milestone. `IntegratedOnce` is therefore about a version of a
  feature; the proof of it brought this up, with one version the run cannot show it.
- A stop request that replaces one which is being acknowledged is unlinked in its place
  (`AcknowledgeStop`, then `ClearStop`); harmless, as every request has the same effect.

The limits of the passing runs follow from these:

- `LedgerStaysValid` and `NoCommitBehindABlock` are about one recoverer at a time (5, 10).
- `CleanInterruptionIsRecovered` excludes exactly the states of 7 and a second archive of
  one transaction; the exact-dirt continuation is not covered by it.
- `CompletedWorkIsOnBranch` says "at or below the recorded commit", and
  `recovery_concurrent` has no outsider, because of 6.
- `CommitsAreValidated`, `RecoveredDiffIsRetained`, `ReadyIsBound` and `LegacyCommittedOnce`
  leave out the transactions edited between the last comparison and the commit, no others;
  `RetainedBytesPreserved` is about edits outside the check-and-commit step, which
  `FeatureRecovery` has as one.
- `PassedMeansCompleted` speaks of unranged features (9) that were picked by a transaction,
  without a death or an outsider. What holds with them is `ClassIsOnMilestone`, of the
  classes INTEGRATED and the failed ones; `RECOVERED_COMPLETION` is not among them, since
  its record names neither classification nor feature.
- `RepairSessionsBounded` counts failed attempts, `RecoveredOnce` applied recoveries, and
  `FailurePreservesDiff` is about the recoveries that have a handler: a prelaunch recovery
  has none.

## 6. Not modelled

- The command line, reports, logging, redaction, configuration: I/O and formatting
  without state of their own. The bridge and the simulator: test equipment.
- Budgets, cost policy, execution profiles, validation tiers: accounting and schema
  decisions inside one process. (The retries of a launch reuse its launch key, so a parent
  budget of one ends them in `validation_failed`; the models have that outcome as a
  failed session.)
- The Autopilot's retry budgets, quarantine and feature switching, `retries.py` and
  `scheduler.py`: counters inside one process; what the loop routes is `ProjectCycle`.
- `cycle_cache_repair.py`: its application route needs an acceptance immediately before a
  completed integration, an order the engine does not produce; the rest, like
  `accepted_commit_recovery.py`, the F003 route of `feature_result_recovery.py` and one
  legacy planning route, is pinned to identifiers of historical transactions.
- `human_resolution.py`, `policy_rebind.py`, `queue_control.py`, `feature_scoping.py`,
  `product_plan.py`: operator documents checked against schemas and written once; their
  effect on the queue is part of the initial states.
- The acceptance that an old commit carries in its own tree: where the ledger has no
  acceptance, the executor falls back to it (cycle_engine.py 8142-8146,
  integration_executor.py 299-339), picks with a plain `cherry-pick` and compares the patch
  fingerprint. No command of this commit makes such commits; `AcceptedOn` has the ledger's
  acceptances only.
- The import of a migration: made once per project before any command; what it leaves is
  `InitMigrated` and `Base`. The crash of an import halfway is not modelled.
- The window between `read` and `verify` in `projection.rebuild`, and files that are created
  empty and then written (lease and reservation): see the notes under "hazards".

Worth proving next: `CompletedMeansCommitted` of recovery without an outsider, which needs
that at most one ordinary transaction is open, whoever holds the lease.
