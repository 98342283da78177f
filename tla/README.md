# A verification project for reproof

reproof lets people and automated jobs drive real phones from a host: it claims
a device, starts a native helper on it, injects inputs, records evidence,
replays recordings and repairs applications. What makes it hard is not any one
of these, but that the device outlives every process that believes to own it.
This project models the parts that decide **who may touch a device and what is
known about what was done to it**: the host authority with its durable journal,
the sessions and devices of the Lab, the control of a session and what reaches
its device, the replay job queue, and the recording of a session over the
evidence store and its disk budget.

    Authority.tla            ownership of one device by competing host processes
    DeviceJournal.tla        the abstract promise: a journal of one device
    AuthorityRefinement.tla  the refinement mapping and the inductive invariant
    AuthorityProofs.tla      the TLAPS proofs about the journal
    AuthorityOwnershipProofs.tla  those about the lock, the order and the helper
    MCAuthority.tla, *.cfg   its instances for TLC
    JobQueue.tla             the replay job queue and what it sees of the Lab
    JobQueueProofs.tla       the TLAPS proofs
    MCJobQueue.tla, *.cfg    its instances for TLC
    LabDevices.tla           who holds a device of the Lab
    LabDevicesProofs.tla     the TLAPS proofs
    MCLabDevices.tla, *.cfg  its instances for TLC
    LabControl.tla           who controls a session, and what reaches the device
    LabControlProofs.tla     the TLAPS proofs
    MCLabControl.tla, *.cfg  its instances for TLC
    EvidenceStore.tla        the evidence store and the disk budget it charges
    Recording.tla            a recording over that store (EXTENDS EvidenceStore)
    RecordingProofs.tla      the TLAPS proofs about the journal
    EvidenceStoreProofs.tla  the TLAPS proofs about the store under a recording
    MCRecording.tla, *.cfg   its instances for TLC
    PROJECT.json             components, runs, mutants, map to the source,
                             findings, hazards, theorems

All paths below are relative to the repository root.

## 1. Inventory

| Component | State it keeps | Operations | Hard behaviour |
| --- | --- | --- | --- |
| Host authority, `reproof/live/authority.py` | `HostAuthority` (open handles, closing flag), `DeviceAuthority` (grant, generation, revoked / helper attached / cleanup confirmed), permits | claim, renew, admit, prepare, check permit, native handshake and grant, confirm, revoke, reconcile, borrow the lock, close | a permit is checked and used later; confirmations run outside the handle's lock; processes die anywhere |
| Authority state store, `reproof/live/state_store.py` | SQLite: devices, operations, replay watermarks, receipts, reconciliations | one transaction per authority operation | late and duplicate receipts; interrupted recoveries; bounded receipts and reconciliations |
| Canonical lease, `reproof/storage.py` | flock on one file per device, duplicated descriptors, the cutover marker | enter, exit, mark, borrow | descriptors outlive the process; controllers that predate the authority |
| Clock synchronisation, `live/clock_sync.py` | offset mapping between clocks | sample, translate | suspend, drift, a mapping that becomes unusable |
| Lab, `live/model.py` | devices, sessions, controller and epoch, pointers, frames, recordings, replays | create, claim, input, record, replay, fail, close, reserve, reap | provider callbacks, two locks, several closers |
| Replay job queue, `live/jobs.py` | jobs (persisted), reservations, workers, cancel events | submit, cancel, dispatch, run, clean up, close, load | dispatcher works on stale device states; busy retry; shutdown and restart |
| Repair jobs, `live/repair_jobs.py`, `live/project_repair_jobs.py` | persisted jobs, worker threads | as the replay queue | external builds, approval between steps |
| Worker and control plane, `live/worker.py`, `live/client.py` | remote leases, sessions over HTTP | acquire, renew, release, forward | lost and repeated requests |
| Inventory, `live/inventory.py`, `live/enrollment.py` | enrolled devices, holds | enrol, hold, admit | holds and ownership live in two stores |
| Access, `live/access.py` | principals, roles, credentials | grant, revoke, authorise | revocation while an effect is under way |
| Recording sessions, `live/recording_session.py` | SQLite: recordings with their barrier, events, samples, media, gaps, pending and final lifecycle receipts; in memory a session with its lock and the collections in flight | begin, admit, dispatch and acknowledge an input, record a frame or an observation, stop, freeze, load, append a receipt, recover | collections and receipts race the stop barrier; the original is published in another store before its row is frozen |
| Evidence store and disk budget, `live/evidence_store.py`, `live/disk_budget.py`, `live/frame_spool.py` | two SQLite databases (objects, staging, tombstones, pins; reservations) and files | reserve, adopt, commit, release; put, pin, tombstone, abandon, reconcile | no transaction spans the two databases and the files; blobs with the same bytes share a file |
| Artifact transfer, `live/artifact_transfer.py` | chunks, publication | begin, append, publish | resumption, duplicates |
| Execution journal, `execution/journal.py`, `execution/journal_recovery.py` | append-only run journal | append, recover | torn writes |
| Repair journal, `repair_journal.py` and the repair operations | append-only journal, signing owner | append, resume | crash between effect and record |
| Fixtures and qualification, `fixtures.py`, `qualification.py` | leases of fixtures, campaigns | acquire, release, run | cleanup failure |
| Issue workflow, HTTP server, providers, recovery of Android and iOS devices, snapshots and signing tools, simple pipeline, native helpers | see PROJECT.json | | orchestration, transports, parsing, other languages |

How they interact. The HTTP server and the workers call the Lab. The Lab holds
one authority handle per session of an enrolled device, prepares an operation
in the journal before each effect, hands the permit to the provider and
confirms the result afterwards. The provider and the native helper check the
permit again, with the handle, right before the effect. Job queues are clients
of the Lab like any user. Recovery code borrows the device lock from a handle
and reconciles the journal with evidence it gathered outside. The inventory and
the evidence store are consulted by the Lab and keep stores of their own.

What makes each correct:

* authority: an effect reaches the device only while the journal says that its
  outcome is open; an open outcome blocks everybody until it is decided; a
  decided outcome is final; fences are final within a generation;
* lease and marker: a legacy controller and the authority never act together;
* job queue: submission order per device, no run twice, no unconfirmed
  success, nothing left behind by shutdown, everything eventually finishes;
* Lab: one provider per device, no late callback touches a later owner's
  device, a command is injected once, a replay starts from a reset and is not
  disturbed;
* evidence: bytes on disk are charged, published objects are readable, also
  when a crash comes between a file and its row;
* recording: what the device did is in the original, complete means complete,
  nothing that was acknowledged is lost, the original never changes.

The hazards, each at its line with the properties aimed at it, are in
PROJECT.json.

## 2. Plan

Done: (1) `Authority` with its abstract journal, invariant, refinement and
proofs; (2) `JobQueue`, checked for safety and liveness; (3) `LabDevices` and
`LabControl`, the device and the session side of `live/model.py`, each with the
authority as the Lab sees it; (4) `EvidenceStore` and, on top of it, (5)
`Recording`; (6) theorems for the safety properties of these.

Next, in this order:

7. `RunJournal` and `RepairJournal`: append, torn write, recovery; abstract
   specification: a prefix-closed log.
8. `RepairJobs`, `Inventory` holds composed with the authority, `Fixtures`,
   `ArtifactTransfer`; clock arithmetic of `record_exchange` and `translate`
   against a reference definition.
9. The video source mode of a recording with its spool and its recovery.

## 3. The host authority

### State and steps

`Authority` models one device, because every statement of the journal is keyed
by the device's fingerprint. Durable state: `dev` (the devices row), `op` (the
operations rows), `watermark`, `receipts`, `recons`, `marker`. Kernel state:
`fd` (descriptors of the lock file per handle, also those that native owners
borrowed) and `legacy`. Process memory: `host`, `hd` (the fields of each
`DeviceAuthority`), `permit`, `pend`. The device: `up` (generations whose helper
runs) and `effect`. `now` is the suspend-inclusive clock.

A journal transaction is one step. A method under the handle's lock is one step
per transaction or marker write, so that a crash or another process can come
between them: `ClaimBegin`, `ClaimStore`, `ClaimFinish`, `ClaimFail` for
`claim_device`; `CloseStore`, `CloseMark`, `CloseMarkFail` for `close`.
`confirm_operation` does not take that lock and is `BeginConfirm` followed by
`FinishConfirm`, `DropConfirm` or `FinishClock`. Checking a permit (`Arm`) and
the effect itself (`Land`) are two steps with everything allowed in between.
Rows a transaction writes have an operator of their own (`ClaimedRow`,
`ExpiredRow`, `ClockRow`, `UncertainRow`, `ResolvedRow`, `RevokedRow`,
`ClosedRow`), named in the map with the SQL it stands for.

Abstractions and assumptions:

* identities are model values; the helper incarnation of a handle and its
  generation determine each other, so the generation stands for both;
* receipts of an operation are the set of statuses received; `MaxReceipts`
  bounds them as `MAX_RECEIPTS_PER_OPERATION` does;
* a reconciliation decides all unfinished operations with one verdict;
* a marker write is atomic or fails (`write` to a temporary file and `rename`);
  an error after the rename, when the directory is synced (`storage.py:224`),
  is not told apart from success or failure, although the caller then sees an
  error with the new marker in place;
  a handle whose last marker write failed is not closed a second time;
* a confirmation needs an open process when it begins; its transaction may come
  while the process is closing (`FinishConfirm`), or be refused (`DropConfirm`);
* `ConfirmCleanup` follows the order `Lab.close_session` uses;
* external: a provider reports truthfully (`Reportable`: a success happened, a
  rejection never will, and a startup succeeds only with the handshake of the
  helper it launched, which `bind_native_handshake` records), and the exit evidence a reconciliation carries is true
  (`PriorHelperGone`). Both are what the authority's own documentation asks of
  its callers, and `EffectFence` cannot hold without them.

### What is checked

| Run | Instance | Shows |
| --- | --- | --- |
| `restart` | two processes, one handle each, crashes, failing marker writes, native owners that keep the lock, legacy controller | `TypeOK`, `UncertainHoldsDevice`, `NothingStranded`, `HelperIsolation`, `EffectFence`, refinement `ImplementsJournal` |
| `recovery` | two processes, one operation, clock failures, failing marker writes, crashes, shutdown, recovery borrow | `JournalInv` (the inductive invariant), `FenceHolds`, `OutcomeFinal`, `CleanupHold` |
| `expiry` | one process that claims twice, a launch and an input, two deadlines, one tick, shutdown | `DispatchInOrder`, `PermitWithinGrant`, `FenceHolds`, `OutcomeFinal` |
| `rollback` | small | a divergence of section 8 |

Why the bounds are enough: two processes suffice for every takeover, since a
third meets the same row as the second; two generations give a past and a
current one; two operations give order. `MaxReceipts = 1` makes the limit bite, and one
reconciliation lets a recovery succeed once and be refused afterwards. Time
only matters for deadlines, so only `expiry` lets it pass. The runs split the
environment's events between them because all at once exceeds what TLC can
enumerate; the proofs do not depend on any of these values. Deadlock is not
checked: a device may be abandoned in any state, and the bounds end behaviours.
The authority has no background thread, so there is no fairness and no liveness
property: nothing is promised to happen without a caller.

`Swap` exchanges the two processes with their handles; the initial state, the
actions and the checked formulas treat them alike. `restart` has one startup:
a handle that outlives a session (a retained device scope) can start a helper,
clean up and start another, and that case is covered by the theorem
`HelperIsolated` and not by a run.

### What is proved

In `AuthorityProofs`, for all processes, handles, operations, kinds, deadlines
and bounds, from `ConstantsAssumption` only (types of the constants):
`TypeCorrect`, `JournalInvariant`, `UncertainAlwaysHolds`,
`NothingEverStranded`, `EffectsFenced`, `FencesHold`, `OutcomesFinal`,
`CleanupsHeld` and the refinement `JournalImplemented`.

The argument. Thirty-odd actions change the journal in only a few ways. The
proof first classifies: `StepClasses` says that every step of a typed state is
one of the named step classes of `JournalStep` (quiet, doubt, acquire, expire,
admit, dispatch, drop, arm, land, report, resolve, recover, release, finish), one case
per action. All later proofs use the classes and not the actions.

`UncertainHoldsDevice` and `NothingStranded` are not inductive: a late receipt
could otherwise release a device for an operation of another generation, and a
pending recovery cleanup could finish with work left. `JournalInv` adds what is
missing: `CleanupSettled` (a pending cleanup has nothing unfinished),
`ReportsTrue` (a success on its way to the journal has landed, a rejection never
will) and `ArmedBound` (an effect that was asked for belongs to an outstanding
operation, or to a past generation whose helper and process cannot produce it
any more). `ArmedBound` carries `EffectsFenced`: an effect lands from "armed",
and the second alternative cannot land.

The refinement maps `dev.status` to free, held or in doubt, the operations to
none, waiting, doubtful or done, and landed effects to `acted`. Each step class
is a step of `DeviceJournal` or a stutter (`JournalSimulation`).

In `AuthorityOwnershipProofs`, from the same assumption: `OwnershipInvariance`,
`DispatchedInOrder`, `PermitsWithinGrant` and `HelperIsolated`. Here the steps
are classified a second time (`OwnershipClasses`), by what they do to the lock,
the handles and the marker; all but three of them are `Fading` (nothing is
dispatched, lands or is reported). `OwnershipInv` adds to `JournalInv`:

* `Numbered` and `InOrder`: admission numbers upwards, so no later admission
  gets in front of an operation that was dispatched;
* `LockExclusive`: a handle from its claim to the end of its close has its
  descriptor of the lock, at most one handle has any, and the marker forbids
  legacy use meanwhile;
* `GrantKnown`: therefore only the holder moves the row to another generation
  or deadline, and its copy of the grant is the row's. This is why a permit,
  cut to the handle's deadline, is within the row's (`PermitWithinGrant`);
* `HelperKnown`, in four parts: a helper runs in the current generation only
  (`HelperCurrent`), on no free device and after no recovery (`HelperAbsent`),
  is known as not cleaned up to the handle that could release an owned device
  (`HelperTended`), and, while an outcome is unknown, either no receipt can end
  that or the handle that dispatched knows of the helper (`HelperInDoubt`);
* `CleanupStopsHelper`: a cleanup that landed after every startup left no
  helper, which is what `confirm_native_cleanup` relies on;
* `RollbackVacant`: where the marker or a pending close allows legacy use,
  nothing runs and nothing is in doubt. The row may still be quarantined there,
  which is the divergence of `rollback`; the helper is isolated all the same.

`HelperTended` is where the handshake matters: a success of a second startup
that rested on the handshake of the first would let `close` release a device
with a helper on it.

## 4. The replay job queue

### State and steps

What runs under `JobQueue._lock` is one step and includes the write of the
job's file. The dispatcher is two steps, `DispatchLook` (the devices, read
without the lock) and `DispatchScan` (expiry, then at most one start). A worker
has a program counter `pc` and one step between two calls into the Lab:
`RunRefused`, `RunCreate`, `RunBusy`, `RunCreated`, `StartupStop`,
`StartupClaim`, `RunsReplay`, `RunsStop`, `RunsDone`, `WaitCancel`,
`WaitComplete`, `WaitFailed`, `Cleanup`, `CleanupClose`, `CleanupClosed`,
`RunEnd`, `RunFinish`. `Submit`, `Cancel`, `CloseBegin`, `CloseEnd` and
`Restart` are the callers. Of the Lab the module has the device states, the
state of a job's session and of its replay: `SessionActive` (first frame),
`SessionFail` (provider callback, also repeated), `OwnerClose`/`OwnerClosed`
(owner or idle timeout), `ReplayEnd`, `ManualTake`/`ManualRelease` (a manual
session). `Deadline`, `CoolDown` and `Revoke` are time and the authoriser.

`begun` has no counterpart in the code: it counts replays started for a job
over all processes, so that `NoRerun` can speak of restarts.

Abstractions: a request identity and a job are the same thing, so a repeated
submission is no step; error codes, results and timestamps are left out; a
write to disk succeeds; closing a session in the Lab tests and sets its state
at once, and session and device change together (`LabDevices` has the two
locks). A deadline is a flag
that may rise at any time once a job exists; the startup timeout and the grace
period of `_wait_replay` are choices that may be taken at any poll.

### What is checked

| Run | Instance | Shows |
| --- | --- | --- |
| `jobs` | two jobs on one device, two runs and one run, one job that needs an authorization, manual users, cancel, revocation, shutdown, restart | `TypeOK`, `WorkersAccounted`, `QueuedUntouched`, `NoRerun`, `SubmissionOrder`, `FinishedStays`, `SuccessConfirmed` |
| `settle` | two jobs on one device, manual users, shutdown, fairness | `JobsSettle` |

Two jobs on one device meet in every way order, busy retry and reservation can.
`max_running` and `max_pending` do not bind in these instances: with two devices
and three jobs the state space is beyond a run of minutes, and that limit is
the subject of a proof. Deadlock is not checked: when all jobs have finished nothing
has to happen.

Fairness in `settle`: weak fairness of the dispatcher, of each worker and of
each deadline. The first two are threads that only wait with a timeout; for the
worker this includes that `create_session` and `close_session` return, which
the providers' own timeouts are to ensure. A deadline is a point in time.
Nothing is assumed of users, shutdown, the provider or the replay: a device may
stay busy or quarantined and a replay may hang for ever, and the job still
finishes and its device is returned to the queue.

### What is proved

In `JobQueueProofs`, from `QueueAssumption` only, for any set of jobs and of
devices (also infinite ones), any runs per job and any `max_running` and
`max_pending`: every safety property of run `jobs` (`QueueTypes`,
`WorkersAlwaysAccounted`, `QueuedNeverTouched`, `RunsNeverRepeated`,
`DeviceInSubmissionOrder`, `FinishedIsFinal`, `SuccessIsConfirmed`).

None of them is inductive alone. `QueueInv` (theorem `QueueInvariance`) adds how
a worker's step bounds the state of its job (`WorkerState`: a worker before
`_terminal` has an active job, a retry is decided only at the end, only an open
queue has queued jobs), what it has counted against what it has begun
(`RunCount`), that the submitted jobs are finitely many with numbers of their
own (`Numbered`), and that the reserved devices are finitely many
(`Reservations`). The last two make `Cardinality` meaningful without assuming
the constants finite. `NumberedStep` and `ScanAssigns` are about the two places
where a number is given and a device is reserved. `SubmissionOrder` follows from
the guard of the scan only together with `WorkerState`: an active earlier job of
the device has its worker, hence the reservation.

`JobsSettle` is liveness under fairness, beyond the prover, and stays with TLC.

## 5. Devices of the Lab

### State and steps

`LabDevices` is one device of `Lab`: its record (`dev`: state and `sessionId`),
the session records (`ss`), `_device_reservations`, `_retained_device_scopes`,
the authority handle of each session or reservation (`hs`: none, owned, helper
(its helper runs), open (an operation of a session is open), effect (one of the
scope's owner is), lost (fenced or uncertain for good), released), and the threads that are between two locks: `failing` (in
`fail()` after the session and before the device), `saw` (in `publish_frame`),
`inflight` (waiting for the provider in `input()`), `closer` (in
`close_session`). `Lab.lock` and the lock of a session are never held across a
call of the provider or of the authority, so `create_session` is `Allocate`,
`Setup`, `Construct`, `Bind`, `PrepareStartup`, `Launch`, `StartConfirmed`,
`AdmitPrepared` with its failure exits `SetupFail`, `Reject`, `StartFail`;
`close_session` is `CloseRecord` or `CloseBegin`, `CloseDrain`,
`CloseUncertain`, `CleanBegin`/`CleanEnd`, `CloseQuarantine`, `CloseCall`,
`CloseAnswered`, `CloseFailed`, `CloseFinish`, `CloseFenced`, `CloseRaises`,
`CloseFree`. The others are reservations and scopes, frames, late inputs, the
abandoned cleanup of a prepared Android session, and `recover_device`.

The authority is what `Authority` promises a caller: an effect that was prepared
makes the handle uncertain until it is confirmed, and closing releases a handle
only when it is not uncertain. One device is enough, since a session has one
device and the locks of sessions are per session.

Abstractions: `Reject` is one step for the look at the handle's status, its
close and the two records (`live/model.py:1162-1178`), so no other thread sees
the session failed and the device still busy. `FrameSeen` does not look at `stopAdmission`,
which the code does only with a release recorder (`:1652`). The pointers of a
session are not state here: `CloseUncertain` may come for a running provider
whether or not one is down, as when its release fails (`:2546`). The sticky
`_androidInputUncertain` is not kept either: a second close of such a session
may try the cleanup, but its handle is lost, and it ends in quarantine too.

### What is checked

| Run | Instance | Shows |
| --- | --- | --- |
| `devices` | two sessions (one prepared), a reservation, two closers, all events | `TypeOK`, `OneProvider`, `ScopeKeepsAuthority`, `ConfirmedReleaseIsReal`, `AbandonedStaysFenced`, `PreparedNeverReopens` |
| `owner` | two sessions, a reservation, one closer | the divergence of section 8 |

Two sessions are a holder and a later holder; two closers are the owner and the
reaper or shutdown. `OneProvider` is about what runs and not about the record:
the record of a device can be wrong (section 8), and the handle still keeps the
second provider from starting. It is stated for sessions outside retained
scopes: the sessions of a scope share one handle, and there a wrong record does
let a second provider start (section 8). `PreparedNeverReopens` is about prepared
sessions only: for the others `publish_frame` tests for "connecting" and sets
"active" without the lock that `fail` and `close_session` use, and may reopen a
failed session.
Deadlock is not checked: sessions may be left as they are.

### What is proved

In `LabDevicesProofs`, from `LabAssumption` only, for any sessions, reservations
and closers: every property of run `devices` (`LabTypes`, `OneProviderRuns`,
`ScopeAlwaysKeepsAuthority`, `ReleaseConfirmedIsReal`, `AbandonedIsFenced`,
`PreparedStaysStopped`).

The inductive invariant `LabInv` (theorem `LabInvariance`) follows the handle and
not the device record, which may be wrong. `OneHandle`: at most one handle is
neither unclaimed nor released. `HandleOwners`: a reservation's handle belongs
to it, to the one session that took it, or to the sessions of its scope.
`Stage`: how far the thread in `create_session` has come for each session, and
what may not have happened before. `Permits`: the three holders of a permit (the
start, an input, a close) exclude each other as long as the operation is open,
and a provider that runs keeps its handle from being released; so two running
providers outside scopes would be two held handles. A lemma per class of steps
says how it moves handles (`ReservationMoves`, `SessionMoves`, `CloserMoves`),
and the proofs of the parts use these and not the forty actions. The fenced
close needs one more part, `Fence`, with an invariance of its own: a closer of
an abandoned session has no answer left that could release the handle.

## 6. Control of a session

### State and steps

`LabControl` is one session: `s` is its record (controller, epoch, sequence,
mode, `knownStart`, pointers, geometry, recording, plan), `job` the commands in
flight, `receipts` the receipts kept, `rec` the recordings, `th` the threads (API
callers, the replay, the playback, the timer), `run` what replay and playback
report, `auth` the one outstanding operation a native device allows. `log` and
`ran` are the device: what it executed since its reset (which `log` names
"replay" when the thread of the replay made it, else "reset"), and ever. An
input is `Admit`, `Execute` and one of `InputDone`, `InputRejected`,
`InputUnknown`; the release of pointers and a reset are calls of the provider
with the same three outcomes, made inside `claim`, `start_recording`,
`stop_recording`, `start_replay`, the end of a replay and the timer.

Abstractions: an action is tap, reset, pointer down or pointer up; frames are
left out except for the wait of `_reset` and the change of geometry; texts,
variables and locators are not distinguished; durable recorders are the subject
of `Recording`. `close_session` releases pointers only without an authority
(`live/model.py:2537`) or with an Android preparation (`:2546`); that call has
no step here (`CloseStop` goes on to `CloseDrain`): it comes after
`stopAdmission`, when nothing is admitted any more, and executes no command.
`ReceiptLimit` is the 2000 receipts kept, `EventLimit` the 500
events of a recording, `MaxEpoch` bounds how often control moves.

### What is checked

| Run | Instance | Shows |
| --- | --- | --- |
| `control` | one client with a pointer down to send, one caller that claims and starts recordings with a reset, one that stops them and starts a replay of two events, a playback of one action, no receipt and no event kept, all events | `TypeOK`, `PlaybackAlone`, `AtMostOnce`, `CancelledPlaybackStops`, `ReplayIsPure` |
| `knownstart` | two callers that record with a reset, one input | the divergence of section 8 |

`ReceiptLimit = 0` is the worst case for retries: the receipt of a command is
always gone when the command comes again, and only the sequence of the
controller stands between it and the device. A replay of two events is the
least that has an order and a point in between. `EventLimit = 0` makes a
recording overflow at its first input. The client's input is a pointer down,
which does what a tap does and leaves a pointer to be released; taps are those
of the replay and of the playback. A `start_recording` without a reset is the second half of
one with a reset and is not a call of this run. The proofs have all
of these cases and any limits.

`ReplayIsPure` is stated for devices with an authority, and allows one thing
besides the actions of the replay. A caller in `start_recording(reset=True)`
checks control before `_reset` (`live/model.py:2026`) and `_reset` does not
check it again: when a replay starts in between, the late reset comes among the
actions of the replay. The property says that then the rest of the actions
follows that reset, and that nothing else gets in. Without an authority more is
possible, and the property says nothing: an input of a client that is in flight
when `start_replay` runs may land after the reset, since `start_replay` does not
look at `inflightCommands` and there is no outstanding operation to refuse it.

### What is proved

In `LabControlProofs`, from `ControlAssumption` and `NamesAssumption` (the
commands of a replay and of a playback are sequences of commands of their own;
the code gives each command and each controller a fresh uuid), for any clients,
commands, callers and recordings, runs of any length and any limits: every
property of run `control` (`ControlTypes`, `InjectedAtMostOnce`,
`PlaybackRunsAlone`, `CancelledStaysStopped`, `ReplayRunsPure`).

The inductive invariant is `ControlInv` (theorem `ControlInvariance`). `Once`:
a command that was admitted is behind the session (`Past`: an older epoch, or
the current one with a sequence that is not greater), and epoch and sequence
only go up; this, and not the receipts, keeps a command from a second
injection. `RunPhase` and `Turn`: a run is started once, under an epoch of its
own, and none of its commands was sent before its turn. `PlaybackHolds`: nobody
takes control from a playback while its thread lives; a failure or a timeout may
move the epoch, but not the controller. The proof classifies the steps first
(`Step`: how the epoch, the controller, the commands and the runs may move;
lemma `StepClasses`) and preserves the parts from these classes.

`ReplayIsPure` needs a second invariant on devices with an authority, `PureInv`:
at most one operation of the authority is outstanding (`OneOutstanding`), and at
each step of a replay that is still in control the log of the device is a reset
followed by the last `m` of the `n` actions sent so far, all of them when the
reset is the replay's own (`ReplayLog`). The late reset of an overtaken
`start_recording` starts again with `m = 0`; it cannot come while an action is
outstanding. Nothing is assumed of the callers or of the constants beyond the
two assumptions above.

`KnownStartIsReset` is false (section 8). Deadlock and liveness of the threads
are not stated: a caller may wait for its provider for ever.

## 7. Evidence and recordings

### State and steps

`EvidenceStore` has the budget's table (`res`), the store's tables (`rows`,
`obj`, `tomb`, `pins`), the files (`parts`, `files`) and `call`, the method that
holds the store's lock and how far it came. A step is one durable change: a
commit in one database, a rename, an unlink. `put_bytes` is `PutBegin`
(reservation and staged file), `PutRow`, `PutInstall` (the rename), `PutCommit`,
`PutCharge`, with the failure exits `BeginFails`, `PutStuck`, and `PutGiveUp`,
`PutAbort`, `PutDrop`, `PutFree`. Retention is `Tombstone` and `TombForget`.
Reservations are of one unit; what matters is whether a charge exists and
whether room is left, with the journal headroom.

`Recording` adds the journal: `j` is the row of one recording with its events,
samples, media, gaps, barrier columns and lifecycle receipts, and each action
that changes it is one SQLite transaction. `begin_recording` is four steps.
Inputs go through `AdmitInput`, `MarkDispatched`, `Execute` (the provider, whose
answer may be lost), `RecordReceipt`. Samples go through `BeginCollection`,
`AuthorizeSample`, `StoreSample` and the put, `SampleStored`, `SampleMedia`,
`Gap`, `EndCollection`, with three exits that leave a journalled sample without
media: `StampFails` (the clock, with a gap), `SampleLate` (a frame that ends
after the longest recording, `recording_session.py:1595`, or whose timestamp of
the provider is not of its sample: neither gap nor stop) and `SampleFails` (the
transaction of the sample, of its media or of its gap is rolled back:
`_authorize_sample`, `:1667`, `:1801`, `:1282`; the sample's own row stays, and
the stop that would follow a gap is not reached). Stops are `Bar` (under the session's lock: admissions
are barred and the collections in flight counted) and `Mark` (the barrier).
`_freeze_id` is `FreezeRead`, a put or not, `FreezePut`, `Seal`, `FreezeUnpin`,
`FreezeLoad` or `FreezeFail`. `Crash` may come anywhere; `Reopen`, `BootBudget`,
`BootTombstones`, `RecoverBarrier`, `RecoverFinal`, `RecoverFiles`,
`RecoverRows`, `RecoverCharges` and the freeze of thread "boot" are the
constructors of the store and of the journal, and may crash too.

Abstractions: the bytes of the original are a function of the journal at the
barrier, so all puts of it have the digest `Original`; that this is so is
`OriginalFixed`. `told` is a history variable that no guard reads: the inputs
whose receipt `record_receipt` has returned, and the samples that the last two
exits gave up while the recording ran. The transaction of a tombstone and its unlink are one step (a
crash between them leaves what a failed unlink leaves). A frame and an
observation differ only in the pin. A clock failure is met by samples; in an
input or in a stop it raises before anything changes or adds a reason to an
interruption. A transaction of an input that fails has the effect of a refusal,
which `AdmitInput` and `MarkDispatched` have; one of `record_receipt` that fails
has that of a lost answer. Limits on counts and sizes of journals are among the
failing transactions; a store that has `max_objects` objects already refuses the
put as a failing write does (`PutGiveUp`). The video source mode, the frame
sink and gaps reported by a native source (which add a gap and go on) are left
out.

### What is checked

| Run | Instance | Shows |
| --- | --- | --- |
| `recording` | one input, two samples with the same bytes (a frame and an observation), one stop, three calls in a behaviour, at most two faults of crash, failed write, failed unlink, full disk, broken clock, late frame; one digest may expire | `TypeOK`, `NoUnchargedBytes`, `PublishedReadable`, `InjectedIsRecorded`, `CompleteIsComplete`, `OutcomeKept`, `OriginalFixed` |
| `reopen` | an input, a sample and a stop of which two happen, crashes and failed writes | the divergence of section 8 |

Two samples of the same bytes are the hard case of a content-addressed store:
one publishes, shares, or is abandoned while the other is staged. `Capacity` 4
with headroom 1 is just enough for the journal, the original and both samples;
that `reserve` refuses is the fault "full" (another user of the budget or of the
file system). `MaxStaging` 2 bites when attempts were left. Two faults are a failure and a crash, or a crash and a crash
in the recovery. `MaxCalls` 3 lets an input, a sample and a stop, or both samples
and a stop, or both and an input meet. `NoUnchargedBytes` excludes the puts of
the original: they share the reservation of the recording, and a second try
after a failed unlink has one charge for two files.

`CompleteIsComplete` is about stops: what no stop may do is take a sample between
its row and its media and call the original complete. It is not true that a
complete original has every journalled sample. The exits `SampleLate` and
`SampleFails` leave a row in `samples` without media and without a gap, a stop
without a reason that follows finds nothing in flight, and the original is
frozen complete without that sample. The property therefore excepts exactly the
samples in `told`, whose own calls had ended without them before the barrier. In
the Lab an error of `record_frame` fails the session (`live/model.py:1685`),
which is a stop for a reason; `None` only drops the frame (`:1691`).

No fairness and no liveness property: a recording ends when somebody stops it.

### What is proved

For any inputs, samples, stops and puts of the original, any capacity and any
number of faults; the bounds of the run are constants of the theorems.

`RecordingProofs`: `RecordingTypes`, `InjectedAlwaysRecorded`,
`CompleteIsAlwaysComplete`, `OutcomeAlwaysKept`, `OriginalNeverChanges`. The
inductive invariant `JournalInv` (theorem `JournalInvariance`) says for each
thread what its next step may rely on. `BarrierFixed`: from the barrier on the
events of the journal are those of the barrier, and an original whose barrier
was not cut and had no gaps has every sample that was accepted and not given up.
`MarkPhase`: a stop that is not cut found no collection in flight, with
admissions barred; together with `SamplePhase` (an accepted sample is in flight,
in the media, in the gaps or given up) this is why complete means complete.
`InputPhase`: an input is
executed only after its row says dispatched. `ToldPhase`: a caller that was told
an outcome does not come again, so the outcome is only moved, from pending to
the lifecycle receipts. `BeginPhase` and `FreezePhase` say when there is a
session and when a barrier.

`EvidenceStoreProofs`: `PublishedAlwaysReadable` and `BytesAlwaysCharged`, from
`StoreInv` (theorem `StoreInvariance`). Its core is `SampleCharged`: the
reservation of a sample has one use at a time, a staged file with its row or an
object, so that releasing it for the one cannot uncharge the other.
`CallCharged` says what the call that holds the lock has achieved after each of
its durable steps, `LeftCharged` which attempts a recovery that was interrupted
may still drop, `FileCharged` that bytes under `objects/` have an object or a
row, which is what a crash between rename and commit leaves.

Assumptions: `StoreAssumption`, `RecordingAssumption` (types; the puts of the
original share its digest and the finalization reservation), `SampleAssumption`
(`put_bytes` reserves anew for every sample, under an identifier of its own;
the original contains the digests of its samples and so differs from them) and
`NamesAssumption` (names of threads and of steps differ). TLC evaluates all of
them on the runs.

## 8. Where documentation and code differ

* `docs/HOST-AUTHORITY.md:110`: "Rollback to a legacy controller is permitted
  only after every authority handle is cleanly released; quarantined ownership
  requires reconciliation first." Run `rollback`: a confirmation that meets a
  broken clock mapping is overtaken by `close()`. `close()` releases the row and
  publishes `legacy-allowed`; `quarantine_clock` has no condition on the status
  and quarantines the released row; a legacy controller enters.
* The comment in `close_session` (`live/model.py:2519`): "Closing its record
  must not touch a later device owner." Run `owner`: a start that is rejected
  cleanly releases its handle and makes the device available, but does not set
  `_startupReleaseConfirmed`. Another session takes the device; closing the
  first record then takes the general path and overwrites the device record.
  Outside retained scopes `OneProvider` holds nevertheless. Inside one the
  handle does not help: "Opaque owner capability retained across a sequence of
  fresh sessions." (`live/model.py:60`), so a late close of an earlier session
  confirms the cleanup on the handle that a later session uses, and offers the
  device while that session's provider runs.
* `docs/UNVERIFIED-PLAYBACK.md:5`: "**Trusted replay** continues to require a
  supported, proven starting state." Run `knownstart`: `_reset` waits for a frame
  without the session's lock; an input is admitted and executed meanwhile, and
  `_reset` then records a known start. The same gap lets the `_reset` of a
  `start_recording` that a replay has overtaken reset the device among the
  actions of that replay (section 6, "What is checked").
* `docs/DURABLE-RECORDING.md:189`: "Recovery produces `frozen-incomplete` status
  and a failed reconciliation lifecycle receipt." Run `reopen`: a put of the
  original that fails closes the finalization reservation, which is the
  recording's and not the put's. After a crash the recovery finds no original
  and no reservation to adopt, raises, and the journal does not open.

## 9. Not modelled

Read-only queries, schema migration, path and permission checks, and
`record_legacy_adoption` (an append-only audit row nobody reads). Request
validation and error codes. Video encoding, transports to devices, parsing and
signing tools: I/O without shared state of its own. Kotlin, Swift, C and web
code: external to the models. The recovery and repair operations of Android and
iOS devices, the issue workflow and the HTTP server are most of the
repository's lines; they are long sequences of checks over files and processes
around the journal operations that `Authority` has, and are not modelled.
Components that are planned are marked so in PROJECT.json.

## 10. Mutants

Every property of a passing run has a mutant: a variant of one definition the
way a slip in the code would change it (a dropped guard, a missing reset, an
off-by-one). It stands before the definition, named `...Mut`, and makes the
property fail on the instance of the run.
