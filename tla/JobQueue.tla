------------------------------ MODULE JobQueue ------------------------------
(***************************************************************************)
(* The replay job queue of the live control plane.                         *)
(*                                                                         *)
(*   reproof/live/jobs.py    JobQueue: callers, dispatcher, one worker     *)
(*                           thread per started job                        *)
(*   reproof/live/model.py   Lab: as far as a job sees devices, its        *)
(*                           session and the replay in that session        *)
(*                                                                         *)
(* What runs under JobQueue._lock is one step.  A job is persisted in the  *)
(* same step, so the file of a job always says what its state says.  Calls *)
(* into the Lab are steps of their own: the dispatcher looks at the        *)
(* devices before it takes the lock, and a worker holds no lock while it   *)
(* creates, polls or closes its session.                                   *)
(***************************************************************************)
EXTENDS Naturals, FiniteSets

CONSTANTS
    Jobs,        \* jobs that may be submitted
    NoJob,       \* an unassigned device
    Devices,
    DeviceOf,    \* the device of the recording a job replays
    Repeats,     \* runs a job asks for
    Shared,      \* jobs of a project, which need an authorization
    MaxRunning,  \* max_running
    MaxPending,  \* max_pending
    Events       \* what the environment may do: "manual", "restart",
                 \* "shutdown", "revoke", "cancel"

ASSUME QueueAssumption ==
    /\ NoJob \notin Jobs
    /\ DeviceOf \in [Jobs -> Devices]
    /\ Repeats \in [Jobs -> Nat \ {0}]
    /\ Shared \subseteq Jobs
    /\ MaxRunning \in Nat \ {0} /\ MaxPending \in Nat \ {0}

VARIABLES
    st,        \* job["state"]; "absent" before it is submitted
    order,     \* job["_order"]
    next,      \* _next_order
    runs,      \* job["completedRuns"]
    begun,     \* replays started for a job in any process
    pc,        \* where the worker of a job is, "none" without a worker
    outcome,   \* the worker's outcome; "retry" stands for _retry_busy
    sent,      \* _wait_replay: what made it cancel the replay
    cancel,    \* jobs whose cancel event is set
    assigned,  \* _assigned
    cooling,   \* devices whose _retry_after has not passed
    seen,      \* the devices the dispatcher found available
    disp,      \* the dispatcher: "look", "scan" or "stopped"
    life,      \* "open", "closing" or "closed"
    late,      \* unfinished jobs whose _deadline has passed
    revoked,   \* shared jobs whose authorization is gone
    dstate,    \* Lab: state of each device
    sess,      \* Lab: state of the session of a job; "rejected" is a failed
               \* session without a provider that gave its device back
    replay     \* Lab: state of the replay of a job

jobs   == <<st, order, next, runs>>
worker == <<pc, outcome, sent, begun>>
lab    == <<dstate, sess, replay>>
clocks == <<late, cooling, revoked>>
vars   == <<st, order, next, runs, begun, pc, outcome, sent, cancel, assigned,
            cooling, seen, disp, life, late, revoked, dstate, sess, replay>>

Terminal == {"succeeded", "failed", "cancelled", "interrupted"}
Active   == {"starting", "running", "cleaning"}
Settled  == {"actions_replayed", "cancelled", "failed"}

TypeOK ==
    /\ st \in [Jobs -> {"absent", "queued"} \cup Active \cup Terminal]
    /\ order \in [Jobs -> Nat]
    /\ next \in Nat
    /\ runs \in [Jobs -> Nat]
    /\ begun \in [Jobs -> Nat]
    /\ pc \in [Jobs -> {"none", "begin", "creating", "startup", "runs",
                        "replay", "cleanup", "close", "closing", "end",
                        "finish"}]
    /\ outcome \in [Jobs -> {"succeeded", "failed", "cancelled", "retry"}]
    /\ sent \in [Jobs -> {"no", "cancel", "timeout"}]
    /\ cancel \in SUBSET Jobs
    /\ assigned \in [Devices -> Jobs \cup {NoJob}]
    /\ cooling \in SUBSET Devices
    /\ seen \in SUBSET Devices
    /\ disp \in {"look", "scan", "stopped"}
    /\ life \in {"open", "closing", "closed"}
    /\ late \in SUBSET Jobs
    /\ revoked \in SUBSET Shared
    /\ dstate \in [Devices -> {"available", "busy", "quarantined"}]
    /\ sess \in [Jobs -> {"none", "connecting", "active", "failed", "rejected",
                          "draining", "closed"}]
    /\ replay \in [Jobs -> {"none", "running", "cancelling"} \cup Settled]

Init ==
    /\ st = [j \in Jobs |-> "absent"]
    /\ order = [j \in Jobs |-> 0]
    /\ next = 0
    /\ runs = [j \in Jobs |-> 0]
    /\ begun = [j \in Jobs |-> 0]
    /\ pc = [j \in Jobs |-> "none"]
    /\ outcome = [j \in Jobs |-> "succeeded"]
    /\ sent = [j \in Jobs |-> "no"]
    /\ cancel = {}
    /\ assigned = [d \in Devices |-> NoJob]
    /\ cooling = {}
    /\ seen = {}
    /\ disp = "look"
    /\ life = "open"
    /\ late = {}
    /\ revoked = {}
    /\ dstate = [d \in Devices |-> "available"]
    /\ sess = [j \in Jobs |-> "none"]
    /\ replay = [j \in Jobs |-> "none"]

----------------------------------------------------------------------------
(* Callers.                                                                *)

Pending == {j \in Jobs : st[j] \in {"queued"} \cup Active}

\* A repeated request returns the job it created, so a job is new only once.
Submit(j) ==
    /\ life = "open" /\ st[j] = "absent"
    /\ Cardinality(Pending) < MaxPending
    /\ st' = [st EXCEPT ![j] = "queued"]
    /\ order' = [order EXCEPT ![j] = next]
    /\ next' = next + 1
    /\ UNCHANGED <<runs, worker, cancel, assigned, seen, disp, life, clocks, lab>>

Cancel(j) ==
    /\ "cancel" \in Events
    /\ \/ /\ st[j] = "queued"
          /\ st' = [st EXCEPT ![j] = "cancelled"]
          /\ late' = late \ {j}
          /\ UNCHANGED cancel
       \/ /\ st[j] \in Active
          /\ cancel' = cancel \cup {j}
          /\ UNCHANGED <<st, late>>
    /\ UNCHANGED <<order, next, runs, worker, assigned, seen, disp, life,
                   cooling, revoked, lab>>

----------------------------------------------------------------------------
(* The dispatcher thread.                                                  *)

\* list_devices, without the queue's lock; an exception counts as none.
DispatchLook ==
    /\ disp = "look" /\ life = "open"
    /\ seen' \in {{d \in Devices : dstate[d] = "available"}, {}}
    /\ disp' = "scan"
    /\ UNCHANGED <<jobs, worker, cancel, assigned, life, clocks, lab>>

DispatchStop ==
    /\ disp = "look" /\ life # "open"
    /\ disp' = "stopped"
    /\ UNCHANGED <<jobs, worker, cancel, assigned, seen, life, clocks, lab>>

\* Mutants: a started job expires as well; nothing expires.
ExpiredMut == late

ExpiredMut2 == {}

Expired == {j \in late : st[j] = "queued"}

Queued == {j \in Jobs : st[j] = "queued"} \ Expired

Room == Cardinality({d \in Devices : assigned[d] # NoJob}) < MaxRunning

\* Mutant: a reserved device counts as idle when the Lab says so.
IdleMut == seen \ cooling

\* Devices the scan may start a job on.
Idle == {d \in seen : assigned[d] = NoJob /\ d \notin cooling}

Earlier(j) == {k \in Queued : DeviceOf[k] = DeviceOf[j] /\ order[k] < order[j]}

\* The oldest queued job of each idle device, once older ones have lost
\* their authorization in the same scan.
Heads == {j \in Queued : DeviceOf[j] \in Idle /\ Earlier(j) \subseteq revoked}

\* Mutant: the newest job first, as list() sorts them, of any idle device.
StartableMut ==
    {j \in Queued \ revoked :
        /\ Room /\ DeviceOf[j] \in Idle
        /\ \A k \in Queued \ revoked : DeviceOf[k] \in Idle => order[j] >= order[k]}

\* The scan starts the first head that is still authorized, if any.
Startable ==
    {j \in Heads \ revoked : Room /\ \A k \in Heads \ revoked : order[j] <= order[k]}

\* Heads it meets before that, or all of them, fail as unauthorized.
Unauthorized ==
    {j \in Heads \cap revoked : Room /\ \A s \in Startable : order[j] < order[s]}

\* One pass of the loop under the lock: expire, then start at most one job.
DispatchScan ==
    /\ disp = "scan"
    /\ st' = [j \in Jobs |-> IF j \in Expired \cup Unauthorized THEN "failed"
                             ELSE IF j \in Startable THEN "starting" ELSE st[j]]
    /\ assigned' = [d \in Devices |->
                      IF \E j \in Startable : DeviceOf[j] = d
                      THEN CHOOSE j \in Startable : DeviceOf[j] = d
                      ELSE assigned[d]]
    /\ pc' = [j \in Jobs |-> IF j \in Startable THEN "begin" ELSE pc[j]]
    /\ disp' = "look"
    /\ seen' = {}
    /\ late' = late \ (Expired \cup Unauthorized)
    /\ UNCHANGED <<order, next, runs, outcome, sent, begun, cancel, life,
                   cooling, revoked, lab>>

----------------------------------------------------------------------------
(* The worker thread of a job: _run.                                       *)

Goto(j, l, o) ==
    /\ pc' = [pc EXCEPT ![j] = l]
    /\ outcome' = [outcome EXCEPT ![j] = o]

\* Cancelled before it began, not authorized, or the recording changed.
RunRefused(j) ==
    /\ pc[j] = "begin"
    /\ Goto(j, "end", IF j \in cancel THEN "cancelled" ELSE "failed")
    /\ UNCHANGED <<jobs, sent, begun, cancel, assigned, seen, disp, life,
                   clocks, lab>>

\* Lab.create_session allocates the device and returns later.
RunCreate(j) ==
    /\ pc[j] = "begin" /\ j \notin cancel /\ j \notin revoked
    /\ dstate[DeviceOf[j]] = "available"
    /\ dstate' = [dstate EXCEPT ![DeviceOf[j]] = "busy"]
    /\ sess' = [sess EXCEPT ![j] = "connecting"]
    /\ Goto(j, "creating", "succeeded")
    /\ UNCHANGED <<jobs, sent, begun, cancel, assigned, seen, disp, life,
                   clocks, replay>>

\* Somebody else took the device since the dispatcher looked.
RunBusy(j) ==
    /\ pc[j] = "begin" /\ j \notin cancel /\ j \notin revoked
    /\ dstate[DeviceOf[j]] # "available"
    /\ Goto(j, "end", "retry")
    /\ UNCHANGED <<jobs, sent, begun, cancel, assigned, seen, disp, life,
                   clocks, lab>>

\* create_session returns the session, whatever its state; or rejects the
\* start and gives the device back (a session that has a provider looks
\* failed then); or fails.  When it raises, the worker never learns the
\* session.
RunCreated(j) ==
    /\ pc[j] = "creating"
    /\ \/ /\ Goto(j, "startup", "succeeded")
          /\ UNCHANGED lab
       \/ /\ sess[j] = "connecting"
          /\ dstate' = [dstate EXCEPT ![DeviceOf[j]] = "available"]
          /\ \/ /\ sess' = [sess EXCEPT ![j] = "rejected"]
                /\ \/ Goto(j, "startup", "succeeded")
                   \/ Goto(j, "end", "failed")
             \/ /\ sess' = [sess EXCEPT ![j] = "failed"]
                /\ Goto(j, "startup", "succeeded")
          /\ UNCHANGED replay
       \/ /\ sess[j] = "connecting"
          /\ sess' = [sess EXCEPT ![j] = "failed"]
          /\ dstate' = [dstate EXCEPT ![DeviceOf[j]] = "quarantined"]
          /\ \/ Goto(j, "startup", "succeeded")
             \/ Goto(j, "end", "failed")
          /\ UNCHANGED replay
    /\ UNCHANGED <<jobs, sent, begun, cancel, assigned, seen, disp, life, clocks>>

\* The startup loop sees a cancellation first, then a deadline, then the
\* session; the startup timeout may run out at any poll.
StartupStop(j) ==
    /\ pc[j] = "startup"
    /\ Goto(j, "cleanup", IF j \in cancel THEN "cancelled" ELSE "failed")
    /\ UNCHANGED <<jobs, sent, begun, cancel, assigned, seen, disp, life,
                   clocks, lab>>

\* Lab.claim in automation mode.
StartupClaim(j) ==
    /\ pc[j] = "startup" /\ j \notin cancel /\ j \notin late
    /\ sess[j] = "active" /\ j \notin revoked
    /\ st' = [st EXCEPT ![j] = "running"]
    /\ Goto(j, "runs", "succeeded")
    /\ UNCHANGED <<order, next, runs, sent, begun, cancel, assigned, seen,
                   disp, life, clocks, lab>>

\* Mutant: the loop over the runs ends one run too late.
RemainingMut(j) == runs[j] <= Repeats[j]

\* The loop over the runs of a job goes on.
Remaining(j) == runs[j] < Repeats[j]

RunsDone(j) ==
    /\ pc[j] = "runs" /\ ~Remaining(j)
    /\ Goto(j, "cleanup", "succeeded")
    /\ UNCHANGED <<jobs, sent, begun, cancel, assigned, seen, disp, life,
                   clocks, lab>>

\* Cancelled, late, or the recording, the controller or the authorization
\* is no longer what the job started with.
RunsStop(j) ==
    /\ pc[j] = "runs" /\ Remaining(j)
    /\ Goto(j, "cleanup", IF j \in cancel THEN "cancelled" ELSE "failed")
    /\ UNCHANGED <<jobs, sent, begun, cancel, assigned, seen, disp, life,
                   clocks, lab>>

RunsReplay(j) ==
    /\ pc[j] = "runs" /\ Remaining(j)
    /\ j \notin cancel /\ j \notin late /\ j \notin revoked
    /\ sess[j] = "active" /\ replay[j] \notin {"running", "cancelling"}
    /\ replay' = [replay EXCEPT ![j] = "running"]
    /\ begun' = [begun EXCEPT ![j] = @ + 1]
    /\ pc' = [pc EXCEPT ![j] = "replay"]
    /\ UNCHANGED <<jobs, outcome, sent, cancel, assigned, seen, disp, life, clocks,
                   dstate, sess>>

\* Lab.cancel_replay.
CancelReplay(j) ==
    replay' = [replay EXCEPT ![j] = IF @ = "running" THEN "cancelling" ELSE @]

\* _wait_replay asks for the cancellation once.
WaitCancel(j) ==
    /\ pc[j] = "replay" /\ sent[j] = "no"
    /\ j \in cancel \cup late
    /\ sent' = [sent EXCEPT ![j] = IF j \in cancel THEN "cancel" ELSE "timeout"]
    /\ CancelReplay(j)
    /\ UNCHANGED <<jobs, pc, outcome, begun, cancel, assigned, seen, disp,
                   life, clocks, dstate, sess>>

\* A replay ended with all its receipts; after a timeout that is no success.
Complete(j) == replay[j] = "actions_replayed" /\ sent[j] # "timeout"

WaitComplete(j) ==
    /\ pc[j] = "replay" /\ Complete(j)
    /\ runs' = [runs EXCEPT ![j] = @ + 1]
    /\ sent' = [sent EXCEPT ![j] = "no"]
    /\ pc' = [pc EXCEPT ![j] = "runs"]
    /\ UNCHANGED <<st, order, next, outcome, begun, cancel, assigned,
                   seen, disp, life, clocks, lab>>

\* Any other end, an unusable receipt file, or no end within the grace period.
WaitFailed(j) ==
    /\ pc[j] = "replay"
    /\ replay[j] \in Settled \/ sent[j] # "no"
    /\ Goto(j, "cleanup", IF replay[j] = "cancelled" /\ sent[j] # "timeout"
                          THEN "cancelled" ELSE "failed")
    /\ sent' = [sent EXCEPT ![j] = "no"]
    /\ UNCHANGED <<jobs, begun, cancel, assigned, seen, disp, life,
                   clocks, lab>>

Cleanup(j) ==
    /\ pc[j] = "cleanup"
    /\ st' = [st EXCEPT ![j] = "cleaning"]
    /\ CancelReplay(j)
    /\ pc' = [pc EXCEPT ![j] = "close"]
    /\ UNCHANGED <<order, next, runs, outcome, sent, begun, cancel, assigned,
                   seen, disp, life, clocks, dstate, sess>>

\* Lab.close_session: a session somebody else is closing is reported as it
\* is, which is no confirmed cleanup; a rejected one has nothing to close.
CleanupClose(j) ==
    /\ pc[j] = "close"
    /\ \/ /\ sess[j] \in {"closed", "rejected"}
          /\ sess' = [sess EXCEPT ![j] = "closed"]
          /\ Goto(j, "end", outcome[j])
       \/ /\ sess[j] = "draining"
          /\ Goto(j, "end", "failed")
          /\ UNCHANGED sess
       \/ /\ sess[j] \in {"connecting", "active", "failed"}
          /\ sess' = [sess EXCEPT ![j] = "draining"]
          /\ Goto(j, "closing", outcome[j])
    /\ UNCHANGED <<jobs, sent, begun, cancel, assigned, seen, disp, life,
                   clocks, dstate, replay>>

\* Mutant: a failed cleanup keeps the outcome of the replay.
CleanupOutcomeMut(j, clean) == outcome[j]

CleanupOutcome(j, clean) == IF clean THEN outcome[j] ELSE "failed"

CleanupClosed(j, clean) ==
    /\ pc[j] = "closing"
    /\ sess' = [sess EXCEPT ![j] = IF clean THEN "closed" ELSE "failed"]
    /\ dstate' = [dstate EXCEPT ![DeviceOf[j]] =
                    IF clean THEN "available" ELSE "quarantined"]
    /\ Goto(j, "end", CleanupOutcome(j, clean))
    /\ UNCHANGED <<jobs, sent, begun, cancel, assigned, seen, disp, life,
                   clocks, replay>>

\* Mutant: the busy retry is published like an outcome.
PublishedMut(j) == outcome[j]

\* A busy job is not published before its reservation is released.
Published(j) ==
    IF outcome[j] = "retry" \/ st[j] \in Terminal THEN st[j] ELSE outcome[j]

\* _terminal, at the end of _cleanup or without a session.
RunEnd(j) ==
    /\ pc[j] = "end"
    /\ st' = [st EXCEPT ![j] = Published(j)]
    /\ pc' = [pc EXCEPT ![j] = "finish"]
    /\ late' = IF outcome[j] = "retry" THEN late ELSE late \ {j}
    /\ UNCHANGED <<order, next, runs, outcome, sent, begun, cancel, assigned,
                   seen, disp, life, cooling, revoked, lab>>

\* Mutant: a busy job goes back to the queue whatever happened meanwhile.
RequeuedMut(j) == "queued"

\* Where a job goes whose device was busy.
Requeued(j) == IF j \in cancel \/ life # "open" THEN "cancelled" ELSE "queued"

\* The reservation is released in the same step as a busy job is requeued.
RunFinish(j) ==
    /\ pc[j] = "finish"
    /\ assigned' = [assigned EXCEPT ![DeviceOf[j]] = NoJob]
    /\ cancel' = cancel \ {j}
    /\ Goto(j, "none", "succeeded")
    /\ \/ /\ outcome[j] = "retry"
          /\ st' = [st EXCEPT ![j] = Requeued(j)]
          /\ late' = IF Requeued(j) = "queued" THEN late ELSE late \ {j}
          /\ cooling' = cooling \cup {DeviceOf[j]}
       \/ /\ outcome[j] # "retry"
          /\ UNCHANGED <<st, late, cooling>>
    /\ UNCHANGED <<order, next, runs, sent, begun, seen, disp, life, revoked,
                   lab>>

----------------------------------------------------------------------------
(* Shutdown and restart.                                                   *)

CloseBegin ==
    /\ "shutdown" \in Events
    /\ life = "open"
    /\ life' = "closing"
    /\ st' = [j \in Jobs |-> IF st[j] = "queued" THEN "cancelled" ELSE st[j]]
    /\ late' = {j \in late : st[j] # "queued"}
    /\ cancel' = cancel \cup {j \in Jobs : st[j] \in Active}
    /\ UNCHANGED <<order, next, runs, worker, assigned, seen, disp, cooling,
                   revoked, lab>>

\* The threads ended, or the shutdown deadline passed; a job whose worker is
\* still there is left as cleaning.
CloseEnd ==
    /\ life = "closing"
    /\ life' = "closed"
    /\ st' = [j \in Jobs |-> IF st[j] \in Terminal \/ pc[j] = "none" THEN st[j]
                             ELSE "cleaning"]
    /\ UNCHANGED <<order, next, runs, worker, cancel, assigned, seen, disp,
                   clocks, lab>>

\* _load: what was not finished is interrupted and never run again.
Loaded(j) == IF st[j] \in {"queued"} \cup Active THEN "interrupted" ELSE st[j]

\* The files are loaded by name, so finished jobs are numbered anew.
Renumbered ==
    LET known == {j \in Jobs : st[j] # "absent"} IN
    /\ next' = Cardinality(known)
    /\ order' \in {o \in [Jobs -> 0 .. Cardinality(known)] :
                     /\ \A j \in Jobs \ known : o[j] = 0
                     /\ \A j, k \in known : o[j] < next' /\ (o[j] = o[k] => j = k)}

\* The process ends at any point and a new one loads the jobs and the device
\* states; a device that was not available is quarantined.
Restart ==
    /\ "restart" \in Events
    /\ st' = [j \in Jobs |-> Loaded(j)]
    /\ pc' = [j \in Jobs |-> "none"]
    /\ outcome' = [j \in Jobs |-> "succeeded"]
    /\ sent' = [j \in Jobs |-> "no"]
    /\ late' = {}
    /\ cancel' = {}
    /\ assigned' = [d \in Devices |-> NoJob]
    /\ cooling' = {}
    /\ seen' = {}
    /\ disp' = "look"
    /\ life' = "open"
    /\ dstate' = [d \in Devices |-> IF dstate[d] = "available" THEN "available"
                                    ELSE "quarantined"]
    /\ sess' = [j \in Jobs |-> "none"]
    /\ replay' = [j \in Jobs |-> "none"]
    /\ Renumbered
    /\ UNCHANGED <<runs, begun, revoked>>

----------------------------------------------------------------------------
(* The Lab, other users, and time.                                         *)

SessionActive(j) ==
    /\ sess[j] = "connecting"
    /\ sess' = [sess EXCEPT ![j] = "active"]
    /\ UNCHANGED <<jobs, worker, cancel, assigned, seen, disp, life, clocks,
                   dstate, replay>>

\* Lab.fail, from the provider, possibly once more.
SessionFail(j) ==
    /\ sess[j] \in {"connecting", "active", "failed"}
    /\ sess' = [sess EXCEPT ![j] = "failed"]
    /\ dstate' = [dstate EXCEPT ![DeviceOf[j]] = "quarantined"]
    /\ UNCHANGED <<jobs, worker, cancel, assigned, seen, disp, life, clocks,
                   replay>>

\* The owner, or the idle timeout, closes the session of a job.
OwnerClose(j) ==
    /\ "manual" \in Events
    /\ sess[j] = "active"
    /\ sess' = [sess EXCEPT ![j] = "draining"]
    /\ UNCHANGED <<jobs, worker, cancel, assigned, seen, disp, life, clocks,
                   dstate, replay>>

OwnerClosed(j, clean) ==
    /\ sess[j] = "draining" /\ pc[j] # "closing"
    /\ sess' = [sess EXCEPT ![j] = IF clean THEN "closed" ELSE "failed"]
    /\ dstate' = [dstate EXCEPT ![DeviceOf[j]] =
                    IF clean THEN "available" ELSE "quarantined"]
    /\ UNCHANGED <<jobs, worker, cancel, assigned, seen, disp, life, clocks,
                   replay>>

\* The replay thread of the Lab ends.
ReplayEnd(j, r) ==
    /\ replay[j] \in {"running", "cancelling"}
    /\ replay' = [replay EXCEPT ![j] = r]
    /\ UNCHANGED <<jobs, worker, cancel, assigned, seen, disp, life, clocks,
                   dstate, sess>>

\* A job's session holds its device.
Held(d) == \E j \in Jobs : /\ DeviceOf[j] = d
                           /\ sess[j] \in {"connecting", "active", "draining"}

\* A manual session takes the device and gives it back.
ManualTake(d) ==
    /\ "manual" \in Events
    /\ dstate[d] = "available"
    /\ dstate' = [dstate EXCEPT ![d] = "busy"]
    /\ UNCHANGED <<jobs, worker, cancel, assigned, seen, disp, life, clocks,
                   sess, replay>>

ManualRelease(d) ==
    /\ "manual" \in Events
    /\ dstate[d] = "busy" /\ ~Held(d)
    /\ dstate' = [dstate EXCEPT ![d] = "available"]
    /\ UNCHANGED <<jobs, worker, cancel, assigned, seen, disp, life, clocks,
                   sess, replay>>

Deadline(j) ==
    /\ st[j] \in {"queued"} \cup Active /\ j \notin late
    /\ late' = late \cup {j}
    /\ UNCHANGED <<jobs, worker, cancel, assigned, seen, disp, life, cooling,
                   revoked, lab>>

CoolDown(d) ==
    /\ d \in cooling
    /\ cooling' = cooling \ {d}
    /\ UNCHANGED <<jobs, worker, cancel, assigned, seen, disp, life, late,
                   revoked, lab>>

Revoke(j) ==
    /\ "revoke" \in Events
    /\ j \in Shared \ revoked
    /\ revoked' = revoked \cup {j}
    /\ UNCHANGED <<jobs, worker, cancel, assigned, seen, disp, life, late,
                   cooling, lab>>

----------------------------------------------------------------------------

DispatcherNext == DispatchLook \/ DispatchStop \/ DispatchScan

WorkerNext(j) ==
    \/ RunRefused(j) \/ RunCreate(j) \/ RunBusy(j) \/ RunCreated(j)
    \/ StartupStop(j) \/ StartupClaim(j)
    \/ RunsDone(j) \/ RunsStop(j) \/ RunsReplay(j)
    \/ WaitCancel(j) \/ WaitComplete(j) \/ WaitFailed(j)
    \/ Cleanup(j) \/ CleanupClose(j)
    \/ \E clean \in BOOLEAN : CleanupClosed(j, clean)
    \/ RunEnd(j) \/ RunFinish(j)

CallerNext(j) == Submit(j) \/ Cancel(j)

LabNext(j) ==
    \/ SessionActive(j) \/ SessionFail(j) \/ OwnerClose(j)
    \/ \E clean \in BOOLEAN : OwnerClosed(j, clean)
    \/ \E r \in Settled : ReplayEnd(j, r)

Next ==
    \/ DispatcherNext
    \/ \E j \in Jobs : WorkerNext(j) \/ CallerNext(j) \/ LabNext(j)
                         \/ Deadline(j) \/ Revoke(j)
    \/ \E d \in Devices : ManualTake(d) \/ ManualRelease(d) \/ CoolDown(d)
    \/ CloseBegin \/ CloseEnd \/ Restart

Spec == Init /\ [][Next]_vars

\* Threads keep running, calls into the Lab return, and time passes.  Users,
\* shutdown, restart, the provider and the replay itself promise nothing.
Fairness ==
    /\ WF_vars(DispatcherNext)
    /\ \A j \in Jobs : WF_vars(WorkerNext(j)) /\ WF_vars(Deadline(j))

FairSpec == Spec /\ Fairness

----------------------------------------------------------------------------
(* What the queue promises.                                                *)

\* A job holds its device exactly as long as it has a worker, an unfinished
\* started job never lacks one, and no more than max_running are held.
WorkersAccounted ==
    /\ \A j \in Jobs : /\ pc[j] # "none" <=> assigned[DeviceOf[j]] = j
                       /\ st[j] \in Active => pc[j] # "none"
    /\ Cardinality({d \in Devices : assigned[d] # NoJob}) <= MaxRunning

\* What waits in the queue has never touched a device and was not cancelled,
\* although a busy device sends started jobs back; and after close() nothing
\* waits that a dispatcher in the middle of its scan could start.
QueuedUntouched ==
    \A j \in Jobs : st[j] = "queued" =>
        begun[j] = 0 /\ j \notin cancel /\ life = "open"

\* Runs are counted once: no replay is started again for a run that may
\* have been injected, also not by a restart.
NoRerun == \A j \in Jobs : runs[j] <= begun[j] /\ begun[j] <= Repeats[j]
                              /\ (pc[j] \in {"runs", "creating", "startup"}
                                    => runs[j] = begun[j])

\* "The same device is processed in submission order": when a job starts,
\* every earlier job of its device is finished, busy retries, expiry and
\* revoked authorizations included.
SubmissionOrder ==
    [][\A j, k \in Jobs :
         /\ st[j] = "queued" /\ st'[j] = "starting"
         /\ DeviceOf[k] = DeviceOf[j] /\ st[k] # "absent" /\ order[k] < order[j]
         => st'[k] \in Terminal]_vars

\* A finished job keeps its state, although workers, shutdown and the
\* dispatcher write states without looking at the old one.
FinishedStays ==
    [][\A j \in Jobs : st[j] \in Terminal => st'[j] = st[j]]_vars

\* "Success means that the receipts of all runs and the cleanup are
\* confirmed": the session is closed when a job succeeds.
SuccessConfirmed ==
    [][\A j \in Jobs : st[j] # "succeeded" /\ st'[j] = "succeeded" =>
         runs[j] = Repeats[j] /\ begun[j] = Repeats[j] /\ sess[j] = "closed"]_vars

\* Every submitted job finishes, and its device is returned to the queue,
\* whatever the device, the session, its replay and its users do.
JobsSettle ==
    \A j \in Jobs : /\ st[j] = "queued" ~> st[j] \in Terminal
                    /\ pc[j] # "none" ~> pc[j] = "none"
============================================================================
