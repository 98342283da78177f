--------------------------- MODULE JobQueueProofs ---------------------------
(* Proofs about the replay job queue, for any number of jobs, devices and  *)
(* runs per job and any max_running and max_pending.                       *)
EXTENDS JobQueue, FiniteSetTheorems, TLAPS

Reserved == {d \in Devices : assigned[d] # NoJob}
Known    == {j \in Jobs : st[j] # "absent"}

\* The steps of _run before a replay can have started.
Starting == {"begin", "creating", "startup"}

\* The steps of _run at which the outcome is what _terminal will publish.
Ending == {"cleanup", "close", "closing", "end"}

\* Finitely many jobs were submitted, and no two have the same number.
Numbered ==
    /\ IsFiniteSet(Known)
    /\ \A j \in Known : order[j] < next
    /\ \A j, k \in Known : order[j] = order[k] => j = k

Reservations == IsFiniteSet(Reserved) /\ Cardinality(Reserved) <= MaxRunning

\* A worker is there from the reservation of the device to its release, and
\* until _terminal the state of its job says that it is active.
WorkerState(j) ==
    /\ pc[j] # "none" <=> assigned[DeviceOf[j]] = j
    /\ st[j] \in Active => pc[j] # "none"
    /\ pc[j] \notin {"none", "finish"} => st[j] \in Active
    /\ pc[j] = "finish" => st[j] \in Active \cup Terminal
    /\ outcome[j] = "retry" => pc[j] \in {"end", "finish"} /\ st[j] \in Active
    /\ pc[j] = "finish" /\ outcome[j] # "retry" => st[j] \in Terminal
    /\ j \in cancel => pc[j] # "none"
    /\ st[j] = "queued" => life = "open"

\* What the worker has counted, against the replays it has started.
RunCount(j) ==
    /\ runs[j] <= begun[j] /\ begun[j] <= Repeats[j]
    /\ st[j] \in {"absent", "queued"} \/ pc[j] \in Starting \/ outcome[j] = "retry"
         => begun[j] = 0
    /\ pc[j] = "runs" => runs[j] = begun[j]
    /\ pc[j] = "replay" => begun[j] = runs[j] + 1
    /\ pc[j] \in Ending /\ outcome[j] = "succeeded" => runs[j] = Repeats[j]
    /\ pc[j] = "end" /\ outcome[j] = "succeeded" => sess[j] = "closed"

QueueInv ==
    /\ TypeOK
    /\ Numbered
    /\ Reservations
    /\ \A j \in Jobs : WorkerState(j) /\ RunCount(j)

----------------------------------------------------------------------------
(* Types.                                                                  *)

LEMMA TypeInit == Init => TypeOK
BY QueueAssumption DEF Init, TypeOK, Active, Terminal, Settled

LEMMA TypeWorker ==
  ASSUME TypeOK, NEW j \in Jobs, WorkerNext(j)
  PROVE  TypeOK'
<1> USE DEF TypeOK, Active, Terminal, Settled, Goto, CancelReplay, jobs, worker,
            lab, clocks
<1> DeviceOf[j] \in Devices
  BY QueueAssumption
<1>1. CASE RunRefused(j) \/ RunBusy(j) \/ StartupStop(j) \/ RunsDone(j) \/ RunsStop(j)
  BY <1>1 DEF RunRefused, RunBusy, StartupStop, RunsDone, RunsStop
<1>2. CASE RunCreate(j)
  BY <1>2 DEF RunCreate
<1>3. CASE RunCreated(j)
  BY <1>3 DEF RunCreated
<1>4. CASE StartupClaim(j)
  BY <1>4 DEF StartupClaim
<1>5. CASE RunsReplay(j)
  BY <1>5 DEF RunsReplay
<1>6. CASE WaitCancel(j)
  BY <1>6 DEF WaitCancel
<1>7. CASE WaitComplete(j)
  BY <1>7 DEF WaitComplete
<1>8. CASE WaitFailed(j)
  BY <1>8 DEF WaitFailed
<1>9. CASE Cleanup(j)
  BY <1>9 DEF Cleanup
<1>10. CASE CleanupClose(j)
  BY <1>10 DEF CleanupClose
<1>11. CASE \E clean \in BOOLEAN : CleanupClosed(j, clean)
  BY <1>11 DEF CleanupClosed, CleanupOutcome
<1>12. CASE RunEnd(j)
  BY <1>12 DEF RunEnd, Published
<1>13. CASE RunFinish(j)
  BY <1>13 DEF RunFinish, Requeued
<1> QED
  BY <1>1, <1>2, <1>3, <1>4, <1>5, <1>6, <1>7, <1>8, <1>9, <1>10, <1>11,
     <1>12, <1>13 DEF WorkerNext

LEMMA TypeOthers ==
  ASSUME TypeOK, Numbered,
         \/ DispatcherNext
         \/ \E j \in Jobs : CallerNext(j) \/ LabNext(j) \/ Deadline(j) \/ Revoke(j)
         \/ \E d \in Devices : ManualTake(d) \/ ManualRelease(d) \/ CoolDown(d)
         \/ CloseBegin \/ CloseEnd \/ Restart
  PROVE  TypeOK'
<1> USE DEF TypeOK, Active, Terminal, Settled, jobs, worker, lab, clocks
<1>1. CASE DispatchLook
  BY <1>1 DEF DispatchLook
<1>2. CASE DispatchStop
  BY <1>2 DEF DispatchStop
<1>3. CASE DispatchScan
  <2>1. Startable \subseteq Jobs
    BY DEF Startable, Heads, Queued
  <2>2. assigned' \in [Devices -> Jobs \cup {NoJob}]
    BY <1>3, <2>1 DEF DispatchScan
  <2> QED
    BY <1>3, <2>2 DEF DispatchScan
<1>4. CASE \E j \in Jobs : CallerNext(j)
  BY <1>4 DEF CallerNext, Submit, Cancel
<1>5. ASSUME NEW j \in Jobs, LabNext(j)
      PROVE  TypeOK'
  <2> DeviceOf[j] \in Devices
    BY QueueAssumption
  <2> QED
    BY <1>5 DEF LabNext, SessionActive, SessionFail, OwnerClose, OwnerClosed, ReplayEnd
<1>6. CASE \E j \in Jobs : Deadline(j) \/ Revoke(j)
  BY <1>6 DEF Deadline, Revoke
<1>7. CASE \E d \in Devices : ManualTake(d) \/ ManualRelease(d) \/ CoolDown(d)
  BY <1>7 DEF ManualTake, ManualRelease, CoolDown
<1>8. CASE CloseBegin \/ CloseEnd
  BY <1>8 DEF CloseBegin, CloseEnd
<1>9. CASE Restart
  <2>1. Cardinality(Known) \in Nat
    BY FS_CardinalityType DEF Numbered
  <2>2. order' \in [Jobs -> Nat] /\ next' \in Nat
    BY <1>9, <2>1 DEF Restart, Renumbered, Known
  <2> QED
    BY <1>9, <2>2 DEF Restart, Loaded
<1> QED
  BY <1>1, <1>2, <1>3, <1>4, <1>5, <1>6, <1>7, <1>8, <1>9 DEF DispatcherNext

----------------------------------------------------------------------------
(* The numbers of the jobs.                                                *)

LEMMA SameNumbers ==
  ASSUME TypeOK, Numbered, UNCHANGED <<order, next>>,
         \A j \in Jobs : st'[j] = "absent" <=> st[j] = "absent"
  PROVE  Numbered'
<1>1. Known' = Known
  BY DEF Known
<1> QED
  BY <1>1 DEF Numbered

LEMMA NumberedStep ==
  ASSUME TypeOK, Numbered, [Next]_vars, \A j \in Jobs : WorkerState(j)
  PROVE  Numbered'
<1> USE DEF TypeOK, Active, Terminal, jobs, worker, lab, clocks
<1>1. CASE UNCHANGED vars
  BY <1>1, SameNumbers DEF vars
<1>2. CASE DispatcherNext
  <2>1. \A j \in Startable \cup Expired \cup Unauthorized : st[j] = "queued"
    BY DEF Startable, Unauthorized, Heads, Queued, Expired
  <2> QED
    BY <1>2, <2>1, SameNumbers DEF DispatcherNext, DispatchLook, DispatchStop,
       DispatchScan
<1>3. ASSUME NEW j \in Jobs, WorkerNext(j)
      PROVE  Numbered'
  <2>1. UNCHANGED <<order, next>>
    BY <1>3 DEF WorkerNext, RunRefused, RunCreate, RunBusy, RunCreated, StartupStop,
       StartupClaim, RunsDone, RunsStop, RunsReplay, WaitCancel, WaitComplete,
       WaitFailed, Cleanup, CleanupClose, CleanupClosed, RunEnd, RunFinish
  <2>2. \A k \in Jobs : st'[k] = "absent" <=> st[k] = "absent"
    BY <1>3 DEF WorkerNext, RunRefused, RunCreate, RunBusy, RunCreated, StartupStop,
       StartupClaim, RunsDone, RunsStop, RunsReplay, WaitCancel, WaitComplete,
       WaitFailed, Cleanup, CleanupClose, CleanupClosed, RunEnd, RunFinish,
       Requeued, Published, WorkerState
  <2> QED
    BY <2>1, <2>2, SameNumbers
<1>4. ASSUME NEW j \in Jobs, Submit(j)
      PROVE  Numbered'
  <2>1. Known' = Known \cup {j} /\ j \notin Known
    BY <1>4 DEF Submit, Known
  <2>2. IsFiniteSet(Known')
    BY <2>1, FS_AddElement DEF Numbered
  <2> QED
    BY <1>4, <2>1, <2>2 DEF Submit, Numbered, Known
<1>5. CASE \E j \in Jobs : Cancel(j) \/ LabNext(j) \/ Deadline(j) \/ Revoke(j)
  BY <1>5, SameNumbers DEF Cancel, LabNext, SessionActive, SessionFail, OwnerClose,
     OwnerClosed, ReplayEnd, Deadline, Revoke
<1>6. CASE \E d \in Devices : ManualTake(d) \/ ManualRelease(d) \/ CoolDown(d)
  BY <1>6, SameNumbers DEF ManualTake, ManualRelease, CoolDown
<1>7. CASE CloseBegin \/ CloseEnd
  BY <1>7, SameNumbers DEF CloseBegin, CloseEnd, WorkerState
<1>8. CASE Restart
  <2>1. Known' = Known
    BY <1>8 DEF Restart, Loaded, Known
  <2> QED
    BY <1>8, <2>1 DEF Restart, Renumbered, Numbered, Known
<1> QED
  BY <1>1, <1>2, <1>3, <1>4, <1>5, <1>6, <1>7, <1>8 DEF Next, CallerNext

----------------------------------------------------------------------------
(* Reservations and workers.                                               *)

\* The scan starts at most one job, because the numbers are different.
LEMMA OneStart ==
  ASSUME TypeOK, Numbered, NEW j \in Startable, NEW k \in Startable
  PROVE  j = k
BY DEF TypeOK, Numbered, Known, Startable, Heads, Queued

LEMMA ScanAssigns ==
  ASSUME TypeOK, Numbered, DispatchScan
  PROVE  /\ \A j \in Startable : /\ j \in Jobs /\ st[j] = "queued" /\ Room
                                 /\ DeviceOf[j] \in Devices
                                 /\ assigned[DeviceOf[j]] = NoJob
                                 /\ assigned'[DeviceOf[j]] = j
         /\ \A d \in Devices : (\A j \in Startable : DeviceOf[j] # d)
                                 => assigned'[d] = assigned[d]
<1>1. ASSUME NEW j \in Startable
      PROVE  /\ j \in Jobs /\ st[j] = "queued" /\ Room
             /\ DeviceOf[j] \in Devices
             /\ assigned[DeviceOf[j]] = NoJob
             /\ assigned'[DeviceOf[j]] = j
  <2>1. /\ j \in Jobs /\ st[j] = "queued" /\ Room
        /\ DeviceOf[j] \in Devices
        /\ assigned[DeviceOf[j]] = NoJob
    BY QueueAssumption DEF Startable, Heads, Queued, Idle
  <2>2. \A k \in Startable : DeviceOf[k] = DeviceOf[j] => k = j
    BY OneStart
  <2>3. (CHOOSE k \in Startable : DeviceOf[k] = DeviceOf[j]) = j
    BY <2>2
  <2> QED
    BY <2>1, <2>3 DEF DispatchScan
<1>2. \A d \in Devices : (\A j \in Startable : DeviceOf[j] # d)
                            => assigned'[d] = assigned[d]
  BY DEF DispatchScan
<1> QED
  BY <1>1, <1>2

\* Only the scan reserves a device, and only a worker or a restart frees one.
LEMMA WhoReserves ==
  ASSUME TypeOK, [Next]_vars
  PROVE  \/ UNCHANGED assigned
         \/ DispatchScan
         \/ Restart
         \/ \E j \in Jobs : RunFinish(j)
<1> USE DEF jobs, worker, lab, clocks
<1>1. ASSUME NEW j \in Jobs, WorkerNext(j)
      PROVE  UNCHANGED assigned \/ RunFinish(j)
  BY <1>1 DEF WorkerNext, RunRefused, RunCreate, RunBusy, RunCreated, StartupStop,
     StartupClaim, RunsDone, RunsStop, RunsReplay, WaitCancel, WaitComplete,
     WaitFailed, Cleanup, CleanupClose, CleanupClosed, RunEnd
<1>2. ASSUME NEW j \in Jobs,
             CallerNext(j) \/ LabNext(j) \/ Deadline(j) \/ Revoke(j)
      PROVE  UNCHANGED assigned
  BY <1>2 DEF CallerNext, Submit, Cancel, LabNext, SessionActive, SessionFail,
     OwnerClose, OwnerClosed, ReplayEnd, Deadline, Revoke
<1>3. ASSUME NEW d \in Devices, ManualTake(d) \/ ManualRelease(d) \/ CoolDown(d)
      PROVE  UNCHANGED assigned
  BY <1>3 DEF ManualTake, ManualRelease, CoolDown
<1> QED
  BY <1>1, <1>2, <1>3 DEF Next, DispatcherNext, DispatchLook, DispatchStop,
     CloseBegin, CloseEnd, vars

LEMMA ReservationsStep ==
  ASSUME TypeOK, Numbered, Reservations, [Next]_vars
  PROVE  Reservations'
<1>1. CASE UNCHANGED assigned
  BY <1>1 DEF Reservations, Reserved
<1>2. CASE DispatchScan
  <2>1. CASE Startable = {}
    <3>1. Reserved' = Reserved
      BY <1>2, <2>1, ScanAssigns DEF Reserved
    <3> QED
      BY <3>1 DEF Reservations
  <2>2. CASE Startable # {}
    <3> PICK j \in Startable : TRUE
      BY <2>2
    <3>1. Reserved' = Reserved \cup {DeviceOf[j]}
      BY <1>2, ScanAssigns, OneStart, QueueAssumption DEF Reserved
    <3>2. Cardinality(Reserved) < MaxRunning
      BY <1>2, ScanAssigns DEF Room, Reserved
    <3>3. Cardinality(Reserved) \in Nat
      BY FS_CardinalityType DEF Reservations
    <3>4. /\ IsFiniteSet(Reserved \cup {DeviceOf[j]})
          /\ Cardinality(Reserved \cup {DeviceOf[j]}) <= Cardinality(Reserved) + 1
      BY <3>3, FS_AddElement DEF Reservations
    <3>5. Cardinality(Reserved \cup {DeviceOf[j]}) \in Nat
      BY <3>4, FS_CardinalityType
    <3> QED
      BY <3>1, <3>2, <3>3, <3>4, <3>5, QueueAssumption DEF Reservations
  <2> QED
    BY <2>1, <2>2
<1>3. CASE Restart \/ \E j \in Jobs : RunFinish(j)
  <2>1. Reserved' \subseteq Reserved
    BY <1>3, QueueAssumption DEF Restart, RunFinish, Reserved, TypeOK
  <2>2. IsFiniteSet(Reserved') /\ Cardinality(Reserved') <= Cardinality(Reserved)
    BY <2>1, FS_Subset DEF Reservations
  <2>3. Cardinality(Reserved) \in Nat /\ Cardinality(Reserved') \in Nat
    BY <2>2, FS_CardinalityType DEF Reservations
  <2> QED
    BY <2>2, <2>3, QueueAssumption DEF Reservations
<1> QED
  BY <1>1, <1>2, <1>3, WhoReserves

\* A step of the worker of j, seen from any job k.
LEMMA WorkerStep ==
  ASSUME TypeOK, NEW j \in Jobs, WorkerNext(j), NEW k \in Jobs,
         WorkerState(j), WorkerState(k), RunCount(j), RunCount(k)
  PROVE  WorkerState(k)' /\ RunCount(k)'
<1> USE DEF TypeOK, Active, Terminal, Goto, jobs, worker, lab, clocks,
            WorkerState, RunCount, Starting, Ending
<1> DeviceOf[j] \in Devices /\ DeviceOf[k] \in Devices
  BY QueueAssumption
<1> Repeats[j] \in Nat \ {0} /\ Repeats[k] \in Nat \ {0}
  BY QueueAssumption
<1> NoJob \notin Jobs
  BY QueueAssumption
<1>1. CASE RunRefused(j) \/ RunBusy(j)
  BY <1>1 DEF RunRefused, RunBusy
<1>2. CASE RunCreate(j)
  BY <1>2 DEF RunCreate
<1>3. CASE RunCreated(j)
  BY <1>3 DEF RunCreated
<1>4. CASE StartupStop(j) \/ StartupClaim(j)
  BY <1>4 DEF StartupStop, StartupClaim
<1>5. CASE RunsDone(j) \/ RunsStop(j)
  BY <1>5 DEF RunsDone, RunsStop, Remaining
<1>6. CASE RunsReplay(j)
  BY <1>6 DEF RunsReplay, Remaining
<1>7. CASE WaitCancel(j)
  BY <1>7 DEF WaitCancel
<1>8. CASE WaitComplete(j)
  BY <1>8 DEF WaitComplete
<1>9. CASE WaitFailed(j)
  BY <1>9 DEF WaitFailed
<1>10. CASE Cleanup(j)
  BY <1>10 DEF Cleanup
<1>11. CASE CleanupClose(j)
  BY <1>11 DEF CleanupClose
<1>12. CASE \E clean \in BOOLEAN : CleanupClosed(j, clean)
  BY <1>12 DEF CleanupClosed, CleanupOutcome
<1>13. CASE RunEnd(j)
  BY <1>13 DEF RunEnd, Published
<1>14. CASE RunFinish(j)
  BY <1>14 DEF RunFinish, Requeued
<1> QED
  BY <1>1, <1>2, <1>3, <1>4, <1>5, <1>6, <1>7, <1>8, <1>9, <1>10, <1>11,
     <1>12, <1>13, <1>14 DEF WorkerNext

\* A step of the dispatcher, a caller, the Lab or the environment, seen from
\* any job k.
LEMMA OtherStep ==
  ASSUME TypeOK, Numbered, NEW k \in Jobs, WorkerState(k), RunCount(k),
         \/ DispatcherNext
         \/ \E j \in Jobs : CallerNext(j) \/ LabNext(j) \/ Deadline(j) \/ Revoke(j)
         \/ \E d \in Devices : ManualTake(d) \/ ManualRelease(d) \/ CoolDown(d)
         \/ CloseBegin \/ CloseEnd \/ Restart
  PROVE  WorkerState(k)' /\ RunCount(k)'
<1> USE DEF TypeOK, Active, Terminal, jobs, worker, lab, clocks, WorkerState,
            RunCount, Starting, Ending
<1> DeviceOf[k] \in Devices /\ Repeats[k] \in Nat \ {0} /\ NoJob \notin Jobs
  BY QueueAssumption
<1>1. CASE DispatchLook \/ DispatchStop
  BY <1>1 DEF DispatchLook, DispatchStop
<1>2. CASE DispatchScan
  <2>1. CASE k \in Startable
    <3>1. k \notin Expired \cup Unauthorized
      BY <2>1 DEF Startable, Unauthorized, Heads, Queued
    <3>2. st[k] = "queued" /\ assigned'[DeviceOf[k]] = k
      BY <1>2, <2>1, ScanAssigns
    <3> QED
      BY <1>2, <2>1, <3>1, <3>2 DEF DispatchScan
  <2>2. CASE k \notin Startable
    <3>1. k \in Expired \cup Unauthorized => st[k] = "queued"
      BY DEF Expired, Unauthorized, Heads, Queued
    <3>2. assigned'[DeviceOf[k]] = k <=> assigned[DeviceOf[k]] = k
      BY <1>2, <2>2, ScanAssigns
    <3> QED
      BY <1>2, <2>2, <3>1, <3>2 DEF DispatchScan
  <2> QED
    BY <2>1, <2>2
<1>3. CASE \E j \in Jobs : CallerNext(j)
  BY <1>3 DEF CallerNext, Submit, Cancel
<1>4. CASE \E j \in Jobs : LabNext(j)
  BY <1>4 DEF LabNext, SessionActive, SessionFail, OwnerClose, OwnerClosed, ReplayEnd
<1>5. CASE \E j \in Jobs : Deadline(j) \/ Revoke(j)
  BY <1>5 DEF Deadline, Revoke
<1>6. CASE \E d \in Devices : ManualTake(d) \/ ManualRelease(d) \/ CoolDown(d)
  BY <1>6 DEF ManualTake, ManualRelease, CoolDown
<1>7. CASE CloseBegin \/ CloseEnd
  BY <1>7 DEF CloseBegin, CloseEnd
<1>8. CASE Restart
  BY <1>8 DEF Restart, Loaded
<1> QED
  BY <1>1, <1>2, <1>3, <1>4, <1>5, <1>6, <1>7, <1>8 DEF DispatcherNext

----------------------------------------------------------------------------
(* The inductive invariant, and what follows from it.                      *)

LEMMA InvInit == Init => QueueInv
<1> SUFFICES ASSUME Init PROVE QueueInv
  OBVIOUS
<1>1. Known = {} /\ Reserved = {}
  BY DEF Init, Known, Reserved
<1>2. Numbered
  BY <1>1, FS_EmptySet DEF Numbered
<1>3. Reservations
  BY <1>1, FS_EmptySet, QueueAssumption DEF Reservations
<1>4. \A j \in Jobs : WorkerState(j) /\ RunCount(j)
  BY QueueAssumption DEF Init, WorkerState, RunCount, Active, Terminal, Starting, Ending
<1> QED
  BY <1>2, <1>3, <1>4, TypeInit DEF QueueInv

LEMMA InvStep == QueueInv /\ [Next]_vars => QueueInv'
<1> SUFFICES ASSUME QueueInv, [Next]_vars PROVE QueueInv'
  OBVIOUS
<1> USE DEF QueueInv
<1>1. CASE UNCHANGED vars
  BY <1>1 DEF vars, TypeOK, Numbered, Known, Reservations, Reserved, WorkerState,
     RunCount
<1>2. CASE \E j \in Jobs : WorkerNext(j)
  BY <1>2, TypeWorker, NumberedStep, ReservationsStep, WorkerStep
<1>3. CASE \/ DispatcherNext
           \/ \E j \in Jobs : CallerNext(j) \/ LabNext(j) \/ Deadline(j) \/ Revoke(j)
           \/ \E d \in Devices : ManualTake(d) \/ ManualRelease(d) \/ CoolDown(d)
           \/ CloseBegin \/ CloseEnd \/ Restart
  BY <1>3, TypeOthers, NumberedStep, ReservationsStep, OtherStep
<1> QED
  BY <1>1, <1>2, <1>3 DEF Next

\* The inductive invariant of the queue: workers, reservations and job states
\* agree, submitted jobs are numbered apart, and the runs counted are those
\* begun. It holds for any jobs, devices, max_running and max_pending.
THEOREM QueueInvariance == Spec => []QueueInv
BY InvInit, InvStep, PTL DEF Spec

\* Whatever callers, the dispatcher, the workers, shutdown and a restart do,
\* every part of a job has one of the values the code gives it.
THEOREM QueueTypes == Spec => []TypeOK
BY QueueInvariance, PTL DEF QueueInv

\* For any number of devices and any max_running: a job holds its device as
\* long as it has a worker (from the scan of _dispatch to the finally of
\* _run), a started job never lacks its worker, and max_running is kept.
THEOREM WorkersAlwaysAccounted == Spec => []WorkersAccounted
<1>1. QueueInv => WorkersAccounted
  BY DEF QueueInv, WorkerState, Reservations, Reserved, WorkersAccounted
<1> QED
  BY <1>1, QueueInvariance, PTL

\* A job in the queue has injected nothing, has no cancellation pending and is
\* in a queue that is open, also when a busy device sent it back (_run).
THEOREM QueuedNeverTouched == Spec => []QueuedUntouched
<1>1. QueueInv => QueuedUntouched
  BY DEF QueueInv, WorkerState, RunCount, QueuedUntouched, Active, Terminal
<1> QED
  BY <1>1, QueueInvariance, PTL

\* A run is counted for a replay that was started, and a job never starts more
\* replays than runs were asked for, restarts included (_run, _load).
THEOREM RunsNeverRepeated == Spec => []NoRerun
<1>1. QueueInv => NoRerun
  BY QueueAssumption DEF QueueInv, RunCount, NoRerun, Starting, TypeOK
<1> QED
  BY <1>1, QueueInvariance, PTL

\* When the scan of _dispatch starts a job, all earlier jobs of its device are
\* finished after that scan, whatever expired or lost its authorization in it.
THEOREM DeviceInSubmissionOrder == Spec => SubmissionOrder
<1>1. ASSUME QueueInv, [Next]_vars, NEW j \in Jobs, NEW k \in Jobs,
             st[j] = "queued", st'[j] = "starting",
             DeviceOf[k] = DeviceOf[j], st[k] # "absent", order[k] < order[j]
      PROVE  st'[k] \in Terminal
  <2> USE <1>1 DEF QueueInv
  <2>1. DispatchScan
    <3>1. ~ \E i \in Jobs : WorkerNext(i)
      BY DEF TypeOK, Active, Terminal, WorkerState, jobs, worker, lab, clocks,
         WorkerNext, RunRefused, RunCreate, RunBusy, RunCreated, StartupStop,
         StartupClaim, RunsDone, RunsStop, RunsReplay, WaitCancel, WaitComplete,
         WaitFailed, Cleanup, CleanupClose, CleanupClosed, RunEnd, RunFinish,
         Requeued, Published
    <3>2. ~ \E i \in Jobs : CallerNext(i) \/ LabNext(i) \/ Deadline(i) \/ Revoke(i)
      BY DEF TypeOK, jobs, worker, lab, clocks, CallerNext, Submit, Cancel, LabNext,
         SessionActive, SessionFail, OwnerClose, OwnerClosed, ReplayEnd, Deadline,
         Revoke
    <3>3. ~ (CloseBegin \/ CloseEnd \/ Restart)
      BY DEF TypeOK, CloseBegin, CloseEnd, Restart, Loaded, Active
    <3> QED
      BY <3>1, <3>2, <3>3 DEF Next, DispatcherNext, DispatchLook, DispatchStop,
         ManualTake, ManualRelease, CoolDown, vars, jobs, worker, lab, clocks
  <2>2. j \in Startable
    BY <2>1 DEF DispatchScan
  <2>3. DeviceOf[j] \in Idle /\ assigned[DeviceOf[k]] = NoJob
    BY <2>2 DEF Startable, Heads, Idle
  <2>4. st[k] \notin Active
    BY <2>3, QueueAssumption DEF WorkerState
  <2>5. k \notin Startable
    BY <2>2, OneStart DEF TypeOK
  <2>6. CASE st[k] \in Terminal
    BY <2>1, <2>5, <2>6 DEF DispatchScan, Terminal
  <2>7. CASE st[k] = "queued"
    <3>1. CASE k \in Expired
      BY <2>1, <3>1 DEF DispatchScan, Terminal
    <3>2. CASE k \in Queued
      <4>1. k \in Earlier(j) /\ k \in revoked
        BY <2>2, <3>2 DEF Startable, Heads, Earlier
      <4>2. Earlier(k) \subseteq Earlier(j)
        BY DEF Earlier, Queued, TypeOK
      <4>3. k \in Heads
        BY <2>2, <2>3, <3>2, <4>2 DEF Heads, Startable
      <4>4. \A s \in Startable : s = j
        BY <2>2, OneStart
      <4>5. k \in Unauthorized
        BY <2>2, <4>1, <4>3, <4>4 DEF Unauthorized, Startable
      <4> QED
        BY <2>1, <4>5 DEF DispatchScan, Terminal
    <3> QED
      BY <2>7, <3>1, <3>2 DEF Queued
  <2> QED
    BY <2>4, <2>6, <2>7 DEF TypeOK
<1>2. QueueInv /\ [Next]_vars =>
        [\A j, k \in Jobs :
           /\ st[j] = "queued" /\ st'[j] = "starting"
           /\ DeviceOf[k] = DeviceOf[j] /\ st[k] # "absent" /\ order[k] < order[j]
           => st'[k] \in Terminal]_vars
  BY <1>1
<1> QED
  BY <1>2, QueueInvariance, PTL DEF Spec, SubmissionOrder

\* No worker, dispatcher, shutdown or restart writes over the state of a job
\* that has finished.
THEOREM FinishedIsFinal == Spec => FinishedStays
<1>1. ASSUME QueueInv, [Next]_vars, NEW k \in Jobs, st[k] \in Terminal
      PROVE  st'[k] = st[k]
  <2> USE <1>1 DEF QueueInv, TypeOK, Active, Terminal, jobs, worker, lab, clocks
  <2>1. ASSUME NEW j \in Jobs, WorkerNext(j) PROVE st'[k] = st[k]
    BY <2>1 DEF WorkerState, WorkerNext, RunRefused, RunCreate, RunBusy, RunCreated,
       StartupStop, StartupClaim, RunsDone, RunsStop, RunsReplay, WaitCancel,
       WaitComplete, WaitFailed, Cleanup, CleanupClose, CleanupClosed, RunEnd,
       RunFinish, Published
  <2>2. CASE DispatchScan
    BY <2>2 DEF DispatchScan, Startable, Unauthorized, Expired, Heads, Queued
  <2>3. ASSUME NEW j \in Jobs, CallerNext(j) \/ LabNext(j) \/ Deadline(j) \/ Revoke(j)
        PROVE  st'[k] = st[k]
    BY <2>3 DEF CallerNext, Submit, Cancel, LabNext, SessionActive, SessionFail,
       OwnerClose, OwnerClosed, ReplayEnd, Deadline, Revoke
  <2>4. CASE CloseBegin \/ CloseEnd \/ Restart
    BY <2>4 DEF CloseBegin, CloseEnd, Restart, Loaded
  <2> QED
    BY <2>1, <2>2, <2>3, <2>4 DEF Next, DispatcherNext, DispatchLook, DispatchStop,
       ManualTake, ManualRelease, CoolDown, vars
<1>2. QueueInv /\ [Next]_vars =>
        [\A j \in Jobs : st[j] \in Terminal => st'[j] = st[j]]_vars
  BY <1>1
<1> QED
  BY <1>2, QueueInvariance, PTL DEF Spec, FinishedStays

\* A job is published as succeeded only when all its runs were started, all of
\* them completed and its session is closed (_cleanup, _terminal).
THEOREM SuccessIsConfirmed == Spec => SuccessConfirmed
<1>1. ASSUME QueueInv, [Next]_vars, NEW k \in Jobs,
             st[k] # "succeeded", st'[k] = "succeeded"
      PROVE  runs[k] = Repeats[k] /\ begun[k] = Repeats[k] /\ sess[k] = "closed"
  <2> USE <1>1 DEF QueueInv, TypeOK, Active, Terminal, jobs, worker, lab, clocks
  <2>1. ASSUME NEW j \in Jobs, WorkerNext(j)
        PROVE  k = j /\ pc[k] = "end" /\ outcome[k] = "succeeded"
    BY <2>1 DEF WorkerState, WorkerNext, RunRefused, RunCreate, RunBusy, RunCreated,
       StartupStop, StartupClaim, RunsDone, RunsStop, RunsReplay, WaitCancel,
       WaitComplete, WaitFailed, Cleanup, CleanupClose, CleanupClosed, RunEnd,
       RunFinish, Requeued, Published
  <2>2. ~ DispatchScan
    BY DEF DispatchScan
  <2>3. ~ \E j \in Jobs : CallerNext(j) \/ LabNext(j) \/ Deadline(j) \/ Revoke(j)
    BY DEF CallerNext, Submit, Cancel, LabNext, SessionActive, SessionFail,
       OwnerClose, OwnerClosed, ReplayEnd, Deadline, Revoke
  <2>4. ~ (CloseBegin \/ CloseEnd \/ Restart)
    BY DEF CloseBegin, CloseEnd, Restart, Loaded
  <2>5. \E j \in Jobs : WorkerNext(j)
    BY <2>2, <2>3, <2>4 DEF Next, DispatcherNext, DispatchLook, DispatchStop,
       ManualTake, ManualRelease, CoolDown, vars
  <2>6. pc[k] = "end" /\ outcome[k] = "succeeded"
    BY <2>1, <2>5
  <2>7. Repeats[k] \in Nat /\ runs[k] \in Nat /\ begun[k] \in Nat
    BY QueueAssumption
  <2> QED
    BY <2>6, <2>7 DEF RunCount, Ending
<1>2. QueueInv /\ [Next]_vars =>
        [\A j \in Jobs : st[j] # "succeeded" /\ st'[j] = "succeeded" =>
           runs[j] = Repeats[j] /\ begun[j] = Repeats[j] /\ sess[j] = "closed"]_vars
  BY <1>1
<1> QED
  BY <1>2, QueueInvariance, PTL DEF Spec, SuccessConfirmed
=============================================================================
