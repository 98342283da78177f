--------------------------- MODULE RecordingProofs ---------------------------
(***************************************************************************)
(* Proofs about Recording: what the journal says of a recording, whatever  *)
(* the number of inputs, samples and stops, however often the process      *)
(* crashes and however its steps interleave.                               *)
(***************************************************************************)
EXTENDS Recording, TLAPS

\* The states from the barrier on.
Late == {"finalizing"} \cup Frozen

\* The original has expired and load() has deleted what the journal said of it.
Expired == j.st \in Frozen /\ ~j.kept

\* A collection that begin_collection has counted.
Collecting == {"sample", "put", "stored", "media", "gap"}

\* Until begin_recording has returned, no other thread has started and the
\* journal has at most the row it has prepared; a process that was restarted
\* has no session.
BeginPhase ==
  /\ pc["begin"] \in {"reserve", "final", "refused", "identity", "prepared", "open", "gone"}
  /\ alive # "up" => pc["begin"] = "gone"
  /\ pc["begin"] \in {"reserve", "final", "refused", "identity"} => j = NoRow
  /\ pc["begin"] = "prepared" => j = [NoRow EXCEPT !.st = "preparing"]
  /\ pc["begin"] = "open" => j.st \notin {"none", "preparing"}
  /\ pc["begin"] \notin {"open", "gone"} =>
       \A t \in Threads : t # "begin" => pc[t] = "idle"

\* Only a recording with a barrier is being frozen.
FreezePhase(t) ==
  /\ pc[t] \in {"final", "files", "rows", "charges", "freeze", "seal"} \cup Finals => j.st \in Late
  /\ pc[t] \in {"unpin", "load"} => j.st \in Frozen

\* What the barrier fixed: the events are the ones before it, and an original
\* without gaps whose barrier was not cut short has all the samples but those
\* that their own calls gave up.
BarrierFixed ==
  /\ j.kept => j.st \in Frozen
  /\ Expired => /\ \A i \in Inputs : j.ev[i] = "none"
                /\ \A s \in Samples : j.seen[s] = "none"
  /\ j.st \in Late /\ ~Expired => \A i \in Inputs : i \in j.bar.ev <=> j.ev[i] # "none"
  /\ j.st = "complete" /\ j.kept =>
       /\ ~j.bar.cut /\ j.bar.gaps = {}
       /\ \A i \in j.bar.ev : j.ev[i] \notin {"admitted", "dispatched"}
  /\ j.st \in Late /\ ~j.bar.cut /\ j.bar.gaps = {} =>
       \A s \in Samples : j.seen[s] # "none" =>
         s \in told \/ (j.seen[s] = "approved" /\ s \in j.bar.media)

\* An input is executed only after the journal has it as dispatched.
InputPhase(i) ==
  /\ pc[i] \in {"idle", "admitted", "dispatched"} => dev[i] = "none"
  /\ pc[i] = "dispatched" /\ ~Expired => j.ev[i] = "dispatched"
  /\ pc[i] = "receipt" => dev[i] # "none"
  /\ dev[i] # "none" /\ ~Expired => j.ev[i] \in {dev[i], "dispatched"}
  /\ j.ev[i] \in {"injected", "rejected"} => j.ev[i] = dev[i]

\* A caller that was told an outcome is done, and the outcome is kept.
ToldPhase(i) ==
  i \in told =>
    /\ pc[i] = "done"
    /\ j.ev[i] = dev[i] \/ i \in j.pend \cup j.life \/ Expired

\* While the recording runs, a sample that was accepted is on its way, is in
\* the media or the gaps, or was given up.
SamplePhase(s) ==
  /\ pc[s] \in Collecting => s \in busy
  /\ Open /\ j.st = "recording" =>
       /\ pc[s] \in {"idle", "sample"} => j.seen[s] = "none"
       /\ pc[s] \in {"put", "stored", "media"} => j.seen[s] = "approved"
       /\ j.seen[s] # "none" /\ pc[s] \notin Collecting =>
            \/ j.seen[s] = "approved" /\ s \in j.media
            \/ s \in j.gaps
            \/ s \in told

\* A barrier that is not cut short found no collection in flight.
MarkPhase(t) ==
  /\ pc[t] = "mark" /\ t \notin cut => barred /\ busy = {}
  /\ pc[t] = "bar" => t \in cut

\* The inductive invariant of the journal.
Callers == Inputs \cup Samples \cup Stops

JournalPhases ==
  /\ BeginPhase
  /\ BarrierFixed
  /\ \A t \in Threads : t # "begin" => FreezePhase(t)
  /\ \A i \in Inputs : InputPhase(i) /\ ToldPhase(i)
  /\ \A s \in Samples : SamplePhase(s)
  /\ \A t \in Callers : MarkPhase(t)

JournalInv == TypeOK /\ JournalPhases

-----------------------------------------------------------------------------
(* Types.                                                                  *)

\* What the kinds of calls have in common.
LEMMA CallKinds ==
  ASSUME call \in Calls
  PROVE  /\ call.op \in PutOps => call.of \in Attempts /\ call.ok \in BOOLEAN
         /\ call.op \in {"forget", "rest"} => call.of \in Digests
         /\ call.op \in PutOps =>
              /\ \A op \in PutOps : [call EXCEPT !.op = op] \in Calls
              /\ [call EXCEPT !.op = "abort", !.ok = FALSE] \in Calls
         /\ Idle \in Calls
         /\ call.op \notin PutOps \cup {"forget", "rest"} => call = Idle
<1>1. CASE call = Idle
  BY <1>1 DEF Idle, Calls, PutOps
<1>2. CASE call \in [op : PutOps, of : Attempts, ok : BOOLEAN]
  <2>1. \A op \in PutOps : [call EXCEPT !.op = op] \in [op : PutOps, of : Attempts, ok : BOOLEAN]
    BY <1>2
  <2>2. [call EXCEPT !.op = "abort", !.ok = FALSE] \in [op : PutOps, of : Attempts, ok : BOOLEAN]
    BY <1>2 DEF PutOps
  <2>3. call.op \notin {"forget", "rest"}
    BY <1>2 DEF PutOps
  <2> QED BY <1>2, <2>1, <2>2, <2>3 DEF Calls
<1>3. CASE call \in [op : {"forget", "rest"}, of : Digests, ok : BOOLEAN]
  BY <1>3 DEF Calls, PutOps
<1> QED BY <1>1, <1>2, <1>3 DEF Calls

LEMMA FaultTypes ==
  ASSUME faults \in 0 .. MaxFaults, NEW kind, Fault(kind) \/ NoFault
  PROVE  faults' \in 0 .. MaxFaults
BY StoreAssumption DEF Fault, NoFault

\* The steps of the method that holds the lock of the store keep its types.
LEMMA StorePutTypes ==
  ASSUME StoreTypeOK, StorePut
  PROVE  StoreTypeOK'
<1> USE StoreAssumption DEF StoreTypeOK
<1>0. /\ call.op \in PutOps => call.of \in Attempts /\ call.ok \in BOOLEAN
      /\ call.op \in PutOps =>
           /\ \A op \in PutOps : [call EXCEPT !.op = op] \in Calls
           /\ [call EXCEPT !.op = "abort", !.ok = FALSE] \in Calls
      /\ Idle \in Calls
  BY CallKinds
<1>1. CASE PutRow
  BY <1>0, <1>1 DEF PutRow, At, Goto, PutOps
<1>2. CASE BeginFails
  <2>1. faults' \in 0 .. MaxFaults
    BY <1>2, FaultTypes DEF BeginFails
  <2>2. call.of \in Attempts
    BY <1>0, <1>2 DEF BeginFails, At, PutOps
  <2> QED BY <1>0, <1>2, <2>1, <2>2 DEF BeginFails, Answer, Released
<1>3. CASE PutInstall
  BY <1>0, <1>3 DEF PutInstall, At, Goto, PutOps
<1>4. CASE PutCommit
  <2>1. /\ call.of \in Attempts
        /\ [call EXCEPT !.op = "free"] \in Calls
        /\ [call EXCEPT !.op = "charge"] \in Calls
    BY <1>0, <1>4 DEF PutCommit, At, PutOps
  <2>2. call' \in Calls
    BY <1>4, <2>1 DEF PutCommit, Goto
  <2>3. obj' \in [Digests -> [st : {"none", "published", "tombstoned"},
                              res : ResIds \cup {"none"}]]
    BY <1>4, <2>1 DEF PutCommit
  <2> QED BY <1>4, <2>1, <2>2, <2>3 DEF PutCommit
<1>5. CASE PutCharge
  BY <1>0, <1>5 DEF PutCharge, At, PutOps, Answer, Committed
<1>6. CASE PutStuck
  BY <1>0, <1>6, FaultTypes DEF PutStuck, At, PutOps, Answer
<1>7. CASE PutGiveUp
  <2>1. faults' \in 0 .. MaxFaults
    BY <1>7, FaultTypes DEF PutGiveUp
  <2> QED BY <1>0, <1>7, <2>1 DEF PutGiveUp, At, PutOps
<1>8. CASE PutAbort
  <2>1. faults' \in 0 .. MaxFaults
    BY <1>8, FaultTypes DEF PutAbort, Removal
  <2>2. call' \in Calls /\ call.of \in Attempts
    BY <1>0, <1>8 DEF PutAbort, At, PutOps, Goto, Answer
  <2> QED BY <1>8, <2>1, <2>2 DEF PutAbort, Answer
<1>9. CASE PutDrop
  BY <1>0, <1>9 DEF PutDrop, At, Goto, PutOps
<1>10. CASE PutFree
  BY <1>0, <1>10 DEF PutFree, At, PutOps, Answer, Released
<1> QED BY <1>1, <1>2, <1>3, <1>4, <1>5, <1>6, <1>7, <1>8, <1>9, <1>10 DEF StorePut

LEMMA PutBeginTypes ==
  ASSUME StoreTypeOK, NEW a \in Attempts, PutBegin(a)
  PROVE  StoreTypeOK'
<1>1. faults' \in 0 .. MaxFaults
  BY FaultTypes DEF StoreTypeOK, PutBegin, Refused
<1>2. call' = Idle \/ call' = [op |-> "row", of |-> a, ok |-> TRUE]
  BY DEF PutBegin, Answer
<1>3. call' \in Calls
  <2>1. [op |-> "row", of |-> a, ok |-> TRUE] \in [op : PutOps, of : Attempts, ok : BOOLEAN]
    BY DEF PutOps
  <2> QED BY <1>2, <2>1 DEF Calls
<1>4. res' \in [ResIds -> {"none", "active", "committed"}]
  BY StoreAssumption DEF StoreTypeOK, PutBegin, Reserved
<1> QED BY <1>1, <1>3, <1>4 DEF StoreTypeOK, PutBegin, Answer

LEMMA TombstoneTypes ==
  ASSUME StoreTypeOK, StoreTombstone
  PROVE  StoreTypeOK'
<1>1. ASSUME NEW d \in Digests, Tombstone(d)
      PROVE  StoreTypeOK'
  <2>1. faults' \in 0 .. MaxFaults
    BY <1>1, FaultTypes DEF StoreTypeOK, Tombstone, Removal
  <2>2. call' \in Calls
    <3>1. \/ call' = [op |-> "rest", of |-> d, ok |-> FALSE]
          \/ call' = [op |-> "forget", of |-> d, ok |-> TRUE]
          \/ call' = [op |-> "rest", of |-> d, ok |-> TRUE]
      BY <1>1 DEF Tombstone
    <3>2. /\ [op |-> "rest", of |-> d, ok |-> FALSE] \in [op : {"forget", "rest"}, of : Digests, ok : BOOLEAN]
          /\ [op |-> "rest", of |-> d, ok |-> TRUE] \in [op : {"forget", "rest"}, of : Digests, ok : BOOLEAN]
          /\ [op |-> "forget", of |-> d, ok |-> TRUE] \in [op : {"forget", "rest"}, of : Digests, ok : BOOLEAN]
      OBVIOUS
    <3> QED BY <3>1, <3>2 DEF Calls
  <2>3. obj' \in [Digests -> [st : {"none", "published", "tombstoned"},
                              res : ResIds \cup {"none"}]]
    BY <1>1 DEF StoreTypeOK, Tombstone
  <2> QED BY <1>1, <2>1, <2>2, <2>3 DEF StoreTypeOK, Tombstone
<1>2. CASE TombForget
  <2>1. faults' \in 0 .. MaxFaults
    BY <1>2, FaultTypes DEF StoreTypeOK, TombForget, Removal
  <2>2. call' \in Calls
    BY <1>2, CallKinds DEF StoreTypeOK, TombForget
  <2>3. obj' \in [Digests -> [st : {"none", "published", "tombstoned"},
                              res : ResIds \cup {"none"}]]
    BY <1>2 DEF StoreTypeOK, TombForget, NoObject
  <2>4. res' \in [ResIds -> {"none", "active", "committed"}]
    BY <1>2 DEF StoreTypeOK, TombForget, Released
  <2> QED BY <1>2, <2>1, <2>2, <2>3, <2>4 DEF StoreTypeOK, TombForget
<1> QED BY <1>1, <1>2 DEF StoreTombstone

-----------------------------------------------------------------------------
(* Steps of the journal.                                                   *)

\* The recording's part of TypeOK.
JournalTypes ==
  /\ j \in JournalRows
  /\ dev \in [Inputs -> {"none", "injected", "rejected"}]
  /\ told \subseteq Inputs \cup Samples
  /\ alive \in {"up", "down", "boot", "failed"}
  /\ pc \in [Threads -> Steps \cup Finals]
  /\ cut \subseteq Threads /\ barred \in BOOLEAN /\ busy \subseteq Samples
  /\ hold \in Threads \cup {NoThread}
  /\ left \subseteq Attempts

LEMMA TypeParts ==
  /\ TypeOK <=> StoreTypeOK /\ JournalTypes
  /\ TypeOK' <=> StoreTypeOK' /\ JournalTypes'
BY DEF TypeOK, JournalTypes

\* The threads have names of their own.
LEMMA ThreadNames ==
  /\ \A t \in Callers : t \in Threads /\ t # "begin" /\ t # "boot"
  /\ \A i \in Inputs : i \in Callers /\ i \notin Samples /\ i \notin Stops
  /\ \A s \in Samples : s \in Callers /\ s \notin Inputs /\ s \notin Stops
  /\ \A t \in Stops : t \in Callers /\ t \notin Inputs /\ t \notin Samples
  /\ "boot" \in Threads /\ "begin" \in Threads
BY NamesAssumption DEF Threads, Callers

LEMMA FinalNames == \A a \in Finals : a \notin Steps /\ a \in Attempts /\ a \notin Samples
BY NamesAssumption, RecordingAssumption

\* Steps of the store, and steps that change neither the journal nor a thread.
LEMMA QuietStep ==
  ASSUME JournalInv, UNCHANGED <<j, dev, told, alive, pc, cut, barred, busy>>
  PROVE  JournalPhases'
BY DEF JournalInv, JournalPhases, BeginPhase, BarrierFixed, FreezePhase, InputPhase, ToldPhase,
       SamplePhase, MarkPhase, Expired, Open, Callers, Threads

\* The steps a thread may take next while it freezes.
Freezes == {"freeze", "seal", "unpin", "load", "fail"} \cup Finals

\* The boot goes to its next step without changing the journal.
LEMMA BootMoves ==
  ASSUME JournalInv, NEW x, To("boot", x),
         UNCHANGED <<j, dev, told, cut, barred, busy>>,
         pc["begin"] = "gone",
         x \in {"final", "files", "rows", "charges", "freeze", "seal"} \cup Finals => j.st \in Late,
         x \in {"unpin", "load"} => j.st \in Frozen
  PROVE  JournalPhases'
<1>0. /\ JournalPhases /\ pc \in [Threads -> Steps \cup Finals]
      /\ "boot" \in Threads /\ "begin" \in Threads
  BY ThreadNames DEF JournalInv, TypeOK
<1>1. pc' = [pc EXCEPT !["boot"] = x]
  BY DEF To
<1>2. \A t \in Callers : pc'[t] = pc[t] /\ t \in Threads
  BY <1>0, <1>1, ThreadNames
<1>3. BeginPhase'
  BY <1>0, <1>1 DEF JournalPhases, BeginPhase
<1>4. BarrierFixed'
  BY <1>0 DEF JournalPhases, BarrierFixed, Expired
<1>5. \A t \in Threads : t # "begin" => FreezePhase(t)'
  BY <1>0, <1>1 DEF JournalPhases, FreezePhase
<1>6. \A i \in Inputs : InputPhase(i)' /\ ToldPhase(i)'
  BY <1>0, <1>2, ThreadNames DEF JournalPhases, InputPhase, ToldPhase, Expired
<1>7. \A s \in Samples : SamplePhase(s)'
  <2>1. ~Open'
    BY <1>0, <1>1 DEF Open
  <2> QED BY <1>0, <1>2, <2>1, ThreadNames DEF JournalPhases, SamplePhase
<1>8. \A t \in Callers : MarkPhase(t)'
  BY <1>0, <1>2 DEF JournalPhases, MarkPhase
<1> QED BY <1>3, <1>4, <1>5, <1>6, <1>7, <1>8 DEF JournalPhases, Callers

\* A caller that freezes goes to its next step without changing the journal.
LEMMA CallerFreezes ==
  ASSUME JournalInv, NEW t \in Callers, NEW x, To(t, x),
         UNCHANGED <<j, dev, told, alive, cut, barred, busy>>,
         pc["begin"] \in {"open", "gone"},
         pc[t] \in Freezes, x \in Freezes \cup {"end", "done"},
         x \in {"freeze", "seal"} \cup Finals => j.st \in Late,
         x \in {"unpin", "load"} => j.st \in Frozen
  PROVE  JournalPhases'
<1>0. /\ JournalPhases /\ pc \in [Threads -> Steps \cup Finals]
      /\ t \in Threads /\ "begin" \in Threads /\ t # "begin"
  BY ThreadNames DEF JournalInv, TypeOK
<1>1. pc' = [pc EXCEPT ![t] = x]
  BY DEF To
<1>2. /\ pc[t] \notin Collecting \cup {"idle", "admitted", "dispatched", "receipt", "done", "bar", "mark"}
      /\ x \notin Collecting \cup {"idle", "admitted", "dispatched", "receipt", "bar", "mark"}
  BY FinalNames DEF Freezes, Collecting, Steps
<1>3. BeginPhase'
  BY <1>0, <1>1 DEF JournalPhases, BeginPhase
<1>4. BarrierFixed'
  BY <1>0 DEF JournalPhases, BarrierFixed, Expired
<1>5. \A u \in Threads : u # "begin" => FreezePhase(u)'
  BY <1>0, <1>1, FinalNames DEF JournalPhases, FreezePhase, Freezes, Steps
<1>6. \A i \in Inputs : InputPhase(i)' /\ ToldPhase(i)'
  BY <1>0, <1>1, <1>2, ThreadNames DEF JournalPhases, InputPhase, ToldPhase, Expired
<1>7. \A s \in Samples : SamplePhase(s)'
  BY <1>0, <1>1, <1>2, ThreadNames DEF JournalPhases, SamplePhase, Open, Collecting
<1>8. \A u \in Callers : MarkPhase(u)'
  BY <1>0, <1>1, <1>2, ThreadNames DEF JournalPhases, MarkPhase
<1> QED BY <1>3, <1>4, <1>5, <1>6, <1>7, <1>8 DEF JournalPhases, Callers

\* begin_recording.
LEMMA BeginSteps ==
  ASSUME JournalInv, Beginning
  PROVE  TypeOK' /\ JournalPhases'
<1>0. /\ JournalPhases /\ JournalTypes /\ StoreTypeOK
      /\ "begin" \in Threads
  BY ThreadNames, TypeParts DEF JournalInv
<1>1. \E x \in {"final", "identity", "refused", "prepared", "open"} : pc' = [pc EXCEPT !["begin"] = x]
  BY DEF Beginning, BeginReserve, BeginFinal, BeginIdentity, BeginPrepared, To
<1>2. pc' \in [Threads -> Steps \cup Finals]
  BY <1>0, <1>1 DEF JournalTypes, Steps
<1>3. /\ pc["begin"] \notin {"open", "gone"}
      /\ UNCHANGED <<dev, told, alive, cut, barred, busy, hold, left>>
      /\ UNCHANGED <<rows, obj, tomb, pins, parts, files, call, out>>
  BY DEF Beginning, BeginReserve, BeginFinal, BeginIdentity, BeginPrepared, storeVars
<1>4. \A t \in Threads : t # "begin" => pc[t] = "idle" /\ pc'[t] = "idle"
  BY <1>0, <1>1, <1>3 DEF JournalPhases, BeginPhase, JournalTypes
<1>5. \A t \in Callers : t \in Threads /\ pc[t] = "idle" /\ pc'[t] = "idle"
  BY <1>4, ThreadNames
<1>6. /\ j \in {NoRow, [NoRow EXCEPT !.st = "preparing"]}
      /\ j' \in {NoRow, [NoRow EXCEPT !.st = "preparing"], [NoRow EXCEPT !.st = "recording"]}
      /\ BeginPhase'
  <2>1. CASE BeginReserve
    BY <1>0, <1>3, <1>4, <2>1 DEF BeginReserve, JournalPhases, BeginPhase, JournalTypes, To
  <2>2. CASE BeginFinal
    BY <1>0, <1>3, <1>4, <2>2 DEF BeginFinal, JournalPhases, BeginPhase, JournalTypes, To
  <2>3. CASE BeginIdentity
    BY <1>0, <1>3, <1>4, <2>3 DEF BeginIdentity, JournalPhases, BeginPhase, JournalTypes, To, NoRow
  <2>4. CASE BeginPrepared
    BY <1>0, <1>3, <1>4, <2>4 DEF BeginPrepared, JournalPhases, BeginPhase, JournalTypes, To, NoRow
  <2> QED BY <2>1, <2>2, <2>3, <2>4 DEF Beginning
<1>7. /\ j.st \notin Late /\ j'.st \notin Late /\ ~j'.kept
      /\ \A i \in Inputs : j'.ev[i] = "none"
      /\ \A s \in Samples : j'.seen[s] = "none"
      /\ j' \in JournalRows
  <2>1. NoRow \in JournalRows
    BY DEF NoRow, JournalRows, NoBarrier
  <2>2. j' \in JournalRows
    BY <1>6, <2>1 DEF JournalRows
  <2>3. /\ j.st \notin Late /\ j'.st \notin Late /\ ~j'.kept
        /\ j'.ev = NoRow.ev /\ j'.seen = NoRow.seen
    BY <1>6 DEF NoRow, Late, Frozen
  <2> QED BY <2>2, <2>3 DEF NoRow
<1>8. StoreTypeOK'
  <2>1. faults' \in 0 .. MaxFaults
    BY <1>0, FaultTypes
       DEF StoreTypeOK, Beginning, BeginReserve, BeginFinal, BeginIdentity, BeginPrepared, Refused, storeVars, NoFault
  <2>2. res' \in [ResIds -> {"none", "active", "committed"}]
    BY <1>0, RecordingAssumption
       DEF StoreTypeOK, Beginning, BeginReserve, BeginFinal, BeginIdentity, BeginPrepared,
           Reserved, Released, storeVars
  <2> QED BY <1>0, <1>3, <2>1, <2>2 DEF StoreTypeOK
<1>9. JournalTypes'
  BY <1>0, <1>2, <1>3, <1>7 DEF JournalTypes
<1>10. BarrierFixed'
  BY <1>7 DEF BarrierFixed, Late, Expired, Frozen
<1>11. \A t \in Threads : t # "begin" => FreezePhase(t)'
  BY <1>4, FinalNames DEF FreezePhase, Steps
<1>12. \A i \in Inputs : InputPhase(i)' /\ ToldPhase(i)'
  BY <1>0, <1>3, <1>5, <1>7, ThreadNames DEF JournalPhases, InputPhase, ToldPhase
<1>13. \A s \in Samples : SamplePhase(s)'
  BY <1>5, <1>7, ThreadNames DEF SamplePhase, Collecting
<1>14. \A t \in Callers : MarkPhase(t)'
  BY <1>5 DEF MarkPhase
<1> QED BY <1>6, <1>8, <1>9, <1>10, <1>11, <1>12, <1>13, <1>14, TypeParts
        DEF JournalPhases, Callers, TypeOK, JournalTypes

\* Steps that leave the store alone.
LEMMA StoreKept ==
  ASSUME StoreTypeOK, UNCHANGED storeVars
  PROVE  StoreTypeOK'
BY DEF StoreTypeOK, storeVars

\* admit_input, mark_dispatched, the provider, record_receipt.
LEMMA InputSteps ==
  ASSUME JournalInv, NEW i \in Inputs, Input(i)
  PROVE  TypeOK' /\ JournalPhases'
<1>0. /\ JournalPhases /\ JournalTypes /\ StoreTypeOK
      /\ i \in Threads /\ i \in Callers /\ i # "begin" /\ i \notin Samples /\ i \notin Stops
      /\ "begin" \in Threads
  BY ThreadNames, TypeParts DEF JournalInv
<1>1. /\ Open /\ pc["begin"] = "open"
      /\ UNCHANGED <<storeVars, alive, barred, busy, hold, left>>
      /\ \E x \in {"admitted", "bar", "dispatched", "receipt", "done"} : pc' = [pc EXCEPT ![i] = x]
  BY DEF Input, AdmitInput, MarkDispatched, Execute, RecordReceipt, Starts, Open, To
<1>2. j.st \in {"recording"} \cup Late
  BY <1>0, <1>1 DEF JournalPhases, BeginPhase, JournalTypes, JournalRows, Late
<1>3. pc' \in [Threads -> Steps \cup Finals]
  BY <1>0, <1>1 DEF JournalTypes, Steps
<1>4. \A t \in Threads : t # i => pc'[t] = pc[t]
  BY <1>0, <1>1 DEF JournalTypes
<1>5. BeginPhase' <=> j'.st \notin {"none", "preparing"}
  BY <1>0, <1>1, <1>4 DEF JournalPhases, BeginPhase
<1>6. j' \in JournalRows /\ dev' \in [Inputs -> {"none", "injected", "rejected"}]
      /\ told' \subseteq Inputs \cup Samples /\ told \subseteq told' /\ cut' \subseteq Threads
      /\ j'.st = j.st /\ j'.kept = j.kept /\ j'.bar = j.bar /\ j'.seen = j.seen
      /\ j'.media = j.media /\ j'.gaps = j.gaps
  <2>1. CASE AdmitInput(i)
    BY <1>0, <2>1 DEF AdmitInput, JournalTypes, JournalRows
  <2>2. CASE MarkDispatched(i)
    BY <1>0, <2>2 DEF MarkDispatched, JournalTypes, JournalRows
  <2>3. CASE Execute(i)
    BY <1>0, <2>3, RecordingAssumption DEF Execute, JournalTypes
  <2>4. CASE RecordReceipt(i)
    <3>1. CASE j.ev[i] = "none"
      BY <1>0, <2>4, <3>1 DEF RecordReceipt, JournalTypes
    <3>2. CASE j.ev[i] # "none" /\ j.st = "recording"
      <4>1. j' = [j EXCEPT !.ev[i] = dev[i]]
        BY <2>4, <3>2 DEF RecordReceipt, Receipt, Frozen
      <4> QED BY <1>0, <2>4, <3>2, <4>1 DEF RecordReceipt, JournalTypes, JournalRows
    <3>3. CASE j.ev[i] # "none" /\ j.st = "finalizing"
      <4>1. j' = [j EXCEPT !.pend = @ \cup {i}]
        BY <2>4, <3>3 DEF RecordReceipt, Receipt, Frozen
      <4> QED BY <1>0, <2>4, <3>3, <4>1 DEF RecordReceipt, JournalTypes, JournalRows
    <3>4. CASE j.ev[i] # "none" /\ j.st \in Frozen
      <4>1. j' = [j EXCEPT !.life = @ \cup {i}]
        BY <2>4, <3>4 DEF RecordReceipt, Receipt, Frozen
      <4> QED BY <1>0, <2>4, <3>4, <4>1 DEF RecordReceipt, JournalTypes, JournalRows
    <3> QED BY <1>2, <3>1, <3>2, <3>3, <3>4 DEF Late
  <2> QED BY <2>1, <2>2, <2>3, <2>4 DEF Input
<1>7. TypeOK'
  <2>1. StoreTypeOK'
    BY <1>0, <1>1, StoreKept
  <2>2. JournalTypes'
    BY <1>0, <1>1, <1>3, <1>6 DEF JournalTypes
  <2> QED BY <2>1, <2>2, TypeParts
<1>8. BeginPhase'
  BY <1>2, <1>5, <1>6 DEF Late, Frozen
<1>9. \A t \in Threads : t # "begin" => FreezePhase(t)'
  BY <1>0, <1>1, <1>4, <1>6, FinalNames DEF JournalPhases, FreezePhase, Steps, JournalTypes
<1>10. \A s \in Samples : SamplePhase(s)'
  BY <1>0, <1>1, <1>4, <1>6, ThreadNames DEF JournalPhases, SamplePhase, Open
<1>11. \A t \in Callers : MarkPhase(t)'
  <2>1. /\ pc'[i] # "mark" /\ (pc'[i] = "bar" => i \in cut')
        /\ cut \subseteq cut'
    BY <1>0 DEF Input, AdmitInput, MarkDispatched, Execute, RecordReceipt, To, JournalTypes
  <2> QED BY <1>0, <1>1, <1>4, <2>1, ThreadNames DEF JournalPhases, MarkPhase
<1>12. /\ \A k \in Inputs : k # i => j'.ev[k] = j.ev[k] /\ dev'[k] = dev[k] /\ (k \in told' <=> k \in told)
       /\ j.pend \subseteq j'.pend /\ j.life \subseteq j'.life
       /\ j.st \in Late => j'.ev = j.ev
  <2>1. CASE AdmitInput(i)
    BY <1>0, <2>1 DEF AdmitInput, JournalTypes, JournalRows, Admits, Late, Frozen
  <2>2. CASE MarkDispatched(i)
    BY <1>0, <2>2 DEF MarkDispatched, JournalTypes, JournalRows, Admits, Late, Frozen
  <2>3. CASE Execute(i)
    BY <1>0, <2>3 DEF Execute, JournalTypes
  <2>4. CASE RecordReceipt(i)
    BY <1>0, <1>2, <2>4 DEF RecordReceipt, Receipt, JournalTypes, JournalRows, Late, Frozen
  <2> QED BY <2>1, <2>2, <2>3, <2>4 DEF Input
<1>13. \A k \in Inputs : k # i => InputPhase(k)' /\ ToldPhase(k)'
  BY <1>0, <1>4, <1>6, <1>12, ThreadNames DEF JournalPhases, InputPhase, ToldPhase, Expired
<1>14. InputPhase(i)' /\ ToldPhase(i)'
  <2>0. InputPhase(i) /\ ToldPhase(i)
    BY <1>0 DEF JournalPhases
  <2>1. CASE AdmitInput(i)
    BY <1>0, <2>0, <2>1 DEF AdmitInput, Starts, Admits, To, InputPhase, ToldPhase, Expired, JournalTypes, JournalRows, Frozen
  <2>2. CASE MarkDispatched(i)
    BY <1>0, <2>0, <2>2 DEF MarkDispatched, Admits, To, InputPhase, ToldPhase, Expired, JournalTypes, JournalRows, Frozen
  <2>3. CASE Execute(i)
    BY <1>0, <2>0, <2>3, RecordingAssumption DEF Execute, To, InputPhase, ToldPhase, Expired, JournalTypes, JournalRows, Frozen
  <2>4. CASE RecordReceipt(i)
    <3>1. /\ pc[i] = "receipt" /\ pc'[i] = "done" /\ dev' = dev
          /\ dev[i] \in {"injected", "rejected"}
      BY <1>0, <2>0, <2>4 DEF RecordReceipt, To, JournalTypes, InputPhase
    <3>2. i \in told' => j'.ev[i] = dev[i] \/ i \in j'.pend \cup j'.life
      BY <1>0, <1>2, <2>0, <2>4, <3>1 DEF RecordReceipt, Receipt, JournalTypes, JournalRows, Late, Frozen, ToldPhase
    <3>3. j'.ev[i] \in {j.ev[i], dev[i]} /\ (j.ev[i] = "none" => j'.ev[i] = "none")
      BY <1>0, <1>2, <2>4 DEF RecordReceipt, Receipt, JournalTypes, JournalRows, Late, Frozen
    <3> QED BY <2>0, <1>6, <3>1, <3>2, <3>3 DEF InputPhase, ToldPhase, Expired
  <2> QED BY <2>1, <2>2, <2>3, <2>4 DEF Input
<1>15. BarrierFixed'
  <2>1. BarrierFixed
    BY <1>0 DEF JournalPhases
  <2>2. j.st \in Late => j'.ev = j.ev
    BY <1>12
  <2> QED BY <1>6, <2>1, <2>2 DEF BarrierFixed, Expired, Late, Frozen
<1> QED BY <1>7, <1>8, <1>9, <1>10, <1>11, <1>13, <1>14, <1>15 DEF JournalPhases, Callers

\* record_frame and record_observation.
LEMMA SampleSteps ==
  ASSUME JournalInv, NEW s \in Samples, Sample(s)
  PROVE  TypeOK' /\ JournalPhases'
<1>0. /\ JournalPhases /\ JournalTypes /\ StoreTypeOK
      /\ s \in Threads /\ s \in Callers /\ s # "begin" /\ s \notin Inputs /\ s \notin Stops
      /\ s \in Attempts /\ "begin" \in Threads
  BY ThreadNames, TypeParts, RecordingAssumption DEF JournalInv
<1>1. /\ Open /\ pc["begin"] = "open"
      /\ UNCHANGED <<dev, alive, barred, hold, left>>
      /\ told' = told \/ told' = told \cup {s}
      /\ \E x \in {"done", "sample", "end", "put", "gap", "stored", "media", "bar"} :
           pc' = [pc EXCEPT ![s] = x]
  BY DEF Sample, BeginCollection, AuthorizeSample, StampFails, SampleLate, StoreSample, SampleStored,
         SampleMedia, SampleFails, GiveUp, Gap, EndCollection, Starts, Open, To
<1>2. pc' \in [Threads -> Steps \cup Finals]
  BY <1>0, <1>1 DEF JournalTypes, Steps
<1>3. \A t \in Threads : t # s => pc'[t] = pc[t]
  BY <1>0, <1>1 DEF JournalTypes
<1>4. /\ j' \in JournalRows
      /\ j'.st = j.st /\ j'.kept = j.kept /\ j'.bar = j.bar /\ j'.ev = j.ev
      /\ j'.pend = j.pend /\ j'.life = j.life
      /\ j.media \subseteq j'.media /\ j.gaps \subseteq j'.gaps
      /\ \A o \in Samples : o # s => j'.seen[o] = j.seen[o]
      /\ j.st \in Late => j'.seen = j.seen
  <2>1. CASE AuthorizeSample(s)
    BY <1>0, <2>1 DEF AuthorizeSample, JournalTypes, JournalRows, Late, Frozen
  <2>2. CASE SampleMedia(s)
    BY <1>0, <2>2 DEF SampleMedia, JournalTypes, JournalRows
  <2>3. CASE Gap(s)
    BY <1>0, <2>3 DEF Gap, JournalTypes, JournalRows
  <2>4. CASE \/ BeginCollection(s) \/ StampFails(s) \/ SampleLate(s) \/ StoreSample(s)
             \/ SampleStored(s) \/ SampleFails(s) \/ EndCollection(s)
    BY <1>0, <2>4 DEF BeginCollection, StampFails, SampleLate, StoreSample, SampleStored, SampleFails,
                      EndCollection, JournalTypes
  <2> QED BY <2>1, <2>2, <2>3, <2>4 DEF Sample
<1>5. /\ \A t \in cut : t # s => t \in cut'
      /\ cut' \subseteq Threads /\ busy' \subseteq Samples
      /\ pc'[s] \in Collecting => s \in busy'
      /\ \A o \in Samples : o # s => (o \in busy' <=> o \in busy)
      /\ barred /\ busy = {} => busy' = {}
      /\ pc'[s] = "bar" => s \in cut'
  <2>0. SamplePhase(s)
    BY <1>0 DEF JournalPhases
  <2>1. CASE BeginCollection(s)
    BY <1>0, <2>1 DEF BeginCollection, To, JournalTypes, Collecting
  <2>2. CASE AuthorizeSample(s)
    BY <1>0, <2>0, <2>2 DEF AuthorizeSample, To, JournalTypes, Collecting, SamplePhase
  <2>3. CASE StampFails(s)
    BY <1>0, <2>0, <2>3 DEF StampFails, To, JournalTypes, Collecting, SamplePhase
  <2>4. CASE StoreSample(s)
    BY <1>0, <2>0, <2>4 DEF StoreSample, To, JournalTypes, Collecting, SamplePhase
  <2>5. CASE SampleStored(s)
    BY <1>0, <2>0, <2>5 DEF SampleStored, To, JournalTypes, Collecting, SamplePhase
  <2>6. CASE SampleMedia(s)
    BY <1>0, <2>0, <2>6 DEF SampleMedia, To, JournalTypes, Collecting, SamplePhase
  <2>7. CASE Gap(s)
    BY <1>0, <2>0, <2>7 DEF Gap, To, JournalTypes, Collecting, SamplePhase
  <2>8. CASE EndCollection(s)
    BY <1>0, <2>0, <2>8 DEF EndCollection, To, JournalTypes, Collecting, SamplePhase
  <2>9. CASE SampleLate(s)
    BY <1>0, <2>0, <2>9 DEF SampleLate, GiveUp, To, JournalTypes, Collecting, SamplePhase
  <2>10. CASE SampleFails(s)
    BY <1>0, <2>0, <2>10 DEF SampleFails, GiveUp, To, JournalTypes, Collecting, SamplePhase
  <2> QED BY <2>1, <2>2, <2>3, <2>4, <2>5, <2>6, <2>7, <2>8, <2>9, <2>10 DEF Sample
<1>6. StoreTypeOK'
  <2>1. CASE StampFails(s)
    BY <1>0, <2>1, FaultTypes DEF StampFails, StoreTypeOK
  <2>2. CASE StoreSample(s)
    BY <1>0, <2>2, PutBeginTypes DEF StoreSample
  <2>3. CASE SampleStored(s)
    <3>1. pins' \subseteq Digests
      BY <1>0, <2>3, StoreAssumption DEF SampleStored, Pin, StoreTypeOK
    <3>2. out' \in [Attempts -> {"none", "ok", "no"}]
      BY <1>0, <2>3 DEF SampleStored, Taken, StoreTypeOK
    <3> QED BY <1>0, <2>3, <3>1, <3>2 DEF SampleStored, StoreTypeOK
  <2>4. CASE SampleMedia(s)
    <3>1. pins' \subseteq Digests
      BY <1>0, <2>4 DEF SampleMedia, Unpin, StoreTypeOK
    <3> QED BY <1>0, <2>4, <3>1 DEF SampleMedia, StoreTypeOK
  <2>5. CASE BeginCollection(s) \/ AuthorizeSample(s) \/ Gap(s) \/ EndCollection(s)
    BY <1>0, <2>5, StoreKept DEF BeginCollection, AuthorizeSample, Gap, EndCollection
  <2>6. CASE SampleLate(s)
    BY <1>0, <2>6, FaultTypes DEF SampleLate, StoreTypeOK
  <2>7. CASE SampleFails(s)
    <3>1. pins' \subseteq Digests
      BY <1>0, <2>7 DEF SampleFails, Unpin, StoreTypeOK
    <3>2. faults' \in 0 .. MaxFaults
      BY <1>0, <2>7, FaultTypes DEF SampleFails, StoreTypeOK
    <3> QED BY <1>0, <2>7, <3>1, <3>2 DEF SampleFails, StoreTypeOK
  <2> QED BY <2>1, <2>2, <2>3, <2>4, <2>5, <2>6, <2>7 DEF Sample
<1>7. TypeOK'
  <2>1. JournalTypes'
    BY <1>0, <1>1, <1>2, <1>4, <1>5 DEF JournalTypes
  <2> QED BY <1>6, <2>1, TypeParts
<1>8. BeginPhase'
  BY <1>0, <1>1, <1>3, <1>4 DEF JournalPhases, BeginPhase
<1>9. BarrierFixed'
  BY <1>0, <1>1, <1>4 DEF JournalPhases, BarrierFixed, Expired, Late
<1>10. \A t \in Threads : t # "begin" => FreezePhase(t)'
  BY <1>0, <1>1, <1>3, <1>4, FinalNames DEF JournalPhases, FreezePhase, Steps, JournalTypes
<1>11. \A i \in Inputs : InputPhase(i)' /\ ToldPhase(i)'
  BY <1>0, <1>1, <1>3, <1>4, ThreadNames DEF JournalPhases, InputPhase, ToldPhase, Expired
<1>12. \A t \in Callers : MarkPhase(t)'
  <2>1. pc'[s] # "mark"
    BY <1>0, <1>1 DEF JournalTypes
  <2> QED BY <1>0, <1>1, <1>3, <1>5, <2>1, ThreadNames DEF JournalPhases, MarkPhase
<1>13. \A o \in Samples : o # s => SamplePhase(o)'
  BY <1>0, <1>1, <1>3, <1>4, <1>5, ThreadNames DEF JournalPhases, SamplePhase, Open
<1>14. SamplePhase(s)'
  <2>0. SamplePhase(s)
    BY <1>0 DEF JournalPhases
  <2>1. CASE BeginCollection(s)
    BY <1>0, <1>5, <2>0, <2>1 DEF BeginCollection, Starts, To, JournalTypes, Collecting, SamplePhase, Open
  <2>2. CASE AuthorizeSample(s)
    <3>1. pc[s] = "sample" /\ s \in busy
      BY <2>0, <2>2 DEF AuthorizeSample, SamplePhase, Collecting
    <3>2. \/ /\ j' = j /\ pc'[s] = "end"
          \/ j'.seen[s] = "approved" /\ pc'[s] = "put"
          \/ j'.seen[s] = "suppressed" /\ pc'[s] = "gap"
      BY <1>0, <2>2 DEF AuthorizeSample, To, JournalTypes, JournalRows
    <3>3. Open /\ j.st = "recording" => j.seen[s] = "none"
      BY <2>0, <3>1 DEF SamplePhase
    <3> QED BY <1>1, <1>5, <3>1, <3>2, <3>3 DEF SamplePhase, Collecting
  <2>3. CASE StampFails(s)
    BY <1>0, <1>1, <1>5, <2>0, <2>3 DEF StampFails, To, JournalTypes, Collecting, SamplePhase
  <2>4. CASE StoreSample(s)
    BY <1>0, <1>1, <1>5, <2>0, <2>4 DEF StoreSample, To, JournalTypes, Collecting, SamplePhase
  <2>5. CASE SampleStored(s)
    BY <1>0, <1>1, <1>5, <2>0, <2>5 DEF SampleStored, To, JournalTypes, Collecting, SamplePhase
  <2>6. CASE SampleMedia(s)
    BY <1>0, <1>1, <1>5, <2>0, <2>6 DEF SampleMedia, To, JournalTypes, JournalRows, Collecting, SamplePhase
  <2>7. CASE Gap(s)
    BY <1>0, <1>1, <1>5, <2>0, <2>7 DEF Gap, To, JournalTypes, JournalRows, Collecting, SamplePhase
  <2>8. CASE EndCollection(s)
    BY <1>0, <1>1, <1>5, <2>0, <2>8 DEF EndCollection, To, JournalTypes, Collecting, SamplePhase, Open
  <2>9. CASE SampleLate(s) \/ SampleFails(s)
    <3>1. /\ j' = j /\ pc'[s] = "end"
          /\ j.st = "recording" => s \in told'
      BY <1>0, <2>9 DEF SampleLate, SampleFails, GiveUp, To, JournalTypes
    <3> QED BY <3>1 DEF SamplePhase, Collecting
  <2> QED BY <2>1, <2>2, <2>3, <2>4, <2>5, <2>6, <2>7, <2>8, <2>9 DEF Sample
<1> QED BY <1>7, <1>8, <1>9, <1>10, <1>11, <1>12, <1>13, <1>14 DEF JournalPhases, Callers

\* The row at the barrier.
LEMMA BarrierRow ==
  ASSUME j \in JournalRows, NEW reason \in BOOLEAN
  PROVE  /\ Barrier(reason) \in JournalRows
         /\ Barrier(reason).st = "finalizing"
         /\ Barrier(reason).ev = j.ev /\ Barrier(reason).seen = j.seen
         /\ Barrier(reason).media = j.media /\ Barrier(reason).gaps = j.gaps
         /\ Barrier(reason).pend = j.pend /\ Barrier(reason).life = j.life
         /\ Barrier(reason).kept = j.kept
         /\ Barrier(reason).bar = [ev |-> {i \in Inputs : j.ev[i] # "none"},
                                   media |-> j.media, gaps |-> j.gaps, cut |-> reason]
<1> DEFINE B == [ev |-> {i \in Inputs : j.ev[i] # "none"},
                 media |-> j.media, gaps |-> j.gaps, cut |-> reason]
<1>1. B \in [ev : SUBSET Inputs, media : SUBSET Samples, gaps : SUBSET Samples, cut : BOOLEAN]
  BY DEF JournalRows
<1>2. Barrier(reason) = [j EXCEPT !.st = "finalizing", !.bar = B]
  BY DEF Barrier
<1> HIDE DEF B
<1>3. Barrier(reason) \in JournalRows
  BY <1>1, <1>2 DEF JournalRows
<1>4. /\ Barrier(reason).st = "finalizing"
      /\ Barrier(reason).ev = j.ev /\ Barrier(reason).seen = j.seen
      /\ Barrier(reason).media = j.media /\ Barrier(reason).gaps = j.gaps
      /\ Barrier(reason).pend = j.pend /\ Barrier(reason).life = j.life
      /\ Barrier(reason).bar = B
  BY <1>2 DEF JournalRows
<1>5. Barrier(reason).kept = j.kept
  BY <1>2 DEF JournalRows
<1> QED BY <1>3, <1>4, <1>5 DEF B

\* stop_barrier.
LEMMA StopSteps ==
  ASSUME JournalInv, NEW t \in Callers, Stop(t)
  PROVE  TypeOK' /\ JournalPhases'
<1>0. /\ JournalPhases /\ JournalTypes /\ StoreTypeOK
      /\ t \in Threads /\ t # "begin" /\ "begin" \in Threads
      /\ BeginPhase /\ BarrierFixed /\ MarkPhase(t)
  BY ThreadNames, TypeParts DEF JournalInv, JournalPhases
<1>1. /\ Open /\ pc["begin"] = "open"
      /\ UNCHANGED <<storeVars, dev, told, alive, busy, left>>
      /\ pc[t] \in {"idle", "bar", "mark"} /\ pc'[t] \in {"mark", "freeze"}
      /\ pc[t] = "idle" => t \in Stops
      /\ pc' = [pc EXCEPT ![t] = pc'[t]]
  BY <1>0 DEF Stop, Bar, Mark, Open, Starts, To, JournalTypes
<1>2. pc' \in [Threads -> Steps \cup Finals]
  BY <1>0, <1>1 DEF JournalTypes, Steps
<1>3. \A u \in Threads : u # t => pc'[u] = pc[u]
  BY <1>0, <1>1 DEF JournalTypes
<1>4. \/ j' = j
      \/ Mark(t) /\ j.st = "recording" /\ j' = Barrier(t \in cut)
  BY DEF Stop, Bar, Mark
<1>5. /\ j' \in JournalRows /\ j'.kept = j.kept
      /\ j'.ev = j.ev /\ j'.seen = j.seen /\ j'.media = j.media /\ j'.gaps = j.gaps
      /\ j'.pend = j.pend /\ j'.life = j.life
      /\ j'.st = j.st \/ (j.st = "recording" /\ j'.st = "finalizing")
  <2>1. CASE j' = j
    BY <1>0, <2>1 DEF JournalTypes
  <2>2. CASE j' = Barrier(TRUE) /\ j.st = "recording"
    BY <1>0, <2>2, BarrierRow DEF JournalTypes
  <2>3. CASE j' = Barrier(FALSE) /\ j.st = "recording"
    BY <1>0, <2>3, BarrierRow DEF JournalTypes
  <2>4. j' = Barrier(t \in cut) => j' = Barrier(TRUE) \/ j' = Barrier(FALSE)
    <3>1. (t \in cut) = TRUE \/ (t \in cut) = FALSE
      OBVIOUS
    <3> QED BY <3>1
  <2> QED BY <1>4, <2>1, <2>2, <2>3, <2>4
<1>6. TypeOK'
  <2>1. cut' \subseteq Threads /\ barred' \in BOOLEAN /\ hold' \in Threads \cup {NoThread}
    BY <1>0 DEF Stop, Bar, Mark, JournalTypes
  <2>2. JournalTypes'
    BY <1>0, <1>1, <1>2, <1>5, <2>1 DEF JournalTypes
  <2>3. StoreTypeOK'
    BY <1>0, <1>1, StoreKept
  <2> QED BY <2>2, <2>3, TypeParts
<1>7. BeginPhase'
  BY <1>0, <1>1, <1>3, <1>5 DEF BeginPhase
<1>8. BarrierFixed'
  <2>1. CASE j' = j
    BY <1>0, <1>1, <2>1 DEF BarrierFixed, Expired
  <2>2. CASE Mark(t) /\ j.st = "recording" /\ j' = Barrier(t \in cut)
    <3>1. /\ j'.st = "finalizing"
          /\ \A i \in Inputs : i \in j'.bar.ev <=> j'.ev[i] # "none"
          /\ t \in cut => j'.bar.cut
          /\ j'.bar.media = j.media /\ j'.bar.gaps = j.gaps
      <4>1. CASE t \in cut /\ j' = Barrier(TRUE)
        <5>1. /\ j'.st = "finalizing" /\ j'.ev = j.ev
              /\ j'.bar = [ev |-> {i \in Inputs : j.ev[i] # "none"},
                           media |-> j.media, gaps |-> j.gaps, cut |-> TRUE]
          BY <1>0, <4>1, BarrierRow DEF JournalTypes
        <5>2. \A i \in Inputs : i \in j'.bar.ev <=> j'.ev[i] # "none"
          BY <5>1
        <5>3. j'.bar.media = j.media /\ j'.bar.gaps = j.gaps
          BY <5>1
        <5>4. t \in cut => j'.bar.cut
          <6>1. j'.bar.cut = TRUE
            BY <5>1
          <6> QED BY <6>1
        <5> QED BY <5>1, <5>2, <5>3, <5>4
      <4>2. CASE t \notin cut /\ j' = Barrier(FALSE)
        <5>1. /\ j'.st = "finalizing" /\ j'.ev = j.ev
              /\ j'.bar = [ev |-> {i \in Inputs : j.ev[i] # "none"},
                           media |-> j.media, gaps |-> j.gaps, cut |-> FALSE]
          BY <1>0, <4>2, BarrierRow DEF JournalTypes
        <5>2. \A i \in Inputs : i \in j'.bar.ev <=> j'.ev[i] # "none"
          BY <5>1
        <5>3. j'.bar.media = j.media /\ j'.bar.gaps = j.gaps
          BY <5>1
        <5>4. t \in cut => j'.bar.cut
          BY <4>2, <5>1
        <5> QED BY <5>1, <5>2, <5>3, <5>4
      <4>3. (t \in cut) = TRUE \/ (t \in cut) = FALSE
        OBVIOUS
      <4> QED BY <2>2, <4>1, <4>2, <4>3
    <3>2. ~j'.kept
      BY <1>0, <1>5, <2>2 DEF BarrierFixed, Frozen
    <3>3. ASSUME t \notin cut, j.gaps = {}, NEW s \in Samples, j.seen[s] # "none"
          PROVE  s \in told \/ (j.seen[s] = "approved" /\ s \in j.media)
      <4>1. busy = {} /\ SamplePhase(s)
        BY <1>0, <2>2, <3>3 DEF MarkPhase, Mark, JournalPhases
      <4> QED BY <1>1, <2>2, <3>3, <4>1 DEF SamplePhase
    <3> QED BY <1>1, <1>5, <3>1, <3>2, <3>3 DEF BarrierFixed, Expired, Late, Frozen
  <2> QED BY <1>4, <2>1, <2>2
<1>9. \A u \in Threads : u # "begin" => FreezePhase(u)'
  <2>1. FreezePhase(t)'
    <3>1. pc'[t] = "freeze" => j'.st \in Late
      <4>1. pc'[t] = "freeze" => Mark(t)
        BY <1>0 DEF Stop, Bar, To, JournalTypes
      <4> QED BY <1>0, <1>1, <4>1 DEF Mark, BeginPhase, JournalTypes, JournalRows, Barrier, Late
    <3> QED BY <1>1, <3>1, FinalNames DEF FreezePhase, Steps
  <2>2. \A u \in Threads : u # "begin" /\ u # t => FreezePhase(u)'
    BY <1>0, <1>3, <1>5 DEF JournalPhases, FreezePhase, Late, Frozen
  <2> QED BY <2>1, <2>2
<1>10. \A i \in Inputs : InputPhase(i)' /\ ToldPhase(i)'
  <2>1. Expired' <=> Expired
    BY <1>0, <1>5 DEF Expired, Frozen
  <2> QED BY <1>0, <1>1, <1>3, <1>5, <2>1, ThreadNames DEF JournalPhases, InputPhase, ToldPhase
<1>11. \A s \in Samples : SamplePhase(s)'
  BY <1>0, <1>1, <1>3, <1>5, ThreadNames DEF JournalPhases, SamplePhase, Open, Collecting
<1>12. \A u \in Callers : MarkPhase(u)'
  <2>1. CASE Bar(t)
    <3>1. barred' /\ cut \subseteq cut' /\ (t \notin cut' => busy = {}) /\ pc'[t] = "mark"
      BY <1>0, <2>1 DEF Bar, Cuts, To, JournalTypes
    <3> QED BY <1>0, <1>1, <1>3, <3>1, ThreadNames DEF JournalPhases, MarkPhase
  <2>2. CASE Mark(t)
    <3>1. cut' = cut \ {t} /\ barred' = barred /\ pc'[t] = "freeze"
      BY <1>0, <2>2 DEF Mark, To, JournalTypes
    <3> QED BY <1>0, <1>1, <1>3, <3>1, ThreadNames DEF JournalPhases, MarkPhase
  <2> QED BY <2>1, <2>2 DEF Stop
<1> QED BY <1>6, <1>7, <1>8, <1>9, <1>10, <1>11, <1>12 DEF JournalPhases, Callers

\* A thread that freezes, a caller or the boot, goes to its next step.
LEMMA FreezeMoves ==
  ASSUME JournalInv, NEW t \in Callers \cup {"boot"}, Running(t), NEW x, To(t, x),
         UNCHANGED <<j, dev, told, cut, barred, busy>>,
         t # "boot" => alive' = alive,
         pc[t] \in Freezes, x \in Freezes \cup {"end", "done"},
         x \in {"freeze", "seal"} \cup Finals => j.st \in Late,
         x \in {"unpin", "load"} => j.st \in Frozen
  PROVE  JournalPhases'
<1>1. CASE t = "boot"
  <2>1. pc["begin"] = "gone"
    BY <1>1 DEF Running, JournalInv, JournalPhases, BeginPhase
  <2>2. x \notin {"final", "files", "rows", "charges"}
    BY FinalNames DEF Freezes, Steps
  <2> QED BY <1>1, <2>1, <2>2, BootMoves
<1>2. CASE t # "boot"
  <2>1. Open /\ t \in Callers
    BY <1>2 DEF Running
  <2>2. pc["begin"] \in {"open", "gone"} /\ alive' = alive
    BY <1>2, <2>1 DEF Open
  <2> QED BY <2>1, <2>2, CallerFreezes
<1> QED BY <1>1, <1>2

\* The row of a freeze.
LEMMA SealedRow ==
  ASSUME j \in JournalRows, NEW recovery \in BOOLEAN
  PROVE  /\ Sealed(recovery) \in JournalRows
         /\ Sealed(recovery).st \in Frozen /\ Sealed(recovery).kept
         /\ Sealed(recovery).ev = j.ev /\ Sealed(recovery).seen = j.seen
         /\ Sealed(recovery).media = j.media /\ Sealed(recovery).gaps = j.gaps
         /\ Sealed(recovery).bar = j.bar
         /\ j.life \cup j.pend \subseteq Sealed(recovery).life
         /\ Sealed(recovery).st = "complete" =>
              /\ ~j.bar.cut /\ j.bar.gaps = {}
              /\ \A i \in j.bar.ev : j.ev[i] \notin {"admitted", "dispatched"}
<1> DEFINE L == j.life \cup {"stop"} \cup j.pend \cup (IF recovery THEN {"reconcile"} ELSE {})
           incomplete == recovery \/ j.bar.cut \/ j.bar.gaps # {} \/ Unknowns(j) # {}
           st == IF incomplete THEN "incomplete" ELSE "complete"
<1>1. Sealed(recovery) = [j EXCEPT !.st = st, !.kept = TRUE, !.life = L, !.pend = {}]
  BY DEF Sealed, OriginalOf
<1>2. L \in SUBSET (Inputs \cup {"stop", "reconcile", "cleanup"}) /\ j.life \cup j.pend \subseteq L
  BY DEF JournalRows
<1>3. st \in Frozen
  BY DEF Frozen
<1>4. st = "complete" => /\ ~j.bar.cut /\ j.bar.gaps = {}
                         /\ \A i \in j.bar.ev : j.ev[i] \notin {"admitted", "dispatched"}
  BY DEF Unknowns
<1> HIDE DEF L, st
<1>5. Sealed(recovery) \in JournalRows
  BY <1>1, <1>2, <1>3 DEF JournalRows
<1>6. /\ Sealed(recovery).st = st /\ Sealed(recovery).life = L
      /\ Sealed(recovery).ev = j.ev /\ Sealed(recovery).seen = j.seen
      /\ Sealed(recovery).media = j.media /\ Sealed(recovery).gaps = j.gaps
      /\ Sealed(recovery).bar = j.bar
  BY <1>1 DEF JournalRows
<1>7. Sealed(recovery).kept = TRUE
  BY <1>1 DEF JournalRows
<1> QED BY <1>2, <1>3, <1>4, <1>5, <1>6, <1>7

\* The row after load().
LEMMA LoadedRow ==
  ASSUME j \in JournalRows
  PROVE  /\ Loaded \in JournalRows
         /\ Loaded.st = j.st /\ Loaded.bar = j.bar /\ Loaded.life = j.life
         /\ \/ Loaded = j
            \/ /\ Original \in tomb /\ Loaded.kept = FALSE
               /\ \A i \in Inputs : Loaded.ev[i] = "none"
               /\ \A s \in Samples : Loaded.seen[s] = "none"
<1>1. NoRow.ev \in [Inputs -> {"none", "admitted", "dispatched", "injected", "rejected"}]
      /\ NoRow.seen \in [Samples -> {"none", "approved", "suppressed"}]
      /\ (\A i \in Inputs : NoRow.ev[i] = "none") /\ (\A s \in Samples : NoRow.seen[s] = "none")
  BY DEF NoRow
<1>2. Purged \in JournalRows
  BY <1>1 DEF Purged, JournalRows
<1>3. /\ Purged.st = j.st /\ Purged.bar = j.bar /\ Purged.life = j.life
      /\ Purged.ev = NoRow.ev /\ Purged.seen = NoRow.seen
  BY DEF Purged, JournalRows
<1>4. Purged.kept = FALSE
  BY DEF Purged, JournalRows
<1> QED BY <1>1, <1>2, <1>3, <1>4 DEF Loaded

\* What a step that freezes the recording, or that changes the row of a frozen
\* one, does to the threads and to the rest of the row.
LEMMA FrozenRow ==
  ASSUME JournalInv, UNCHANGED <<dev, told, cut, barred, busy>>,
         alive' = alive \/ pc["begin"] = "gone",
         NEW t \in Callers \cup {"boot"},
         pc' = pc \/ (pc[t] \in Freezes /\ \E x \in {"unpin", "end", "done"} : To(t, x)),
         j \in JournalRows, j.st \in Late, j'.st \in Frozen, j'.bar = j.bar,
         j.st \in Frozen => j'.st = j.st /\ (j'.kept => j.kept),
         j'.st = "complete" /\ j'.kept /\ ~j.kept =>
           /\ ~j.bar.cut /\ j.bar.gaps = {}
           /\ \A i \in j.bar.ev : j.ev[i] \notin {"admitted", "dispatched"},
         \/ j'.kept /\ j'.ev = j.ev /\ j'.seen = j.seen /\ j.pend \cup j.life \subseteq j'.pend \cup j'.life
         \/ /\ ~j'.kept
            /\ \A i \in Inputs : j'.ev[i] = "none"
            /\ \A s \in Samples : j'.seen[s] = "none"
  PROVE  JournalPhases'
<1>0. /\ JournalPhases /\ JournalTypes
      /\ t \in Threads /\ t # "begin" /\ "begin" \in Threads
      /\ BeginPhase /\ BarrierFixed
  BY ThreadNames, TypeParts DEF JournalInv, JournalPhases
<1>1. \A u \in Threads : \/ pc'[u] = pc[u]
                         \/ u = t /\ pc[u] \in Freezes /\ pc'[u] \in {"unpin", "end", "done"}
  BY <1>0 DEF To, JournalTypes
<1>2. \A u \in Threads : pc[u] \in Freezes =>
        pc[u] \notin Collecting \cup {"idle", "admitted", "dispatched", "receipt", "done", "bar", "mark"}
  BY FinalNames DEF Freezes, Collecting, Steps
<1>3. pc["begin"] \in {"open", "gone"} /\ pc'["begin"] = pc["begin"]
  <2>1. pc["begin"] \in {"open", "gone"}
    BY <1>0 DEF BeginPhase, NoRow, Late, Frozen
  <2> QED BY <1>0, <1>1, <2>1
<1>4. BeginPhase'
  BY <1>0, <1>3 DEF BeginPhase, Frozen
<1>5. BarrierFixed'
  <2>0. j.st \in Frozen \/ j.st = "finalizing"
    BY DEF Late
  <2>1. j'.kept => j'.st \in Frozen
    OBVIOUS
  <2>2. Expired' => /\ \A i \in Inputs : j'.ev[i] = "none"
                    /\ \A s \in Samples : j'.seen[s] = "none"
    BY DEF Expired
  <2>3. ~Expired' => \A i \in Inputs : i \in j'.bar.ev <=> j'.ev[i] # "none"
    BY <1>0, <2>0 DEF Expired, BarrierFixed, Late, Frozen
  <2>4. j'.st = "complete" /\ j'.kept =>
          /\ ~j'.bar.cut /\ j'.bar.gaps = {}
          /\ \A i \in j'.bar.ev : j'.ev[i] \notin {"admitted", "dispatched"}
    BY <1>0, <2>0 DEF BarrierFixed, Frozen
  <2>5. ~j'.bar.cut /\ j'.bar.gaps = {} =>
          \A s \in Samples : j'.seen[s] # "none" =>
            s \in told' \/ (j'.seen[s] = "approved" /\ s \in j'.bar.media)
    BY <1>0 DEF BarrierFixed
  <2> QED BY <2>1, <2>2, <2>3, <2>4, <2>5 DEF BarrierFixed
<1>6. \A u \in Threads : u # "begin" => FreezePhase(u)'
  BY <1>0, <1>1, FinalNames DEF JournalPhases, FreezePhase, Late, Steps
<1>7. \A i \in Inputs : InputPhase(i)' /\ ToldPhase(i)'
  <2>1. ASSUME NEW i \in Inputs
        PROVE  InputPhase(i)' /\ ToldPhase(i)'
    <3>1. InputPhase(i) /\ ToldPhase(i) /\ i \in Threads
      BY <1>0, ThreadNames DEF JournalPhases
    <3>2. \/ pc'[i] = pc[i]
          \/ /\ pc[i] \notin {"idle", "admitted", "dispatched", "receipt", "done"}
             /\ pc'[i] \notin {"idle", "admitted", "dispatched", "receipt"}
      BY <1>1, <1>2, <3>1
    <3>3. Expired => Expired'
      BY DEF Expired
    <3>4. CASE j'.kept /\ j'.ev = j.ev /\ j.pend \cup j.life \subseteq j'.pend \cup j'.life
      BY <3>1, <3>2, <3>3, <3>4 DEF InputPhase, ToldPhase
    <3>5. CASE ~j'.kept /\ j'.ev[i] = "none"
      BY <3>1, <3>2, <3>5 DEF InputPhase, ToldPhase, Expired
    <3> QED BY <3>4, <3>5
  <2> QED BY <2>1
<1>8. \A s \in Samples : SamplePhase(s)'
  BY <1>0, <1>1, <1>2, ThreadNames DEF JournalPhases, SamplePhase, Frozen, Collecting
<1>9. \A u \in Callers : MarkPhase(u)'
  BY <1>0, <1>1, <1>2, ThreadNames DEF JournalPhases, MarkPhase
<1> QED BY <1>4, <1>5, <1>6, <1>7, <1>8, <1>9 DEF JournalPhases, Callers

\* freeze(), by a caller or by the boot.
LEMMA FreezeSteps ==
  ASSUME JournalInv, NEW t \in Callers \cup {"boot"}, Freeze(t)
  PROVE  TypeOK' /\ JournalPhases'
<1>0. /\ JournalPhases /\ JournalTypes /\ StoreTypeOK
      /\ t \in Threads /\ t # "begin" /\ "begin" \in Threads
      /\ j \in JournalRows /\ pc \in [Threads -> Steps \cup Finals]
      /\ FreezePhase(t)
  BY ThreadNames, TypeParts DEF JournalInv, JournalPhases, JournalTypes
<1>1. /\ Running(t) /\ pc[t] \in Freezes
      /\ UNCHANGED <<dev, told, cut, barred, busy, left>>
      /\ t # "boot" => alive' = alive
      /\ alive' \in {"up", "down", "boot", "failed"}
      /\ hold' \in Threads \cup {NoThread}
  BY <1>0 DEF Freeze, FreezeRead, FreezePut, Seal, FreezeUnpin, FreezeLoad, FreezeFail, Freezes,
              Acquires, JournalTypes
<1>2. alive' = alive \/ pc["begin"] = "gone"
  BY <1>0, <1>1 DEF Running, JournalPhases, BeginPhase
<1>3. After(t) \in {"end", "done"}
  BY DEF After
<1>4. CASE FreezeRead(t)
  <2>1. \E x \in {"load", "seal", "fail"} \cup Finals :
          /\ To(t, x)
          /\ x = "load" => j.st \in Frozen
          /\ x \in {"seal"} \cup Finals => j.st \in Late
    <3>1. \/ j.st \in Frozen /\ To(t, "load")
          \/ j.st = "finalizing" /\ To(t, "seal")
          \/ j.st = "finalizing" /\ \E a \in Finals : To(t, a)
          \/ To(t, "fail")
      BY <1>4 DEF FreezeRead
    <3>2. "load" \notin {"seal"} \cup Finals /\ "fail" \notin {"load", "seal"} \cup Finals
      BY FinalNames DEF Steps
    <3> QED BY <3>1, <3>2 DEF Late, Frozen
  <2>2. PICK x \in {"load", "seal", "fail"} \cup Finals :
          /\ To(t, x)
          /\ x = "load" => j.st \in Frozen
          /\ x \in {"seal"} \cup Finals => j.st \in Late
    BY <2>1
  <2>3. JournalPhases'
    <3>1. x \in Freezes /\ x # "freeze" /\ x # "unpin" /\ j' = j
      BY <1>4, <2>2, FinalNames DEF Freezes, FreezeRead, Steps
    <3> QED BY <1>1, <2>2, <3>1, FreezeMoves
  <2>4. StoreTypeOK'
    <3>1. CASE UNCHANGED storeVars
      BY <1>0, <3>1, StoreKept
    <3>2. CASE \E a \in Finals : PutBegin(a)
      BY <1>0, <3>2, FinalNames, PutBeginTypes
    <3>3. CASE /\ res' = IF obj[Original].res # "final" THEN Released({"final"}) ELSE res
               /\ UNCHANGED <<rows, obj, tomb, pins, parts, files, call, out, faults>>
      BY <1>0, <3>3 DEF StoreTypeOK, Released
    <3> QED BY <1>4, <3>1, <3>2, <3>3 DEF FreezeRead
  <2>5. JournalTypes'
    <3>1. pc' \in [Threads -> Steps \cup Finals]
      BY <1>0, <2>2 DEF To, Steps
    <3> QED BY <1>0, <1>1, <1>4, <3>1 DEF FreezeRead, JournalTypes
  <2> QED BY <2>3, <2>4, <2>5, TypeParts
<1>5. CASE FreezePut(t)
  <2>1. j.st \in Late
    BY <1>0, <1>5 DEF FreezePut, FreezePhase
  <2>2. PICK x \in {"seal", "fail"} : To(t, x)
    BY <1>5 DEF FreezePut
  <2>3. JournalPhases'
    <3>1. x \in Freezes /\ x \notin {"unpin", "load"} /\ j' = j
      BY <1>5, <2>2 DEF Freezes, FreezePut
    <3> QED BY <1>1, <2>1, <2>2, <3>1, FreezeMoves
  <2>4. StoreTypeOK'
    BY <1>0, <1>5, FinalNames DEF FreezePut, StoreTypeOK, Taken
  <2>5. JournalTypes'
    <3>1. pc' \in [Threads -> Steps \cup Finals]
      BY <1>0, <2>2 DEF To, Steps
    <3> QED BY <1>0, <1>1, <1>5, <3>1 DEF FreezePut, JournalTypes
  <2> QED BY <2>3, <2>4, <2>5, TypeParts
<1>6. CASE Seal(t)
  <2>1. j.st \in Late
    BY <1>0, <1>6 DEF Seal, FreezePhase
  <2>2. pc' \in [Threads -> Steps \cup Finals]
    BY <1>0, <1>6 DEF Seal, To, Steps
  <2>3. StoreTypeOK'
    <3>1. faults' \in 0 .. MaxFaults
      BY <1>0, <1>6, FaultTypes DEF Seal, StoreTypeOK
    <3> QED BY <1>0, <1>6, <3>1 DEF Seal, StoreTypeOK
  <2>4. CASE j' = j /\ To(t, "fail")
    <3>1. JournalPhases'
      <4>1. "fail" \in Freezes /\ "fail" \notin {"freeze", "seal", "unpin", "load"} \cup Finals
        BY FinalNames DEF Freezes, Steps
      <4> QED BY <1>1, <2>4, <4>1, FreezeMoves
    <3>2. JournalTypes'
      BY <1>0, <1>1, <1>6, <2>2, <2>4 DEF Seal, JournalTypes
    <3> QED BY <2>3, <3>1, <3>2, TypeParts
  <2>5. CASE j' = j /\ To(t, "unpin") /\ j.st \in Frozen
    <3>1. JournalPhases'
      <4>1. "unpin" \in Freezes /\ "unpin" \notin {"freeze", "seal"} \cup Finals
        BY FinalNames DEF Freezes, Steps
      <4> QED BY <1>1, <2>5, <4>1, FreezeMoves
    <3>2. JournalTypes'
      BY <1>0, <1>1, <1>6, <2>2, <2>5 DEF Seal, JournalTypes
    <3> QED BY <2>3, <3>1, <3>2, TypeParts
  <2>6. CASE To(t, "unpin") /\ j.st = "finalizing" /\ (j' = Sealed(TRUE) \/ j' = Sealed(FALSE))
    <3>1. /\ j' \in JournalRows
          /\ j'.st \in Frozen /\ j'.kept
          /\ j'.ev = j.ev /\ j'.seen = j.seen /\ j'.bar = j.bar
          /\ j.life \cup j.pend \subseteq j'.life
          /\ j'.st = "complete" =>
               /\ ~j.bar.cut /\ j.bar.gaps = {}
               /\ \A i \in j.bar.ev : j.ev[i] \notin {"admitted", "dispatched"}
      BY <1>0, <2>6, SealedRow
    <3>2. j.st \notin Frozen
      BY <2>6 DEF Frozen
    <3>3. pc[t] \in Freezes /\ \E x \in {"unpin", "end", "done"} : To(t, x)
      BY <1>1, <2>6
    <3>4. j.pend \cup j.life \subseteq j'.pend \cup j'.life
      BY <3>1
    <3>5. JournalPhases'
      BY <1>0, <1>1, <1>2, <2>1, <3>1, <3>2, <3>3, <3>4, FrozenRow
    <3>6. JournalTypes'
      BY <1>0, <1>1, <1>6, <2>2, <3>1 DEF Seal, JournalTypes
    <3> QED BY <2>3, <3>5, <3>6, TypeParts
  <2>7. (t = "boot") = TRUE \/ (t = "boot") = FALSE
    OBVIOUS
  <2>8. j.st = "finalizing" \/ j.st \in Frozen
    BY <2>1 DEF Late
  <2> QED BY <1>6, <2>4, <2>5, <2>6, <2>7, <2>8 DEF Seal, Frozen
<1>7. CASE FreezeUnpin(t)
  <2>1. j.st \in Frozen
    BY <1>0, <1>7 DEF FreezeUnpin, FreezePhase
  <2>2. PICK x \in {"load", "fail"} : To(t, x)
    BY <1>7 DEF FreezeUnpin
  <2>3. JournalPhases'
    <3>1. x \in Freezes /\ x \notin {"freeze", "seal"} \cup Finals /\ j' = j
      BY <1>7, <2>2, FinalNames DEF Freezes, FreezeUnpin, Steps
    <3> QED BY <1>1, <2>1, <2>2, <3>1, FreezeMoves
  <2>4. StoreTypeOK'
    <3>1. res' \in [ResIds -> {"none", "active", "committed"}]
      BY <1>0, <1>7 DEF FreezeUnpin, StoreTypeOK, Committed
    <3>2. pins' \subseteq Digests
      BY <1>0, <1>7 DEF FreezeUnpin, StoreTypeOK, Unpin
    <3> QED BY <1>0, <1>7, <3>1, <3>2 DEF FreezeUnpin, StoreTypeOK
  <2>5. JournalTypes'
    <3>1. pc' \in [Threads -> Steps \cup Finals]
      BY <1>0, <2>2 DEF To, Steps
    <3> QED BY <1>0, <1>1, <1>7, <3>1 DEF FreezeUnpin, JournalTypes
  <2> QED BY <2>3, <2>4, <2>5, TypeParts
<1>8. CASE FreezeLoad(t)
  <2>1. j.st \in Frozen /\ j.st \in Late
    BY <1>0, <1>8 DEF FreezeLoad, FreezePhase, Late
  <2>2. j' = Loaded /\ To(t, After(t))
    BY <1>8 DEF FreezeLoad
  <2>3. /\ j' \in JournalRows /\ j'.st = j.st /\ j'.bar = j.bar /\ j'.life = j.life
        /\ \/ j' = j
           \/ /\ j'.kept = FALSE
              /\ \A i \in Inputs : j'.ev[i] = "none"
              /\ \A s \in Samples : j'.seen[s] = "none"
    BY <1>0, <2>2, LoadedRow
  <2>4. JournalPhases'
    <3>1. CASE j' = j
      <4>1. After(t) \notin {"freeze", "seal", "unpin", "load"} \cup Finals
        BY FinalNames DEF After, Steps
      <4> QED BY <1>1, <1>3, <2>2, <3>1, <4>1, FreezeMoves
    <3>2. CASE /\ j'.kept = FALSE
               /\ \A i \in Inputs : j'.ev[i] = "none"
               /\ \A s \in Samples : j'.seen[s] = "none"
      <4>1. pc[t] \in Freezes /\ \E x \in {"unpin", "end", "done"} : To(t, x)
        BY <1>1, <1>3, <2>2
      <4>2. ~j'.kept
        BY <3>2
      <4> QED BY <1>0, <1>1, <1>2, <2>1, <2>3, <3>2, <4>1, <4>2, FrozenRow
    <3> QED BY <2>3, <3>1, <3>2
  <2>5. JournalTypes'
    <3>1. pc' \in [Threads -> Steps \cup Finals]
      BY <1>0, <1>3, <2>2 DEF To, Steps
    <3> QED BY <1>0, <1>1, <1>8, <2>3, <3>1 DEF FreezeLoad, JournalTypes
  <2>6. StoreTypeOK'
    BY <1>0, <1>8, StoreKept DEF FreezeLoad
  <2> QED BY <2>4, <2>5, <2>6, TypeParts
<1>9. CASE FreezeFail(t)
  <2>1. JournalPhases'
    <3>1. After(t) \notin {"freeze", "seal", "unpin", "load"} \cup Finals
      BY FinalNames DEF After, Steps
    <3>2. j' = j /\ To(t, After(t))
      BY <1>9 DEF FreezeFail
    <3> QED BY <1>1, <1>3, <3>1, <3>2, FreezeMoves
  <2>2. JournalTypes'
    <3>1. pc' \in [Threads -> Steps \cup Finals]
      BY <1>0, <1>3, <1>9 DEF FreezeFail, To, Steps
    <3> QED BY <1>0, <1>1, <1>9, <3>1 DEF FreezeFail, JournalTypes
  <2>3. StoreTypeOK'
    BY <1>0, <1>9, StoreKept DEF FreezeFail
  <2> QED BY <2>1, <2>2, <2>3, TypeParts
<1> QED BY <1>4, <1>5, <1>6, <1>7, <1>8, <1>9 DEF Freeze

\* load() and append_lifecycle outside the session.
LEMMA OutsideSteps ==
  ASSUME JournalInv, Load \/ AppendLifecycle
  PROVE  TypeOK' /\ JournalPhases'
<1>0. /\ JournalPhases /\ JournalTypes /\ StoreTypeOK
      /\ j \in JournalRows
      /\ j.st \in Frozen /\ j.st \in Late
      /\ UNCHANGED <<storeVars, dev, told, alive, pc, cut, barred, busy, hold, left>>
      /\ "boot" \in Callers \cup {"boot"}
      /\ BarrierFixed
  BY TypeParts DEF JournalInv, JournalPhases, JournalTypes, Load, AppendLifecycle, Late
<1>1. /\ j' \in JournalRows /\ j'.st = j.st /\ j'.bar = j.bar
      /\ \/ /\ j'.kept = j.kept /\ j'.ev = j.ev /\ j'.seen = j.seen
            /\ j.pend \cup j.life \subseteq j'.pend \cup j'.life
         \/ /\ j'.kept = FALSE
            /\ \A i \in Inputs : j'.ev[i] = "none"
            /\ \A s \in Samples : j'.seen[s] = "none"
  <2>1. CASE Load
    BY <1>0, <2>1, LoadedRow DEF Load
  <2>2. CASE AppendLifecycle
    BY <1>0, <2>2 DEF AppendLifecycle, JournalRows
  <2> QED BY <2>1, <2>2
<1>2. \/ j'.kept /\ j'.ev = j.ev /\ j'.seen = j.seen /\ j.pend \cup j.life \subseteq j'.pend \cup j'.life
      \/ /\ ~j'.kept
         /\ \A i \in Inputs : j'.ev[i] = "none"
         /\ \A s \in Samples : j'.seen[s] = "none"
  <2>1. CASE j.kept
    BY <1>1, <2>1
  <2>2. CASE ~j.kept
    BY <1>0, <1>1, <2>2 DEF BarrierFixed, Expired
  <2> QED BY <2>1, <2>2
<1>3. j'.kept => j.kept
  BY <1>1
<1>4. JournalPhases'
  BY <1>0, <1>1, <1>2, <1>3, FrozenRow
<1>5. JournalTypes'
  BY <1>0, <1>1 DEF JournalTypes
<1>6. StoreTypeOK'
  BY <1>0, StoreKept
<1> QED BY <1>4, <1>5, <1>6, TypeParts

\* The end of the process.
LEMMA CrashStep ==
  ASSUME JournalInv, Crash
  PROVE  TypeOK' /\ JournalPhases'
<1>0. /\ JournalPhases /\ JournalTypes /\ StoreTypeOK
  BY TypeParts DEF JournalInv
<1>1. /\ UNCHANGED <<j, dev, told>>
      /\ alive' = "down" /\ cut' = {} /\ barred' = FALSE /\ busy' = {}
      /\ hold' = NoThread /\ left' = {} /\ call' = Idle
      /\ pc' = [t \in Threads |-> IF t = "begin" THEN "gone" ELSE "done"]
  BY DEF Crash
<1>2. /\ pc'["begin"] = "gone"
      /\ \A t \in Threads : t # "begin" => pc'[t] = "done"
      /\ \A t \in Callers : pc'[t] = "done"
      /\ pc' \in [Threads -> Steps \cup Finals]
  BY <1>1, ThreadNames DEF Steps
<1>3. StoreTypeOK'
  <2>1. faults' \in 0 .. MaxFaults
    BY <1>0, FaultTypes DEF Crash, StoreTypeOK
  <2>2. call' \in Calls
    BY <1>1 DEF Calls
  <2> QED BY <1>0, <2>1, <2>2 DEF Crash, StoreTypeOK
<1>4. JournalTypes'
  BY <1>0, <1>1, <1>2 DEF JournalTypes
<1>5. BeginPhase'
  BY <1>2 DEF BeginPhase
<1>6. BarrierFixed'
  BY <1>0, <1>1 DEF JournalPhases, BarrierFixed, Expired
<1>7. \A t \in Threads : t # "begin" => FreezePhase(t)'
  BY <1>2, FinalNames DEF FreezePhase, Steps
<1>8. \A i \in Inputs : InputPhase(i)' /\ ToldPhase(i)'
  BY <1>0, <1>1, <1>2, ThreadNames DEF JournalPhases, InputPhase, ToldPhase, Expired
<1>9. \A s \in Samples : SamplePhase(s)'
  BY <1>1, <1>2, ThreadNames DEF SamplePhase, Collecting, Open
<1>10. \A t \in Callers : MarkPhase(t)'
  BY <1>2 DEF MarkPhase
<1> QED BY <1>3, <1>4, <1>5, <1>6, <1>7, <1>8, <1>9, <1>10, TypeParts DEF JournalPhases, Callers

\* The boot gives an interrupted recording its barrier.
LEMMA RecoverBarrierStep ==
  ASSUME JournalInv, RecoverBarrier
  PROVE  TypeOK' /\ JournalPhases'
<1>0. /\ JournalPhases /\ JournalTypes /\ StoreTypeOK
      /\ pc["begin"] = "gone" /\ "begin" \in Threads /\ "boot" \in Threads
      /\ BarrierFixed
      /\ UNCHANGED <<storeVars, dev, told, cut, barred, busy, hold, left>>
  BY TypeParts, ThreadNames
     DEF JournalInv, JournalPhases, BeginPhase, RecoverBarrier, Booting
<1>1. StoreTypeOK' /\ pc' \in [Threads -> Steps \cup Finals] /\ alive' \in {"up", "boot"}
  BY <1>0, StoreKept DEF RecoverBarrier, Booting, To, JournalTypes, Steps
<1>2. CASE j' = j
  <2>1. \/ To("boot", "done")
        \/ To("boot", "final") /\ j.st \in Late
    <3>1. Barrier(TRUE).st = "finalizing"
      BY <1>0, BarrierRow DEF JournalTypes
    <3> QED BY <1>2, <3>1 DEF RecoverBarrier, Late
  <2>2. "done" \notin {"final", "files", "rows", "charges", "freeze", "seal", "unpin", "load"} \cup Finals
    BY FinalNames DEF Steps
  <2>3. JournalPhases'
    BY <1>0, <1>2, <2>1, <2>2, BootMoves
  <2>4. JournalTypes'
    BY <1>0, <1>1, <1>2 DEF JournalTypes
  <2> QED BY <1>1, <2>3, <2>4, TypeParts
<1>3. CASE j.st \notin Late /\ j' = Barrier(TRUE) /\ To("boot", "final") /\ alive' = alive
  <2>1. /\ j' \in JournalRows /\ j'.st = "finalizing"
        /\ j'.ev = j.ev /\ j'.seen = j.seen /\ j'.pend = j.pend /\ j'.life = j.life
        /\ j'.kept = j.kept
        /\ j'.bar = [ev |-> {i \in Inputs : j.ev[i] # "none"},
                     media |-> j.media, gaps |-> j.gaps, cut |-> TRUE]
    BY <1>0, <1>3, BarrierRow DEF JournalTypes
  <2>2. /\ pc' = [pc EXCEPT !["boot"] = "final"]
        /\ \A t \in Callers : t \in Threads /\ pc'[t] = pc[t]
    BY <1>0, <1>3, ThreadNames DEF To, JournalTypes
  <2>3. BeginPhase'
    BY <1>0, <2>2 DEF BeginPhase, JournalTypes
  <2>4. BarrierFixed'
    <3>1. ~j'.kept
      BY <1>0, <1>3, <2>1 DEF BarrierFixed, Late
    <3>2. \A i \in Inputs : i \in j'.bar.ev <=> j'.ev[i] # "none"
      BY <2>1
    <3>3. j'.bar.cut = TRUE
      BY <2>1
    <3> QED BY <2>1, <3>1, <3>2, <3>3 DEF BarrierFixed, Expired, Frozen
  <2>5. \A t \in Threads : t # "begin" => FreezePhase(t)'
    BY <1>0, <1>3, <2>1, <2>2 DEF JournalPhases, FreezePhase, JournalTypes, Late, Steps, Frozen
  <2>6. \A i \in Inputs : InputPhase(i)' /\ ToldPhase(i)'
    <3>1. ~Expired /\ ~Expired'
      BY <1>3, <2>1 DEF Expired, Late, Frozen
    <3> QED BY <1>0, <2>1, <2>2, <3>1, ThreadNames DEF JournalPhases, InputPhase, ToldPhase
  <2>7. \A s \in Samples : SamplePhase(s)'
    BY <1>0, <2>1, <2>2, ThreadNames DEF JournalPhases, SamplePhase
  <2>8. \A t \in Callers : MarkPhase(t)'
    BY <1>0, <2>2 DEF JournalPhases, MarkPhase
  <2>9. JournalTypes'
    BY <1>0, <1>1, <2>1 DEF JournalTypes
  <2> QED BY <1>1, <2>3, <2>4, <2>5, <2>6, <2>7, <2>8, <2>9, TypeParts DEF JournalPhases, Callers
<1> QED BY <1>2, <1>3 DEF RecoverBarrier, Late, Frozen

\* Opening the store and the journal again.
LEMMA RecoverSteps ==
  ASSUME JournalInv, Recover
  PROVE  TypeOK' /\ JournalPhases'
<1>0. /\ JournalPhases /\ JournalTypes /\ StoreTypeOK
      /\ "boot" \in Threads /\ alive # "up" /\ pc["begin"] = "gone"
      /\ FreezePhase("boot")
  <2>1. alive # "up"
    BY DEF Recover, Reopen, BootBudget, BootTombstones, RecoverBarrier, RecoverFinal,
           RecoverFiles, RecoverRows, RecoverCharges, Booting
  <2> QED BY <2>1, TypeParts, ThreadNames DEF JournalInv, JournalPhases, BeginPhase
<1>1. CASE RecoverBarrier
  BY <1>1, RecoverBarrierStep
<1>2. CASE Reopen \/ BootBudget \/ BootTombstones \/ RecoverFinal
           \/ RecoverFiles \/ RecoverRows \/ RecoverCharges
  <2>1. /\ UNCHANGED <<j, dev, told, cut, barred, busy, hold>>
        /\ alive' \in {"up", "down", "boot", "failed"}
    BY <1>0, <1>2 DEF Reopen, BootBudget, BootTombstones, RecoverFinal,
           RecoverFiles, RecoverRows, RecoverCharges, JournalTypes
  <2>2. \/ \E x \in {"budget", "tombs", "fail", "barrier"} : To("boot", x)
        \/ /\ \E x \in {"files", "rows", "charges", "freeze"} : To("boot", x)
           /\ pc["boot"] \in {"final", "files", "rows", "charges"}
    BY <1>2 DEF Reopen, BootBudget, BootTombstones, RecoverFinal,
           RecoverFiles, RecoverRows, RecoverCharges, Booting
  <2>3. PICK x \in {"budget", "tombs", "fail", "barrier", "files", "rows", "charges", "freeze"} :
          /\ To("boot", x)
          /\ x \in {"files", "rows", "charges", "freeze"} => j.st \in Late
    BY <1>0, <2>2 DEF FreezePhase
  <2>4. JournalPhases'
    <3>1. x \notin {"final", "seal", "unpin", "load"} \cup Finals
      BY FinalNames DEF Steps
    <3> QED BY <1>0, <2>1, <2>3, <3>1, BootMoves
  <2>5. JournalTypes'
    <3>1. pc' \in [Threads -> Steps \cup Finals]
      BY <1>0, <2>3 DEF To, JournalTypes, Steps
    <3>2. left' \subseteq Attempts
      BY <1>0, <1>2 DEF Reopen, BootBudget, BootTombstones, RecoverFinal,
           RecoverFiles, RecoverRows, RecoverCharges, JournalTypes, StoreTypeOK
    <3> QED BY <1>0, <2>1, <3>1, <3>2 DEF JournalTypes
  <2>6. StoreTypeOK'
    <3>1. CASE Reopen
      BY <1>0, <3>1, StoreKept DEF Reopen
    <3>2. CASE BootBudget
      <4>1. res' \in [ResIds -> {"none", "active", "committed"}]
        BY <1>0, <3>2 DEF BootBudget, StoreTypeOK, Recharged
      <4> QED BY <1>0, <3>2, <4>1 DEF BootBudget, StoreTypeOK
    <3>3. CASE BootTombstones
      <4>1. faults' \in 0 .. MaxFaults
        BY <1>0, <3>3, FaultTypes DEF BootTombstones, Removal, StoreTypeOK
      <4>2. PICK D \in SUBSET Digests : Reconciled(D)
        BY <3>3 DEF BootTombstones, Tombstoned
      <4>3. res' \in [ResIds -> {"none", "active", "committed"}]
        BY <1>0, <4>2 DEF Reconciled, StoreTypeOK
      <4>4. obj' \in [Digests -> [st : {"none", "published", "tombstoned"},
                                  res : ResIds \cup {"none"}]]
        BY <1>0, <4>2 DEF Reconciled, StoreTypeOK, NoObject
      <4>5. files' \subseteq Digests
        BY <1>0, <4>2 DEF Reconciled, StoreTypeOK
      <4> QED BY <1>0, <3>3, <4>1, <4>3, <4>4, <4>5 DEF BootTombstones, StoreTypeOK
    <3>4. CASE RecoverFinal
      <4>1. faults' \in 0 .. MaxFaults
        BY <1>0, <3>4, FaultTypes DEF RecoverFinal, Removal, StoreTypeOK
      <4>2. rows' \subseteq rows /\ parts' \subseteq parts
        BY <3>4 DEF RecoverFinal
      <4> QED BY <1>0, <3>4, <4>1, <4>2 DEF RecoverFinal, StoreTypeOK
    <3>5. CASE RecoverFiles
      <4>1. faults' \in 0 .. MaxFaults
        BY <1>0, <3>5, FaultTypes DEF RecoverFiles, Removal, StoreTypeOK
      <4>2. files' \subseteq files /\ parts' \subseteq parts
        BY <3>5 DEF RecoverFiles
      <4> QED BY <1>0, <3>5, <4>1, <4>2 DEF RecoverFiles, StoreTypeOK
    <3>6. CASE RecoverRows
      BY <1>0, <3>6 DEF RecoverRows, StoreTypeOK
    <3>7. CASE RecoverCharges
      <4>1. res' \in [ResIds -> {"none", "active", "committed"}]
        BY <1>0, <3>7 DEF RecoverCharges, StoreTypeOK, Released
      <4> QED BY <1>0, <3>7, <4>1 DEF RecoverCharges, StoreTypeOK
    <3> QED BY <1>2, <3>1, <3>2, <3>3, <3>4, <3>5, <3>6, <3>7
  <2> QED BY <2>4, <2>5, <2>6, TypeParts
<1> QED BY <1>1, <1>2 DEF Recover

-----------------------------------------------------------------------------
(* The theorems about the journal.                                         *)

LEMMA JournalInit == Init => JournalInv
<1> SUFFICES ASSUME Init PROVE JournalInv
  OBVIOUS
<1>1. StoreTypeOK
  <2>1. call \in Calls
    BY DEF Init, StoreInit, Calls
  <2> QED BY <2>1, StoreAssumption DEF Init, StoreInit, StoreTypeOK, NoObject
<1>2. j = NoRow /\ NoRow \in JournalRows
  BY DEF Init, NoRow, JournalRows, NoBarrier
<1>3. /\ pc \in [Threads -> Steps \cup Finals]
      /\ pc["begin"] = "reserve" /\ alive = "up"
      /\ \A t \in Threads : t # "begin" => pc[t] = "idle"
      /\ \A t \in Callers : pc[t] = "idle"
  BY ThreadNames DEF Init, Steps
<1>4. JournalTypes
  BY <1>2, <1>3 DEF Init, JournalTypes
<1>5. /\ j.st = "none" /\ j.kept = FALSE
      /\ \A i \in Inputs : j.ev[i] = "none"
  BY <1>2 DEF NoRow
<1>6. BeginPhase
  BY <1>2, <1>3 DEF BeginPhase
<1>7. BarrierFixed
  BY <1>5 DEF BarrierFixed, Expired, Late, Frozen
<1>8. \A t \in Threads : t # "begin" => FreezePhase(t)
  BY <1>3, FinalNames DEF FreezePhase, Steps
<1>9. \A i \in Inputs : InputPhase(i) /\ ToldPhase(i)
  BY <1>3, <1>5, ThreadNames DEF Init, InputPhase, ToldPhase
<1>10. \A s \in Samples : SamplePhase(s)
  BY <1>3, <1>5, ThreadNames DEF SamplePhase, Collecting
<1>11. \A t \in Callers : MarkPhase(t)
  BY <1>3 DEF MarkPhase
<1> QED BY <1>1, <1>4, <1>6, <1>7, <1>8, <1>9, <1>10, <1>11, TypeParts DEF JournalInv, JournalPhases

LEMMA JournalNext == JournalInv /\ [Next]_vars => JournalInv'
<1> SUFFICES ASSUME JournalInv, [Next]_vars PROVE TypeOK' /\ JournalPhases'
  BY DEF JournalInv
<1>1. CASE Beginning
  BY <1>1, BeginSteps
<1>2. CASE \E i \in Inputs : Input(i)
  BY <1>2, InputSteps
<1>3. CASE \E s \in Samples : Sample(s)
  BY <1>3, SampleSteps
<1>4. CASE \E t \in Callers : Stop(t)
  BY <1>4, StopSteps
<1>5. CASE \E t \in Callers \cup {"boot"} : Freeze(t)
  BY <1>5, FreezeSteps
<1>6. CASE StoreStep \/ Retention
  <2>1. UNCHANGED recVars
    BY <1>6 DEF StoreStep, Retention
  <2>2. StoreTypeOK /\ JournalTypes
    BY TypeParts DEF JournalInv
  <2>3. StoreTypeOK'
    BY <1>6, <2>2, StorePutTypes, TombstoneTypes DEF StoreStep, Retention
  <2>4. JournalTypes'
    BY <2>1, <2>2 DEF recVars, JournalTypes
  <2>5. JournalPhases'
    BY <2>1, QuietStep DEF recVars
  <2> QED BY <2>3, <2>4, <2>5, TypeParts
<1>7. CASE Load \/ AppendLifecycle
  BY <1>7, OutsideSteps
<1>8. CASE Crash
  BY <1>8, CrashStep
<1>9. CASE Recover
  BY <1>9, RecoverSteps
<1>10. CASE UNCHANGED vars
  <2>1. UNCHANGED storeVars /\ UNCHANGED recVars
    BY <1>10 DEF vars
  <2>2. StoreTypeOK /\ JournalTypes
    BY TypeParts DEF JournalInv
  <2>3. StoreTypeOK' /\ JournalTypes'
    BY <2>1, <2>2, StoreKept DEF recVars, JournalTypes
  <2>4. JournalPhases'
    BY <2>1, QuietStep DEF recVars
  <2> QED BY <2>3, <2>4, TypeParts
<1> QED BY <1>1, <1>2, <1>3, <1>4, <1>5, <1>6, <1>7, <1>8, <1>9, <1>10 DEF Next, Callers

\* JournalInv is an invariant of the recording: the journal, the device and the
\* threads agree at every step, through crashes and recoveries
\* (recording_session.py).
THEOREM JournalInvariance == Spec => []JournalInv
BY JournalInit, JournalNext, PTL DEF Spec

\* The tables of the journal and of the store keep their types.
THEOREM RecordingTypes == Spec => []TypeOK
<1>1. JournalInv => TypeOK
  BY DEF JournalInv
<1> QED BY <1>1, JournalInvariance, PTL

\* What the device did is in the original: mark_dispatched journals an input
\* before it is executed, and no input is dispatched after the barrier.
THEOREM InjectedAlwaysRecorded == Spec => []InjectedIsRecorded
<1>1. JournalInv => InjectedIsRecorded
  <2> SUFFICES ASSUME JournalInv, j.st \in Frozen, j.kept, NEW i \in Inputs
               PROVE  /\ dev[i] # "none" => i \in j.bar.ev /\ j.ev[i] \in {dev[i], "dispatched"}
                      /\ i \in j.bar.ev /\ j.ev[i] \in {"injected", "rejected"} => j.ev[i] = dev[i]
    BY DEF InjectedIsRecorded
  <2>1. BarrierFixed /\ InputPhase(i) /\ ~Expired /\ j.st \in Late
    BY DEF JournalInv, JournalPhases, Expired, Late
  <2>2. dev[i] \in {"none", "injected", "rejected"}
    BY DEF JournalInv, TypeOK
  <2> QED BY <2>1, <2>2 DEF BarrierFixed, InputPhase
<1> QED BY <1>1, JournalInvariance, PTL

\* A recording that is frozen complete has every journalled sample that its own
\* call did not give up before the barrier, and all the outcomes of its inputs:
\* stop_barrier counts a collection in flight as a reason to be incomplete.
THEOREM CompleteIsAlwaysComplete == Spec => []CompleteIsComplete
<1>1. JournalInv => CompleteIsComplete
  <2> SUFFICES ASSUME JournalInv, j.st = "complete", j.kept
               PROVE  /\ \A s \in Samples : j.seen[s] # "none" =>
                           s \in told \/ (j.seen[s] = "approved" /\ s \in j.bar.media)
                      /\ \A i \in j.bar.ev : dev[i] # "none" /\ j.ev[i] = dev[i]
    BY DEF CompleteIsComplete
  <2>1. BarrierFixed /\ ~Expired /\ j.st \in Late
    BY DEF JournalInv, JournalPhases, Expired, Late, Frozen
  <2>2. \A s \in Samples : j.seen[s] # "none" =>
          s \in told \/ (j.seen[s] = "approved" /\ s \in j.bar.media)
    BY <2>1 DEF BarrierFixed
  <2>3. ASSUME NEW i \in j.bar.ev
        PROVE  dev[i] # "none" /\ j.ev[i] = dev[i]
    <3>1. i \in Inputs /\ j.ev[i] \in {"none", "admitted", "dispatched", "injected", "rejected"}
      BY DEF JournalInv, TypeOK, JournalRows
    <3>2. InputPhase(i)
      BY <3>1 DEF JournalInv, JournalPhases
    <3> QED BY <2>1, <3>1, <3>2 DEF BarrierFixed, InputPhase
  <2> QED BY <2>2, <2>3
<1> QED BY <1>1, JournalInvariance, PTL

\* An outcome that record_receipt confirmed stays in the journal until the
\* original expires.
THEOREM OutcomeAlwaysKept == Spec => []OutcomeKept
<1>1. JournalInv => OutcomeKept
  <2> SUFFICES ASSUME JournalInv, NEW i \in told \cap Inputs
               PROVE  \/ j.ev[i] = dev[i]
                      \/ i \in j.pend \cup j.life
                      \/ (j.st \in Frozen /\ ~j.kept)
    BY DEF OutcomeKept
  <2>1. ToldPhase(i)
    BY DEF JournalInv, JournalPhases, TypeOK
  <2> QED BY <2>1 DEF ToldPhase, Expired
<1> QED BY <1>1, JournalInvariance, PTL

\* What a step does to the row of a recording that has its barrier.
LEMMA LateRow ==
  ASSUME JournalInv, [Next]_vars, j.st \in Late
  PROVE  \/ /\ j'.st = j.st \/ j.st = "finalizing"
            /\ j'.ev = j.ev /\ j'.bar = j.bar /\ j.life \subseteq j'.life
         \/ j' = Loaded /\ j.st \in Frozen
<1>0. /\ JournalPhases /\ JournalTypes /\ BeginPhase
      /\ j \in JournalRows /\ "boot" \in Threads
      /\ j.st \in {"finalizing", "complete", "incomplete"}
  BY TypeParts, ThreadNames DEF JournalInv, JournalPhases, JournalTypes, Late, Frozen
<1>1. CASE Beginning
  <2>1. pc["begin"] \in {"open", "gone"}
    BY <1>0 DEF BeginPhase, NoRow
  <2> QED BY <1>1, <2>1 DEF Beginning, BeginReserve, BeginFinal, BeginIdentity, BeginPrepared
<1>2. ASSUME NEW i \in Inputs, Input(i)
      PROVE  j'.st = j.st /\ j'.ev = j.ev /\ j'.bar = j.bar /\ j.life \subseteq j'.life
  BY <1>0, <1>2
     DEF Input, AdmitInput, MarkDispatched, Execute, RecordReceipt, Receipt, Admits, JournalRows, Frozen
<1>3. ASSUME NEW s \in Samples, Sample(s)
      PROVE  j'.st = j.st /\ j'.ev = j.ev /\ j'.bar = j.bar /\ j.life \subseteq j'.life
  BY <1>0, <1>3
     DEF Sample, BeginCollection, AuthorizeSample, StampFails, SampleLate, StoreSample, SampleStored,
         SampleMedia, SampleFails, Gap, EndCollection, JournalRows
<1>4. ASSUME NEW t \in Callers, Stop(t)
      PROVE  j' = j
  BY <1>0, <1>4 DEF Stop, Bar, Mark
<1>5. ASSUME NEW t \in Callers \cup {"boot"}, Freeze(t)
      PROVE  \/ /\ j'.st = j.st \/ j.st = "finalizing"
                /\ j'.ev = j.ev /\ j'.bar = j.bar /\ j.life \subseteq j'.life
             \/ j' = Loaded /\ j.st \in Frozen
  <2>1. CASE Seal(t)
    <3>1. j' = j \/ (j.st = "finalizing" /\ (j' = Sealed(TRUE) \/ j' = Sealed(FALSE)))
      <4>1. (t = "boot") = TRUE \/ (t = "boot") = FALSE
        OBVIOUS
      <4> QED BY <2>1, <4>1 DEF Seal
    <3> QED BY <1>0, <3>1, SealedRow
  <2>2. CASE FreezeLoad(t)
    <3>1. t \in Threads /\ t # "begin"
      BY ThreadNames
    <3> QED BY <1>0, <2>2, <3>1 DEF FreezeLoad, JournalPhases, FreezePhase
  <2>3. CASE FreezeRead(t) \/ FreezePut(t) \/ FreezeUnpin(t) \/ FreezeFail(t)
    BY <2>3 DEF FreezeRead, FreezePut, FreezeUnpin, FreezeFail
  <2> QED BY <1>5, <2>1, <2>2, <2>3 DEF Freeze
<1>6. CASE StoreStep \/ Retention \/ Crash \/ UNCHANGED vars
  BY <1>6 DEF StoreStep, Retention, Crash, vars, recVars
<1>7. CASE Load \/ AppendLifecycle
  BY <1>0, <1>7 DEF Load, AppendLifecycle, JournalRows
<1>8. CASE Recover
  BY <1>0, <1>8 DEF Recover, Reopen, BootBudget, BootTombstones, RecoverBarrier, RecoverFinal,
           RecoverFiles, RecoverRows, RecoverCharges, Frozen
<1> QED BY <1>1, <1>2, <1>3, <1>4, <1>5, <1>6, <1>7, <1>8 DEF Next, Callers

\* From the barrier on nothing changes what the original says, a frozen state
\* is final, and only the expiry of the original deletes what the journal has.
THEOREM OriginalNeverChanges == Spec => OriginalFixed
<1>1. ASSUME JournalInv, [Next]_vars, j.st \in Late
      PROVE  /\ OriginalOf(j') = OriginalOf(j) \/ (~j'.kept /\ Original \in tomb)
             /\ j.st \in Frozen => j'.st = j.st /\ j.life \subseteq j'.life
  <2>1. j \in JournalRows
    BY <1>1 DEF JournalInv, TypeOK
  <2>2. CASE /\ j'.st = j.st \/ j.st = "finalizing"
             /\ j'.ev = j.ev /\ j'.bar = j.bar /\ j.life \subseteq j'.life
    BY <2>2 DEF OriginalOf, Frozen
  <2>3. CASE j' = Loaded /\ j.st \in Frozen
    <3>1. CASE Loaded = j
      BY <2>3, <3>1
    <3>2. CASE Original \in tomb /\ Loaded.kept = FALSE
      BY <2>1, <2>3, <3>2, LoadedRow
    <3> QED BY <2>1, <3>1, <3>2, LoadedRow
  <2> QED BY <1>1, <2>2, <2>3, LateRow
<1>2. JournalInv /\ [Next]_vars =>
        [j.st \in Frozen \cup {"finalizing"} =>
           /\ OriginalOf(j') = OriginalOf(j) \/ (~j'.kept /\ Original \in tomb)
           /\ j.st \in Frozen => j'.st = j.st /\ j.life \subseteq j'.life]_vars
  BY <1>1 DEF Late
<1> QED BY <1>2, JournalInvariance, PTL DEF Spec, OriginalFixed
=============================================================================
