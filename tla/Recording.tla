------------------------------ MODULE Recording ------------------------------
(***************************************************************************)
(* A durable recording over the evidence store:                            *)
(* src/reproof/live/recording_session.py.                                  *)
(*                                                                         *)
(* One recording of one session, from its reservations to its frozen       *)
(* original, with the threads that use it: inputs that are admitted,       *)
(* dispatched, executed and acknowledged; samples (frames and              *)
(* observations) that are collected; stops that set the barrier and        *)
(* freeze; retention; and the process, which may crash at any step and     *)
(* recovers what it finds when it opens the journal again.                 *)
(*                                                                         *)
(* The journal is a SQLite database: every action that changes `j' is one  *)
(* transaction of it.  The bytes of the original are a function of the     *)
(* journal at the barrier, so its digest is the constant Original.         *)
(***************************************************************************)
EXTENDS EvidenceStore

CONSTANTS
  Inputs,       \* operations given to admit_input
  Samples,      \* the samples collected
  Acq,          \* Acq[s]: the acquisition sequence of sample s
  Pixels,       \* the samples that are frames: record_frame pins them
  Stops,        \* callers of stop_barrier and freeze
  Outcomes,     \* what the device may do with an input: "injected", "rejected"
  Finals,       \* the puts of the original that freezing may try
  Original,     \* the digest of the original
  MaxCalls,     \* bound: inputs, samples and stops of a behaviour
  NoThread

ASSUME RecordingAssumption ==
  /\ Acq \in [Samples -> Nat] /\ Pixels \subseteq Samples
  /\ Attempts = Samples \cup Finals
  /\ \A a \in Finals : DigestOf[a] = Original /\ ResOf[a] = "final"
  /\ {"journal", "final"} \subseteq ResIds /\ Given = {"final"}
  /\ Outcomes \subseteq {"injected", "rejected"}
  /\ MaxCalls \in Nat

\* Every sample is a blob with a reservation of its own, and none of them is
\* the original, which contains their digests.
ASSUME SampleAssumption ==
  /\ \A s \in Samples : DigestOf[s] # Original /\ ResOf[s] \notin {"journal", "final"}
  /\ \A s, o \in Samples : ResOf[s] = ResOf[o] => s = o

VARIABLES
  j,       \* the row of the recording and the tables that refer to it
  dev,     \* what the device did with each input
  told,    \* what callers were told: inputs whose receipt record_receipt has
           \* returned, samples that were given up before the barrier
  alive,   \* the process: "up", "down", "boot", or "failed" to open the journal
  pc,      \* what each thread does next
  cut,     \* threads that stop the recording for a reason
  barred,  \* _admissions_barred
  busy,    \* _inflight_collections
  hold,    \* who holds the lock of the session
  left     \* attempts whose staging rows a recovery is about to drop

recVars == <<j, dev, told, alive, pc, cut, barred, busy, hold, left>>
vars    == <<storeVars, recVars>>

Threads == Inputs \cup Samples \cup Stops \cup {"begin", "boot"}

Frozen == {"complete", "incomplete"}
NoBarrier == [ev |-> {}, media |-> {}, gaps |-> {}, cut |-> FALSE]

JournalRows ==
  [st    : {"none", "preparing", "recording", "finalizing"} \cup Frozen,
   ev    : [Inputs -> {"none", "admitted", "dispatched", "injected", "rejected"}],
   seen  : [Samples -> {"none", "approved", "suppressed"}],
   media : SUBSET Samples,
   gaps  : SUBSET Samples,
   bar   : [ev : SUBSET Inputs, media : SUBSET Samples,
            gaps : SUBSET Samples, cut : BOOLEAN],
   pend  : SUBSET Inputs,
   life  : SUBSET (Inputs \cup {"stop", "reconcile", "cleanup"}),
   kept  : BOOLEAN]

\* What a thread does next; during the put of an original pc names the attempt.
Steps == {"idle", "done", "fail",
          "reserve", "final", "identity", "prepared", "open", "refused", "gone",
          "admitted", "dispatched", "receipt",
          "sample", "put", "stored", "media", "gap", "end",
          "bar", "mark", "freeze", "seal", "unpin", "load",
          "budget", "tombs", "barrier", "files", "rows", "charges"}

\* Threads and steps are told apart by their names.
ASSUME NamesAssumption ==
  /\ Inputs \cap Samples = {} /\ (Inputs \cup Samples) \cap Stops = {}
  /\ (Inputs \cup Samples \cup Stops) \cap {"begin", "boot"} = {}
  /\ Finals \cap (Samples \cup Steps) = {}

TypeOK ==
  /\ StoreTypeOK
  /\ j \in JournalRows
  /\ dev \in [Inputs -> {"none", "injected", "rejected"}]
  /\ told \subseteq Inputs \cup Samples
  /\ alive \in {"up", "down", "boot", "failed"}
  /\ pc \in [Threads -> Steps \cup Finals]
  /\ cut \subseteq Threads /\ barred \in BOOLEAN /\ busy \subseteq Samples
  /\ hold \in Threads \cup {NoThread}
  /\ left \subseteq Attempts

NoRow == [st    |-> "none",                       \* recordings.state
          ev    |-> [i \in Inputs |-> "none"],    \* the events table
          seen  |-> [s \in Samples |-> "none"],   \* the samples table
          media |-> {},                           \* media and observations
          gaps  |-> {},                           \* the gaps table
          bar   |-> NoBarrier,                    \* the barrier columns
          pend  |-> {},                           \* pending_lifecycle
          life  |-> {},                           \* lifecycle
          kept  |-> FALSE]                        \* original_json is there

Init ==
  /\ StoreInit
  /\ j = NoRow
  /\ dev = [i \in Inputs |-> "none"] /\ told = {}
  /\ alive = "up"
  /\ pc = [t \in Threads |-> IF t = "begin" THEN "reserve" ELSE "idle"]
  /\ cut = {} /\ barred = FALSE /\ busy = {} /\ hold = NoThread
  /\ left = {}

To(t, step)  == pc' = [pc EXCEPT ![t] = step]

\* Threads use the session object that begin_recording returned.
Open == alive = "up" /\ pc["begin"] = "open"
Free == hold = NoThread

\* A caller starts a call: there are at most MaxCalls of them.
Starts(t) ==
  /\ Open /\ pc[t] = "idle"
  /\ Cardinality({u \in Inputs \cup Samples \cup Stops : pc[u] # "idle"}) < MaxCalls

-----------------------------------------------------------------------------
(* begin_recording.                                                        *)

\* The second reservation fails: the first one is closed.
BeginReserve ==
  /\ alive = "up" /\ pc["begin"] = "reserve"
  /\ \/ /\ Room(TRUE)
        /\ res' = Reserved("journal")
        /\ To("begin", "final") /\ NoFault
     \/ /\ Refused(TRUE)
        /\ To("begin", "refused") /\ UNCHANGED res
  /\ UNCHANGED <<rows, obj, tomb, pins, parts, files, call, out,
                 j, dev, told, alive, cut, barred, busy, hold, left>>

BeginFinal ==
  /\ alive = "up" /\ pc["begin"] = "final"
  /\ \/ /\ Room(FALSE)
        /\ res' = Reserved("final")
        /\ To("begin", "identity") /\ NoFault
     \/ /\ Refused(FALSE)
        /\ res' = Released({"journal"})
        /\ To("begin", "refused")
  /\ UNCHANGED <<rows, obj, tomb, pins, parts, files, call, out,
                 j, dev, told, alive, cut, barred, busy, hold, left>>

BeginIdentity ==
  /\ alive = "up" /\ pc["begin"] = "identity"
  /\ \/ /\ j' = [j EXCEPT !.st = "preparing"]
        /\ To("begin", "prepared") /\ NoFault /\ UNCHANGED res
     \/ /\ Fault("io")
        /\ res' = Released({"journal", "final"})
        /\ To("begin", "refused") /\ UNCHANGED j
  /\ UNCHANGED <<rows, obj, tomb, pins, parts, files, call, out,
                 dev, told, alive, cut, barred, busy, hold, left>>

BeginPrepared ==
  /\ alive = "up" /\ pc["begin"] = "prepared"
  /\ j' = [j EXCEPT !.st = "recording"]
  /\ To("begin", "open")
  /\ UNCHANGED <<storeVars, dev, told, alive, cut, barred, busy, hold, left>>

-----------------------------------------------------------------------------
(* Inputs: the calls of Lab.input around the provider.                     *)

Admits == j.st = "recording"

\* A refused admission stops the recording and ends the input.
AdmitInput(i) ==
  /\ Starts(i)
  /\ IF Admits
     THEN /\ j' = [j EXCEPT !.ev[i] = "admitted"]
          /\ To(i, "admitted") /\ UNCHANGED cut
     ELSE /\ To(i, "bar") /\ cut' = cut \cup {i} /\ UNCHANGED j
  /\ UNCHANGED <<storeVars, dev, told, alive, barred, busy, hold, left>>

MarkDispatched(i) ==
  /\ Open /\ pc[i] = "admitted"
  /\ IF Admits
     THEN /\ j' = [j EXCEPT !.ev[i] = "dispatched"]
          /\ To(i, "dispatched") /\ UNCHANGED cut
     ELSE /\ To(i, "bar") /\ cut' = cut \cup {i} /\ UNCHANGED j
  /\ UNCHANGED <<storeVars, dev, told, alive, barred, busy, hold, left>>

\* The provider executes the input or rejects it; its answer may be lost.
Execute(i) ==
  /\ Open /\ pc[i] = "dispatched"
  /\ \E did \in Outcomes, answered \in BOOLEAN :
       /\ dev' = [dev EXCEPT ![i] = did]
       /\ To(i, IF answered THEN "receipt" ELSE "done")
  /\ UNCHANGED <<storeVars, j, told, alive, cut, barred, busy, hold, left>>

\* Mutant: the status of a lifecycle receipt is written into the event.
ReceiptMut(i) ==
  CASE j.st = "recording"  -> [j EXCEPT !.ev[i] = "complete"]
    [] j.st = "finalizing" -> [j EXCEPT !.pend = @ \cup {i}]
    [] j.st \in Frozen     -> [j EXCEPT !.life = @ \cup {i}]

\* Mutant: until the freeze a receipt completes its event.
ReceiptMut2(i) ==
  IF j.st \in Frozen THEN [j EXCEPT !.life = @ \cup {i}] ELSE [j EXCEPT !.ev[i] = dev[i]]

\* Before the barrier a receipt completes its event; after it the events are
\* the original's, and the receipt becomes a lifecycle receipt.
Receipt(i) ==
  CASE j.st = "recording"  -> [j EXCEPT !.ev[i] = dev[i]]
    [] j.st = "finalizing" -> [j EXCEPT !.pend = @ \cup {i}]
    [] j.st \in Frozen     -> [j EXCEPT !.life = @ \cup {i}]

\* Once the original has expired, load() has deleted the events, and the
\* receipt has nothing to refer to.
RecordReceipt(i) ==
  /\ Open /\ pc[i] = "receipt"
  /\ To(i, "done")
  /\ IF j.ev[i] # "none" THEN j' = Receipt(i) /\ told' = told \cup {i}
                         ELSE UNCHANGED <<j, told>>
  /\ UNCHANGED <<storeVars, dev, alive, cut, barred, busy, hold, left>>

-----------------------------------------------------------------------------
(* Samples: record_frame, and record_observation, which pins nothing.      *)

BeginCollection(s) ==
  /\ Starts(s) /\ Free
  /\ IF barred THEN To(s, "done") /\ UNCHANGED busy
               ELSE To(s, "sample") /\ busy' = busy \cup {s}
  /\ UNCHANGED <<storeVars, j, dev, told, alive, cut, barred, hold, left>>

\* The samples of a kind are accepted in order of acquisition.
Newer(s) == \A o \in Samples :
  j.seen[o] # "none" /\ (o \in Pixels <=> s \in Pixels) => Acq[o] < Acq[s]

\* What the policy does not allow is suppressed, and a gap in a transaction
\* of its own.
AuthorizeSample(s) ==
  /\ Open /\ pc[s] = "sample"
  /\ \/ /\ j.st = "recording" /\ Newer(s)
        /\ \E decision \in {"approved"} \cup (IF "suppress" \in Events
                                              THEN {"suppressed"} ELSE {}) :
             /\ j' = [j EXCEPT !.seen[s] = decision]
             /\ To(s, IF decision = "approved" THEN "put" ELSE "gap")
     \/ /\ j.st # "recording" \/ ~Newer(s)
        /\ To(s, "end") /\ UNCHANGED j
  /\ UNCHANGED <<storeVars, dev, told, alive, cut, barred, busy, hold, left>>

\* A clock that has become discontinuous makes a gap instead of a frame.
StampFails(s) ==
  /\ Open /\ pc[s] = "put" /\ Fault("clock")
  /\ To(s, "gap")
  /\ UNCHANGED <<res, rows, obj, tomb, pins, parts, files, call, out,
                 j, dev, told, alive, cut, barred, busy, hold, left>>

\* The call of a sample ends without it and without a gap: its caller gets
\* nothing, or an error.
GiveUp(s) ==
  /\ told' = IF j.st = "recording" THEN told \cup {s} ELSE told
  /\ To(s, "end")

\* A frame whose capture ends after the longest recording, or whose timestamp
\* of the provider is not that of its sample, is not admitted, although its
\* sample is journalled.
SampleLate(s) ==
  /\ Open /\ pc[s] = "put" /\ s \in Pixels /\ Fault("late")
  /\ GiveUp(s)
  /\ UNCHANGED <<res, rows, obj, tomb, pins, parts, files, call, out,
                 j, dev, alive, cut, barred, busy, hold, left>>

StoreSample(s) ==
  /\ Open /\ pc[s] = "put"
  /\ PutBegin(s)
  /\ To(s, "stored")
  /\ UNCHANGED <<j, dev, told, alive, cut, barred, busy, hold, left>>

\* The pin of a frame; when the storage is exhausted, a gap and a stop.
SampleStored(s) ==
  /\ Open /\ pc[s] = "stored" /\ out[s] # "none" /\ call = Idle
  /\ IF out[s] = "ok" /\ (s \in Pixels => Pinnable(DigestOf[s]))
     THEN /\ IF s \in Pixels THEN Pin(DigestOf[s]) ELSE UNCHANGED pins
          /\ To(s, "media") /\ UNCHANGED cut
     ELSE /\ To(s, "gap") /\ cut' = cut \cup {s} /\ UNCHANGED pins
  /\ Taken(s)
  /\ UNCHANGED <<res, rows, obj, tomb, parts, files, call, faults,
                 j, dev, told, alive, barred, busy, hold, left>>

\* A frame that comes too late closes its pin: all frames with its bytes
\* share that pin.
SampleMedia(s) ==
  /\ Open /\ pc[s] = "media"
  /\ IF j.st = "recording"
     THEN /\ j' = [j EXCEPT !.media = @ \cup {s}] /\ UNCHANGED pins
     ELSE /\ IF s \in Pixels THEN Unpin({DigestOf[s]}) ELSE UNCHANGED pins
          /\ UNCHANGED j
  /\ To(s, "end")
  /\ UNCHANGED <<res, rows, obj, tomb, parts, files, call, out, faults,
                 dev, told, alive, cut, barred, busy, hold, left>>

\* The transaction of a sample, of its media or of its gap fails: an error of
\* SQLite, or a limit.  Nothing undoes the ones before it, a frame closes its
\* pin, and the stop that would follow a gap is not reached.
SampleFails(s) ==
  /\ Open /\ pc[s] \in {"sample", "media", "gap"} /\ Fault("io")
  /\ IF pc[s] = "media" /\ s \in Pixels THEN Unpin({DigestOf[s]}) ELSE UNCHANGED pins
  /\ cut' = cut \ {s}
  /\ GiveUp(s)
  /\ UNCHANGED <<res, rows, obj, tomb, parts, files, call, out,
                 j, dev, alive, barred, busy, hold, left>>

Gap(s) ==
  /\ Open /\ pc[s] = "gap"
  /\ j' = IF j.st \in {"recording", "finalizing"} THEN [j EXCEPT !.gaps = @ \cup {s}] ELSE j
  /\ To(s, IF s \in cut THEN "bar" ELSE "end")
  /\ UNCHANGED <<storeVars, dev, told, alive, cut, barred, busy, hold, left>>

EndCollection(s) ==
  /\ Open /\ Free /\ pc[s] = "end"
  /\ busy' = busy \ {s}
  /\ To(s, "done")
  /\ UNCHANGED <<storeVars, j, dev, told, alive, cut, barred, hold, left>>

-----------------------------------------------------------------------------
(* stop_barrier, and stop(), which holds the lock of the session for the   *)
(* barrier and the freeze.                                                 *)

\* Mutant: collections in flight are not counted.
CutsMut(t) == t \in cut

\* Stops are the callers that give no reason; a collection in flight is one.
Cuts(t) == t \in cut \/ busy # {}

Bar(t) ==
  /\ Open /\ Free
  /\ IF t \in Stops THEN Starts(t) ELSE pc[t] = "bar"
  /\ barred' = TRUE
  /\ cut' = IF Cuts(t) THEN cut \cup {t} ELSE cut
  /\ hold' = IF t \in Stops THEN NoThread ELSE t
  /\ To(t, "mark")
  /\ UNCHANGED <<storeVars, j, dev, told, alive, busy, left>>

\* Mutant: only the inputs with a receipt are before the barrier.
BarrierMut(reason) ==
  [j EXCEPT !.st = "finalizing",
            !.bar = [ev |-> {i \in Inputs : j.ev[i] \in {"injected", "rejected"}},
                     media |-> j.media, gaps |-> j.gaps, cut |-> reason]]

\* The barrier: what is journalled now is what the original will say.
Barrier(reason) ==
  [j EXCEPT !.st = "finalizing",
            !.bar = [ev |-> {i \in Inputs : j.ev[i] # "none"},
                     media |-> j.media, gaps |-> j.gaps, cut |-> reason]]

Mark(t) ==
  /\ Open /\ pc[t] = "mark"
  /\ j' = IF j.st = "recording" THEN Barrier(t \in cut) ELSE j
  /\ To(t, "freeze")
  /\ cut' = cut \ {t}
  /\ UNCHANGED <<storeVars, dev, told, alive, barred, busy, hold, left>>

-----------------------------------------------------------------------------
(* freeze, and the freeze of a recovery (thread "boot").                   *)

Running(t) == IF t = "boot" THEN alive = "boot" ELSE Open

\* What _original assembles: the events up to the barrier as they stand, the
\* media, and the interruptions.
OriginalOf(row) ==
  [events |-> [i \in row.bar.ev |-> row.ev[i]],
   media  |-> row.bar.media,
   gaps   |-> row.bar.gaps,
   cut    |-> row.bar.cut]

Unknowns(row) == {i \in row.bar.ev : row.ev[i] \in {"admitted", "dispatched"}}

\* A caller of freeze takes the lock of the session; stop() already has it.
Acquires(t) == IF t \in Stops THEN Free /\ hold' = t ELSE UNCHANGED hold

\* A frozen recording is only loaded.  A published original is used as it is;
\* otherwise the reservation of the recording pays for another put, and pc
\* names the attempt until it has returned.
FreezeRead(t) ==
  /\ Running(t) /\ pc[t] = "freeze" /\ Acquires(t)
  /\ \/ /\ j.st \in Frozen
        /\ To(t, "load") /\ UNCHANGED storeVars
     \/ /\ j.st = "finalizing" /\ call = Idle /\ Published(Original)
        /\ res' = IF obj[Original].res # "final" THEN Released({"final"}) ELSE res
        /\ To(t, "seal")
        /\ UNCHANGED <<rows, obj, tomb, pins, parts, files, call, out, faults>>
     \/ /\ j.st = "finalizing" /\ call = Idle /\ ~Published(Original) /\ Adoptable("final")
        /\ \E a \in Finals \ (rows \cup parts) : PutBegin(a) /\ To(t, a)
     \/ /\ j.st = "finalizing" /\ call = Idle /\ ~Published(Original) /\ ~Adoptable("final")
        /\ To(t, "fail") /\ UNCHANGED storeVars
  /\ UNCHANGED <<j, dev, told, alive, cut, barred, busy, left>>

FreezePut(t) ==
  /\ Running(t) /\ pc[t] \in Finals /\ call = Idle
  /\ To(t, IF out[pc[t]] = "ok" THEN "seal" ELSE "fail")
  /\ Taken(pc[t])
  /\ UNCHANGED <<res, rows, obj, tomb, pins, parts, files, call, faults,
                 j, dev, told, alive, cut, barred, busy, hold, left>>

\* Mutant: the pending receipts are dropped.
SealedMut(recovery) ==
  [j EXCEPT !.st = IF recovery \/ j.bar.cut \/ j.bar.gaps # {} \/ Unknowns(j) # {}
                   THEN "incomplete" ELSE "complete",
            !.kept = TRUE,
            !.life = @ \cup {"stop"} \cup (IF recovery THEN {"reconcile"} ELSE {}),
            !.pend = {}]

\* The freeze itself: the original, its stop receipt, the receipts that were
\* pending, and that of a recovery, in one transaction.
Sealed(recovery) ==
  LET original == OriginalOf(j)
      incomplete == recovery \/ original.cut \/ original.gaps # {} \/ Unknowns(j) # {}
  IN [j EXCEPT !.st = IF incomplete THEN "incomplete" ELSE "complete",
               !.kept = TRUE,
               !.life = @ \cup {"stop"} \cup j.pend
                          \cup (IF recovery THEN {"reconcile"} ELSE {}),
               !.pend = {}]

Seal(t) ==
  /\ Running(t) /\ pc[t] = "seal"
  /\ \/ /\ j' = IF j.st = "finalizing" THEN Sealed(t = "boot") ELSE j
        /\ To(t, "unpin") /\ NoFault
     \/ /\ Fault("io")
        /\ To(t, "fail") /\ UNCHANGED j
  /\ UNCHANGED <<res, rows, obj, tomb, pins, parts, files, call, out,
                 dev, told, alive, cut, barred, busy, hold, left>>

\* The pins go, and the journal's reservation becomes a permanent charge.
FreezeUnpin(t) ==
  /\ Running(t) /\ pc[t] = "unpin"
  /\ Unpin(Digests)
  /\ IF Live("journal") THEN res' = Committed("journal") /\ To(t, "load")
                        ELSE UNCHANGED res /\ To(t, "fail")
  /\ UNCHANGED <<rows, obj, tomb, parts, files, call, out, faults,
                 j, dev, told, alive, cut, barred, busy, hold, left>>

\* load() of an expired original deletes what the journal still says of it,
\* except the digest and the lifecycle receipts.
Purged ==
  [j EXCEPT !.ev = NoRow.ev, !.seen = NoRow.seen, !.media = {}, !.gaps = {},
            !.pend = {}, !.kept = FALSE]
Loaded == IF Original \in tomb THEN Purged ELSE j

\* Who ends: a collection goes on to its end, and a recovery that fails
\* leaves the journal closed.
After(t) == IF t \in Samples THEN "end" ELSE "done"

FreezeLoad(t) ==
  /\ Running(t) /\ pc[t] = "load" /\ call = Idle
  /\ j' = Loaded
  /\ To(t, After(t))
  /\ hold' = IF hold = t THEN NoThread ELSE hold
  /\ alive' = IF t = "boot" THEN "up" ELSE alive
  /\ UNCHANGED <<storeVars, dev, told, cut, barred, busy, left>>

FreezeFail(t) ==
  /\ Running(t) /\ pc[t] = "fail"
  /\ To(t, After(t))
  /\ hold' = IF hold = t THEN NoThread ELSE hold
  /\ alive' = IF t = "boot" THEN "failed" ELSE alive
  /\ UNCHANGED <<storeVars, j, dev, told, cut, barred, busy, left>>

-----------------------------------------------------------------------------
(* Calls of the journal outside the session.                               *)

Load ==
  /\ alive = "up" /\ j.st \in Frozen /\ j.kept /\ Original \in tomb /\ call = Idle
  /\ j' = Loaded
  /\ UNCHANGED <<storeVars, dev, told, alive, pc, cut, barred, busy, hold, left>>

\* append_lifecycle: what happened to the device, reported once a freeze has
\* returned.
AppendLifecycle ==
  /\ alive = "up" /\ "lifecycle" \in Events /\ j.st \in Frozen /\ Free
  /\ j' = [j EXCEPT !.life = @ \cup {"cleanup"}]
  /\ UNCHANGED <<storeVars, dev, told, alive, pc, cut, barred, busy, hold, left>>

-----------------------------------------------------------------------------
(* Crash, and opening the store and the journal again.                     *)

Crash ==
  /\ alive \in {"up", "boot"} /\ Fault("crash")
  /\ alive' = "down"
  /\ pc' = [t \in Threads |-> IF t = "begin" THEN "gone" ELSE "done"]
  /\ call' = Idle /\ cut' = {} /\ barred' = FALSE /\ busy' = {} /\ hold' = NoThread /\ left' = {}
  /\ out' = [a \in Attempts |-> "none"]
  /\ UNCHANGED <<res, rows, obj, tomb, pins, parts, files, j, dev, told>>

\* The constructor of the store, then that of the journal.
Reopen ==
  /\ alive \in {"down", "failed"}
  /\ alive' = "boot"
  /\ To("boot", "budget")
  /\ UNCHANGED <<storeVars, j, dev, told, cut, barred, busy, hold, left>>

Booting(step) == alive = "boot" /\ pc["boot"] = step

BootBudget ==
  /\ Booting("budget")
  /\ IF ChargesIntact THEN res' = Recharged /\ To("boot", "tombs")
                      ELSE UNCHANGED res /\ To("boot", "fail")
  /\ UNCHANGED <<rows, obj, tomb, pins, parts, files, call, out, faults,
                 j, dev, told, alive, cut, barred, busy, hold, left>>

BootTombstones ==
  /\ Booting("tombs")
  /\ \E removed \in BOOLEAN :
       /\ removed \/ Tombstoned # {}
       /\ Removal(removed)
       /\ Reconciled(IF removed THEN Tombstoned ELSE {})
  /\ To("boot", "barrier")
  /\ UNCHANGED <<rows, tomb, pins, parts, call, out,
                 j, dev, told, alive, cut, barred, busy, hold, left>>

\* _recover_unfinished: an interrupted recording gets its barrier now.
RecoverBarrier ==
  /\ Booting("barrier")
  /\ IF j.st \in Frozen \cup {"none"}
     THEN To("boot", "done") /\ alive' = "up" /\ UNCHANGED j
     ELSE /\ j' = IF j.st = "finalizing" THEN j ELSE Barrier(TRUE)
          /\ To("boot", "final") /\ UNCHANGED alive
  /\ UNCHANGED <<storeVars, dev, told, cut, barred, busy, hold, left>>

\* abandon_reservation(release=False): the charge of the original stays.
RecoverFinal ==
  /\ Booting("final")
  /\ \E removed \in BOOLEAN :
       LET A == IF removed THEN {a \in rows : ResOf[a] = "final"} ELSE {}
       IN Removal(removed) /\ parts' = parts \ A /\ rows' = rows \ A
  /\ To("boot", "files")
  /\ UNCHANGED <<res, obj, tomb, pins, files, call, out,
                 j, dev, told, alive, cut, barred, busy, hold, left>>

\* abandon_owner: the files of the other staging rows, the rows, the charges.
RecoverFiles ==
  /\ Booting("files")
  /\ \E removed \in BOOLEAN :
       LET A == IF removed THEN {a \in rows : ResOf[a] # "final"} ELSE {}
       IN /\ Removal(removed)
          /\ parts' = parts \ A
          /\ files' = files \ Unpublished(A)
          /\ left' = A
  /\ To("boot", "rows")
  /\ UNCHANGED <<res, rows, obj, tomb, pins, call, out,
                 j, dev, told, alive, cut, barred, busy, hold>>

RecoverRows ==
  /\ Booting("rows")
  /\ rows' = rows \ left
  /\ To("boot", "charges")
  /\ UNCHANGED <<res, obj, tomb, pins, parts, files, call, out, faults,
                 j, dev, told, alive, cut, barred, busy, hold, left>>

RecoverCharges ==
  /\ Booting("charges")
  /\ res' = Released({ResOf[a] : a \in left})
  /\ left' = {}
  /\ To("boot", "freeze")
  /\ UNCHANGED <<rows, obj, tomb, pins, parts, files, call, out, faults,
                 j, dev, told, alive, cut, barred, busy, hold>>

-----------------------------------------------------------------------------
StoreStep ==
  /\ alive \in {"up", "boot"}
  /\ StorePut
  /\ UNCHANGED recVars

\* _maintain expires evidence while the Lab is up.
Retention ==
  /\ alive = "up"
  /\ StoreTombstone
  /\ UNCHANGED recVars

Beginning == BeginReserve \/ BeginFinal \/ BeginIdentity \/ BeginPrepared

Input(i) == AdmitInput(i) \/ MarkDispatched(i) \/ Execute(i) \/ RecordReceipt(i)

Sample(s) == \/ BeginCollection(s) \/ AuthorizeSample(s) \/ StampFails(s) \/ SampleLate(s)
             \/ StoreSample(s) \/ SampleStored(s) \/ SampleMedia(s) \/ SampleFails(s)
             \/ Gap(s) \/ EndCollection(s)

Stop(t) == Bar(t) \/ Mark(t)

Freeze(t) == \/ FreezeRead(t) \/ FreezePut(t) \/ Seal(t) \/ FreezeUnpin(t)
             \/ FreezeLoad(t) \/ FreezeFail(t)

Recover == \/ Reopen \/ BootBudget \/ BootTombstones \/ RecoverBarrier
           \/ RecoverFinal \/ RecoverFiles \/ RecoverRows \/ RecoverCharges

Next == \/ Beginning
        \/ \E i \in Inputs : Input(i)
        \/ \E s \in Samples : Sample(s)
        \/ \E t \in Inputs \cup Samples \cup Stops : Stop(t)
        \/ \E t \in Inputs \cup Samples \cup Stops \cup {"boot"} : Freeze(t)
        \/ StoreStep \/ Retention
        \/ Load \/ AppendLifecycle
        \/ Crash \/ Recover

Spec == Init /\ [][Next]_vars

-----------------------------------------------------------------------------
(* Properties of a recording.                                              *)

\* What the device did is in the original: an executed input was admitted
\* before the barrier, and the original says its outcome or that it is unknown,
\* however the dispatch raced with stops, crashes and recoveries
\* (mark_dispatched at recording_session.py:1344, _original at :729).
InjectedIsRecorded ==
  j.st \in Frozen /\ j.kept =>
    \A i \in Inputs :
      /\ dev[i] # "none" => i \in j.bar.ev /\ j.ev[i] \in {dev[i], "dispatched"}
      /\ i \in j.bar.ev /\ j.ev[i] \in {"injected", "rejected"} => j.ev[i] = dev[i]

\* frozen-complete means that no stop cut the recording: every sample that was
\* journalled is approved and in the original, or its own call gave it up before
\* the barrier and told its caller (a frame out of the window, :1595; a failed
\* transaction, :1282, :1667, :1801), and no input has an unknown outcome.  So
\* no collection was between its journalled sample and its media when the
\* barrier was set (stop_barrier counts the collections in flight, :1808;
\* _freeze_id chooses the state, :889).
CompleteIsComplete ==
  j.st = "complete" /\ j.kept =>
    /\ \A s \in Samples : j.seen[s] # "none" =>
         s \in told \/ (j.seen[s] = "approved" /\ s \in j.bar.media)
    /\ \A i \in j.bar.ev : dev[i] # "none" /\ j.ev[i] = dev[i]

\* An outcome that record_receipt confirmed is never lost: it is in the events
\* or waits for or is in the lifecycle receipts, through freeze, crash and
\* recovery (:1365).
OutcomeKept ==
  \A i \in told \cap Inputs : \/ j.ev[i] = dev[i]
                              \/ i \in j.pend \cup j.life
                              \/ (j.st \in Frozen /\ ~j.kept)

\* From the barrier on the original is determined: no receipt, gap, late frame
\* or recovery changes what a freeze would publish, so that a freeze repeated
\* after a crash finds the same digest; a frozen state is final, and only the
\* expiry of the original deletes it (:1344, :1365, :1632, :843).
OriginalFixed ==
  [][j.st \in Frozen \cup {"finalizing"} =>
       /\ OriginalOf(j') = OriginalOf(j) \/ (~j'.kept /\ Original \in tomb)
       /\ j.st \in Frozen => j'.st = j.st /\ j.life \subseteq j'.life]_vars

\* A recovery can freeze what it finds: when it gets there, the original is
\* published, or the reservation that pays for it is still the recording's.
\* docs/DURABLE-RECORDING.md:189: "Recovery produces `frozen-incomplete` status
\* and a failed reconciliation lifecycle receipt."
Reopens ==
  alive = "boot" /\ pc["boot"] = "freeze" => Published(Original) \/ Adoptable("final")
=============================================================================
