---------------------------- MODULE EvidenceStore ----------------------------
(***************************************************************************)
(* The content-addressed evidence store and the disk budget it charges:    *)
(* src/reproof/live/evidence_store.py, src/reproof/live/disk_budget.py.    *)
(*                                                                         *)
(* The budget and the store are two SQLite databases, the bytes are files, *)
(* and nothing spans the three.  One process has the store open and its    *)
(* methods run one at a time under the lock of the store: `call' is the    *)
(* method that holds the lock and how far it came.  Its steps are what is  *)
(* durable one after the other, so that a crash can come between any two.  *)
(* The module has the operations; a module that uses them gives them       *)
(* callers, crashes and the reopening of the store.                        *)
(***************************************************************************)
EXTENDS Naturals, FiniteSets

CONSTANTS
  Attempts,     \* the blobs written: one staging identity each
  Digests,      \* what their contents hash to
  DigestOf,     \* DigestOf[a]: the digest of the bytes of attempt a
  ResIds,       \* the reservations of the budget
  ResOf,        \* ResOf[a]: the reservation attempt a is charged to
  Given,        \* reservations their owner made before the blob is begun
  Capacity,     \* capacity_bytes less metadata headroom, a reservation being 1
  Headroom,     \* journal_headroom_bytes
  MaxStaging,   \* max_staging
  MaxExpired,   \* bound: digests that expire
  MaxFaults,    \* bound: things that go wrong in a behaviour
  Events        \* what happens in this instance: the faults "full", "io", "unlink"
                \* (and "crash", "clock", "late" of a recording), and "expire"

ASSUME StoreAssumption ==
  /\ DigestOf \in [Attempts -> Digests]
  /\ ResOf \in [Attempts -> ResIds]
  /\ Given \subseteq ResIds
  /\ Capacity \in Nat /\ Headroom \in Nat /\ MaxStaging \in Nat
  /\ MaxExpired \in Nat /\ MaxFaults \in Nat

VARIABLES
  res,    \* the reservations table: state per reservation, "none" without a row
  rows,   \* the staging table: attempts
  obj,    \* the objects table: state, and the reservation it is charged to
  tomb,   \* the tombstones table: digests
  pins,   \* the pins table: digests the recording has pinned (it has one pin id)
  parts,  \* the files under staging/: attempts
  files,  \* the files under objects/sha256/: digests
  call,   \* the method that holds the lock of the store
  out,    \* what a put has returned and its caller has not read yet
  faults  \* how many faults there were

storeVars == <<res, rows, obj, tomb, pins, parts, files, call, out, faults>>

NoObject == [st |-> "none", res |-> "none"]
Idle     == [op |-> "idle", of |-> "none", ok |-> FALSE]

\* A put works for its attempt, a tombstone for its digest.
PutOps == {"row", "publish", "commit", "charge", "abort", "drop", "free"}
Calls  == {Idle} \cup [op : PutOps, of : Attempts, ok : BOOLEAN]
                 \cup [op : {"forget", "rest"}, of : Digests, ok : BOOLEAN]

StoreTypeOK ==
  /\ res \in [ResIds -> {"none", "active", "committed"}]
  /\ rows \subseteq Attempts
  /\ obj \in [Digests -> [st : {"none", "published", "tombstoned"},
                          res : ResIds \cup {"none"}]]
  /\ tomb \subseteq Digests
  /\ pins \subseteq Digests
  /\ parts \subseteq Attempts
  /\ files \subseteq Digests
  /\ call \in Calls
  /\ out \in [Attempts -> {"none", "ok", "no"}]
  /\ faults \in 0 .. MaxFaults

StoreInit ==
  /\ res = [r \in ResIds |-> "none"]
  /\ rows = {} /\ tomb = {} /\ pins = {} /\ parts = {} /\ files = {}
  /\ obj = [d \in Digests |-> NoObject]
  /\ call = Idle
  /\ out = [a \in Attempts |-> "none"]
  /\ faults = 0

-----------------------------------------------------------------------------
(* Faults.                                                                 *)

Fault(kind) == kind \in Events /\ faults < MaxFaults /\ faults' = faults + 1
NoFault     == UNCHANGED faults

\* The answer of _remove_file: a failed unlink or directory flush is FALSE.
Removal(removed) == IF removed THEN NoFault ELSE Fault("unlink")

-----------------------------------------------------------------------------
(* The budget.                                                             *)

Live(r)      == res[r] # "none"
Published(d) == obj[d].st = "published"

\* Journal reservations may use the whole capacity, the others leave the
\* journal headroom.
Room(journal) ==
  LET total == {r \in ResIds : Live(r)}
      media == total \ {"journal"}
  IN /\ Cardinality(total) < Capacity
     /\ journal \/ Cardinality(media) < Capacity - Headroom

\* reserve() also refuses when the file system has too little space left.
Refused(journal) == IF Room(journal) THEN Fault("full") ELSE NoFault

Reserved(r)  == [res EXCEPT ![r] = "active"]
Committed(r) == [res EXCEPT ![r] = "committed"]
Released(R)  == [r \in ResIds |-> IF r \in R THEN "none" ELSE res[r]]

\* adopt() finds an active reservation only.
Adoptable(r) == res[r] = "active"

-----------------------------------------------------------------------------
(* put_bytes: begin_blob, write, publish, all under the lock.              *)

At(op)          == call.op = op
Goto(op)        == call' = [call EXCEPT !.op = op]
Answer(a, what) == out' = [out EXCEPT ![a] = what] /\ call' = Idle

\* begin_blob makes a reservation, or takes the one its owner has adopted, and
\* opens the staged file.
PutBegin(a) ==
  /\ call = Idle
  /\ \/ /\ \/ ResOf[a] \notin Given /\ Room(FALSE) /\ res' = Reserved(ResOf[a])
           \/ ResOf[a] \in Given /\ Adoptable(ResOf[a]) /\ UNCHANGED res
        /\ parts' = parts \cup {a}
        /\ call' = [op |-> "row", of |-> a, ok |-> TRUE]
        /\ NoFault /\ UNCHANGED out
     \/ /\ ResOf[a] \notin Given /\ Refused(FALSE)
        /\ Answer(a, "no")
        /\ UNCHANGED <<res, parts>>
  /\ UNCHANGED <<rows, obj, tomb, pins, files>>

\* put_bytes returns to its caller.
Taken(a) == out' = [out EXCEPT ![a] = "none"]

\* The failures of begin_blob give the reservation back, also the one that
\* the caller brought.
Stageable(a) == DigestOf[a] \notin tomb /\ Cardinality(rows) < MaxStaging

PutRow ==
  /\ At("row") /\ Stageable(call.of)
  /\ rows' = rows \cup {call.of}
  /\ Goto("publish")
  /\ UNCHANGED <<res, obj, tomb, pins, parts, files, out, faults>>

BeginFails ==
  /\ At("row")
  /\ LET a == call.of IN
     /\ \/ /\ IF Stageable(a) THEN Fault("io") ELSE NoFault
           /\ parts' = parts \ {a}
           /\ res' = Released({ResOf[a]})
        \/ /\ Fault("unlink")
           /\ UNCHANGED <<res, parts>>
     /\ Answer(a, "no")
  /\ UNCHANGED <<rows, obj, tomb, pins, files>>

\* _publish_writer installs the file under the write lock of the database.
\* A file that is already there is adopted, a published object is shared.
PutInstall ==
  /\ At("publish")
  /\ LET a == call.of  d == DigestOf[a] IN
     /\ a \in rows /\ d \notin tomb /\ obj[d].st # "tombstoned"
     /\ parts' = parts \ {a}
     /\ files' = IF Published(d) THEN files ELSE files \cup {d}
  /\ Goto("commit")
  /\ UNCHANGED <<res, rows, obj, tomb, pins, out, faults>>

PutCommit ==
  /\ At("commit")
  /\ LET a == call.of  d == DigestOf[a] IN
     /\ rows' = rows \ {a}
     /\ IF Published(d)
        THEN Goto("free") /\ UNCHANGED obj
        ELSE /\ obj' = [obj EXCEPT ![d] = [st |-> "published", res |-> ResOf[a]]]
             /\ Goto("charge")
  /\ UNCHANGED <<res, tomb, pins, parts, files, out, faults>>

PutCharge ==
  /\ At("charge")
  /\ LET a == call.of IN
     IF Live(ResOf[a]) THEN res' = Committed(ResOf[a]) /\ Answer(a, "ok")
                       ELSE UNCHANGED res /\ Answer(a, "no")
  /\ UNCHANGED <<rows, obj, tomb, pins, parts, files, faults>>

\* A publication that raises leaves the staging row and the reservation,
\* before or after the file was installed.
PutStuck ==
  /\ Fault("io") /\ (At("publish") \/ At("commit"))
  /\ Answer(call.of, "no")
  /\ UNCHANGED <<res, rows, obj, tomb, pins, parts, files>>

\* A failed write, and a digest found tombstoned, abort the writer.
PutGiveUp ==
  /\ At("publish")
  /\ IF DigestOf[call.of] \in tomb THEN NoFault ELSE Fault("io")
  /\ call' = [call EXCEPT !.op = "abort", !.ok = FALSE]
  /\ UNCHANGED <<res, rows, obj, tomb, pins, parts, files, out>>

\* _abort_writer: the files first, then the row, then the charge.
PutAbort ==
  /\ At("abort")
  /\ LET a == call.of  d == DigestOf[a] IN
     \E removed \in BOOLEAN :
       /\ Removal(removed)
       /\ IF removed
          THEN /\ parts' = parts \ {a}
               /\ files' = IF Published(d) THEN files ELSE files \ {d}
               /\ Goto("drop") /\ UNCHANGED out
          ELSE Answer(a, "no") /\ UNCHANGED <<parts, files>>
  /\ UNCHANGED <<res, rows, obj, tomb, pins>>

PutDrop ==
  /\ At("drop")
  /\ rows' = rows \ {call.of}
  /\ Goto("free")
  /\ UNCHANGED <<res, obj, tomb, pins, parts, files, out, faults>>

\* The last step of an abort, and of a put that found its bytes published.
PutFree ==
  /\ At("free")
  /\ res' = Released({ResOf[call.of]})
  /\ Answer(call.of, IF call.ok THEN "ok" ELSE "no")
  /\ UNCHANGED <<rows, obj, tomb, pins, parts, files, faults>>

-----------------------------------------------------------------------------
(* apply_retention tombstones what has expired and is not pinned.          *)

\* The transaction and the unlink are one step: a crash between them leaves
\* what an unlink that fails leaves.
Tombstone(d) ==
  /\ "expire" \in Events
  /\ call = Idle
  /\ Published(d) \/ \E a \in rows : DigestOf[a] = d
  /\ d \notin pins
  /\ Cardinality(tomb \cup {d}) <= MaxExpired
  /\ tomb' = tomb \cup {d}
  /\ \E removed \in BOOLEAN :
       /\ removed \/ d \in files
       /\ Removal(removed)
       /\ files' = IF removed THEN files \ {d} ELSE files
       /\ IF obj[d].st = "none"
          THEN call' = [op |-> "rest", of |-> d, ok |-> FALSE] /\ UNCHANGED obj
          ELSE /\ call' = [op |-> IF removed THEN "forget" ELSE "rest", of |-> d, ok |-> TRUE]
               /\ obj' = [obj EXCEPT ![d].st = "tombstoned"]
  /\ UNCHANGED <<res, rows, pins, parts, out>>

\* The charge goes once the file is gone, and then the row (a crash in between
\* leaves a tombstoned row that _reconcile_tombstones treats alike).  The staged
\* files of the digest go too; their rows and charges stay for their producer.
TombForget ==
  /\ At("forget") \/ At("rest")
  /\ IF At("forget")
     THEN /\ res' = Released({obj[call.of].res})
          /\ obj' = [obj EXCEPT ![call.of] = NoObject]
     ELSE UNCHANGED <<res, obj>>
  /\ \E removed \in BOOLEAN :
       /\ removed \/ \E a \in parts \cap rows : DigestOf[a] = call.of
       /\ Removal(removed)
       /\ parts' = IF removed THEN parts \ {a \in rows : DigestOf[a] = call.of} ELSE parts
  /\ call' = Idle
  /\ UNCHANGED <<rows, tomb, pins, files, out>>

-----------------------------------------------------------------------------
(* Calls that are one transaction.                                         *)

Pinnable(d) == Published(d) /\ d \notin tomb
Pin(d)      == call = Idle /\ pins' = pins \cup {d}
Unpin(D)    == call = Idle /\ pins' = pins \ D

-----------------------------------------------------------------------------
(* Opening the store, and what the recovery of an owner asks of it.        *)

\* _reconcile_budget: a published object without a charge is a failure.
ChargesIntact == \A d \in Digests : Published(d) => Live(obj[d].res)
Recharged == [r \in ResIds |-> IF \E d \in Digests : Published(d) /\ obj[d].res = r
                               THEN "committed" ELSE res[r]]

\* _reconcile_tombstones for the objects D whose file could be removed.
Reconciled(D) ==
  /\ files' = files \ D
  /\ obj' = [d \in Digests |-> IF d \in D THEN NoObject ELSE obj[d]]
  /\ res' = [r \in ResIds |-> IF r \in {obj[d].res : d \in D} THEN "none" ELSE res[r]]

Tombstoned == {d \in Digests : obj[d].st = "tombstoned"}

\* Mutant: an installed file without an object is forgotten.
UnpublishedMut(A) == {}

\* Mutant: the file of an object that another blob has published is removed.
UnpublishedMut2(A) == {DigestOf[a] : a \in A}

\* abandon_owner removes the staged files of an owner, and the final files
\* that were never published.
Unpublished(A) == {d \in {DigestOf[a] : a \in A} : ~Published(d)}

StorePut == \/ PutRow \/ BeginFails \/ PutInstall \/ PutCommit \/ PutCharge
            \/ PutStuck \/ PutGiveUp \/ PutAbort \/ PutDrop \/ PutFree
StoreTombstone == \/ \E d \in Digests : Tombstone(d)
                  \/ TombForget

-----------------------------------------------------------------------------
(* Properties of the store.                                                *)

\* No byte is on disk without a charge: as long as the staged or the final file
\* of a blob exists, a reservation made for these bytes is in the budget.  It is
\* about blobs with a reservation of their own: several attempts may share the
\* one their owner gave them.  Comments at evidence_store.py:334 and :582;
\* docs/DURABLE-RECORDING.md:170, :180.
NoUnchargedBytes ==
  /\ \A a \in parts : ResOf[a] \notin Given => Live(ResOf[a])
  /\ \A d \in files :
       LET own == {a \in Attempts : DigestOf[a] = d /\ ResOf[a] \notin Given}
       IN own # {} => \E a \in own : Live(ResOf[a])

\* What readers may see is readable and paid for, and a published digest is
\* never a tombstoned one: lookup() and read() find the file.
PublishedReadable ==
  \A d \in Digests : Published(d) => d \in files /\ d \notin tomb /\ Live(obj[d].res)
=============================================================================
