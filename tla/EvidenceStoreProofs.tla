------------------------- MODULE EvidenceStoreProofs -------------------------
(***************************************************************************)
(* Proofs about the evidence store under a recording: what is readable is  *)
(* paid for, and what is on disk is paid for, whatever fails and wherever  *)
(* the process crashes.                                                    *)
(***************************************************************************)
EXTENDS RecordingProofs

\* The put that holds the lock works for attempt a.
Putting(a) == call.op \in PutOps /\ call.of = a

\* An object is charged to the reservation of attempt a.
ChargedTo(a) == obj[DigestOf[a]].st # "none" /\ obj[DigestOf[a]].res = ResOf[a]

\* Nothing is stored before begin_recording has returned.
NothingStored ==
  pc["begin"] \notin {"open", "gone"} =>
    /\ call = Idle /\ rows = {} /\ parts = {} /\ files = {}
    /\ \A d \in Digests : obj[d].st = "none"

\* While the process is down or booting, only the put of the original uses the
\* store.
StoreQuiet == alive = "up" \/ (alive = "boot" /\ pc["boot"] \in Finals) \/ call = Idle

\* An object is charged to one of the attempts that had its bytes.
ObjectCharged(d) ==
  /\ obj[d].st # "none" => \E a \in Attempts : DigestOf[a] = d /\ obj[d].res = ResOf[a]
  /\ obj[d].st = "tombstoned" /\ obj[d].res # "final" => Live(obj[d].res)
  /\ Published(d) => d \in files /\ d \notin tomb /\ Live(obj[d].res)

\* A sample is put once, and its reservation has one use at a time: a file
\* under staging/ and a row, or an object.
SampleCharged(s) ==
  /\ pc[s] \in {"idle", "sample", "put"} =>
       s \notin rows \cup parts /\ ~ChargedTo(s) /\ ~Putting(s)
  /\ ChargedTo(s) => /\ s \notin rows \cup parts \cup left
                     /\ Putting(s) => call.op = "charge"
  /\ s \in rows \cup parts => Live(ResOf[s])

\* What the call that holds the lock has achieved.
CallCharged ==
  /\ call.op \in PutOps =>
       LET a == call.of  d == DigestOf[a] IN
       /\ Live(ResOf[a])
       /\ a \in Finals /\ call.op # "charge" => ~Published(d)
       /\ a \in Samples /\ call.op = "row" => a \notin rows
       /\ call.op \in {"commit", "drop", "free"} => a \notin parts
       /\ call.op \in {"free", "charge"} => a \notin rows
       /\ call.op = "commit" => d \in files /\ d \notin tomb
       /\ call.op = "drop" => d \notin files \/ Published(d)
  /\ call.op = "forget" => obj[call.of].st = "tombstoned" /\ call.of \notin files

\* The attempts whose rows and charges a recovery is about to drop.
LeftCharged ==
  /\ left # {} => alive = "boot" /\ pc["boot"] \in {"rows", "charges"}
  /\ pc["boot"] = "charges" => left \cap rows = {}
  /\ \A a \in left : /\ a \in Samples /\ a \notin parts
                     /\ DigestOf[a] \in files => Published(DigestOf[a])

\* The bytes of a sample under objects/ have an object or a staging row.
FileCharged(d) ==
  d \in files /\ (\E s \in Samples : DigestOf[s] = d) =>
    obj[d].st # "none" \/ \E s \in Samples \cap rows : DigestOf[s] = d

\* The inductive invariant of the store.
StoreInv ==
  /\ NothingStored
  /\ StoreQuiet
  /\ \A d \in Digests : ObjectCharged(d) /\ FileCharged(d)
  /\ \A s \in Samples : SampleCharged(s)
  /\ CallCharged
  /\ LeftCharged

-----------------------------------------------------------------------------
(* Names and charges.                                                      *)

\* The reservations and digests of samples and of originals.
LEMMA AttemptNames ==
  /\ \A a \in Attempts : a \in Samples \/ a \in Finals
  /\ \A a \in Attempts : ResOf[a] \in ResIds /\ DigestOf[a] \in Digests
  /\ \A s \in Samples : s \in Attempts /\ s \notin Finals /\ s \in Threads
                        /\ ResOf[s] \notin {"journal", "final"} /\ DigestOf[s] # Original
  /\ \A a \in Finals : a \in Attempts /\ a \notin Samples
                       /\ ResOf[a] = "final" /\ DigestOf[a] = Original
  /\ \A s, o \in Samples : ResOf[s] = ResOf[o] => s = o
BY StoreAssumption, RecordingAssumption, SampleAssumption, FinalNames, ThreadNames

\* Whose reservation an object is charged to.
LEMMA ChargeNames ==
  ASSUME NEW d \in Digests, obj[d].st # "none", ObjectCharged(d)
  PROVE  /\ obj[d].res \in ResIds
         /\ obj[d].res = "final" => d = Original
         /\ \A s \in Samples : obj[d].res = ResOf[s] => DigestOf[s] = d /\ ChargedTo(s)
         /\ obj[d].res # "final" => \E s \in Samples : obj[d].res = ResOf[s] /\ DigestOf[s] = d
<1>1. PICK a \in Attempts : DigestOf[a] = d /\ obj[d].res = ResOf[a]
  BY DEF ObjectCharged
<1> QED BY <1>1, AttemptNames DEF ChargedTo

\* Two objects are not charged to one reservation.
LEMMA ChargeUnique ==
  ASSUME NEW d \in Digests, NEW e \in Digests, obj[d].st # "none", obj[e].st # "none",
         ObjectCharged(d), ObjectCharged(e), obj[d].res = obj[e].res
  PROVE  d = e
<1>1. CASE obj[d].res = "final"
  BY <1>1, ChargeNames
<1>2. CASE obj[d].res # "final"
  BY <1>2, ChargeNames
<1> QED BY <1>1, <1>2

-----------------------------------------------------------------------------
(* Steps of the store.                                                     *)

\* Steps that at most give up the lock of the store or add a charge.
LEMMA StoreLeftAlone ==
  ASSUME StoreInv, TypeOK,
         UNCHANGED <<rows, obj, tomb, parts, files>>,
         call' = call \/ call' = Idle,
         \A r \in ResIds : Live(r) => Live(r)',
         left' = {},
         pc["begin"] \in {"open", "gone"} => pc'["begin"] \in {"open", "gone"},
         alive' = "up" \/ (alive' = "boot" /\ pc'["boot"] \in Finals) \/ call' = Idle,
         \A s \in Samples : pc'[s] \in {"idle", "sample", "put"} => pc[s] \in {"idle", "sample", "put"}
  PROVE  StoreInv'
<1>0. Idle.op = "idle" /\ "idle" \notin PutOps
  BY DEF Idle, PutOps
<1>1. NothingStored'
  BY DEF StoreInv, NothingStored
<1>2. StoreQuiet'
  BY DEF StoreQuiet
<1>3. ASSUME NEW d \in Digests
      PROVE  ObjectCharged(d)' /\ FileCharged(d)'
  <2>1. ObjectCharged(d) /\ FileCharged(d)
    BY DEF StoreInv
  <2>2. obj[d].st # "none" => obj[d].res \in ResIds
    BY <2>1, ChargeNames
  <2> QED BY <2>1, <2>2 DEF ObjectCharged, FileCharged, Published
<1>4. ASSUME NEW s \in Samples
      PROVE  SampleCharged(s)'
  <2>1. SampleCharged(s) /\ ResOf[s] \in ResIds
    BY AttemptNames DEF StoreInv
  <2>2. ChargedTo(s)' <=> ChargedTo(s)
    BY DEF ChargedTo
  <2>3. Putting(s)' => Putting(s) /\ call' = call
    BY <1>0 DEF Putting
  <2> QED BY <2>1, <2>2, <2>3 DEF SampleCharged
<1>5. CallCharged'
  <2>1. CASE call' = Idle
    BY <1>0, <2>1 DEF CallCharged
  <2>2. CASE call' = call
    <3>1. call.op \in PutOps => ResOf[call.of] \in ResIds
      BY CallKinds, AttemptNames DEF TypeOK, StoreTypeOK
    <3> QED BY <2>2, <3>1 DEF StoreInv, CallCharged, Published
  <2> QED BY <2>1, <2>2
<1>6. LeftCharged'
  BY DEF LeftCharged
<1> QED BY <1>1, <1>2, <1>3, <1>4, <1>5, <1>6 DEF StoreInv

\* What is known when a put takes its next step.
LEMMA PutFacts ==
  ASSUME JournalInv, StoreInv, StoreStep
  PROVE  /\ call.op \in PutOps /\ call.of \in Attempts /\ DigestOf[call.of] \in Digests
         /\ ResOf[call.of] \in ResIds
         /\ left = {} /\ pc["begin"] \in {"open", "gone"}
         /\ UNCHANGED recVars
         /\ alive = "up" \/ (alive = "boot" /\ pc["boot"] \in Finals)
         /\ call.of \in Samples => SampleCharged(call.of) /\ pc[call.of] \notin {"idle", "sample", "put"}
<1>1. call.op \in PutOps
  BY DEF StoreStep, StorePut, PutRow, BeginFails, PutInstall, PutCommit, PutCharge,
         PutStuck, PutGiveUp, PutAbort, PutDrop, PutFree, At, PutOps
<1>2. call # Idle
  BY <1>1 DEF Idle, PutOps
<1>3. alive = "up" \/ (alive = "boot" /\ pc["boot"] \in Finals)
  BY <1>2 DEF StoreInv, StoreQuiet
<1>4. left = {}
  BY <1>3, FinalNames DEF StoreInv, LeftCharged, Steps
<1>5. pc["begin"] \in {"open", "gone"}
  BY <1>2 DEF StoreInv, NothingStored
<1>6. call.of \in Attempts
  BY <1>1, CallKinds DEF JournalInv, TypeOK, StoreTypeOK
<1>7. call.of \in Samples => SampleCharged(call.of) /\ pc[call.of] \notin {"idle", "sample", "put"}
  BY <1>1 DEF StoreInv, SampleCharged, Putting
<1> QED BY <1>1, <1>3, <1>4, <1>5, <1>6, <1>7, AttemptNames DEF StoreStep

\* To check a step of a put, it is enough to look at the objects, the samples
\* and the call.
LEMMA PutSuffices ==
  ASSUME JournalInv, StoreInv, StoreStep,
         \A d \in Digests : ObjectCharged(d)' /\ FileCharged(d)',
         \A s \in Samples : SampleCharged(s)',
         CallCharged'
  PROVE  StoreInv'
<1>1. NothingStored' /\ StoreQuiet' /\ LeftCharged'
  BY PutFacts DEF NothingStored, StoreQuiet, LeftCharged, recVars
<1> QED BY <1>1 DEF StoreInv

\* begin_blob writes the staging row.
LEMMA PutRowStep ==
  ASSUME JournalInv, StoreInv, StoreStep, PutRow
  PROVE  StoreInv'
<1> DEFINE a == call.of
<1>0. /\ At("row") /\ call.op = "row" /\ a \in Attempts /\ ResOf[a] \in ResIds /\ left = {} /\ left' = {}
      /\ rows' = rows \cup {a} /\ call' = [call EXCEPT !.op = "publish"] /\ pc' = pc
      /\ UNCHANGED <<res, obj, tomb, parts, files>>
      /\ a \in Samples => SampleCharged(a) /\ pc[a] \notin {"idle", "sample", "put"}
  BY PutFacts DEF PutRow, At, Goto, recVars
<1>1. call'.op = "publish" /\ call'.of = a
  BY <1>0, CallKinds DEF JournalInv, TypeOK, StoreTypeOK, Calls, Idle
<1> HIDE DEF a
<1>2. \A d \in Digests : ObjectCharged(d)' /\ FileCharged(d)'
  BY <1>0 DEF StoreInv, ObjectCharged, FileCharged, Live, Published
<1>3. CallCharged'
  BY <1>0, <1>1 DEF StoreInv, CallCharged, Live, Published, PutOps, a
<1>4. ASSUME NEW s \in Samples
      PROVE  SampleCharged(s)'
  <2>1. SampleCharged(s) /\ Live(ResOf[a])
    BY <1>0 DEF StoreInv, CallCharged, PutOps, a
  <2>2. Putting(s) <=> s = a
    BY <1>0 DEF Putting, PutOps, a
  <2>3. Putting(s)' <=> s = a
    BY <1>1 DEF Putting, PutOps
  <2>4. ChargedTo(s)' <=> ChargedTo(s)
    BY <1>0 DEF ChargedTo
  <2> QED BY <1>0, <2>1, <2>2, <2>3, <2>4 DEF SampleCharged, Live
<1> QED BY <1>2, <1>3, <1>4, PutSuffices

\* _publish_writer installs the file.
LEMMA PutInstallStep ==
  ASSUME JournalInv, StoreInv, StoreStep, PutInstall
  PROVE  StoreInv'
<1> DEFINE a == call.of
           e == DigestOf[call.of]
<1>0. /\ call.op = "publish" /\ a \in Attempts /\ e \in Digests /\ e = DigestOf[a] /\ left = {} /\ left' = {}
      /\ a \in rows /\ e \notin tomb /\ obj[e].st # "tombstoned"
      /\ parts' = parts \ {a} /\ call' = [call EXCEPT !.op = "commit"] /\ pc' = pc
      /\ files' = IF Published(e) THEN files ELSE files \cup {e}
      /\ UNCHANGED <<res, rows, obj, tomb>>
      /\ a \in Samples => SampleCharged(a) /\ pc[a] \notin {"idle", "sample", "put"}
  BY PutFacts DEF PutInstall, At, Goto, recVars
<1>1. call'.op = "commit" /\ call'.of = a
  BY <1>0, CallKinds DEF JournalInv, TypeOK, StoreTypeOK, Calls, Idle
<1>2. ObjectCharged(e) /\ CallCharged
  BY <1>0 DEF StoreInv
<1> HIDE DEF a, e
<1>3. e \in files' /\ files \subseteq files' /\ files' \subseteq files \cup {e}
  BY <1>0, <1>2 DEF ObjectCharged
<1>4. ASSUME NEW d \in Digests
      PROVE  ObjectCharged(d)' /\ FileCharged(d)'
  <2>1. ObjectCharged(d) /\ FileCharged(d)
    BY DEF StoreInv
  <2>2. ObjectCharged(d)'
    BY <1>0, <1>3, <2>1 DEF ObjectCharged, Live, Published
  <2>3. CASE d # e
    BY <1>0, <1>3, <2>1, <2>2, <2>3 DEF FileCharged
  <2>4. CASE d = e /\ a \in Samples
    BY <1>0, <2>2, <2>4 DEF FileCharged
  <2>5. CASE d = e /\ a \in Finals
    BY <1>0, <2>2, <2>5, AttemptNames DEF FileCharged
  <2> QED BY <1>0, <2>3, <2>4, <2>5, AttemptNames
<1>5. CallCharged'
  BY <1>0, <1>1, <1>2, <1>3 DEF CallCharged, Live, Published, PutOps, a, e
<1>6. ASSUME NEW s \in Samples
      PROVE  SampleCharged(s)'
  <2>1. SampleCharged(s)
    BY DEF StoreInv
  <2>2. Putting(s) <=> s = a
    BY <1>0 DEF Putting, PutOps, a
  <2>3. Putting(s)' <=> s = a
    BY <1>1 DEF Putting, PutOps
  <2>4. ChargedTo(s)' <=> ChargedTo(s)
    BY <1>0 DEF ChargedTo
  <2> QED BY <1>0, <2>1, <2>2, <2>3, <2>4 DEF SampleCharged, Live
<1> QED BY <1>4, <1>5, <1>6, PutSuffices

\* The transaction that publishes the object, or finds its bytes published.
LEMMA PutCommitStep ==
  ASSUME JournalInv, StoreInv, StoreStep, PutCommit
  PROVE  StoreInv'
<1> DEFINE a == call.of
           e == DigestOf[call.of]
<1>0. /\ call.op = "commit" /\ a \in Attempts /\ e \in Digests /\ e = DigestOf[a]
      /\ ResOf[a] \in ResIds /\ left = {} /\ left' = {} /\ pc' = pc
      /\ rows' = rows \ {a}
      /\ UNCHANGED <<res, tomb, parts, files>>
      /\ a \in Samples => SampleCharged(a) /\ pc[a] \notin {"idle", "sample", "put"}
  BY PutFacts DEF PutCommit, At, recVars
<1>1. CallCharged /\ ObjectCharged(e) /\ obj \in [Digests -> [st : {"none", "published", "tombstoned"},
                                                res : ResIds \cup {"none"}]]
  BY <1>0 DEF StoreInv, JournalInv, TypeOK, StoreTypeOK
<1>2. /\ Live(ResOf[a]) /\ a \notin parts /\ e \in files /\ e \notin tomb
      /\ a \in Finals => ~Published(e)
  BY <1>0, <1>1 DEF CallCharged, PutOps
<1>3. CASE Published(e)
  <2>0. call' = [call EXCEPT !.op = "free"] /\ obj' = obj /\ a \in Samples
    BY <1>0, <1>2, <1>3, AttemptNames DEF PutCommit, Goto
  <2>1. call'.op = "free" /\ call'.of = a
    BY <1>0, <2>0, CallKinds DEF JournalInv, TypeOK, StoreTypeOK, Calls, Idle
  <2> HIDE DEF a, e
  <2>2. ASSUME NEW d \in Digests
        PROVE  ObjectCharged(d)' /\ FileCharged(d)'
    <3>1. ObjectCharged(d) /\ FileCharged(d)
      BY DEF StoreInv
    <3>2. CASE d = e
      BY <1>0, <1>3, <2>0, <3>1, <3>2 DEF ObjectCharged, FileCharged, Live, Published
    <3>3. CASE d # e
      BY <1>0, <2>0, <3>1, <3>3 DEF ObjectCharged, FileCharged, Live, Published
    <3> QED BY <3>2, <3>3
  <2>3. CallCharged'
    BY <1>0, <1>1, <1>2, <2>0, <2>1, AttemptNames DEF CallCharged, Live, PutOps
  <2>4. ASSUME NEW s \in Samples
        PROVE  SampleCharged(s)'
    <3>1. SampleCharged(s)
      BY DEF StoreInv
    <3>2. Putting(s) <=> s = a
      BY <1>0 DEF Putting, PutOps, a
    <3>3. Putting(s)' <=> s = a
      BY <2>1 DEF Putting, PutOps
    <3>4. ChargedTo(s)' <=> ChargedTo(s)
      BY <2>0 DEF ChargedTo
    <3> QED BY <1>0, <3>1, <3>2, <3>3, <3>4 DEF SampleCharged, Live
  <2> QED BY <2>2, <2>3, <2>4, PutSuffices
<1>4. CASE ~Published(e)
  <2>0. /\ call' = [call EXCEPT !.op = "charge"]
        /\ obj' = [obj EXCEPT ![e] = [st |-> "published", res |-> ResOf[a]]]
    BY <1>0, <1>4 DEF PutCommit, Goto
  <2>1. call'.op = "charge" /\ call'.of = a
    BY <1>0, <2>0, CallKinds DEF JournalInv, TypeOK, StoreTypeOK, Calls, Idle
  <2> HIDE DEF a, e
  <2>2. /\ obj'[e].st = "published" /\ obj'[e].res = ResOf[a]
        /\ \A d \in Digests : d # e => obj'[d] = obj[d]
    BY <1>0, <1>1, <2>0
  <2>3. ASSUME NEW d \in Digests
        PROVE  ObjectCharged(d)' /\ FileCharged(d)'
    <3>1. ObjectCharged(d) /\ FileCharged(d)
      BY DEF StoreInv
    <3>2. CASE d = e
      BY <1>0, <1>2, <2>2, <3>2 DEF ObjectCharged, FileCharged, Live, Published
    <3>3. CASE d # e
      BY <1>0, <2>2, <3>1, <3>3 DEF ObjectCharged, FileCharged, Live, Published
    <3> QED BY <3>2, <3>3
  <2>4. CallCharged'
    BY <1>0, <1>2, <2>1 DEF CallCharged, Live, PutOps
  <2>5. ASSUME NEW s \in Samples
        PROVE  SampleCharged(s)'
    <3>1. SampleCharged(s)
      BY DEF StoreInv
    <3>2. Putting(s) <=> s = a
      BY <1>0 DEF Putting, PutOps, a
    <3>3. Putting(s)' <=> s = a
      BY <2>1 DEF Putting, PutOps
    <3>4. s # a /\ ChargedTo(s)' => ChargedTo(s)
      BY <1>0, <2>2, AttemptNames DEF ChargedTo
    <3>5. CASE s = a
      BY <1>0, <1>2, <2>1, <3>3, <3>5 DEF SampleCharged, Live
    <3>6. CASE s # a
      BY <1>0, <3>1, <3>2, <3>3, <3>4, <3>6 DEF SampleCharged, Live
    <3> QED BY <3>5, <3>6
  <2> QED BY <2>3, <2>4, <2>5, PutSuffices
<1> QED BY <1>3, <1>4

\* A put that ends without changing more than its answer or its charge.
LEMMA PutEnds ==
  ASSUME JournalInv, StoreInv, StoreStep, call' = Idle,
         UNCHANGED <<rows, obj, tomb, parts, files>>,
         \A r \in ResIds : Live(r) => Live(r)'
  PROVE  StoreInv'
<1>1. TypeOK
  BY DEF JournalInv
<1>2. pc' = pc /\ left' = {} /\ pc["begin"] \in {"open", "gone"}
  BY PutFacts DEF recVars
<1> QED BY <1>1, <1>2, StoreLeftAlone

\* A put that gives its reservation back, once its files and its row are gone.
LEMMA PutReleases ==
  ASSUME JournalInv, StoreInv, StoreStep, call.op \in {"row", "free"}, call' = Idle,
         UNCHANGED <<rows, obj, tomb, files>>,
         parts' = parts \ {call.of},
         res' = Released({ResOf[call.of]})
  PROVE  StoreInv'
<1> DEFINE a == call.of
<1>0. /\ a \in Attempts /\ ResOf[a] \in ResIds /\ left = {} /\ left' = {} /\ pc' = pc
      /\ a \in Samples => SampleCharged(a) /\ pc[a] \notin {"idle", "sample", "put"}
      /\ call.op \in PutOps /\ CallCharged /\ parts' = parts \ {a}
  BY PutFacts DEF recVars, StoreInv
<1>1. \A r \in ResIds : r # ResOf[a] => res'[r] = res[r]
  BY DEF Released
<1>2. /\ a \in Finals => ~Published(DigestOf[a])
      /\ a \in Samples => a \notin rows
  BY <1>0 DEF CallCharged
<1>3. a \in Samples => ~ChargedTo(a)
  BY <1>0 DEF SampleCharged, Putting
<1>4. Idle.op = "idle" /\ "idle" \notin PutOps
  BY DEF Idle, PutOps
<1> HIDE DEF a
<1>5. ASSUME NEW d \in Digests
      PROVE  ObjectCharged(d)' /\ FileCharged(d)'
  <2>1. ObjectCharged(d) /\ FileCharged(d)
    BY DEF StoreInv
  <2>2. Published(d) \/ (obj[d].st = "tombstoned" /\ obj[d].res # "final") =>
          obj[d].res \in ResIds /\ obj[d].res # ResOf[a]
    <3>1. CASE a \in Samples
      BY <1>3, <2>1, <3>1, ChargeNames DEF Published
    <3>2. CASE a \in Finals
      BY <1>2, <2>1, <3>2, ChargeNames, AttemptNames DEF Published
    <3> QED BY <1>0, <3>1, <3>2, AttemptNames
  <2>3. ObjectCharged(d)'
    BY <1>1, <2>1, <2>2 DEF ObjectCharged, Live, Published
  <2>4. FileCharged(d)'
    BY <2>1 DEF FileCharged
  <2> QED BY <2>3, <2>4
<1>6. ASSUME NEW s \in Samples
      PROVE  SampleCharged(s)'
  <2>1. SampleCharged(s) /\ ResOf[s] \in ResIds
    BY AttemptNames DEF StoreInv
  <2>2. ~Putting(s)'
    BY <1>4 DEF Putting
  <2>3. ChargedTo(s)' <=> ChargedTo(s)
    BY DEF ChargedTo
  <2>4. s # a => ResOf[s] # ResOf[a]
    BY <1>0, AttemptNames
  <2>5. s \in rows' \cup parts' => Live(ResOf[s])'
    BY <1>0, <1>1, <1>2, <2>1, <2>4 DEF SampleCharged, Live
  <2> QED BY <1>0, <2>1, <2>2, <2>3, <2>5 DEF SampleCharged
<1>7. CallCharged'
  BY <1>4 DEF CallCharged, Idle
<1> QED BY <1>5, <1>6, <1>7, PutSuffices

\* _abort_writer removes the files of a put that has failed.
LEMMA PutAbortStep ==
  ASSUME JournalInv, StoreInv, StoreStep, PutAbort
  PROVE  StoreInv'
<1> DEFINE a == call.of
           e == DigestOf[call.of]
<1>0. /\ call.op = "abort" /\ a \in Attempts /\ e \in Digests /\ e = DigestOf[a]
      /\ left = {} /\ left' = {} /\ pc' = pc
      /\ UNCHANGED <<res, rows, obj, tomb>>
      /\ a \in Samples => SampleCharged(a) /\ pc[a] \notin {"idle", "sample", "put"}
      /\ CallCharged
  BY PutFacts DEF PutAbort, At, recVars, StoreInv
<1>1. CASE call' = Idle /\ UNCHANGED <<parts, files>>
  BY <1>0, <1>1, PutEnds DEF Live
<1>2. CASE /\ parts' = parts \ {a}
           /\ files' = IF Published(e) THEN files ELSE files \ {e}
           /\ call' = [call EXCEPT !.op = "drop"]
  <2>1. call'.op = "drop" /\ call'.of = a
    BY <1>0, <1>2, CallKinds DEF JournalInv, TypeOK, StoreTypeOK, Calls, Idle
  <2> HIDE DEF a, e
  <2>2. /\ files' \subseteq files /\ (e \notin files' \/ Published(e))
        /\ \A d \in files : d # e \/ Published(e) => d \in files'
    BY <1>2
  <2>3. ASSUME NEW d \in Digests
        PROVE  ObjectCharged(d)' /\ FileCharged(d)'
    <3>1. ObjectCharged(d) /\ FileCharged(d)
      BY DEF StoreInv
    <3>2. Published(d)' <=> Published(d)
      BY <1>0 DEF Published
    <3>3. Published(d) /\ d \in files => d \in files'
      BY <2>2
    <3> QED BY <1>0, <2>2, <3>1, <3>2, <3>3 DEF ObjectCharged, FileCharged, Live
  <2>4. CallCharged'
    BY <1>0, <1>2, <2>1, <2>2 DEF CallCharged, Live, Published, PutOps, a, e
  <2>5. ASSUME NEW s \in Samples
        PROVE  SampleCharged(s)'
    <3>1. SampleCharged(s)
      BY DEF StoreInv
    <3>2. Putting(s) <=> s = a
      BY <1>0 DEF Putting, PutOps, a
    <3>3. Putting(s)' <=> s = a
      BY <2>1 DEF Putting, PutOps
    <3>4. ChargedTo(s)' <=> ChargedTo(s)
      BY <1>0 DEF ChargedTo
    <3> QED BY <1>0, <1>2, <3>1, <3>2, <3>3, <3>4 DEF SampleCharged, Live
  <2> QED BY <2>3, <2>4, <2>5, PutSuffices
<1> QED BY <1>1, <1>2 DEF PutAbort, Answer, Goto

\* _abort_writer drops the staging row once the files are gone.
LEMMA PutDropStep ==
  ASSUME JournalInv, StoreInv, StoreStep, PutDrop
  PROVE  StoreInv'
<1> DEFINE a == call.of
           e == DigestOf[call.of]
<1>0. /\ call.op = "drop" /\ a \in Attempts /\ e \in Digests /\ e = DigestOf[a]
      /\ left = {} /\ left' = {} /\ pc' = pc
      /\ rows' = rows \ {a} /\ call' = [call EXCEPT !.op = "free"]
      /\ UNCHANGED <<res, obj, tomb, parts, files>>
      /\ a \in Samples => SampleCharged(a) /\ pc[a] \notin {"idle", "sample", "put"}
      /\ CallCharged
  BY PutFacts DEF PutDrop, At, Goto, recVars, StoreInv
<1>1. call'.op = "free" /\ call'.of = a
  BY <1>0, CallKinds DEF JournalInv, TypeOK, StoreTypeOK, Calls, Idle
<1>2. e \notin files \/ Published(e)
  BY <1>0 DEF CallCharged, PutOps
<1> HIDE DEF a, e
<1>3. ASSUME NEW d \in Digests
      PROVE  ObjectCharged(d)' /\ FileCharged(d)'
  <2>1. ObjectCharged(d) /\ FileCharged(d)
    BY DEF StoreInv
  <2>2. ObjectCharged(d)'
    BY <1>0, <2>1 DEF ObjectCharged, Live, Published
  <2>3. CASE d = e
    BY <1>0, <1>2, <2>2, <2>3 DEF FileCharged, Published
  <2>4. CASE d # e
    BY <1>0, <2>1, <2>2, <2>4 DEF FileCharged
  <2> QED BY <2>3, <2>4
<1>4. CallCharged'
  BY <1>0, <1>1 DEF CallCharged, Live, Published, PutOps, a, e
<1>5. ASSUME NEW s \in Samples
      PROVE  SampleCharged(s)'
  <2>1. SampleCharged(s)
    BY DEF StoreInv
  <2>2. Putting(s) <=> s = a
    BY <1>0 DEF Putting, PutOps, a
  <2>3. Putting(s)' <=> s = a
    BY <1>1 DEF Putting, PutOps
  <2>4. ChargedTo(s)' <=> ChargedTo(s)
    BY <1>0 DEF ChargedTo
  <2> QED BY <1>0, <2>1, <2>2, <2>3, <2>4 DEF SampleCharged, Live
<1> QED BY <1>3, <1>4, <1>5, PutSuffices

\* A failed write aborts the writer.
LEMMA PutGiveUpStep ==
  ASSUME JournalInv, StoreInv, StoreStep, PutGiveUp
  PROVE  StoreInv'
<1> DEFINE a == call.of
<1>0. /\ call.op = "publish" /\ a \in Attempts
      /\ left = {} /\ left' = {} /\ pc' = pc
      /\ call' = [call EXCEPT !.op = "abort", !.ok = FALSE]
      /\ UNCHANGED <<res, rows, obj, tomb, parts, files>>
      /\ CallCharged
  BY PutFacts DEF PutGiveUp, At, recVars, StoreInv
<1>1. call'.op = "abort" /\ call'.of = a
  BY <1>0, CallKinds DEF JournalInv, TypeOK, StoreTypeOK, Calls, Idle
<1> HIDE DEF a
<1>2. \A d \in Digests : ObjectCharged(d)' /\ FileCharged(d)'
  BY <1>0 DEF StoreInv, ObjectCharged, FileCharged, Live, Published
<1>3. CallCharged'
  BY <1>0, <1>1 DEF CallCharged, Live, Published, PutOps, a
<1>4. ASSUME NEW s \in Samples
      PROVE  SampleCharged(s)'
  <2>1. SampleCharged(s)
    BY DEF StoreInv
  <2>2. Putting(s) <=> s = a
    BY <1>0 DEF Putting, PutOps, a
  <2>3. Putting(s)' <=> s = a
    BY <1>1 DEF Putting, PutOps
  <2>4. ChargedTo(s)' <=> ChargedTo(s)
    BY <1>0 DEF ChargedTo
  <2> QED BY <1>0, <2>1, <2>2, <2>3, <2>4 DEF SampleCharged, Live
<1> QED BY <1>2, <1>3, <1>4, PutSuffices

\* put_bytes.
LEMMA StoreSteps ==
  ASSUME JournalInv, StoreInv, StoreStep
  PROVE  StoreInv'
<1>1. CASE PutRow
  BY <1>1, PutRowStep
<1>2. CASE BeginFails
  <2>1. call.op = "row" /\ call' = Idle /\ UNCHANGED <<rows, obj, tomb, files>>
    BY <1>2 DEF BeginFails, At, Answer
  <2>2. CASE parts' = parts \ {call.of} /\ res' = Released({ResOf[call.of]})
    BY <2>1, <2>2, PutReleases
  <2>3. CASE UNCHANGED <<res, parts>>
    BY <2>1, <2>3, PutEnds DEF Live
  <2> QED BY <1>2, <2>2, <2>3 DEF BeginFails
<1>3. CASE PutInstall
  BY <1>3, PutInstallStep
<1>4. CASE PutCommit
  BY <1>4, PutCommitStep
<1>5. CASE PutCharge
  <2>1. \A r \in ResIds : Live(r) => Live(r)'
    BY <1>5 DEF PutCharge, Live, Committed, JournalInv, TypeOK, StoreTypeOK
  <2> QED BY <1>5, <2>1, PutEnds DEF PutCharge, Answer
<1>6. CASE PutStuck
  BY <1>6, PutEnds DEF PutStuck, Answer, Live
<1>7. CASE PutGiveUp
  BY <1>7, PutGiveUpStep
<1>8. CASE PutAbort
  BY <1>8, PutAbortStep
<1>9. CASE PutDrop
  BY <1>9, PutDropStep
<1>10. CASE PutFree
  <2>1. /\ call.op = "free" /\ call' = Idle /\ UNCHANGED <<rows, obj, tomb, files, parts>>
        /\ res' = Released({ResOf[call.of]})
    BY <1>10 DEF PutFree, At, Answer
  <2>2. parts' = parts \ {call.of}
    BY <2>1 DEF StoreInv, CallCharged, PutOps
  <2> QED BY <2>1, <2>2, PutReleases
<1> QED BY <1>1, <1>2, <1>3, <1>4, <1>5, <1>6, <1>7, <1>8, <1>9, <1>10 DEF StoreStep, StorePut

\* begin_blob for a blob that is put for the first time, or for an original
\* that is not published.
LEMMA PutBeginStep ==
  ASSUME JournalInv, StoreInv, NEW a \in Attempts, PutBegin(a),
         a \in Samples => pc[a] \in {"idle", "sample", "put"} /\ pc'[a] \notin {"idle", "sample", "put"},
         a \in Finals => ~Published(Original),
         left = {}, left' = {},
         pc["begin"] \in {"open", "gone"}, pc'["begin"] \in {"open", "gone"},
         alive' = "up" \/ (alive' = "boot" /\ pc'["boot"] \in Finals),
         \A s \in Samples : pc'[s] \in {"idle", "sample", "put"} => pc[s] \in {"idle", "sample", "put"}
  PROVE  StoreInv'
<1>0. TypeOK /\ ResOf[a] \in ResIds /\ res \in [ResIds -> {"none", "active", "committed"}]
  BY AttemptNames DEF JournalInv, TypeOK, StoreTypeOK
<1>1. CASE call' = Idle /\ UNCHANGED <<res, parts>>
  BY <1>0, <1>1, StoreLeftAlone DEF PutBegin, Live
<1>2. CASE /\ res' = Reserved(ResOf[a]) \/ (Adoptable(ResOf[a]) /\ UNCHANGED res)
           /\ parts' = parts \cup {a}
           /\ call' = [op |-> "row", of |-> a, ok |-> TRUE]
  <2>0. /\ UNCHANGED <<rows, obj, tomb, files>> /\ call = Idle
        /\ call'.op = "row" /\ call'.of = a
    BY <1>2 DEF PutBegin
  <2>1. Live(ResOf[a])' /\ \A r \in ResIds : Live(r) => Live(r)'
    BY <1>0, <1>2 DEF Reserved, Adoptable, Live
  <2>2. NothingStored' /\ StoreQuiet' /\ LeftCharged'
    BY DEF NothingStored, StoreQuiet, LeftCharged
  <2>3. ASSUME NEW d \in Digests
        PROVE  ObjectCharged(d)' /\ FileCharged(d)'
    <3>1. ObjectCharged(d) /\ FileCharged(d)
      BY DEF StoreInv
    <3>2. obj[d].st # "none" => obj[d].res \in ResIds
      BY <3>1, ChargeNames
    <3> QED BY <2>0, <2>1, <3>1, <3>2 DEF ObjectCharged, FileCharged, Published
  <2>4. ASSUME NEW s \in Samples
        PROVE  SampleCharged(s)'
    <3>1. SampleCharged(s) /\ ResOf[s] \in ResIds
      BY AttemptNames DEF StoreInv
    <3>2. Putting(s)' <=> s = a
      BY <2>0 DEF Putting, PutOps
    <3>3. ChargedTo(s)' <=> ChargedTo(s)
      BY <2>0 DEF ChargedTo
    <3>4. CASE s = a
      BY <1>2, <2>0, <2>1, <3>1, <3>2, <3>3, <3>4 DEF SampleCharged
    <3>5. CASE s # a
      BY <1>2, <2>0, <2>1, <3>1, <3>2, <3>3, <3>5 DEF SampleCharged
    <3> QED BY <3>4, <3>5
  <2>5. CallCharged'
    <3>1. a \in Finals => DigestOf[a] = Original
      BY AttemptNames
    <3>2. a \in Samples => a \notin rows
      BY DEF StoreInv, SampleCharged
    <3> QED BY <2>0, <2>1, <3>1, <3>2 DEF CallCharged, Published
  <2> QED BY <2>2, <2>3, <2>4, <2>5 DEF StoreInv
<1> QED BY <1>1, <1>2 DEF PutBegin, Answer

\* apply_retention.
LEMMA RetentionSteps ==
  ASSUME JournalInv, StoreInv, Retention
  PROVE  StoreInv'
<1>0. /\ UNCHANGED <<alive, pc, left>> /\ alive = "up" /\ left = {}
      /\ obj \in [Digests -> [st : {"none", "published", "tombstoned"},
                              res : ResIds \cup {"none"}]]
      /\ Idle.op = "idle" /\ "idle" \notin PutOps
  BY DEF Retention, recVars, StoreInv, LeftCharged, JournalInv, TypeOK, StoreTypeOK, Idle, PutOps
<1>1. ASSUME NEW e \in Digests, Tombstone(e)
      PROVE  StoreInv'
  <2>0. /\ call = Idle /\ call'.op \in {"forget", "rest"} /\ call'.of = e
        /\ Published(e) \/ e \in {DigestOf[a] : a \in rows}
        /\ tomb' = tomb \cup {e}
        /\ files' = files \/ files' = files \ {e}
        /\ UNCHANGED <<res, rows, parts>>
        /\ call'.op = "forget" => obj[e].st # "none" /\ files' = files \ {e}
        /\ obj' = IF obj[e].st = "none" THEN obj ELSE [obj EXCEPT ![e].st = "tombstoned"]
    BY <1>1 DEF Tombstone
  <2>1. /\ \A d \in Digests : /\ obj'[d].res = obj[d].res
                              /\ obj'[d].st = "none" <=> obj[d].st = "none"
                              /\ d # e => obj'[d].st = obj[d].st
        /\ obj[e].st # "none" => obj'[e].st = "tombstoned"
    BY <1>0, <2>0
  <2>2. NothingStored'
    <3>1. pc["begin"] \in {"open", "gone"}
      BY <2>0 DEF StoreInv, NothingStored, Published
    <3> QED BY <1>0, <3>1 DEF NothingStored
  <2>3. StoreQuiet' /\ LeftCharged'
    BY <1>0 DEF StoreQuiet, LeftCharged
  <2>4. ASSUME NEW d \in Digests
        PROVE  ObjectCharged(d)' /\ FileCharged(d)'
    <3>1. ObjectCharged(d) /\ FileCharged(d)
      BY DEF StoreInv
    <3>2. FileCharged(d)'
      BY <2>0, <2>1, <3>1 DEF FileCharged
    <3>3. CASE d = e
      <4>1. obj[e].st \in {"none", "published", "tombstoned"}
        BY <1>0
      <4> QED BY <2>0, <2>1, <3>1, <3>2, <3>3, <4>1 DEF ObjectCharged, Live, Published
    <3>4. CASE d # e
      BY <2>0, <2>1, <3>1, <3>2, <3>4 DEF ObjectCharged, Live, Published
    <3> QED BY <3>3, <3>4
  <2>5. ASSUME NEW s \in Samples
        PROVE  SampleCharged(s)'
    <3>1. SampleCharged(s) /\ DigestOf[s] \in Digests
      BY AttemptNames DEF StoreInv
    <3>2. ~Putting(s)'
      BY <2>0 DEF Putting, PutOps
    <3>3. ChargedTo(s)' <=> ChargedTo(s)
      BY <2>1, <3>1 DEF ChargedTo
    <3> QED BY <1>0, <2>0, <3>1, <3>2, <3>3 DEF SampleCharged, Live
  <2>6. CallCharged'
    BY <2>0, <2>1 DEF CallCharged, PutOps
  <2> QED BY <2>2, <2>3, <2>4, <2>5, <2>6 DEF StoreInv
<1>2. CASE TombForget
  <2> DEFINE e == call.of
  <2>0. /\ call.op \in {"forget", "rest"} /\ call' = Idle
        /\ parts' \subseteq parts
        /\ UNCHANGED <<rows, tomb, files>>
    BY <1>2 DEF TombForget, At
  <2>1. e \in Digests
    BY <2>0, CallKinds DEF JournalInv, TypeOK, StoreTypeOK
  <2>2. \/ UNCHANGED <<res, obj>>
        \/ /\ call.op = "forget"
           /\ res' = Released({obj[e].res})
           /\ obj' = [obj EXCEPT ![e] = NoObject]
    BY <1>2 DEF TombForget, At
  <2>3. call.op = "forget" => obj[e].st = "tombstoned" /\ e \notin files
    BY DEF StoreInv, CallCharged
  <2> HIDE DEF e
  <2>4. NothingStored'
    <3>1. pc["begin"] \in {"open", "gone"}
      BY <1>0, <2>0 DEF StoreInv, NothingStored
    <3> QED BY <1>0, <3>1 DEF NothingStored
  <2>5. StoreQuiet' /\ LeftCharged' /\ CallCharged'
    BY <1>0, <2>0 DEF StoreQuiet, LeftCharged, CallCharged
  <2>6. ASSUME NEW d \in Digests
        PROVE  ObjectCharged(d)' /\ FileCharged(d)'
    <3>1. ObjectCharged(d) /\ FileCharged(d) /\ ObjectCharged(e)
      BY <2>1 DEF StoreInv
    <3>2. CASE UNCHANGED <<res, obj>>
      BY <2>0, <3>1, <3>2 DEF ObjectCharged, FileCharged, Live, Published
    <3>3. CASE call.op = "forget" /\ res' = Released({obj[e].res}) /\ obj' = [obj EXCEPT ![e] = NoObject]
      <4>1. CASE d = e
        <5>1. obj'[d].st = "none" /\ d \notin files'
          BY <1>0, <2>0, <2>1, <2>3, <3>3, <4>1 DEF NoObject
        <5> QED BY <5>1 DEF ObjectCharged, FileCharged, Published
      <4>2. CASE d # e
        <5>1. obj'[d] = obj[d]
          BY <1>0, <2>1, <3>3, <4>2
        <5>2. obj[d].st # "none" => obj[d].res # obj[e].res /\ obj[d].res \in ResIds
          BY <2>1, <2>3, <3>1, <3>3, <4>2, ChargeUnique, ChargeNames
        <5>3. obj[d].st # "none" => res'[obj[d].res] = res[obj[d].res]
          BY <3>3, <5>2 DEF Released
        <5> QED BY <2>0, <3>1, <5>1, <5>3 DEF ObjectCharged, FileCharged, Live, Published
      <4> QED BY <4>1, <4>2
    <3> QED BY <2>2, <3>2, <3>3
  <2>7. ASSUME NEW s \in Samples
        PROVE  SampleCharged(s)'
    <3>1. SampleCharged(s) /\ ResOf[s] \in ResIds /\ DigestOf[s] \in Digests
      BY AttemptNames DEF StoreInv
    <3>2. ~Putting(s)'
      BY <1>0, <2>0 DEF Putting
    <3>3. ChargedTo(s)' => ChargedTo(s)
      BY <1>0, <2>1, <2>2, <3>1 DEF ChargedTo, NoObject
    <3>4. s \in rows \cup parts => res'[ResOf[s]] = res[ResOf[s]]
      <4>1. ASSUME s \in rows \cup parts, obj[e].st = "tombstoned"
            PROVE  obj[e].res # ResOf[s]
        <5>1. ~ChargedTo(s)
          BY <3>1, <4>1 DEF SampleCharged
        <5>2. ObjectCharged(e)
          BY <2>1 DEF StoreInv
        <5> QED BY <2>1, <4>1, <5>1, <5>2, ChargeNames
      <4> QED BY <2>2, <2>3, <3>1, <4>1 DEF Released
    <3> QED BY <1>0, <2>0, <3>1, <3>2, <3>3, <3>4 DEF SampleCharged, Live
  <2> QED BY <2>4, <2>5, <2>6, <2>7 DEF StoreInv
<1> QED BY <1>1, <1>2 DEF Retention, StoreTombstone

-----------------------------------------------------------------------------
(* Steps of the recording.                                                 *)

\* begin_recording.
LEMMA BeginStored ==
  ASSUME JournalInv, StoreInv, Beginning
  PROVE  StoreInv'
<1>0. /\ pc["begin"] \notin {"open", "gone"} /\ alive = "up"
      /\ UNCHANGED <<rows, obj, tomb, parts, files, call, alive, left>>
  BY DEF Beginning, BeginReserve, BeginFinal, BeginIdentity, BeginPrepared, storeVars
<1>1. /\ call = Idle /\ rows = {} /\ parts = {} /\ files = {}
      /\ \A d \in Digests : obj[d].st = "none"
  BY <1>0 DEF StoreInv, NothingStored
<1>2. left = {} /\ Idle.op = "idle" /\ "idle" \notin PutOps
  BY <1>0 DEF StoreInv, LeftCharged, Idle, PutOps
<1>3. NothingStored' /\ StoreQuiet' /\ LeftCharged'
  BY <1>0, <1>1, <1>2 DEF NothingStored, StoreQuiet, LeftCharged
<1>4. \A d \in Digests : ObjectCharged(d)' /\ FileCharged(d)'
  BY <1>0, <1>1 DEF ObjectCharged, FileCharged, Published
<1>5. \A s \in Samples : SampleCharged(s)'
  BY <1>0, <1>1, <1>2, AttemptNames DEF SampleCharged, ChargedTo, Putting
<1>6. CallCharged'
  BY <1>0, <1>1, <1>2 DEF CallCharged
<1> QED BY <1>3, <1>4, <1>5, <1>6 DEF StoreInv

\* Steps of a thread of the session, and of the journal, that do not use the
\* store.
LEMMA UpStored ==
  ASSUME JournalInv, StoreInv, alive = "up", alive' = "up",
         UNCHANGED <<rows, obj, tomb, parts, files, call, left>>,
         \A r \in ResIds : Live(r) => Live(r)',
         pc["begin"] \in {"open", "gone"} => pc'["begin"] \in {"open", "gone"},
         \A s \in Samples : pc'[s] \in {"idle", "sample", "put"} => pc[s] \in {"idle", "sample", "put"}
  PROVE  StoreInv'
<1>1. TypeOK /\ left' = {}
  BY DEF JournalInv, StoreInv, LeftCharged
<1> QED BY <1>1, StoreLeftAlone

\* Inputs, samples and barriers.
LEMMA CallersStored ==
  ASSUME JournalInv, StoreInv, NEW t \in Callers,
         (t \in Inputs /\ Input(t)) \/ (t \in Samples /\ Sample(t)) \/ Stop(t)
  PROVE  StoreInv'
<1>0. /\ t \in Threads /\ t # "begin" /\ "begin" \in Threads /\ t # "boot" /\ "boot" \in Threads
      /\ \A s \in Samples : s \in Threads
      /\ pc \in [Threads -> Steps \cup Finals]
  BY ThreadNames, AttemptNames DEF JournalInv, TypeOK
<1>1. alive = "up" /\ alive' = "up" /\ pc["begin"] = "open" /\ UNCHANGED left
  BY DEF Input, AdmitInput, MarkDispatched, Execute, RecordReceipt, Starts, Open,
         Sample, BeginCollection, AuthorizeSample, StampFails, SampleLate, StoreSample, SampleStored,
         SampleMedia, SampleFails, Gap, EndCollection, Stop, Bar, Mark
<1>2. left = {} /\ TypeOK
  BY <1>1 DEF StoreInv, LeftCharged, JournalInv
<1>3. CASE t \in Samples /\ StoreSample(t)
  <2>1. pc[t] = "put" /\ pc' = [pc EXCEPT ![t] = "stored"] /\ PutBegin(t)
    BY <1>3 DEF StoreSample, To
  <2>2. \A s \in Samples : s # t => pc'[s] = pc[s]
    BY <1>0, <2>1
  <2>3. pc'[t] = "stored" /\ pc'["begin"] = "open" /\ t \in Attempts /\ t \notin Finals
    BY <1>0, <1>1, <1>3, <2>1, AttemptNames
  <2> QED BY <1>1, <1>2, <2>1, <2>2, <2>3, PutBeginStep
<1>4. CASE ~(t \in Samples /\ StoreSample(t))
  <2>1. UNCHANGED <<res, rows, obj, tomb, parts, files, call>>
    BY <1>4 DEF Input, AdmitInput, MarkDispatched, Execute, RecordReceipt, storeVars,
         Sample, BeginCollection, AuthorizeSample, StampFails, SampleLate, SampleStored,
         SampleMedia, SampleFails, Gap, EndCollection, Stop, Bar, Mark
  <2>2. PICK x : /\ pc' = [pc EXCEPT ![t] = x]
                 /\ t \in Samples /\ x \in {"idle", "sample", "put"} => pc[t] \in {"idle", "sample", "put"}
    <3>1. CASE t \in Inputs /\ Input(t)
      BY <3>1, ThreadNames DEF Input, AdmitInput, MarkDispatched, Execute, RecordReceipt, To
    <3>2. CASE t \in Samples /\ Sample(t)
      BY <1>4, <3>2 DEF Sample, BeginCollection, AuthorizeSample, StampFails, SampleLate, SampleStored,
                        SampleMedia, SampleFails, GiveUp, Gap, EndCollection, To, Starts
    <3>3. CASE Stop(t)
      BY <3>3 DEF Stop, Bar, Mark, To
    <3> QED BY <3>1, <3>2, <3>3
  <2>3. /\ pc'["begin"] = "open"
        /\ \A s \in Samples : pc'[s] \in {"idle", "sample", "put"} => pc[s] \in {"idle", "sample", "put"}
    BY <1>0, <1>1, <2>2
  <2> QED BY <1>1, <2>1, <2>3, UpStored DEF Live
<1> QED BY <1>3, <1>4

\* A thread that freezes goes on while the store stays as it is.
LEMMA FreezeLeavesStore ==
  ASSUME JournalInv, StoreInv, NEW t \in Callers \cup {"boot"}, Running(t), pc[t] \in Freezes,
         UNCHANGED <<rows, obj, tomb, parts, files, call, left>>,
         \A r \in ResIds : Live(r) => Live(r)',
         NEW x, To(t, x), x \notin {"idle", "sample", "put"},
         alive' = alive \/ t = "boot",
         alive' = "up" \/ call = Idle
  PROVE  StoreInv'
<1>0. /\ t \in Threads /\ t # "begin" /\ "begin" \in Threads /\ "boot" \in Threads
      /\ \A s \in Samples : s \in Threads
      /\ pc \in [Threads -> Steps \cup Finals] /\ TypeOK
      /\ BeginPhase
  BY ThreadNames, AttemptNames DEF JournalInv, TypeOK, JournalPhases
<1>1. pc' = [pc EXCEPT ![t] = x]
  BY DEF To
<1>2. pc'["begin"] = pc["begin"]
  BY <1>0, <1>1
<1>3. \A s \in Samples : pc'[s] \in {"idle", "sample", "put"} => pc[s] \in {"idle", "sample", "put"}
  BY <1>0, <1>1
<1>4. left' = {}
  <2>1. CASE t = "boot"
    <3>1. pc["boot"] \notin {"rows", "charges"}
      BY <2>1, FinalNames DEF Freezes, Steps
    <3> QED BY <3>1 DEF StoreInv, LeftCharged
  <2>2. CASE t # "boot"
    BY <2>2 DEF Running, Open, StoreInv, LeftCharged
  <2> QED BY <2>1, <2>2
<1> QED BY <1>0, <1>2, <1>3, <1>4, StoreLeftAlone

\* freeze().
LEMMA FreezeStored ==
  ASSUME JournalInv, StoreInv, NEW t \in Callers \cup {"boot"}, Freeze(t)
  PROVE  StoreInv'
<1>0. /\ Running(t) /\ pc[t] \in Freezes
      /\ alive' = alive \/ t = "boot"
      /\ UNCHANGED left
  BY DEF Freeze, FreezeRead, FreezePut, Seal, FreezeUnpin, FreezeLoad, FreezeFail, Freezes
<1>1. t # "boot" => alive = "up" /\ alive' = "up"
  BY <1>0 DEF Running, Open
<1>2. alive' = "up" \/ call = Idle
  <2>1. CASE FreezePut(t)
    BY <2>1 DEF FreezePut
  <2>2. CASE t = "boot" /\ ~FreezePut(t)
    <3>1. pc["boot"] \notin Finals
      BY <2>2, FinalNames DEF Freeze, FreezeRead, Seal, FreezeUnpin, FreezeLoad, FreezeFail, Steps
    <3> QED BY <1>0, <2>2, <3>1 DEF StoreInv, StoreQuiet, Running
  <2> QED BY <1>1, <2>1, <2>2
<1>3. CASE FreezeRead(t)
  <2>0. /\ alive' = alive /\ t \in Threads /\ t # "begin" /\ "begin" \in Threads /\ "boot" \in Threads
        /\ \A s \in Samples : s \in Threads
        /\ pc \in [Threads -> Steps \cup Finals] /\ TypeOK /\ pc[t] = "freeze"
    BY <1>3, ThreadNames, AttemptNames DEF FreezeRead, JournalInv, TypeOK
  <2>1. CASE UNCHANGED storeVars /\ (To(t, "load") \/ To(t, "fail"))
    BY <1>0, <1>2, <2>1, FreezeLeavesStore DEF storeVars, Live
  <2>2. CASE /\ To(t, "seal") /\ call = Idle
             /\ res' = IF obj[Original].res # "final" THEN Released({"final"}) ELSE res
             /\ UNCHANGED <<rows, obj, tomb, pins, parts, files, call, out, faults>>
    <3>1. CASE res' = res
      BY <1>0, <2>2, <3>1, FreezeLeavesStore DEF Live
    <3>2. CASE obj[Original].res # "final" /\ res' = Released({"final"})
      <4>1. \A r \in ResIds : r # "final" => res'[r] = res[r]
        BY <3>2 DEF Released
      <4>2. /\ pc' = [pc EXCEPT ![t] = "seal"]
            /\ pc'["begin"] = pc["begin"]
            /\ \A s \in Samples : pc'[s] \in {"idle", "sample", "put"} => pc[s] \in {"idle", "sample", "put"}
        BY <2>0, <2>2 DEF To
      <4>3. left = {} /\ left' = {}
        <5>1. CASE t = "boot"
          BY <1>0, <2>0, <5>1 DEF StoreInv, LeftCharged
        <5>2. CASE t # "boot"
          BY <1>0, <1>1, <5>2 DEF StoreInv, LeftCharged
        <5> QED BY <5>1, <5>2
      <4>4. NothingStored' /\ StoreQuiet' /\ LeftCharged'
        BY <2>2, <4>2, <4>3 DEF StoreInv, NothingStored, StoreQuiet, LeftCharged
      <4>5. ASSUME NEW d \in Digests
            PROVE  ObjectCharged(d)' /\ FileCharged(d)'
        <5>1. ObjectCharged(d) /\ FileCharged(d)
          BY DEF StoreInv
        <5>2. obj[d].st # "none" => obj[d].res # "final" /\ obj[d].res \in ResIds
          BY <3>2, <5>1, ChargeNames
        <5> QED BY <2>2, <4>1, <5>1, <5>2 DEF ObjectCharged, FileCharged, Live, Published
      <4>6. ASSUME NEW s \in Samples
            PROVE  SampleCharged(s)'
        <5>1. SampleCharged(s) /\ ResOf[s] \in ResIds /\ ResOf[s] # "final"
          BY AttemptNames DEF StoreInv
        <5>2. (ChargedTo(s)' <=> ChargedTo(s)) /\ (Putting(s)' <=> Putting(s))
          BY <2>2 DEF ChargedTo, Putting
        <5> QED BY <2>2, <4>1, <4>2, <4>3, <5>1, <5>2 DEF SampleCharged, Live
      <4>7. CallCharged'
        BY <2>2 DEF CallCharged, Idle, PutOps
      <4> QED BY <4>4, <4>5, <4>6, <4>7 DEF StoreInv
    <3> QED BY <2>2, <3>1, <3>2
  <2>3. ASSUME NEW a \in Finals, ~Published(Original), PutBegin(a), To(t, a)
        PROVE  StoreInv'
    <3>1. a \in Attempts /\ a \notin Samples /\ a \notin {"idle", "sample", "put"}
      BY FinalNames DEF Steps
    <3>2. /\ pc' = [pc EXCEPT ![t] = a]
          /\ pc'["begin"] = pc["begin"]
          /\ \A s \in Samples : pc'[s] \in {"idle", "sample", "put"} => pc[s] \in {"idle", "sample", "put"}
      BY <2>0, <2>3, <3>1 DEF To
    <3>3. left = {} /\ left' = {}
      <4>1. CASE t = "boot"
        BY <1>0, <2>0, <4>1 DEF StoreInv, LeftCharged
      <4>2. CASE t # "boot"
        BY <1>0, <1>1, <4>2 DEF StoreInv, LeftCharged
      <4> QED BY <4>1, <4>2
    <3>4. alive' = "up" \/ (alive' = "boot" /\ pc'["boot"] \in Finals)
      BY <1>0, <1>1, <2>0, <3>2 DEF Running
    <3>5. pc["begin"] \in {"open", "gone"}
      <4>1. CASE t = "boot"
        BY <1>0, <4>1 DEF Running, JournalInv, JournalPhases, BeginPhase
      <4>2. CASE t # "boot"
        BY <1>0, <4>2 DEF Running, Open
      <4> QED BY <4>1, <4>2
    <3> QED BY <2>3, <3>1, <3>2, <3>3, <3>4, <3>5, PutBeginStep
  <2> QED BY <1>3, <2>1, <2>2, <2>3 DEF FreezeRead
<1>4. CASE FreezePut(t)
  <2>1. PICK x \in {"seal", "fail"} : To(t, x)
    BY <1>4 DEF FreezePut
  <2>2. UNCHANGED <<res, rows, obj, tomb, parts, files, call>>
    BY <1>4 DEF FreezePut
  <2> QED BY <1>0, <1>2, <2>1, <2>2, FreezeLeavesStore DEF Live
<1>5. CASE Seal(t)
  <2>1. PICK x \in {"unpin", "fail"} : To(t, x)
    BY <1>5 DEF Seal
  <2>2. UNCHANGED <<res, rows, obj, tomb, parts, files, call>>
    BY <1>5 DEF Seal
  <2> QED BY <1>0, <1>2, <2>1, <2>2, FreezeLeavesStore DEF Live
<1>6. CASE FreezeUnpin(t)
  <2>1. PICK x \in {"load", "fail"} : To(t, x)
    BY <1>6 DEF FreezeUnpin
  <2>2. UNCHANGED <<rows, obj, tomb, parts, files, call>>
    BY <1>6 DEF FreezeUnpin
  <2>3. \A r \in ResIds : Live(r) => Live(r)'
    BY <1>6 DEF FreezeUnpin, Live, Committed, JournalInv, TypeOK, StoreTypeOK
  <2> QED BY <1>0, <1>2, <2>1, <2>2, <2>3, FreezeLeavesStore
<1>7. CASE FreezeLoad(t) \/ FreezeFail(t)
  <2>1. PICK x \in {"end", "done"} : To(t, x)
    BY <1>7 DEF FreezeLoad, FreezeFail, After
  <2>2. UNCHANGED <<res, rows, obj, tomb, parts, files, call>>
    BY <1>7 DEF FreezeLoad, FreezeFail, storeVars
  <2> QED BY <1>0, <1>2, <2>1, <2>2, FreezeLeavesStore DEF Live
<1> QED BY <1>3, <1>4, <1>5, <1>6, <1>7 DEF Freeze

\* The end of the process keeps the tables and the files, wherever the method
\* that held the lock was.
LEMMA CrashStored ==
  ASSUME JournalInv, StoreInv, Crash
  PROVE  StoreInv'
<1>1. TypeOK /\ left' = {} /\ call' = Idle /\ UNCHANGED <<res, rows, obj, tomb, parts, files>>
  BY DEF JournalInv, Crash
<1>2. /\ pc'["begin"] = "gone"
      /\ \A s \in Samples : pc'[s] = "done"
  BY ThreadNames DEF Crash
<1> QED BY <1>1, <1>2, StoreLeftAlone DEF Live

\* A step of the boot before the freeze, which has the store to itself.
LEMMA BootFacts ==
  ASSUME JournalInv, StoreInv, Recover
  PROVE  /\ TypeOK /\ call = Idle /\ call' = Idle /\ pc["begin"] = "gone" /\ pc'["begin"] = "gone"
         /\ pc["boot"] \notin {"rows", "charges"} => left = {}
         /\ \A s \in Samples : pc'[s] = pc[s]
         /\ StoreQuiet' /\ NothingStored' /\ CallCharged'
         /\ \A s \in Samples : ~Putting(s)'
<1>0. /\ "boot" \in Threads /\ "begin" \in Threads
      /\ \A s \in Samples : s \in Threads /\ s # "boot" /\ s # "begin"
      /\ pc \in [Threads -> Steps \cup Finals] /\ TypeOK
      /\ Idle.op = "idle" /\ "idle" \notin PutOps
  BY ThreadNames DEF JournalInv, TypeOK, Idle, PutOps
<1>1. alive # "up" /\ UNCHANGED call /\ \E x : pc' = [pc EXCEPT !["boot"] = x]
  BY DEF Recover, Reopen, BootBudget, BootTombstones, RecoverBarrier, RecoverFinal,
         RecoverFiles, RecoverRows, RecoverCharges, Booting, To, storeVars
<1>2. pc["begin"] = "gone"
  BY <1>1 DEF JournalInv, JournalPhases, BeginPhase
<1>3. call = Idle
  <2>1. CASE Reopen
    BY <2>1 DEF StoreInv, StoreQuiet, Reopen
  <2>2. CASE ~Reopen
    <3>1. pc["boot"] \notin Finals
      BY <2>2, FinalNames DEF Recover, BootBudget, BootTombstones, RecoverBarrier, RecoverFinal,
         RecoverFiles, RecoverRows, RecoverCharges, Booting, Steps
    <3> QED BY <1>1, <3>1 DEF StoreInv, StoreQuiet
  <2> QED BY <2>1, <2>2
<1> QED BY <1>0, <1>1, <1>2, <1>3 DEF StoreQuiet, NothingStored, CallCharged, Putting, StoreInv, LeftCharged

\* The steps of the boot.
LEMMA RecoverStored ==
  ASSUME JournalInv, StoreInv, Recover
  PROVE  StoreInv'
<1>0. /\ TypeOK /\ call = Idle /\ call' = Idle /\ pc["begin"] = "gone" /\ pc'["begin"] = "gone"
      /\ pc["boot"] \notin {"rows", "charges"} => left = {}
      /\ \A s \in Samples : pc'[s] = pc[s]
      /\ StoreQuiet' /\ NothingStored' /\ CallCharged'
      /\ \A s \in Samples : ~Putting(s)'
  BY BootFacts
<1>1. /\ res \in [ResIds -> {"none", "active", "committed"}]
      /\ obj \in [Digests -> [st : {"none", "published", "tombstoned"},
                              res : ResIds \cup {"none"}]]
      /\ rows \subseteq Attempts /\ pc \in [Threads -> Steps \cup Finals] /\ "boot" \in Threads
  BY <1>0, ThreadNames DEF TypeOK, StoreTypeOK
<1>2. CASE Reopen \/ BootBudget \/ RecoverBarrier
  <2>1. UNCHANGED <<rows, obj, tomb, parts, files, left>>
    BY <1>2 DEF Reopen, BootBudget, RecoverBarrier, storeVars
  <2>2. left = {}
    <3>1. CASE Reopen
      BY <3>1 DEF Reopen, StoreInv, LeftCharged
    <3>2. CASE BootBudget \/ RecoverBarrier
      BY <1>0, <3>2 DEF BootBudget, RecoverBarrier, Booting
    <3> QED BY <1>2, <3>1, <3>2
  <2>3. \A r \in ResIds : Live(r) => Live(r)'
    BY <1>2 DEF Reopen, BootBudget, RecoverBarrier, storeVars, Live, Recharged
  <2> QED BY <1>0, <2>1, <2>2, <2>3, StoreLeftAlone
<1>3. CASE BootTombstones
  <2>0. left = {} /\ left' = {} /\ UNCHANGED <<rows, tomb, parts>>
    BY <1>0, <1>3 DEF BootTombstones, Booting
  <2>1. PICK D \in SUBSET Tombstoned : Reconciled(D)
    BY <1>3 DEF BootTombstones
  <2>2. \A d \in D : d \in Digests /\ obj[d].st = "tombstoned"
    BY <2>1 DEF Tombstoned
  <2>3. /\ files' = files \ D
        /\ \A d \in Digests : obj'[d] = IF d \in D THEN NoObject ELSE obj[d]
        /\ \A r \in ResIds : (\A d \in D : obj[d].res # r) => res'[r] = res[r]
    BY <2>1 DEF Reconciled
  <2>4. LeftCharged'
    BY <2>0 DEF LeftCharged
  <2>5. ASSUME NEW d \in Digests
        PROVE  ObjectCharged(d)' /\ FileCharged(d)'
    <3>1. ObjectCharged(d) /\ FileCharged(d)
      BY DEF StoreInv
    <3>2. CASE d \in D
      <4>1. obj'[d].st = "none" /\ d \notin files'
        BY <2>3, <3>2 DEF NoObject
      <4> QED BY <4>1 DEF ObjectCharged, FileCharged, Published
    <3>3. CASE d \notin D
      <4>1. obj'[d] = obj[d] /\ (d \in files' <=> d \in files)
        BY <2>3, <3>3
      <4>2. obj[d].st # "none" => obj[d].res \in ResIds /\ \A c \in D : obj[c].res # obj[d].res
        <5>1. \A c \in D : ObjectCharged(c) /\ c # d
          BY <2>2, <3>3 DEF StoreInv
        <5> QED BY <2>2, <3>1, <5>1, ChargeUnique, ChargeNames
      <4>3. obj[d].st # "none" => res'[obj[d].res] = res[obj[d].res]
        BY <2>3, <4>2
      <4> QED BY <2>0, <3>1, <4>1, <4>3 DEF ObjectCharged, FileCharged, Live, Published
    <3> QED BY <3>2, <3>3
  <2>6. ASSUME NEW s \in Samples
        PROVE  SampleCharged(s)'
    <3>1. SampleCharged(s) /\ ResOf[s] \in ResIds /\ DigestOf[s] \in Digests
      BY AttemptNames DEF StoreInv
    <3>2. ChargedTo(s)' => ChargedTo(s)
      BY <2>3, <3>1 DEF ChargedTo, NoObject
    <3>3. s \in rows \cup parts => res'[ResOf[s]] = res[ResOf[s]]
      <4>1. ASSUME s \in rows \cup parts, NEW d \in D
            PROVE  obj[d].res # ResOf[s]
        <5>1. ~ChargedTo(s) /\ ObjectCharged(d)
          BY <2>2, <3>1, <4>1 DEF SampleCharged, StoreInv
        <5> QED BY <2>2, <5>1, ChargeNames
      <4> QED BY <2>3, <3>1, <4>1
    <3> QED BY <1>0, <2>0, <3>1, <3>2, <3>3 DEF SampleCharged, Live
  <2> QED BY <1>0, <2>4, <2>5, <2>6 DEF StoreInv
<1>4. CASE RecoverFinal
  <2>0. left = {} /\ left' = {} /\ UNCHANGED <<res, obj, tomb, files>>
    BY <1>0, <1>4 DEF RecoverFinal, Booting
  <2>1. /\ rows' \subseteq rows /\ parts' \subseteq parts
        /\ \A s \in Samples \cap rows : s \in rows'
    BY <1>4, AttemptNames DEF RecoverFinal
  <2>2. LeftCharged'
    BY <2>0 DEF LeftCharged
  <2>3. \A d \in Digests : ObjectCharged(d)' /\ FileCharged(d)'
    BY <2>0, <2>1 DEF StoreInv, ObjectCharged, FileCharged, Live, Published
  <2>4. ASSUME NEW s \in Samples
        PROVE  SampleCharged(s)'
    <3>1. SampleCharged(s) /\ (ChargedTo(s)' <=> ChargedTo(s))
      BY <2>0 DEF StoreInv, ChargedTo
    <3> QED BY <1>0, <2>0, <2>1, <3>1 DEF SampleCharged, Live
  <2> QED BY <1>0, <2>2, <2>3, <2>4 DEF StoreInv
<1>5. CASE RecoverFiles
  <2>0. /\ UNCHANGED <<res, rows, obj, tomb, alive>> /\ alive = "boot"
        /\ pc'["boot"] = "rows"
    BY <1>1, <1>5 DEF RecoverFiles, Booting, To
  <2>1. PICK A \in SUBSET rows : /\ \A a \in A : ResOf[a] # "final"
                                 /\ parts' = parts \ A
                                 /\ files' = files \ Unpublished(A)
                                 /\ left' = A
    BY <1>5 DEF RecoverFiles
  <2>2. /\ files' \subseteq files
        /\ \A d \in files : Published(d) => d \in files'
        /\ \A a \in A : DigestOf[a] \in files' => Published(DigestOf[a])
    BY <2>1 DEF Unpublished
  <2>3. A \subseteq Samples
    BY <1>1, <2>1, AttemptNames
  <2>4. LeftCharged'
    BY <2>0, <2>1, <2>2, <2>3 DEF LeftCharged, Published
  <2>5. ASSUME NEW d \in Digests
        PROVE  ObjectCharged(d)' /\ FileCharged(d)'
    <3>1. ObjectCharged(d) /\ FileCharged(d) /\ (Published(d)' <=> Published(d))
      BY <2>0 DEF StoreInv, Published
    <3> QED BY <2>0, <2>2, <3>1 DEF ObjectCharged, FileCharged, Live
  <2>6. ASSUME NEW s \in Samples
        PROVE  SampleCharged(s)'
    <3>1. SampleCharged(s) /\ (ChargedTo(s)' <=> ChargedTo(s))
      BY <2>0 DEF StoreInv, ChargedTo
    <3> QED BY <1>0, <2>0, <2>1, <3>1 DEF SampleCharged, Live
  <2> QED BY <1>0, <2>4, <2>5, <2>6 DEF StoreInv
<1>6. CASE RecoverRows
  <2>0. /\ UNCHANGED <<res, obj, tomb, parts, files, alive, left>> /\ alive = "boot"
        /\ pc'["boot"] = "charges" /\ rows' = rows \ left
    BY <1>1, <1>6 DEF RecoverRows, Booting, To
  <2>1. \A a \in left : /\ a \in Samples /\ a \notin parts
                        /\ DigestOf[a] \in files => Published(DigestOf[a])
    BY DEF StoreInv, LeftCharged
  <2>2. LeftCharged'
    BY <2>0, <2>1 DEF LeftCharged, Published
  <2>3. ASSUME NEW d \in Digests
        PROVE  ObjectCharged(d)' /\ FileCharged(d)'
    <3>1. ObjectCharged(d) /\ FileCharged(d)
      BY DEF StoreInv
    <3>2. ObjectCharged(d)'
      BY <2>0, <3>1 DEF ObjectCharged, Live, Published
    <3>3. FileCharged(d)'
      BY <2>0, <2>1, <3>1 DEF FileCharged, Published
    <3> QED BY <3>2, <3>3
  <2>4. ASSUME NEW s \in Samples
        PROVE  SampleCharged(s)'
    <3>1. SampleCharged(s) /\ (ChargedTo(s)' <=> ChargedTo(s))
      BY <2>0 DEF StoreInv, ChargedTo
    <3> QED BY <1>0, <2>0, <3>1 DEF SampleCharged, Live
  <2> QED BY <1>0, <2>2, <2>3, <2>4 DEF StoreInv
<1>7. CASE RecoverCharges
  <2>0. /\ UNCHANGED <<rows, obj, tomb, parts, files>>
        /\ left' = {} /\ pc["boot"] = "charges"
        /\ res' = Released({ResOf[a] : a \in left})
    BY <1>7 DEF RecoverCharges, Booting
  <2>1. /\ \A a \in left : a \in Samples /\ a \notin parts /\ a \notin rows
        /\ \A r \in ResIds : (\A a \in left : ResOf[a] # r) => res'[r] = res[r]
    BY <2>0 DEF StoreInv, LeftCharged, Released
  <2>2. LeftCharged'
    BY <2>0 DEF LeftCharged
  <2>3. ASSUME NEW d \in Digests
        PROVE  ObjectCharged(d)' /\ FileCharged(d)'
    <3>1. ObjectCharged(d) /\ FileCharged(d)
      BY DEF StoreInv
    <3>2. obj[d].st # "none" => obj[d].res \in ResIds /\ \A a \in left : ResOf[a] # obj[d].res
      <4>1. \A a \in left : ~ChargedTo(a)
        BY <2>1 DEF StoreInv, SampleCharged
      <4> QED BY <2>1, <3>1, <4>1, ChargeNames
    <3>3. obj[d].st # "none" => res'[obj[d].res] = res[obj[d].res]
      BY <2>1, <3>2
    <3> QED BY <2>0, <3>1, <3>3 DEF ObjectCharged, FileCharged, Live, Published
  <2>4. ASSUME NEW s \in Samples
        PROVE  SampleCharged(s)'
    <3>1. SampleCharged(s) /\ (ChargedTo(s)' <=> ChargedTo(s)) /\ ResOf[s] \in ResIds
      BY <2>0, AttemptNames DEF StoreInv, ChargedTo
    <3>2. s \in rows \cup parts => res'[ResOf[s]] = res[ResOf[s]]
      BY <2>1, <3>1, AttemptNames
    <3> QED BY <1>0, <2>0, <3>1, <3>2 DEF SampleCharged, Live
  <2> QED BY <1>0, <2>2, <2>3, <2>4 DEF StoreInv
<1> QED BY <1>2, <1>3, <1>4, <1>5, <1>6, <1>7 DEF Recover

-----------------------------------------------------------------------------
(* The theorems about the store.                                           *)

LEMMA StoreInvInit == Init => StoreInv
<1> SUFFICES ASSUME Init PROVE StoreInv
  OBVIOUS
<1>1. /\ call = Idle /\ rows = {} /\ parts = {} /\ files = {} /\ left = {} /\ tomb = {}
      /\ \A d \in Digests : obj[d].st = "none"
      /\ Idle.op = "idle" /\ "idle" \notin PutOps
  BY DEF Init, StoreInit, NoObject, Idle, PutOps
<1>2. NothingStored /\ StoreQuiet /\ LeftCharged
  BY <1>1 DEF NothingStored, StoreQuiet, LeftCharged
<1>3. \A d \in Digests : ObjectCharged(d) /\ FileCharged(d)
  BY <1>1 DEF ObjectCharged, FileCharged, Published
<1>4. \A s \in Samples : SampleCharged(s)
  BY <1>1, AttemptNames DEF SampleCharged, ChargedTo, Putting
<1>5. CallCharged
  BY <1>1 DEF CallCharged
<1> QED BY <1>2, <1>3, <1>4, <1>5 DEF StoreInv

LEMMA StoreInvNext == JournalInv /\ StoreInv /\ [Next]_vars => StoreInv'
<1> SUFFICES ASSUME JournalInv, StoreInv, [Next]_vars PROVE StoreInv'
  OBVIOUS
<1>1. CASE Beginning
  BY <1>1, BeginStored
<1>2. CASE \/ \E i \in Inputs : Input(i)
           \/ \E s \in Samples : Sample(s)
           \/ \E t \in Callers : Stop(t)
  BY <1>2, ThreadNames, CallersStored
<1>3. CASE \E t \in Callers \cup {"boot"} : Freeze(t)
  BY <1>3, FreezeStored
<1>4. CASE StoreStep
  BY <1>4, StoreSteps
<1>5. CASE Retention
  BY <1>5, RetentionSteps
<1>6. CASE Load \/ AppendLifecycle
  <2>1. /\ alive = "up" /\ alive' = "up" /\ pc' = pc
        /\ UNCHANGED <<res, rows, obj, tomb, parts, files, call, left>>
    BY <1>6 DEF Load, AppendLifecycle, storeVars
  <2> QED BY <2>1, UpStored DEF Live
<1>7. CASE Crash
  BY <1>7, CrashStored
<1>8. CASE Recover
  BY <1>8, RecoverStored
<1>9. CASE UNCHANGED vars
  BY <1>9 DEF vars, storeVars, recVars, StoreInv, NothingStored, StoreQuiet, ObjectCharged,
       FileCharged, SampleCharged, CallCharged, LeftCharged, ChargedTo, Putting, Live, Published
<1> QED BY <1>1, <1>2, <1>3, <1>4, <1>5, <1>6, <1>7, <1>8, <1>9 DEF Next, Callers

\* StoreInv is an invariant: the staging table, the objects, the files and the
\* reservations agree at every step of a put, of retention and of a recovery,
\* and at every crash between two of them (evidence_store.py, disk_budget.py).
THEOREM StoreInvariance == Spec => []StoreInv
<1>1. JournalInv /\ StoreInv /\ [Next]_vars => StoreInv'
  BY StoreInvNext
<1> QED BY <1>1, StoreInvInit, JournalInvariance, PTL DEF Spec

\* lookup() and read() find what is published: the file is there, the digest
\* has no tombstone, and the budget has a charge for it.
THEOREM PublishedAlwaysReadable == Spec => []PublishedReadable
<1>1. StoreInv => PublishedReadable
  BY DEF StoreInv, ObjectCharged, PublishedReadable
<1> QED BY <1>1, StoreInvariance, PTL

\* No byte of a sample is on disk without a reservation made for these bytes,
\* whichever step of put_bytes, apply_retention or abandon_owner failed or was
\* the last before a crash.
THEOREM BytesAlwaysCharged == Spec => []NoUnchargedBytes
<1>1. StoreInv /\ TypeOK => NoUnchargedBytes
  <2> SUFFICES ASSUME StoreInv, TypeOK
               PROVE  /\ \A a \in parts : ResOf[a] \notin Given => Live(ResOf[a])
                      /\ \A d \in files :
                           LET own == {a \in Attempts : DigestOf[a] = d /\ ResOf[a] \notin Given}
                           IN own # {} => \E a \in own : Live(ResOf[a])
    BY DEF NoUnchargedBytes
  <2>1. /\ \A a \in Attempts : ResOf[a] \notin Given <=> a \in Samples
        /\ parts \subseteq Attempts /\ files \subseteq Digests
    BY AttemptNames, RecordingAssumption DEF TypeOK, StoreTypeOK
  <2>2. \A a \in parts : ResOf[a] \notin Given => Live(ResOf[a])
    BY <2>1 DEF StoreInv, SampleCharged
  <2>3. ASSUME NEW d \in files, NEW a \in Attempts, DigestOf[a] = d, ResOf[a] \notin Given
        PROVE  \E b \in Attempts : DigestOf[b] = d /\ ResOf[b] \notin Given /\ Live(ResOf[b])
    <3>0. a \in Samples /\ d \in Digests /\ d # Original
      BY <2>1, <2>3, AttemptNames
    <3>1. ObjectCharged(d) /\ FileCharged(d)
      BY <3>0 DEF StoreInv
    <3>2. CASE obj[d].st # "none"
      <4>1. obj[d].res # "final"
        BY <3>0, <3>1, <3>2, ChargeNames
      <4>2. PICK s \in Samples : obj[d].res = ResOf[s] /\ DigestOf[s] = d
        BY <3>0, <3>1, <3>2, <4>1, ChargeNames
      <4>3. obj[d].st \in {"published", "tombstoned"}
        BY <3>0, <3>2 DEF TypeOK, StoreTypeOK
      <4>4. Live(obj[d].res)
        BY <3>1, <4>1, <4>3 DEF ObjectCharged, Published
      <4> QED BY <2>1, <4>2, <4>4, AttemptNames
    <3>3. CASE obj[d].st = "none"
      <4>1. PICK s \in Samples \cap rows : DigestOf[s] = d
        BY <2>3, <3>0, <3>1, <3>3 DEF FileCharged
      <4>2. Live(ResOf[s])
        BY DEF StoreInv, SampleCharged
      <4> QED BY <2>1, <4>1, <4>2, AttemptNames
    <3> QED BY <3>2, <3>3
  <2>4. ASSUME NEW d \in files
        PROVE  LET own == {a \in Attempts : DigestOf[a] = d /\ ResOf[a] \notin Given}
               IN own # {} => \E a \in own : Live(ResOf[a])
    BY <2>3
  <2> QED BY <2>2, <2>4
<1> QED BY <1>1, StoreInvariance, RecordingTypes, PTL
=============================================================================
