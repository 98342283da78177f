-------------------------- MODULE LabControlProofs --------------------------
(* Proofs about the control of a session, for any clients, commands,       *)
(* callers and recordings, any replay and playback, and any limits.        *)
EXTENDS LabControl, TLAPS

Runs == {"replay", "playback"}

\* The steps of a run before its current action is admitted, and those
\* before its first.
Opening == {"begin", "reset", "resetting", "answered", "frame", "ready"}
Before  == Opening \cup {"next", "input"}

\* The commands the Lab has admitted.
Sent(c) == c \in ran \/ job[c] # "no"

\* A command that was admitted is behind the sequence of its controller.
Past(c) == \/ cmd[c].epoch < s.epoch
           \/ cmd[c].epoch = s.epoch /\ cmd[c].seq <= s.seq

Once(c) ==
    /\ Sent(c) => Past(c)
    /\ Sent(c) /\ c \in Cmds => cmd[c] # NoCmd
    /\ job[c] = "admitted" => c \notin ran

\* Control returns to the client that gave it away.
Callback ==
    /\ \A k \in Callers : Alive(k) => th[k].ctl \in Clients
    /\ \A t \in Runs : run[t].st # "none" => run[t].back \in Clients

\* A run is started once, under an epoch of its own.
RunPhase(t) ==
    /\ Alive(t) => run[t].st # "none" /\ th[t].n >= 1 /\ th[t].epoch <= s.epoch
    /\ th[t].pc \in Opening => th[t].n = 1
    /\ th[t].pc \in {"input", "wait"} =>
          /\ th[t].n <= Len(Script(t))
          /\ cmd[Script(t)[th[t].n]] = [ctl |-> t, epoch |-> th[t].epoch,
                                        seq |-> th[t].n, act |-> "tap"]
    /\ t = "playback" => th[t].pc \notin Opening

\* How far a run has come: no command of it was sent before its turn, and one
\* in flight is being waited for.
Turn(t) ==
    \A i \in 1 .. Len(Script(t)) :
        /\ Sent(Script(t)[i]) =>
              /\ run[t].st # "none"
              /\ th[t].pc \in Before => i < th[t].n
              /\ th[t].pc = "wait" => i <= th[t].n
        /\ job[Script(t)[i]] # "no" => th[t].pc = "wait" /\ th[t].n = i

\* Nobody takes control from a playback while its thread lives.
PlaybackHolds ==
    /\ s.plan # None => run["playback"].st = "none"
    /\ Alive("playback") =>
          /\ s.ctl = "playback"
          /\ Inflight \subseteq Elements(Played)
          /\ s.epoch = th["playback"].epoch => s.mode = "playback"

\* The inductive invariant of the control of a session.
ControlInv ==
    /\ TypeOK
    /\ Callback
    /\ PlaybackHolds
    /\ \A t \in Runs : RunPhase(t) /\ Turn(t)
    /\ \A c \in AllCmds : Once(c)

----------------------------------------------------------------------------
(* What a replay needs: the authority of the device, and a log that knows  *)
(* the late _reset of a start_recording from the replay's own.             *)

\* The calls of the provider that are not inputs, and the threads in them.
Busy   == {"releasing", "resetting", "answered"}
Busied == {t \in Threads : th[t].pc \in Busy}

\* The authority allows one outstanding operation.
OneOutstanding ==
    /\ auth = "free" => Inflight = {} /\ Busied = {}
    /\ Inflight = {} \/ Busied = {}
    /\ \A c, d \in Inflight : c = d
    /\ \A t, u \in Busied : t = u
    /\ auth = "lost" => s.st # "active"

\* The steps of _reset.
Resets == {"reset", "resetting", "answered", "frame"}

\* The replay is in control.
Mine == s.ctl = "replay" /\ s.epoch = th["replay"].epoch

\* A log of a reset and the last m of the first n actions of the replay: all
\* of them when the reset is the replay's own.
Replays(q, n) ==
    \E m \in 0 .. n :
        /\ Len(q) = m + 1
        /\ q[1] = "reset" \/ (q[1] = "replay" /\ m = n)
        /\ \A i \in 1 .. m : q[i + 1] = Replayed[n - m + i]

\* What the device has executed at each step of the replay.
ReplayLog ==
    /\ th["replay"].pc = "answered" => Replays(log, 0)
    /\ th["replay"].pc \in {"frame", "ready"} /\ Mine => Replays(log, 0) /\ Inflight = {}
    /\ th["replay"].pc \in {"next", "input"} /\ Mine =>
          Replays(log, th["replay"].n - 1) /\ Inflight = {}
    /\ th["replay"].pc = "wait" /\ job[Replayed[th["replay"].n]] = "admitted" =>
          Replays(log, th["replay"].n - 1)
    /\ th["replay"].pc = "wait" /\ Replayed[th["replay"].n] \in ran /\ Mine =>
          Replays(log, th["replay"].n) /\ Inflight \subseteq {Replayed[th["replay"].n]}

PureInv == OneOutstanding /\ ReplayLog

----------------------------------------------------------------------------
(* Types.                                                                  *)

RecTables == [Recordings -> RecordingRecords]
RunTables == [{"replay", "playback"} -> RunRecords]

LEMMA TypeInit == Init => ControlInv
<1> SUFFICES ASSUME Init PROVE ControlInv
  OBVIOUS
<1>1. s \in SessionRecords
  BY DEF Init, SessionRecords, Controllers
<1>2. NoCmd \in Envelopes /\ NoThread \in ThreadRecords /\ NoRec \in RecordingRecords
      /\ NoRun \in RunRecords
  BY ControlAssumption DEF NoCmd, Envelopes, NoThread, ThreadRecords, NoRec,
     RecordingRecords, NoRun, RunRecords
<1>3. TypeOK
  BY <1>1, <1>2 DEF Init, TypeOK, Elements
<1>4. \A t \in Threads : th[t].pc = "idle"
  BY DEF Init, NoThread
<1>5. \A t \in Runs : run[t].st = "none" /\ t \in Threads
  BY DEF Init, NoRun, Runs, Threads
<1>6. \A c \in AllCmds : ~Sent(c)
  BY DEF Init, Sent
<1>7. \A t \in Runs : RunPhase(t)
  BY <1>4, <1>5 DEF RunPhase, Alive, Opening
<1>8. \A t \in Runs : \A i \in 1 .. Len(Script(t)) : Script(t)[i] \in AllCmds
  BY NamesAssumption DEF Script, AllCmds, Elements
<1>9. \A t \in Runs : Turn(t)
  BY <1>6, <1>8 DEF Turn, Sent
<1>10. Callback /\ PlaybackHolds
  BY <1>4, <1>5 DEF Callback, PlaybackHolds, Alive, Threads, Runs, Init
<1>11. \A c \in AllCmds : Once(c)
  BY <1>6 DEF Once, Sent
<1> QED
  BY <1>3, <1>7, <1>9, <1>10, <1>11 DEF ControlInv

\* The tables that a frozen recording, an invalid one and a cancelled run give.
LEMMA TableTypes ==
  ASSUME TypeOK
  PROVE  /\ \A r : \A reason \in BOOLEAN : Frozen(r, reason) \in RecTables
         /\ Invalidated \in RecTables
         /\ Cancelled \in RunTables
<1>0. rec \in RecTables /\ run \in RunTables /\ s \in SessionRecords
  BY DEF TypeOK, RecTables, RunTables
<1>1. ASSUME NEW r, NEW reason \in BOOLEAN PROVE Frozen(r, reason) \in RecTables
  <2> DEFINE play == rec[r].replayable /\ ~reason /\ rec[r].events # <<>>
             state == IF reason THEN "invalid" ELSE "complete"
  <2>1. CASE r \in Recordings
    <3>1. play \in BOOLEAN /\ state \in {"invalid", "complete"}
      OBVIOUS
    <3>2. Frozen(r, reason) = [rec EXCEPT ![r].st = state, ![r].replayable = play]
      BY Zenon DEF Frozen
    <3> HIDE DEF play, state
    <3> QED BY <1>0, <2>1, <3>1, <3>2 DEF RecTables, RecordingRecords
  <2>2. CASE r \notin Recordings
    BY <1>0, <2>2 DEF Frozen, RecTables
  <2> QED BY <2>1, <2>2
<1>2. Invalidated \in RecTables
  BY <1>0, <1>1 DEF Invalidated
<1>3. Cancelled \in RunTables
  BY <1>0 DEF Cancelled, RunTables, RunRecords, SessionRecords
<1> QED BY <1>1, <1>2, <1>3

ThreadTables == [Threads -> ThreadRecords]

Pcs == {"idle", "pointers", "releasing", "second", "reset", "resetting",
        "answered", "frame", "begin", "ready", "next", "input", "wait",
        "end", "kept"}

\* What a step of a thread, and an error of it, leave of the tables.
LEMMA MoveTypes ==
  ASSUME TypeOK, NEW t \in Threads
  PROVE  /\ \A pc \in Pcs : Goto(t, pc) => th' \in ThreadTables
         /\ Return(t) => th' \in ThreadTables
         /\ Raised(t) => th' \in ThreadTables /\ run' \in RunTables
<1>0. th \in ThreadTables /\ run \in RunTables
  BY DEF TypeOK, ThreadTables, RunTables
<1>1. \A pc \in Pcs : Goto(t, pc) => th' \in ThreadTables
  BY <1>0 DEF Goto, Pcs, ThreadTables, ThreadRecords
<1>2. NoThread \in ThreadRecords
  BY DEF NoThread, ThreadRecords
<1>3. Return(t) => th' \in ThreadTables
  BY <1>0, <1>2 DEF Return, ThreadTables
<1>4. Raised(t) => th' \in ThreadTables
  BY <1>1, <1>3 DEF Raised, Pcs
<1>5. ASSUME Raised(t) PROVE run' \in RunTables
  <2>1. CASE t \in {"replay", "playback"}
    <3>1. PICK x \in {"cancelled", "failed"} : run' = [run EXCEPT ![t].st = x]
      BY <1>5, <2>1 DEF Raised
    <3> QED BY <1>0, <2>1, <3>1 DEF RunTables, RunRecords
  <2>2. CASE t \notin {"replay", "playback"}
    BY <1>0, <1>5, <2>2 DEF Raised
  <2> QED BY <2>1, <2>2
<1> QED BY <1>1, <1>3, <1>4, <1>5

\* What confirming and preparing an operation leave of the authority.
LEMMA AuthorityTypes ==
  ASSUME TypeOK
  PROVE  Confirmed \in {"free", "open", "lost"} /\ Prepared \in {"free", "open", "lost"}
BY DEF TypeOK, Confirmed, Prepared

\* A sequence of commands one of which is dropped or added.
LEMMA ReceiptTypes ==
  ASSUME TypeOK, NEW c \in AllCmds
  PROVE  /\ Append(receipts, c) \in Seq(AllCmds)
         /\ Elements(Append(receipts, c)) \subseteq Elements(receipts) \cup {c}
         /\ Keep(receipts, c) \in Seq(AllCmds)
         /\ Elements(Keep(receipts, c)) \subseteq Elements(receipts) \cup {c}
<1> DEFINE k == Append(receipts, c)
<1>1. /\ receipts \in Seq(AllCmds) /\ k \in Seq(AllCmds)
      /\ Len(k) = Len(receipts) + 1 /\ Len(k) \in Nat /\ DOMAIN k = 1 .. Len(k)
      /\ \A i \in 1 .. Len(receipts) : k[i] = receipts[i]
      /\ k[Len(receipts) + 1] = c
  BY DEF TypeOK
<1>2. DOMAIN receipts = 1 .. Len(receipts) /\ Len(receipts) \in Nat
  BY <1>1
<1>3. Elements(k) \subseteq Elements(receipts) \cup {c}
  BY <1>1, <1>2 DEF Elements
<1> HIDE DEF k
<1>4. /\ Tail(k) \in Seq(AllCmds) /\ Len(Tail(k)) = Len(k) - 1
      /\ DOMAIN Tail(k) = 1 .. Len(k) - 1
      /\ \A i \in 1 .. Len(k) - 1 : Tail(k)[i] = k[i + 1]
  BY <1>1
<1>5. Elements(Tail(k)) \subseteq Elements(k)
  BY <1>1, <1>4 DEF Elements
<1>6. Keep(receipts, c) \in {k, Tail(k)}
  BY DEF Keep, k
<1> QED
  BY <1>1, <1>3, <1>4, <1>5, <1>6 DEF k

\* Admitting a command changes its session, its job and the authority.
LEMMA AdmissionTypes ==
  ASSUME TypeOK, NEW c \in AllCmds, NEW e \in Envelopes, Accepted(c, e), Admission(c, e),
         UNCHANGED <<receipts, rec, device>>
  PROVE  /\ s' \in SessionRecords /\ auth' \in {"free", "open", "lost"}
         /\ job' \in [AllCmds -> {"no", "admitted", "executed"}]
         /\ Elements(receipts') \subseteq {d \in AllCmds : job'[d] = "no"}
<1>0. /\ s \in SessionRecords /\ e.seq \in Nat
      /\ job \in [AllCmds -> {"no", "admitted", "executed"}]
      /\ Elements(receipts) \subseteq {d \in AllCmds : job[d] = "no"}
      /\ auth \in {"free", "open", "lost"} /\ receipts' = receipts
  BY DEF TypeOK, Envelopes
<1>1. s' = [s EXCEPT !.known = FALSE, !.plan = None, !.seq = e.seq]
  BY DEF Admission
<1>2. s' \in SessionRecords
  BY <1>0, <1>1 DEF SessionRecords
<1>3. job' = job \/ job' = [job EXCEPT ![c] = "admitted"]
  BY DEF Admission
<1>4. c \notin Elements(receipts)
  BY DEF Accepted
<1>5. auth' \in {auth, Prepared}
  BY DEF Admission
<1> QED BY <1>0, <1>2, <1>3, <1>4, <1>5, AuthorityTypes

\* The session when it fails.
LEMMA FailTypes ==
  ASSUME TypeOK, FailSession
  PROVE  s' \in SessionRecords /\ rec' \in RecTables /\ run' \in RunTables
<1> DEFINE n == s.epoch + 1
<1>0. s \in SessionRecords
  BY DEF TypeOK
<1>1. s' = [s EXCEPT !.st = "failed", !.epoch = n, !.plan = None]
  BY DEF FailSession
<1>2. n \in Nat
  BY <1>0 DEF SessionRecords
<1> HIDE DEF n
<1>3. s' \in SessionRecords
  BY <1>0, <1>1, <1>2 DEF SessionRecords
<1> QED BY <1>3, TableTypes DEF FailSession

\* The recordings after a confirmed input.
LEMMA RecordedTypes ==
  ASSUME TypeOK, NEW c \in AllCmds, NEW base \in RecTables
  PROVE  Recorded(c, base) \in RecTables
<1>0. s.rid \in Recordings \cup {None}
  BY DEF TypeOK, SessionRecords
<1>1. CASE s.rid = None \/ base[s.rid].st # "recording"
  BY <1>1 DEF Recorded
<1>2. CASE s.rid # None /\ base[s.rid].st = "recording" /\ Len(base[s.rid].events) >= EventLimit
  BY <1>2, TableTypes DEF Recorded
<1>3. CASE s.rid # None /\ base[s.rid].st = "recording" /\ ~(Len(base[s.rid].events) >= EventLimit)
  <2>1. s.rid \in Recordings /\ base[s.rid] \in RecordingRecords
    BY <1>0, <1>3 DEF RecTables
  <2> DEFINE q == base[s.rid].events
  <2>2. q \in Seq(AllCmds) /\ Len(q) \in Nat /\ EventLimit \in Nat
    BY <2>1, ControlAssumption DEF RecordingRecords
  <2>3. Append(q, c) \in Seq(AllCmds) /\ Len(Append(q, c)) <= EventLimit
    BY <1>3, <2>2
  <2>4. Recorded(c, base) = [base EXCEPT ![s.rid].events = Append(q, c)]
    BY <1>3 DEF Recorded
  <2> HIDE DEF q
  <2> QED BY <2>1, <2>3, <2>4 DEF RecTables, RecordingRecords
<1> QED BY <1>1, <1>2, <1>3

LEMMA TypeInput ==
  ASSUME TypeOK, NEW c \in AllCmds, InputNext(c)
  PROVE  TypeOK'
<1>0. /\ s \in SessionRecords
      /\ cmd \in [AllCmds -> Envelopes]
      /\ job \in [AllCmds -> {"no", "admitted", "executed"}]
      /\ receipts \in Seq(AllCmds)
      /\ Elements(receipts) \subseteq {d \in AllCmds : job[d] = "no"}
      /\ auth \in {"free", "open", "lost"}
      /\ rec \in RecTables /\ th \in ThreadTables /\ run \in RunTables
      /\ log \in Seq(AllCmds \cup {"reset", "replay"}) /\ ran \subseteq AllCmds
  BY DEF TypeOK, RecTables, ThreadTables, RunTables
<1> USE DEF RecTables, ThreadTables, RunTables
<1>1. ASSUME NEW act \in Acts, Admit(c, act) PROVE TypeOK'
  <2> DEFINE e == IF cmd[c] # NoCmd THEN cmd[c]
                  ELSE [ctl |-> s.ctl, epoch |-> s.epoch, seq |-> s.seq + 1, act |-> act]
  <2>1. e \in Envelopes
    BY <1>0, ControlAssumption DEF Envelopes, SessionRecords
  <2>2. /\ Accepted(c, e) /\ Admission(c, e) /\ cmd' = [cmd EXCEPT ![c] = e]
        /\ UNCHANGED <<receipts, rec, th, run, device>>
    BY <1>1 DEF Admit
  <2> HIDE DEF e
  <2>3. cmd' \in [AllCmds -> Envelopes]
    BY <1>0, <2>1, <2>2
  <2> QED BY <1>0, <2>1, <2>2, <2>3, AdmissionTypes DEF TypeOK, device
<1>2. ASSUME Execute(c) PROVE TypeOK'
  <2>1. log' \in Seq(AllCmds \cup {"reset", "replay"})
    <3>1. <<"reset">> \in Seq(AllCmds \cup {"reset", "replay"})
      OBVIOUS
    <3>2. Append(log, c) \in Seq(AllCmds \cup {"reset", "replay"})
      BY <1>0
    <3> QED BY <1>2, <3>1, <3>2 DEF Execute
  <2>2. job' \in [AllCmds -> {"no", "admitted", "executed"}]
        /\ Elements(receipts') \subseteq {d \in AllCmds : job'[d] = "no"}
    BY <1>0, <1>2 DEF Execute
  <2> QED BY <1>0, <1>2, <2>1, <2>2 DEF Execute, TypeOK
<1>3. ASSUME InputRejected(c) PROVE TypeOK'
  <2>1. /\ job' \in [AllCmds -> {"no", "admitted", "executed"}]
        /\ \A d \in AllCmds : job[d] = "no" \/ d = c => job'[d] = "no"
    BY <1>0, <1>3 DEF InputRejected
  <2>2. receipts' \in Seq(AllCmds) /\ Elements(receipts') \subseteq Elements(receipts) \cup {c}
    BY <1>3, ReceiptTypes DEF InputRejected
  <2> QED BY <1>0, <1>3, <2>1, <2>2, AuthorityTypes DEF InputRejected, TypeOK, device
<1>4. ASSUME InputUnknown(c) PROVE TypeOK'
  <2>1. /\ job' \in [AllCmds -> {"no", "admitted", "executed"}]
        /\ \A d \in AllCmds : job[d] = "no" \/ d = c => job'[d] = "no"
    BY <1>0, <1>4 DEF InputUnknown
  <2>2. receipts' \in Seq(AllCmds) /\ Elements(receipts') \subseteq Elements(receipts) \cup {c}
    BY <1>4, ReceiptTypes DEF InputUnknown
  <2>3. s' \in SessionRecords /\ rec' \in RecTables /\ run' \in RunTables
    BY <1>4, FailTypes DEF InputUnknown
  <2> QED BY <1>0, <1>4, <2>1, <2>2, <2>3, AuthorityTypes DEF InputUnknown, TypeOK, device
<1>5. ASSUME NEW fresh \in BOOLEAN, InputDone(c, fresh) PROVE TypeOK'
  <2>1. /\ job' \in [AllCmds -> {"no", "admitted", "executed"}]
        /\ \A d \in AllCmds : job[d] = "no" \/ d = c => job'[d] = "no"
    BY <1>0, <1>5 DEF InputDone
  <2>2. receipts' \in Seq(AllCmds) /\ Elements(receipts') \subseteq Elements(receipts) \cup {c}
    BY <1>5, ReceiptTypes DEF InputDone
  <2>3. rec' \in RecTables
    <3>1. rec' = Recorded(c, IF s.geo THEN Invalidated ELSE rec)
      BY <1>5 DEF InputDone
    <3> QED BY <1>0, <3>1, TableTypes, RecordedTypes
  <2>4. s' \in SessionRecords
    <3> DEFINE known == cmd[c].act = "reset" /\ fresh
               down  == CASE cmd[c].act = "down" -> TRUE
                          [] cmd[c].act = "up"   -> FALSE
                          [] OTHER               -> s.down
    <3>1. known \in BOOLEAN
      OBVIOUS
    <3>2. s.down \in BOOLEAN
      BY <1>0 DEF SessionRecords
    <3>3. down \in BOOLEAN
      BY <3>2
    <3>4. s' = [s EXCEPT !.known = known, !.geo = FALSE, !.down = down]
      BY <1>5, Zenon DEF InputDone
    <3> HIDE DEF known, down
    <3> QED BY <1>0, <3>1, <3>3, <3>4 DEF SessionRecords
  <2> QED BY <1>0, <1>5, <2>1, <2>2, <2>3, <2>4, AuthorityTypes DEF InputDone, TypeOK, device
<1> QED
  BY <1>1, <1>2, <1>3, <1>4, <1>5 DEF InputNext

\* Everything else in place, what a step of the session, its recordings and
\* its threads has to give.
LEMMA TypeParts ==
  ASSUME TypeOK, s' \in SessionRecords, rec' \in RecTables, th' \in ThreadTables,
         run' \in RunTables, auth' \in {"free", "open", "lost"}, UNCHANGED <<job, receipts, ran>>,
         cmd' \in [AllCmds -> Envelopes], log' \in Seq(AllCmds \cup {"reset", "replay"})
  PROVE  TypeOK'
BY DEF TypeOK, RecTables, ThreadTables, RunTables

LEMMA TypeFacts ==
  ASSUME TypeOK
  PROVE  /\ s \in SessionRecords /\ s.epoch \in Nat /\ s.epoch + 1 \in Nat
         /\ s.rid \in Recordings \cup {None} /\ s.geo \in BOOLEAN /\ s.down \in BOOLEAN
         /\ rec \in RecTables /\ th \in ThreadTables /\ run \in RunTables
         /\ auth \in {"free", "open", "lost"}
         /\ cmd \in [AllCmds -> Envelopes] /\ log \in Seq(AllCmds \cup {"reset", "replay"})
         /\ \A x \in {"reset", "replay"} : <<x>> \in Seq(AllCmds \cup {"reset", "replay"})
<1>1. s \in SessionRecords
  BY DEF TypeOK
<1>2. s.epoch \in Nat /\ s.rid \in Recordings \cup {None} /\ s.geo \in BOOLEAN /\ s.down \in BOOLEAN
  BY <1>1 DEF SessionRecords
<1>3. s.epoch + 1 \in Nat
  BY <1>2
<1> QED BY <1>1, <1>2, <1>3 DEF TypeOK, RecTables, ThreadTables, RunTables

LEMMA TypeThread ==
  ASSUME TypeOK, NEW t \in Threads, ThreadNext(t)
  PROVE  TypeOK'
<1> DEFINE n == s.epoch + 1
<1>0. /\ s \in SessionRecords /\ n \in Nat
      /\ rec \in RecTables /\ th \in ThreadTables /\ run \in RunTables
      /\ auth \in {"free", "open", "lost"}
      /\ cmd \in [AllCmds -> Envelopes] /\ log \in Seq(AllCmds \cup {"reset", "replay"})
      /\ \A x \in {"reset", "replay"} : <<x>> \in Seq(AllCmds \cup {"reset", "replay"})
  BY TypeFacts
<1>m. /\ \A pc \in Pcs : Goto(t, pc) => th' \in ThreadTables
      /\ Return(t) => th' \in ThreadTables
      /\ Raised(t) => th' \in ThreadTables /\ run' \in RunTables
  BY MoveTypes
<1>t. Invalidated \in RecTables /\ Cancelled \in RunTables
  BY TableTypes
<1>a. Confirmed \in {"free", "open", "lost"} /\ Prepared \in {"free", "open", "lost"}
  BY AuthorityTypes
<1>f. \A tab \in RunTables : \A x \in {"failed", "cancelled"} : t \in {"replay", "playback"}
        => [tab EXCEPT ![t].st = x] \in RunTables
  BY DEF RunTables, RunRecords
<1>p. AfterPointers(t) \in Pcs
  BY DEF AfterPointers, Pcs
<1>1. ASSUME PointersUp(t) \/ PointersCall(t) \/ ResetConfirmed(t) PROVE TypeOK'
  BY <1>0, <1>m, <1>a, <1>p, <1>1, TypeParts DEF PointersUp, PointersCall, ResetConfirmed,
     device, Pcs
<1>2. ASSUME PointersRefused(t) PROVE TypeOK'
  <2>1. th' \in ThreadTables
    BY <1>m, <1>2 DEF PointersRefused, Pcs
  <2>2. run' \in RunTables
    BY <1>0, <1>f, <1>2 DEF PointersRefused
  <2> QED BY <1>0, <1>2, <2>1, <2>2, TypeParts DEF PointersRefused, device
<1>3. ASSUME PointersReleased(t) PROVE TypeOK'
  <2>1. s' \in SessionRecords
    BY <1>0, <1>3 DEF PointersReleased, SessionRecords
  <2> QED BY <1>0, <1>m, <1>a, <1>p, <1>3, <2>1, TypeParts DEF PointersReleased, device
<1>4. ASSUME PointersUnknown(t) PROVE TypeOK'
  <2>1. s' = [s EXCEPT !.st = "failed", !.epoch = n]
    BY <1>4 DEF PointersUnknown
  <2> HIDE DEF n
  <2>2. s' \in SessionRecords
    BY <1>0, <2>1 DEF SessionRecords
  <2>3. th' \in ThreadTables
    BY <1>m, <1>4 DEF PointersUnknown, Pcs
  <2>4. run' \in RunTables
    BY <1>t, <1>f, <1>4 DEF PointersUnknown
  <2> QED BY <1>0, <1>t, <1>4, <2>2, <2>3, <2>4, TypeParts DEF PointersUnknown, device
<1>5. ASSUME ResetBegin(t) PROVE TypeOK'
  <2>1. s' \in {s, [s EXCEPT !.known = FALSE]}
    BY <1>5 DEF ResetBegin
  <2>2. s' \in SessionRecords
    BY <1>0, <2>1 DEF SessionRecords
  <2>3. th' \in ThreadTables /\ run' \in RunTables /\ auth' \in {"free", "open", "lost"}
    <3>1. CASE ~s.down /\ MayPrepare
      BY <1>0, <1>m, <1>a, <1>5, <3>1 DEF ResetBegin, Pcs
    <3>2. CASE ~(~s.down /\ MayPrepare)
      BY <1>0, <1>m, <1>5, <3>2 DEF ResetBegin
    <3> QED BY <3>1, <3>2
  <2> QED BY <1>0, <1>5, <2>2, <2>3, TypeParts DEF ResetBegin, device
<1>6. ASSUME ResetExecute(t) PROVE TypeOK'
  BY <1>0, <1>m, <1>6, TypeParts DEF ResetExecute, Pcs
<1>7. ASSUME ResetDone(t) PROVE TypeOK'
  <2>1. s' \in SessionRecords
    BY <1>0, <1>7 DEF ResetDone, SessionRecords
  <2>2. th' \in ThreadTables
    BY <1>m, <1>7 DEF ResetDone, Pcs
  <2> QED BY <1>0, <1>7, <2>1, <2>2, TypeParts DEF ResetDone, device
<1>8. ASSUME ResetRejected(t) PROVE TypeOK'
  BY <1>0, <1>m, <1>a, <1>8, TypeParts DEF ResetRejected, device
<1>9. ASSUME ResetUnknown(t) PROVE TypeOK'
  <2>1. s' \in {s, [s EXCEPT !.st = "failed", !.epoch = n, !.plan = None]}
    BY <1>9 DEF ResetUnknown
  <2> HIDE DEF n
  <2>2. s' \in SessionRecords
    BY <1>0, <2>1 DEF SessionRecords
  <2>3. th' \in ThreadTables
    BY <1>m, <1>9 DEF ResetUnknown, Pcs
  <2>4. run' \in RunTables
    <3> DEFINE tab == IF s.st = "draining" THEN run ELSE Cancelled
    <3>1. tab \in RunTables
      BY <1>0, <1>t
    <3>2. run' = tab \/ (t = "replay" /\ run' = [tab EXCEPT ![t].st = "failed"])
      BY <1>9 DEF ResetUnknown
    <3> HIDE DEF tab
    <3> QED BY <1>f, <3>1, <3>2
  <2>5. rec' \in RecTables /\ auth' \in {"free", "open", "lost"}
    BY <1>0, <1>t, <1>9 DEF ResetUnknown
  <2> QED BY <1>0, <1>9, <2>2, <2>3, <2>4, <2>5, TypeParts DEF ResetUnknown, device
<1> QED
  BY <1>1, <1>2, <1>3, <1>4, <1>5, <1>6, <1>7, <1>8, <1>9 DEF ThreadNext

LEMMA TypeCaller ==
  ASSUME TypeOK, Callback, NEW k \in Callers, CallerNext(k)
  PROVE  TypeOK'
<1> DEFINE n == s.epoch + 1
<1>0. /\ s \in SessionRecords /\ n \in Nat /\ s.epoch \in Nat /\ s.geo \in BOOLEAN
      /\ s.rid \in Recordings \cup {None}
      /\ rec \in RecTables /\ th \in ThreadTables /\ run \in RunTables
      /\ auth \in {"free", "open", "lost"} /\ k \in Threads
      /\ cmd \in [AllCmds -> Envelopes] /\ log \in Seq(AllCmds \cup {"reset", "replay"})
  BY TypeFacts DEF Threads
<1>m. Return(k) => th' \in ThreadTables
  BY <1>0, MoveTypes
<1>t. /\ Invalidated \in RecTables /\ Cancelled \in RunTables
      /\ \A r : \A reason \in BOOLEAN : Frozen(r, reason) \in RecTables
  BY TableTypes
<1>e. ASSUME NEW op \in {"claim", "record", "stop", "replay"}, NEW pc \in {"pointers", "reset", "second"},
             NEW c \in Clients, Enter(k, op, pc, c, None)
      PROVE  th' \in ThreadTables
  <2> DEFINE x == [op |-> op, pc |-> pc, ctl |-> c, epoch |-> s.epoch, arg |-> None, n |-> 0]
  <2>1. x \in ThreadRecords
    BY <1>0 DEF ThreadRecords, Controllers
  <2>2. th' = [th EXCEPT ![k] = x]
    BY <1>e DEF Enter
  <2> HIDE DEF x
  <2> QED BY <1>0, <2>1, <2>2 DEF ThreadTables
<1>1. ASSUME NEW c \in Clients, ClaimBegin(k, c) \/ ReplayBegin(k, c) PROVE TypeOK'
  <2>1. th' \in ThreadTables
    BY <1>e, <1>1 DEF ClaimBegin, ReplayBegin
  <2> QED BY <1>0, <1>1, <2>1, TypeParts DEF ClaimBegin, ReplayBegin, device
<1>2. ASSUME NEW c \in Clients, NEW reset \in BOOLEAN, RecordBegin(k, c, reset) PROVE TypeOK'
  <2>1. th' \in ThreadTables
    BY <1>e, <1>2 DEF RecordBegin
  <2> QED BY <1>0, <1>2, <2>1, TypeParts DEF RecordBegin, device
<1>3. ASSUME NEW c \in Clients, StopBegin(k, c) PROVE TypeOK'
  <2> DEFINE m == IF s.down THEN 1 ELSE 0
             x == [op |-> "stop", pc |-> "pointers", ctl |-> c, epoch |-> s.epoch,
                   arg |-> s.rid, n |-> m]
  <2>1. m \in Nat
    OBVIOUS
  <2>2. th' = [th EXCEPT ![k] = x]
    BY <1>3 DEF StopBegin
  <2> HIDE DEF m
  <2>3. x \in ThreadRecords
    BY <1>0, <2>1 DEF ThreadRecords, Controllers
  <2> HIDE DEF x
  <2>4. th' \in ThreadTables
    BY <1>0, <2>2, <2>3 DEF ThreadTables
  <2> QED BY <1>0, <1>3, <2>4, TypeParts DEF StopBegin, device
<1>4. ASSUME ClaimEnd(k) PROVE TypeOK'
  <2>1. th[k].ctl \in Clients
    BY <1>4 DEF ClaimEnd, Second, Callback, Alive
  <2>2. s' = s \/ s' = [s EXCEPT !.ctl = th[k].ctl, !.epoch = n, !.seq = 0,
                                 !.mode = "manual", !.plan = None]
    BY <1>4 DEF ClaimEnd
  <2> HIDE DEF n
  <2> DEFINE ctl == th[k].ctl
  <2> HIDE DEF ctl
  <2>a. ctl \in Controllers
    BY <2>1 DEF Controllers, ctl
  <2>b. [s EXCEPT !.ctl = ctl, !.epoch = n, !.seq = 0, !.mode = "manual", !.plan = None]
          \in SessionRecords
    BY <1>0, <2>a DEF SessionRecords
  <2>3. s' \in SessionRecords
    BY <1>0, <2>2, <2>b DEF ctl
  <2>4. rec' \in RecTables /\ run' \in RunTables
    BY <1>0, <1>t, <1>4 DEF ClaimEnd
  <2> QED BY <1>0, <1>m, <1>4, <2>3, <2>4, TypeParts DEF ClaimEnd, device
<1>5. ASSUME NEW r \in Recordings, RecordEnd(k, r) PROVE TypeOK'
  <2> DEFINE x == [NoRec EXCEPT !.st = "recording", !.replayable = s.known]
  <2>1. s' = s \/ s' = [s EXCEPT !.rid = r, !.geo = FALSE]
    BY <1>5 DEF RecordEnd
  <2>2. s' \in SessionRecords
    BY <1>0, <2>1 DEF SessionRecords
  <2>3. rec' = rec \/ rec' = [rec EXCEPT ![r] = x]
    BY <1>5 DEF RecordEnd
  <2>4. NoRec \in RecordingRecords
    BY ControlAssumption DEF NoRec, RecordingRecords
  <2>a. \A b \in BOOLEAN : [NoRec EXCEPT !.st = "recording", !.replayable = b] \in RecordingRecords
    BY <2>4 DEF RecordingRecords
  <2>b. s.known \in BOOLEAN
    BY <1>0 DEF SessionRecords
  <2>5. x \in RecordingRecords
    BY <2>a, <2>b
  <2> HIDE DEF x
  <2>6. rec' \in RecTables
    BY <1>0, <2>3, <2>5 DEF RecTables
  <2> QED BY <1>0, <1>m, <1>5, <2>2, <2>6, TypeParts DEF RecordEnd, device
<1>6. ASSUME StopEnd(k) PROVE TypeOK'
  <2> DEFINE reason == th[k].n = 1 \/ s.geo
  <2>1. s' = s \/ s' = [s EXCEPT !.geo = FALSE]
    BY <1>6 DEF StopEnd
  <2>2. s' \in SessionRecords
    BY <1>0, <2>1 DEF SessionRecords
  <2>3. reason \in BOOLEAN
    OBVIOUS
  <2>4. rec' = rec \/ rec' = Frozen(th[k].arg, reason)
    BY <1>6 DEF StopEnd
  <2> HIDE DEF reason
  <2>5. rec' \in RecTables
    BY <1>0, <1>t, <2>3, <2>4
  <2> QED BY <1>0, <1>m, <1>6, <2>2, <2>5, TypeParts DEF StopEnd, device
<1>7. ASSUME ReplayStart(k) PROVE TypeOK'
  <2>1. th[k].ctl \in Clients
    BY <1>7 DEF ReplayStart, Second, Callback, Alive
  <2>2. CASE Control(th[k].ctl, th[k].epoch) /\ run["replay"].st = "none"
    <3> DEFINE y == [st |-> "running", cancel |-> FALSE, back |-> th[k].ctl]
               x == [op |-> "replay", pc |-> "begin", ctl |-> "replay", epoch |-> n,
                     arg |-> None, n |-> 1]
    <3>1. /\ s' = [s EXCEPT !.ctl = "replay", !.epoch = n, !.seq = 0,
                            !.mode = "replay", !.event = "replay"]
          /\ rec' = Invalidated
          /\ run' = [run EXCEPT !["replay"] = y]
          /\ th' = [th EXCEPT ![k] = NoThread, !["replay"] = x]
      BY <1>7, <2>2 DEF ReplayStart
    <3> HIDE DEF n
    <3>2. x \in ThreadRecords /\ NoThread \in ThreadRecords
      BY <1>0 DEF ThreadRecords, Controllers, NoThread
    <3>3. y \in RunRecords
      BY <2>1 DEF RunRecords
    <3> HIDE DEF x, y
    <3>4. s' \in SessionRecords
      BY <1>0, <3>1 DEF SessionRecords, Controllers
    <3>5. th' \in ThreadTables /\ run' \in RunTables
      BY <1>0, <3>1, <3>2, <3>3 DEF ThreadTables, RunTables
    <3> QED BY <1>0, <1>t, <1>7, <3>1, <3>4, <3>5, TypeParts DEF ReplayStart, device
  <2>3. CASE ~(Control(th[k].ctl, th[k].epoch) /\ run["replay"].st = "none")
    BY <1>0, <1>m, <1>7, <2>3, TypeParts DEF ReplayStart, device
  <2> QED BY <2>2, <2>3
<1> QED
  BY <1>1, <1>2, <1>3, <1>4, <1>5, <1>6, <1>7 DEF CallerNext

\* The commands of the runs.
LEMMA ScriptNames ==
  /\ \A t \in Runs : Len(Script(t)) \in Nat /\ t \in Threads /\ t \notin Clients /\ t \notin Callers
  /\ \A t \in Runs : \A i \in 1 .. Len(Script(t)) :
       /\ Script(t)[i] \in AllCmds /\ Script(t)[i] \notin Cmds
       /\ Script(t)[i] \in Elements(Script(t))
       /\ \A j \in 1 .. Len(Script(t)) : Script(t)[i] = Script(t)[j] => i = j
  /\ \A i \in 1 .. Len(Replayed), j \in 1 .. Len(Played) : Replayed[i] # Played[j]
  /\ \A t \in Runs : \A c \in Elements(Script(t)) : \E i \in 1 .. Len(Script(t)) : c = Script(t)[i]
<1>1. \A q \in {Replayed, Played} : Len(q) \in Nat /\ DOMAIN q = 1 .. Len(q)
  BY NamesAssumption
<1>2. \A t \in Runs : Script(t) \in {Replayed, Played}
  BY DEF Script
<1>a. \A q \in {Replayed, Played} : \A i \in 1 .. Len(q) : q[i] \in Elements(q)
  BY <1>1 DEF Elements
<1>b. \A q \in {Replayed, Played} : \A i, j \in 1 .. Len(q) : q[i] = q[j] => i = j
  BY <1>1, NamesAssumption
<1>c. \A q \in {Replayed, Played} : \A c \in Elements(q) : c \in AllCmds /\ c \notin Cmds
  BY NamesAssumption DEF AllCmds
<1>3. \A q \in {Replayed, Played} : \A i \in 1 .. Len(q) :
        /\ q[i] \in Elements(q) /\ q[i] \in AllCmds /\ q[i] \notin Cmds
        /\ \A j \in 1 .. Len(q) : q[i] = q[j] => i = j
  BY <1>a, <1>b, <1>c
<1>4. \A i \in 1 .. Len(Replayed), j \in 1 .. Len(Played) : Replayed[i] # Played[j]
  BY <1>3, NamesAssumption
<1>5. \A q \in {Replayed, Played} : \A c \in Elements(q) : \E i \in 1 .. Len(q) : c = q[i]
  BY <1>1 DEF Elements
<1>6. \A t \in Runs : t \in Threads /\ t \notin Clients /\ t \notin Callers
  BY NamesAssumption DEF Runs, Threads
<1> QED BY <1>1, <1>2, <1>3, <1>4, <1>5, <1>6

LEMMA TypeRun ==
  ASSUME TypeOK, Callback, NEW t \in Runs, RunPhase(t), RunSteps(t)
  PROVE  TypeOK'
<1> DEFINE n == s.epoch + 1
<1>0. /\ s \in SessionRecords /\ n \in Nat /\ s.epoch \in Nat
      /\ rec \in RecTables /\ th \in ThreadTables /\ run \in RunTables
      /\ auth \in {"free", "open", "lost"} /\ t \in Threads
      /\ cmd \in [AllCmds -> Envelopes] /\ log \in Seq(AllCmds \cup {"reset", "replay"})
  BY TypeFacts, ScriptNames
<1>m. /\ \A pc \in Pcs : Goto(t, pc) => th' \in ThreadTables
      /\ Return(t) => th' \in ThreadTables
      /\ Raised(t) => th' \in ThreadTables /\ run' \in RunTables
  BY <1>0, MoveTypes
<1>f. \A x \in {"failed", "cancelled", "played"} : [run EXCEPT ![t].st = x] \in RunTables
  BY <1>0 DEF RunTables, RunRecords, Runs
<1>n. th[t].n \in Nat /\ th[t].epoch \in Nat
  BY <1>0 DEF ThreadTables, ThreadRecords
<1>1. ASSUME RunNext(t) PROVE TypeOK'
  <2> DEFINE c == Script(t)[th[t].n]
             e == [ctl |-> t, epoch |-> th[t].epoch, seq |-> th[t].n, act |-> "tap"]
  <2>1. cmd' = cmd \/ cmd' = [cmd EXCEPT ![c] = e]
    BY <1>1 DEF RunNext
  <2>2. e \in Envelopes
    BY <1>n DEF Envelopes, Controllers, Runs
  <2> HIDE DEF e
  <2>3. cmd' \in [AllCmds -> Envelopes]
    BY <1>0, <2>1, <2>2
  <2>4. th' \in ThreadTables /\ run' \in RunTables
    <3>1. CASE run[t].cancel
      BY <1>0, <1>m, <1>f, <1>1, <3>1 DEF RunNext, Pcs
    <3>2. CASE ~run[t].cancel /\ Control(t, th[t].epoch) /\ (t = "playback" /\ Native => auth = "free")
      BY <1>0, <1>m, <1>1, <3>2 DEF RunNext, Pcs
    <3>3. CASE ~run[t].cancel /\ ~(Control(t, th[t].epoch) /\ (t = "playback" /\ Native => auth = "free"))
      BY <1>m, <1>1, <3>3 DEF RunNext
    <3> QED BY <3>1, <3>2, <3>3
  <2> QED BY <1>0, <1>1, <2>3, <2>4, TypeParts DEF RunNext, device
<1>2. ASSUME RunAdmit(t) PROVE TypeOK'
  <2> DEFINE c == Script(t)[th[t].n]
  <2>1. th[t].n \in 1 .. Len(Script(t))
    BY <1>n, <1>2, ScriptNames DEF RunAdmit, RunPhase, Alive
  <2>2. c \in AllCmds /\ cmd[c] \in Envelopes
    BY <1>0, <2>1, ScriptNames
  <2>3. th' \in ThreadTables /\ run' \in RunTables
    BY <1>0, <1>m, <1>2 DEF RunAdmit, Pcs
  <2>4. UNCHANGED <<receipts, rec, device, cmd>>
    BY <1>2 DEF RunAdmit
  <2>5. CASE Accepted(c, cmd[c])
    <3>1. Admission(c, cmd[c])
      BY <1>2, <2>5 DEF RunAdmit
    <3>2. /\ s' \in SessionRecords /\ auth' \in {"free", "open", "lost"}
          /\ job' \in [AllCmds -> {"no", "admitted", "executed"}]
          /\ Elements(receipts') \subseteq {d \in AllCmds : job'[d] = "no"}
      BY <2>2, <2>4, <2>5, <3>1, AdmissionTypes
    <3> QED BY <2>3, <2>4, <3>2 DEF TypeOK, RunTables, ThreadTables, device
  <2>6. CASE ~Accepted(c, cmd[c])
    BY <1>0, <1>2, <2>3, <2>4, <2>6, TypeParts DEF RunAdmit, device
  <2> QED BY <2>5, <2>6
<1>3. ASSUME RunAnswered(t) PROVE TypeOK'
  <2>1. th' \in ThreadTables /\ run' \in RunTables
    <3>1. CASE Script(t)[th[t].n] \in ran /\ s.st = "active"
      <4> DEFINE m == th[t].n + 1
      <4>1. th' = [th EXCEPT ![t].pc = "next", ![t].n = m] /\ run' = run
        BY <1>3, <3>1 DEF RunAnswered
      <4>2. m \in Nat
        BY <1>n
      <4> HIDE DEF m
      <4>3. \A x \in ThreadRecords : [x EXCEPT !.pc = "next", !.n = m] \in ThreadRecords
        BY <4>2 DEF ThreadRecords
      <4>4. th' = [th EXCEPT ![t] = [th[t] EXCEPT !.pc = "next", !.n = m]]
        BY <1>0, <4>1 DEF ThreadTables
      <4> DEFINE y == [th[t] EXCEPT !.pc = "next", !.n = m]
      <4>5. y \in ThreadRecords
        BY <1>0, <4>3 DEF ThreadTables
      <4>6. th' = [th EXCEPT ![t] = y]
        BY <4>4
      <4> HIDE DEF y
      <4>7. th' \in ThreadTables
        BY <1>0, <4>5, <4>6 DEF ThreadTables
      <4> QED BY <1>0, <4>1, <4>7
    <3>2. CASE ~(Script(t)[th[t].n] \in ran /\ s.st = "active")
      BY <1>m, <1>3, <3>2 DEF RunAnswered
    <3> QED BY <3>1, <3>2
  <2> QED BY <1>0, <1>3, <2>1, TypeParts DEF RunAnswered, device
<1>4. ASSUME RunComplete(t) PROVE TypeOK'
  BY <1>0, <1>m, <1>f, <1>4, TypeParts DEF RunComplete, Pcs, device
<1>5. ASSUME RunEnd(t) PROVE TypeOK'
  <2> DEFINE b == s.known /\ t = "replay"
  <2>1. run[t].back \in Clients
    BY <1>5 DEF RunEnd, RunPhase, Alive, Callback
  <2>2. s' = s \/ s' = [s EXCEPT !.ctl = run[t].back, !.epoch = n, !.seq = 0,
                                 !.mode = "manual", !.known = b]
    BY <1>5 DEF RunEnd
  <2>3. b \in BOOLEAN
    OBVIOUS
  <2> HIDE DEF b, n
  <2>4. s' \in SessionRecords
    <3>1. \A ctl \in Controllers : [s EXCEPT !.ctl = ctl, !.epoch = n, !.seq = 0,
                                             !.mode = "manual", !.known = b] \in SessionRecords
      BY <1>0, <2>3 DEF SessionRecords
    <3> QED BY <1>0, <2>1, <2>2, <3>1 DEF Controllers
  <2>5. run' \in RunTables
    BY <1>0, <1>f, <1>5 DEF RunEnd
  <2> QED BY <1>0, <1>m, <1>5, <2>4, <2>5, TypeParts DEF RunEnd, device
<1> QED
  BY <1>1, <1>2, <1>3, <1>4, <1>5 DEF RunSteps

OtherNext ==
    \/ ReplayCheck \/ CancelReplay \/ PlaybackNext
    \/ GeometryChange \/ TimeoutBegin \/ TimeoutEnd \/ Fail
    \/ CloseStop \/ CloseDrain

LEMMA TypeOthers ==
  ASSUME TypeOK, OtherNext
  PROVE  TypeOK'
<1> DEFINE n == s.epoch + 1
<1>0. /\ s \in SessionRecords /\ n \in Nat /\ s.epoch \in Nat /\ s.seq \in Nat
      /\ rec \in RecTables /\ th \in ThreadTables /\ run \in RunTables
      /\ auth \in {"free", "open", "lost"}
      /\ "replay" \in Threads /\ "playback" \in Threads /\ "timer" \in Threads
      /\ cmd \in [AllCmds -> Envelopes] /\ log \in Seq(AllCmds \cup {"reset", "replay"})
  BY TypeFacts DEF Threads, SessionRecords
<1>m. \A t \in Threads : /\ \A pc \in Pcs : Goto(t, pc) => th' \in ThreadTables
                         /\ Return(t) => th' \in ThreadTables
                         /\ Raised(t) => th' \in ThreadTables /\ run' \in RunTables
  BY MoveTypes
<1>t. Invalidated \in RecTables /\ Cancelled \in RunTables
  BY TableTypes
<1>1. ASSUME ReplayCheck PROVE TypeOK'
  <2>1. th' \in ThreadTables /\ run' \in RunTables
    BY <1>0, <1>m, <1>1 DEF ReplayCheck, Pcs
  <2> QED BY <1>0, <1>1, <2>1, TypeParts DEF ReplayCheck, device
<1>2. ASSUME CancelReplay PROVE TypeOK'
  <2> DEFINE x == IF Cancelled["replay"].st = "running" THEN "cancelling" ELSE Cancelled["replay"].st
  <2>1. run' = [Cancelled EXCEPT !["replay"].st = x]
    BY <1>2 DEF CancelReplay
  <2>2. x \in {"none", "running", "cancelling", "played", "cancelled", "failed"}
    BY <1>t DEF RunTables, RunRecords
  <2> HIDE DEF x
  <2>3. run' \in RunTables
    BY <1>t, <2>1, <2>2 DEF RunTables, RunRecords
  <2> QED BY <1>0, <1>2, <2>3, TypeParts DEF CancelReplay, device
<1>3. ASSUME NEW c \in Clients, Plan(c) PROVE TypeOK'
  <2>1. s' \in SessionRecords
    BY <1>0, <1>3 DEF Plan, SessionRecords
  <2> QED BY <1>0, <1>3, <2>1, TypeParts DEF Plan, device
<1>4. ASSUME NEW c \in Clients, ConfirmPlayback(c) PROVE TypeOK'
  <2> DEFINE y == [st |-> "running", cancel |-> FALSE, back |-> c]
             x == [op |-> "playback", pc |-> "next", ctl |-> "playback", epoch |-> n,
                   arg |-> None, n |-> 1]
  <2>1. \/ /\ s' = [s EXCEPT !.plan = None, !.known = FALSE, !.epoch = n, !.ctl = "playback",
                             !.seq = 0, !.mode = "playback", !.event = "playback"]
           /\ run' = [run EXCEPT !["playback"] = y]
           /\ th' = [th EXCEPT !["playback"] = x]
        \/ s' = [s EXCEPT !.plan = None] /\ run' = run /\ th' = th
    BY <1>4 DEF ConfirmPlayback
  <2> HIDE DEF n
  <2>2. x \in ThreadRecords /\ y \in RunRecords
    BY <1>0 DEF ThreadRecords, Controllers, RunRecords
  <2> HIDE DEF x, y
  <2>a. "playback" \in Controllers
    BY DEF Controllers
  <2>b. /\ [s EXCEPT !.plan = None] \in SessionRecords
        /\ [s EXCEPT !.plan = None, !.known = FALSE, !.epoch = n, !.ctl = "playback",
                     !.seq = 0, !.mode = "playback", !.event = "playback"] \in SessionRecords
    BY <1>0, <2>a DEF SessionRecords
  <2>3. s' \in SessionRecords
    BY <2>1, <2>b
  <2>4. th' \in ThreadTables /\ run' \in RunTables
    BY <1>0, <2>1, <2>2 DEF ThreadTables, RunTables
  <2> QED BY <1>0, <1>4, <2>3, <2>4, TypeParts DEF ConfirmPlayback, device
<1>5. ASSUME CancelPlayback PROVE TypeOK'
  <2>1. s' \in SessionRecords
    BY <1>0, <1>5 DEF CancelPlayback, SessionRecords
  <2>2. run' \in RunTables
    BY <1>0, <1>t, <1>5 DEF CancelPlayback, RunTables, RunRecords
  <2> QED BY <1>0, <1>5, <2>1, <2>2, TypeParts DEF CancelPlayback, device
<1>6. ASSUME GeometryChange \/ CloseStop PROVE TypeOK'
  <2>1. s' = [s EXCEPT !.geo = TRUE] \/ s' = [s EXCEPT !.stop = TRUE, !.plan = None]
    BY <1>6 DEF GeometryChange, CloseStop
  <2>2. s' \in SessionRecords
    BY <1>0, <2>1 DEF SessionRecords
  <2> QED BY <1>0, <1>6, <2>2, TypeParts DEF GeometryChange, CloseStop, device
<1>7. ASSUME TimeoutBegin PROVE TypeOK'
  <2> DEFINE x == [NoThread EXCEPT !.op = "timer", !.pc = "pointers"]
  <2>1. x \in ThreadRecords
    BY DEF NoThread, ThreadRecords
  <2>2. th' = [th EXCEPT !["timer"] = x]
    BY <1>7 DEF TimeoutBegin
  <2> HIDE DEF x
  <2>3. th' \in ThreadTables
    BY <1>0, <2>1, <2>2 DEF ThreadTables
  <2> QED BY <1>0, <1>7, <2>3, TypeParts DEF TimeoutBegin, device
<1>8. ASSUME TimeoutEnd PROVE TypeOK'
  <2>1. s' = [s EXCEPT !.epoch = n, !.seq = 0, !.mode = "manual"]
    BY <1>8 DEF TimeoutEnd
  <2> HIDE DEF n
  <2>2. s' \in SessionRecords
    BY <1>0, <2>1 DEF SessionRecords
  <2> QED BY <1>0, <1>m, <1>t, <1>8, <2>2, TypeParts DEF TimeoutEnd, device
<1>9. ASSUME Fail PROVE TypeOK'
  BY <1>0, <1>9, FailTypes, TypeParts DEF Fail, device
<1>10. ASSUME CloseDrain PROVE TypeOK'
  <2>1. s' = [s EXCEPT !.st = "draining", !.epoch = n]
    BY <1>10 DEF CloseDrain
  <2> HIDE DEF n
  <2>2. s' \in SessionRecords
    BY <1>0, <2>1 DEF SessionRecords
  <2> QED BY <1>0, <1>t, <1>10, <2>2, TypeParts DEF CloseDrain, device
<1> QED
  BY <1>1, <1>2, <1>3, <1>4, <1>5, <1>6, <1>7, <1>8, <1>9, <1>10 DEF OtherNext, PlaybackNext

LEMMA TypeStep == ControlInv /\ [Next]_vars => TypeOK'
<1> SUFFICES ASSUME ControlInv, [Next]_vars PROVE TypeOK'
  OBVIOUS
<1>0. TypeOK /\ Callback /\ \A t \in Runs : RunPhase(t)
  BY DEF ControlInv
<1>1. CASE UNCHANGED vars
  BY <1>0, <1>1 DEF vars, TypeOK
<1>2. CASE Next
  <2>1. \/ \E c \in AllCmds : InputNext(c)
        \/ \E k \in Callers : CallerNext(k)
        \/ \E t \in Threads : ThreadNext(t)
        \/ \E t \in Runs : RunSteps(t)
        \/ OtherNext
    BY <1>2 DEF Next, Runs, OtherNext
  <2> QED BY <1>0, <2>1, TypeInput, TypeCaller, TypeThread, TypeRun, TypeOthers
<1> QED BY <1>1, <1>2

----------------------------------------------------------------------------
(* What a step may do.  The proofs of the invariant use these and not the  *)
(* actions.                                                                *)

\* The epoch, and within it the sequence, only go up.
Ahead == \/ s'.epoch = s.epoch + 1
         \/ s'.epoch = s.epoch /\ s'.seq >= s.seq

\* Control is not taken from a playback, except by its own end.
Holds == \/ s'.ctl = s.ctl /\ (s'.epoch = s.epoch => s'.mode = s.mode)
         \/ ~Alive("playback")
         \/ s.ctl \in Clients
         \/ \E t \in Runs : s.ctl = t /\ th'[t].pc = "idle"

\* What happens to the commands.
Ends(c) == /\ job[c] # "no" /\ job' = [job EXCEPT ![c] = "no"]
           /\ UNCHANGED <<cmd, ran, th>>

Commands ==
    \/ UNCHANGED <<cmd, job, ran>>
    \/ \E t \in Runs : RunNext(t) \/ RunAdmit(t)
    \/ \E c \in Cmds, act \in Acts : Admit(c, act)
    \/ \E c \in AllCmds : Execute(c) \/ Ends(c)

\* A run starts, under a new epoch.
Starts(t) ==
    /\ run[t].st = "none" /\ run'[t].st # "none" /\ run'[t].back \in Clients
    /\ th'[t].n = 1 /\ th'[t].epoch = s'.epoch
    /\ th'[t].pc = (IF t = "replay" THEN "begin" ELSE "next")
    /\ s.ctl \in Clients /\ s'.ctl = t /\ s'.mode = t /\ s'.epoch = s.epoch + 1
    /\ t = "playback" => Inflight = {} /\ s'.plan = None
    /\ UNCHANGED <<cmd, job, ran>>

RunKept(t) == (run'[t].st = "none" <=> run[t].st = "none") /\ run'[t].back = run[t].back

\* The steps of a run.
Final == {"pointers", "releasing", "end", "kept"}

Moves(t) ==
    /\ Alive(t) /\ th'[t].n = th[t].n /\ th'[t].epoch = th[t].epoch
    /\ \/ /\ th'[t].pc \in Final
          /\ th[t].pc = "wait" => job[Script(t)[th[t].n]] = "no"
          /\ UNCHANGED <<job, ran>>
       \/ th[t].pc \in Opening /\ th'[t].pc \in Opening /\ UNCHANGED <<cmd, job, ran>>
       \/ th[t].pc = "ready" /\ th'[t].pc = "next" /\ UNCHANGED <<cmd, job, ran>>
       \/ RunNext(t) /\ th'[t].pc = "input"
       \/ RunAdmit(t) /\ th'[t].pc = "wait"

RunMoves(t) ==
    \/ th'[t] = th[t]
    \/ Starts(t)
    \/ Moves(t)
    \/ /\ th[t].pc = "wait" /\ th'[t].pc = "next" /\ th'[t].n = th[t].n + 1
       /\ th'[t].epoch = th[t].epoch /\ job[Script(t)[th[t].n]] = "no"
       /\ Script(t)[th[t].n] \in ran /\ s.st = "active"
       /\ UNCHANGED <<cmd, job, ran, log, s>>
    \/ th[t].pc \in {"end", "kept"} /\ th'[t] = NoThread /\ UNCHANGED <<cmd, job, ran>>

\* A plan is made before the playback, and used up by it.
Planned == s'.plan # None => s.plan # None \/ run["playback"].st = "none"

\* Callers act for a client.
CallersKept == \A k \in Callers : th'[k].pc = "idle" \/ th'[k].ctl \in Clients

Step ==
    /\ Ahead /\ Holds /\ Commands /\ Planned /\ CallersKept
    /\ \A t \in Runs : RunMoves(t) /\ (RunKept(t) \/ Starts(t))

LEMMA SameSession ==
  ASSUME TypeOK, s'.epoch = s.epoch, s'.ctl = s.ctl, s'.mode = s.mode, s'.seq = s.seq,
         s'.plan = s.plan \/ s'.plan = None
  PROVE  Ahead /\ Holds /\ Planned
<1>1. s.seq \in Nat
  BY DEF TypeOK, SessionRecords
<1> QED BY <1>1 DEF Ahead, Holds, Planned

LEMMA InputSteps ==
  ASSUME TypeOK, Callback, NEW c \in AllCmds, InputNext(c)
  PROVE  Step
<1>0. /\ s \in SessionRecords /\ run \in RunTables
      /\ s.epoch \in Nat /\ s.seq \in Nat
  BY TypeFacts DEF SessionRecords
<1>c. /\ \A t \in Runs : Cancelled[t].st = run[t].st /\ Cancelled[t].back = run[t].back
  BY <1>0 DEF Cancelled, RunTables, RunRecords, Runs, SessionRecords
<1>k. \A k \in Callers : th[k].pc = "idle" \/ th[k].ctl \in Clients
  BY DEF Callback, Alive
<1>1. ASSUME NEW act \in Acts, c \in Cmds, Admit(c, act) PROVE Step
  <2> DEFINE e == IF cmd[c] # NoCmd THEN cmd[c]
                  ELSE [ctl |-> s.ctl, epoch |-> s.epoch, seq |-> s.seq + 1, act |-> act]
  <2>1. Accepted(c, e) /\ Admission(c, e) /\ th' = th /\ run' = run
    BY <1>1 DEF Admit
  <2>a. e.seq \in Nat
    BY <1>0, TypeFacts DEF Envelopes
  <2> HIDE DEF e
  <2>2. e.seq > s.seq /\ s' = [s EXCEPT !.known = FALSE, !.plan = None, !.seq = e.seq]
    BY <2>1 DEF Accepted, Admission
  <2>3. s'.epoch = s.epoch /\ s'.ctl = s.ctl /\ s'.mode = s.mode /\ s'.seq = e.seq /\ s'.plan = None
    BY <1>0, <2>2 DEF SessionRecords
  <2>4. Ahead /\ Holds /\ Planned
    BY <1>0, <2>a, <2>2, <2>3 DEF Ahead, Holds, Planned
  <2> QED BY <1>1, <1>k, <2>1, <2>4 DEF Step, Commands, CallersKept, RunMoves, RunKept
<1>2. ASSUME Execute(c) PROVE Step
  BY <1>k, <1>2, SameSession DEF Execute, Step, Commands, CallersKept, RunMoves, RunKept
<1>3. ASSUME InputRejected(c) PROVE Step
  BY <1>k, <1>3, SameSession DEF InputRejected, Step, Commands, Ends, CallersKept,
     RunMoves, RunKept, device
<1>4. ASSUME InputUnknown(c) PROVE Step
  <2>1. s'.epoch = s.epoch + 1 /\ s'.ctl = s.ctl /\ s'.plan = None
    BY <1>0, <1>4 DEF InputUnknown, FailSession, SessionRecords
  <2>2. run' = Cancelled
    BY <1>4 DEF InputUnknown, FailSession
  <2>3. Ends(c)
    BY <1>4 DEF InputUnknown, Ends, device
  <2>4. Ahead /\ Holds /\ Planned
    BY <1>0, <2>1 DEF Ahead, Holds, Planned
  <2> QED BY <1>c, <1>k, <2>2, <2>3, <2>4 DEF Step, Commands, Ends, CallersKept, RunMoves, RunKept
<1>5. ASSUME NEW fresh \in BOOLEAN, InputDone(c, fresh) PROVE Step
  <2>1. /\ s'.epoch = s.epoch /\ s'.ctl = s.ctl /\ s'.mode = s.mode /\ s'.seq = s.seq
        /\ s'.plan = s.plan
    BY <1>0, <1>5 DEF InputDone, SessionRecords
  <2>2. Ends(c) /\ run' = run
    BY <1>5 DEF InputDone, Ends, device
  <2>4. Ahead /\ Holds /\ Planned
    BY <2>1, SameSession
  <2> QED BY <1>k, <2>2, <2>4 DEF Step, Commands, Ends, CallersKept, RunMoves, RunKept
<1> QED
  BY <1>1, <1>2, <1>3, <1>4, <1>5 DEF InputNext

\* A step of one thread.
LEMMA OneThread ==
  ASSUME TypeOK, NEW t \in Threads
  PROVE  /\ Return(t) => /\ th'[t] = NoThread
                         /\ \A u \in Threads : u # t => th'[u] = th[u]
         /\ \A pc : Goto(t, pc) => /\ th'[t].pc = pc /\ th'[t].n = th[t].n
                                   /\ th'[t].epoch = th[t].epoch /\ th'[t].ctl = th[t].ctl
                                   /\ \A u \in Threads : u # t => th'[u] = th[u]
<1>0. th \in ThreadTables
  BY TypeFacts
<1> QED BY <1>0 DEF ThreadTables, ThreadRecords, Return, Goto

LEMMA ThreadStep ==
  ASSUME TypeOK, Callback, NEW t \in Threads, Alive(t), Ahead, Holds, Planned,
         UNCHANGED <<cmd, job, ran>>, \A x \in Runs : RunKept(x),
         Return(t) \/ \E pc : Goto(t, pc),
         t \in Runs => Moves(t)
  PROVE  Step
<1>1. \A x \in Runs : x # t => th'[x] = th[x]
  BY OneThread, ScriptNames
<1>2. \A x \in Runs : RunMoves(x)
  BY <1>1 DEF RunMoves
<1>3. \A k \in Callers : k \in Threads /\ (th[k].pc = "idle" \/ th[k].ctl \in Clients)
  BY DEF Threads, Callback, Alive
<1>4. ASSUME NEW k \in Callers PROVE th'[k].pc = "idle" \/ th'[k].ctl \in Clients
  BY <1>3, OneThread DEF NoThread, Alive
<1> QED BY <1>2, <1>4 DEF Step, Commands, CallersKept

\* A run goes on to its end after an error.
LEMMA RaisedStep ==
  ASSUME TypeOK, NEW t \in Threads, Raised(t), Alive(t), t \in Runs => RunPhase(t)
  PROVE  /\ \A x \in Runs : RunKept(x)
         /\ Return(t) \/ \E pc : Goto(t, pc)
         /\ t \in Runs => Goto(t, "pointers")
<1>0. run \in RunTables
  BY TypeFacts
<1>1. CASE t \in Runs
  <2>1. PICK x \in {"cancelled", "failed"} : run' = [run EXCEPT ![t].st = x]
    BY <1>1 DEF Raised, Runs
  <2>2. run[t].st # "none"
    BY <1>1 DEF RunPhase
  <2>3. \A y \in Runs : RunKept(y)
    BY <1>0, <2>1, <2>2 DEF RunKept, RunTables, RunRecords, Runs
  <2> QED BY <1>1, <2>3 DEF Raised, Runs
<1>2. CASE t \notin Runs
  BY <1>2 DEF Raised, Runs, RunKept
<1> QED BY <1>1, <1>2

LEMMA CancelledKept ==
  ASSUME TypeOK
  PROVE  /\ \A x \in Runs : Cancelled[x].st = run[x].st /\ Cancelled[x].back = run[x].back
         /\ \A t \in Runs : run[t].st # "none" => \A tab \in {run, Cancelled} :
               \A v \in {"failed", "cancelled", "cancelling", "played"} : \A x \in Runs :
                 LET new == [tab EXCEPT ![t].st = v] IN
                 (new[x].st = "none" <=> run[x].st = "none") /\ new[x].back = run[x].back
<1>0. run \in RunTables /\ s \in SessionRecords /\ Cancelled \in RunTables
  BY TypeFacts, TableTypes
<1>1. \A x \in Runs : Cancelled[x].st = run[x].st /\ Cancelled[x].back = run[x].back
  BY <1>0 DEF Cancelled, RunTables, RunRecords, Runs, SessionRecords
<1> QED BY <1>0, <1>1 DEF RunTables, RunRecords, Runs

LEMMA ThreadSteps ==
  ASSUME TypeOK, Callback, NEW t \in Threads, t \in Runs => RunPhase(t), ThreadNext(t)
  PROVE  Step
<1>0. /\ s \in SessionRecords /\ s.epoch \in Nat /\ s.seq \in Nat
      /\ \A pc : Goto(t, pc) => /\ th'[t].pc = pc /\ th'[t].n = th[t].n
                                /\ th'[t].epoch = th[t].epoch
  BY TypeFacts, OneThread DEF SessionRecords
<1>r. t \in Runs => t \in {"replay", "playback"}
  BY DEF Runs
<1>c. \A x \in Runs : Cancelled[x].st = run[x].st /\ Cancelled[x].back = run[x].back
  BY CancelledKept
<1>f. ASSUME NEW x \in Final, Goto(t, x), Alive(t), th[t].pc # "wait", UNCHANGED <<cmd, job, ran>>
      PROVE  Moves(t)
  BY <1>0, <1>f DEF Moves
<1>o. ASSUME NEW x \in Opening, Goto(t, x), Alive(t), th[t].pc \in Opening, UNCHANGED <<cmd, job, ran>>
      PROVE  Moves(t)
  BY <1>0, <1>o DEF Moves
<1>p. t \in Runs /\ th[t].pc \in Opening => t = "replay"
  BY DEF RunPhase, Runs
<1>1. ASSUME PointersUp(t) PROVE Step
  <2>1. Alive(t) /\ th[t].pc # "wait" /\ Goto(t, AfterPointers(t)) /\ UNCHANGED <<s, cmd, job, ran, run>>
    BY <1>1 DEF PointersUp, Alive, device
  <2>2. t \in Runs => Moves(t)
    BY <1>f, <2>1 DEF AfterPointers, Final, Runs
  <2> QED BY <2>1, <2>2, SameSession, ThreadStep DEF RunKept
<1>2. ASSUME PointersCall(t) PROVE Step
  <2>1. Alive(t) /\ th[t].pc # "wait" /\ Goto(t, "releasing") /\ UNCHANGED <<s, cmd, job, ran, run>>
    BY <1>2 DEF PointersCall, Alive, device
  <2>2. t \in Runs => Moves(t)
    BY <1>f, <2>1 DEF Final
  <2> QED BY <2>1, <2>2, SameSession, ThreadStep DEF RunKept
<1>3. ASSUME PointersRefused(t) PROVE Step
  <2>1. Alive(t) /\ th[t].pc # "wait" /\ UNCHANGED <<s, cmd, job, ran>>
    BY <1>3 DEF PointersRefused, Alive, device
  <2>2. CASE t \in Runs
    <3>1. /\ Goto(t, "kept") \/ Goto(t, "end")
          /\ run' = [run EXCEPT ![t].st = "failed"]
      BY <1>r, <1>3, <2>2 DEF PointersRefused
    <3>2. Moves(t)
      BY <1>f, <2>1, <3>1 DEF Final
    <3>3. \A x \in Runs : RunKept(x)
      BY <2>1, <2>2, <3>1, CancelledKept DEF RunKept, RunPhase
    <3> QED BY <2>1, <3>1, <3>2, <3>3, SameSession, ThreadStep
  <2>3. CASE t \notin Runs
    <3>1. Return(t) /\ run' = run
      BY <1>3, <2>3 DEF PointersRefused, Runs
    <3> QED BY <2>1, <2>3, <3>1, SameSession, ThreadStep DEF RunKept
  <2> QED BY <2>2, <2>3
<1>4. ASSUME PointersReleased(t) PROVE Step
  <2>1. Alive(t) /\ th[t].pc # "wait" /\ Goto(t, AfterPointers(t)) /\ UNCHANGED <<cmd, job, ran, run>>
    BY <1>4 DEF PointersReleased, Alive, device
  <2>2. t \in Runs => Moves(t)
    BY <1>f, <2>1 DEF AfterPointers, Final, Runs
  <2>3. Ahead /\ Holds /\ Planned
    BY <1>0, <1>4, SameSession DEF PointersReleased, SessionRecords
  <2> QED BY <2>1, <2>2, <2>3, ThreadStep DEF RunKept
<1>5. ASSUME PointersUnknown(t) PROVE Step
  <2>1. Alive(t) /\ th[t].pc # "wait" /\ UNCHANGED <<cmd, job, ran>>
    BY <1>5 DEF PointersUnknown, Alive, device
  <2>2. s'.epoch = s.epoch + 1 /\ s'.ctl = s.ctl /\ s'.plan = s.plan
    BY <1>0, <1>5 DEF PointersUnknown, SessionRecords
  <2>3. Ahead /\ Holds /\ Planned
    BY <1>0, <2>2 DEF Ahead, Holds, Planned
  <2>4. CASE t \in Runs
    <3>1. /\ Goto(t, "kept") \/ Goto(t, "end")
          /\ run' = [Cancelled EXCEPT ![t].st = "failed"]
      BY <1>r, <1>5, <2>4 DEF PointersUnknown
    <3>2. Moves(t)
      BY <1>f, <2>1, <3>1 DEF Final
    <3>3. \A x \in Runs : RunKept(x)
      BY <2>1, <2>4, <3>1, CancelledKept DEF RunKept, RunPhase
    <3> QED BY <2>1, <2>3, <3>1, <3>2, <3>3, ThreadStep
  <2>5. CASE t \notin Runs
    <3>1. Return(t) /\ run' = Cancelled
      BY <1>5, <2>5 DEF PointersUnknown, Runs
    <3> QED BY <1>c, <2>1, <2>3, <2>5, <3>1, ThreadStep DEF RunKept
  <2> QED BY <2>4, <2>5
<1>6. ASSUME ResetBegin(t) PROVE Step
  <2>1. Alive(t) /\ th[t].pc \in Opening /\ th[t].pc # "wait" /\ UNCHANGED <<cmd, job, ran>>
    BY <1>6 DEF ResetBegin, Alive, Opening, device
  <2>2. s' = s \/ s' = [s EXCEPT !.known = FALSE]
    BY <1>6 DEF ResetBegin
  <2>3. Ahead /\ Holds /\ Planned
    BY <1>0, <2>2, SameSession DEF SessionRecords
  <2>4. CASE ~s.down /\ MayPrepare
    <3>1. Goto(t, "resetting") /\ run' = run
      BY <1>6, <2>4 DEF ResetBegin
    <3>2. t \in Runs => Moves(t)
      BY <1>o, <2>1, <3>1 DEF Opening
    <3> QED BY <2>1, <2>3, <3>1, <3>2, ThreadStep DEF RunKept
  <2>5. CASE ~(~s.down /\ MayPrepare)
    <3>1. Raised(t)
      BY <1>6, <2>5 DEF ResetBegin
    <3>2. t \in Runs => Moves(t)
      BY <1>f, <2>1, <3>1, RaisedStep DEF Final
    <3> QED BY <2>1, <2>3, <3>1, <3>2, ThreadStep, RaisedStep
  <2> QED BY <2>4, <2>5
<1>7. ASSUME ResetExecute(t) \/ ResetConfirmed(t) PROVE Step
  <2>1. /\ Alive(t) /\ th[t].pc \in Opening /\ UNCHANGED <<s, cmd, job, ran, run>>
        /\ Goto(t, "answered") \/ Goto(t, "frame")
    BY <1>7 DEF ResetExecute, ResetConfirmed, Alive, Opening, device
  <2>2. t \in Runs => Moves(t)
    BY <1>o, <2>1 DEF Opening
  <2> QED BY <2>1, <2>2, SameSession, ThreadStep DEF RunKept
<1>8. ASSUME ResetDone(t) PROVE Step
  <2>1. /\ Alive(t) /\ th[t].pc \in Opening /\ UNCHANGED <<cmd, job, ran, run>>
        /\ IF t = "replay" THEN Goto(t, "ready") ELSE Goto(t, "second")
    BY <1>8 DEF ResetDone, Alive, Opening, device
  <2>2. t \in Runs => Moves(t)
    BY <1>o, <1>p, <2>1 DEF Opening
  <2>3. Ahead /\ Holds /\ Planned
    BY <1>0, <1>8, SameSession DEF ResetDone, SessionRecords
  <2> QED BY <2>1, <2>2, <2>3, ThreadStep DEF RunKept
<1>9. ASSUME ResetRejected(t) PROVE Step
  <2>1. Alive(t) /\ th[t].pc # "wait" /\ UNCHANGED <<s, cmd, job, ran>> /\ Raised(t)
    BY <1>9 DEF ResetRejected, Alive, device
  <2>2. t \in Runs => Moves(t)
    BY <1>f, <2>1, RaisedStep DEF Final
  <2> QED BY <2>1, <2>2, SameSession, ThreadStep, RaisedStep
<1>10. ASSUME ResetUnknown(t) PROVE Step
  <2>1. /\ Alive(t) /\ th[t].pc \in Opening /\ th[t].pc # "wait" /\ UNCHANGED <<cmd, job, ran>>
        /\ s' = s \/ s' = [s EXCEPT !.st = "failed", !.epoch = @ + 1, !.plan = None]
    BY <1>10 DEF ResetUnknown, Alive, Opening, device
  <2>2. Ahead /\ Holds /\ Planned
    <3>1. CASE s' = s
      BY <3>1, SameSession
    <3>2. CASE s' = [s EXCEPT !.st = "failed", !.epoch = @ + 1, !.plan = None]
      <4>1. s'.epoch = s.epoch + 1 /\ s'.ctl = s.ctl /\ s'.plan = None
        BY <1>0, <3>2 DEF SessionRecords
      <4> QED BY <1>0, <4>1 DEF Ahead, Holds, Planned
    <3> QED BY <2>1, <3>1, <3>2
  <2>3. CASE t \in Runs
    <3>1. t = "replay"
      BY <1>p, <2>1, <2>3
    <3>2. PICK tab \in {run, Cancelled} : run' = [tab EXCEPT ![t].st = "failed"]
      BY <1>10, <3>1 DEF ResetUnknown
    <3>3. Goto(t, "pointers")
      BY <1>10, <3>1 DEF ResetUnknown
    <3>4. Moves(t)
      BY <1>f, <2>1, <3>3 DEF Final
    <3>5. \A x \in Runs : RunKept(x)
      BY <2>1, <2>3, <3>2, CancelledKept DEF RunKept, RunPhase
    <3> QED BY <2>1, <2>2, <3>3, <3>4, <3>5, ThreadStep
  <2>4. CASE t \notin Runs
    <3>1. Return(t) /\ (run' = run \/ run' = Cancelled)
      BY <1>10, <2>4 DEF ResetUnknown, Runs
    <3> QED BY <1>c, <2>1, <2>2, <2>4, <3>1, ThreadStep DEF RunKept
  <2> QED BY <2>3, <2>4
<1> QED
  BY <1>1, <1>2, <1>3, <1>4, <1>5, <1>6, <1>7, <1>8, <1>9, <1>10 DEF ThreadNext

\* A caller enters or leaves.
LEMMA CallerStep ==
  ASSUME TypeOK, Callback, NEW k \in Callers, Ahead, Holds, Planned,
         UNCHANGED <<cmd, job, ran>>, \A x \in Runs : RunKept(x),
         Return(k) \/ \E x : x.ctl \in Clients /\ th' = [th EXCEPT ![k] = x]
  PROVE  Step
<1>0. th \in ThreadTables /\ k \in Threads
  BY TypeFacts DEF Threads
<1>1. \A u \in Threads : u # k => th'[u] = th[u]
  BY <1>0, OneThread DEF ThreadTables
<1>2. th'[k].pc = "idle" \/ th'[k].ctl \in Clients
  BY <1>0, OneThread DEF ThreadTables, NoThread
<1>3. \A x \in Runs : RunMoves(x)
  BY <1>1, ScriptNames DEF RunMoves
<1>4. \A l \in Callers : th'[l].pc = "idle" \/ th'[l].ctl \in Clients
  BY <1>1, <1>2 DEF Threads, Callback, Alive
<1> QED BY <1>3, <1>4 DEF Step, Commands, CallersKept

LEMMA CallerSteps ==
  ASSUME TypeOK, Callback, NEW k \in Callers, CallerNext(k)
  PROVE  Step
<1>0. /\ s \in SessionRecords /\ s.epoch \in Nat /\ s.seq \in Nat /\ k \in Threads
      /\ th \in ThreadTables /\ run \in RunTables
  BY TypeFacts DEF SessionRecords, Threads
<1>1. ASSUME NEW c \in Clients, ClaimBegin(k, c) \/ StopBegin(k, c) \/ ReplayBegin(k, c) PROVE Step
  <2>1. UNCHANGED <<s, cmd, job, ran, run>>
    BY <1>1 DEF ClaimBegin, StopBegin, ReplayBegin, device
  <2>2. \E x : x.ctl \in Clients /\ th' = [th EXCEPT ![k] = x]
    BY <1>1 DEF ClaimBegin, StopBegin, ReplayBegin, Enter
  <2> QED BY <2>1, <2>2, SameSession, CallerStep DEF RunKept
<1>2. ASSUME NEW c \in Clients, NEW reset \in BOOLEAN, RecordBegin(k, c, reset) PROVE Step
  <2>1. UNCHANGED <<s, cmd, job, ran, run>>
    BY <1>2 DEF RecordBegin, device
  <2>2. \E x : x.ctl \in Clients /\ th' = [th EXCEPT ![k] = x]
    BY <1>2 DEF RecordBegin, Enter
  <2> QED BY <2>1, <2>2, SameSession, CallerStep DEF RunKept
<1>3. ASSUME NEW r \in Recordings, RecordEnd(k, r) PROVE Step
  <2>1. UNCHANGED <<cmd, job, ran, run>> /\ Return(k)
    BY <1>3 DEF RecordEnd, device
  <2>2. s' = s \/ s' = [s EXCEPT !.rid = r, !.geo = FALSE]
    BY <1>3 DEF RecordEnd
  <2>3. Ahead /\ Holds /\ Planned
    BY <1>0, <2>2, SameSession DEF SessionRecords
  <2> QED BY <2>1, <2>3, CallerStep DEF RunKept
<1>4. ASSUME StopEnd(k) PROVE Step
  <2>1. UNCHANGED <<cmd, job, ran, run>> /\ Return(k)
    BY <1>4 DEF StopEnd, device
  <2>2. s' = s \/ s' = [s EXCEPT !.geo = FALSE]
    BY <1>4 DEF StopEnd
  <2>3. Ahead /\ Holds /\ Planned
    BY <1>0, <2>2, SameSession DEF SessionRecords
  <2> QED BY <2>1, <2>3, CallerStep DEF RunKept
<1>5. ASSUME ClaimEnd(k) PROVE Step
  <2>1. UNCHANGED <<cmd, job, ran>> /\ Return(k)
    BY <1>5 DEF ClaimEnd, device
  <2>2. CASE ClaimChecks /\ s.epoch = th[k].epoch
    <3>1. /\ run' = Cancelled
          /\ s' = [s EXCEPT !.ctl = th[k].ctl, !.epoch = @ + 1, !.seq = 0,
                            !.mode = "manual", !.plan = None]
      BY <1>5, <2>2 DEF ClaimEnd
    <3>2. s'.epoch = s.epoch + 1 /\ s'.plan = None
      BY <1>0, <3>1 DEF SessionRecords
    <3>3. Ahead /\ Holds /\ Planned
      BY <2>2, <3>2 DEF Ahead, Holds, Planned, ClaimChecks
    <3> QED BY <2>1, <3>1, <3>3, CancelledKept, CallerStep DEF RunKept
  <2>3. CASE ~(ClaimChecks /\ s.epoch = th[k].epoch)
    BY <1>5, <2>1, <2>3, SameSession, CallerStep DEF RunKept, ClaimEnd
  <2> QED BY <2>2, <2>3
<1>6. ASSUME ReplayStart(k) PROVE Step
  <2>1. UNCHANGED <<cmd, job, ran>> /\ th[k].ctl \in Clients
    BY <1>6 DEF ReplayStart, device, Second, Callback, Alive
  <2>2. CASE Control(th[k].ctl, th[k].epoch) /\ run["replay"].st = "none"
    <3> DEFINE y == [st |-> "running", cancel |-> FALSE, back |-> th[k].ctl]
               x == [op |-> "replay", pc |-> "begin", ctl |-> "replay", epoch |-> s.epoch + 1,
                     arg |-> None, n |-> 1]
    <3>1. /\ s' = [s EXCEPT !.ctl = "replay", !.epoch = @ + 1, !.seq = 0,
                            !.mode = "replay", !.event = "replay"]
          /\ run' = [run EXCEPT !["replay"] = y]
          /\ th' = [th EXCEPT ![k] = NoThread, !["replay"] = x]
      BY <1>6, <2>2 DEF ReplayStart
    <3>2. /\ s'.epoch = s.epoch + 1 /\ s'.plan = s.plan /\ s'.ctl = "replay" /\ s'.mode = "replay"
          /\ s.ctl \in Clients
      BY <1>0, <2>1, <2>2, <3>1 DEF SessionRecords, Control
    <3>3. Ahead /\ Holds /\ Planned
      BY <3>2 DEF Ahead, Holds, Planned
    <3>4. /\ y.st = "running" /\ y.back \in Clients
          /\ x.n = 1 /\ x.epoch = s.epoch + 1 /\ x.pc = "begin"
      BY <2>1
    <3>5. k # "replay" /\ k # "playback" /\ "replay" \in Threads
      BY ScriptNames DEF Runs
    <3> HIDE DEF x, y
    <3>6. /\ th'["replay"] = x /\ th'[k] = NoThread
          /\ \A u \in Threads : u # k /\ u # "replay" => th'[u] = th[u]
      BY <1>0, <3>1, <3>5 DEF ThreadTables
    <3>7. run'["replay"] = y /\ run'["playback"] = run["playback"]
      BY <1>0, <3>1 DEF RunTables
    <3>8. Starts("replay")
      BY <2>1, <2>2, <3>2, <3>4, <3>6, <3>7 DEF Starts
    <3>9. RunMoves("playback") /\ RunKept("playback")
      BY <3>5, <3>6, <3>7 DEF RunMoves, RunKept, Threads
    <3>10. \A l \in Callers : th'[l].pc = "idle" \/ th'[l].ctl \in Clients
      <4>1. \A l \in Callers : l \in Threads /\ l # "replay" /\ (th[l].pc = "idle" \/ th[l].ctl \in Clients)
        BY ScriptNames DEF Callback, Alive, Threads, Runs
      <4> QED BY <3>6, <4>1 DEF NoThread
    <3> QED BY <2>1, <3>3, <3>8, <3>9, <3>10 DEF Step, Commands, CallersKept, RunMoves, Runs
  <2>3. CASE ~(Control(th[k].ctl, th[k].epoch) /\ run["replay"].st = "none")
    <3>1. Return(k) /\ UNCHANGED <<s, run>>
      BY <1>6, <2>3 DEF ReplayStart
    <3> QED BY <2>1, <3>1, SameSession, CallerStep DEF RunKept
  <2> QED BY <2>2, <2>3
<1> QED
  BY <1>1, <1>2, <1>3, <1>4, <1>5, <1>6 DEF CallerNext

\* A run takes a step of its own.
LEMMA RunStep ==
  ASSUME TypeOK, Callback, NEW t \in Runs, Ahead, Holds, Planned, Commands,
         \A x \in Runs : RunKept(x), RunMoves(t),
         \A u \in Threads : u # t => th'[u] = th[u]
  PROVE  Step
<1>1. \A x \in Runs : RunMoves(x)
  BY ScriptNames DEF RunMoves
<1>2. \A l \in Callers : l \in Threads /\ l # t /\ (th[l].pc = "idle" \/ th[l].ctl \in Clients)
  BY ScriptNames DEF Callback, Alive, Threads
<1> QED BY <1>1, <1>2 DEF Step, CallersKept

LEMMA RunStepsStep ==
  ASSUME TypeOK, Callback, NEW t \in Runs, RunPhase(t), RunSteps(t)
  PROVE  Step
<1> DEFINE c == Script(t)[th[t].n]
<1>0. /\ s \in SessionRecords /\ s.epoch \in Nat /\ s.seq \in Nat /\ t \in Threads
      /\ th \in ThreadTables /\ run \in RunTables
  BY TypeFacts, ScriptNames DEF SessionRecords
<1>g. /\ \A pc : Goto(t, pc) => /\ th'[t].pc = pc /\ th'[t].n = th[t].n
                                /\ th'[t].epoch = th[t].epoch
                                /\ \A u \in Threads : u # t => th'[u] = th[u]
      /\ Return(t) => th'[t] = NoThread /\ \A u \in Threads : u # t => th'[u] = th[u]
  BY <1>0, OneThread
<1>f. ASSUME NEW x \in Final, Goto(t, x), Alive(t), UNCHANGED <<job, ran>>,
             th[t].pc = "wait" => job[c] = "no"
      PROVE  RunMoves(t)
  BY <1>g, <1>f DEF Moves, RunMoves
<1>s. run[t].st # "none" <=> ~(run[t].st = "none")
  OBVIOUS
<1>k. \A v \in {"failed", "cancelled", "played"} : Alive(t) /\ run' = [run EXCEPT ![t].st = v]
        => \A x \in Runs : RunKept(x)
  BY CancelledKept DEF RunKept, RunPhase
<1>1. ASSUME RunNext(t) PROVE Step
  <2>1. Alive(t) /\ th[t].pc = "next" /\ UNCHANGED <<s, job, ran>> /\ Commands
    BY <1>1 DEF RunNext, Alive, Commands, device
  <2>2. CASE run[t].cancel
    <3>1. Goto(t, "pointers") /\ run' = [run EXCEPT ![t].st = "cancelled"]
      BY <1>1, <2>2 DEF RunNext
    <3>2. RunMoves(t)
      BY <1>f, <2>1, <3>1 DEF Final
    <3> QED BY <1>g, <1>k, <2>1, <3>1, <3>2, SameSession, RunStep
  <2>3. CASE ~run[t].cancel /\ Control(t, th[t].epoch) /\ (t = "playback" /\ Native => auth = "free")
    <3>1. Goto(t, "input") /\ run' = run
      BY <1>1, <2>3 DEF RunNext
    <3>2. RunMoves(t)
      BY <1>1, <1>g, <2>1, <3>1 DEF RunMoves, Moves
    <3> QED BY <1>g, <2>1, <3>1, <3>2, SameSession, RunStep DEF RunKept
  <2>4. CASE ~run[t].cancel /\ ~(Control(t, th[t].epoch) /\ (t = "playback" /\ Native => auth = "free"))
    <3>1. Raised(t)
      BY <1>1, <2>4 DEF RunNext
    <3>2. RunMoves(t)
      BY <1>0, <1>f, <2>1, <3>1, RaisedStep DEF Final
    <3> QED BY <1>0, <1>g, <2>1, <3>1, <3>2, SameSession, RunStep, RaisedStep
  <2> QED BY <2>2, <2>3, <2>4
<1>2. ASSUME RunAdmit(t) PROVE Step
  <2>1. Alive(t) /\ th[t].pc = "input" /\ Commands
    BY <1>2 DEF RunAdmit, Alive, Commands
  <2>2. CASE Accepted(c, cmd[c])
    <3>1. Admission(c, cmd[c])
      BY <1>2, <2>2 DEF RunAdmit
    <3>2. th[t].n \in 1 .. Len(Script(t))
      BY <1>0, <2>1, ScriptNames DEF RunPhase, Alive, ThreadTables, ThreadRecords
    <3>3. cmd[c].seq \in Nat
      BY <3>2, TypeFacts, ScriptNames DEF Envelopes
    <3>4. cmd[c].seq > s.seq /\ s' = [s EXCEPT !.known = FALSE, !.plan = None, !.seq = cmd[c].seq]
      BY <2>2, <3>1 DEF Accepted, Admission
    <3>5. s'.epoch = s.epoch /\ s'.ctl = s.ctl /\ s'.mode = s.mode /\ s'.seq = cmd[c].seq /\ s'.plan = None
      BY <1>0, <3>4 DEF SessionRecords
    <3>6. Ahead /\ Holds /\ Planned
      BY <1>0, <3>3, <3>4, <3>5 DEF Ahead, Holds, Planned
    <3>7. CASE MayPrepare
      <4>1. Goto(t, "wait") /\ run' = run
        BY <1>2, <2>2, <3>7 DEF RunAdmit
      <4>2. RunMoves(t)
        BY <1>2, <1>g, <2>1, <4>1 DEF RunMoves, Moves
      <4> QED BY <1>g, <2>1, <3>6, <4>1, <4>2, RunStep DEF RunKept
    <3>8. CASE ~MayPrepare
      <4>1. Raised(t) /\ UNCHANGED <<job, ran>>
        BY <1>2, <2>2, <3>1, <3>8 DEF RunAdmit, Admission, device
      <4>2. RunMoves(t)
        BY <1>0, <1>f, <2>1, <4>1, RaisedStep DEF Final
      <4> QED BY <1>0, <1>g, <2>1, <3>6, <4>1, <4>2, RunStep, RaisedStep
    <3> QED BY <3>7, <3>8
  <2>3. CASE ~Accepted(c, cmd[c])
    <3>1. Raised(t) /\ UNCHANGED <<s, job, ran>>
      BY <1>2, <2>3 DEF RunAdmit, device
    <3>2. RunMoves(t)
      BY <1>0, <1>f, <2>1, <3>1, RaisedStep DEF Final
    <3> QED BY <1>0, <1>g, <2>1, <3>1, <3>2, SameSession, RunStep, RaisedStep
  <2> QED BY <2>2, <2>3
<1>3. ASSUME RunAnswered(t) PROVE Step
  <2>1. Alive(t) /\ th[t].pc = "wait" /\ job[c] = "no" /\ UNCHANGED <<s, cmd, job, ran, log>> /\ Commands
    BY <1>3 DEF RunAnswered, Alive, Commands, device
  <2>2. CASE c \in ran /\ s.st = "active"
    <3>1. th' = [th EXCEPT ![t].pc = "next", ![t].n = @ + 1] /\ run' = run
      BY <1>3, <2>2 DEF RunAnswered
    <3>2. /\ th'[t].pc = "next" /\ th'[t].n = th[t].n + 1 /\ th'[t].epoch = th[t].epoch
          /\ \A u \in Threads : u # t => th'[u] = th[u]
      BY <1>0, <3>1 DEF ThreadTables, ThreadRecords
    <3>3. RunMoves(t)
      BY <2>1, <2>2, <3>2 DEF RunMoves
    <3> QED BY <2>1, <3>1, <3>2, <3>3, SameSession, RunStep DEF RunKept
  <2>3. CASE ~(c \in ran /\ s.st = "active")
    <3>1. Raised(t)
      BY <1>3, <2>3 DEF RunAnswered
    <3>2. RunMoves(t)
      BY <1>0, <1>f, <2>1, <3>1, RaisedStep DEF Final
    <3> QED BY <1>0, <1>g, <2>1, <3>1, <3>2, SameSession, RunStep, RaisedStep
  <2> QED BY <2>2, <2>3
<1>4. ASSUME RunComplete(t) PROVE Step
  <2>1. /\ Alive(t) /\ th[t].pc = "next" /\ UNCHANGED <<s, cmd, job, ran>> /\ Commands
        /\ Goto(t, "pointers") /\ run' = [run EXCEPT ![t].st = "played"]
    BY <1>4 DEF RunComplete, Alive, Commands, device
  <2>2. RunMoves(t)
    BY <1>f, <2>1 DEF Final
  <2> QED BY <1>g, <1>k, <2>1, <2>2, SameSession, RunStep
<1>5. ASSUME RunEnd(t) PROVE Step
  <2>1. Alive(t) /\ th[t].pc \in {"end", "kept"} /\ UNCHANGED <<cmd, job, ran>> /\ Commands /\ Return(t)
    BY <1>5 DEF RunEnd, Alive, Commands, device
  <2>2. RunMoves(t)
    BY <1>g, <2>1 DEF RunMoves
  <2>3. run' = run \/ run' = [run EXCEPT ![t].st = "cancelled"]
    BY <1>5 DEF RunEnd
  <2>4. \A x \in Runs : RunKept(x)
    BY <1>k, <2>1, <2>3 DEF RunKept
  <2>5. Ahead /\ Holds /\ Planned
    <3>1. CASE s' = s
      BY <3>1, SameSession
    <3>2. CASE s' # s
      <4>1. /\ s.ctl = t
            /\ s' = [s EXCEPT !.ctl = run[t].back, !.epoch = @ + 1, !.seq = 0,
                              !.mode = "manual", !.known = @ /\ t = "replay"]
        BY <1>5, <3>2 DEF RunEnd
      <4>2. s'.epoch = s.epoch + 1 /\ s'.plan = s.plan
        BY <1>0, <4>1 DEF SessionRecords
      <4>3. th'[t].pc = "idle"
        BY <1>g, <2>1 DEF NoThread
      <4> QED BY <4>1, <4>2, <4>3 DEF Ahead, Holds, Planned
    <3> QED BY <3>1, <3>2
  <2> QED BY <1>g, <2>1, <2>2, <2>4, <2>5, RunStep
<1> QED
  BY <1>1, <1>2, <1>3, <1>4, <1>5 DEF RunSteps

\* A step of none of the threads of calls and runs.
LEMMA QuietStep ==
  ASSUME TypeOK, Callback, Ahead, Holds, Planned, UNCHANGED <<cmd, job, ran>>,
         \A x \in Runs : RunKept(x), \A u \in Threads : u # "timer" => th'[u] = th[u]
  PROVE  Step
<1>1. \A x \in Runs : x \in Threads /\ x # "timer"
  BY DEF Runs, Threads
<1>2. \A k \in Callers : k \in Threads /\ k # "timer" /\ (th[k].pc = "idle" \/ th[k].ctl \in Clients)
  BY NamesAssumption DEF Callback, Alive, Threads
<1> QED BY <1>1, <1>2 DEF Step, Commands, CallersKept, RunMoves

LEMMA OtherSteps ==
  ASSUME TypeOK, Callback, PlaybackHolds, \A t \in Runs : RunPhase(t), OtherNext
  PROVE  Step
<1>0. /\ s \in SessionRecords /\ s.epoch \in Nat /\ s.seq \in Nat
      /\ th \in ThreadTables /\ run \in RunTables /\ Cancelled \in RunTables
      /\ "replay" \in Threads /\ "playback" \in Threads /\ "timer" \in Threads
      /\ "replay" \in Runs /\ "playback" \in Runs
  BY TypeFacts, TableTypes DEF SessionRecords, Threads, Runs
<1>c. \A x \in Runs : Cancelled[x].st = run[x].st /\ Cancelled[x].back = run[x].back
  BY CancelledKept
<1>1. ASSUME ReplayCheck PROVE Step
  <2>1. /\ Alive("replay") /\ th["replay"].pc \in {"begin", "ready"} /\ UNCHANGED <<s, cmd, job, ran>>
    BY <1>1 DEF ReplayCheck, Alive, device
  <2>2. CASE Control("replay", th["replay"].epoch) /\ (th["replay"].pc = "ready" => s.known)
    <3>1. Goto("replay", IF th["replay"].pc = "begin" THEN "reset" ELSE "next") /\ run' = run
      BY <1>1, <2>2 DEF ReplayCheck
    <3>2. Moves("replay")
      BY <1>0, <2>1, <3>1, OneThread DEF Moves, Opening
    <3> QED BY <1>0, <2>1, <3>1, <3>2, SameSession, ThreadStep DEF RunKept
  <2>3. CASE ~(Control("replay", th["replay"].epoch) /\ (th["replay"].pc = "ready" => s.known))
    <3>1. Raised("replay")
      BY <1>1, <2>3 DEF ReplayCheck
    <3>2. Goto("replay", "pointers")
      BY <1>0, <2>1, <3>1, RaisedStep
    <3>3. Moves("replay")
      BY <1>0, <2>1, <3>2, OneThread DEF Moves, Final
    <3> QED BY <1>0, <2>1, <3>1, <3>3, SameSession, ThreadStep, RaisedStep
  <2> QED BY <2>2, <2>3
<1>2. ASSUME CancelReplay PROVE Step
  <2> DEFINE x == IF Cancelled["replay"].st = "running" THEN "cancelling" ELSE Cancelled["replay"].st
  <2>1. /\ run' = [Cancelled EXCEPT !["replay"].st = x]
        /\ run["replay"].st # "none" /\ UNCHANGED <<s, cmd, job, ran, th>>
    BY <1>2 DEF CancelReplay, device
  <2>2. x # "none"
    BY <1>0, <1>c, <2>1
  <2> HIDE DEF x
  <2>3. \A y \in Runs : RunKept(y)
    BY <1>0, <1>c, <2>1, <2>2 DEF RunKept, RunTables, RunRecords, Runs
  <2> QED BY <2>1, <2>3, SameSession, QuietStep
<1>3. ASSUME NEW c \in Clients, Plan(c) PROVE Step
  <2>1. /\ s'.epoch = s.epoch /\ s'.ctl = s.ctl /\ s'.mode = s.mode /\ s'.seq = s.seq
        /\ run["playback"].st = "none" /\ UNCHANGED <<cmd, job, ran, th, run>>
    BY <1>0, <1>3 DEF Plan, SessionRecords, device
  <2>2. Ahead /\ Holds /\ Planned
    BY <1>0, <2>1 DEF Ahead, Holds, Planned
  <2> QED BY <2>1, <2>2, QuietStep DEF RunKept
<1>4. ASSUME NEW c \in Clients, ConfirmPlayback(c) PROVE Step
  <2>1. /\ UNCHANGED <<cmd, job, ran>> /\ s.ctl \in Clients /\ Inflight = {}
        /\ s.plan # None /\ run["playback"].st = "none"
    BY <1>4 DEF ConfirmPlayback, device, Control, PlaybackScope, PlaybackHolds
  <2>2. CASE s.plan = [epoch |-> s.epoch, seq |-> s.seq] /\ (Native => auth = "free")
    <3> DEFINE y == [st |-> "running", cancel |-> FALSE, back |-> c]
               x == [op |-> "playback", pc |-> "next", ctl |-> "playback",
                     epoch |-> s.epoch + 1, arg |-> None, n |-> 1]
    <3>1. /\ s' = [s EXCEPT !.plan = None, !.known = FALSE, !.epoch = @ + 1,
                            !.ctl = "playback", !.seq = 0, !.mode = "playback",
                            !.event = "playback"]
          /\ run' = [run EXCEPT !["playback"] = y]
          /\ th' = [th EXCEPT !["playback"] = x]
      BY <1>4, <2>2 DEF ConfirmPlayback
    <3>2. s'.epoch = s.epoch + 1 /\ s'.plan = None /\ s'.ctl = "playback" /\ s'.mode = "playback"
      BY <1>0, <3>1 DEF SessionRecords
    <3>3. Ahead /\ Holds /\ Planned
      BY <2>1, <3>2 DEF Ahead, Holds, Planned
    <3>4. /\ y.st = "running" /\ y.back \in Clients
          /\ x.n = 1 /\ x.epoch = s.epoch + 1 /\ x.pc = "next"
      OBVIOUS
    <3> HIDE DEF x, y
    <3>5. th'["playback"] = x /\ \A u \in Threads : u # "playback" => th'[u] = th[u]
      BY <1>0, <3>1 DEF ThreadTables
    <3>6. run'["playback"] = y /\ run'["replay"] = run["replay"]
      BY <1>0, <3>1 DEF RunTables
    <3>7. Starts("playback")
      BY <2>1, <3>2, <3>4, <3>5, <3>6 DEF Starts
    <3>8. RunMoves("replay") /\ RunKept("replay")
      BY <1>0, <3>5, <3>6 DEF RunMoves, RunKept
    <3>9. \A l \in Callers : th'[l].pc = "idle" \/ th'[l].ctl \in Clients
      <4>1. \A l \in Callers : /\ l \in Threads /\ l # "playback"
                               /\ th[l].pc = "idle" \/ th[l].ctl \in Clients
        BY ScriptNames DEF Callback, Alive, Threads, Runs
      <4> QED BY <3>5, <4>1
    <3> QED BY <2>1, <3>3, <3>7, <3>8, <3>9 DEF Step, Commands, CallersKept, RunMoves, Runs
  <2>3. CASE ~(s.plan = [epoch |-> s.epoch, seq |-> s.seq] /\ (Native => auth = "free"))
    <3>1. s' = [s EXCEPT !.plan = None] /\ UNCHANGED <<run, th>>
      BY <1>4, <2>3 DEF ConfirmPlayback
    <3>2. /\ s'.epoch = s.epoch /\ s'.ctl = s.ctl /\ s'.mode = s.mode /\ s'.seq = s.seq
          /\ s'.plan = None
      BY <1>0, <3>1 DEF SessionRecords
    <3> QED BY <2>1, <3>1, <3>2, SameSession, QuietStep DEF RunKept
  <2> QED BY <2>2, <2>3
<1>5. ASSUME CancelPlayback PROVE Step
  <2>1. /\ UNCHANGED <<cmd, job, ran, th>>
        /\ s'.epoch = s.epoch /\ s'.ctl = s.ctl /\ s'.mode = s.mode /\ s'.seq = s.seq
        /\ s'.plan = None
    BY <1>0, <1>5 DEF CancelPlayback, SessionRecords, device
  <2>2. \/ run' = run
        \/ run["playback"].st # "none" /\ run' = [Cancelled EXCEPT !["playback"].st = "cancelling"]
    BY <1>5 DEF CancelPlayback
  <2>3. CASE run' = run
    BY <2>1, <2>3, SameSession, QuietStep DEF RunKept
  <2>4. CASE run' # run
    <3>1. run["playback"].st # "none" /\ run' = [Cancelled EXCEPT !["playback"].st = "cancelling"]
      BY <2>2, <2>4
    <3>2. \A x \in Runs : RunKept(x)
      BY <1>0, <3>1, CancelledKept DEF RunKept
    <3> QED BY <2>1, <3>2, SameSession, QuietStep
  <2> QED BY <2>3, <2>4
<1>6. ASSUME GeometryChange \/ CloseStop PROVE Step
  <2>1. /\ UNCHANGED <<cmd, job, ran, th, run>>
        /\ s' = [s EXCEPT !.geo = TRUE] \/ s' = [s EXCEPT !.stop = TRUE, !.plan = None]
    BY <1>6 DEF GeometryChange, CloseStop, device
  <2>2. /\ s'.epoch = s.epoch /\ s'.ctl = s.ctl /\ s'.mode = s.mode /\ s'.seq = s.seq
        /\ s'.plan = s.plan \/ s'.plan = None
    BY <1>0, <2>1 DEF SessionRecords
  <2> QED BY <2>1, <2>2, SameSession, QuietStep DEF RunKept
<1>7. ASSUME TimeoutBegin PROVE Step
  <2>1. /\ UNCHANGED <<s, cmd, job, ran, run>>
        /\ \A u \in Threads : u # "timer" => th'[u] = th[u]
    BY <1>0, <1>7 DEF TimeoutBegin, ThreadTables, device
  <2> QED BY <2>1, SameSession, QuietStep DEF RunKept
<1>8. ASSUME TimeoutEnd PROVE Step
  <2>1. /\ UNCHANGED <<cmd, job, ran, run>>
        /\ \A u \in Threads : u # "timer" => th'[u] = th[u]
    BY <1>0, <1>8, OneThread DEF TimeoutEnd, device
  <2>2. s'.epoch = s.epoch + 1 /\ s'.ctl = s.ctl /\ s'.plan = s.plan
    BY <1>0, <1>8 DEF TimeoutEnd, SessionRecords
  <2>3. Ahead /\ Holds /\ Planned
    BY <1>0, <2>2 DEF Ahead, Holds, Planned
  <2> QED BY <2>1, <2>3, QuietStep DEF RunKept
<1>9. ASSUME Fail \/ CloseDrain PROVE Step
  <2>1. UNCHANGED <<cmd, job, ran, th>> /\ run' = Cancelled
    BY <1>9 DEF Fail, FailSession, CloseDrain, device
  <2>2. s'.epoch = s.epoch + 1 /\ s'.ctl = s.ctl /\ (s'.plan = s.plan \/ s'.plan = None)
    BY <1>0, <1>9 DEF Fail, FailSession, CloseDrain, SessionRecords
  <2>3. Ahead /\ Holds /\ Planned
    BY <1>0, <2>2 DEF Ahead, Holds, Planned
  <2> QED BY <1>c, <2>1, <2>3, QuietStep DEF RunKept
<1> QED
  BY <1>1, <1>2, <1>3, <1>4, <1>5, <1>6, <1>7, <1>8, <1>9 DEF OtherNext, PlaybackNext

LEMMA StepClasses == ControlInv /\ [Next]_vars => Step \/ UNCHANGED vars
<1> SUFFICES ASSUME ControlInv, Next PROVE Step
  OBVIOUS
<1>0. TypeOK /\ Callback /\ PlaybackHolds /\ \A t \in Runs : RunPhase(t)
  BY DEF ControlInv
<1>1. \/ \E c \in AllCmds : InputNext(c)
      \/ \E k \in Callers : CallerNext(k)
      \/ \E t \in Threads : ThreadNext(t)
      \/ \E t \in Runs : RunSteps(t)
      \/ OtherNext
  BY DEF Next, Runs, OtherNext
<1> QED BY <1>0, <1>1, InputSteps, CallerSteps, ThreadSteps, RunStepsStep, OtherSteps

----------------------------------------------------------------------------
(* What a step does to one command: nothing that matters, a run gives it   *)
(* its envelope, a run has it admitted, or a client has.                   *)

Settled(c) ==
    /\ cmd'[c] = cmd[c]
    /\ Sent(c)' => Sent(c)
    /\ job'[c] # "no" => job[c] # "no"
    /\ job'[c] = "admitted" => job[c] = "admitted" /\ (c \in ran' => c \in ran)

Worded(t, c) ==
    /\ RunNext(t) /\ th[t].pc = "next" /\ th[t].n \in 1 .. Len(Script(t))
    /\ c = Script(t)[th[t].n] /\ UNCHANGED <<job, ran>>

Admitted(c) ==
    /\ Accepted(c, cmd'[c]) /\ cmd'[c] # NoCmd
    /\ s'.epoch = s.epoch /\ s'.ctl = s.ctl /\ s'.seq = cmd'[c].seq
    /\ cmd[c] # NoCmd => cmd'[c] = cmd[c]
    /\ ran' = ran

ByRun(t, c) ==
    /\ Admitted(c) /\ cmd' = cmd
    /\ th[t].pc = "input" /\ th[t].n \in 1 .. Len(Script(t)) /\ c = Script(t)[th[t].n]
    /\ th'[t].pc = "wait" /\ th'[t].n = th[t].n

ByClient(c) == Admitted(c) /\ c \in Cmds /\ cmd'[c].ctl \in Clients

LEMMA CommandEffects ==
  ASSUME ControlInv, Commands, NEW c \in AllCmds
  PROVE  \/ Settled(c)
         \/ \E t \in Runs : Worded(t, c) \/ ByRun(t, c)
         \/ ByClient(c)
<1>a. TypeOK /\ \A t \in Runs : RunPhase(t)
  BY DEF ControlInv
<1>0. /\ s \in SessionRecords /\ th \in ThreadTables
      /\ cmd \in [AllCmds -> Envelopes] /\ job \in [AllCmds -> {"no", "admitted", "executed"}]
  BY <1>a, TypeFacts DEF TypeOK
<1>n. \A t \in Runs : t \in Threads /\ th[t].n \in Nat /\ Len(Script(t)) \in Nat
  BY <1>0, ScriptNames DEF ThreadTables, ThreadRecords
<1>1. CASE UNCHANGED <<cmd, job, ran>>
  BY <1>1 DEF Settled, Sent
<1>2. ASSUME NEW t \in Runs, RunNext(t) PROVE Settled(c) \/ Worded(t, c)
  <2>1. /\ UNCHANGED <<job, ran>> /\ th[t].pc = "next" /\ th[t].n <= Len(Script(t))
        /\ cmd' = cmd \/ \E e : cmd' = [cmd EXCEPT ![Script(t)[th[t].n]] = e]
    BY <1>2 DEF RunNext, device
  <2>2. th[t].n \in 1 .. Len(Script(t))
    <3>1. RunPhase(t)
      BY <1>a
    <3>2. th[t].n >= 1
      BY <2>1, <3>1 DEF RunPhase, Alive
    <3> QED BY <1>n, <2>1, <3>2
  <2>3. CASE c = Script(t)[th[t].n]
    BY <1>2, <2>1, <2>2, <2>3 DEF Worded
  <2>4. CASE c # Script(t)[th[t].n]
    <3>1. cmd'[c] = cmd[c]
      BY <1>0, <2>1, <2>4
    <3> QED BY <2>1, <3>1 DEF Settled, Sent
  <2> QED BY <2>3, <2>4
<1>3. ASSUME NEW t \in Runs, RunAdmit(t) PROVE Settled(c) \/ ByRun(t, c)
  <2> DEFINE d == Script(t)[th[t].n]
  <2>1. th[t].pc = "input" /\ UNCHANGED <<cmd, ran>>
    BY <1>3 DEF RunAdmit, device
  <2>2. th[t].n \in 1 .. Len(Script(t)) /\ t \in Threads
    <3>1. RunPhase(t)
      BY <1>a
    <3>2. th[t].n >= 1 /\ th[t].n <= Len(Script(t))
      BY <2>1, <3>1 DEF RunPhase, Alive
    <3> QED BY <1>n, <3>2
  <2>3. CASE Accepted(d, cmd[d]) /\ MayPrepare
    <3>1. /\ s' = [s EXCEPT !.known = FALSE, !.plan = None, !.seq = cmd[d].seq]
          /\ job' = [job EXCEPT ![d] = "admitted"] /\ Goto(t, "wait")
      BY <1>3, <2>3 DEF RunAdmit, Admission
    <3>2. s'.epoch = s.epoch /\ s'.ctl = s.ctl /\ s'.seq = cmd[d].seq
      BY <1>0, <3>1 DEF SessionRecords
    <3>3. th'[t].pc = "wait" /\ th'[t].n = th[t].n
      BY <1>a, <2>2, <3>1, OneThread
    <3>4. cmd[d] # NoCmd
      <4>1. cmd[d] = [ctl |-> t, epoch |-> th[t].epoch, seq |-> th[t].n, act |-> "tap"]
        BY <2>1 DEF ControlInv, RunPhase
      <4> QED BY <4>1 DEF NoCmd
    <3>5. CASE c = d
      BY <2>1, <2>2, <2>3, <3>2, <3>3, <3>4, <3>5 DEF ByRun, Admitted
    <3>6. CASE c # d
      <4>1. job'[c] = job[c]
        BY <1>0, <3>1, <3>6
      <4> QED BY <2>1, <4>1 DEF Settled, Sent
    <3> QED BY <3>5, <3>6
  <2>4. CASE ~(Accepted(d, cmd[d]) /\ MayPrepare)
    <3>1. job' = job
      BY <1>3, <2>4 DEF RunAdmit, Admission
    <3> QED BY <2>1, <3>1 DEF Settled, Sent
  <2> QED BY <2>3, <2>4
<1>4. ASSUME NEW d \in Cmds, NEW act \in Acts, Admit(d, act) PROVE Settled(c) \/ ByClient(c)
  <2> DEFINE e == IF cmd[d] # NoCmd THEN cmd[d]
                  ELSE [ctl |-> s.ctl, epoch |-> s.epoch, seq |-> s.seq + 1, act |-> act]
  <2>1. /\ Accepted(d, e) /\ Admission(d, e) /\ cmd' = [cmd EXCEPT ![d] = e] /\ ran' = ran
        /\ e.ctl \in Clients
    BY <1>4 DEF Admit, device
  <2>2. cmd[d] # NoCmd => e = cmd[d]
    OBVIOUS
  <2> HIDE DEF e
  <2>3. CASE c = d
    <3>1. cmd'[c] = e
      BY <1>0, <2>1, <2>3
    <3>2. s' = [s EXCEPT !.known = FALSE, !.plan = None, !.seq = e.seq]
      BY <2>1 DEF Admission
    <3>3. s'.epoch = s.epoch /\ s'.ctl = s.ctl /\ s'.seq = e.seq
      BY <1>0, <3>2 DEF SessionRecords
    <3>4. e # NoCmd
      BY <2>1, ControlAssumption DEF NoCmd
    <3> QED BY <2>1, <2>2, <2>3, <3>1, <3>3, <3>4 DEF ByClient, Admitted
  <2>4. CASE c # d
    <3>1. cmd'[c] = cmd[c] /\ job'[c] = job[c]
      BY <1>0, <2>1, <2>4 DEF Admission
    <3> QED BY <2>1, <3>1 DEF Settled, Sent
  <2> QED BY <2>3, <2>4
<1>5. ASSUME NEW d \in AllCmds, Execute(d) \/ Ends(d) PROVE Settled(c)
  <2>1. CASE Execute(d)
    <3>1. /\ job[d] = "admitted" /\ job' = [job EXCEPT ![d] = "executed"]
          /\ ran' = ran \cup {d} /\ cmd' = cmd
      BY <2>1 DEF Execute
    <3> QED BY <1>0, <3>1 DEF Settled, Sent
  <2>2. CASE Ends(d)
    BY <1>0, <2>2 DEF Ends, Settled, Sent
  <2> QED BY <1>5, <2>1, <2>2
<1> QED
  BY <1>1, <1>2, <1>3, <1>4, <1>5 DEF Commands

----------------------------------------------------------------------------
(* The invariant is preserved.                                             *)

LEMMA CallbackStep ==
  ASSUME Callback, Step
  PROVE  Callback'
BY DEF Step, CallersKept, Callback, Alive, RunKept, Starts

\* Numbers of the state before and after a step.
LEMMA StepNumbers ==
  ASSUME TypeOK, TypeOK', Step
  PROVE  /\ s.epoch \in Nat /\ s'.epoch \in Nat /\ s.seq \in Nat /\ s'.seq \in Nat
         /\ s.epoch <= s'.epoch
         /\ \A t \in Runs : /\ th[t].n \in Nat /\ th'[t].n \in Nat
                            /\ th[t].epoch \in Nat /\ th'[t].epoch \in Nat
         /\ \A c \in AllCmds : cmd[c].epoch \in Nat /\ cmd[c].seq \in Nat
<1>1. s.epoch \in Nat /\ s'.epoch \in Nat /\ s.seq \in Nat /\ s'.seq \in Nat
  BY DEF TypeOK, SessionRecords
<1>2. th \in ThreadTables /\ th' \in ThreadTables /\ cmd \in [AllCmds -> Envelopes]
  BY DEF TypeOK, ThreadTables
<1>3. \A t \in Runs : /\ th[t].n \in Nat /\ th'[t].n \in Nat
                      /\ th[t].epoch \in Nat /\ th'[t].epoch \in Nat
  BY <1>2, ScriptNames DEF ThreadTables, ThreadRecords
<1>4. \A c \in AllCmds : cmd[c].epoch \in Nat /\ cmd[c].seq \in Nat
  BY <1>2 DEF Envelopes
<1>5. s.epoch <= s'.epoch
  BY <1>1 DEF Step, Ahead
<1> QED BY <1>1, <1>3, <1>4, <1>5

\* The envelopes of a run are written by the run.
LEMMA EnvelopeKept ==
  ASSUME ControlInv, Step, NEW t \in Runs, NEW i \in 1 .. Len(Script(t)), ~RunNext(t)
  PROVE  cmd'[Script(t)[i]] = cmd[Script(t)[i]]
<1> DEFINE c == Script(t)[i]
<1>1. c \in AllCmds /\ c \notin Cmds
  BY ScriptNames
<1>2. ASSUME NEW x \in Runs, Worded(x, c) PROVE FALSE
  <2>1. x # t
    BY <1>2 DEF Worded
  <2>2. th[x].n \in 1 .. Len(Script(x)) /\ Script(t)[i] = Script(x)[th[x].n]
    BY <1>2 DEF Worded
  <2> QED BY <2>1, <2>2, ScriptNames DEF Runs, Script
<1>3. Settled(c) \/ (\E x \in Runs : Worded(x, c) \/ ByRun(x, c)) \/ ByClient(c)
  BY <1>1, CommandEffects DEF Step
<1> QED BY <1>1, <1>2, <1>3 DEF Settled, ByRun, ByClient

LEMMA RunPhaseStep ==
  ASSUME ControlInv, TypeOK', Step, NEW t \in Runs
  PROVE  RunPhase(t)'
<1>0. TypeOK /\ RunPhase(t) /\ RunMoves(t) /\ (RunKept(t) \/ Starts(t))
  BY DEF ControlInv, Step
<1>1. /\ s.epoch \in Nat /\ s'.epoch \in Nat /\ s.epoch <= s'.epoch
      /\ th[t].n \in Nat /\ th[t].epoch \in Nat /\ Len(Script(t)) \in Nat
  BY <1>0, StepNumbers, ScriptNames
<1>s. run[t].st # "none" => run'[t].st # "none"
  BY <1>0 DEF RunKept, Starts
<1>k. ASSUME ~RunNext(t), th[t].pc \in {"input", "wait"}
      PROVE  /\ th[t].n <= Len(Script(t))
             /\ cmd'[Script(t)[th[t].n]] = [ctl |-> t, epoch |-> th[t].epoch,
                                            seq |-> th[t].n, act |-> "tap"]
  <2>1. /\ th[t].n >= 1 /\ th[t].n <= Len(Script(t))
        /\ cmd[Script(t)[th[t].n]] = [ctl |-> t, epoch |-> th[t].epoch,
                                      seq |-> th[t].n, act |-> "tap"]
    BY <1>0, <1>k DEF RunPhase, Alive
  <2>2. th[t].n \in 1 .. Len(Script(t))
    BY <1>1, <2>1
  <2> QED BY <1>k, <2>1, <2>2, EnvelopeKept
<1>n. RunNext(t) => th[t].pc = "next"
  BY DEF RunNext
<1>2. CASE th'[t] = th[t]
  BY <1>0, <1>1, <1>s, <1>k, <1>n, <1>2 DEF RunPhase, Alive
<1>3. CASE Starts(t)
  BY <1>1, <1>3 DEF Starts, RunPhase, Opening
<1>4. CASE Moves(t)
  <2>1. /\ th'[t].n = th[t].n /\ th'[t].epoch = th[t].epoch /\ th[t].n >= 1
        /\ th[t].epoch <= s'.epoch /\ run'[t].st # "none"
        /\ t = "playback" => th[t].pc \notin Opening
        /\ th[t].pc \in Opening => th[t].n = 1
    BY <1>0, <1>1, <1>s, <1>4 DEF RunPhase, Moves
  <2>2. CASE th'[t].pc \in Final
    BY <2>1, <2>2 DEF RunPhase, Final, Opening
  <2>3. CASE th[t].pc \in Opening /\ th'[t].pc \in Opening
    BY <2>1, <2>3 DEF RunPhase, Opening
  <2>4. CASE th'[t].pc = "next"
    BY <2>1, <2>4 DEF RunPhase, Opening
  <2>5. CASE RunNext(t) /\ th'[t].pc = "input"
    <3> DEFINE c == Script(t)[th[t].n]
    <3>1. ~Raised(t) /\ ~Goto(t, "pointers")
      BY <1>0, <2>5, OneThread, ScriptNames DEF Raised, Runs
    <3>2. /\ th[t].n <= Len(Script(t))
          /\ cmd' = [cmd EXCEPT ![c] = [ctl |-> t, epoch |-> th[t].epoch,
                                        seq |-> th[t].n, act |-> "tap"]]
      BY <2>5, <3>1 DEF RunNext
    <3>3. c \in AllCmds
      BY <1>1, <2>1, <3>2, ScriptNames
    <3>4. cmd'[c] = [ctl |-> t, epoch |-> th[t].epoch, seq |-> th[t].n, act |-> "tap"]
      BY <1>0, <3>2, <3>3 DEF TypeOK
    <3> QED BY <2>1, <2>5, <3>2, <3>4 DEF RunPhase, Opening
  <2>6. CASE RunAdmit(t) /\ th'[t].pc = "wait"
    <3>1. th[t].pc = "input"
      BY <2>6 DEF RunAdmit
    <3> QED BY <1>k, <1>n, <2>1, <2>6, <3>1 DEF RunPhase, Opening
  <2> QED BY <1>4, <2>2, <2>3, <2>4, <2>5, <2>6 DEF Moves
<1>5. CASE /\ th[t].pc = "wait" /\ th'[t].pc = "next" /\ th'[t].n = th[t].n + 1
           /\ th'[t].epoch = th[t].epoch
  BY <1>0, <1>1, <1>s, <1>5 DEF RunPhase, Alive, Opening
<1>6. CASE th'[t] = NoThread
  BY <1>6 DEF RunPhase, Alive, NoThread, Opening
<1> QED BY <1>0, <1>2, <1>3, <1>4, <1>5, <1>6 DEF RunMoves

\* A command of a run is sent by the run, when it is its turn.
LEMMA SentStep ==
  ASSUME ControlInv, Step, NEW t \in Runs, NEW i \in 1 .. Len(Script(t))
  PROVE  LET c == Script(t)[i] IN
         \/ (Sent(c)' => Sent(c)) /\ (job'[c] # "no" => job[c] # "no")
         \/ /\ th[t].pc = "input" /\ th[t].n = i /\ th'[t].pc = "wait" /\ th'[t].n = i
            /\ Accepted(c, cmd[c])
<1> DEFINE c == Script(t)[i]
<1>1. c \in AllCmds /\ c \notin Cmds
  BY ScriptNames
<1>2. Settled(c) \/ (\E x \in Runs : Worded(x, c) \/ ByRun(x, c)) \/ ByClient(c)
  BY <1>1, CommandEffects DEF Step
<1>3. ASSUME NEW x \in Runs, ByRun(x, c) PROVE x = t /\ th[t].n = i
  <2>1. th[x].n \in 1 .. Len(Script(x)) /\ Script(t)[i] = Script(x)[th[x].n]
    BY <1>3 DEF ByRun
  <2>2. x = t
    BY <2>1, ScriptNames DEF Runs, Script
  <2> QED BY <2>1, <2>2, ScriptNames
<1>4. ASSUME NEW x \in Runs, Worded(x, c) PROVE (Sent(c)' => Sent(c)) /\ job' = job
  BY <1>4 DEF Worded, Sent
<1> QED BY <1>1, <1>2, <1>3, <1>4 DEF Settled, ByRun, Admitted, ByClient

LEMMA TurnStep ==
  ASSUME ControlInv, TypeOK', Step, NEW t \in Runs
  PROVE  Turn(t)'
<1>0. TypeOK /\ RunPhase(t) /\ Turn(t) /\ RunMoves(t) /\ (RunKept(t) \/ Starts(t))
  BY DEF ControlInv, Step
<1>1. th[t].n \in Nat /\ th'[t].n \in Nat /\ Len(Script(t)) \in Nat
  BY <1>0, StepNumbers, ScriptNames
<1> SUFFICES ASSUME NEW i \in 1 .. Len(Script(t))
             PROVE  /\ Sent(Script(t)[i])' =>
                          /\ run'[t].st # "none"
                          /\ th'[t].pc \in Before => i < th'[t].n
                          /\ th'[t].pc = "wait" => i <= th'[t].n
                    /\ job'[Script(t)[i]] # "no" => th'[t].pc = "wait" /\ th'[t].n = i
  BY DEF Turn, Script
<1> DEFINE c == Script(t)[i]
<1>2. /\ Sent(c) => /\ run[t].st # "none"
                    /\ th[t].pc \in Before => i < th[t].n
                    /\ th[t].pc = "wait" => i <= th[t].n
      /\ job[c] # "no" => th[t].pc = "wait" /\ th[t].n = i /\ Sent(c)
  BY <1>0 DEF Turn, Sent
<1>s. run[t].st # "none" => run'[t].st # "none"
  BY <1>0 DEF RunKept, Starts
<1>w. \/ (Sent(c)' => Sent(c)) /\ (job'[c] # "no" => job[c] # "no")
      \/ th[t].pc = "input" /\ th[t].n = i /\ th'[t].pc = "wait" /\ th'[t].n = i
  BY SentStep
<1>a. Alive(t) => run[t].st # "none"
  BY <1>0 DEF RunPhase
<1> HIDE DEF c
<1>3. CASE th[t].pc = "input" /\ th[t].n = i /\ th'[t].pc = "wait" /\ th'[t].n = i
  BY <1>1, <1>s, <1>a, <1>3 DEF Alive, Before, Opening, c
<1>4. CASE (Sent(c)' => Sent(c)) /\ (job'[c] # "no" => job[c] # "no")
  <2>1. CASE th'[t] = th[t]
    BY <1>2, <1>s, <1>4, <2>1 DEF c
  <2>2. CASE Starts(t)
    BY <1>2, <1>4, <2>2 DEF Starts, Sent, c
  <2>3. CASE Moves(t)
    <3>1. th'[t].n = th[t].n
      BY <2>3 DEF Moves
    <3>2. CASE th'[t].pc \in Final /\ (th[t].pc = "wait" => job[Script(t)[th[t].n]] = "no")
      <4>1. job[c] = "no"
        BY <1>2, <3>2 DEF c
      <4> QED BY <1>2, <1>s, <1>4, <3>2, <4>1 DEF Final, Before, Opening, c
    <3>3. CASE th[t].pc \in Before /\ th'[t].pc \in Before
      BY <1>2, <1>s, <1>4, <3>1, <3>3 DEF Before, Opening, c
    <3>4. CASE th[t].pc = "input" /\ th'[t].pc = "wait"
      <4>1. job[c] = "no" /\ (Sent(c) => i < th[t].n)
        BY <1>2, <3>4 DEF Before
      <4> QED BY <1>1, <1>2, <1>s, <1>4, <3>1, <3>4, <4>1 DEF Before, Opening, c
    <3> QED BY <2>3, <3>2, <3>3, <3>4 DEF Moves, Before, Opening, RunNext, RunAdmit
  <2>4. CASE /\ th[t].pc = "wait" /\ th'[t].pc = "next" /\ th'[t].n = th[t].n + 1
             /\ job[Script(t)[th[t].n]] = "no"
    <3>1. job[c] = "no"
      BY <1>2, <2>4 DEF c
    <3> QED BY <1>1, <1>2, <1>s, <1>4, <2>4, <3>1 DEF Before, Opening, c
  <2>5. CASE th[t].pc \in {"end", "kept"} /\ th'[t] = NoThread
    BY <1>2, <1>s, <1>4, <2>5 DEF NoThread, Before, Opening, c
  <2> QED BY <1>0, <2>1, <2>2, <2>3, <2>4, <2>5 DEF RunMoves
<1> QED BY <1>w, <1>3, <1>4

LEMMA OnceStep ==
  ASSUME ControlInv, TypeOK', Step, NEW c \in AllCmds
  PROVE  Once(c)'
<1>0. TypeOK /\ Once(c) /\ Commands /\ Ahead
  BY DEF ControlInv, Step
<1>1. /\ s.epoch \in Nat /\ s'.epoch \in Nat /\ s.seq \in Nat /\ s'.seq \in Nat
      /\ cmd[c].epoch \in Nat /\ cmd[c].seq \in Nat
  BY <1>0, StepNumbers
<1>2. ASSUME Past(c), cmd'[c] = cmd[c] PROVE Past(c)'
  BY <1>0, <1>1, <1>2 DEF Past, Ahead
<1>3. CASE Settled(c)
  BY <1>0, <1>2, <1>3 DEF Settled, Once, Sent
<1>4. ASSUME NEW t \in Runs, Worded(t, c) PROVE Once(c)'
  <2>1. /\ th[t].n \in 1 .. Len(Script(t)) /\ c = Script(t)[th[t].n] /\ th[t].pc = "next"
        /\ UNCHANGED <<job, ran>>
    BY <1>4 DEF Worded
  <2>2. Turn(t) /\ th[t].n \in Nat
    BY <2>1 DEF ControlInv
  <2>3. ~Sent(c)
    BY <2>1, <2>2 DEF Turn, Before
  <2> QED BY <1>0, <2>1, <2>3 DEF Once, Sent
<1>5. ASSUME Admitted(c) PROVE Once(c)'
  <2>1. /\ cmd'[c] # NoCmd /\ s'.epoch = s.epoch /\ s'.seq = cmd'[c].seq /\ ran' = ran
        /\ cmd'[c].epoch = s.epoch /\ cmd'[c].seq > s.seq
        /\ cmd[c] # NoCmd => cmd'[c] = cmd[c]
    BY <1>5 DEF Admitted, Accepted, Control
  <2>2. Past(c)'
    BY <1>1, <2>1 DEF Past
  <2>3. c \notin ran
    <3>1. CASE cmd[c] # NoCmd
      <4>1. ~Past(c)
        BY <1>1, <2>1, <3>1 DEF Past
      <4> QED BY <1>0, <4>1 DEF Once, Sent
    <3>2. CASE cmd[c] = NoCmd
      <4>1. CASE c \in Cmds
        BY <1>0, <3>2, <4>1 DEF Once, Sent
      <4>2. CASE c \notin Cmds
        <5>1. PICK t \in Runs : ByRun(t, c) \/ Worded(t, c) \/ Settled(c)
          BY <1>0, <4>2, CommandEffects DEF ByClient, Runs
        <5>2. cmd'[c] = cmd[c] \/ Worded(t, c)
          BY <5>1 DEF ByRun, Settled
        <5>3. CASE Worded(t, c)
          <6>1. /\ th[t].n \in 1 .. Len(Script(t)) /\ c = Script(t)[th[t].n] /\ th[t].pc = "next"
            BY <5>3 DEF Worded
          <6>2. Turn(t) /\ th[t].n \in Nat
            BY <6>1 DEF ControlInv
          <6> QED BY <6>1, <6>2 DEF Turn, Before, Sent
        <5> QED BY <2>1, <3>2, <5>2, <5>3
      <4> QED BY <4>1, <4>2
    <3> QED BY <3>1, <3>2
  <2> QED BY <2>1, <2>2, <2>3 DEF Once, Sent
<1> QED BY <1>0, <1>3, <1>4, <1>5, CommandEffects DEF ByRun, ByClient

LEMMA PlaybackStep ==
  ASSUME ControlInv, TypeOK', Step
  PROVE  PlaybackHolds'
<1> DEFINE p == "playback"
<1>0. /\ TypeOK /\ PlaybackHolds /\ RunPhase(p) /\ RunMoves(p) /\ (RunKept(p) \/ Starts(p))
      /\ Planned /\ Holds /\ Commands /\ p \in Runs
  BY DEF ControlInv, Step, Runs
<1>1. s'.plan # None => run'[p].st = "none"
  BY <1>0 DEF PlaybackHolds, Planned, RunKept, Starts
<1>2. ASSUME Alive(p)'
      PROVE  /\ s'.ctl = p
             /\ Inflight' \subseteq Elements(Played)
             /\ s'.epoch = th'[p].epoch => s'.mode = "playback"
  <2>1. CASE Starts(p)
    <3>1. s'.ctl = p /\ s'.mode = p /\ Inflight = {} /\ job' = job
      BY <2>1 DEF Starts
    <3> QED BY <3>1 DEF Inflight
  <2>2. CASE ~Starts(p)
    <3>1. Alive(p) /\ th'[p].epoch = th[p].epoch
      BY <1>0, <1>2, <2>2 DEF RunMoves, Moves, Alive, NoThread
    <3>2. /\ s.ctl = p /\ Inflight \subseteq Elements(Played)
          /\ s.epoch = th[p].epoch => s.mode = "playback"
      BY <1>0, <3>1 DEF PlaybackHolds
    <3>3. s'.ctl = s.ctl /\ (s'.epoch = s.epoch => s'.mode = s.mode)
      BY <1>0, <1>2, <3>1, <3>2, ScriptNames DEF Holds, Alive
    <3>4. s'.epoch = th[p].epoch => s.epoch = th[p].epoch /\ s'.epoch = s.epoch
      <4>1. th[p].epoch <= s.epoch /\ s.epoch <= s'.epoch
        BY <1>0, <3>1, StepNumbers DEF RunPhase
      <4>2. th[p].epoch \in Nat /\ s.epoch \in Nat /\ s'.epoch \in Nat
        BY <1>0, StepNumbers
      <4> QED BY <4>1, <4>2
    <3>5. ASSUME NEW c \in AllCmds, job'[c] # "no" PROVE c \in Elements(Played)
      <4>1. CASE job[c] # "no"
        BY <3>2, <4>1 DEF Inflight
      <4>2. CASE job[c] = "no"
        <5>1. (\E t \in Runs : ByRun(t, c)) \/ ByClient(c)
          BY <1>0, <3>5, <4>2, CommandEffects DEF Settled, Worded
        <5>2. cmd'[c].ctl = p
          BY <3>2, <5>1 DEF ByRun, ByClient, Admitted, Accepted, Control
        <5>3. PICK t \in Runs : ByRun(t, c)
          BY <1>0, <5>1, <5>2, ScriptNames DEF ByClient
        <5>4. cmd[c].ctl = t
          <6>1. cmd[c] = [ctl |-> t, epoch |-> th[t].epoch, seq |-> th[t].n, act |-> "tap"]
            BY <5>3 DEF ByRun, ControlInv, RunPhase
          <6> QED BY <6>1
        <5>5. t = p /\ th[p].n \in 1 .. Len(Script(p)) /\ c = Script(p)[th[p].n]
          BY <5>2, <5>3, <5>4 DEF ByRun
        <5> QED BY <1>0, <5>5, ScriptNames DEF Script
      <4> QED BY <4>1, <4>2
    <3>6. Inflight' \subseteq Elements(Played)
      BY <3>5 DEF Inflight
    <3> QED BY <3>1, <3>2, <3>3, <3>4, <3>6
  <2> QED BY <2>1, <2>2
<1> QED BY <1>1, <1>2 DEF PlaybackHolds

LEMMA ControlStep == ControlInv /\ [Next]_vars => ControlInv'
<1> SUFFICES ASSUME ControlInv, [Next]_vars PROVE ControlInv'
  OBVIOUS
<1>1. TypeOK'
  BY TypeStep
<1>2. CASE Step
  <2>1. Callback
    BY DEF ControlInv
  <2> QED BY <1>1, <1>2, <2>1, CallbackStep, RunPhaseStep, TurnStep, OnceStep, PlaybackStep DEF ControlInv
<1>3. CASE UNCHANGED vars
  BY <1>3 DEF vars, ControlInv, TypeOK, Callback, PlaybackHolds, RunPhase, Turn, Once, Past, Sent,
     Alive, Inflight
<1> QED BY <1>2, <1>3, StepClasses

\* The inductive invariant: every command that was admitted is behind the
\* sequence of the epoch that is current, a run is started once and sends its
\* commands in turn, and a playback keeps control until its thread has ended.
THEOREM ControlInvariance == Spec => []ControlInv
BY TypeInit, ControlStep, PTL DEF Spec

\* Every reachable state of the session, its commands, recordings, threads and
\* runs has the type the code gives it.
THEOREM ControlTypes == Spec => []TypeOK
<1>1. ControlInv => TypeOK
  BY DEF ControlInv
<1> QED BY <1>1, ControlInvariance, PTL

\* While the thread of a playback lives no input but its own is in flight
\* (confirm_playback, claim and the checks of input).
THEOREM PlaybackRunsAlone == Spec => []PlaybackAlone
<1>1. ControlInv => PlaybackAlone
  BY DEF ControlInv, PlaybackHolds, PlaybackAlone
<1> QED BY <1>1, ControlInvariance, PTL

\* The provider injects a command at most once, also when its receipt was
\* evicted: the epoch and the sequence that input compares keep it out.
THEOREM InjectedAtMostOnce == Spec => AtMostOnce
<1>1. ASSUME ControlInv, [Next]_vars, NEW c \in AllCmds, job[c] = "admitted", job'[c] = "executed"
      PROVE  c \notin ran
  BY <1>1 DEF ControlInv, Once
<1>2. ControlInv /\ [Next]_vars =>
        [\A c \in AllCmds : job[c] = "admitted" /\ job'[c] = "executed" => c \notin ran]_vars
  BY <1>1
<1> QED BY <1>2, ControlInvariance, PTL DEF Spec, AtMostOnce

\* No action of a playback is admitted once cancel_playback has set its event.
THEOREM CancelledStaysStopped == Spec => CancelledPlaybackStops
<1>1. ASSUME ControlInv, [Next]_vars, NEW c \in Elements(Played), run["playback"].cancel,
             job[c] = "no"
      PROVE  job'[c] = "no"
  <2> DEFINE p == "playback"
  <2>0. p \in Runs /\ Script(p) = Played
    BY DEF Runs, Script
  <2>1. PICK i \in 1 .. Len(Script(p)) : c = Script(p)[i]
    BY <2>0, ScriptNames
  <2>2. CASE UNCHANGED vars
    BY <1>1, <2>2 DEF vars
  <2>3. CASE Step
    <3>1. \/ job'[c] # "no" => job[c] # "no"
          \/ th[p].pc = "input" /\ th[p].n = i /\ Accepted(c, cmd[c])
      BY <1>1, <2>0, <2>1, <2>3, SentStep
    <3>2. ASSUME th[p].pc = "input", th[p].n = i, Accepted(c, cmd[c]) PROVE FALSE
      <4>1. RunPhase(p) /\ PlaybackHolds
        BY <1>1, <2>0 DEF ControlInv
      <4>2. cmd[c] = [ctl |-> p, epoch |-> th[p].epoch, seq |-> th[p].n, act |-> "tap"]
        BY <2>1, <3>2, <4>1 DEF RunPhase
      <4>3. s.epoch = th[p].epoch
        BY <3>2, <4>2 DEF Accepted, Control
      <4>4. s.mode = "playback"
        BY <3>2, <4>1, <4>3 DEF PlaybackHolds, Alive
      <4> QED BY <1>1, <3>2, <4>4 DEF Accepted
    <3> QED BY <1>1, <3>1, <3>2
  <2> QED BY <1>1, <2>2, <2>3, StepClasses
<1>2. ControlInv /\ [Next]_vars =>
        [\A c \in Elements(Played) : run["playback"].cancel /\ job[c] = "no" => job'[c] = "no"]_vars
  BY <1>1
<1> QED BY <1>2, ControlInvariance, PTL DEF Spec, CancelledPlaybackStops

----------------------------------------------------------------------------
(* A replay on a device with an authority.                                 *)

\* Where a thread is neither in a call of the provider nor in a reset.
Calm == Pcs \ (Busy \cup Resets \cup {"ready"})

\* Operations of the authority: fewer, one more of a free authority, or one
\* ended.
Operations ==
    /\ s'.st = "active" => s.st = "active"
    /\ \/ /\ Inflight' \subseteq Inflight /\ Busied' \subseteq Busied
          /\ auth' = auth \/ (auth' = "lost" /\ s'.st # "active")
       \/ /\ auth = "free" /\ auth' = "open" /\ Busied' \subseteq Busied
          /\ \E c : Inflight' \subseteq Inflight \cup {c}
       \/ /\ auth = "free" /\ auth' = "open" /\ Inflight' \subseteq Inflight
          /\ \E t : Busied' \subseteq Busied \cup {t}
       \/ /\ \E c \in Inflight : Inflight' \subseteq Inflight \ {c}
          /\ Busied' \subseteq Busied /\ auth' \in {auth, Confirmed}
       \/ /\ \E t \in Busied : Busied' \subseteq Busied \ {t}
          /\ Inflight' \subseteq Inflight /\ auth' \in {auth, Confirmed}

\* The steps of a thread to and through a reset.
PcMoves(t) ==
    \/ th'[t].pc = th[t].pc
    \/ th'[t].pc \in Calm \cup {"releasing"}
    \/ th'[t].pc = "reset"
    \/ th[t].pc = "reset" /\ th'[t].pc = "resetting"
    \/ th[t].pc = "resetting" /\ th'[t].pc = "answered" /\ (t = "replay" => log' = <<"replay">>)
    \/ th[t].pc = "answered" /\ th'[t].pc = "frame"
    \/ th[t].pc = "frame" /\ th'[t].pc = "ready"

\* What the device executes.
Injects ==
    \/ UNCHANGED <<log, ran>>
    \/ \E c \in AllCmds : Execute(c)
    \/ \E t \in Threads : /\ th[t].pc = "resetting" /\ th'[t].pc = "answered"
                          /\ t # "replay" => log' = <<"reset">>
                          /\ UNCHANGED <<job, ran>>

PureStep ==
    /\ Operations /\ Injects
    /\ s'.epoch = s.epoch => s'.ctl = s.ctl
    /\ \A t \in Threads : PcMoves(t)

\* A step of threads that call no provider.
LEMMA CalmStep ==
  ASSUME TypeOK, \A t \in Threads : th'[t].pc = th[t].pc \/ th'[t].pc \in Calm,
         UNCHANGED <<job, log, ran>>,
         auth' = auth \/ (auth' = "lost" /\ s'.st # "active"),
         s'.st = "active" => s.st = "active",
         s'.epoch = s.epoch => s'.ctl = s.ctl
  PROVE  PureStep
<1>1. Inflight' = Inflight /\ Busied' \subseteq Busied
  BY DEF Inflight, Busied, Calm
<1> QED BY <1>1 DEF PureStep, Operations, Injects, PcMoves

LEMMA PureInput ==
  ASSUME ControlInv, Native, NEW c \in AllCmds, InputNext(c)
  PROVE  PureStep
<1>a. TypeOK
  BY DEF ControlInv
<1>0. /\ s \in SessionRecords /\ s.epoch \in Nat
      /\ job \in [AllCmds -> {"no", "admitted", "executed"}]
  BY <1>a, TypeFacts DEF SessionRecords, TypeOK
<1>1. ASSUME NEW act \in Acts, Admit(c, act) PROVE PureStep
  <2>1. PICK e : Admission(c, e) /\ UNCHANGED <<th, log, ran>>
    BY <1>1 DEF Admit, device
  <2>2. s' = [s EXCEPT !.known = FALSE, !.plan = None, !.seq = e.seq]
    BY <2>1 DEF Admission
  <2>3. s'.st = s.st /\ s'.ctl = s.ctl
    BY <1>0, <2>2 DEF SessionRecords
  <2>4. CASE MayPrepare
    <3>1. /\ auth = "free" /\ auth' = "open" /\ job' = [job EXCEPT ![c] = "admitted"]
      BY <2>1, <2>4 DEF Admission, MayPrepare, Prepared
    <3>2. Inflight' \subseteq Inflight \cup {c} /\ Busied' = Busied
      BY <1>0, <2>1, <3>1 DEF Inflight, Busied
    <3> QED BY <2>1, <2>3, <3>1, <3>2 DEF PureStep, Operations, Injects, PcMoves
  <2>5. CASE ~MayPrepare
    <3>1. UNCHANGED <<job, auth>>
      BY <2>1, <2>5 DEF Admission
    <3>2. /\ \A t \in Threads : th'[t].pc = th[t].pc
          /\ UNCHANGED <<job, log, ran>> /\ auth' = auth
      BY <2>1, <3>1 DEF device
    <3> QED BY <1>a, <2>3, <3>2, CalmStep
  <2> QED BY <2>4, <2>5
<1>2. ASSUME Execute(c) PROVE PureStep
  <2>1. s' = s /\ auth' = auth /\ th' = th /\ job[c] = "admitted" /\ job' = [job EXCEPT ![c] = "executed"]
    BY <1>2 DEF Execute
  <2>2. Inflight' = Inflight /\ Busied' = Busied
    BY <1>0, <2>1 DEF Inflight, Busied
  <2>3. Operations
    BY <2>1, <2>2 DEF Operations
  <2>4. Injects
    BY <1>2 DEF Injects
  <2> QED BY <2>1, <2>3, <2>4 DEF PureStep, PcMoves
<1>3. ASSUME /\ job[c] # "no" /\ job' = [job EXCEPT ![c] = "no"] /\ UNCHANGED <<th, log, ran>>
             /\ auth' \in {auth, Confirmed} /\ (s'.st = "active" => s.st = "active")
             /\ s'.epoch = s.epoch => s'.ctl = s.ctl
      PROVE PureStep
  <2>1. c \in Inflight /\ Inflight' \subseteq Inflight \ {c} /\ Busied' = Busied
    BY <1>0, <1>3 DEF Inflight, Busied
  <2> QED BY <1>3, <2>1 DEF PureStep, Operations, Injects, PcMoves
<1>4. ASSUME InputRejected(c) PROVE PureStep
  <2>1. /\ job[c] # "no" /\ job' = [job EXCEPT ![c] = "no"] /\ UNCHANGED <<th, log, ran, s>>
        /\ auth' \in {auth, Confirmed}
    BY <1>4 DEF InputRejected, device
  <2> QED BY <1>3, <2>1
<1>5. ASSUME InputUnknown(c) PROVE PureStep
  <2>1. /\ job[c] # "no" /\ job' = [job EXCEPT ![c] = "no"] /\ UNCHANGED <<th, log, ran>>
        /\ auth' \in {auth, Confirmed}
    BY <1>5 DEF InputUnknown, device
  <2>2. s'.st = "failed" /\ s'.ctl = s.ctl
    BY <1>0, <1>5 DEF InputUnknown, FailSession, SessionRecords
  <2> QED BY <1>3, <2>1, <2>2
<1>6. ASSUME NEW fresh \in BOOLEAN, InputDone(c, fresh) PROVE PureStep
  <2>1. /\ job[c] # "no" /\ job' = [job EXCEPT ![c] = "no"] /\ UNCHANGED <<th, log, ran>>
        /\ auth' \in {auth, Confirmed}
    BY <1>6 DEF InputDone, device
  <2>2. s'.st = s.st /\ s'.ctl = s.ctl
    BY <1>0, <1>6 DEF InputDone, SessionRecords
  <2> QED BY <1>3, <2>1, <2>2
<1> QED
  BY <1>1, <1>2, <1>4, <1>5, <1>6 DEF InputNext

\* A thread that leaves, or goes on without a call of the provider.
LEMMA CalmThread ==
  ASSUME TypeOK, NEW t \in Threads, Return(t) \/ \E pc \in Calm : Goto(t, pc),
         UNCHANGED <<job, log, ran>>,
         auth' = auth \/ (auth' = "lost" /\ s'.st # "active"),
         s'.st = "active" => s.st = "active",
         s'.epoch = s.epoch => s'.ctl = s.ctl
  PROVE  PureStep
<1>1. \A u \in Threads : u # t => th'[u] = th[u]
  BY OneThread
<1>2. th'[t].pc \in Calm
  BY OneThread DEF NoThread, Calm, Pcs, Busy, Resets
<1> QED BY <1>1, <1>2, CalmStep

LEMMA RaisedCalm ==
  ASSUME NEW t \in Threads, Raised(t)
  PROVE  Return(t) \/ \E pc \in Calm : Goto(t, pc)
BY DEF Raised, Calm, Pcs, Busy, Resets

\* A step of one thread that calls the provider or ends a call of it.
LEMMA BusyThread ==
  ASSUME TypeOK, NEW t \in Threads, Return(t) \/ \E pc : Goto(t, pc), PcMoves(t),
         job' = job, Injects, s'.st = s.st, s'.ctl = s.ctl,
         \/ auth = "free" /\ auth' = "open"
         \/ /\ t \in Busied /\ th'[t].pc \notin Busy /\ auth' \in {auth, Confirmed}
         \/ auth' = auth /\ t \in Busied
  PROVE  PureStep
<1>1. \A u \in Threads : u # t => th'[u] = th[u]
  BY OneThread
<1>2. Inflight' = Inflight /\ Busied' \subseteq Busied \cup {t}
  BY <1>1 DEF Inflight, Busied
<1>3. th'[t].pc \notin Busy => Busied' \subseteq Busied \ {t}
  BY <1>1 DEF Busied
<1>4. Operations
  BY <1>2, <1>3 DEF Operations
<1>5. \A u \in Threads : PcMoves(u)
  BY <1>1 DEF PcMoves
<1> QED BY <1>4, <1>5 DEF PureStep

LEMMA PureThread ==
  ASSUME ControlInv, Native, NEW t \in Threads, ThreadNext(t)
  PROVE  PureStep
<1>a. TypeOK
  BY DEF ControlInv
<1>0. s \in SessionRecords /\ s.epoch \in Nat
  BY <1>a, TypeFacts DEF SessionRecords
<1>g. \A pc : Goto(t, pc) => th'[t].pc = pc
  BY <1>a, OneThread
<1>p. {"pointers", "second", "end", "kept"} \subseteq Calm
  BY DEF Calm, Pcs, Busy, Resets
<1>q. AfterPointers(t) \in Calm
  BY <1>p DEF AfterPointers
<1>1. ASSUME PointersUp(t) PROVE PureStep
  <2>1. Goto(t, AfterPointers(t)) /\ UNCHANGED <<s, job, auth, log, ran>>
    BY <1>1 DEF PointersUp, device
  <2> QED BY <1>a, <1>q, <2>1, CalmThread
<1>2. ASSUME PointersCall(t) PROVE PureStep
  <2>1. /\ Goto(t, "releasing") /\ UNCHANGED <<s, job, log, ran>>
        /\ auth = "free" /\ auth' = "open"
    BY <1>2 DEF PointersCall, device, MayPrepare, Prepared
  <2>2. PcMoves(t) /\ Injects
    BY <1>g, <2>1 DEF PcMoves, Injects
  <2> QED BY <1>a, <2>1, <2>2, BusyThread
<1>3. ASSUME PointersRefused(t) PROVE PureStep
  <2>1. UNCHANGED <<s, job, auth, log, ran>>
    BY <1>3 DEF PointersRefused, device
  <2>2. Return(t) \/ Goto(t, "kept") \/ Goto(t, "end")
    BY <1>3 DEF PointersRefused
  <2> QED BY <1>a, <1>p, <2>1, <2>2, CalmThread
<1>4. ASSUME PointersReleased(t) PROVE PureStep
  <2>1. Goto(t, AfterPointers(t)) /\ UNCHANGED <<job, log, ran>> /\ auth' = Confirmed /\ t \in Busied
    BY <1>4 DEF PointersReleased, device, Busied, Busy
  <2>2. s'.st = s.st /\ s'.ctl = s.ctl
    BY <1>0, <1>4 DEF PointersReleased, SessionRecords
  <2>3. PcMoves(t) /\ Injects /\ th'[t].pc \notin Busy
    BY <1>g, <1>q, <2>1 DEF PcMoves, Injects, Calm
  <2> QED BY <1>a, <2>1, <2>2, <2>3, BusyThread
<1>5. ASSUME PointersUnknown(t) PROVE PureStep
  <2>1. UNCHANGED <<job, auth, log, ran>>
    BY <1>5 DEF PointersUnknown, device
  <2>2. Return(t) \/ Goto(t, "kept") \/ Goto(t, "end")
    BY <1>5 DEF PointersUnknown
  <2>3. s'.st = "failed" /\ s'.ctl = s.ctl
    BY <1>0, <1>5 DEF PointersUnknown, SessionRecords
  <2> QED BY <1>a, <1>p, <2>1, <2>2, <2>3, CalmThread
<1>6. ASSUME ResetBegin(t) PROVE PureStep
  <2>1. th[t].pc = "reset" /\ UNCHANGED <<job, log, ran>>
    BY <1>6 DEF ResetBegin, device
  <2>2. s' = s \/ s' = [s EXCEPT !.known = FALSE]
    BY <1>6 DEF ResetBegin
  <2>3. s'.st = s.st /\ s'.ctl = s.ctl
    BY <1>0, <2>2 DEF SessionRecords
  <2>4. CASE ~s.down /\ MayPrepare
    <3>1. Goto(t, "resetting") /\ auth = "free" /\ auth' = "open"
      BY <1>6, <2>4 DEF ResetBegin, MayPrepare, Prepared
    <3>2. PcMoves(t) /\ Injects
      BY <1>g, <2>1, <3>1 DEF PcMoves, Injects
    <3> QED BY <1>a, <2>1, <2>3, <3>1, <3>2, BusyThread
  <2>5. CASE ~(~s.down /\ MayPrepare)
    <3>1. Raised(t) /\ auth' = auth
      BY <1>6, <2>5 DEF ResetBegin
    <3> QED BY <1>a, <2>1, <2>3, <3>1, RaisedCalm, CalmThread
  <2> QED BY <2>4, <2>5
<1>7. ASSUME ResetExecute(t) PROVE PureStep
  <2>1. /\ th[t].pc = "resetting" /\ Goto(t, "answered") /\ t \in Busied
        /\ log' = IF t = "replay" THEN <<"replay">> ELSE <<"reset">>
        /\ UNCHANGED <<s, job, auth, ran>>
    BY <1>7 DEF ResetExecute, Busied, Busy
  <2>2. PcMoves(t) /\ Injects
    BY <1>g, <2>1 DEF PcMoves, Injects
  <2> QED BY <1>a, <2>1, <2>2, BusyThread
<1>8. ASSUME ResetConfirmed(t) PROVE PureStep
  <2>1. /\ th[t].pc = "answered" /\ Goto(t, "frame") /\ auth' = Confirmed /\ t \in Busied
        /\ UNCHANGED <<s, job, log, ran>>
    BY <1>8 DEF ResetConfirmed, Busied, Busy, device
  <2>2. PcMoves(t) /\ Injects /\ th'[t].pc \notin Busy
    BY <1>g, <2>1 DEF PcMoves, Injects, Busy
  <2> QED BY <1>a, <2>1, <2>2, BusyThread
<1>9. ASSUME ResetDone(t) PROVE PureStep
  <2>1. th[t].pc = "frame" /\ UNCHANGED <<job, auth, log, ran>>
    BY <1>9 DEF ResetDone, device
  <2>2. s'.st = s.st /\ s'.ctl = s.ctl
    BY <1>0, <1>9 DEF ResetDone, SessionRecords
  <2>3. CASE t # "replay"
    <3>1. Goto(t, "second")
      BY <1>9, <2>3 DEF ResetDone
    <3> QED BY <1>a, <1>p, <2>1, <2>2, <3>1, CalmThread
  <2>4. CASE t = "replay"
    <3>1. Goto(t, "ready")
      BY <1>9, <2>4 DEF ResetDone
    <3>2. \A u \in Threads : u # t => th'[u] = th[u]
      BY <1>a, <3>1, OneThread
    <3>3. \A u \in Threads : PcMoves(u)
      BY <1>g, <2>1, <3>1, <3>2 DEF PcMoves
    <3>4. Inflight' = Inflight /\ Busied' \subseteq Busied
      BY <1>g, <2>1, <3>1, <3>2 DEF Inflight, Busied, Busy
    <3> QED BY <2>1, <2>2, <3>3, <3>4 DEF PureStep, Operations, Injects
  <2> QED BY <2>3, <2>4
<1>10. ASSUME ResetRejected(t) PROVE PureStep
  <2>1. /\ th[t].pc = "resetting" /\ Raised(t) /\ auth' = Confirmed /\ t \in Busied
        /\ UNCHANGED <<s, job, log, ran>>
    BY <1>10 DEF ResetRejected, Busied, Busy, device
  <2>2. th'[t].pc \in Calm /\ (Return(t) \/ \E pc : Goto(t, pc))
    BY <1>a, <1>g, <2>1, RaisedCalm, OneThread DEF NoThread, Calm, Pcs, Busy, Resets
  <2>3. PcMoves(t) /\ Injects /\ th'[t].pc \notin Busy
    BY <2>1, <2>2 DEF PcMoves, Injects, Calm
  <2> QED BY <1>a, <2>1, <2>2, <2>3, BusyThread
<1>11. ASSUME ResetUnknown(t) PROVE PureStep
  <2>1. UNCHANGED <<job, log, ran>> /\ (Return(t) \/ Goto(t, "pointers"))
    BY <1>11 DEF ResetUnknown, device
  <2>2. \/ UNCHANGED <<s, auth>>
        \/ /\ s' = [s EXCEPT !.st = "failed", !.epoch = @ + 1, !.plan = None]
           /\ auth' = "lost"
    BY <1>11 DEF ResetUnknown
  <2>3. /\ s'.st = "active" => s.st = "active"
        /\ s'.ctl = s.ctl
        /\ auth' = auth \/ (auth' = "lost" /\ s'.st # "active")
    BY <1>0, <2>2 DEF SessionRecords
  <2> QED BY <1>a, <1>p, <2>1, <2>3, CalmThread
<1> QED
  BY <1>1, <1>2, <1>3, <1>4, <1>5, <1>6, <1>7, <1>8, <1>9, <1>10, <1>11 DEF ThreadNext

LEMMA PureCaller ==
  ASSUME ControlInv, Native, NEW k \in Callers, CallerNext(k)
  PROVE  PureStep
<1>a. TypeOK
  BY DEF ControlInv
<1>0. /\ s \in SessionRecords /\ s.epoch \in Nat /\ k \in Threads /\ th \in ThreadTables
      /\ "replay" \in Threads /\ k # "replay"
  BY <1>a, TypeFacts, ScriptNames DEF SessionRecords, Threads, Runs
<1>c. {"pointers", "second", "begin", "idle"} \subseteq Calm
  BY DEF Calm, Pcs, Busy, Resets
<1>e. ASSUME NEW x, x.pc \in Calm, th' = [th EXCEPT ![k] = x], UNCHANGED <<s, job, auth, log, ran>>
      PROVE  PureStep
  <2>1. \A u \in Threads : th'[u].pc = th[u].pc \/ th'[u].pc \in Calm
    BY <1>0, <1>e DEF ThreadTables
  <2> QED BY <1>a, <1>e, <2>1, CalmStep
<1>1. ASSUME NEW c \in Clients, ClaimBegin(k, c) \/ StopBegin(k, c) \/ ReplayBegin(k, c) PROVE PureStep
  <2>1. UNCHANGED <<s, job, auth, log, ran>>
    BY <1>1 DEF ClaimBegin, StopBegin, ReplayBegin, device
  <2>2. PICK x : x.pc = "pointers" /\ th' = [th EXCEPT ![k] = x]
    BY <1>1 DEF ClaimBegin, StopBegin, ReplayBegin, Enter
  <2> QED BY <1>c, <1>e, <2>1, <2>2
<1>2. ASSUME NEW c \in Clients, NEW reset \in BOOLEAN, RecordBegin(k, c, reset) PROVE PureStep
  <2>1. UNCHANGED <<s, job, auth, log, ran>>
    BY <1>2 DEF RecordBegin, device
  <2>2. CASE ~reset
    <3>1. PICK x : x.pc = "second" /\ th' = [th EXCEPT ![k] = x]
      BY <1>2, <2>2 DEF RecordBegin, Enter
    <3> QED BY <1>c, <1>e, <2>1, <3>1
  <2>3. CASE reset
    <3>1. PICK x : x.pc = "reset" /\ th' = [th EXCEPT ![k] = x]
      BY <1>2, <2>3 DEF RecordBegin, Enter
    <3>2. th'[k].pc = "reset" /\ \A u \in Threads : u # k => th'[u] = th[u]
      BY <1>0, <3>1 DEF ThreadTables
    <3>3. \A u \in Threads : PcMoves(u)
      BY <3>2 DEF PcMoves
    <3>4. Inflight' = Inflight /\ Busied' \subseteq Busied
      BY <2>1, <3>2 DEF Inflight, Busied, Busy
    <3> QED BY <2>1, <3>3, <3>4 DEF PureStep, Operations, Injects
  <2> QED BY <2>2, <2>3
<1>3. ASSUME NEW r \in Recordings, RecordEnd(k, r) PROVE PureStep
  <2>1. UNCHANGED <<job, auth, log, ran>> /\ Return(k)
    BY <1>3 DEF RecordEnd, device
  <2>2. s' = s \/ s' = [s EXCEPT !.rid = r, !.geo = FALSE]
    BY <1>3 DEF RecordEnd
  <2>3. s'.st = s.st /\ s'.ctl = s.ctl
    BY <1>0, <2>2 DEF SessionRecords
  <2> QED BY <1>a, <1>0, <2>1, <2>3, CalmThread
<1>4. ASSUME StopEnd(k) PROVE PureStep
  <2>1. UNCHANGED <<job, auth, log, ran>> /\ Return(k)
    BY <1>4 DEF StopEnd, device
  <2>2. s' = s \/ s' = [s EXCEPT !.geo = FALSE]
    BY <1>4 DEF StopEnd
  <2>3. s'.st = s.st /\ s'.ctl = s.ctl
    BY <1>0, <2>2 DEF SessionRecords
  <2> QED BY <1>a, <1>0, <2>1, <2>3, CalmThread
<1>5. ASSUME ClaimEnd(k) PROVE PureStep
  <2>1. UNCHANGED <<job, auth, log, ran>> /\ Return(k)
    BY <1>5 DEF ClaimEnd, device
  <2>2. s' = s \/ s' = [s EXCEPT !.ctl = th[k].ctl, !.epoch = @ + 1, !.seq = 0,
                                 !.mode = "manual", !.plan = None]
    BY <1>5 DEF ClaimEnd
  <2>3. s'.st = s.st /\ (s'.ctl = s.ctl \/ s'.epoch = s.epoch + 1)
    BY <1>0, <2>2 DEF SessionRecords
  <2> QED BY <1>a, <1>0, <2>1, <2>3, CalmThread
<1>6. ASSUME ReplayStart(k) PROVE PureStep
  <2>1. UNCHANGED <<job, auth, log, ran>>
    BY <1>6 DEF ReplayStart, device
  <2>2. CASE Control(th[k].ctl, th[k].epoch) /\ run["replay"].st = "none"
    <3>1. PICK x : /\ x.pc = "begin"
                   /\ th' = [th EXCEPT ![k] = NoThread, !["replay"] = x]
      BY <1>6, <2>2 DEF ReplayStart
    <3>2. s' = [s EXCEPT !.ctl = "replay", !.epoch = @ + 1, !.seq = 0,
                         !.mode = "replay", !.event = "replay"]
      BY <1>6, <2>2 DEF ReplayStart
    <3>3. s'.st = s.st /\ s'.epoch = s.epoch + 1
      BY <1>0, <3>2 DEF SessionRecords
    <3>4. \A u \in Threads : th'[u].pc = th[u].pc \/ th'[u].pc \in Calm
      <4>1. NoThread.pc = "idle"
        BY DEF NoThread
      <4> HIDE DEF NoThread
      <4> QED BY <1>0, <1>c, <3>1, <4>1 DEF ThreadTables
    <3> QED BY <1>a, <1>0, <2>1, <3>3, <3>4, CalmStep
  <2>3. CASE ~(Control(th[k].ctl, th[k].epoch) /\ run["replay"].st = "none")
    <3>1. Return(k) /\ s' = s
      BY <1>6, <2>3 DEF ReplayStart
    <3> QED BY <1>a, <1>0, <2>1, <3>1, CalmThread
  <2> QED BY <2>2, <2>3
<1> QED
  BY <1>1, <1>2, <1>3, <1>4, <1>5, <1>6 DEF CallerNext

LEMMA PureRun ==
  ASSUME ControlInv, Native, NEW t \in Runs, RunSteps(t)
  PROVE  PureStep
<1>a. TypeOK
  BY DEF ControlInv
<1>0. /\ s \in SessionRecords /\ s.epoch \in Nat /\ t \in Threads /\ th \in ThreadTables
      /\ job \in [AllCmds -> {"no", "admitted", "executed"}]
  BY <1>a, TypeFacts, ScriptNames DEF SessionRecords, TypeOK
<1>c. {"pointers", "next", "input", "wait"} \subseteq Calm
  BY DEF Calm, Pcs, Busy, Resets
<1>1. ASSUME RunNext(t) \/ RunComplete(t) PROVE PureStep
  <2>1. UNCHANGED <<s, job, auth, log, ran>>
    BY <1>1 DEF RunNext, RunComplete, device
  <2>2. Return(t) \/ \E pc \in Calm : Goto(t, pc)
    BY <1>0, <1>c, <1>1, RaisedCalm DEF RunNext, RunComplete
  <2> QED BY <1>a, <1>0, <2>1, <2>2, CalmThread
<1>2. ASSUME RunAdmit(t) PROVE PureStep
  <2> DEFINE c == Script(t)[th[t].n]
  <2>1. UNCHANGED <<log, ran>> /\ (Return(t) \/ \E pc \in Calm : Goto(t, pc))
    BY <1>0, <1>c, <1>2, RaisedCalm DEF RunAdmit, device
  <2>2. s' = s \/ s' = [s EXCEPT !.known = FALSE, !.plan = None, !.seq = cmd[c].seq]
    BY <1>2 DEF RunAdmit, Admission
  <2>3. s'.st = s.st /\ s'.ctl = s.ctl
    BY <1>0, <2>2 DEF SessionRecords
  <2>4. CASE Accepted(c, cmd[c]) /\ MayPrepare
    <3>1. job' = [job EXCEPT ![c] = "admitted"] /\ auth = "free" /\ auth' = "open"
      BY <1>2, <2>4 DEF RunAdmit, Admission, MayPrepare, Prepared
    <3>2. \A u \in Threads : th'[u].pc = th[u].pc \/ th'[u].pc \in Calm
      BY <1>a, <1>0, <2>1, OneThread DEF NoThread, Calm, Pcs, Busy, Resets
    <3>3. Inflight' \subseteq Inflight \cup {c} /\ Busied' \subseteq Busied
      BY <1>0, <3>1, <3>2 DEF Inflight, Busied, Calm
    <3>4. Operations
      BY <2>3, <3>1, <3>3 DEF Operations
    <3> QED BY <2>1, <2>3, <3>2, <3>4 DEF PureStep, Injects, PcMoves
  <2>5. CASE ~(Accepted(c, cmd[c]) /\ MayPrepare)
    <3>1. UNCHANGED <<job, auth>>
      BY <1>2, <2>5 DEF RunAdmit, Admission
    <3> QED BY <1>a, <1>0, <2>1, <2>3, <3>1, CalmThread
  <2> QED BY <2>4, <2>5
<1>3. ASSUME RunAnswered(t) PROVE PureStep
  <2>1. UNCHANGED <<s, job, auth, log, ran>>
    BY <1>3 DEF RunAnswered, device
  <2>2. CASE th' = [th EXCEPT ![t].pc = "next", ![t].n = @ + 1]
    <3>1. \A u \in Threads : th'[u].pc = th[u].pc \/ th'[u].pc = "next"
      BY <1>0, <2>2 DEF ThreadTables, ThreadRecords
    <3> QED BY <1>a, <1>c, <2>1, <3>1, CalmStep
  <2>3. CASE Raised(t)
    BY <1>a, <1>0, <2>1, <2>3, RaisedCalm, CalmThread
  <2> QED BY <1>3, <2>2, <2>3 DEF RunAnswered
<1>4. ASSUME RunEnd(t) PROVE PureStep
  <2>1. UNCHANGED <<job, auth, log, ran>> /\ Return(t)
    BY <1>4 DEF RunEnd, device
  <2>2. s' = s \/ s' = [s EXCEPT !.ctl = run[t].back, !.epoch = @ + 1, !.seq = 0,
                                 !.mode = "manual", !.known = @ /\ t = "replay"]
    BY <1>4 DEF RunEnd
  <2>3. s'.st = s.st /\ (s'.ctl = s.ctl \/ s'.epoch = s.epoch + 1)
    BY <1>0, <2>2 DEF SessionRecords
  <2> QED BY <1>a, <1>0, <2>1, <2>3, CalmThread
<1> QED
  BY <1>1, <1>2, <1>3, <1>4 DEF RunSteps

LEMMA PureOthers ==
  ASSUME ControlInv, Native, OtherNext
  PROVE  PureStep
<1>a. TypeOK
  BY DEF ControlInv
<1>0. /\ s \in SessionRecords /\ s.epoch \in Nat /\ th \in ThreadTables
      /\ "replay" \in Threads /\ "playback" \in Threads /\ "timer" \in Threads
  BY <1>a, TypeFacts DEF SessionRecords, Threads
<1>c. {"pointers", "next"} \subseteq Calm
  BY DEF Calm, Pcs, Busy, Resets
<1>q. ASSUME th' = th, UNCHANGED <<job, log, ran>>, s'.st = s.st \/ s'.st # "active",
             auth' = auth \/ (auth' = "lost" /\ s'.st # "active"),
             s'.ctl = s.ctl \/ s'.epoch = s.epoch + 1
      PROVE  PureStep
  BY <1>a, <1>0, <1>q, CalmStep
<1>1. ASSUME ReplayCheck PROVE PureStep
  <2>1. UNCHANGED <<s, job, auth, log, ran>>
    BY <1>1 DEF ReplayCheck, device
  <2>2. CASE Goto("replay", "reset")
    <3>1. th'["replay"].pc = "reset" /\ \A u \in Threads : u # "replay" => th'[u] = th[u]
      BY <1>a, <1>0, <2>2, OneThread
    <3>2. \A u \in Threads : PcMoves(u)
      BY <3>1 DEF PcMoves
    <3>3. Inflight' = Inflight /\ Busied' \subseteq Busied
      BY <2>1, <3>1 DEF Inflight, Busied, Busy
    <3> QED BY <2>1, <3>2, <3>3 DEF PureStep, Operations, Injects
  <2>3. CASE Goto("replay", "next") \/ Raised("replay")
    BY <1>a, <1>0, <1>c, <2>1, <2>3, RaisedCalm, CalmThread
  <2> QED BY <1>1, <2>2, <2>3 DEF ReplayCheck
<1>2. ASSUME CancelReplay PROVE PureStep
  BY <1>q, <1>2 DEF CancelReplay, device
<1>3. ASSUME NEW c \in Clients, Plan(c) PROVE PureStep
  <2>1. s'.st = s.st /\ s'.ctl = s.ctl
    BY <1>0, <1>3 DEF Plan, SessionRecords
  <2> QED BY <1>q, <1>3, <2>1 DEF Plan, device
<1>4. ASSUME NEW c \in Clients, ConfirmPlayback(c) PROVE PureStep
  <2>1. UNCHANGED <<job, auth, log, ran>>
    BY <1>4 DEF ConfirmPlayback, device
  <2>2. \/ s' = [s EXCEPT !.plan = None]
        \/ s' = [s EXCEPT !.plan = None, !.known = FALSE, !.epoch = @ + 1,
                          !.ctl = "playback", !.seq = 0, !.mode = "playback",
                          !.event = "playback"]
    BY <1>4 DEF ConfirmPlayback
  <2>3. s'.st = s.st /\ (s'.ctl = s.ctl \/ s'.epoch = s.epoch + 1)
    BY <1>0, <2>2 DEF SessionRecords
  <2>4. th' = th \/ \E x : x.pc = "next" /\ th' = [th EXCEPT !["playback"] = x]
    BY <1>4 DEF ConfirmPlayback
  <2>5. \A u \in Threads : th'[u].pc = th[u].pc \/ th'[u].pc \in Calm
    BY <1>0, <1>c, <2>4 DEF ThreadTables
  <2> QED BY <1>a, <1>0, <2>1, <2>3, <2>5, CalmStep
<1>5. ASSUME CancelPlayback \/ GeometryChange \/ CloseStop PROVE PureStep
  <2>1. s'.st = s.st /\ s'.ctl = s.ctl
    BY <1>0, <1>5 DEF CancelPlayback, GeometryChange, CloseStop, SessionRecords
  <2> QED BY <1>q, <1>5, <2>1 DEF CancelPlayback, GeometryChange, CloseStop, device
<1>6. ASSUME TimeoutBegin PROVE PureStep
  <2>1. UNCHANGED <<s, job, auth, log, ran>>
    BY <1>6 DEF TimeoutBegin, device
  <2>2. PICK x : x.pc = "pointers" /\ th' = [th EXCEPT !["timer"] = x]
    BY <1>6 DEF TimeoutBegin, NoThread
  <2>3. \A u \in Threads : th'[u].pc = th[u].pc \/ th'[u].pc \in Calm
    BY <1>0, <1>c, <2>2 DEF ThreadTables
  <2> QED BY <1>a, <2>1, <2>3, CalmStep
<1>7. ASSUME TimeoutEnd PROVE PureStep
  <2>1. UNCHANGED <<job, auth, log, ran>> /\ Return("timer")
    BY <1>7 DEF TimeoutEnd, device
  <2>2. s'.st = s.st /\ s'.ctl = s.ctl
    BY <1>0, <1>7 DEF TimeoutEnd, SessionRecords
  <2> QED BY <1>a, <1>0, <2>1, <2>2, CalmThread
<1>8. ASSUME Fail \/ CloseDrain PROVE PureStep
  <2>1. s'.st # "active" /\ s'.ctl = s.ctl
    BY <1>0, <1>8 DEF Fail, FailSession, CloseDrain, SessionRecords
  <2>2. th' = th /\ UNCHANGED <<job, log, ran>> /\ (auth' = auth \/ auth' = "lost")
    BY <1>8 DEF Fail, CloseDrain, device
  <2> QED BY <1>q, <2>1, <2>2
<1> QED
  BY <1>1, <1>2, <1>3, <1>4, <1>5, <1>6, <1>7, <1>8 DEF OtherNext, PlaybackNext

LEMMA PureSteps == ControlInv /\ Native /\ Next => PureStep
<1> SUFFICES ASSUME ControlInv, Native, Next PROVE PureStep
  OBVIOUS
<1>1. \/ \E c \in AllCmds : InputNext(c)
      \/ \E k \in Callers : CallerNext(k)
      \/ \E t \in Threads : ThreadNext(t)
      \/ \E t \in Runs : RunSteps(t)
      \/ OtherNext
  BY DEF Next, Runs, OtherNext
<1> QED BY <1>1, PureInput, PureCaller, PureThread, PureRun, PureOthers

LEMMA PureInit == Init => PureInv
<1> SUFFICES ASSUME Init PROVE PureInv
  OBVIOUS
<1>1. \A t \in Threads : th[t].pc = "idle"
  BY DEF Init, NoThread
<1>2. Inflight = {} /\ Busied = {}
  BY <1>1 DEF Init, Inflight, Busied, Busy
<1>3. OneOutstanding
  BY <1>2 DEF Init, OneOutstanding
<1>4. th["replay"].pc = "idle"
  BY <1>1 DEF Threads
<1> QED BY <1>1, <1>3, <1>4 DEF PureInv, ReplayLog, Resets

LEMMA OutstandingStep ==
  ASSUME OneOutstanding, Operations
  PROVE  OneOutstanding'
<1>1. CASE /\ Inflight' \subseteq Inflight /\ Busied' \subseteq Busied
           /\ auth' = auth \/ (auth' = "lost" /\ s'.st # "active")
  BY <1>1 DEF OneOutstanding, Operations
<1>2. CASE auth = "free" /\ auth' = "open"
  BY <1>2 DEF OneOutstanding, Operations
<1>3. CASE auth' \in {auth, Confirmed} /\ Inflight' = {} /\ Busied' = {}
  BY <1>3 DEF OneOutstanding, Operations, Confirmed
<1>4. ASSUME NEW c \in Inflight, Inflight' \subseteq Inflight \ {c}, Busied' \subseteq Busied
      PROVE  Inflight' = {} /\ Busied' = {}
  BY <1>4 DEF OneOutstanding
<1>5. ASSUME NEW t \in Busied, Busied' \subseteq Busied \ {t}, Inflight' \subseteq Inflight
      PROVE  Inflight' = {} /\ Busied' = {}
  BY <1>5 DEF OneOutstanding
<1> QED BY <1>1, <1>2, <1>3, <1>4, <1>5 DEF Operations

\* A replay that has control has had it since its last step.
LEMMA MineStep ==
  ASSUME ControlInv, TypeOK', Step, PureStep, Alive("replay"), Mine',
         th'["replay"].epoch = th["replay"].epoch
  PROVE  Mine
<1>0. TypeOK /\ RunPhase("replay") /\ "replay" \in Runs
  BY DEF ControlInv, Runs
<1>1. th["replay"].epoch <= s.epoch /\ s.epoch <= s'.epoch /\ s'.epoch = th["replay"].epoch
  BY <1>0, StepNumbers DEF RunPhase, Mine
<1>2. th["replay"].epoch \in Nat /\ s.epoch \in Nat /\ s'.epoch \in Nat
  BY <1>0, StepNumbers
<1>3. s.epoch = s'.epoch /\ s.epoch = th["replay"].epoch
  BY <1>1, <1>2
<1> QED BY <1>3 DEF PureStep, Mine

\* Only the replay sends commands while it has control.
LEMMA InflightStep ==
  ASSUME ControlInv, Step, Mine, th["replay"].pc # "input" \/ th'["replay"].pc # "wait"
  PROVE  Inflight' \subseteq Inflight
<1>1. ASSUME NEW c \in AllCmds, job'[c] # "no", job[c] = "no" PROVE FALSE
  <2>1. (\E t \in Runs : ByRun(t, c)) \/ ByClient(c)
    BY <1>1, CommandEffects DEF Step, Settled, Worded
  <2>2. cmd'[c].ctl = "replay"
    BY <2>1 DEF ByRun, ByClient, Admitted, Accepted, Control, Mine
  <2>3. PICK t \in Runs : ByRun(t, c)
    BY <2>1, <2>2, ScriptNames DEF ByClient, Runs
  <2>4. cmd[c] = [ctl |-> t, epoch |-> th[t].epoch, seq |-> th[t].n, act |-> "tap"]
    BY <2>3 DEF ByRun, ControlInv, RunPhase
  <2>5. cmd[c].ctl = t
    BY <2>4
  <2> QED BY <2>2, <2>3, <2>5 DEF ByRun
<1> QED BY <1>1 DEF Inflight

\* The device executes no command while none is outstanding, but a caller may
\* reset it.
LEMMA LogKept ==
  ASSUME PureInv, PureStep, th["replay"].pc # "resetting",
         ~\E c \in Inflight : Execute(c)
  PROVE  (log' = log \/ log' = <<"reset">>) /\ ran' = ran
<1>1. \A c \in AllCmds : Execute(c) => c \in Inflight
  BY DEF Execute, Inflight
<1> QED BY <1>1 DEF PureStep, Injects

\* After the reset of a caller the rest of the replay is what comes.
LEMMA ReplaysKept ==
  ASSUME log' = log \/ log' = <<"reset">>, NEW n \in Nat, Replays(log, n)
  PROVE  Replays(log', n)
<1>1. CASE log' = <<"reset">>
  <2>1. 0 \in 0 .. n /\ Len(log') = 0 + 1 /\ log'[1] = "reset" /\ 1 .. 0 = {}
    BY <1>1
  <2> QED BY <2>1 DEF Replays
<1>2. CASE log' = log
  BY <1>2 DEF Replays
<1> QED BY <1>1, <1>2

\* The reset of the replay.
LEMMA ReplaysReset ==
  ASSUME NEW q, q = <<"replay">>
  PROVE  Replays(q, 0)
<1>1. 0 \in 0 .. 0 /\ Len(q) = 0 + 1 /\ q[1] = "replay" /\ 1 .. 0 = {}
  OBVIOUS
<1> QED BY <1>1 DEF Replays

\* One more action of the replay.
LEMMA LogAppend ==
  ASSUME TypeOK, NEW n \in Nat, n >= 1, Replays(log, n - 1), NEW c, c = Replayed[n], log' = Append(log, c)
  PROVE  Replays(log', n) /\ Len(log') >= 2
<1>0. log \in Seq(AllCmds \cup {"reset", "replay"})
  BY DEF TypeOK
<1>1. PICK m \in 0 .. n - 1 :
        /\ Len(log) = m + 1
        /\ log[1] = "reset" \/ (log[1] = "replay" /\ m = n - 1)
        /\ \A i \in 1 .. m : log[i + 1] = Replayed[n - 1 - m + i]
  BY DEF Replays
<1>2. m + 1 \in 0 .. n /\ m \in Nat
  BY <1>1
<1>3. /\ Len(log') = (m + 1) + 1 /\ log'[m + 2] = c
      /\ \A i \in 1 .. m + 1 : log'[i] = log[i]
  BY <1>0, <1>1, <1>2
<1>4. log'[1] = "reset" \/ (log'[1] = "replay" /\ m + 1 = n)
  BY <1>1, <1>2, <1>3
<1>5. ASSUME NEW i \in 1 .. m + 1 PROVE log'[i + 1] = Replayed[n - (m + 1) + i]
  <2>1. CASE i = m + 1
    <3>1. i + 1 = m + 2 /\ n - (m + 1) + i = n
      BY <1>2, <2>1
    <3> QED BY <1>3, <3>1
  <2>2. CASE i # m + 1
    <3>1. i \in 1 .. m /\ i + 1 \in 1 .. m + 1 /\ n - (m + 1) + i = n - 1 - m + i
      BY <1>2, <2>2
    <3> QED BY <1>1, <1>3, <3>1
  <2> QED BY <2>1, <2>2
<1> QED BY <1>2, <1>3, <1>4, <1>5 DEF Replays

LEMMA ReplayLogStep ==
  ASSUME ControlInv, TypeOK', \A c \in AllCmds : Once(c)', Step, PureInv, PureStep
  PROVE  ReplayLog'
<1> DEFINE t == "replay"
<1>0. /\ TypeOK /\ RunPhase(t) /\ RunMoves(t) /\ t \in Runs /\ t \in Threads
      /\ Script(t) = Replayed /\ OneOutstanding /\ ReplayLog /\ PcMoves(t)
  BY DEF ControlInv, Step, Runs, Script, PureInv, PureStep, Threads
<1>n. th[t].n \in Nat /\ (th[t].pc \in {"ready", "next", "input"} => th[t].n - 1 \in Nat)
  BY <1>0, StepNumbers DEF RunPhase, Alive
<1>l. ASSUME th[t].pc # "resetting", Inflight = {}, NEW n \in Nat, Replays(log, n)
      PROVE  Replays(log', n)
  BY <1>l, LogKept, ReplaysKept
<1>b. ASSUME th[t].pc \in Busy PROVE Inflight = {}
  BY <1>0, <1>b DEF OneOutstanding, Busied
<1>m. ASSUME Alive(t), Mine', th'[t].epoch = th[t].epoch PROVE Mine
  BY <1>m, MineStep
<1>i. ASSUME Mine, Inflight = {}, th[t].pc # "input" \/ th'[t].pc # "wait" PROVE Inflight' = {}
  BY <1>i, InflightStep
<1>e. th'[t].pc \in {"answered", "frame", "ready", "next", "input", "wait"} =>
        \/ th'[t] = th[t] \/ Moves(t)
        \/ th[t].pc = "wait" /\ th'[t].pc = "next"
  BY <1>0 DEF RunMoves, Starts, NoThread
<1>1. ASSUME th'[t].pc = "answered" PROVE Replays(log', 0)
  <2>1. CASE th[t].pc = "answered"
    <3>1. Replays(log, 0) /\ Inflight = {}
      BY <1>0, <1>b, <2>1 DEF ReplayLog, Busy
    <3> QED BY <1>l, <2>1, <3>1
  <2>2. CASE th[t].pc # "answered"
    <3>1. log' = <<"replay">>
      BY <1>0, <1>1, <2>2 DEF PcMoves, Calm, Busy, Resets
    <3> QED BY <3>1, ReplaysReset
  <2> QED BY <2>1, <2>2
<1>2. ASSUME th'[t].pc \in {"frame", "ready"}, Mine' PROVE Replays(log', 0) /\ Inflight' = {}
  <2>1. Alive(t) /\ th'[t].epoch = th[t].epoch
    BY <1>e, <1>2 DEF Moves, Alive
  <2>2. Mine /\ th[t].pc \in {"answered", "frame", "ready"}
    BY <1>0, <1>m, <1>2, <2>1 DEF PcMoves, Calm, Busy, Resets
  <2>3. Replays(log, 0) /\ Inflight = {}
    BY <1>0, <1>b, <2>2 DEF ReplayLog, Busy
  <2> QED BY <1>l, <1>i, <2>2, <2>3
<1>3. ASSUME th'[t].pc \in {"next", "input"}, Mine' PROVE Replays(log', th'[t].n - 1) /\ Inflight' = {}
  <2>1. CASE th'[t] = th[t]
    <3>1. Mine /\ Replays(log, th[t].n - 1) /\ Inflight = {}
      BY <1>0, <1>m, <1>3, <2>1 DEF ReplayLog, Alive
    <3>2. Replays(log', th[t].n - 1) /\ Inflight' = {}
      BY <1>n, <1>l, <1>i, <1>3, <2>1, <3>1
    <3> QED BY <2>1, <3>2
  <2>2. CASE Moves(t)
    <3>1. Mine /\ th'[t].n = th[t].n
      BY <1>m, <1>3, <2>2 DEF Moves
    <3>2. th[t].pc \in {"ready", "next"}
      BY <1>3, <2>2 DEF Moves, Final, Opening, RunNext
    <3>3. Replays(log, th[t].n - 1) /\ Inflight = {}
      <4>1. CASE th[t].pc = "ready"
        <5>1. th[t].n = 1 /\ Replays(log, 0) /\ Inflight = {}
          BY <1>0, <3>1, <4>1 DEF ReplayLog, RunPhase, Opening
        <5>2. th[t].n - 1 = 0
          BY <5>1
        <5> QED BY <5>1, <5>2
      <4>2. CASE th[t].pc = "next"
        BY <1>0, <3>1, <4>2 DEF ReplayLog
      <4> QED BY <3>2, <4>1, <4>2
    <3>4. Replays(log', th[t].n - 1) /\ Inflight' = {}
      BY <1>n, <1>l, <1>i, <3>1, <3>2, <3>3
    <3> QED BY <3>1, <3>4
  <2>3. CASE ~Moves(t) /\ th'[t] # th[t]
    <3>1. /\ th[t].pc = "wait" /\ th'[t].n = th[t].n + 1 /\ th'[t].epoch = th[t].epoch
          /\ job[Replayed[th[t].n]] = "no" /\ Replayed[th[t].n] \in ran
          /\ UNCHANGED <<job, log>>
      BY <1>0, <1>3, <2>3 DEF RunMoves, Starts, NoThread
    <3>2. Mine
      BY <1>m, <1>3, <3>1 DEF Alive
    <3>3. Replays(log, th[t].n) /\ Inflight \subseteq {Replayed[th[t].n]}
      BY <1>0, <3>1, <3>2 DEF ReplayLog
    <3>4. Inflight = {} /\ Inflight' = Inflight
      BY <3>1, <3>3 DEF Inflight
    <3>5. th'[t].n - 1 = th[t].n
      BY <1>n, <3>1
    <3> QED BY <3>1, <3>3, <3>4, <3>5
  <2> QED BY <2>1, <2>2, <2>3
<1>4. ASSUME th'[t].pc = "wait"
      PROVE  /\ job'[Replayed[th'[t].n]] = "admitted" => Replays(log', th'[t].n - 1)
             /\ Replayed[th'[t].n] \in ran' /\ Mine' =>
                   Replays(log', th'[t].n) /\ Inflight' \subseteq {Replayed[th'[t].n]}
  <2>1. CASE th'[t] = th[t]
    <3> DEFINE c == Replayed[th[t].n]
    <3>1. /\ th[t].pc = "wait" /\ th[t].n >= 1 /\ th[t].n \in 1 .. Len(Replayed)
          /\ cmd[c] = [ctl |-> t, epoch |-> th[t].epoch, seq |-> th[t].n, act |-> "tap"]
      BY <1>0, <1>4, <1>n, <2>1, ScriptNames DEF RunPhase, Alive
    <3>2. c \in AllCmds /\ c \notin Cmds /\ Once(c)
      BY <1>0, <3>1, ScriptNames DEF ControlInv
    <3>3. cmd[c].act = "tap"
      BY <3>1
    <3> HIDE DEF c
    <3>4. ASSUME job'[c] = "admitted" PROVE Replays(log', th[t].n - 1)
      <4>1. job[c] = "admitted"
        <5>1. Settled(c) \/ \E x \in Runs : Worded(x, c) \/ ByRun(x, c)
          BY <3>2, CommandEffects DEF Step, ByClient
        <5>2. ASSUME NEW x \in Runs, ByRun(x, c) PROVE FALSE
          <6>1. th[x].n \in 1 .. Len(Script(x)) /\ c = Script(x)[th[x].n] /\ th[x].pc = "input"
            BY <5>2 DEF ByRun
          <6>2. x = t
            BY <1>0, <3>1, <6>1, ScriptNames DEF Runs, Script, c
          <6> QED BY <3>1, <6>1, <6>2
        <5> QED BY <3>4, <5>1, <5>2 DEF Settled, Worded
      <4>2. Replays(log, th[t].n - 1) /\ c \in Inflight
        BY <1>0, <3>1, <3>2, <4>1 DEF ReplayLog, Inflight, c
      <4>3. ASSUME NEW d \in Inflight, Execute(d) PROVE FALSE
        <5>1. d = c
          BY <1>0, <4>2, <4>3 DEF OneOutstanding
        <5>2. job'[c] = "executed"
          BY <1>0, <3>2, <4>3, <5>1 DEF Execute, TypeOK
        <5> QED BY <3>4, <5>2
      <4>4. log' = log \/ log' = <<"reset">>
        BY <3>1, <4>3, LogKept
      <4>5. th[t].n - 1 \in Nat
        BY <1>n, <3>1
      <4> QED BY <4>2, <4>4, <4>5, ReplaysKept
    <3>5. ASSUME c \in ran', Mine' PROVE Replays(log', th[t].n) /\ Inflight' \subseteq {c}
      <4>1. Mine
        BY <1>m, <2>1, <3>1, <3>5 DEF Alive
      <4>2. Inflight' \subseteq Inflight
        BY <3>1, <4>1, InflightStep
      <4>3. CASE c \in ran
        <5>1. Replays(log, th[t].n) /\ Inflight \subseteq {c}
          BY <1>0, <3>1, <4>1, <4>3 DEF ReplayLog, c
        <5>2. ASSUME NEW d \in Inflight, Execute(d) PROVE FALSE
          BY <3>2, <4>3, <5>1, <5>2 DEF Execute, Once
        <5>3. Replays(log', th[t].n)
          BY <1>n, <3>1, <5>1, <5>2, LogKept, ReplaysKept
        <5> QED BY <4>2, <5>1, <5>3
      <4>4. CASE c \notin ran
        <5>1. PICK d \in Inflight : Execute(d)
          BY <3>1, <3>5, <4>4, LogKept
        <5>2. d = c
          BY <3>5, <4>4, <5>1 DEF Execute
        <5>3. job[c] = "admitted" /\ log' = Append(log, c)
          BY <3>3, <5>1, <5>2 DEF Execute
        <5>4. Replays(log, th[t].n - 1)
          BY <1>0, <3>1, <5>3 DEF ReplayLog, c
        <5>5. Replays(log', th[t].n)
          BY <1>0, <1>n, <2>1, <3>1, <5>3, <5>4, LogAppend DEF c
        <5>6. Inflight \subseteq {c}
          BY <1>0, <5>1, <5>2 DEF OneOutstanding
        <5> QED BY <4>2, <5>5, <5>6
      <4> QED BY <4>3, <4>4
    <3> QED BY <2>1, <3>4, <3>5 DEF c
  <2>2. CASE Moves(t) /\ th'[t] # th[t]
    <3> DEFINE c == Replayed[th[t].n]
    <3>1. RunAdmit(t) /\ th'[t].n = th[t].n /\ th[t].pc = "input"
      BY <1>4, <2>2 DEF Moves, Final, Opening, RunAdmit
    <3>2. /\ th[t].n >= 1 /\ th[t].n \in 1 .. Len(Replayed)
          /\ cmd[c] = [ctl |-> t, epoch |-> th[t].epoch, seq |-> th[t].n, act |-> "tap"]
      BY <1>0, <1>n, <3>1, ScriptNames DEF RunPhase, Alive
    <3>3. c \in AllCmds
      BY <1>0, <3>2, ScriptNames
    <3>4. ~Raised(t)
      BY <1>0, <1>4, OneThread DEF Raised
    <3>5. Accepted(c, cmd[c]) /\ MayPrepare
      BY <1>0, <3>1, <3>4 DEF RunAdmit
    <3>6. job' = [job EXCEPT ![c] = "admitted"] /\ log' = log
      BY <1>0, <3>1, <3>5 DEF RunAdmit, Admission, device
    <3>7. job'[c] = "admitted"
      BY <1>0, <3>3, <3>6 DEF TypeOK
    <3>8. c \notin ran'
      BY <3>3, <3>7 DEF Once
    <3>9. Mine
      BY <3>2, <3>5 DEF Accepted, Control, Mine
    <3>10. Replays(log, th[t].n - 1)
      BY <1>0, <3>1, <3>9 DEF ReplayLog
    <3> QED BY <3>1, <3>6, <3>8, <3>10
  <2> QED BY <1>e, <1>4, <2>1, <2>2
<1> QED BY <1>1, <1>2, <1>3, <1>4 DEF ReplayLog

LEMMA PureInvStep ==
  ASSUME ControlInv, Native, PureInv, [Next]_vars
  PROVE  PureInv'
<1>1. CASE UNCHANGED vars
  BY <1>1 DEF vars, PureInv, OneOutstanding, ReplayLog, Mine, Inflight, Busied
<1>2. CASE Next
  <2>1. TypeOK' /\ PureStep
    BY <1>2, TypeStep, PureSteps
  <2>2. CASE UNCHANGED vars
    BY <1>1, <2>2
  <2>3. CASE Step
    <3>1. ReplayLog'
      BY <2>1, <2>3, OnceStep, ReplayLogStep
    <3>2. OneOutstanding'
      BY <2>1, OutstandingStep DEF PureInv, PureStep
    <3> QED BY <3>1, <3>2 DEF PureInv
  <2> QED BY <1>2, <2>2, <2>3, StepClasses
<1> QED BY <1>1, <1>2

\* A sequence of one element and the actions of a replay from some place on is
\* that element followed by those actions.
LEMMA RestOfReplay ==
  ASSUME NEW q \in Seq(AllCmds \cup {"reset", "replay"}), NEW m \in 1 .. Len(Replayed),
         Len(q) = m + 1, \A i \in 1 .. m : q[i + 1] = Replayed[Len(Replayed) - m + i]
  PROVE  q = <<q[1]>> \o SubSeq(Replayed, Len(Replayed) - m + 1, Len(Replayed))
<1> DEFINE n == Len(Replayed)
           p == SubSeq(Replayed, n - m + 1, n)
           w == <<q[1]>> \o p
           S == AllCmds \cup {"reset", "replay"}
<1>1. Replayed \in Seq(S) /\ n \in Nat
  <2>1. Elements(Replayed) \subseteq AllCmds /\ Replayed \in Seq(Elements(Replayed))
    BY NamesAssumption DEF AllCmds
  <2> QED BY <2>1
<1>2. m \in Nat /\ m >= 1 /\ m <= n /\ n - m + 1 \in 1 .. n
  BY <1>1
<1>3. p \in Seq(S) /\ Len(p) = m /\ \A i \in 1 .. m : p[i] = Replayed[n - m + i]
  <2>1. \A i \in (n - m + 1) .. n : Replayed[i] \in S
    BY <1>1, <1>2
  <2>2. Len(p) = m
    BY <1>1, <1>2
  <2>3. ASSUME NEW i \in 1 .. m PROVE p[i] = Replayed[n - m + i]
    <3>1. p[i] = Replayed[(n - m + 1) + i - 1]
      BY <1>1, <1>2
    <3>2. (n - m + 1) + i - 1 = n - m + i
      BY <1>1, <1>2
    <3> QED BY <3>1, <3>2
  <2>4. p \in Seq(S)
    BY <1>1, <1>2, <2>1
  <2> QED BY <2>2, <2>3, <2>4
<1>4. q[1] \in S /\ q \in Seq(S) /\ Len(q) = m + 1
  BY <1>2
<1> HIDE DEF p, S, n
<1>5. w \in Seq(S) /\ Len(w) = m + 1 /\ w[1] = q[1] /\ \A i \in 1 .. m : w[i + 1] = p[i]
  BY <1>2, <1>3, <1>4
<1>6. ASSUME NEW i \in 1 .. Len(q) PROVE q[i] = w[i]
  <2>1. CASE i = 1
    BY <1>5, <2>1
  <2>2. CASE i # 1
    <3>1. i - 1 \in 1 .. m /\ (i - 1) + 1 = i
      BY <1>2, <1>4, <2>2
    <3>2. q[(i - 1) + 1] = p[i - 1] /\ w[(i - 1) + 1] = p[i - 1]
      BY <1>3, <1>5, <3>1 DEF n
    <3> QED BY <3>1, <3>2
  <2> QED BY <2>1, <2>2
<1> HIDE DEF w
<1>7. q = w
  BY <1>4, <1>5, <1>6
<1> QED BY <1>7 DEF w, p, n

\* The invariant of a device with an authority.
NativePure == Native => PureInv

\* On a device with an authority the device has executed the actions of the
\* replay since the replay's reset, in their order and nothing else, when the
\* last one is injected, or a start_recording that the replay has overtaken has
\* reset it and the rest of the actions followed (start_replay and the thread of
\* the replay, with every other caller under way).
THEOREM ReplayRunsPure == Spec => ReplayIsPure
<1>1. ASSUME ControlInv, NativePure, [Next]_vars, NEW c \in Elements(Replayed), Native,
             c = Replayed[Len(Replayed)], job[c] = "admitted", job'[c] = "executed"
      PROVE  \/ log' = <<"replay">> \o Replayed
             \/ \E m \in 1 .. Len(Replayed) :
                   log' = <<"reset">> \o SubSeq(Replayed, m, Len(Replayed))
  <2> DEFINE t == "replay"
             n == Len(Replayed)
  <2>0. /\ TypeOK /\ TypeOK' /\ RunPhase(t) /\ Turn(t) /\ t \in Runs
        /\ Script(t) = Replayed /\ c \in AllCmds /\ n \in Nat
    BY <1>1, TypeStep, ScriptNames DEF ControlInv, Runs, Script, AllCmds
  <2>1. n \in 1 .. n /\ n >= 1
    <3>1. PICK i \in 1 .. n : c = Replayed[i]
      BY <2>0, ScriptNames
    <3> QED BY <2>0, <3>1
  <2>2. th[t].pc = "wait" /\ th[t].n = n
    BY <1>1, <2>0, <2>1 DEF Turn
  <2>3. cmd[c] = [ctl |-> t, epoch |-> th[t].epoch, seq |-> th[t].n, act |-> "tap"]
    BY <1>1, <2>0, <2>2 DEF RunPhase
  <2>4. cmd[c].act = "tap"
    BY <2>3
  <2>5. Execute(c)
    <3>1. job' # job
      BY <1>1
    <3>2. Step
      BY <1>1, <3>1, StepClasses DEF vars
    <3>3. \A d \in AllCmds, v \in {"no", "admitted", "executed"} :
            job' = [job EXCEPT ![d] = v] => d = c /\ v = "executed"
      BY <1>1, <2>0 DEF TypeOK
    <3>4. ASSUME NEW d \in AllCmds, Execute(d) PROVE d = c
      BY <3>3, <3>4 DEF Execute
    <3>5. ASSUME NEW d \in AllCmds, Ends(d) PROVE FALSE
      BY <3>3, <3>5 DEF Ends
    <3>6. ASSUME NEW d \in Cmds, NEW act \in Acts, Admit(d, act) PROVE FALSE
      <4>1. d \in AllCmds /\ \E e : Admission(d, e)
        BY <3>6 DEF Admit, AllCmds
      <4> QED BY <3>1, <3>3, <4>1 DEF Admission
    <3>7. ASSUME NEW x \in Runs, RunNext(x) \/ RunAdmit(x) PROVE FALSE
      <4>1. RunAdmit(x)
        BY <3>1, <3>7 DEF RunNext
      <4>2. th[x].n \in 1 .. Len(Script(x))
        <5>1. RunPhase(x) /\ th[x].n \in Nat /\ th[x].pc = "input"
          BY <1>1, <2>0, <3>2, <4>1, StepNumbers DEF ControlInv, RunAdmit
        <5>2. th[x].n >= 1 /\ th[x].n <= Len(Script(x))
          BY <5>1 DEF RunPhase, Alive
        <5> QED BY <5>1, <5>2, ScriptNames
      <4>3. Script(x)[th[x].n] \in AllCmds
        BY <4>2, ScriptNames
      <4>4. \E e : Admission(Script(x)[th[x].n], e)
        BY <3>1, <4>1 DEF RunAdmit
      <4> QED BY <3>1, <3>3, <4>3, <4>4 DEF Admission
    <3> QED BY <3>1, <3>2, <3>4, <3>5, <3>6, <3>7 DEF Step, Commands
  <2>6. log' = Append(log, c)
    BY <2>4, <2>5 DEF Execute
  <2>7. Replays(log, n - 1)
    BY <1>1, <2>2 DEF NativePure, PureInv, ReplayLog
  <2>8. Replays(log', n) /\ Len(log') >= 2
    BY <1>1, <2>0, <2>1, <2>6, <2>7, LogAppend
  <2>9. log' \in Seq(AllCmds \cup {"reset", "replay"})
    BY <2>0 DEF TypeOK
  <2>10. PICK m \in 0 .. n :
           /\ Len(log') = m + 1
           /\ log'[1] = "reset" \/ (log'[1] = "replay" /\ m = n)
           /\ \A i \in 1 .. m : log'[i + 1] = Replayed[n - m + i]
    BY <2>8 DEF Replays
  <2>11. m \in 1 .. n /\ n - m + 1 \in 1 .. n
    BY <2>0, <2>8, <2>10
  <2>12. log' = <<log'[1]>> \o SubSeq(Replayed, n - m + 1, n)
    BY <2>9, <2>10, <2>11, RestOfReplay
  <2>13. CASE log'[1] = "reset"
    BY <2>11, <2>12, <2>13
  <2>14. CASE log'[1] = "replay" /\ m = n
    <3>1. SubSeq(Replayed, n - m + 1, n) = Replayed
      <4>1. n - m + 1 = 1
        BY <2>0, <2>14
      <4>2. Replayed \in Seq(Elements(Replayed))
        BY NamesAssumption
      <4> QED BY <4>1, <4>2
    <3> QED BY <2>12, <2>14, <3>1
  <2> QED BY <2>10, <2>13, <2>14
<1>2. ControlInv /\ NativePure /\ [Next]_vars =>
        [\A c \in Elements(Replayed) :
           /\ Native /\ c = Replayed[Len(Replayed)]
           /\ job[c] = "admitted" /\ job'[c] = "executed"
           => \/ log' = <<"replay">> \o Replayed
              \/ \E m \in 1 .. Len(Replayed) :
                    log' = <<"reset">> \o SubSeq(Replayed, m, Len(Replayed))]_vars
  BY <1>1
<1>3. ControlInv /\ NativePure /\ [Next]_vars => NativePure'
  BY PureInvStep DEF NativePure
<1>4. Init => NativePure
  BY PureInit DEF NativePure
<1> QED BY <1>2, <1>3, <1>4, ControlInvariance, PTL DEF Spec, ReplayIsPure

=============================================================================
