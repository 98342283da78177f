-------------------------- MODULE LabDevicesProofs --------------------------
(* Proofs about the devices of the Lab, for any number of sessions,        *)
(* reservations and threads in close_session.                              *)
EXTENDS LabDevices, TLAPS

Free == {"none", "released"}

\* At most one handle of the device is held, and none without an authority.
OneHandle ==
    /\ \A h, g \in Owners : hs[h] \notin Free /\ hs[g] \notin Free => h = g
    /\ ~Native => \A h \in Owners : hs[h] = "none"

\* The handle of a reservation belongs to the reservation or to the one
\* session that took it, or it is shared by the sessions of a scope.
HandleOwners ==
    Native =>
        /\ \A r \in resv : hs[r] \notin Free
        /\ \A s \in Sessions : ss[s].via # NoOne => hs[ss[s].via] # "none"
        /\ \A s \in Sessions :
              ss[s].via \in resv => ss[s].scoped /\ ss[s].via \in scope
        /\ \A s, t \in Sessions : s # t /\ ss[s].via = ss[t].via /\ ss[s].via # NoOne
                                     => ss[s].scoped /\ ss[t].scoped

\* What the thread in create_session has done for a session.
Launched == {"confirm", "admit", "done"}

Stage(s) ==
    /\ ss[s].st = "none" =>
          /\ ss[s] = NewRecord /\ s \notin saw \cup inflight
          /\ \A k \in Closers : closer[k].s # s
    /\ ss[s].scoped => ss[s].via # NoOne
    /\ \/ ss[s].prov = "running" \/ ss[s].st = "active" \/ s \in saw \cup inflight
       => ss[s].pc \in Launched
    /\ ss[s].pc \in {"setup", "factory"} => ss[s].prov = "none"
    /\ ss[s].bound => ss[s].pc \in {"prepare", "start"} \cup Launched
    /\ ss[s].conf => /\ ss[s].pc = "done"
                     /\ hs[HandleOf(s)] \in Free
    /\ s \in Prepared => /\ ~ss[s].scoped /\ s \notin saw
                         /\ ss[s].via = NoOne => ss[s].st = "none"
    /\ \A k \in Closers : closer[k].s = s /\ closer[k].pc = "calling"
                             => ss[s].pc \notin {"setup", "factory"}

\* The three holders of a permit for an operation of a session: create_session
\* until the start is confirmed, input(), and close_session.
StartPermit(s)    == ss[s].pc \in {"start", "confirm"}
InputPermit(s)    == s \in inflight /\ ss[s].bound
ClosePermit(k, s) == closer[k].s = s /\ closer[k].pc = "calling" /\ closer[k].permit

\* Outside the scopes a permit means that its operation is open or that the
\* handle is lost; an open operation has one permit; and a provider that runs,
\* or is about to, keeps its handle from being released.
Permits(s) ==
    Native /\ ~ss[s].scoped =>
        /\ StartPermit(s) => hs[HandleOf(s)] \in {"open", "lost"}
        /\ InputPermit(s) => hs[HandleOf(s)] \in {"open", "lost"}
        /\ \A k \in Closers : ClosePermit(k, s) => hs[HandleOf(s)] \in {"open", "lost"}
        /\ hs[HandleOf(s)] = "open" =>
              /\ ~(StartPermit(s) /\ InputPermit(s))
              /\ \A k \in Closers : ClosePermit(k, s) =>
                    /\ ~StartPermit(s) /\ ~InputPermit(s)
                    /\ \A l \in Closers : ClosePermit(l, s) => l = k
        /\ ss[s].prov = "running" => hs[HandleOf(s)] \in {"open", "helper", "lost"}

Targets == \A k \in Closers : closer[k].pc # "idle" => closer[k].s \in Sessions

LabInv ==
    /\ TypeOK
    /\ Targets
    /\ OneHandle
    /\ HandleOwners
    /\ \A s \in Sessions : Stage(s) /\ Permits(s)

----------------------------------------------------------------------------
(* Types.                                                                  *)

Closing == [s : Sessions \cup {NoOne},
            pc : {"idle", "admitted", "cleaning", "drain", "provider", "calling",
                  "finish", "free", "quarantine"},
            permit : BOOLEAN]

DeviceRecords == [state : {"available", "busy", "reserved", "quarantined",
                           "recovering", "repairing"},
                  owner : Owners \cup {NoOne}]

HandleStates == {"none", "owned", "helper", "open", "effect", "released", "lost"}

LEMMA Types ==
  TypeOK => /\ dev \in DeviceRecords
            /\ closer \in [Closers -> Closing]
            /\ hs \in [Owners -> HandleStates]
            /\ \A s \in Sessions : ss[s] \in Records /\ HandleOf(s) \in Owners
            /\ \A h \in Owners : hs[h] \in HandleStates
  BY DEF TypeOK, DeviceRecords, Closing, HandleStates, HandleOf, Records, Owners

LEMMA TypeInit == Init => TypeOK
<1>1. NewRecord \in Records
  BY DEF NewRecord, Records, Stopped
<1>2. Idle \in Closing
  BY DEF Idle, Closing
<1> SUFFICES ASSUME Init PROVE TypeOK
  OBVIOUS
<1>3. closer \in [Closers -> Closing]
  BY <1>2 DEF Init
<1>4. ss \in [Sessions -> Records]
  BY <1>1 DEF Init
<1> QED
  BY <1>3, <1>4 DEF Init, TypeOK, Closing

LEMMA CloseTypes ==
  ASSUME TypeOK, NEW h \in Owners
  PROVE  CloseResults(h) \subseteq HandleStates /\ Revoked(h) \in HandleStates
BY Types DEF CloseResults, Revoked, HandleStates

LEMMA DeviceTypes ==
  ASSUME TypeOK
  PROVE  /\ Quarantine \in DeviceRecords
         /\ \A state \in {"available", "busy", "reserved", "quarantined",
                         "recovering", "repairing"}, o \in Owners \cup {NoOne} :
               Device(state, o) \in DeviceRecords
BY Types DEF Quarantine, Device, DeviceRecords

LEMMA TypeReservation ==
  ASSUME TypeOK, NEW r \in Reservations, ReservationNext(r)
  PROVE  TypeOK'
<1> USE Types, CloseTypes, DeviceTypes DEF threads
<1> r \in Owners
  BY DEF Owners
<1>1. CASE Reserve(r)
  BY <1>1 DEF Reserve, TypeOK, DeviceRecords, HandleStates
<1>2. CASE ReleaseReservation(r)
  BY <1>2 DEF ReleaseReservation, TypeOK, DeviceRecords, HandleStates
<1>3. CASE Retain(r)
  BY <1>3 DEF Retain, TypeOK
<1>4. CASE ScopeEffect(r) \/ ScopeConfirm(r)
  BY <1>4 DEF ScopeEffect, ScopeConfirm, TypeOK
<1>5. CASE ReleaseScope(r)
  BY <1>5 DEF ReleaseScope, TypeOK, DeviceRecords, HandleStates
<1>6. CASE ShutdownScope(r)
  BY <1>6 DEF ShutdownScope, TypeOK, DeviceRecords, HandleStates
<1> QED
  BY <1>1, <1>2, <1>3, <1>4, <1>5, <1>6 DEF ReservationNext

States == {"none", "connecting", "active"} \cup Stopped
Steps  == {"none", "setup", "factory", "bind", "prepare", "start", "confirm",
           "admit", "done"}

LEMMA RecordTypes ==
  ASSUME NEW x \in Records, NEW st \in States, NEW pc \in Steps, NEW b \in BOOLEAN
  PROVE  /\ [x EXCEPT !.st = st] \in Records
         /\ [x EXCEPT !.pc = pc] \in Records
         /\ [x EXCEPT !.st = st, !.pc = pc] \in Records
         /\ [x EXCEPT !.st = st, !.pc = pc, !.conf = b] \in Records
         /\ [x EXCEPT !.st = st, !.pc = pc, !.bound = b] \in Records
         /\ [x EXCEPT !.prov = "made", !.pc = pc] \in Records
         /\ [x EXCEPT !.bound = TRUE, !.pc = "prepare"] \in Records
         /\ [x EXCEPT !.prov = "running", !.pc = "confirm"] \in Records
         /\ [x EXCEPT !.open = TRUE, !.pc = "done"] \in Records
         /\ [x EXCEPT !.fenced = TRUE, !.open = FALSE, !.st = st, !.stop = TRUE] \in Records
         /\ [x EXCEPT !.st = st, !.stop = TRUE] \in Records
         /\ [x EXCEPT !.stop = TRUE] \in Records
         /\ [x EXCEPT !.st = st, !.open = FALSE] \in Records
         /\ [x EXCEPT !.open = FALSE, !.st = st] \in Records
         /\ [x EXCEPT !.open = FALSE] \in Records
         /\ [x EXCEPT !.prov = "closed"] \in Records
<1>1. [x EXCEPT !.st = st] \in Records
  BY DEF Records, States, Steps
<1>2. [x EXCEPT !.pc = pc] \in Records
  BY DEF Records, States, Steps
<1>3. [x EXCEPT !.st = st, !.pc = pc] \in Records
  BY DEF Records, States, Steps
<1>4. [x EXCEPT !.st = st, !.pc = pc, !.conf = b] \in Records
  BY DEF Records, States, Steps
<1>5. [x EXCEPT !.st = st, !.pc = pc, !.bound = b] \in Records
  BY DEF Records, States, Steps
<1>6. [x EXCEPT !.prov = "made", !.pc = pc] \in Records
  BY DEF Records, States, Steps
<1>7. [x EXCEPT !.bound = TRUE, !.pc = "prepare"] \in Records
  BY DEF Records, States, Steps
<1>8. [x EXCEPT !.prov = "running", !.pc = "confirm"] \in Records
  BY DEF Records, States, Steps
<1>9. [x EXCEPT !.open = TRUE, !.pc = "done"] \in Records
  BY DEF Records, States, Steps
<1>10. [x EXCEPT !.fenced = TRUE, !.open = FALSE, !.st = st, !.stop = TRUE] \in Records
  BY DEF Records, States, Steps
<1>11. [x EXCEPT !.st = st, !.stop = TRUE] \in Records
  BY DEF Records, States, Steps
<1>12. [x EXCEPT !.stop = TRUE] \in Records
  BY DEF Records, States, Steps
<1>13. [x EXCEPT !.st = st, !.open = FALSE] \in Records
  BY DEF Records, States, Steps
<1>14. [x EXCEPT !.open = FALSE, !.st = st] \in Records
  BY DEF Records, States, Steps
<1>15. [x EXCEPT !.open = FALSE] \in Records
  BY DEF Records, States, Steps
<1>16. [x EXCEPT !.prov = "closed"] \in Records
  BY DEF Records, States, Steps
<1> QED
  BY <1>1, <1>2, <1>3, <1>4, <1>5, <1>6, <1>7, <1>8, <1>9, <1>10, <1>11, <1>12, <1>13, <1>14, <1>15, <1>16

LEMMA SetupReleases ==
  ASSUME TypeOK, NEW s \in Sessions, NEW o \in SetupOutcomes(s)
  PROVE  /\ o.clean \in BOOLEAN
         /\ \/ o.v = hs[HandleOf(s)]
            \/ ~ss[s].scoped /\ hs[HandleOf(s)] = "owned" /\ o.v \in {"released", "lost"}
         /\ o.clean /\ ~ss[s].scoped => o.v \in Free
<1>1. CASE ss[s].scoped
  <2>1. o = [v |-> hs[HandleOf(s)], clean |-> TRUE]
    BY <1>1 DEF SetupOutcomes
  <2> QED
    BY <1>1, <2>1
<1>2. CASE ~ss[s].scoped /\ hs[HandleOf(s)] = "none"
  <2>1. o \in [v : {"none"}, clean : BOOLEAN]
    BY <1>2 DEF SetupOutcomes
  <2> QED
    BY <1>2, <2>1 DEF Free
<1>3. CASE ~ss[s].scoped /\ hs[HandleOf(s)] = "owned"
  <2>1. o \in {[v |-> "released", clean |-> TRUE], [v |-> "lost", clean |-> FALSE]}
    BY <1>3 DEF SetupOutcomes
  <2>2. CASE o = [v |-> "released", clean |-> TRUE]
    BY <1>3, <2>2 DEF Free
  <2>3. CASE o = [v |-> "lost", clean |-> FALSE]
    BY <1>3, <2>3
  <2> QED
    BY <2>1, <2>2, <2>3
<1>4. CASE ~ss[s].scoped /\ hs[HandleOf(s)] \notin {"none", "owned"}
  <2>1. o = [v |-> hs[HandleOf(s)], clean |-> FALSE]
    BY <1>4 DEF SetupOutcomes
  <2> QED
    BY <1>4, <2>1
<1> QED
  BY <1>1, <1>2, <1>3, <1>4

LEMMA TypeSession ==
  ASSUME TypeOK, NEW s \in Sessions, SessionNext(s)
  PROVE  TypeOK'
<1> USE Types DEF threads, Set
<1> s \in Owners /\ HandleOf(s) \in Owners /\ ss[s] \in Records
  BY DEF Owners
<1> DEFINE Rest == /\ resv' \in SUBSET Reservations /\ scope' \in SUBSET resv'
                   /\ prep' \in [Prepared -> {"reserved", "active", "cleaning",
                                              "cleaned", "unknown"}]
                   /\ failing' \in SUBSET Sessions /\ saw' \in SUBSET Sessions
                   /\ inflight' \in SUBSET Sessions /\ recovery' \in BOOLEAN
                   /\ closer' = closer
<1>0. ASSUME Rest, dev' \in DeviceRecords, hs' \in [Owners -> HandleStates],
             ss' \in [Sessions -> Records]
      PROVE  TypeOK'
  BY <1>0 DEF TypeOK, DeviceRecords, HandleStates
<1>u. ASSUME NEW x \in Records
      PROVE  [ss EXCEPT ![s] = x] \in [Sessions -> Records]
  BY DEF TypeOK
<1>v. ASSUME NEW v \in HandleStates
      PROVE  [hs EXCEPT ![HandleOf(s)] = v] \in [Owners -> HandleStates]
  OBVIOUS
<1>r. /\ \A st \in States : [ss[s] EXCEPT !.st = st] \in Records
      /\ \A pc \in Steps : /\ [ss[s] EXCEPT !.pc = pc] \in Records
                           /\ [ss[s] EXCEPT !.prov = "made", !.pc = pc] \in Records
      /\ [ss[s] EXCEPT !.bound = TRUE, !.pc = "prepare"] \in Records
      /\ [ss[s] EXCEPT !.prov = "running", !.pc = "confirm"] \in Records
      /\ [ss[s] EXCEPT !.st = "failed", !.pc = "done"] \in Records
      /\ Abandoned(s) \in Records
  <2>1. "failed" \in States /\ "done" \in Steps /\ TRUE \in BOOLEAN
    BY DEF States, Steps, Stopped
  <2> QED
    BY <2>1, RecordTypes DEF Abandoned
<1>1. CASE \E r \in Reservations \cup {NoOne} : Allocate(s, r)
  <2> PICK r \in Reservations \cup {NoOne} : Allocate(s, r)
    BY <1>1
  <2>1. [st |-> "connecting", via |-> r, scoped |-> r \in scope, prov |-> "none",
         bound |-> FALSE, conf |-> FALSE, stop |-> FALSE, open |-> FALSE,
         fenced |-> FALSE, pc |-> "setup"] \in Records
    BY DEF Records
  <2>2. ss' \in [Sessions -> Records]
    BY <2>1, <1>u DEF Allocate, NewRecord
  <2>3. dev' \in DeviceRecords
    BY DeviceTypes DEF Allocate
  <2> QED
    BY <2>2, <2>3, <1>0 DEF Allocate, TypeOK
<1>2. CASE Setup(s) \/ PrepareStartup(s)
  <2>1. ss' \in [Sessions -> Records]
    BY <1>2, <1>u, RecordTypes DEF Setup, PrepareStartup, States, Steps
  <2>2. hs' \in [Owners -> HandleStates]
    BY <1>2, <1>v DEF Setup, PrepareStartup, HandleStates
  <2> QED
    BY <1>2, <2>1, <2>2, <1>0 DEF Setup, PrepareStartup, TypeOK
<1>3. CASE Construct(s) \/ Bind(s) \/ Launch(s) \/ FrameActivates(s) \/ PreparedFrame(s)
  <2>1. ss' \in [Sessions -> Records]
    <3>1. "active" \in States /\ {"bind", "start"} \subseteq Steps
      BY DEF States, Steps
    <3>2. CASE Construct(s)
      BY <3>1, <3>2, <1>u, <1>r DEF Construct
    <3>3. CASE Bind(s) \/ Launch(s)
      BY <3>3, <1>u, <1>r DEF Bind, Launch
    <3>4. CASE FrameActivates(s) \/ PreparedFrame(s)
      BY <3>1, <3>4, <1>u, <1>r DEF FrameActivates, PreparedFrame
    <3> QED
      BY <1>3, <3>2, <3>3, <3>4
  <2> QED
    BY <1>3, <2>1, <1>0
    DEF Construct, Bind, Launch, FrameActivates, PreparedFrame, TypeOK
<1>4. CASE SetupFail(s)
  <2> PICK o \in SetupOutcomes(s) :
         /\ hs' = [hs EXCEPT ![HandleOf(s)] = o.v]
         /\ Set(s, [ss[s] EXCEPT !.st = "failed", !.pc = "done",
                                 !.conf = o.clean /\ ~ss[s].scoped])
         /\ dev' = CASE ss[s].scoped -> Device("quarantined", ss[s].via)
                     [] o.clean      -> Device("available", NoOne)
                     [] OTHER        -> Device("quarantined", NoOne)
    BY <1>4 DEF SetupFail
  <2>1. o.v \in HandleStates /\ o.clean \in BOOLEAN
    BY SetupReleases DEF HandleStates
  <2>2. ss' \in [Sessions -> Records]
    BY <2>1, <1>u, RecordTypes DEF States, Steps, Stopped
  <2>3. ss[s].scoped \in BOOLEAN /\ ss[s].via \in Owners \cup {NoOne}
    BY DEF Records, Owners
  <2>4. dev' \in DeviceRecords
    BY <2>1, <2>3, DeviceTypes
  <2> QED
    BY <1>4, <2>1, <2>2, <2>4, <1>v, <1>0 DEF SetupFail, TypeOK
<1>5. CASE Reject(s)
  <2>1. ss[s].scoped \in BOOLEAN /\ ss[s].bound \in BOOLEAN
        /\ ss[s].via \in Owners \cup {NoOne}
    BY DEF Records, Owners
  <2>2. ss' \in [Sessions -> Records]
    BY <1>5, <2>1, <1>u, RecordTypes DEF Reject, States, Steps, Stopped
  <2>3. dev' \in DeviceRecords
    BY <1>5, <2>1, DeviceTypes DEF Reject
  <2>4. hs' \in [Owners -> HandleStates]
    BY <1>5, <1>v, CloseTypes DEF Reject, HandleStates
  <2> QED
    BY <1>5, <2>2, <2>3, <2>4, <1>0 DEF Reject, TypeOK
<1>6. CASE StartConfirmed(s) \/ AdmitPrepared(s)
  <2>1. ss' \in [Sessions -> Records]
    BY <1>6, <1>u, RecordTypes DEF StartConfirmed, AdmitPrepared, States, Steps
  <2>2. hs' \in [Owners -> HandleStates]
    BY <1>6, <1>v DEF StartConfirmed, AdmitPrepared, HandleStates
  <2> QED
    BY <1>6, <2>1, <2>2, <1>0 DEF StartConfirmed, AdmitPrepared, TypeOK
<1>7. CASE StartFail(s) \/ Fail(s)
  <2>1. ss' \in [Sessions -> Records]
    BY <1>7, <1>u, <1>r DEF StartFail, Fail, States, Steps, Stopped
  <2>2. hs' \in [Owners -> HandleStates]
    BY <1>7, <1>v, CloseTypes DEF StartFail, Fail, FailedSession
  <2> QED
    BY <1>7, <2>1, <2>2, <1>0 DEF StartFail, Fail, FailedSession, TypeOK
<1>8. CASE FailDevice(s) \/ FrameSeen(s)
  BY <1>8, DeviceTypes, <1>0 DEF FailDevice, FrameSeen, TypeOK
<1>9. CASE InputBegin(s) \/ InputDone(s)
  <2>1. hs' \in [Owners -> HandleStates]
    BY <1>9, <1>v DEF InputBegin, InputDone, Confirmed, HandleStates
  <2> QED
    BY <1>9, <2>1, <1>0 DEF InputBegin, InputDone, TypeOK
<1>10. CASE InputUnknown(s)
  <2>1. hs' \in [Owners -> HandleStates]
    BY <1>10, <1>v DEF InputUnknown, Confirmed, HandleStates
  <2>2. ss' \in [Sessions -> Records]
    BY <1>10, <1>u, RecordTypes DEF InputUnknown, States, Steps, Stopped
  <2> QED
    BY <1>10, <2>1, <2>2, DeviceTypes, <1>0 DEF InputUnknown, TypeOK
<1>11. CASE Abandon(s) \/ AbandonPreparation(s)
  <2>1. ss' \in [Sessions -> Records]
    BY <1>11, <1>u, <1>r DEF Abandon, AbandonPreparation, TypeOK
  <2> QED
    BY <1>11, <2>1, DeviceTypes, <1>0 DEF Abandon, AbandonPreparation, TypeOK
<1> QED
  BY <1>1, <1>2, <1>3, <1>4, <1>5, <1>6, <1>7, <1>8, <1>9, <1>10, <1>11
  DEF SessionNext

LEMMA ClosingTypes ==
  ASSUME TypeOK, NEW k \in Closers, NEW s \in Sessions, NEW b \in BOOLEAN,
         NEW p \in {"idle", "admitted", "cleaning", "drain", "provider", "calling",
                    "finish", "free", "quarantine"}
  PROVE  /\ [closer EXCEPT ![k].pc = p] \in [Closers -> Closing]
         /\ [closer EXCEPT ![k].pc = p, ![k].permit = b] \in [Closers -> Closing]
         /\ [closer EXCEPT ![k] = Idle] \in [Closers -> Closing]
         /\ [closer EXCEPT ![k] = [Idle EXCEPT !.s = s, !.pc = "admitted"]]
              \in [Closers -> Closing]
<1> USE Types
<1>1. [closer[k] EXCEPT !.pc = p] \in Closing
  BY DEF Closing
<1>2. [closer[k] EXCEPT !.pc = p, !.permit = b] \in Closing
  BY DEF Closing
<1>3. Idle \in Closing
  BY DEF Idle, Closing
<1>4. [Idle EXCEPT !.s = s, !.pc = "admitted"] \in Closing
  BY DEF Idle, Closing
<1>5. [closer EXCEPT ![k].pc = p] \in [Closers -> Closing]
  BY <1>1
<1>6. [closer EXCEPT ![k].pc = p, ![k].permit = b] \in [Closers -> Closing]
  BY <1>2
<1> QED
  BY <1>3, <1>4, <1>5, <1>6

LEMMA TypeCloser ==
  ASSUME TypeOK, Targets, NEW k \in Closers, CloserNext(k)
  PROVE  TypeOK'
<1> USE Types DEF threads, Set, At
<1> DEFINE s == closer[k].s
           Rest == /\ resv' = resv /\ scope' = scope
                   /\ prep' \in [Prepared -> {"reserved", "active", "cleaning",
                                              "cleaned", "unknown"}]
                   /\ failing' = failing /\ saw' = saw
                   /\ inflight' = inflight /\ recovery' = recovery
<1>0. ASSUME Rest, dev' \in DeviceRecords, hs' \in [Owners -> HandleStates],
             ss' \in [Sessions -> Records], closer' \in [Closers -> Closing]
      PROVE  TypeOK'
  BY <1>0 DEF TypeOK, DeviceRecords, HandleStates, Closing
<1>v. ASSUME NEW h \in Owners, NEW v \in HandleStates
      PROVE  [hs EXCEPT ![h] = v] \in [Owners -> HandleStates]
  OBVIOUS
<1>c. /\ \A p \in {"idle", "admitted", "cleaning", "drain", "provider", "calling",
                   "finish", "free", "quarantine"} : Go(k, p) => closer' \in [Closers -> Closing]
      /\ Leave(k) => closer' \in [Closers -> Closing]
      /\ \A t \in Sessions :
           [closer EXCEPT ![k] = [Idle EXCEPT !.s = t, !.pc = "admitted"]]
             \in [Closers -> Closing]
      /\ \A b \in BOOLEAN : s \in Sessions =>
           [closer EXCEPT ![k].pc = "calling", ![k].permit = b] \in [Closers -> Closing]
  <2>1. ASSUME NEW p \in {"idle", "admitted", "cleaning", "drain", "provider", "calling",
                          "finish", "free", "quarantine"}
        PROVE  [closer[k] EXCEPT !.pc = p] \in Closing
    BY DEF Closing
  <2>2. ASSUME NEW p \in {"idle", "admitted", "cleaning", "drain", "provider", "calling",
                          "finish", "free", "quarantine"}, Go(k, p)
        PROVE  closer' \in [Closers -> Closing]
    BY <2>1, <2>2 DEF Go
  <2>3. Idle \in Closing
    BY DEF Idle, Closing
  <2>4. Leave(k) => closer' \in [Closers -> Closing]
    BY <2>3 DEF Leave
  <2> QED
    BY <2>2, <2>4, ClosingTypes
<1>r. ASSUME NEW t \in Sessions
      PROVE  /\ \A st \in States : [ss EXCEPT ![t] = [ss[t] EXCEPT !.st = st]]
                                     \in [Sessions -> Records]
             /\ \A x \in Records : [ss EXCEPT ![t] = x] \in [Sessions -> Records]
             /\ [ss EXCEPT ![t] = [ss[t] EXCEPT !.stop = TRUE]] \in [Sessions -> Records]
             /\ [ss EXCEPT ![t] = [ss[t] EXCEPT !.prov = "closed"]] \in [Sessions -> Records]
             /\ [ss EXCEPT ![t] = [ss[t] EXCEPT !.open = FALSE]] \in [Sessions -> Records]
             /\ \A st \in States : /\ [ss[t] EXCEPT !.open = FALSE, !.st = st] \in Records
                                   /\ [ss[t] EXCEPT !.st = st, !.open = FALSE] \in Records
                                   /\ [ss[t] EXCEPT !.st = st, !.stop = TRUE] \in Records
             /\ Abandoned(t) \in Records
  <2>0. "failed" \in States /\ "done" \in Steps /\ TRUE \in BOOLEAN /\ ss[t] \in Records
    BY DEF States, Steps, Stopped
  <2>1. /\ \A st \in States : [ss[t] EXCEPT !.st = st] \in Records
        /\ [ss[t] EXCEPT !.stop = TRUE] \in Records
        /\ [ss[t] EXCEPT !.prov = "closed"] \in Records
        /\ [ss[t] EXCEPT !.open = FALSE] \in Records
        /\ \A st \in States : /\ [ss[t] EXCEPT !.open = FALSE, !.st = st] \in Records
                              /\ [ss[t] EXCEPT !.st = st, !.open = FALSE] \in Records
                              /\ [ss[t] EXCEPT !.st = st, !.stop = TRUE] \in Records
    BY <2>0, RecordTypes
  <2>2. Abandoned(t) \in Records
    BY <2>0, RecordTypes DEF Abandoned
  <2> QED
    BY <2>1, <2>2 DEF TypeOK
<1>s. {"failed", "draining", "closed"} \subseteq States
  BY DEF States, Stopped
<1>1. CASE \E t \in Sessions : CloseRecord(k, t)
  <2> PICK t \in Sessions : CloseRecord(k, t)
    BY <1>1
  <2>1. ss' \in [Sessions -> Records]
    BY <1>r, <1>s DEF CloseRecord
  <2>2. dev' \in DeviceRecords
    BY DeviceTypes DEF CloseRecord, Records, Owners
  <2> QED
    BY <2>1, <2>2, <1>0 DEF CloseRecord, TypeOK
<1>2. CASE \E t \in Sessions : CloseBegin(k, t)
  <2> PICK t \in Sessions : CloseBegin(k, t)
    BY <1>2
  <2> QED
    BY <1>r, <1>c, <1>0 DEF CloseBegin, TypeOK
<1>t. ~At(k, "idle") => s \in Sessions /\ HandleOf(s) \in Owners /\ Target(k) = s
  BY DEF Targets, Target
<1>3. CASE CloseDrain(k)
  BY <1>3, <1>t, <1>r, <1>s, <1>c, <1>0 DEF CloseDrain, TypeOK
<1>4. CASE CloseUncertain(k)
  <2>1. s \in Sessions /\ HandleOf(s) \in Owners /\ Target(k) = s
    BY <1>4, <1>t DEF CloseUncertain
  <2>2. ss' \in [Sessions -> Records]
    BY <1>4, <2>1, <1>r, <1>s DEF CloseUncertain
  <2>3. hs' \in [Owners -> HandleStates]
    BY <1>4, <2>1, <1>v, CloseTypes DEF CloseUncertain
  <2> QED
    BY <1>4, <2>2, <2>3, <1>c, <1>0 DEF CloseUncertain, TypeOK
<1>5. CASE CleanBegin(k)
  <2>1. s \in Sessions /\ Target(k) = s
    BY <1>5, <1>t DEF CleanBegin
  <2>2. ss[s].st \in States
    BY <2>1 DEF Records, States
  <2> DEFINE st == IF prep[s] = "cleaned" THEN ss[s].st ELSE "failed"
  <2>3. CASE prep[s] \in {"reserved", "active"}
    <3>1. ss' = [ss EXCEPT ![s] = [ss[s] EXCEPT !.open = FALSE]]
      BY <1>5, <2>1, <2>3 DEF CleanBegin
    <3> QED
      BY <1>5, <2>1, <3>1, <1>r, <1>c, <1>0 DEF CleanBegin, TypeOK
  <2>4. CASE prep[s] \notin {"reserved", "active"}
    <3>1. st \in States
      BY <2>2, <1>s
    <3>2. [ss[s] EXCEPT !.open = FALSE, !.st = st] \in Records
      BY <2>1, <3>1, <1>r
    <3>3. ss' = [ss EXCEPT ![s] = [ss[s] EXCEPT !.open = FALSE, !.st = st]]
      BY <1>5, <2>1, <2>4 DEF CleanBegin
    <3>4. ss' \in [Sessions -> Records]
      BY <2>1, <3>2, <3>3, <1>r
    <3> QED
      BY <1>5, <2>1, <2>4, <3>4, <1>c, <1>0 DEF CleanBegin, TypeOK
  <2> QED
    BY <2>3, <2>4
<1>6. CASE \E ok \in BOOLEAN : CleanEnd(k, ok)
  <2> PICK ok \in BOOLEAN : CleanEnd(k, ok)
    BY <1>6
  <2>1. s \in Sessions /\ Target(k) = s
    BY <1>t DEF CleanEnd
  <2>2. ss' \in [Sessions -> Records]
    BY <2>1, <1>r, <1>s DEF CleanEnd, TypeOK
  <2>3. closer' \in [Closers -> Closing]
    BY <1>c DEF CleanEnd
  <2> QED
    BY <2>2, <2>3, <1>0 DEF CleanEnd, TypeOK
<1>7. CASE CloseQuarantine(k)
  BY <1>7, <1>c, <1>0, DeviceTypes DEF CloseQuarantine, TypeOK
<1>8. CASE CloseCall(k)
  <2>1. s \in Sessions /\ HandleOf(s) \in Owners /\ Target(k) = s
    BY <1>8, <1>t DEF CloseCall
  <2>2. hs' \in [Owners -> HandleStates]
    BY <1>8, <2>1, <1>v DEF CloseCall, HandleStates
  <2>3. ss[s].bound \in BOOLEAN
    BY <2>1 DEF Records
  <2>4. closer' \in [Closers -> Closing]
    BY <1>8, <2>1, <2>3, <1>c DEF CloseCall
  <2> QED
    BY <1>8, <2>2, <2>4, <1>0 DEF CloseCall, TypeOK
<1>9. CASE CloseAnswered(k)
  <2>1. s \in Sessions /\ HandleOf(s) \in Owners /\ Target(k) = s
    BY <1>9, <1>t DEF CloseAnswered
  <2>2. hs' \in [Owners -> HandleStates]
    BY <1>9, <2>1, <1>v DEF CloseAnswered, HandleStates
  <2> QED
    BY <1>9, <2>1, <2>2, <1>r, <1>c, <1>0 DEF CloseAnswered, TypeOK
<1>10. CASE CloseFailed(k)
  <2>1. s \in Sessions /\ HandleOf(s) \in Owners /\ Target(k) = s
    BY <1>10, <1>t DEF CloseFailed
  <2>2. hs' \in [Owners -> HandleStates]
    BY <1>10, <2>1, <1>v, CloseTypes DEF CloseFailed
  <2>3. ss' \in [Sessions -> Records]
    <3>1. [ss[s] EXCEPT !.st = "failed"] \in Records
      BY <2>1, <1>s, RecordTypes DEF Steps
    <3>2. Abandoned(s) \in Records
      BY <2>1, <1>r
    <3>3. PICK x \in {[ss[s] EXCEPT !.st = "failed"], Abandoned(s)} : ss' = [ss EXCEPT ![s] = x]
      BY <1>10, <2>1 DEF CloseFailed
    <3>4. x \in Records
      BY <3>1, <3>2
    <3> QED
      BY <2>1, <3>3, <3>4 DEF TypeOK
  <2>4. prep' \in [Prepared -> {"reserved", "active", "cleaning", "cleaned", "unknown"}]
    BY <1>10 DEF CloseFailed, TypeOK
  <2> QED
    BY <1>10, <2>2, <2>3, <2>4, <1>c, <1>0, DeviceTypes DEF CloseFailed
<1>11. CASE \E finished \in BOOLEAN : CloseFinish(k, finished)
  <2> PICK finished \in BOOLEAN : CloseFinish(k, finished)
    BY <1>11
  <2>1. s \in Sessions /\ HandleOf(s) \in Owners /\ Target(k) = s
    BY <1>t DEF CloseFinish
  <2>2. hs' \in [Owners -> HandleStates]
    BY <2>1, <1>v, CloseTypes DEF CloseFinish
  <2>3. ss' \in [Sessions -> Records]
    <3>1. /\ [ss[s] EXCEPT !.st = "failed"] \in Records
          /\ [ss[s] EXCEPT !.st = "closed"] \in Records
      BY <2>1, <1>s, RecordTypes DEF Steps
    <3>2. PICK x \in {[ss[s] EXCEPT !.st = "failed"], [ss[s] EXCEPT !.st = "closed"]} :
             ss' = [ss EXCEPT ![s] = x]
      BY <2>1 DEF CloseFinish
    <3>3. x \in Records
      BY <3>1
    <3> QED
      BY <2>1, <3>2, <3>3 DEF TypeOK
  <2>4. FreedDevice(s, FALSE) \in DeviceRecords
    BY <2>1, DeviceTypes DEF FreedDevice, Records, Owners
  <2>5. dev' \in DeviceRecords /\ closer' \in [Closers -> Closing]
    BY <2>1, <2>4, <1>c, DeviceTypes DEF CloseFinish
  <2> QED
    BY <2>2, <2>3, <2>5, <1>0 DEF CloseFinish, TypeOK
<1>12. CASE CloseFenced(k)
  <2>1. s \in Sessions /\ Target(k) = s
    BY <1>12, <1>t DEF CloseFenced
  <2> QED
    BY <1>12, <2>1, <1>r, <1>s, <1>c, <1>0, DeviceTypes DEF CloseFenced, TypeOK
<1>13. CASE CloseRaises(k)
  BY <1>13, <1>c, <1>0 DEF CloseRaises, TypeOK
<1>14. CASE \E repair \in BOOLEAN : CloseFree(k, repair)
  <2> PICK repair \in BOOLEAN : CloseFree(k, repair)
    BY <1>14
  <2>1. s \in Sessions /\ Target(k) = s
    BY <1>t DEF CloseFree
  <2>2. FreedDevice(s, repair) \in DeviceRecords
    BY <2>1, DeviceTypes DEF FreedDevice, Records, Owners
  <2> QED
    BY <2>1, <2>2, <1>c, <1>0 DEF CloseFree, TypeOK
<1> QED
  BY <1>1, <1>2, <1>3, <1>4, <1>5, <1>6, <1>7, <1>8, <1>9, <1>10, <1>11, <1>12,
     <1>13, <1>14 DEF CloserNext

LEMMA TypeStep ==
  ASSUME TypeOK, Targets, [Next]_vars
  PROVE  TypeOK'
<1>1. CASE RecoverBegin \/ \E ok \in BOOLEAN : RecoverEnd(ok)
  <2>1. dev' \in DeviceRecords
    BY <1>1, Types, DeviceTypes DEF RecoverBegin, RecoverEnd
  <2> QED
    BY <1>1, <2>1 DEF RecoverBegin, RecoverEnd, TypeOK, DeviceRecords
<1>2. CASE UNCHANGED vars
  BY <1>2 DEF vars, TypeOK
<1> QED
  BY <1>1, <1>2, TypeReservation, TypeSession, TypeCloser DEF Next

\* A thread of close_session works for the session it was called for.
LEMMA TargetStep ==
  ASSUME TypeOK, Targets, [Next]_vars
  PROVE  Targets'
<1> USE Types DEF threads, At, Target, Go, Leave, Idle
<1>1. CASE \E r \in Reservations : ReservationNext(r)
  BY <1>1 DEF ReservationNext, Reserve, ReleaseReservation, Retain, ScopeEffect,
              ScopeConfirm, ReleaseScope, ShutdownScope, Targets
<1>2. CASE \E s \in Sessions : SessionNext(s)
  <2>1. closer' = closer
    BY <1>2 DEF SessionNext, Allocate, Setup, Construct, SetupFail, Bind,
                PrepareStartup, Reject, Launch, StartConfirmed, AdmitPrepared,
                StartFail, Fail, FailDevice, FrameSeen, FrameActivates, PreparedFrame,
                InputBegin, InputDone, InputUnknown, Abandon, AbandonPreparation
  <2> QED
    BY <2>1 DEF Targets
<1>3. ASSUME NEW k \in Closers, CloserNext(k) PROVE Targets'
  <2>1. ASSUME NEW l \in Closers, closer'[l].pc # "idle", l # k
        PROVE  closer'[l].s \in Sessions
    <3>1. closer'[l] = closer[l]
      BY <1>3, <2>1
      DEF CloserNext, CloseRecord, CloseBegin, CloseDrain, CloseUncertain, CleanBegin,
          CleanEnd, CloseQuarantine, CloseCall, CloseAnswered, CloseFailed, CloseFinish,
          CloseFenced, CloseRaises, CloseFree
    <3> QED
      BY <2>1, <3>1 DEF Targets
  <2>2. CASE \E s \in Sessions : CloseRecord(k, s)
    BY <2>2 DEF CloseRecord, Targets
  <2>3. CASE \E s \in Sessions : CloseBegin(k, s)
    <3> PICK s \in Sessions : CloseBegin(k, s)
      BY <2>3
    <3>1. closer'[k].s = s
      BY DEF CloseBegin
    <3> QED
      BY <2>1, <3>1 DEF Targets
  <2>4. CASE \/ CloseDrain(k) \/ CloseUncertain(k) \/ CleanBegin(k)
             \/ \E ok \in BOOLEAN : CleanEnd(k, ok)
             \/ CloseQuarantine(k) \/ CloseCall(k) \/ CloseAnswered(k) \/ CloseFailed(k)
             \/ \E finished \in BOOLEAN : CloseFinish(k, finished)
             \/ CloseFenced(k) \/ CloseRaises(k)
             \/ \E repair \in BOOLEAN : CloseFree(k, repair)
    <3>1. closer[k].s \in Sessions
      BY <2>4 DEF Targets, CloseDrain, CloseUncertain, CleanBegin, CleanEnd,
                  CloseQuarantine, CloseCall, CloseAnswered, CloseFailed, CloseFinish,
                  CloseFenced, CloseRaises, CloseFree
    <3>2. closer'[k].s = closer[k].s \/ closer'[k].pc = "idle"
      <4>1. CASE Leave(k)
        BY <4>1
      <4>2. ASSUME NEW p, Go(k, p)
            PROVE  closer'[k].s = closer[k].s
        BY <4>2 DEF Closing
      <4>3. CASE CloseCall(k)
        BY <4>3 DEF CloseCall, Closing
      <4>4. CASE CloseDrain(k) \/ CloseUncertain(k) \/ CleanBegin(k) \/ CloseAnswered(k)
        BY <4>4, <4>2 DEF CloseDrain, CloseUncertain, CleanBegin, CloseAnswered
      <4>5. CASE \/ \E ok \in BOOLEAN : CleanEnd(k, ok)
                 \/ \E finished \in BOOLEAN : CloseFinish(k, finished)
        BY <4>5, <4>1, <4>2 DEF CleanEnd, CloseFinish
      <4>6. CASE \/ CloseQuarantine(k) \/ CloseFailed(k) \/ CloseFenced(k) \/ CloseRaises(k)
                 \/ \E repair \in BOOLEAN : CloseFree(k, repair)
        BY <4>6, <4>1 DEF CloseQuarantine, CloseFailed, CloseFenced, CloseRaises, CloseFree
      <4> QED
        BY <2>4, <4>3, <4>4, <4>5, <4>6
    <3> QED
      BY <2>1, <3>1, <3>2 DEF Targets
  <2> QED
    BY <1>3, <2>2, <2>3, <2>4 DEF CloserNext
<1>4. CASE RecoverBegin \/ (\E ok \in BOOLEAN : RecoverEnd(ok)) \/ UNCHANGED vars
  BY <1>4 DEF RecoverBegin, RecoverEnd, vars, Targets
<1> QED
  BY <1>1, <1>2, <1>3, <1>4 DEF Next

----------------------------------------------------------------------------
(* What a step of one actor leaves alone, and how it moves its handle.     *)

\* The claim of a session that comes by no reservation, or of a reservation.
Grant(h) == /\ Native /\ Claimable /\ hs'[h] = "owned"
            /\ h \in Sessions => ss[h].pc = "setup"
            /\ h \in Reservations => hs[h] = "none"

Move(h) ==
    \/ hs'[h] = hs[h]
    \/ Grant(h)
    \/ /\ hs[h] \notin Free /\ hs'[h] # "none"
       /\ hs[h] = "lost" => hs'[h] = "lost"
       /\ hs'[h] = "released" => hs[h] = "owned"

Moves(h) == Move(h) /\ \A g \in Owners \ {h} : hs'[g] = hs[g]

\* The record and the threads of a session other than those of a call of
\* close_session.
Same(t) == /\ ss'[t] = ss[t]
           /\ t \in saw' <=> t \in saw
           /\ t \in inflight' <=> t \in inflight

LEMMA CloseMoves ==
  ASSUME TypeOK, NEW h \in Owners, NEW v \in CloseResults(h),
         hs' = [hs EXCEPT ![h] = v]
  PROVE  Moves(h)
BY Types DEF Moves, Move, CloseResults, Free

LEMMA RevokeMoves ==
  ASSUME TypeOK, NEW h \in Owners, hs' = [hs EXCEPT ![h] = Revoked(h)]
  PROVE  Moves(h)
BY Types DEF Moves, Move, Revoked, Free

LEMMA ReservationMoves ==
  ASSUME TypeOK, NEW r \in Reservations, ReservationNext(r)
  PROVE  /\ UNCHANGED <<ss, prep, threads>>
         /\ Moves(r)
<1> USE Types DEF threads
<1> r \in Owners
  BY DEF Owners
<1>1. CASE Reserve(r)
  BY <1>1, LabAssumption DEF Reserve, Moves, Move, Grant
<1>2. CASE ReleaseReservation(r)
  BY <1>2, CloseMoves DEF ReleaseReservation
<1>3. CASE Retain(r)
  BY <1>3 DEF Retain, Moves, Move
<1>4. CASE ScopeEffect(r) \/ ScopeConfirm(r)
  BY <1>4 DEF ScopeEffect, ScopeConfirm, Moves, Move, Free
<1>5. CASE ReleaseScope(r)
  BY <1>5, CloseMoves DEF ReleaseScope
<1>6. CASE ShutdownScope(r)
  BY <1>6, RevokeMoves DEF ShutdownScope
<1> QED
  BY <1>1, <1>2, <1>3, <1>4, <1>5, <1>6 DEF ReservationNext

LEMMA SessionMoves ==
  ASSUME TypeOK, OneHandle, HandleOwners, NEW s \in Sessions, SessionNext(s)
  PROVE  /\ UNCHANGED closer
         /\ \A t \in Sessions \ {s} : Same(t)
         /\ Moves(HandleOf(s))
<1> USE Types DEF threads, Set
<1> s \in Owners /\ HandleOf(s) \in Owners
  BY DEF Owners
<1>0. ASSUME hs' = hs PROVE Moves(HandleOf(s))
  BY <1>0 DEF Moves, Move
<1>1. CASE \E r \in Reservations \cup {NoOne} : Allocate(s, r)
  BY <1>0, <1>1 DEF Allocate, Same, TypeOK
<1>2. CASE Setup(s)
  <2>1. CASE hs' = hs
    BY <1>2, <2>1, <1>0 DEF Setup, Same, TypeOK
  <2>2. CASE ss[s].via # NoOne /\ Native
    BY <1>2, <2>2 DEF Setup, Same, TypeOK, HandleOf, Moves, Move
  <2>3. CASE ss[s].via = NoOne /\ Native
    BY <1>2, <2>3, LabAssumption DEF Setup, Same, TypeOK, HandleOf, Moves, Move, Grant
  <2> QED
    BY <1>2, <2>1, <2>2, <2>3 DEF Setup
<1>3. CASE PrepareStartup(s)
  BY <1>3 DEF PrepareStartup, Same, TypeOK, Moves, Move, Free
<1>4. CASE Construct(s) \/ Bind(s) \/ Launch(s)
  BY <1>4, <1>0 DEF Construct, Bind, Launch, Same, TypeOK
<1>5. CASE SetupFail(s)
  BY <1>5, SetupReleases DEF SetupFail, Same, TypeOK, Moves, Move, Free
<1>6. CASE Reject(s)
  <2>1. PICK v \in IF ss[s].scoped THEN {"owned"} ELSE CloseResults(HandleOf(s)) :
           hs' = [hs EXCEPT ![HandleOf(s)] = v]
    BY <1>6 DEF Reject
  <2>2. Moves(HandleOf(s))
    <3>1. CASE v \in CloseResults(HandleOf(s))
      BY <2>1, <3>1, CloseMoves
    <3>2. CASE v = "owned"
      BY <1>6, <2>1, <3>2 DEF Reject, Moves, Move
    <3> QED
      BY <3>1, <3>2
  <2> QED
    BY <1>6, <2>2 DEF Reject, Same, TypeOK
<1>7. CASE StartConfirmed(s)
  BY <1>7 DEF StartConfirmed, Same, TypeOK, Moves, Move, Free
<1>8. CASE AdmitPrepared(s) \/ FrameSeen(s) \/ FrameActivates(s) \/ PreparedFrame(s)
           \/ Abandon(s) \/ AbandonPreparation(s) \/ FailDevice(s)
  BY <1>8, <1>0 DEF AdmitPrepared, FrameSeen, FrameActivates, PreparedFrame,
                    Abandon, AbandonPreparation, FailDevice, Same, TypeOK
<1>9. CASE StartFail(s) \/ Fail(s)
  BY <1>9, <1>0, RevokeMoves DEF StartFail, Fail, FailedSession, Same, TypeOK
<1>10. CASE InputBegin(s)
  BY <1>10, <1>0 DEF InputBegin, Same, TypeOK, Moves, Move, Free
<1>11. CASE InputDone(s) \/ InputUnknown(s)
  BY <1>11, <1>0 DEF InputDone, InputUnknown, Confirmed, Same, TypeOK, Moves, Move, Free
<1> QED
  BY <1>1, <1>2, <1>3, <1>4, <1>5, <1>6, <1>7, <1>8, <1>9, <1>10, <1>11
  DEF SessionNext

CloserOf(k, s) ==
    \/ \/ CloseDrain(k) \/ CloseUncertain(k) \/ CleanBegin(k)
       \/ \E ok \in BOOLEAN : CleanEnd(k, ok)
       \/ CloseQuarantine(k) \/ CloseCall(k) \/ CloseAnswered(k) \/ CloseFailed(k)
       \/ \E finished \in BOOLEAN : CloseFinish(k, finished)
       \/ CloseFenced(k) \/ CloseRaises(k)
       \/ \E repair \in BOOLEAN : CloseFree(k, repair)
    \/ CloseRecord(k, s) \/ CloseBegin(k, s)

LEMMA CloserMoves ==
  ASSUME TypeOK, Targets, NEW k \in Closers, CloserNext(k)
  PROVE  \E s \in Sessions :
           /\ closer[k].pc # "idle" => s = closer[k].s
           /\ CloserOf(k, s)
           /\ UNCHANGED <<resv, scope, saw, inflight>>
           /\ \A t \in Sessions \ {s} : Same(t)
           /\ \A l \in Closers \ {k} : closer'[l] = closer[l]
           /\ Moves(HandleOf(s))
<1> USE Types DEF threads, Set, At, Target, Go, Leave
<1>0. ASSUME hs' = hs, NEW s \in Sessions PROVE Moves(HandleOf(s))
  BY <1>0 DEF Moves, Move
<1>1. CASE \E s \in Sessions : CloseRecord(k, s) \/ CloseBegin(k, s)
  <2> PICK s \in Sessions : CloseRecord(k, s) \/ CloseBegin(k, s)
    BY <1>1
  <2>1. /\ closer[k].pc = "idle" /\ hs' = hs
        /\ UNCHANGED <<resv, scope, saw, inflight>>
        /\ \A t \in Sessions \ {s} : Same(t)
        /\ \A l \in Closers \ {k} : closer'[l] = closer[l]
    BY DEF CloseRecord, CloseBegin, Same, TypeOK
  <2> QED
    BY <1>0, <2>1 DEF CloserOf
<1>2. CASE CloserNext(k) /\ ~\E s \in Sessions : CloseRecord(k, s) \/ CloseBegin(k, s)
  <2> DEFINE s == closer[k].s
  <2>1. closer[k].pc # "idle" /\ s \in Sessions /\ CloserOf(k, s)
    BY <1>2 DEF CloserNext, CloserOf, Targets, CloseDrain, CloseUncertain, CleanBegin,
                CleanEnd, CloseQuarantine, CloseCall, CloseAnswered, CloseFailed,
                CloseFinish, CloseFenced, CloseRaises, CloseFree
  <2>2. UNCHANGED <<resv, scope, saw, inflight>>
    BY <1>2 DEF CloserNext, CloseDrain, CloseUncertain, CleanBegin,
                CleanEnd, CloseQuarantine, CloseCall, CloseAnswered, CloseFailed,
                CloseFinish, CloseFenced, CloseRaises, CloseFree
  <2>3. \A t \in Sessions \ {s} : Same(t)
    BY <1>2, <2>2 DEF CloserNext, CloseDrain, CloseUncertain, CleanBegin,
                CleanEnd, CloseQuarantine, CloseCall, CloseAnswered, CloseFailed,
                CloseFinish, CloseFenced, CloseRaises, CloseFree, Same, TypeOK
  <2>4. \A l \in Closers \ {k} : closer'[l] = closer[l]
    BY <1>2 DEF CloserNext, CloseDrain, CloseUncertain, CleanBegin,
                CleanEnd, CloseQuarantine, CloseCall, CloseAnswered, CloseFailed,
                CloseFinish, CloseFenced, CloseRaises, CloseFree
  <2>5. Moves(HandleOf(s))
    <3>1. HandleOf(s) \in Owners
      BY <2>1
    <3>2. CASE CloseUncertain(k)
      BY <3>1, <3>2, <1>0, <2>1, RevokeMoves DEF CloseUncertain
    <3>3. CASE CloseCall(k)
      BY <3>1, <3>3, <1>0, <2>1 DEF CloseCall, CloseAdmitted, Moves, Move, Free
    <3>4. CASE CloseAnswered(k)
      BY <3>1, <3>4, <1>0, <2>1 DEF CloseAnswered, Moves, Move, Free
    <3>5. CASE CloseFailed(k)
      BY <3>1, <3>5, <1>0, <2>1, CloseMoves DEF CloseFailed
    <3>6. CASE \E finished \in BOOLEAN : CloseFinish(k, finished)
      <4>1. PICK v \in IF ss[s].bound /\ ~ss[s].scoped THEN CloseResults(HandleOf(s))
                       ELSE {hs[HandleOf(s)]} : hs' = [hs EXCEPT ![HandleOf(s)] = v]
        BY <3>6 DEF CloseFinish
      <4> QED
        BY <4>1, <3>1, <1>0, <2>1, CloseMoves
    <3>7. CASE \/ CloseDrain(k) \/ CleanBegin(k) \/ CloseQuarantine(k)
               \/ CloseFenced(k) \/ CloseRaises(k)
               \/ \E ok \in BOOLEAN : CleanEnd(k, ok)
               \/ \E repair \in BOOLEAN : CloseFree(k, repair)
      BY <3>7, <1>0, <2>1 DEF CloseDrain, CleanBegin, CloseQuarantine, CleanEnd,
                              CloseFenced, CloseRaises, CloseFree
    <3> QED
      BY <1>2, <3>2, <3>3, <3>4, <3>5, <3>6, <3>7 DEF CloserNext
  <2> QED
    BY <2>1, <2>2, <2>3, <2>4, <2>5
<1> QED
  BY <1>1, <1>2

LEMMA OneHandleMove ==
  ASSUME OneHandle, NEW h \in Owners, Moves(h)
  PROVE  OneHandle'
<1>1. CASE hs'[h] = hs[h]
  BY <1>1 DEF OneHandle, Moves
<1>2. CASE Native /\ Claimable
  BY <1>2 DEF OneHandle, Moves, Claimable, Free
<1>3. CASE hs[h] \notin Free
  BY <1>3 DEF OneHandle, Moves, Free
<1> QED
  BY <1>1, <1>2, <1>3 DEF Moves, Move, Grant

LEMMA OneHandleStep ==
  ASSUME TypeOK, Targets, OneHandle, HandleOwners, [Next]_vars
  PROVE  OneHandle'
<1>1. CASE \E r \in Reservations : ReservationNext(r)
  BY <1>1, ReservationMoves, OneHandleMove DEF Owners
<1>2. CASE \E s \in Sessions : SessionNext(s)
  BY <1>2, SessionMoves, OneHandleMove, Types
<1>3. CASE \E k \in Closers : CloserNext(k)
  BY <1>3, CloserMoves, OneHandleMove, Types
<1>4. CASE RecoverBegin \/ (\E ok \in BOOLEAN : RecoverEnd(ok)) \/ UNCHANGED vars
  BY <1>4 DEF RecoverBegin, RecoverEnd, vars, OneHandle
<1> QED
  BY <1>1, <1>2, <1>3, <1>4 DEF Next

----------------------------------------------------------------------------
(* Who uses the handle of a reservation.                                   *)

\* Only create_session says by which reservation a session came.
Kept == \A t \in Sessions : ss'[t].via = ss[t].via /\ ss'[t].scoped = ss[t].scoped

LEMMA Update ==
  ASSUME TypeOK, NEW s \in Sessions, NEW x, Set(s, x),
         x.via = ss[s].via, x.scoped = ss[s].scoped
  PROVE  Kept
BY DEF TypeOK, Set, Kept

LEMMA SessionKeeps ==
  ASSUME TypeOK, NEW s \in Sessions, SessionNext(s),
         ~\E r \in Reservations \cup {NoOne} : Allocate(s, r)
  PROVE  Kept /\ UNCHANGED <<resv, scope>>
<1> USE DEF threads
<1>1. UNCHANGED <<resv, scope>>
  BY DEF SessionNext, Setup, Construct, SetupFail, Bind, PrepareStartup, Reject,
         Launch, StartConfirmed, AdmitPrepared, StartFail, Fail, FailDevice, FrameSeen,
         FrameActivates, PreparedFrame, InputBegin, InputDone, InputUnknown,
         Abandon, AbandonPreparation
<1>2. CASE UNCHANGED ss
  BY <1>1, <1>2 DEF Kept
<1>t. ss[s] \in Records
  BY Types
<1>3. CASE Setup(s)
  BY <1>3, <1>t, Update DEF Setup, Records
<1>4. CASE Construct(s)
  BY <1>4, <1>t, Update DEF Construct, Records
<1>5. CASE Bind(s)
  BY <1>5, <1>t, Update DEF Bind, Records
<1>6. CASE PrepareStartup(s)
  BY <1>6, <1>t, Update DEF PrepareStartup, Records
<1>7. CASE Launch(s)
  BY <1>7, <1>t, Update DEF Launch, Records
<1>8. CASE StartConfirmed(s)
  BY <1>8, <1>t, Update DEF StartConfirmed, Records
<1>9. CASE AdmitPrepared(s)
  BY <1>9, <1>t, Update DEF AdmitPrepared, Records
<1>10. CASE SetupFail(s)
  BY <1>10, <1>t, Update DEF SetupFail, Records
<1>11. CASE Reject(s)
  BY <1>11, <1>t, Update DEF Reject, Records
<1>12. CASE StartFail(s)
  BY <1>12, <1>t, Update DEF StartFail, Records
<1>13. CASE Fail(s)
  BY <1>13, <1>t, Update DEF Fail, Records
<1>14. CASE FailDevice(s) \/ FrameSeen(s) \/ InputBegin(s) \/ InputDone(s)
            \/ AbandonPreparation(s)
  BY <1>14, <1>2 DEF FailDevice, FrameSeen, InputBegin, InputDone, AbandonPreparation
<1>15. CASE FrameActivates(s)
  BY <1>15, <1>t, Update DEF FrameActivates, Records
<1>16. CASE PreparedFrame(s)
  BY <1>16, <1>t, Update DEF PreparedFrame, Records
<1>17. CASE InputUnknown(s)
  BY <1>17, <1>t, Update DEF InputUnknown, Records
<1>18. CASE Abandon(s)
  BY <1>18, <1>t, Update DEF Abandon, Abandoned, Records
<1> QED
  BY <1>1, <1>3, <1>4, <1>5, <1>6, <1>7, <1>8, <1>9, <1>10, <1>11, <1>12, <1>13,
     <1>14, <1>15, <1>16, <1>17, <1>18 DEF SessionNext

LEMMA CloserKeeps ==
  ASSUME TypeOK, Targets, NEW k \in Closers, CloserNext(k)
  PROVE  Kept
<1> USE DEF threads, At, Target
<1>1. CASE \E s \in Sessions : CloseRecord(k, s) \/ CloseBegin(k, s)
  <2> PICK s \in Sessions : CloseRecord(k, s) \/ CloseBegin(k, s)
    BY <1>1
  <2>1. ss[s] \in Records
    BY Types
  <2>2. CASE CloseRecord(k, s)
    BY <2>1, <2>2, Update DEF CloseRecord, Records
  <2>3. CASE CloseBegin(k, s)
    BY <2>1, <2>3, Update DEF CloseBegin, Records
  <2> QED
    BY <2>2, <2>3
<1> DEFINE s == closer[k].s
<1>t. closer[k].pc # "idle" => s \in Sessions /\ ss[s] \in Records
  BY Types DEF Targets
<1>2. CASE UNCHANGED ss
  BY <1>2 DEF Kept
<1>3. CASE CloseDrain(k)
  BY <1>3, <1>t, Update DEF CloseDrain, Records
<1>4. CASE CloseUncertain(k)
  BY <1>4, <1>t, Update DEF CloseUncertain, Records
<1>5. CASE CleanBegin(k)
  BY <1>5, <1>t, Update DEF CleanBegin, Records
<1>6. CASE \E ok \in BOOLEAN : CleanEnd(k, ok)
  <2>1. CASE ss' = [ss EXCEPT ![s].st = "failed"]
    BY <1>6, <2>1, <1>t DEF CleanEnd, Kept, TypeOK, Records
  <2> QED
    BY <1>6, <1>2, <2>1 DEF CleanEnd
<1>7. CASE \/ CloseQuarantine(k) \/ CloseCall(k) \/ CloseRaises(k)
           \/ \E repair \in BOOLEAN : CloseFree(k, repair)
  BY <1>7, <1>2 DEF CloseQuarantine, CloseCall, CloseRaises, CloseFree
<1>8. CASE CloseAnswered(k)
  BY <1>8, <1>t, Update DEF CloseAnswered, Records
<1>9. CASE CloseFenced(k)
  BY <1>9, <1>t, Update DEF CloseFenced, Records
<1>10. CASE CloseFailed(k)
  <2>1. closer[k].pc # "idle"
    BY <1>10 DEF CloseFailed
  <2>2. \E x \in {[ss[s] EXCEPT !.st = "failed"], Abandoned(s)} : Set(s, x)
    BY <1>10 DEF CloseFailed
  <2>3. /\ [ss[s] EXCEPT !.st = "failed"].via = ss[s].via
        /\ [ss[s] EXCEPT !.st = "failed"].scoped = ss[s].scoped
        /\ Abandoned(s).via = ss[s].via /\ Abandoned(s).scoped = ss[s].scoped
    BY <2>1, <1>t DEF Abandoned, Records
  <2> QED
    BY <2>1, <2>2, <2>3, <1>t, Update
<1>11. CASE \E finished \in BOOLEAN : CloseFinish(k, finished)
  <2>1. closer[k].pc # "idle"
    BY <1>11 DEF CloseFinish
  <2>2. \E x \in {[ss[s] EXCEPT !.st = "failed"], [ss[s] EXCEPT !.st = "closed"]} : Set(s, x)
    BY <1>11 DEF CloseFinish
  <2>3. /\ [ss[s] EXCEPT !.st = "failed"].via = ss[s].via
        /\ [ss[s] EXCEPT !.st = "failed"].scoped = ss[s].scoped
        /\ [ss[s] EXCEPT !.st = "closed"].via = ss[s].via
        /\ [ss[s] EXCEPT !.st = "closed"].scoped = ss[s].scoped
    BY <2>1, <1>t DEF Records
  <2> QED
    BY <2>1, <2>2, <2>3, <1>t, Update
<1> QED
  BY <1>1, <1>3, <1>4, <1>5, <1>6, <1>7, <1>8, <1>9, <1>10, <1>11 DEF CloserNext

\* A step that keeps the tables and the sessions' reservations keeps the owners
\* too, if it releases no handle of a reservation in the table.
LEMMA OwnersKept ==
  ASSUME TypeOK, HandleOwners, Kept, UNCHANGED <<resv, scope>>, NEW h \in Owners, Moves(h),
         hs'[h] = "released" => hs[h] = "released" \/ h \notin resv
  PROVE  HandleOwners'
<1> SUFFICES ASSUME Native PROVE HandleOwners'
  BY DEF HandleOwners
<1>0. \A r \in resv : r \in Owners
  BY DEF TypeOK, Owners
<1>1. \A r \in resv : hs'[r] \notin Free
  BY <1>0 DEF HandleOwners, Moves, Move, Grant, Free
<1>2. \A s \in Sessions : ss'[s].via # NoOne => hs'[ss'[s].via] # "none"
  <2> SUFFICES ASSUME NEW s \in Sessions, ss[s].via # NoOne PROVE hs'[ss[s].via] # "none"
    BY DEF Kept
  <2>1. ss[s].via \in Owners /\ hs[ss[s].via] # "none"
    BY DEF HandleOwners, TypeOK, Records, Owners
  <2> QED
    BY <2>1 DEF Moves, Move, Grant
<1> QED
  BY <1>1, <1>2 DEF HandleOwners, Kept

LEMMA OwnersReservation ==
  ASSUME TypeOK, HandleOwners, NEW r \in Reservations, ReservationNext(r)
  PROVE  HandleOwners'
<1> SUFFICES ASSUME Native PROVE HandleOwners'
  BY DEF HandleOwners
<1>0. r \in Owners /\ resv \subseteq Owners /\ scope \subseteq resv /\ NoOne # r
  BY LabAssumption DEF TypeOK, Owners
<1>1. UNCHANGED <<ss, prep, threads>> /\ Moves(r) /\ Kept
  BY ReservationMoves DEF Kept
<1>2. \A s \in Sessions : ss[s].via # NoOne => ss[s].via \in Owners /\ hs'[ss[s].via] # "none"
  <2> SUFFICES ASSUME NEW s \in Sessions, ss[s].via # NoOne
               PROVE  ss[s].via \in Owners /\ hs'[ss[s].via] # "none"
    OBVIOUS
  <2>1. ss[s].via \in Owners /\ hs[ss[s].via] # "none"
    BY DEF HandleOwners, TypeOK, Records, Owners
  <2> QED
    BY <1>1, <2>1 DEF Moves, Move, Grant
<1>3. CASE Reserve(r)
  <2>1. CASE resv' = resv
    BY <1>3, <2>1, <1>0, <1>1, OwnersKept DEF Reserve
  <2>2. CASE resv' = resv \cup {r} /\ hs' = [hs EXCEPT ![r] = IF Native THEN "owned" ELSE "none"]
    <3>1. hs[r] = "none" /\ scope' = scope
      BY <1>3 DEF Reserve
    <3>2. \A s \in Sessions : ss[s].via # r
      BY <3>1, <1>0 DEF HandleOwners
    <3>3. \A q \in resv' : hs'[q] \notin Free
      BY <2>2, <1>0, Types DEF HandleOwners, Free
    <3> QED
      BY <1>1, <1>2, <2>2, <3>1, <3>2, <3>3 DEF HandleOwners
  <2> QED
    BY <1>3, <2>1, <2>2 DEF Reserve
<1>4. CASE ReleaseReservation(r)
  <2>1. resv' = resv \ {r} /\ scope' = scope
    BY <1>4 DEF ReleaseReservation
  <2>2. \A q \in resv' : hs'[q] \notin Free
    BY <2>1, <1>0, <1>1 DEF HandleOwners, Moves
  <2> QED
    BY <1>1, <1>2, <2>1, <2>2 DEF HandleOwners
<1>5. CASE Retain(r)
  BY <1>5, <1>1, <1>2 DEF Retain, HandleOwners
<1>6. CASE ScopeEffect(r) \/ ScopeConfirm(r) \/ ShutdownScope(r)
  <2>1. hs'[r] # "released" \/ hs[r] = "released"
    BY <1>6, <1>0, Types DEF ScopeEffect, ScopeConfirm, ShutdownScope, Revoked
  <2> QED
    BY <1>6, <2>1, <1>0, <1>1, OwnersKept DEF ScopeEffect, ScopeConfirm, ShutdownScope
<1>7. CASE ReleaseScope(r)
  <2>1. CASE resv' = resv \ {r} /\ scope' = scope \ {r}
    <3>1. \A q \in resv' : hs'[q] \notin Free
      BY <2>1, <1>0, <1>1 DEF HandleOwners, Moves
    <3> QED
      BY <1>1, <1>2, <2>1, <3>1 DEF HandleOwners
  <2>2. CASE UNCHANGED <<resv, scope>> /\ hs'[r] # "released"
    BY <2>2, <1>0, <1>1, OwnersKept
  <2> QED
    BY <1>7, <2>1, <2>2, <1>0, Types DEF ReleaseScope, Released
<1> QED
  BY <1>3, <1>4, <1>5, <1>6, <1>7 DEF ReservationNext

LEMMA OwnersSession ==
  ASSUME TypeOK, OneHandle, HandleOwners, NEW s \in Sessions, Stage(s), SessionNext(s)
  PROVE  HandleOwners'
<1> SUFFICES ASSUME Native PROVE HandleOwners'
  BY DEF HandleOwners
<1>0. /\ resv \subseteq Owners /\ scope \subseteq resv
      /\ resv \cap Sessions = {} /\ NoOne \notin resv
      /\ HandleOf(s) \in Owners
  BY LabAssumption, Types DEF TypeOK, Owners
<1>1. CASE \E r \in Reservations \cup {NoOne} : Allocate(s, r)
  <2> PICK r \in Reservations \cup {NoOne} : Allocate(s, r)
    BY <1>1
  <2>1. /\ ss' = [ss EXCEPT ![s] = [NewRecord EXCEPT !.st = "connecting", !.via = r,
                                !.scoped = r \in scope, !.pc = "setup"]]
        /\ resv' = (IF r \in scope THEN resv ELSE resv \ {r})
        /\ scope' = scope /\ hs' = hs
        /\ r # NoOne => r \in resv
    BY DEF Allocate, Set, MayAllocate
  <2>2. ss'[s].via = r /\ (ss'[s].scoped <=> r \in scope)
    BY <2>1 DEF TypeOK, NewRecord
  <2>3. \A t \in Sessions \ {s} : ss'[t] = ss[t]
    BY <2>1 DEF TypeOK
  <2>4. \A t \in Sessions \ {s} : ss[t].via = r /\ r # NoOne => ss[t].scoped /\ r \in scope
    BY <2>1 DEF HandleOwners
  <2>5. \A t \in Sessions : ss'[t].via # NoOne => hs'[ss'[t].via] # "none"
    BY <2>1, <2>2, <2>3 DEF HandleOwners, Free
  <2>6. \A t \in Sessions : ss'[t].via \in resv' => ss'[t].scoped /\ ss'[t].via \in scope'
    BY <2>1, <2>2, <2>3 DEF HandleOwners
  <2>7. \A q \in resv' : hs'[q] \notin Free
    BY <2>1 DEF HandleOwners
  <2>8. ASSUME NEW t \in Sessions, NEW u \in Sessions, t # u,
               ss'[t].via = ss'[u].via, ss'[t].via # NoOne
        PROVE  ss'[t].scoped /\ ss'[u].scoped
    <3>1. CASE t # s /\ u # s
      BY <2>3, <2>8, <3>1 DEF HandleOwners
    <3>2. CASE t = s
      BY <2>2, <2>3, <2>4, <2>8, <3>2
    <3>3. CASE u = s
      BY <2>2, <2>3, <2>4, <2>8, <3>3
    <3> QED
      BY <3>1, <3>2, <3>3
  <2> QED
    BY <2>5, <2>6, <2>7, <2>8 DEF HandleOwners
<1>2. CASE ~\E r \in Reservations \cup {NoOne} : Allocate(s, r)
  <2>1. Kept /\ UNCHANGED <<resv, scope>> /\ Moves(HandleOf(s))
    BY <1>2, SessionKeeps, SessionMoves
  <2>2. ASSUME hs'[HandleOf(s)] = "released", hs[HandleOf(s)] # "released"
        PROVE  ~ss[s].scoped
    <3>1. hs[HandleOf(s)] = "owned"
      BY <2>1, <2>2 DEF Moves, Move, Grant
    <3>2. CASE SetupFail(s)
      BY <2>2, <3>2, <1>0, SetupReleases, Types DEF SetupFail
    <3>3. CASE Reject(s)
      BY <2>2, <3>3, <1>0, Types DEF Reject
    <3>4. CASE Setup(s) \/ PrepareStartup(s) \/ StartConfirmed(s) \/ StartFail(s) \/ Fail(s)
      BY <2>2, <3>4, <1>0, Types DEF Setup, PrepareStartup, StartConfirmed, StartFail, Fail,
                               FailedSession, Revoked
    <3>5. CASE InputBegin(s) \/ InputDone(s) \/ InputUnknown(s)
      BY <2>2, <3>5, <1>0, Types DEF InputBegin, InputDone, InputUnknown, Confirmed
    <3>6. CASE UNCHANGED hs
      BY <2>2, <3>6
    <3> QED
      BY <1>2, <3>2, <3>3, <3>4, <3>5, <3>6
      DEF SessionNext, Construct, Bind, Launch, AdmitPrepared, FailDevice, FrameSeen,
          FrameActivates, PreparedFrame, Abandon, AbandonPreparation
  <2>3. ~ss[s].scoped => HandleOf(s) \notin resv
    BY <1>0 DEF HandleOwners, HandleOf
  <2> QED
    BY <1>0, <2>1, <2>2, <2>3, OwnersKept
<1> QED
  BY <1>1, <1>2

LEMMA OwnersCloser ==
  ASSUME TypeOK, Targets, OneHandle, HandleOwners, NEW k \in Closers, CloserNext(k)
  PROVE  HandleOwners'
<1> SUFFICES ASSUME Native PROVE HandleOwners'
  BY DEF HandleOwners
<1>1. PICK s \in Sessions : /\ closer[k].pc # "idle" => s = closer[k].s
                            /\ CloserOf(k, s)
                            /\ UNCHANGED <<resv, scope>>
                            /\ Moves(HandleOf(s))
  BY CloserMoves
<1>2. HandleOf(s) \in Owners
  BY Types
<1>3. ASSUME hs'[HandleOf(s)] = "released", hs[HandleOf(s)] # "released"
      PROVE  ~ss[s].scoped
  <2> USE DEF At, Target
  <2>1. CASE CloseUncertain(k) \/ CloseCall(k) \/ CloseAnswered(k)
    BY <1>1, <1>2, <1>3, <2>1, Types DEF CloseUncertain, CloseCall, CloseAnswered, Revoked
  <2>2. CASE CloseFailed(k)
    BY <1>1, <1>2, <1>3, <2>2, Types DEF CloseFailed
  <2>3. CASE \E finished \in BOOLEAN : CloseFinish(k, finished)
    BY <1>1, <1>2, <1>3, <2>3, Types DEF CloseFinish
  <2>4. CASE UNCHANGED hs
    BY <1>3, <2>4
  <2> QED
    BY <1>1, <2>1, <2>2, <2>3, <2>4
    DEF CloserOf, CloseRecord, CloseBegin, CloseDrain, CleanBegin, CleanEnd,
        CloseQuarantine, CloseFenced, CloseRaises, CloseFree
<1>4. ~ss[s].scoped => HandleOf(s) \notin resv
  BY LabAssumption DEF HandleOwners, HandleOf, TypeOK
<1> QED
  BY <1>1, <1>2, <1>3, <1>4, CloserKeeps, OwnersKept

LEMMA OwnersStep ==
  ASSUME LabInv, [Next]_vars
  PROVE  HandleOwners'
<1> USE DEF LabInv
<1>1. CASE RecoverBegin \/ (\E ok \in BOOLEAN : RecoverEnd(ok)) \/ UNCHANGED vars
  BY <1>1 DEF RecoverBegin, RecoverEnd, vars, HandleOwners
<1> QED
  BY <1>1, OwnersReservation, OwnersSession, OwnersCloser DEF Next

----------------------------------------------------------------------------
(* A session outside the scopes is alone with its handle.                  *)

LEMMA Apart ==
  ASSUME TypeOK, HandleOwners, Native, NEW s \in Sessions, NEW t \in Sessions,
         s # t, ~ss[s].scoped
  PROVE  HandleOf(s) # HandleOf(t)
BY LabAssumption DEF TypeOK, Records, HandleOwners, HandleOf

LEMMA ApartFromReservations ==
  ASSUME TypeOK, HandleOwners, Native, NEW s \in Sessions, ~ss[s].scoped,
         NEW r \in Reservations, ReservationNext(r)
  PROVE  hs'[HandleOf(s)] = hs[HandleOf(s)]
<1>1. CASE HandleOf(s) # r
  BY <1>1, ReservationMoves, Types DEF Moves
<1>2. CASE HandleOf(s) = r
  <2>1. ss[s].via = r /\ r # NoOne
    BY <1>2, LabAssumption DEF HandleOf
  <2>2. r \notin resv /\ hs[r] # "none"
    BY <2>1 DEF HandleOwners
  <2>3. r \notin scope
    BY <2>2 DEF TypeOK
  <2> QED
    BY <2>2, <2>3 DEF ReservationNext, Reserve, ReleaseReservation, Retain, ScopeEffect,
                      ScopeConfirm, ReleaseScope, ShutdownScope
<1> QED
  BY <1>1, <1>2

\* The handle of a start that confirmed its release is not taken again.
LEMMA ConfirmedKept ==
  ASSUME TypeOK, OneHandle, HandleOwners, NEW s \in Sessions, Stage(s), ss[s].conf,
         NEW h \in Owners, Moves(h)
  PROVE  hs'[HandleOf(s)] \in Free
<1>1. HandleOf(s) \in Owners /\ hs[HandleOf(s)] \in Free /\ ss[s].pc = "done"
  BY Types DEF Stage
<1>2. ~Grant(HandleOf(s))
  <2>1. CASE HandleOf(s) = s
    BY <1>1, <2>1 DEF Grant
  <2>2. CASE ss[s].via # NoOne
    <3>1. HandleOf(s) \in Reservations
      BY <2>2 DEF TypeOK, Records, HandleOf
    <3> QED
      BY <2>2, <3>1 DEF HandleOwners, HandleOf, Grant
  <2> QED
    BY <2>1, <2>2 DEF HandleOf
<1> QED
  BY <1>1, <1>2 DEF Moves, Move

----------------------------------------------------------------------------
(* The stages of create_session.                                           *)

\* The calls of close_session for s are the same or have come further.
SameCalls(s) ==
    \A k \in Closers : closer'[k].s = s =>
        closer[k].s = s /\ (closer'[k].pc = "calling" => closer[k].pc = "calling")

LEMMA StageQuiet ==
  ASSUME TypeOK, NEW s \in Sessions, Stage(s), Same(s), SameCalls(s),
         ss[s].conf => hs'[HandleOf(s)] \in Free
  PROVE  Stage(s)'
<1>1. HandleOf(s)' = HandleOf(s)
  BY DEF Same, HandleOf
<1> QED
  BY <1>1 DEF Stage, Same, SameCalls

LEMMA StageSession ==
  ASSUME TypeOK, OneHandle, HandleOwners, NEW s \in Sessions, Stage(s), SessionNext(s)
  PROVE  Stage(s)'
<1> USE DEF threads, Set
<1>t. ss[s] \in Records /\ ss \in [Sessions -> Records]
  BY Types DEF TypeOK
<1>c. /\ UNCHANGED closer /\ SameCalls(s) /\ HandleOf(s) \in Owners
      /\ ss[s].conf => hs'[HandleOf(s)] \in Free
  BY SessionMoves, ConfirmedKept, Types DEF SameCalls
<1>n. /\ ss[s].st = "none" => /\ ss[s].pc = "none" /\ ss[s].prov = "none"
                              /\ ~ss[s].stop /\ s \notin saw \cup inflight
      /\ ss[s].scoped \in BOOLEAN /\ ss[s].bound \in BOOLEAN /\ ss[s].conf \in BOOLEAN
  BY <1>t DEF Stage, NewRecord, Records
<1>h. ASSUME ss'[s].via = ss[s].via
      PROVE  HandleOf(s)' = HandleOf(s)
  BY <1>h DEF HandleOf
<1>1. CASE \E r \in Reservations \cup {NoOne} : Allocate(s, r)
  <2> PICK r \in Reservations \cup {NoOne} : Allocate(s, r)
    BY <1>1
  <2>1. /\ ss'[s].st = "connecting" /\ ss'[s].via = r /\ (ss'[s].scoped <=> r \in scope)
        /\ ss'[s].prov = "none" /\ ~ss'[s].bound /\ ~ss'[s].conf /\ ss'[s].pc = "setup"
    BY <1>t DEF Allocate, NewRecord
  <2>2. /\ s \notin saw' \cup inflight'
        /\ \A k \in Closers : closer'[k].s # s
        /\ NoOne \notin scope /\ NoOne \notin resv
        /\ s \in Prepared => r \in resv \ scope
    BY LabAssumption DEF Allocate, Stage, TypeOK
  <2> QED
    BY <2>1, <2>2 DEF Stage, Launched, TypeOK
<1>2. CASE Setup(s)
  BY <1>2, <1>t, <1>c, <1>n, <1>h DEF Setup, Stage, Records, Launched
<1>3. CASE Construct(s)
  BY <1>3, <1>t, <1>c, <1>n, <1>h DEF Construct, Stage, Records, Launched
<1>4. CASE SetupFail(s)
  BY <1>4, <1>t, <1>c, <1>n, <1>h, SetupReleases, Types DEF SetupFail, Stage, Records, Launched
<1>5. CASE Bind(s)
  BY <1>5, <1>t, <1>c, <1>n, <1>h DEF Bind, Stage, Records, Launched
<1>6. CASE PrepareStartup(s)
  BY <1>6, <1>t, <1>c, <1>n, <1>h DEF PrepareStartup, Stage, Records, Launched
<1>7. CASE Reject(s)
  BY <1>7, <1>t, <1>c, <1>n, <1>h DEF Reject, Stage, Records, Launched
<1>8. CASE Launch(s)
  BY <1>8, <1>t, <1>c, <1>n, <1>h DEF Launch, Stage, Records, Launched
<1>9. CASE StartConfirmed(s)
  BY <1>9, <1>t, <1>c, <1>n, <1>h DEF StartConfirmed, Stage, Records, Launched
<1>10. CASE AdmitPrepared(s)
  BY <1>10, <1>t, <1>c, <1>n, <1>h DEF AdmitPrepared, Stage, Records, Launched
<1>11. CASE StartFail(s)
  <2>1. CASE ss[s].st \in Gone
    BY <1>11, <2>1, <1>t, <1>c, <1>n, <1>h DEF StartFail, Stage, Records, Launched, Gone
  <2>2. CASE ss[s].st \notin Gone
    <3>1. ss' = [ss EXCEPT ![s] = [ss[s] EXCEPT !.st = "failed", !.pc = "done"]]
      BY <1>11, <2>2 DEF StartFail
    <3>2. UNCHANGED <<saw, inflight>> /\ ss[s].pc \notin {"none", "setup", "factory"}
      BY <1>11 DEF StartFail
    <3> QED
      BY <3>1, <3>2, <1>t, <1>c, <1>n, <1>h DEF Stage, Records, Launched
  <2> QED
    BY <2>1, <2>2
<1>12. CASE Fail(s)
  BY <1>12, <1>t, <1>c, <1>n, <1>h DEF Fail, Stage, Records, Launched
<1>13. CASE FrameSeen(s)
  BY <1>13, <1>t, <1>c, <1>n, <1>h DEF FrameSeen, Stage, Records, Launched
<1>14. CASE FrameActivates(s)
  BY <1>14, <1>t, <1>c, <1>n, <1>h DEF FrameActivates, Stage, Records, Launched
<1>15. CASE PreparedFrame(s)
  BY <1>15, <1>t, <1>c, <1>n, <1>h DEF PreparedFrame, Stage, Records, Launched
<1>16. CASE InputBegin(s)
  BY <1>16, <1>t, <1>c, <1>n, <1>h DEF InputBegin, Stage, Records, Launched
<1>17. CASE InputDone(s)
  BY <1>17, <1>t, <1>c, <1>n, <1>h DEF InputDone, Stage, Records, Launched
<1>18. CASE InputUnknown(s)
  BY <1>18, <1>t, <1>c, <1>n, <1>h DEF InputUnknown, Stage, Records, Launched
<1>19. CASE Abandon(s)
  BY <1>19, <1>t, <1>c, <1>n, <1>h DEF Abandon, Abandoned, Stage, Records, Launched
<1>20. CASE FailDevice(s) \/ AbandonPreparation(s)
  <2>1. Same(s)
    BY <1>20 DEF FailDevice, AbandonPreparation, Same
  <2> QED
    BY <2>1, <1>c, StageQuiet
<1> QED
  BY <1>1, <1>2, <1>3, <1>4, <1>5, <1>6, <1>7, <1>8, <1>9, <1>10, <1>11, <1>12, <1>13,
     <1>14, <1>15, <1>16, <1>17, <1>18, <1>19, <1>20 DEF SessionNext

\* What a call of close_session changes in the record of its session.
LEMMA CloserRecord ==
  ASSUME TypeOK, Targets, NEW k \in Closers, NEW s \in Sessions, CloserOf(k, s),
         closer[k].pc # "idle" => s = closer[k].s
  PROVE  /\ ss'[s].pc = ss[s].pc /\ ss'[s].bound = ss[s].bound
         /\ ss'[s].via = ss[s].via /\ ss'[s].scoped = ss[s].scoped
         /\ ss'[s].conf = ss[s].conf
         /\ ss'[s].st \in Stopped \cup {ss[s].st}
         /\ ss'[s].fenced = ss[s].fenced \/ ss'[s].st = "failed"
         /\ ss'[s].prov = IF CloseAnswered(k) THEN "closed" ELSE ss[s].prov
<1> USE DEF threads, Set, At, Target
<1>t. ss[s] \in Records /\ ss \in [Sessions -> Records]
  BY Types DEF TypeOK
<1> DEFINE Goal(x) == /\ x.pc = ss[s].pc /\ x.bound = ss[s].bound
                      /\ x.via = ss[s].via /\ x.scoped = ss[s].scoped
                      /\ x.conf = ss[s].conf
                      /\ x.st \in Stopped \cup {ss[s].st}
                      /\ x.fenced = ss[s].fenced \/ x.st = "failed"
<1> DEFINE Full(x) == Goal(x) /\ x.prov = ss[s].prov
<1>a. /\ Full([ss[s] EXCEPT !.st = "failed"])
      /\ Full([ss[s] EXCEPT !.st = "draining"])
      /\ Full([ss[s] EXCEPT !.st = "closed"])
  BY <1>t DEF Records, Stopped
<1>b. /\ Full([ss[s] EXCEPT !.st = "closed", !.stop = TRUE])
      /\ Full([ss[s] EXCEPT !.stop = TRUE])
  BY <1>t DEF Records, Stopped
<1>c. /\ Full([ss[s] EXCEPT !.st = "failed", !.open = FALSE])
      /\ Full([ss[s] EXCEPT !.open = FALSE])
  BY <1>t DEF Records, Stopped
<1>d. /\ Full([ss[s] EXCEPT !.open = FALSE, !.st = "failed"])
      /\ Full([ss[s] EXCEPT !.open = FALSE, !.st = ss[s].st])
  BY <1>t DEF Records, Stopped
<1>e. /\ Goal([ss[s] EXCEPT !.prov = "closed"])
      /\ [ss[s] EXCEPT !.prov = "closed"].prov = "closed"
  BY <1>t DEF Records, Stopped
<1>f. Full(Abandoned(s))
  BY <1>t DEF Abandoned, Records, Stopped
<1>1. CASE CloseAnswered(k)
  BY <1>1, <1>e, <1>t DEF CloseAnswered
<1>2. CASE ~CloseAnswered(k)
  <2> SUFFICES Full(ss'[s])
    BY <1>2
  <2>1. CASE CloseRecord(k, s) \/ CloseBegin(k, s)
    BY <2>1, <1>b, <1>t DEF CloseRecord, CloseBegin
  <2>2. CASE UNCHANGED ss
    BY <2>2
  <2>3. CASE CloseDrain(k) \/ CloseFenced(k)
    <3>1. \E x \in {[ss[s] EXCEPT !.st = "draining"], [ss[s] EXCEPT !.st = "failed"]} :
            ss' = [ss EXCEPT ![s] = x]
      BY <2>3 DEF CloseDrain, CloseFenced
    <3> QED
      BY <3>1, <1>a, <1>t
  <2>4. CASE CloseUncertain(k)
    BY <2>4, <1>c, <1>t DEF CloseUncertain
  <2>5. CASE CleanBegin(k)
    <3>1. \E x \in {[ss[s] EXCEPT !.open = FALSE],
                     [ss[s] EXCEPT !.open = FALSE, !.st = ss[s].st],
                     [ss[s] EXCEPT !.open = FALSE, !.st = "failed"]} :
            ss' = [ss EXCEPT ![s] = x]
      BY <2>5 DEF CleanBegin
    <3> QED
      BY <3>1, <1>c, <1>d, <1>t
  <2>6. CASE \E ok \in BOOLEAN : CleanEnd(k, ok)
    BY <2>6, <1>a, <1>t DEF CleanEnd
  <2>7. CASE CloseFailed(k)
    <3>1. \E x \in {[ss[s] EXCEPT !.st = "failed"], Abandoned(s)} :
            ss' = [ss EXCEPT ![s] = x]
      BY <2>7 DEF CloseFailed
    <3> QED
      BY <3>1, <1>a, <1>f, <1>t
  <2>8. CASE \E finished \in BOOLEAN : CloseFinish(k, finished)
    <3>1. \E x \in {[ss[s] EXCEPT !.st = "failed"], [ss[s] EXCEPT !.st = "closed"]} :
            ss' = [ss EXCEPT ![s] = x]
      BY <2>8 DEF CloseFinish
    <3> QED
      BY <3>1, <1>a, <1>t
  <2> QED
    BY <1>2, <2>1, <2>2, <2>3, <2>4, <2>5, <2>6, <2>7, <2>8
    DEF CloserOf, CloseQuarantine, CloseCall, CloseRaises, CloseFree
<1> QED
  BY <1>1, <1>2

LEMMA StageCloser ==
  ASSUME TypeOK, Targets, OneHandle, HandleOwners, NEW s \in Sessions, Stage(s),
         NEW k \in Closers, CloserNext(k)
  PROVE  Stage(s)'
<1> USE DEF threads, Set, At, Target, Go, Leave
<1>1. PICK t \in Sessions : /\ closer[k].pc # "idle" => t = closer[k].s
                            /\ CloserOf(k, t)
                            /\ UNCHANGED <<saw, inflight>>
                            /\ \A u \in Sessions \ {t} : Same(u)
                            /\ \A l \in Closers \ {k} : closer'[l] = closer[l]
                            /\ Moves(HandleOf(t))
  BY CloserMoves
<1>t. /\ ss[s] \in Records /\ ss \in [Sessions -> Records]
      /\ closer[k] \in Closing /\ closer \in [Closers -> Closing]
  BY Types DEF TypeOK
<1>f. ss[s].conf => hs'[HandleOf(s)] \in Free
  BY <1>1, ConfirmedKept, Types
<1>c. \/ closer'[k] = closer[k]
      \/ closer'[k].s = NoOne
      \/ closer'[k].s = t /\ (closer'[k].pc = "calling" => CloseCall(k))
  <2>1. CASE CloseRecord(k, t) \/ CloseBegin(k, t)
    BY <2>1, <1>t DEF CloseRecord, CloseBegin, Idle
  <2>2. CASE CloseDrain(k) \/ CloseUncertain(k) \/ CleanBegin(k) \/ CloseAnswered(k)
    BY <2>2, <1>1, <1>t DEF CloseDrain, CloseUncertain, CleanBegin, CloseAnswered, Closing
  <2>3. CASE \E ok \in BOOLEAN : CleanEnd(k, ok)
    BY <2>3, <1>1, <1>t DEF CleanEnd, Closing
  <2>4. CASE CloseCall(k)
    BY <2>4, <1>1, <1>t DEF CloseCall, Closing
  <2>5. CASE \E finished \in BOOLEAN : CloseFinish(k, finished)
    <3>1. Leave(k) \/ Go(k, "free")
      BY <2>5 DEF CloseFinish
    <3>2. CASE Leave(k)
      BY <3>2, <1>t DEF Idle
    <3>3. CASE Go(k, "free") /\ closer[k].pc # "idle"
      BY <3>3, <1>1, <1>t DEF Closing
    <3> QED
      BY <2>5, <3>1, <3>2, <3>3 DEF CloseFinish
  <2>6. CASE CloseQuarantine(k) \/ CloseFailed(k) \/ CloseFenced(k) \/ CloseRaises(k)
             \/ \E repair \in BOOLEAN : CloseFree(k, repair)
    BY <2>6, <1>t DEF CloseQuarantine, CloseFailed, CloseFenced, CloseRaises, CloseFree, Idle
  <2> QED
    BY <1>1, <2>1, <2>2, <2>3, <2>4, <2>5, <2>6 DEF CloserOf
<1>2. CASE s # t
  <2>1. Same(s) /\ SameCalls(s)
    BY <1>1, <1>2, <1>c, LabAssumption DEF SameCalls
  <2> QED
    BY <2>1, <1>f, StageQuiet
<1>3. CASE s = t
  <2>1. Kept /\ HandleOf(s)' = HandleOf(s)
    BY CloserKeeps DEF Kept, HandleOf
  <2>2. ss[s].st # "none"
    <3>1. CASE closer[k].pc # "idle"
      BY <1>1, <1>3, <3>1 DEF Stage
    <3>2. CASE CloseRecord(k, t) \/ CloseBegin(k, t)
      BY <1>3, <3>2 DEF CloseRecord, CloseBegin
    <3> QED
      BY <1>1, <3>1, <3>2 DEF CloserOf, CloseDrain, CloseUncertain, CleanBegin, CleanEnd,
               CloseQuarantine, CloseCall, CloseAnswered, CloseFailed, CloseFinish,
               CloseFenced, CloseRaises, CloseFree
  <2>3. /\ ss'[s].st \in Stopped \cup {ss[s].st}
        /\ ss'[s].prov \in {ss[s].prov, "closed"}
        /\ ss'[s].prov = "closed" => ss[s].prov = "closed" \/ At(k, "calling")
        /\ ss'[s].pc = ss[s].pc /\ ss'[s].bound = ss[s].bound /\ ss'[s].conf = ss[s].conf
    BY <1>1, <1>3, CloserRecord DEF CloseAnswered
  <2>4. At(k, "calling") => closer[k].s = s
    BY <1>1, <1>3
  <2>5. ASSUME NEW l \in Closers, closer'[l].s = s, closer'[l].pc = "calling"
        PROVE  ss'[s].pc \notin {"setup", "factory"}
    <3>1. CASE l # k \/ closer'[k] = closer[k]
      BY <1>1, <2>3, <2>5, <3>1 DEF Stage
    <3>2. CASE l = k /\ CloseCall(k)
      BY <1>1, <1>3, <2>3, <3>2 DEF CloseCall, Stage, Launched
    <3> QED
      BY <1>c, <2>5, <3>1, <3>2, LabAssumption
  <2>6. ss'[s].st # "none" /\ (ss'[s].st = "active" => ss[s].st = "active")
    BY <2>2, <2>3 DEF Stopped
  <2>7. ss'[s].pc \in {"setup", "factory"} => ss'[s].prov = "none"
    BY <2>3, <2>4 DEF Stage
  <2> QED
    BY <2>1, <2>2, <2>3, <2>5, <2>6, <2>7, <1>1, <1>f DEF Stage, Kept
<1> QED
  BY <1>2, <1>3

LEMMA StageStep ==
  ASSUME LabInv, [Next]_vars, NEW s \in Sessions
  PROVE  Stage(s)'
<1> USE DEF LabInv
<1>1. CASE \E r \in Reservations : ReservationNext(r)
  <2> PICK r \in Reservations : ReservationNext(r)
    BY <1>1
  <2>1. UNCHANGED <<ss, prep, threads>> /\ Moves(r) /\ r \in Owners
    BY ReservationMoves DEF Owners
  <2>2. Same(s) /\ SameCalls(s)
    BY <2>1 DEF threads, Same, SameCalls
  <2> QED
    BY <2>1, <2>2, ConfirmedKept, StageQuiet
<1>2. CASE SessionNext(s)
  BY <1>2, StageSession
<1>3. ASSUME NEW t \in Sessions \ {s}, SessionNext(t) PROVE Stage(s)'
  <2>1. Same(s) /\ SameCalls(s) /\ Moves(HandleOf(t)) /\ HandleOf(t) \in Owners
    BY <1>3, SessionMoves, Types DEF SameCalls
  <2> QED
    BY <2>1, ConfirmedKept, StageQuiet
<1>4. CASE \E k \in Closers : CloserNext(k)
  BY <1>4, StageCloser
<1>5. CASE RecoverBegin \/ (\E ok \in BOOLEAN : RecoverEnd(ok)) \/ UNCHANGED vars
  <2>1. Same(s) /\ SameCalls(s) /\ hs' = hs
    BY <1>5 DEF RecoverBegin, RecoverEnd, vars, Same, SameCalls
  <2> QED
    BY <2>1, StageQuiet DEF Stage
<1> QED
  BY <1>1, <1>2, <1>3, <1>4, <1>5 DEF Next

----------------------------------------------------------------------------
(* Permits.                                                                *)

\* A step that hands out no permit and starts no provider.
NoNewPermit(s) ==
    /\ ss'[s].via = ss[s].via /\ ss'[s].scoped = ss[s].scoped
    /\ StartPermit(s)' => StartPermit(s)
    /\ InputPermit(s)' => InputPermit(s)
    /\ \A k \in Closers : ClosePermit(k, s)' => ClosePermit(k, s)
    /\ ss'[s].prov = "running" => ss[s].prov = "running"

\* It may also lose the handle, or move it when nothing uses it.
LEMMA PermitsKept ==
  ASSUME NEW s \in Sessions, Permits(s), NoNewPermit(s),
         \/ hs'[HandleOf(s)] \in {hs[HandleOf(s)], "lost"}
         \/ hs[HandleOf(s)] = "owned" /\ hs'[HandleOf(s)] # "open"
  PROVE  Permits(s)'
<1> SUFFICES ASSUME Native, ~ss[s].scoped PROVE Permits(s)'
  BY DEF NoNewPermit, Permits
<1>0. HandleOf(s)' = HandleOf(s)
  BY DEF HandleOf, NoNewPermit
<1> DEFINE h == HandleOf(s)
<1>1. CASE hs'[h] = hs[h]
  BY <1>0, <1>1 DEF Permits, NoNewPermit
<1>2. CASE hs'[h] = "lost"
  BY <1>0, <1>2 DEF Permits
<1>3. CASE hs[h] = "owned" /\ hs'[h] # "open"
  BY <1>0, <1>3 DEF Permits, NoNewPermit
<1> QED
  BY <1>1, <1>2, <1>3

\* Nothing holds a permit and no provider runs.
Unused(s) == /\ ~StartPermit(s) /\ ~InputPermit(s) /\ ss[s].prov # "running"
             /\ \A k \in Closers : ~ClosePermit(k, s)

LEMMA UnusedPermits ==
  ASSUME NEW s \in Sessions, Unused(s)'
  PROVE  Permits(s)'
BY DEF Unused, Permits

LEMMA PermitsSession ==
  ASSUME TypeOK, OneHandle, HandleOwners, NEW s \in Sessions, Stage(s), Permits(s),
         SessionNext(s)
  PROVE  Permits(s)'
<1> USE DEF threads, Set
<1> DEFINE h == HandleOf(s)
<1>t. /\ ss[s] \in Records /\ ss \in [Sessions -> Records] /\ h \in Owners
      /\ hs \in [Owners -> HandleStates]
  BY Types DEF TypeOK
<1>c. UNCHANGED closer
  BY SessionMoves
<1>k. \A k \in Closers : ClosePermit(k, s)' <=> ClosePermit(k, s)
  BY <1>c DEF ClosePermit
<1>n. /\ ss[s].st = "none" => /\ ss[s].pc = "none" /\ s \notin saw \cup inflight
                              /\ \A k \in Closers : closer[k].s # s
      /\ ss[s].pc \in {"setup", "factory"} =>
            /\ s \notin inflight /\ ss[s].prov = "none"
            /\ \A k \in Closers : ~ClosePermit(k, s)
      /\ ss[s].pc \in {"bind", "prepare"} => s \notin inflight /\ ss[s].prov # "running"
  BY <1>t DEF Stage, NewRecord, Launched, ClosePermit
<1>1. CASE \E r \in Reservations \cup {NoOne} : Allocate(s, r)
  <2> PICK r \in Reservations \cup {NoOne} : Allocate(s, r)
    BY <1>1
  <2>1. ss'[s].pc = "setup" /\ ss'[s].prov = "none" /\ s \notin inflight'
        /\ \A k \in Closers : closer'[k].s # s
    BY <1>n, <1>t DEF Allocate, NewRecord
  <2>2. Unused(s)'
    BY <2>1 DEF Unused, StartPermit, InputPermit, ClosePermit
  <2> QED
    BY <2>2, UnusedPermits
<1>2. CASE Setup(s)
  <2>1. Unused(s)'
    BY <1>2, <1>k, <1>n, <1>t DEF Setup, Unused, StartPermit, InputPermit, Records
  <2> QED
    BY <2>1, UnusedPermits
<1>3. CASE Construct(s)
  <2>1. CASE Native
    <3>1. Unused(s)'
      BY <1>3, <2>1, <1>k, <1>n, <1>t DEF Construct, Unused, StartPermit, InputPermit, Records
    <3> QED
      BY <3>1, UnusedPermits
  <2> QED
    BY <2>1 DEF Permits
<1>4. CASE SetupFail(s)
  <2>1. Unused(s)'
    BY <1>4, <1>k, <1>n, <1>t DEF SetupFail, Unused, StartPermit, InputPermit, Records
  <2> QED
    BY <2>1, UnusedPermits
<1>5. CASE Bind(s)
  <2>1. NoNewPermit(s) /\ hs' = hs
    BY <1>5, <1>k, <1>n, <1>t DEF Bind, NoNewPermit, StartPermit, InputPermit, Records
  <2> QED
    BY <2>1, PermitsKept
<1>6. CASE PrepareStartup(s)
  <2> SUFFICES ASSUME Native, ~ss'[s].scoped PROVE Permits(s)'
    BY DEF Permits
  <2>1. /\ ss'[s].via = ss[s].via /\ ss'[s].scoped = ss[s].scoped
        /\ ss'[s].prov = ss[s].prov /\ hs[h] = "owned" /\ hs'[h] = "open"
        /\ inflight' = inflight /\ ss[s].pc = "prepare"
    BY <1>6, <1>t DEF PrepareStartup, Records
  <2>2. HandleOf(s)' = h
    BY <2>1 DEF HandleOf
  <2> QED
    BY <2>1, <2>2, <1>k, <1>n DEF Permits, InputPermit
<1>7. CASE Reject(s)
  <2>1. NoNewPermit(s)
    BY <1>7, <1>k, <1>n, <1>t DEF Reject, NoNewPermit, StartPermit, InputPermit, Records
  <2>2. hs[h] = "owned" /\ hs'[h] \in {"owned", "released", "lost"}
    BY <1>7, <1>t DEF Reject, CloseResults
  <2> QED
    BY <2>1, <2>2, PermitsKept
<1>8. CASE Launch(s)
  <2>1. /\ ss'[s].via = ss[s].via /\ ss'[s].scoped = ss[s].scoped /\ hs' = hs
        /\ ss[s].pc = "start" /\ ss'[s].pc = "confirm"
        /\ ss'[s].bound = ss[s].bound /\ inflight' = inflight
    BY <1>8, <1>t DEF Launch, Records
  <2>2. HandleOf(s)' = h
    BY <2>1 DEF HandleOf
  <2> QED
    BY <2>1, <2>2, <1>k DEF Permits, StartPermit, InputPermit
<1>9. CASE StartConfirmed(s)
  <2>1. /\ NoNewPermit(s) /\ ~StartPermit(s)' /\ StartPermit(s)
        /\ hs'[h] = IF hs[h] = "open" THEN "helper" ELSE hs[h]
    BY <1>9, <1>k, <1>t DEF StartConfirmed, NoNewPermit, StartPermit, InputPermit, Records
  <2>2. CASE hs[h] = "open"
    <3>1. HandleOf(s)' = h
      BY <2>1 DEF NoNewPermit, HandleOf
    <3> QED
      BY <2>1, <2>2, <3>1 DEF NoNewPermit, Permits
  <2> QED
    BY <2>1, <2>2, PermitsKept
<1>10. CASE AdmitPrepared(s) \/ PreparedFrame(s) \/ FrameActivates(s) \/ Abandon(s)
  <2>1. NoNewPermit(s) /\ hs' = hs
    <3>1. CASE AdmitPrepared(s)
      BY <3>1, <1>k, <1>t DEF AdmitPrepared, NoNewPermit, StartPermit, InputPermit, Records
    <3>2. CASE PreparedFrame(s)
      BY <3>2, <1>k, <1>t DEF PreparedFrame, NoNewPermit, StartPermit, InputPermit, Records
    <3>3. CASE FrameActivates(s)
      BY <3>3, <1>k, <1>t DEF FrameActivates, NoNewPermit, StartPermit, InputPermit, Records
    <3>4. CASE Abandon(s)
      BY <3>4, <1>k, <1>t DEF Abandon, Abandoned, NoNewPermit, StartPermit, InputPermit, Records
    <3> QED
      BY <1>10, <3>1, <3>2, <3>3, <3>4
  <2> QED
    BY <2>1, PermitsKept
<1>11. CASE StartFail(s) \/ Fail(s)
  <2>1. hs'[h] \in {hs[h], "lost"}
    BY <1>11, <1>t DEF StartFail, Fail, FailedSession, Revoked
  <2>2. NoNewPermit(s)
    <3>1. CASE Fail(s)
      BY <3>1, <1>k, <1>t DEF Fail, NoNewPermit, StartPermit, InputPermit, Records
    <3>2. CASE StartFail(s)
      <4>1. inflight' = inflight
        BY <3>2 DEF StartFail
      <4>2. CASE ss' = [ss EXCEPT ![s] = [ss[s] EXCEPT !.pc = "done"]]
        BY <4>1, <4>2, <1>k, <1>t DEF NoNewPermit, StartPermit, InputPermit, Records
      <4>3. CASE ss' = [ss EXCEPT ![s] = [ss[s] EXCEPT !.st = "failed", !.pc = "done"]]
        BY <4>1, <4>3, <1>k, <1>t DEF NoNewPermit, StartPermit, InputPermit, Records
      <4> QED
        BY <3>2, <4>2, <4>3 DEF StartFail
    <3> QED
      BY <1>11, <3>1, <3>2
  <2> QED
    BY <2>1, <2>2, PermitsKept
<1>12. CASE FrameSeen(s) \/ AbandonPreparation(s) \/ FailDevice(s)
  <2>1. NoNewPermit(s) /\ hs' = hs
    BY <1>12, <1>k DEF FrameSeen, AbandonPreparation, FailDevice, NoNewPermit,
                       StartPermit, InputPermit
  <2> QED
    BY <2>1, PermitsKept
<1>13. CASE InputBegin(s)
  <2>1. UNCHANGED ss /\ HandleOf(s)' = h
    BY <1>13 DEF InputBegin, HandleOf
  <2>2. CASE ss[s].bound
    BY <1>13, <2>1, <2>2, <1>k, <1>t DEF InputBegin, Permits, StartPermit, InputPermit
  <2>3. CASE ~ss[s].bound
    <3>1. NoNewPermit(s) /\ hs' = hs
      BY <1>13, <2>1, <2>3, <1>k DEF InputBegin, NoNewPermit, StartPermit, InputPermit
    <3> QED
      BY <3>1, PermitsKept
  <2> QED
    BY <2>2, <2>3
<1>14. CASE InputDone(s) \/ InputUnknown(s)
  <2>1. NoNewPermit(s) /\ s \in inflight /\ s \notin inflight'
    <3>1. CASE InputDone(s)
      BY <3>1, <1>k DEF InputDone, NoNewPermit, StartPermit, InputPermit
    <3>2. CASE InputUnknown(s)
      BY <3>2, <1>k, <1>t DEF InputUnknown, NoNewPermit, StartPermit, InputPermit, Records
    <3> QED
      BY <1>14, <3>1, <3>2
  <2>2. CASE hs' = hs
    BY <2>1, <2>2, PermitsKept
  <2>3. CASE hs' = [hs EXCEPT ![h] = "helper"] /\ hs[h] = "open" /\ ss[s].bound
    <3>1. HandleOf(s)' = h /\ hs'[h] = "helper"
      BY <2>1, <2>3, <1>t DEF NoNewPermit, HandleOf
    <3>2. InputPermit(s) /\ ~InputPermit(s)'
      BY <2>1, <2>3 DEF InputPermit
    <3> QED
      BY <2>1, <2>3, <3>1, <3>2 DEF NoNewPermit, Permits
  <2> QED
    BY <1>14, <2>2, <2>3 DEF InputDone, InputUnknown, Confirmed
<1> QED
  BY <1>1, <1>2, <1>3, <1>4, <1>5, <1>6, <1>7, <1>8, <1>9, <1>10, <1>11, <1>12, <1>13,
     <1>14 DEF SessionNext

\* Only CloseCall hands a permit to a call of close_session.
LEMMA CloserPermit ==
  ASSUME TypeOK, Targets, NEW k \in Closers, NEW s \in Sessions, CloserOf(k, s),
         ~CloseCall(k), NEW t \in Sessions, ClosePermit(k, t)'
  PROVE  ClosePermit(k, t) /\ closer'[k] = closer[k]
<1> USE Types, LabAssumption DEF threads, At, Target, ClosePermit
<1>t. closer[k] \in Closing /\ closer \in [Closers -> Closing]
  BY Types
<1>1. CASE CloseRecord(k, s)
  BY <1>1 DEF CloseRecord
<1>2. CASE CloseBegin(k, s)
  BY <1>2, <1>t DEF CloseBegin, Idle
<1>3. CASE Leave(k)
  BY <1>3, <1>t DEF Leave, Idle
<1>4. ASSUME NEW p, Go(k, p), p # "calling" PROVE FALSE
  BY <1>4, <1>t DEF Go, Closing
<1>5. CASE CloseDrain(k) \/ CloseUncertain(k) \/ CleanBegin(k) \/ CloseAnswered(k)
  BY <1>5, <1>4 DEF CloseDrain, CloseUncertain, CleanBegin, CloseAnswered
<1>6. CASE \/ \E ok \in BOOLEAN : CleanEnd(k, ok)
           \/ \E finished \in BOOLEAN : CloseFinish(k, finished)
  BY <1>6, <1>3, <1>4 DEF CleanEnd, CloseFinish
<1> QED
  BY <1>1, <1>2, <1>3, <1>5, <1>6 DEF CloserOf, CloseQuarantine, CloseFailed, CloseFenced,
                                 CloseRaises, CloseFree

LEMMA PermitsCloser ==
  ASSUME TypeOK, Targets, OneHandle, HandleOwners, NEW s \in Sessions, Stage(s), Permits(s),
         NEW k \in Closers, CloserNext(k)
  PROVE  Permits(s)'
<1> SUFFICES ASSUME Native, ~ss[s].scoped PROVE Permits(s)'
  BY CloserKeeps DEF Permits, Kept
<1> USE DEF threads, At, Target
<1>1. PICK t \in Sessions : /\ closer[k].pc # "idle" => t = closer[k].s
                            /\ CloserOf(k, t)
                            /\ UNCHANGED <<saw, inflight>>
                            /\ \A u \in Sessions \ {t} : Same(u)
                            /\ \A l \in Closers \ {k} : closer'[l] = closer[l]
                            /\ Moves(HandleOf(t))
  BY CloserMoves
<1> DEFINE h == HandleOf(s)
<1>t. /\ closer[k] \in Closing /\ closer \in [Closers -> Closing] /\ h \in Owners
      /\ hs \in [Owners -> HandleStates]
  BY Types
<1>l. \A l \in Closers \ {k} : ClosePermit(l, s)' <=> ClosePermit(l, s)
  BY <1>1 DEF ClosePermit
<1>c. CloseCall(k) => closer'[k].s = t
  BY <1>1, <1>t DEF CloseCall, Closing
<1>2. CASE s # t
  <2>1. ClosePermit(k, s)' => ClosePermit(k, s)
    BY <1>1, <1>2, <1>c, CloserPermit DEF ClosePermit
  <2>2. NoNewPermit(s)
    BY <1>1, <1>2, <1>l, <2>1 DEF Same, NoNewPermit, StartPermit, InputPermit
  <2>3. hs'[h] = hs[h]
    BY <1>1, <1>2, <1>t, Apart DEF Moves
  <2> QED
    BY <2>2, <2>3, PermitsKept
<1>3. CASE s = t /\ ~CloseCall(k)
  <2>1. NoNewPermit(s)
    BY <1>1, <1>3, <1>l, CloserPermit, CloserRecord DEF NoNewPermit, StartPermit, InputPermit
  <2>2. CASE CloseAnswered(k) /\ closer[k].permit /\ hs[h] = "open"
    <3>1. HandleOf(s)' = h
      BY <2>1 DEF NoNewPermit, HandleOf
    <3>2. ClosePermit(k, s)
      BY <1>1, <1>3, <2>2 DEF CloseAnswered, ClosePermit
    <3>3. ~ClosePermit(k, s)'
      BY <1>t, <2>2 DEF CloseAnswered, ClosePermit, Go, Closing
    <3>4. hs'[h] = "owned" /\ ss'[s].prov = "closed"
      <4>1. hs'[h] = "owned"
        BY <1>1, <1>3, <1>t, <2>2 DEF CloseAnswered
      <4>2. ss'[s].prov = "closed"
        BY <1>1, <1>3, <2>2, CloserRecord
      <4> QED
        BY <4>1, <4>2
    <3> QED
      BY <2>1, <2>2, <3>1, <3>2, <3>3, <3>4 DEF NoNewPermit, Permits
  <2>3. CASE ~(CloseAnswered(k) /\ closer[k].permit /\ hs[h] = "open")
    <3>1. \/ hs'[h] \in {hs[h], "lost"}
          \/ hs[h] = "owned" /\ hs'[h] # "open"
      <4>1. CASE CloseAnswered(k)
        BY <1>1, <1>3, <2>3, <4>1 DEF CloseAnswered
      <4>2. CASE CloseUncertain(k)
        BY <1>1, <1>3, <1>t, <4>2 DEF CloseUncertain, Revoked
      <4>3. CASE CloseFailed(k)
        BY <1>1, <1>3, <1>t, <4>3 DEF CloseFailed, CloseResults
      <4>4. CASE \E finished \in BOOLEAN : CloseFinish(k, finished)
        <5>1. PICK v \in IF ss[s].bound /\ ~ss[s].scoped THEN CloseResults(h)
                         ELSE {hs[h]} : hs' = [hs EXCEPT ![h] = v]
          BY <1>1, <1>3, <4>4 DEF CloseFinish
        <5> QED
          BY <1>t, <5>1 DEF CloseResults
      <4>5. CASE UNCHANGED hs
        BY <4>5
      <4> QED
        BY <1>1, <1>3, <4>1, <4>2, <4>3, <4>4, <4>5
        DEF CloserOf, CloseRecord, CloseBegin, CloseDrain, CleanBegin, CleanEnd,
            CloseQuarantine, CloseFenced, CloseRaises, CloseFree
    <3> QED
      BY <2>1, <3>1, PermitsKept
  <2> QED
    BY <2>2, <2>3
<1>4. CASE s = t /\ CloseCall(k)
  <2>1. /\ UNCHANGED ss /\ HandleOf(s)' = h /\ s = closer[k].s
        /\ closer'[k].permit = ss[s].bound
    BY <1>1, <1>4, <1>t DEF CloseCall, HandleOf, Closing
  <2>2. CASE ss[s].bound
    <3>1. hs[h] \in {"owned", "helper"} /\ hs'[h] = "open"
      BY <1>4, <1>t, <2>1, <2>2 DEF CloseCall, CloseAdmitted
    <3>2. Unused(s) \/ hs[h] = "helper"
      BY <3>1 DEF Permits, Unused
    <3>3. ~StartPermit(s) /\ ~InputPermit(s) /\ \A l \in Closers : ~ClosePermit(l, s)
      BY <3>1 DEF Permits
    <3>4. ~StartPermit(s)' /\ ~InputPermit(s)'
      BY <1>1, <2>1, <3>3 DEF StartPermit, InputPermit
    <3> QED
      BY <1>l, <2>1, <3>1, <3>3, <3>4 DEF Permits
  <2>3. CASE ~ss[s].bound
    <3>1. ~ClosePermit(k, s)' /\ hs' = hs
      BY <1>4, <2>1, <2>3 DEF ClosePermit, CloseCall
    <3>2. NoNewPermit(s)
      BY <1>1, <1>l, <2>1, <3>1 DEF NoNewPermit, StartPermit, InputPermit
    <3> QED
      BY <3>1, <3>2, PermitsKept
  <2> QED
    BY <2>2, <2>3
<1> QED
  BY <1>2, <1>3, <1>4

LEMMA PermitsStep ==
  ASSUME LabInv, [Next]_vars, NEW s \in Sessions
  PROVE  Permits(s)'
<1> USE DEF LabInv
<1>0. ASSUME Same(s), UNCHANGED closer PROVE NoNewPermit(s)
  BY <1>0 DEF Same, NoNewPermit, StartPermit, InputPermit, ClosePermit
<1>1. CASE \E r \in Reservations : ReservationNext(r)
  <2> PICK r \in Reservations : ReservationNext(r)
    BY <1>1
  <2>1. UNCHANGED <<ss, prep, threads>>
    BY ReservationMoves
  <2>2. NoNewPermit(s)
    BY <2>1, <1>0 DEF threads, Same
  <2>3. CASE Native /\ ~ss[s].scoped
    BY <2>2, <2>3, ApartFromReservations, PermitsKept
  <2> QED
    BY <2>1, <2>3 DEF Permits
<1>2. CASE SessionNext(s)
  BY <1>2, PermitsSession
<1>3. ASSUME NEW t \in Sessions \ {s}, SessionNext(t) PROVE Permits(s)'
  <2>1. NoNewPermit(s) /\ Moves(HandleOf(t)) /\ ss'[s].scoped = ss[s].scoped
    BY <1>3, <1>0, SessionMoves DEF Same
  <2>2. CASE Native /\ ~ss[s].scoped
    BY <1>3, <2>1, <2>2, Apart, PermitsKept, Types DEF Moves
  <2> QED
    BY <2>1, <2>2 DEF Permits
<1>4. CASE \E k \in Closers : CloserNext(k)
  BY <1>4, PermitsCloser
<1>5. CASE RecoverBegin \/ (\E ok \in BOOLEAN : RecoverEnd(ok)) \/ UNCHANGED vars
  <2>1. Same(s) /\ UNCHANGED closer /\ hs' = hs
    BY <1>5 DEF RecoverBegin, RecoverEnd, vars, Same
  <2> QED
    BY <2>1, <1>0, PermitsKept
<1> QED
  BY <1>1, <1>2, <1>3, <1>4, <1>5 DEF Next

----------------------------------------------------------------------------
(* The fence of an abandoned cleanup.                                      *)

\* An authority is bound, and a close is called, only for a provider that
\* exists; a fenced session is recorded as closed only if it never had one.
Fence(s) ==
    /\ ss[s].bound \/ ss[s].pc \in {"bind", "prepare", "start", "confirm", "admit"}
          => ss[s].prov # "none"
    /\ \A k \in Closers : closer[k].s = s /\ closer[k].pc = "calling"
                             => ss[s].prov # "none"
    /\ ss[s].fenced /\ ss[s].st = "closed" =>
          ss[s].prov = "none" /\ ss[s].pc = "done"

LEMMA FenceSession ==
  ASSUME TypeOK, OneHandle, HandleOwners, NEW s \in Sessions, Stage(s), Fence(s),
         SessionNext(s)
  PROVE  Fence(s)'
<1> USE DEF threads, Set
<1>t. ss[s] \in Records /\ ss \in [Sessions -> Records]
  BY Types DEF TypeOK
<1>c. UNCHANGED closer
  BY SessionMoves
<1>n. /\ ss[s].st = "none" => ~ss[s].bound /\ \A k \in Closers : closer[k].s # s
      /\ ss[s].pc \in {"setup", "factory"} => ~ss[s].bound
      /\ s \in saw => ss[s].pc \in Launched
  BY <1>t DEF Stage, NewRecord, Launched
<1>0. CASE UNCHANGED ss
  BY <1>0, <1>c DEF Fence
<1>1. CASE \E r \in Reservations \cup {NoOne} : Allocate(s, r)
  BY <1>1, <1>t, <1>c, <1>n DEF Allocate, NewRecord, Fence
<1>2. CASE Setup(s)
  BY <1>2, <1>t, <1>c DEF Setup, Fence, Records
<1>3. CASE Construct(s)
  BY <1>3, <1>t, <1>c DEF Construct, Fence, Records
<1>4. CASE SetupFail(s)
  BY <1>4, <1>t, <1>c, <1>n DEF SetupFail, Fence, Records
<1>5. CASE Bind(s)
  <2>1. ss[s].prov # "none"
    BY <1>5 DEF Bind, Fence
  <2> QED
    BY <1>5, <2>1, <1>t, <1>c DEF Bind, Fence, Records
<1>6. CASE PrepareStartup(s)
  BY <1>6, <1>t, <1>c DEF PrepareStartup, Fence, Records
<1>7. CASE Reject(s)
  BY <1>7, <1>t, <1>c DEF Reject, Fence, Records
<1>8. CASE Launch(s)
  BY <1>8, <1>t, <1>c DEF Launch, Fence, Records
<1>9. CASE StartConfirmed(s)
  BY <1>9, <1>t, <1>c DEF StartConfirmed, Fence, Records
<1>10. CASE AdmitPrepared(s)
  BY <1>10, <1>t, <1>c DEF AdmitPrepared, Fence, Records
<1>11. CASE StartFail(s)
  <2>1. CASE ss' = [ss EXCEPT ![s] = [ss[s] EXCEPT !.pc = "done"]]
    BY <2>1, <1>t, <1>c DEF Fence, Records
  <2>2. CASE ss' = [ss EXCEPT ![s] = [ss[s] EXCEPT !.st = "failed", !.pc = "done"]]
    BY <2>2, <1>t, <1>c DEF Fence, Records
  <2> QED
    BY <1>11, <2>1, <2>2 DEF StartFail
<1>12. CASE Fail(s)
  BY <1>12, <1>t, <1>c DEF Fail, Fence, Records
<1>13. CASE FrameActivates(s)
  BY <1>13, <1>t, <1>c DEF FrameActivates, Fence, Records
<1>14. CASE PreparedFrame(s)
  BY <1>14, <1>t, <1>c DEF PreparedFrame, Fence, Records
<1>15. CASE InputUnknown(s)
  BY <1>15, <1>t, <1>c DEF InputUnknown, Fence, Records
<1>16. CASE Abandon(s)
  BY <1>16, <1>t, <1>c DEF Abandon, Abandoned, Fence, Records
<1> QED
  BY <1>0, <1>1, <1>2, <1>3, <1>4, <1>5, <1>6, <1>7, <1>8, <1>9, <1>10, <1>11, <1>12,
     <1>13, <1>14, <1>15, <1>16
  DEF SessionNext, FailDevice, FrameSeen, InputBegin, InputDone, AbandonPreparation

LEMMA FenceCloser ==
  ASSUME TypeOK, Targets, OneHandle, HandleOwners, NEW s \in Sessions, Stage(s), Fence(s),
         NEW k \in Closers, CloserNext(k)
  PROVE  Fence(s)'
<1> USE DEF threads, Set, At, Target
<1>1. PICK t \in Sessions : /\ closer[k].pc # "idle" => t = closer[k].s
                            /\ CloserOf(k, t)
                            /\ \A u \in Sessions \ {t} : Same(u)
                            /\ \A l \in Closers \ {k} : closer'[l] = closer[l]
  BY CloserMoves
<1>t. /\ ss[t] \in Records /\ ss \in [Sessions -> Records]
      /\ closer \in [Closers -> Closing] /\ closer[k] \in Closing
  BY Types DEF TypeOK
<1>c. ASSUME NEW l \in Closers, closer'[l].s = s, closer'[l].pc = "calling"
      PROVE  ss[s].prov # "none"
  <2>1. CASE closer'[l] = closer[l]
    BY <1>c, <2>1 DEF Fence
  <2>2. CASE l = k /\ CloseCall(k)
    <3>1. closer[k].s = s
      BY <1>c, <1>t, <2>2 DEF CloseCall, Closing
    <3> QED
      BY <2>2, <3>1 DEF CloseCall, Fence
  <2>3. CASE l = k /\ ~CloseCall(k)
    <3>1. CASE CloseRecord(k, t)
      BY <2>1, <2>3, <3>1 DEF CloseRecord
    <3>2. CASE CloseBegin(k, t)
      BY <1>c, <1>t, <2>3, <3>2 DEF CloseBegin, Idle
    <3>3. CASE Leave(k)
      BY <1>c, <1>t, <2>3, <3>3 DEF Leave, Idle
    <3>4. ASSUME NEW p, Go(k, p), p # "calling" PROVE FALSE
      BY <1>c, <1>t, <2>3, <3>4 DEF Go, Closing
    <3>5. CASE CloseDrain(k) \/ CloseUncertain(k) \/ CleanBegin(k) \/ CloseAnswered(k)
      BY <3>5, <3>4 DEF CloseDrain, CloseUncertain, CleanBegin, CloseAnswered
    <3>6. CASE \/ \E ok \in BOOLEAN : CleanEnd(k, ok)
               \/ \E finished \in BOOLEAN : CloseFinish(k, finished)
      BY <3>6, <3>3, <3>4 DEF CleanEnd, CloseFinish
    <3> QED
      BY <1>1, <2>3, <3>1, <3>2, <3>3, <3>5, <3>6
      DEF CloserOf, CloseQuarantine, CloseFailed, CloseFenced, CloseRaises, CloseFree
  <2> QED
    BY <1>1, <2>1, <2>2, <2>3
<1>2. CASE s # t
  BY <1>1, <1>2, <1>c DEF Same, Fence
<1>3. CASE s = t
  <2>1. /\ ss'[s].pc = ss[s].pc /\ ss'[s].bound = ss[s].bound
        /\ ss'[s].fenced = ss[s].fenced \/ ss'[s].st = "failed"
        /\ ss'[s].prov = IF CloseAnswered(k) THEN "closed" ELSE ss[s].prov
    BY <1>1, <1>3, CloserRecord
  <2>2. ASSUME ss'[s].fenced, ss'[s].st = "closed"
        PROVE  ss'[s].prov = "none" /\ ss'[s].pc = "done"
    <3>1. ss[s].fenced
      BY <2>1, <2>2
    <3>2. CASE CloseRecord(k, t)
      BY <1>3, <2>1, <3>2 DEF CloseRecord, CloseAnswered
    <3>3. CASE ss[s].st = "closed"
      <4>1. ss[s].prov = "none" /\ ss[s].pc = "done"
        BY <3>1, <3>3 DEF Fence
      <4>2. ~CloseAnswered(k)
        BY <1>1, <1>3, <4>1 DEF Fence, CloseAnswered
      <4> QED
        BY <2>1, <4>1, <4>2
    <3>4. CASE CloseBegin(k, t)
      BY <1>3, <1>t, <2>2, <3>3, <3>4 DEF CloseBegin, Records
    <3>5. CASE UNCHANGED ss
      BY <2>2, <3>3, <3>5
    <3>6. CASE CloseDrain(k) \/ CloseFenced(k)
      <4>1. CASE CloseDrain(k)
        BY <1>1, <1>3, <1>t, <2>2, <4>1 DEF CloseDrain, Records
      <4>2. CASE CloseFenced(k)
        BY <1>1, <1>3, <1>t, <2>2, <4>2 DEF CloseFenced, Records
      <4> QED
        BY <3>6, <4>1, <4>2
    <3>7. CASE CloseUncertain(k)
      BY <1>1, <1>3, <1>t, <2>2, <3>7 DEF CloseUncertain, Records
    <3>8. CASE CleanBegin(k)
      <4>1. \E x \in {[ss[s] EXCEPT !.open = FALSE],
                       [ss[s] EXCEPT !.open = FALSE, !.st = ss[s].st],
                       [ss[s] EXCEPT !.open = FALSE, !.st = "failed"]} :
              ss' = [ss EXCEPT ![s] = x]
        BY <1>1, <1>3, <3>8 DEF CleanBegin
      <4>2. /\ [ss[s] EXCEPT !.open = FALSE].st = ss[s].st
            /\ [ss[s] EXCEPT !.open = FALSE, !.st = ss[s].st].st = ss[s].st
            /\ [ss[s] EXCEPT !.open = FALSE, !.st = "failed"].st = "failed"
        BY <1>3, <1>t DEF Records
      <4>3. ss'[s].st \in {ss[s].st, "failed"}
        BY <1>3, <1>t, <4>1, <4>2
      <4> QED
        BY <2>2, <3>3, <4>3
    <3>9. CASE \E ok \in BOOLEAN : CleanEnd(k, ok)
      BY <1>1, <1>3, <1>t, <2>2, <3>3, <3>9 DEF CleanEnd, Records
    <3>10. CASE CloseAnswered(k)
      BY <1>1, <1>3, <1>t, <2>2, <3>3, <3>10 DEF CloseAnswered, Records
    <3>11. CASE CloseFailed(k)
      <4>1. \E x \in {[ss[s] EXCEPT !.st = "failed"], Abandoned(s)} :
              ss' = [ss EXCEPT ![s] = x]
        BY <1>1, <1>3, <3>11 DEF CloseFailed
      <4>2. /\ [ss[s] EXCEPT !.st = "failed"].st = "failed"
            /\ Abandoned(s).st = "failed"
        BY <1>3, <1>t DEF Abandoned, Records
      <4> QED
        BY <1>3, <1>t, <2>2, <4>1, <4>2
    <3>12. CASE \E finished \in BOOLEAN : CloseFinish(k, finished)
      BY <1>1, <1>3, <3>1, <3>12 DEF CloseFinish
    <3> QED
      BY <1>1, <3>2, <3>4, <3>5, <3>6, <3>7, <3>8, <3>9, <3>10, <3>11, <3>12
      DEF CloserOf, CloseQuarantine, CloseCall, CloseRaises, CloseFree
  <2>3. ss'[s].prov = "none" => ss[s].prov = "none"
    BY <2>1
  <2> QED
    BY <1>c, <2>1, <2>2, <2>3 DEF Fence
<1> QED
  BY <1>2, <1>3

LEMMA FenceStep ==
  ASSUME LabInv, [Next]_vars, NEW s \in Sessions, Fence(s)
  PROVE  Fence(s)'
<1> USE DEF LabInv
<1>1. CASE UNCHANGED <<ss, closer>>
  BY <1>1 DEF Fence
<1>2. CASE \E r \in Reservations : ReservationNext(r)
  BY <1>1, <1>2, ReservationMoves DEF threads
<1>3. CASE SessionNext(s)
  BY <1>3, FenceSession
<1>4. ASSUME NEW t \in Sessions \ {s}, SessionNext(t) PROVE Fence(s)'
  BY <1>4, SessionMoves DEF Same, Fence
<1>5. CASE \E k \in Closers : CloserNext(k)
  BY <1>5, FenceCloser
<1>6. CASE RecoverBegin \/ (\E ok \in BOOLEAN : RecoverEnd(ok)) \/ UNCHANGED vars
  BY <1>1, <1>6 DEF RecoverBegin, RecoverEnd, vars
<1> QED
  BY <1>2, <1>3, <1>4, <1>5, <1>6 DEF Next

----------------------------------------------------------------------------
(* The theorems.                                                           *)

\* Handles, reservations, stages and permits of model.py agree with each other
\* in every reachable state.
THEOREM LabInvariance == Spec => []LabInv
<1>1. ASSUME Init PROVE LabInv
  <2>1. TypeOK
    BY <1>1, TypeInit
  <2>2. Targets /\ OneHandle
    BY <1>1 DEF Init, Targets, OneHandle, Idle, Free
  <2>3. HandleOwners
    BY <1>1 DEF Init, HandleOwners, NewRecord
  <2>4. ASSUME NEW s \in Sessions PROVE Stage(s) /\ Permits(s)
    <3>1. ss[s] = NewRecord /\ s \notin saw \cup inflight
          /\ \A k \in Closers : closer[k].s # s
      BY <1>1, LabAssumption DEF Init, Idle
    <3> QED
      BY <3>1 DEF Stage, Permits, NewRecord, StartPermit, InputPermit, ClosePermit
  <2> QED
    BY <2>1, <2>2, <2>3, <2>4 DEF LabInv
<1>2. ASSUME LabInv, [Next]_vars PROVE LabInv'
  <2>1. TypeOK' /\ Targets'
    BY <1>2, TypeStep, TargetStep DEF LabInv
  <2>2. OneHandle' /\ HandleOwners'
    BY <1>2, OneHandleStep, OwnersStep DEF LabInv
  <2>3. \A s \in Sessions : Stage(s)' /\ Permits(s)'
    BY <1>2, StageStep, PermitsStep
  <2> QED
    BY <2>1, <2>2, <2>3 DEF LabInv
<1> QED
  BY <1>1, <1>2, PTL DEF Spec

\* The device record, the sessions, the tables and the threads keep their types.
THEOREM LabTypes == Spec => []TypeOK
<1>1. LabInv => TypeOK
  BY DEF LabInv
<1> QED
  BY <1>1, LabInvariance, PTL

\* However many sessions are created and closed, and however the threads of
\* create_session, close_session, input() and fail() interleave: outside the
\* retained scopes a native device has at most one running provider.
THEOREM OneProviderRuns == Spec => []OneProvider
<1>1. ASSUME LabInv PROVE OneProvider
  <2> SUFFICES ASSUME Native, NEW s \in Sessions, NEW t \in Sessions, s # t,
                      ss[s].prov = "running", ~ss[s].scoped,
                      ss[t].prov = "running", ~ss[t].scoped
               PROVE  FALSE
    BY DEF OneProvider
  <2>1. hs[HandleOf(s)] \notin Free /\ hs[HandleOf(t)] \notin Free
    BY <1>1 DEF LabInv, Permits, Free
  <2>2. HandleOf(s) = HandleOf(t)
    BY <1>1, <2>1, Types DEF LabInv, OneHandle
  <2> QED
    BY <1>1, <2>2, Apart DEF LabInv
<1> QED
  BY <1>1, LabInvariance, PTL

\* No end of a session and no release of a reservation gives the handle of a
\* retained scope back (release_retained_device_scope is the only way).
THEOREM ScopeAlwaysKeepsAuthority == Spec => []ScopeKeepsAuthority
<1>1. ASSUME LabInv PROVE ScopeKeepsAuthority
  <2> SUFFICES ASSUME NEW r \in scope PROVE r \in resv /\ hs[r] # "released"
    BY DEF ScopeKeepsAuthority
  <2>1. r \in resv /\ r \in Owners
    BY <1>1 DEF LabInv, TypeOK, Owners
  <2> QED
    BY <1>1, <2>1 DEF LabInv, HandleOwners, OneHandle, Free
<1> QED
  BY <1>1, LabInvariance, PTL

\* _startupReleaseConfirmed is set only when the handle of the failed start is
\* given back, and nothing takes that handle again.
THEOREM ReleaseConfirmedIsReal == Spec => []ConfirmedReleaseIsReal
<1>1. LabInv => ConfirmedReleaseIsReal
  BY DEF LabInv, Stage, ConfirmedReleaseIsReal, Free
<1> QED
  BY <1>1, LabInvariance, PTL

LEMMA FenceInvariance == Spec => [](LabInv /\ \A s \in Sessions : Fence(s))
<1>1. ASSUME Init PROVE \A s \in Sessions : Fence(s)
  <2> SUFFICES ASSUME NEW s \in Sessions PROVE Fence(s)
    OBVIOUS
  <2>1. ss[s] = NewRecord /\ \A k \in Closers : closer[k].pc = "idle"
    BY <1>1 DEF Init, Idle
  <2> QED
    BY <2>1 DEF Fence, NewRecord
<1>2. ASSUME LabInv, \A s \in Sessions : Fence(s), [Next]_vars
      PROVE  (\A s \in Sessions : Fence(s))'
  BY <1>2, FenceStep
<1> QED
  BY <1>1, <1>2, LabInvariance, PTL DEF Spec

LEMMA SessionRecord ==
  ASSUME TypeOK, NEW s \in Sessions, SessionNext(s), ss[s].st # "none"
  PROVE  /\ ss'[s].fenced = ss[s].fenced \/ ss'[s].st = "failed"
         /\ ss'[s].prov = "none" => ss[s].prov = "none"
         /\ \/ ss'[s].st \in {ss[s].st, "failed"}
            \/ ss'[s].st = "active" /\ (s \in saw \/ ss[s].st = "connecting")
<1>1. ss[s] \in Records /\ ss \in [Sessions -> Records]
  BY Types DEF TypeOK
<1> USE <1>1 DEF Set, threads, Records
<1>2. CASE Setup(s)
  BY <1>2 DEF Setup
<1>3. CASE UNCHANGED ss
  BY <1>3
<1>4. CASE Bind(s)
  BY <1>4 DEF Bind
<1>5. CASE PrepareStartup(s)
  BY <1>5 DEF PrepareStartup
<1>6. CASE Launch(s)
  BY <1>6 DEF Launch
<1>7. CASE StartConfirmed(s)
  BY <1>7 DEF StartConfirmed
<1>8. CASE AdmitPrepared(s)
  BY <1>8 DEF AdmitPrepared
<1>9. CASE StartFail(s)
  <2>1. CASE ss' = [ss EXCEPT ![s] = [ss[s] EXCEPT !.pc = "done"]]
    BY <2>1
  <2>2. CASE ss' = [ss EXCEPT ![s] = [ss[s] EXCEPT !.st = "failed", !.pc = "done"]]
    BY <2>2
  <2> QED
    BY <1>9, <2>1, <2>2 DEF StartFail
<1>10. CASE Fail(s)
  BY <1>10 DEF Fail
<1>11. CASE FrameActivates(s)
  BY <1>11 DEF FrameActivates
<1>12. CASE PreparedFrame(s)
  BY <1>12 DEF PreparedFrame
<1>13. CASE InputUnknown(s)
  BY <1>13 DEF InputUnknown
<1>14. CASE Abandon(s)
  BY <1>14 DEF Abandon, Abandoned
<1>15. CASE Construct(s)
  BY <1>15 DEF Construct
<1>16. CASE SetupFail(s)
  BY <1>16 DEF SetupFail
<1>17. CASE Reject(s)
  BY <1>17 DEF Reject
<1> QED
  BY <1>2, <1>3, <1>4, <1>5, <1>6, <1>7, <1>8, <1>9, <1>10, <1>11, <1>12, <1>13,
     <1>14, <1>15, <1>16, <1>17
  DEF SessionNext, Allocate, FailDevice, FrameSeen, InputBegin, InputDone,
      AbandonPreparation

\* "Fence a timed-out close; late terminal callbacks cannot release it": with
\* any number of late close_session calls, a fenced session is not recorded as
\* closed and its handle is not released.
THEOREM AbandonedIsFenced == Spec => AbandonedStaysFenced
<1> DEFINE Inv == LabInv /\ \A s \in Sessions : Fence(s)
<1>1. ASSUME Inv, [Next]_vars, NEW s \in Prepared, ss[s].fenced, ss[s].prov # "none"
      PROVE  /\ ss'[s].st # "closed"
             /\ hs'[HandleOf(s)] = "released" => hs[HandleOf(s)] = "released"
  <2> USE <1>1 DEF LabInv
  <2>1. /\ s \in Sessions /\ Native /\ ~ss[s].scoped /\ ss[s].st # "none"
        /\ ss[s].pc \notin {"setup", "factory"} /\ HandleOf(s) \in Owners
    BY LabAssumption, Types DEF Stage, NewRecord
  <2>2. ss'[s].st # "closed"
    <3>1. Fence(s)'
      BY <2>1, FenceStep
    <3>2. ss'[s].st = "closed" => ss'[s].fenced /\ ss'[s].prov # "none"
      <4>1. CASE SessionNext(s)
        BY <2>1, <4>1, SessionRecord
      <4>2. CASE \E t \in Sessions \ {s} : SessionNext(t)
        BY <2>1, <4>2, SessionMoves DEF Same
      <4>3. ASSUME NEW k \in Closers, CloserNext(k)
            PROVE  ss'[s].st = "closed" => ss'[s].fenced /\ ss'[s].prov # "none"
        <5>1. PICK t \in Sessions : /\ closer[k].pc # "idle" => t = closer[k].s
                                    /\ CloserOf(k, t)
                                    /\ \A u \in Sessions \ {t} : Same(u)
          BY <4>3, CloserMoves
        <5>2. CASE t = s
          BY <2>1, <5>1, <5>2, CloserRecord
        <5> QED
          BY <2>1, <5>1, <5>2 DEF Same
      <4>4. CASE \/ \E r \in Reservations : ReservationNext(r)
                 \/ RecoverBegin \/ (\E ok \in BOOLEAN : RecoverEnd(ok)) \/ UNCHANGED vars
        BY <4>4, ReservationMoves DEF RecoverBegin, RecoverEnd, vars
      <4> QED
        BY <2>1, <4>1, <4>2, <4>3, <4>4 DEF Next
    <3> QED
      BY <3>1, <3>2 DEF Fence
  <2>3. hs'[HandleOf(s)] = "released" => hs[HandleOf(s)] = "released"
    <3>0. CASE hs'[HandleOf(s)] = hs[HandleOf(s)]
      BY <3>0
    <3>1. CASE SessionNext(s)
      <4>1. Moves(HandleOf(s))
        BY <2>1, <3>1, SessionMoves
      <4>2. CASE Setup(s) \/ SetupFail(s) \/ Reject(s)
        BY <2>1, <4>2 DEF Setup, SetupFail, Reject
      <4>3. CASE PrepareStartup(s) \/ StartConfirmed(s) \/ StartFail(s) \/ Fail(s)
        BY <2>1, <4>3, Types DEF PrepareStartup, StartConfirmed, StartFail, Fail,
                                 FailedSession, Revoked
      <4>4. CASE InputBegin(s) \/ InputDone(s) \/ InputUnknown(s)
        BY <2>1, <4>4, Types DEF InputBegin, InputDone, InputUnknown, Confirmed
      <4> QED
        BY <3>0, <3>1, <4>2, <4>3, <4>4
        DEF SessionNext, Allocate, Construct, Bind, Launch, AdmitPrepared, FailDevice,
            FrameSeen, FrameActivates, PreparedFrame, Abandon, AbandonPreparation, threads
    <3>2. ASSUME NEW t \in Sessions \ {s}, SessionNext(t)
          PROVE  hs'[HandleOf(s)] = hs[HandleOf(s)]
      BY <2>1, <3>2, SessionMoves, Apart DEF Moves
    <3>3. ASSUME NEW k \in Closers, CloserNext(k)
          PROVE  hs'[HandleOf(s)] = "released" => hs[HandleOf(s)] = "released"
      <4>1. PICK t \in Sessions : /\ closer[k].pc # "idle" => t = closer[k].s
                                  /\ CloserOf(k, t)
                                  /\ Moves(HandleOf(t))
        BY <3>3, CloserMoves
      <4>2. CASE t # s
        BY <2>1, <4>1, <4>2, Apart DEF Moves
      <4>3. CASE t = s
        <5> USE DEF At, Target
        <5>1. CASE CloseUncertain(k) \/ CloseCall(k) \/ CloseAnswered(k)
          BY <2>1, <4>1, <4>3, <5>1, Types DEF CloseUncertain, CloseCall, CloseAnswered,
                                               Revoked
        <5>2. CASE CloseFailed(k)
          BY <2>1, <4>1, <4>3, <5>2 DEF CloseFailed
        <5>3. CASE \E finished \in BOOLEAN : CloseFinish(k, finished)
          BY <2>1, <4>1, <4>3, <5>3 DEF CloseFinish
        <5>4. CASE UNCHANGED hs
          BY <5>4
        <5> QED
          BY <4>1, <4>3, <5>1, <5>2, <5>3, <5>4
          DEF CloserOf, CloseRecord, CloseBegin, CloseDrain, CleanBegin, CleanEnd,
              CloseQuarantine, CloseFenced, CloseRaises, CloseFree
      <4> QED
        BY <4>2, <4>3
    <3>4. CASE RecoverBegin \/ (\E ok \in BOOLEAN : RecoverEnd(ok)) \/ UNCHANGED vars
      BY <3>4 DEF RecoverBegin, RecoverEnd, vars
    <3> QED
      BY <2>1, <3>0, <3>1, <3>2, <3>3, <3>4, ApartFromReservations DEF Next
  <2> QED
    BY <2>2, <2>3
<1>2. Inv /\ [Next]_vars =>
        [\A s \in Prepared : ss[s].fenced /\ ss[s].prov # "none" =>
            /\ ss'[s].st # "closed"
            /\ hs'[HandleOf(s)] = "released" => hs[HandleOf(s)] = "released"]_vars
  BY <1>1
<1> QED
  BY <1>2, FenceInvariance, PTL DEF Spec, AbandonedStaysFenced

\* "A frame racing cleanup cannot reopen a failed/closing session": the frame of
\* a prepared session is published under the lock its close takes.
THEOREM PreparedStaysStopped == Spec => PreparedNeverReopens
<1>1. ASSUME LabInv, [Next]_vars, NEW s \in Prepared, ss[s].st \in Stopped
      PROVE  ss'[s].st \notin {"connecting", "active"}
  <2> USE <1>1 DEF LabInv, Stopped
  <2>1. s \in Sessions /\ s \notin saw
    BY LabAssumption DEF Stage
  <2>2. CASE SessionNext(s)
    BY <2>1, <2>2, SessionRecord
  <2>3. CASE \E t \in Sessions \ {s} : SessionNext(t)
    BY <2>1, <2>3, SessionMoves DEF Same
  <2>4. ASSUME NEW k \in Closers, CloserNext(k)
        PROVE  ss'[s].st \notin {"connecting", "active"}
    <3>1. PICK t \in Sessions : /\ closer[k].pc # "idle" => t = closer[k].s
                                /\ CloserOf(k, t)
                                /\ \A u \in Sessions \ {t} : Same(u)
      BY <2>4, CloserMoves
    <3>2. CASE t = s
      BY <2>1, <3>1, <3>2, CloserRecord
    <3> QED
      BY <2>1, <3>1, <3>2 DEF Same
  <2>5. CASE \/ \E r \in Reservations : ReservationNext(r)
             \/ RecoverBegin \/ (\E ok \in BOOLEAN : RecoverEnd(ok)) \/ UNCHANGED vars
    BY <2>5, ReservationMoves DEF RecoverBegin, RecoverEnd, vars
  <2> QED
    BY <2>1, <2>2, <2>3, <2>4, <2>5 DEF Next
<1>2. LabInv /\ [Next]_vars =>
        [\A s \in Prepared : ss[s].st \in Stopped
                               => ss'[s].st \notin {"connecting", "active"}]_vars
  BY <1>1
<1> QED
  BY <1>2, LabInvariance, PTL DEF Spec, PreparedNeverReopens

=============================================================================
