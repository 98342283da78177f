----------------------------- MODULE LabDevices -----------------------------
(***************************************************************************)
(* Who holds a device of the Lab: sessions, reservations and retained      *)
(* scopes, as reproof/live/model.py keeps them for one device.             *)
(*                                                                         *)
(* Two kinds of lock guard this state.  Lab.lock guards the device record  *)
(* and the tables of reservations and scopes; every session has a lock of  *)
(* its own.  A step is what one thread does while it holds a lock, or one  *)
(* call it makes without any: the thread that creates a session, the ones  *)
(* that close it, report its failure, publish a frame or wait for an input *)
(* interleave between those steps.                                         *)
(*                                                                         *)
(* The host authority (module Authority) is seen as the Lab uses it: a     *)
(* handle is claimed, an operation makes it uncertain until its outcome is *)
(* confirmed, and close releases it only when nothing is outstanding.      *)
(***************************************************************************)
EXTENDS Naturals, FiniteSets

CONSTANTS
    Sessions,      \* sessions that may be created
    Reservations,  \* reservations that may be made
    Closers,       \* threads that may be in close_session
    NoOne,
    Native,        \* the device has a host authority
    Prepared,      \* sessions with an Android preparation
    Events         \* what may happen besides creating and closing sessions:
                   \* "fail", "input", "frame", "abandon", "reserve", "scope",
                   \* "recover", "repair", "shutdown", and "early": a session
                   \* may be closed while it is created

ASSUME LabAssumption ==
    /\ Sessions \cap Reservations = {}
    /\ NoOne \notin Sessions \cup Reservations
    /\ Native \in BOOLEAN
    /\ Prepared \subseteq Sessions
    /\ Prepared # {} => Native

VARIABLES
    dev,       \* the device record: state and sessionId
    ss,        \* the session records
    resv,      \* _device_reservations
    scope,     \* _retained_device_scopes
    hs,        \* authority: the handle claimed by a session or reservation;
               \* "open" with an operation of a session, "effect" with one of
               \* the scope itself
    prep,      \* AndroidPreparation._state
    failing,   \* sessions with a thread in fail() between the two locks
    saw,       \* sessions with a thread in publish_frame that saw "connecting"
    inflight,  \* sessions with a thread that waits for the provider in input()
    closer,    \* close_session calls under way
    recovery   \* recover_device is under way

vars == <<dev, ss, resv, scope, hs, prep, failing, saw, inflight, closer,
          recovery>>

Owners  == Sessions \cup Reservations
Gone    == {"closed", "draining"}
Stopped == {"failed", "draining", "closed"}

Records ==
    [st       : {"none", "connecting", "active"} \cup Stopped,
     via      : Reservations \cup {NoOne},   \* reservation or scope it came by
     scoped   : BOOLEAN,                     \* _retainedDeviceScope is set
     prov     : {"none", "made", "running", "closed"},
     bound    : BOOLEAN,                     \* deviceAuthority is set
     conf     : BOOLEAN,                     \* _startupReleaseConfirmed
     stop     : BOOLEAN,                     \* stopAdmission
     open     : BOOLEAN,                     \* _androidAdmissionOpen
     fenced   : BOOLEAN,                     \* _androidCleanupAbandoned
     pc       : {"none", "setup", "factory", "bind", "prepare", "start",
                 "confirm", "admit", "done"}]

NewRecord ==
    [st |-> "none", via |-> NoOne, scoped |-> FALSE, prov |-> "none",
     bound |-> FALSE, conf |-> FALSE, stop |-> FALSE, open |-> FALSE,
     fenced |-> FALSE, pc |-> "none"]

Idle == [s |-> NoOne, pc |-> "idle", permit |-> FALSE]

TypeOK ==
    /\ dev \in [state : {"available", "busy", "reserved", "quarantined",
                         "recovering", "repairing"},
                owner : Owners \cup {NoOne}]
    /\ ss \in [Sessions -> Records]
    /\ resv \in SUBSET Reservations
    /\ scope \in SUBSET resv
    /\ hs \in [Owners -> {"none", "owned", "helper", "open", "effect", "released",
                          "lost"}]
    /\ prep \in [Prepared -> {"reserved", "active", "cleaning", "cleaned",
                              "unknown"}]
    /\ failing \in SUBSET Sessions
    /\ saw \in SUBSET Sessions
    /\ inflight \in SUBSET Sessions
    /\ closer \in [Closers -> [s : Sessions \cup {NoOne},
                               pc : {"idle", "admitted", "cleaning", "drain",
                                     "provider", "calling", "finish", "free",
                                     "quarantine"},
                               permit : BOOLEAN]]
    /\ recovery \in BOOLEAN

Init ==
    /\ dev = [state |-> "available", owner |-> NoOne]
    /\ ss = [s \in Sessions |-> NewRecord]
    /\ resv = {} /\ scope = {}
    /\ hs = [h \in Owners |-> "none"]
    /\ prep = [s \in Prepared |-> "reserved"]
    /\ failing = {} /\ saw = {} /\ inflight = {}
    /\ closer = [k \in Closers |-> Idle]
    /\ recovery = FALSE

threads == <<failing, saw, inflight, closer, recovery>>

----------------------------------------------------------------------------
(* The host authority.                                                     *)

\* A device with an earlier handle that was not released is not granted.
Claimable == \A h \in Owners : hs[h] \in {"none", "released"}

\* DeviceAuthority.close: only a handle with nothing outstanding is released,
\* and the store may fail even then.
CloseResults(h) ==
    CASE hs[h] = "none"     -> {"none"}
      [] hs[h] = "owned"    -> {"released", "lost"}
      [] hs[h] = "released" -> {"released"}
      [] OTHER              -> {"lost"}

Released(v) == v \in {"none", "released"}

\* revoke_dispatches.
Revoked(h) == IF hs[h] \in {"none", "released"} THEN hs[h] ELSE "lost"

----------------------------------------------------------------------------
(* The device record.                                                      *)

Quarantine == [dev EXCEPT !.state = "quarantined"]
Device(state, owner) == [state |-> state, owner |-> owner]

HandleOf(s) == IF ss[s].via = NoOne THEN s ELSE ss[s].via

----------------------------------------------------------------------------
(* Reservations and retained scopes.                                       *)

\* Mutant: the reservation is granted whatever handle is still held.
ReserveMut(r) ==
    /\ "reserve" \in Events
    /\ dev.state = "available" /\ hs[r] = "none" /\ r \notin resv
    /\ hs' = [hs EXCEPT ![r] = IF Native THEN "owned" ELSE "none"]
    /\ resv' = resv \cup {r}
    /\ dev' = Device("reserved", r)
    /\ UNCHANGED <<ss, scope, prep, threads>>

\* reserve_release_device; a refused claim changes nothing, and a handle that
\* does not own the device is closed and leaves a quarantine.
Reserve(r) ==
    /\ "reserve" \in Events
    /\ dev.state = "available" /\ hs[r] = "none" /\ r \notin resv
    /\ \/ /\ Native => Claimable
          /\ hs' = [hs EXCEPT ![r] = IF Native THEN "owned" ELSE "none"]
          /\ resv' = resv \cup {r}
          /\ dev' = Device("reserved", r)
       \/ /\ Native /\ ~Claimable
          /\ dev' = Device("quarantined", NoOne)
          /\ UNCHANGED <<hs, resv>>
    /\ UNCHANGED <<ss, scope, prep, threads>>

\* Mutant: a retained reservation may be released like any other.
ReleaseReservationMut(r) ==
    /\ r \in resv /\ dev = Device("reserved", r)
    /\ \E v \in CloseResults(r) :
          /\ hs' = [hs EXCEPT ![r] = v]
          /\ dev' = Device(IF Released(v) THEN "available" ELSE "quarantined",
                           NoOne)
    /\ resv' = resv \ {r}
    /\ UNCHANGED <<ss, scope, prep, threads>>

ReleaseReservation(r) ==
    /\ r \in resv \ scope /\ dev = Device("reserved", r)
    /\ \E v \in CloseResults(r) :
          /\ hs' = [hs EXCEPT ![r] = v]
          /\ dev' = Device(IF Released(v) THEN "available" ELSE "quarantined",
                           NoOne)
    /\ resv' = resv \ {r}
    /\ UNCHANGED <<ss, scope, prep, threads>>

\* _require_retained_scope: a busy device is the scope's as long as any of
\* its sessions holds it.
ScopeCurrent(r) ==
    \/ dev \in {Device("reserved", r), Device("quarantined", r)}
    \/ /\ dev.state = "busy" /\ dev.owner \in Sessions
       /\ ss[dev.owner].scoped /\ ss[dev.owner].via = r

Retain(r) ==
    /\ "scope" \in Events
    /\ r \in resv \ scope /\ dev = Device("reserved", r)
    /\ scope' = scope \cup {r}
    /\ UNCHANGED <<dev, ss, resv, hs, prep, threads>>

\* _prepare_retained_scope_digest_effect, confirm_retained_scope_effect.
ScopeEffect(r) ==
    /\ r \in scope /\ dev = Device("reserved", r)
    /\ hs[r] = "owned"
    /\ hs' = [hs EXCEPT ![r] = "effect"]
    /\ UNCHANGED <<dev, ss, resv, scope, prep, threads>>

\* The permit is that of the scope's own operation.
ScopeConfirm(r) ==
    /\ r \in scope /\ hs[r] = "effect" /\ ScopeCurrent(r)
    /\ hs' = [hs EXCEPT ![r] = "owned"]
    /\ UNCHANGED <<dev, ss, resv, scope, prep, threads>>

\* release_retained_device_scope.
ScopeIdle(r) ==
    /\ \A s \in Sessions : ss[s].scoped /\ ss[s].via = r
                              => ss[s].st \in {"closed", "failed"}
    /\ dev = Device("reserved", r)

ReleaseScope(r) ==
    /\ r \in scope /\ ScopeIdle(r)
    /\ \E v \in CloseResults(r) :
          /\ hs' = [hs EXCEPT ![r] = v]
          /\ IF Released(v)
             THEN /\ scope' = scope \ {r} /\ resv' = resv \ {r}
                  /\ dev' = Device("available", NoOne)
             ELSE /\ dev' = Device("quarantined", r)
                  /\ UNCHANGED <<resv, scope>>
    /\ UNCHANGED <<ss, prep, threads>>

\* The end of close_all: what is still retained is fenced, not released.
ShutdownScope(r) ==
    /\ "shutdown" \in Events /\ r \in scope
    /\ hs' = [hs EXCEPT ![r] = Revoked(r)]
    /\ dev' = Device("quarantined", r)
    /\ UNCHANGED <<ss, resv, scope, prep, threads>>

----------------------------------------------------------------------------
(* create_session.                                                         *)

Set(s, r) == ss' = [ss EXCEPT ![s] = r]

MayAllocate(s, r) ==
    \/ r = NoOne /\ dev.state = "available"
    \/ /\ r \in resv /\ dev = Device("reserved", r)
       /\ r \in scope => hs[r] \in {"none", "owned"}

\* A session takes the reservation with it; a scope stays in both tables.
Allocate(s, r) ==
    /\ ss[s].st = "none" /\ MayAllocate(s, r)
    /\ s \in Prepared => r \in resv \ scope
    /\ Set(s, [NewRecord EXCEPT !.st = "connecting", !.via = r,
                                !.scoped = r \in scope, !.pc = "setup"])
    /\ resv' = IF r \in scope THEN resv ELSE resv \ {r}
    /\ dev' = Device("busy", s)
    /\ UNCHANGED <<scope, hs, prep, threads>>

Setup(s) ==
    /\ ss[s].pc = "setup"
    /\ IF ~Native \/ ss[s].via # NoOne
       THEN Native => hs[ss[s].via] = "owned"
       ELSE Claimable
    /\ hs' = IF Native THEN [hs EXCEPT ![HandleOf(s)] = "owned"] ELSE hs
    /\ Set(s, [ss[s] EXCEPT !.pc = "factory"])
    /\ UNCHANGED <<dev, resv, scope, prep, threads>>

Construct(s) ==
    /\ ss[s].pc = "factory"
    /\ Set(s, [ss[s] EXCEPT !.prov = "made",
                            !.pc = IF Native THEN "bind" ELSE "start"])
    /\ UNCHANGED <<dev, resv, scope, hs, prep, threads>>

\* An error before there is a provider.  The handle is closed unless a scope
\* owns it; a claim that was refused leaves no handle, one that found an
\* unresolved device leaves a handle that is not clean.
SetupOutcomes(s) ==
    LET h == HandleOf(s)
    IN  IF ss[s].scoped THEN {[v |-> hs[h], clean |-> TRUE]}
        ELSE CASE hs[h] = "none" ->
                    [v : {"none"},
                     clean : IF Native /\ ~Claimable THEN BOOLEAN ELSE {TRUE}]
               [] hs[h] = "owned" ->
                    {[v |-> "released", clean |-> TRUE],
                     [v |-> "lost", clean |-> FALSE]}
               [] OTHER -> {[v |-> hs[h], clean |-> FALSE]}

\* Mutant: every start that fails without a provider counts as released.
SetupFailMut(s) ==
    /\ ss[s].pc \in {"setup", "factory"}
    /\ \E o \in SetupOutcomes(s) :
          /\ hs' = [hs EXCEPT ![HandleOf(s)] = o.v]
          /\ Set(s, [ss[s] EXCEPT !.st = "failed", !.pc = "done",
                                  !.conf = ~ss[s].scoped])
          /\ dev' = CASE ss[s].scoped -> Device("quarantined", ss[s].via)
                      [] o.clean      -> Device("available", NoOne)
                      [] OTHER        -> Device("quarantined", NoOne)
    /\ UNCHANGED <<resv, scope, prep, threads>>

SetupFail(s) ==
    /\ ss[s].pc \in {"setup", "factory"}
    /\ \E o \in SetupOutcomes(s) :
          /\ hs' = [hs EXCEPT ![HandleOf(s)] = o.v]
          /\ Set(s, [ss[s] EXCEPT !.st = "failed", !.pc = "done",
                                  !.conf = o.clean /\ ~ss[s].scoped])
          /\ dev' = CASE ss[s].scoped -> Device("quarantined", ss[s].via)
                      [] o.clean      -> Device("available", NoOne)
                      [] OTHER        -> Device("quarantined", NoOne)
    /\ UNCHANGED <<resv, scope, prep, threads>>

Bind(s) ==
    /\ ss[s].pc = "bind"
    /\ Set(s, [ss[s] EXCEPT !.bound = TRUE, !.pc = "prepare"])
    /\ UNCHANGED <<dev, resv, scope, hs, prep, threads>>

\* _prepare_effect of a session that has an authority: in a scope the scope
\* has to be current.
MayPrepare(s) ==
    ss[s].scoped => ss[s].via \in scope /\ ScopeCurrent(ss[s].via)

\* _prepare_effect of the startup.
PrepareStartup(s) ==
    /\ ss[s].pc = "prepare" /\ hs[HandleOf(s)] = "owned" /\ MayPrepare(s)
    /\ hs' = [hs EXCEPT ![HandleOf(s)] = "open"]
    /\ Set(s, [ss[s] EXCEPT !.pc = "start"])
    /\ UNCHANGED <<dev, resv, scope, prep, threads>>

\* Mutant: a rejected start in a scope closes the scope's handle.
RejectMut(s) ==
    /\ Native /\ ss[s].pc \in {"bind", "prepare"} /\ s \notin Prepared
    /\ hs[HandleOf(s)] = "owned"
    /\ \E v \in CloseResults(HandleOf(s)) :
          /\ hs' = [hs EXCEPT ![HandleOf(s)] = v]
          /\ dev' = CASE ss[s].scoped -> Device("quarantined", ss[s].via)
                      [] Released(v)  -> Device("available", NoOne)
                      [] OTHER        -> Device("quarantined", NoOne)
    /\ Set(s, [ss[s] EXCEPT !.st = "failed", !.pc = "done", !.bound = FALSE])
    /\ UNCHANGED <<resv, scope, prep, threads>>

\* clean_rejection: a provider, but no permit was issued, and the handle is
\* still owned.  With a permit the handle is uncertain and fail() follows.
Reject(s) ==
    /\ Native /\ ss[s].pc \in {"bind", "prepare"} /\ s \notin Prepared
    /\ hs[HandleOf(s)] = "owned"
    /\ \E v \in IF ss[s].scoped THEN {"owned"} ELSE CloseResults(HandleOf(s)) :
          /\ hs' = [hs EXCEPT ![HandleOf(s)] = v]
          /\ dev' = CASE ss[s].scoped -> Device("quarantined", ss[s].via)
                      [] Released(v)  -> Device("available", NoOne)
                      [] OTHER        -> Device("quarantined", NoOne)
    /\ Set(s, [ss[s] EXCEPT !.st = "failed", !.pc = "done",
                            !.bound = ss[s].bound /\ ss[s].scoped])
    /\ UNCHANGED <<resv, scope, prep, threads>>

\* The provider starts, whether or not its answer arrives.  Not every provider
\* refuses to start when it was closed meanwhile.
Launch(s) ==
    /\ ss[s].pc = "start"
    /\ Set(s, [ss[s] EXCEPT !.prov = "running", !.pc = "confirm"])
    /\ UNCHANGED <<dev, resv, scope, hs, prep, threads>>

StartConfirmed(s) ==
    /\ ss[s].pc = "confirm"
    /\ hs' = IF hs[HandleOf(s)] = "open"
             THEN [hs EXCEPT ![HandleOf(s)] = "helper"] ELSE hs
    /\ Set(s, [ss[s] EXCEPT !.pc = IF s \in Prepared THEN "admit" ELSE "done"])
    /\ UNCHANGED <<dev, resv, scope, prep, threads>>

\* AndroidPreparation.prepare, consume and admitted: the last check and the
\* opening of the admission are under the session's lock.
AdmitPrepared(s) ==
    /\ ss[s].pc = "admit" /\ ss[s].st = "connecting" /\ ~ss[s].stop
    /\ prep[s] = "reserved"
    /\ prep' = [prep EXCEPT ![s] = "active"]
    /\ Set(s, [ss[s] EXCEPT !.open = TRUE, !.pc = "done"])
    /\ UNCHANGED <<dev, resv, scope, hs, threads>>

\* fail(), under the session's lock.
FailedSession(s) ==
    /\ hs' = IF ss[s].bound THEN [hs EXCEPT ![HandleOf(s)] = Revoked(HandleOf(s))]
             ELSE hs
    /\ failing' = failing \cup {s}

StartFail(s) ==
    /\ \/ ss[s].pc \in {"start", "confirm", "admit"}
       \/ /\ ss[s].pc \in {"bind", "prepare"}
          /\ s \in Prepared \/ hs[HandleOf(s)] # "owned"
    /\ IF ss[s].st \in Gone
       THEN /\ Set(s, [ss[s] EXCEPT !.pc = "done"])
            /\ UNCHANGED <<hs, failing>>
       ELSE /\ Set(s, [ss[s] EXCEPT !.st = "failed", !.pc = "done"])
            /\ FailedSession(s)
    /\ UNCHANGED <<dev, resv, scope, prep, saw, inflight, closer, recovery>>

----------------------------------------------------------------------------
(* What a running provider reports.                                        *)

\* fail() from a poller, a collector or a frame that could not be stored.
Fail(s) ==
    /\ "fail" \in Events
    /\ ss[s].prov = "running" /\ ss[s].pc = "done"
    /\ ss[s].st \notin Gone /\ s \notin failing
    /\ Set(s, [ss[s] EXCEPT !.st = "failed"])
    /\ FailedSession(s)
    /\ UNCHANGED <<dev, resv, scope, prep, saw, inflight, closer, recovery>>

\* The end of fail(), under Lab.lock.
FailDevice(s) ==
    /\ s \in failing
    /\ failing' = failing \ {s}
    /\ dev' = Quarantine
    /\ UNCHANGED <<ss, resv, scope, hs, prep, saw, inflight, closer, recovery>>

\* publish_frame looks at the state and sets it without the session's lock;
\* without a release recorder it does not look at stopAdmission.
FrameSeen(s) ==
    /\ "frame" \in Events /\ s \notin Prepared
    /\ ss[s].prov = "running" /\ ss[s].st = "connecting"
    /\ saw' = saw \cup {s}
    /\ UNCHANGED <<dev, ss, resv, scope, hs, prep, failing, inflight, closer,
                   recovery>>

FrameActivates(s) ==
    /\ s \in saw
    /\ saw' = saw \ {s}
    /\ Set(s, [ss[s] EXCEPT !.st = "active"])
    /\ UNCHANGED <<dev, resv, scope, hs, prep, failing, inflight, closer,
                   recovery>>

\* Mutant: the frame of a prepared session looks only at the admission.
PreparedFrameMut(s) ==
    /\ s \in Prepared /\ ss[s].prov = "running" /\ ss[s].open
    /\ Set(s, [ss[s] EXCEPT !.st = "active"])
    /\ UNCHANGED <<dev, resv, scope, hs, prep, threads>>

\* With an Android preparation the session's lock is held for both.
PreparedFrame(s) ==
    /\ s \in Prepared /\ ss[s].prov = "running"
    /\ ss[s].open /\ ~ss[s].stop /\ ss[s].st = "connecting"
    /\ Set(s, [ss[s] EXCEPT !.st = "active"])
    /\ UNCHANGED <<dev, resv, scope, hs, prep, threads>>

\* input() admits a command under the session's lock, prepares its operation
\* and waits without the lock.
InputBegin(s) ==
    /\ "input" \in Events
    /\ ss[s].st = "active" /\ ~ss[s].stop /\ s \notin inflight
    /\ ss[s].bound => hs[HandleOf(s)] = "helper" /\ MayPrepare(s)
    /\ inflight' = inflight \cup {s}
    /\ hs' = IF ss[s].bound THEN [hs EXCEPT ![HandleOf(s)] = "open"] ELSE hs
    /\ UNCHANGED <<dev, ss, resv, scope, prep, failing, saw, closer, recovery>>

\* _confirm_effect of an operation the authority still knows as its own.
Confirmed(s) ==
    IF ss[s].bound /\ hs[HandleOf(s)] = "open"
    THEN [hs EXCEPT ![HandleOf(s)] = "helper"] ELSE hs

InputDone(s) ==
    /\ s \in inflight /\ ss[s].st = "active" /\ ~ss[s].stop
    /\ inflight' = inflight \ {s}
    /\ hs' = Confirmed(s)
    /\ UNCHANGED <<dev, ss, resv, scope, prep, failing, saw, closer, recovery>>

\* Any other end, also that of a command whose session stopped meanwhile.
InputUnknown(s) ==
    /\ s \in inflight
    /\ inflight' = inflight \ {s}
    /\ hs' \in {hs, Confirmed(s)}
    /\ Set(s, [ss[s] EXCEPT !.st = "failed"])
    /\ dev' = Quarantine
    /\ UNCHANGED <<resv, scope, prep, failing, saw, closer, recovery>>

----------------------------------------------------------------------------
(* close_session.  A thread k goes through the steps below for a session;  *)
(* nothing keeps a second thread from doing the same.                      *)

Target(k) == closer[k].s
At(k, pc) == closer[k].pc = pc
Go(k, pc) == closer' = [closer EXCEPT ![k].pc = pc]
Leave(k)  == closer' = [closer EXCEPT ![k] = Idle]

\* A failed start without a provider is only recorded as closed: a scope's
\* device is fenced, a device that was given back is not touched.
CloseRecord(k, s) ==
    /\ At(k, "idle") /\ ss[s].st = "failed" /\ ss[s].prov = "none"
    /\ ss[s].pc = "done"
    /\ ss[s].scoped \/ ss[s].conf
    /\ Set(s, [ss[s] EXCEPT !.st = "closed", !.stop = TRUE])
    /\ dev' = IF ss[s].scoped THEN Device("quarantined", ss[s].via) ELSE dev
    /\ UNCHANGED <<resv, scope, hs, prep, threads>>

CloseBegin(k, s) ==
    /\ At(k, "idle") /\ ss[s].st \notin Gone \cup {"none"}
    /\ ss[s].pc = "done" \/ "early" \in Events
    /\ ~(/\ ss[s].st = "failed" /\ ss[s].prov = "none"
         /\ ss[s].scoped \/ ss[s].conf)
    /\ Set(s, [ss[s] EXCEPT !.stop = TRUE])
    /\ closer' = [closer EXCEPT ![k] = [Idle EXCEPT !.s = s, !.pc = "admitted"]]
    /\ UNCHANGED <<dev, resv, scope, hs, prep, failing, saw, inflight, recovery>>

\* Without an Android preparation the session drains whatever its state is by
\* now.
CloseDrain(k) ==
    /\ \/ At(k, "admitted") /\ Target(k) \notin Prepared
       \/ At(k, "drain")
    /\ Set(Target(k), [ss[Target(k)] EXCEPT !.st = "draining"])
    /\ Go(k, "provider")
    /\ UNCHANGED <<dev, resv, scope, hs, prep, failing, saw, inflight, recovery>>

\* With one, an input under way is enough to give up, and so is a pointer that
\* an earlier input left down and that could not be released.
CloseUncertain(k) ==
    LET s == Target(k)
    IN  /\ At(k, "admitted") /\ s \in Prepared
        /\ s \in inflight \/ ("input" \in Events /\ ss[s].prov = "running")
        /\ Set(s, [ss[s] EXCEPT !.st = "failed", !.open = FALSE])
        /\ hs' = IF ss[s].bound
                 THEN [hs EXCEPT ![HandleOf(s)] = Revoked(HandleOf(s))] ELSE hs
        /\ Go(k, "quarantine")
        /\ UNCHANGED <<dev, resv, scope, prep, failing, saw, inflight, recovery>>

\* quiesce_and_cleanup: one thread cleans, a later one only reads the result.
CleanBegin(k) ==
    LET s == Target(k)
    IN  /\ At(k, "admitted") /\ s \in Prepared \ inflight
        /\ IF prep[s] \in {"reserved", "active"}
           THEN /\ prep' = [prep EXCEPT ![s] = "cleaning"]
                /\ Set(s, [ss[s] EXCEPT !.open = FALSE])
                /\ Go(k, "cleaning")
           ELSE /\ Set(s, [ss[s] EXCEPT !.open = FALSE,
                              !.st = IF prep[s] = "cleaned" THEN @ ELSE "failed"])
                /\ Go(k, IF prep[s] = "cleaned" THEN "drain" ELSE "quarantine")
                /\ UNCHANGED prep
        /\ UNCHANGED <<dev, resv, scope, hs, failing, saw, inflight, recovery>>

CleanEnd(k, ok) ==
    LET s == Target(k)
        complete == ok /\ prep[s] = "cleaning"
    IN  /\ At(k, "cleaning")
        /\ ok => ss[s].prov = "running"
        /\ prep' = [prep EXCEPT ![s] = IF complete THEN "cleaned" ELSE "unknown"]
        /\ ss' = IF complete THEN ss ELSE [ss EXCEPT ![s].st = "failed"]
        /\ Go(k, IF complete THEN "drain" ELSE "quarantine")
        /\ UNCHANGED <<dev, resv, scope, hs, failing, saw, inflight, recovery>>

CloseQuarantine(k) ==
    /\ At(k, "quarantine")
    /\ dev' = Quarantine
    /\ Leave(k)
    /\ UNCHANGED <<ss, resv, scope, hs, prep, failing, saw, inflight, recovery>>

CloseAdmitted(s) == hs[HandleOf(s)] \in {"owned", "helper"} /\ MayPrepare(s)

\* The authorized close prepares its operation first.
CloseCall(k) ==
    LET s == Target(k)
    IN  /\ At(k, "provider")
        /\ IF ss[s].bound THEN /\ CloseAdmitted(s)
                               /\ hs' = [hs EXCEPT ![HandleOf(s)] = "open"]
           ELSE ss[s].prov # "none" /\ UNCHANGED hs
        /\ closer' = [closer EXCEPT ![k].pc = "calling", ![k].permit = ss[s].bound]
        /\ UNCHANGED <<dev, ss, resv, scope, prep, failing, saw, inflight, recovery>>

CloseAnswered(k) ==
    LET s == Target(k)
    IN  /\ At(k, "calling")
        /\ Set(s, [ss[s] EXCEPT !.prov = "closed"])
        /\ hs' = IF closer[k].permit /\ hs[HandleOf(s)] = "open"
                 THEN [hs EXCEPT ![HandleOf(s)] = "owned"] ELSE hs
        /\ Go(k, "finish")
        /\ UNCHANGED <<dev, resv, scope, prep, failing, saw, inflight, recovery>>

\* abandon_android_preparation_cleanup.
Abandoned(s) == [ss[s] EXCEPT !.fenced = TRUE, !.open = FALSE, !.st = "failed",
                              !.stop = TRUE]

\* The provider could not be closed.  The handle is closed too, unless a
\* scope or a preparation still needs it.
CloseFailed(k) ==
    LET s == Target(k)
        h == HandleOf(s)
    IN  /\ \/ At(k, "calling")
           \/ /\ At(k, "provider")
              /\ IF ss[s].bound THEN ~CloseAdmitted(s)
                 ELSE ss[s].prov = "none"
        /\ dev' = Quarantine
        /\ Leave(k)
        /\ IF s \in Prepared
           THEN /\ Set(s, IF ss[s].st = "closed" THEN [ss[s] EXCEPT !.st = "failed"]
                          ELSE Abandoned(s))
                /\ prep' = IF ss[s].st = "closed" THEN prep
                           ELSE [prep EXCEPT ![s] = "unknown"]
                /\ UNCHANGED hs
           ELSE /\ Set(s, [ss[s] EXCEPT !.st = "failed"])
                /\ IF ss[s].bound /\ ~ss[s].scoped
                   THEN \E v \in CloseResults(h) : hs' = [hs EXCEPT ![h] = v]
                   ELSE UNCHANGED hs
                /\ UNCHANGED prep
        /\ UNCHANGED <<resv, scope, failing, saw, inflight, recovery>>

FreedDevice(s, repair) ==
    IF ss[s].scoped THEN Device("reserved", ss[s].via)
    ELSE Device(IF repair THEN "repairing" ELSE "available", NoOne)

\* The provider is closed: the handle goes back, then the record is closed.
\* confirm_native_cleanup raises when the handle is not owned any more, and so
\* does a close that began before there was an authority.  With a preparation
\* the session's lock is held until the device is free.
CloseFinish(k, finished) ==
    LET s == Target(k)
        h == HandleOf(s)
    IN  /\ At(k, "finish")
        /\ ~ss[s].fenced
        /\ ss[s].bound => closer[k].permit /\ hs[h] = "owned"
        /\ \E v \in IF ss[s].bound /\ ~ss[s].scoped THEN CloseResults(h)
                    ELSE {hs[h]} :
              /\ hs' = [hs EXCEPT ![h] = v]
              /\ IF /\ ss[s].bound /\ ~ss[s].scoped => Released(v)
                    /\ finished => s \notin inflight
                 THEN /\ Set(s, [ss[s] EXCEPT !.st = "closed"])
                      /\ IF s \in Prepared
                         THEN dev' = FreedDevice(s, FALSE) /\ Leave(k)
                         ELSE UNCHANGED dev /\ Go(k, "free")
                 ELSE /\ Set(s, [ss[s] EXCEPT !.st = "failed"])
                      /\ dev' = Quarantine
                      /\ Leave(k)
        /\ UNCHANGED <<resv, scope, prep, failing, saw, inflight, recovery>>

\* Mutant: the fence is not looked at once the provider is closed.
CloseFencedMut(k) ==
    LET s == Target(k)
    IN  /\ At(k, "finish") /\ ss[s].fenced
        /\ Set(s, [ss[s] EXCEPT !.st = "closed"])
        /\ dev' = FreedDevice(s, FALSE)
        /\ Leave(k)
        /\ UNCHANGED <<resv, scope, hs, prep, failing, saw, inflight, recovery>>

CloseFenced(k) ==
    LET s == Target(k)
    IN  /\ At(k, "finish") /\ ss[s].fenced
        /\ Set(s, [ss[s] EXCEPT !.st = "failed"])
        /\ dev' = Quarantine
        /\ Leave(k)
        /\ UNCHANGED <<resv, scope, hs, prep, failing, saw, inflight, recovery>>

CloseRaises(k) ==
    LET s == Target(k)
    IN  /\ At(k, "finish")
        /\ ~ss[s].fenced
        /\ ss[s].bound /\ ~(closer[k].permit /\ hs[HandleOf(s)] = "owned")
        /\ Leave(k)
        /\ UNCHANGED <<dev, ss, resv, scope, hs, prep, failing, saw, inflight,
                       recovery>>

CloseFree(k, repair) ==
    /\ At(k, "free")
    /\ repair => "repair" \in Events
    /\ dev' = FreedDevice(Target(k), repair)
    /\ Leave(k)
    /\ UNCHANGED <<ss, resv, scope, hs, prep, failing, saw, inflight, recovery>>

\* The issue service, which created the session, gives up on a close that
\* takes too long.
Abandon(s) ==
    /\ "abandon" \in Events /\ s \in Prepared
    /\ ss[s].pc = "done" /\ ss[s].stop
    /\ ss[s].st # "closed" /\ ~ss[s].fenced
    /\ Set(s, Abandoned(s))
    /\ dev' = Quarantine
    /\ UNCHANGED <<resv, scope, hs, prep, threads>>

AbandonPreparation(s) ==
    /\ s \in Prepared /\ ss[s].fenced /\ prep[s] # "unknown"
    /\ prep' = [prep EXCEPT ![s] = "unknown"]
    /\ UNCHANGED <<dev, ss, resv, scope, hs, threads>>

----------------------------------------------------------------------------
(* recover_device.                                                         *)

RecoverBegin ==
    /\ "recover" \in Events /\ ~recovery
    /\ dev = Device("quarantined", NoOne)
    /\ recovery' = TRUE
    /\ dev' = Device("recovering", NoOne)
    /\ UNCHANGED <<ss, resv, scope, hs, prep, failing, saw, inflight, closer>>

RecoverEnd(ok) ==
    /\ recovery
    /\ recovery' = FALSE
    /\ dev' = IF ok THEN Device("available", NoOne) ELSE Quarantine
    /\ UNCHANGED <<ss, resv, scope, hs, prep, failing, saw, inflight, closer>>

----------------------------------------------------------------------------

ReservationNext(r) ==
    \/ Reserve(r) \/ ReleaseReservation(r) \/ Retain(r)
    \/ ScopeEffect(r) \/ ScopeConfirm(r) \/ ReleaseScope(r) \/ ShutdownScope(r)

SessionNext(s) ==
    \/ \E r \in Reservations \cup {NoOne} : Allocate(s, r)
    \/ Setup(s) \/ Construct(s) \/ SetupFail(s) \/ Bind(s) \/ PrepareStartup(s)
    \/ Reject(s) \/ Launch(s) \/ StartConfirmed(s) \/ AdmitPrepared(s)
    \/ StartFail(s) \/ Fail(s) \/ FailDevice(s)
    \/ FrameSeen(s) \/ FrameActivates(s) \/ PreparedFrame(s)
    \/ InputBegin(s) \/ InputDone(s) \/ InputUnknown(s)
    \/ Abandon(s) \/ AbandonPreparation(s)

CloserNext(k) ==
    \/ \E s \in Sessions : CloseRecord(k, s) \/ CloseBegin(k, s)
    \/ CloseDrain(k) \/ CloseUncertain(k) \/ CleanBegin(k)
    \/ \E ok \in BOOLEAN : CleanEnd(k, ok)
    \/ CloseQuarantine(k) \/ CloseCall(k) \/ CloseAnswered(k) \/ CloseFailed(k)
    \/ \E finished \in BOOLEAN : CloseFinish(k, finished)
    \/ CloseFenced(k) \/ CloseRaises(k)
    \/ \E repair \in BOOLEAN : CloseFree(k, repair)

Next ==
    \/ \E r \in Reservations : ReservationNext(r)
    \/ \E s \in Sessions : SessionNext(s)
    \/ \E k \in Closers : CloserNext(k)
    \/ RecoverBegin
    \/ \E ok \in BOOLEAN : RecoverEnd(ok)

Spec == Init /\ [][Next]_vars

----------------------------------------------------------------------------
(* Properties.                                                             *)

\* Outside the retained scopes a native device never has the providers of two
\* sessions running at once: whatever the Lab's record says, a second start
\* needs a handle, and a handle is released only after the provider that used
\* it is closed or never ran.  (In a scope the sessions share one handle, and a
\* close of an earlier session that ends late offers the device while a later
\* one runs: CloseSparesLaterOwner.)
OneProvider ==
    Native => \A s, t \in Sessions :
        /\ ss[s].prov = "running" /\ ~ss[s].scoped
        /\ ss[t].prov = "running" /\ ~ss[t].scoped
        => s = t

\* While a scope is retained its authority is not given back: no way to end
\* or to lose a session in it, and no release of its reservation, closes the
\* handle the scope's owner still counts on.
ScopeKeepsAuthority ==
    \A r \in scope : r \in resv /\ hs[r] # "released"

\* A start that confirmed its release really gave the handle back, so closing
\* its record, or releasing its reservation again, may leave the device alone.
ConfirmedReleaseIsReal ==
    \A s \in Sessions : ss[s].conf => hs[HandleOf(s)] \in {"none", "released"}

\* "Fence a timed-out close; late terminal callbacks cannot release it": once
\* the cleanup of a prepared session's provider is abandoned, no close, however
\* late, records it as closed or releases its handle.
AbandonedStaysFenced ==
    [][\A s \in Prepared : ss[s].fenced /\ ss[s].prov # "none" =>
          /\ ss'[s].st # "closed"
          /\ hs'[HandleOf(s)] = "released" => hs[HandleOf(s)] = "released"]_vars

\* "A frame racing cleanup cannot reopen a failed/closing session", for the
\* sessions whose frames and admission share the lock.
PreparedNeverReopens ==
    [][\A s \in Prepared : ss[s].st \in Stopped
                              => ss'[s].st \notin {"connecting", "active"}]_vars

\* "Closing its record must not touch a later device owner": a thread in
\* close_session leaves the device alone once the record names another session
\* or another reservation.
CloseSparesLaterOwner ==
    [][\A k \in Closers :
          closer'[k] # closer[k] /\ Target(k) # NoOne
          /\ dev.owner \notin {Target(k), ss[Target(k)].via, NoOne}
              => dev' = dev]_vars
============================================================================
