----------------------------- MODULE LabControl -----------------------------
(***************************************************************************)
(* Who controls a session of the Lab, and what reaches its device: inputs, *)
(* resets, pointers, recordings, trusted replay and action playback, as    *)
(* reproof/live/model.py and action_playback.py do them for one session.   *)
(*                                                                         *)
(* The session's lock is dropped around every call of the provider, so     *)
(* each call of the API is one or two steps under the lock with steps of   *)
(* others in between.  Threads are the callers of the API, the thread of a *)
(* replay, the thread of a playback and the maintenance timer.  An input   *)
(* has its command for a name: job[c] is the thread that executes it.      *)
(*                                                                         *)
(* A native device has an authority (module Authority), seen here as the   *)
(* one outstanding operation it allows.                                    *)
(***************************************************************************)
EXTENDS Naturals, Sequences

CONSTANTS
    Clients,      \* controllers that may claim the session
    Cmds,         \* commands the clients send
    Replayed,     \* the commands of a replay, in order
    Played,       \* the commands of a playback, in order
    Recordings,
    Callers,      \* threads in claim, start_recording, stop_recording, ...
    None,
    Native,       \* the device has a host authority
    Calls,        \* what each caller may call: "claim", "record" without and
                  \* "reset" with a reset first, "stop", "replay"
    Acts,         \* actions of client commands: "tap", "reset", "down", "up"
    MaxEpoch,     \* bound: epochs a live session may reach
    ReceiptLimit, \* 2000 in the code; 0 is a receipt that is always gone
    EventLimit,   \* 500 in the code
    Events        \* what else may happen: "playback", "cancel", "fail",
                  \* "unknown", "geometry", "timeout", "close"

Elements(q) == {q[i] : i \in DOMAIN q}
AllCmds == Cmds \cup Elements(Replayed) \cup Elements(Played)
Threads == Callers \cup {"replay", "playback", "timer"}

ASSUME ControlAssumption ==
    /\ Native \in BOOLEAN
    /\ Calls \in [Callers -> SUBSET {"claim", "record", "reset", "stop", "replay"}]
    /\ Acts \subseteq {"tap", "reset", "down", "up"}
    /\ MaxEpoch \in Nat /\ ReceiptLimit \in Nat /\ EventLimit \in Nat
    /\ None \notin Clients \cup AllCmds \cup Recordings

\* The commands of a run are a sequence of commands of its own: the code gives
\* every command and every controller a fresh identity.
ASSUME NamesAssumption ==
    /\ \A q \in {Replayed, Played} :
          /\ q \in Seq(Elements(q))
          /\ \A i, j \in DOMAIN q : q[i] = q[j] => i = j
    /\ Elements(Replayed) \cap Elements(Played) = {}
    /\ Cmds \cap (Elements(Replayed) \cup Elements(Played)) = {}
    /\ Clients \cap {"replay", "playback"} = {}
    /\ Callers \cap {"replay", "playback", "timer"} = {}

VARIABLES
    s,         \* the session record
    cmd,       \* the envelopes of the commands sent so far
    job,       \* inflightCommands: "no", "admitted", "executed"
    receipts,  \* the receipts kept, oldest first
    auth,      \* "free", "open" (one outstanding operation), "lost"
    rec,       \* the recordings
    th,        \* the threads
    run,       \* what replay and playback report
    log,       \* what the device executed since its last reset, and whose reset
               \* it was: "replay", or "reset" for that of a caller or command
    ran        \* commands the device executed

vars == <<s, cmd, job, receipts, auth, rec, th, run, log, ran>>
device == <<log, ran>>

NoThread  == [op |-> "none", pc |-> "idle", ctl |-> None, epoch |-> 0,
              arg |-> None, n |-> 0]
NoRec     == [st |-> "none", events |-> <<>>, replayable |-> FALSE]
NoRun     == [st |-> "none", cancel |-> FALSE, back |-> None]
NoCmd     == [ctl |-> None, epoch |-> 0, seq |-> 0, act |-> "none"]

Controllers == Clients \cup {"replay", "playback"}

SessionRecords ==
    [st    : {"active", "failed", "draining"},
     stop  : BOOLEAN,
     ctl   : Controllers,
     epoch : Nat,
     seq   : Nat,
     mode  : {"manual", "replay", "playback"},
     known : BOOLEAN,                    \* knownStart
     down  : BOOLEAN,                    \* activePointers
     geo   : BOOLEAN,                    \* geometryChanged
     rid   : Recordings \cup {None},
     event : {"none", "replay", "playback"},  \* whose event is cancel
     plan  : [epoch : Nat, seq : Nat] \cup {None}]

Envelopes == [ctl : Controllers \cup {None}, epoch : Nat, seq : Nat,
              act : {"none", "tap", "reset", "down", "up"}]

ThreadRecords ==
    [op : {"none", "claim", "record", "stop", "replay", "playback", "timer"},
     pc : {"idle", "pointers", "releasing", "second", "reset", "resetting",
           "answered", "frame", "begin", "ready", "next", "input", "wait",
           "end", "kept"},
     ctl : Controllers \cup {None}, epoch : Nat,
     arg : Recordings \cup {None}, n : Nat]

RecordingRecords ==
    [st : {"none", "recording", "complete", "invalid"},
     events : {q \in Seq(AllCmds) : Len(q) <= EventLimit}, replayable : BOOLEAN]

RunRecords ==
    [st : {"none", "running", "cancelling", "played", "cancelled", "failed"},
     cancel : BOOLEAN, back : Clients \cup {None}]

TypeOK ==
    /\ s \in SessionRecords
    /\ cmd \in [AllCmds -> Envelopes]
    /\ job \in [AllCmds -> {"no", "admitted", "executed"}]
    /\ receipts \in Seq(AllCmds)
    /\ Elements(receipts) \subseteq {c \in AllCmds : job[c] = "no"}
    /\ auth \in {"free", "open", "lost"}
    /\ rec \in [Recordings -> RecordingRecords]
    /\ th \in [Threads -> ThreadRecords]
    /\ run \in [{"replay", "playback"} -> RunRecords]
    /\ log \in Seq(AllCmds \cup {"reset", "replay"}) /\ ran \subseteq AllCmds

Init ==
    /\ \E c \in Clients :
          s = [st |-> "active", stop |-> FALSE, ctl |-> c, epoch |-> 1, seq |-> 0,
               mode |-> "manual", known |-> FALSE, down |-> FALSE, geo |-> FALSE,
               rid |-> None, event |-> "none", plan |-> None]
    /\ cmd = [c \in AllCmds |-> NoCmd]
    /\ job = [c \in AllCmds |-> "no"]
    /\ receipts = <<>>
    /\ auth = "free"
    /\ rec = [r \in Recordings |-> NoRec]
    /\ th = [t \in Threads |-> NoThread]
    /\ run = [x \in {"replay", "playback"} |-> NoRun]
    /\ log = <<>> /\ ran = {}

----------------------------------------------------------------------------
(* Pieces the handlers share.                                              *)

Inflight == {c \in AllCmds : job[c] # "no"}
Alive(t) == th[t].pc # "idle"

\* _control.
Control(ctl, epoch) ==
    /\ s.st = "active" /\ ~s.stop
    /\ s.ctl = ctl /\ s.epoch = epoch

\* _freeze: nothing keeps it from freezing a recording again.
Frozen(r, reason) ==
    [rec EXCEPT ![r].st = IF reason THEN "invalid" ELSE "complete",
                ![r].replayable = @ /\ ~reason /\ rec[r].events # <<>>]

\* _invalidate_recording.
Active(r) == r # None /\ rec[r].st = "recording"
Invalidated == IF Active(s.rid) THEN Frozen(s.rid, TRUE) ELSE rec

\* s["cancel"].set(): the event belongs to the last replay or playback.
Cancelled == IF s.event = "none" THEN run ELSE [run EXCEPT ![s.event].cancel = TRUE]

\* _prepare_effect and _confirm_effect.
MayPrepare == Native => auth = "free"
Prepared   == IF Native THEN "open" ELSE auth
Confirmed  == IF Native /\ auth = "open" THEN "free" ELSE auth

\* The session fails: a new epoch, the recording is invalid, runs are cancelled.
FailSession ==
    /\ s' = [s EXCEPT !.st = "failed", !.epoch = @ + 1, !.plan = None]
    /\ rec' = Invalidated
    /\ run' = Cancelled

Goto(t, pc) == th' = [th EXCEPT ![t].pc = pc]
Return(t)   == th' = [th EXCEPT ![t] = NoThread]

\* An error of a two-part call: callers and the timer just leave, a run
\* goes on to its end and reports a failure.
Raised(t) ==
    IF t \in {"replay", "playback"}
    THEN /\ Goto(t, "pointers")
         /\ run' = [run EXCEPT ![t].st =
                       IF run[t].cancel /\ s.st = "active" THEN "cancelled"
                       ELSE "failed"]
    ELSE Return(t) /\ UNCHANGED run

----------------------------------------------------------------------------
(* input.                                                                  *)

\* Mutant: the sequence number is not compared.
AcceptedMut(c, e) ==
    /\ Control(e.ctl, e.epoch)
    /\ s.mode = "playback" => c \in Elements(Played) /\ ~run["playback"].cancel
    /\ c \notin Elements(receipts) /\ job[c] = "no"
    /\ s.down <=> e.act = "up"

\* Mutant: an action of a playback is admitted although it was cancelled.
AcceptedCancelledMut(c, e) ==
    /\ Control(e.ctl, e.epoch)
    /\ s.mode = "playback" => c \in Elements(Played)
    /\ c \notin Elements(receipts) /\ job[c] = "no"
    /\ e.seq > s.seq
    /\ s.down <=> e.act = "up"

\* A command whose receipt is kept, or that is under way, is answered without
\* effect; e is its envelope.
Accepted(c, e) ==
    /\ Control(e.ctl, e.epoch)
    /\ s.mode = "playback" => c \in Elements(Played) /\ ~run["playback"].cancel
    /\ c \notin Elements(receipts) /\ job[c] = "no"
    /\ e.seq > s.seq
    /\ s.down <=> e.act = "up"

\* The authority may refuse the operation of an accepted command.
Admission(c, e) ==
    /\ s' = [s EXCEPT !.known = FALSE, !.plan = None, !.seq = e.seq]
    /\ IF MayPrepare
       THEN job' = [job EXCEPT ![c] = "admitted"] /\ auth' = Prepared
       ELSE UNCHANGED <<job, auth>>

\* A client's command arrives.  It may have arrived before; its envelope is
\* chosen when it is first accepted, since nothing happens before that.
Admit(c, act) ==
    LET e == IF cmd[c] # NoCmd THEN cmd[c]
             ELSE [ctl |-> s.ctl, epoch |-> s.epoch, seq |-> s.seq + 1, act |-> act]
    IN  /\ e.ctl \in Clients /\ e.act = act
        /\ Accepted(c, e)
        /\ Admission(c, e)
        /\ cmd' = [cmd EXCEPT ![c] = e]
        /\ UNCHANGED <<receipts, rec, th, run, device>>

\* The provider injects the action.
Execute(c) ==
    /\ job[c] = "admitted"
    /\ job' = [job EXCEPT ![c] = "executed"]
    /\ log' = IF cmd[c].act = "reset" THEN <<"reset">> ELSE Append(log, c)
    /\ ran' = ran \cup {c}
    /\ UNCHANGED <<s, cmd, receipts, auth, rec, th, run>>

Keep(q, c) == LET k == Append(q, c)
              IN  IF Len(k) > ReceiptLimit THEN Tail(k) ELSE k

\* _record_input, after a geometry change has invalidated the recording.
Recorded(c, base) ==
    IF s.rid = None \/ base[s.rid].st # "recording" THEN base
    ELSE IF Len(base[s.rid].events) >= EventLimit THEN Invalidated
    ELSE [base EXCEPT ![s.rid].events = Append(@, c)]

\* A confirmed input; a reset establishes the start when a newer frame came.
InputDone(c, fresh) ==
    /\ job[c] = "executed" /\ s.st = "active" /\ ~s.stop
    /\ auth # "lost"
    /\ auth' = Confirmed
    /\ rec' = Recorded(c, IF s.geo THEN Invalidated ELSE rec)
    /\ s' = [s EXCEPT !.known = cmd[c].act = "reset" /\ fresh,
                      !.geo = FALSE,
                      !.down = CASE cmd[c].act = "down" -> TRUE
                                 [] cmd[c].act = "up"   -> FALSE
                                 [] OTHER               -> @]
    /\ receipts' = Keep(receipts, c)
    /\ job' = [job EXCEPT ![c] = "no"]
    /\ UNCHANGED <<cmd, th, run, device>>

InputRejected(c) ==
    /\ job[c] = "admitted" /\ s.st = "active" /\ ~s.stop
    /\ auth # "lost"
    /\ auth' = Confirmed
    /\ receipts' = Keep(receipts, c)
    /\ job' = [job EXCEPT ![c] = "no"]
    /\ UNCHANGED <<s, cmd, rec, th, run, device>>

\* Mutant: the command stays in flight after an uncertain end.
InputUnknownMut(c) ==
    /\ job[c] # "no"
    /\ "unknown" \in Events \/ s.st # "active" \/ s.stop \/ auth = "lost"
    /\ FailSession
    /\ receipts' = Append(receipts, c)
    /\ auth' \in {auth, Confirmed}
    /\ UNCHANGED <<cmd, job, th, device>>

\* Every other end is uncertain, also the good answer of a session that has
\* stopped meanwhile.
InputUnknown(c) ==
    /\ job[c] # "no"
    /\ "unknown" \in Events \/ s.st # "active" \/ s.stop \/ auth = "lost"
    /\ FailSession
    /\ receipts' = Append(receipts, c)
    /\ job' = [job EXCEPT ![c] = "no"]
    /\ auth' \in {auth, Confirmed}
    /\ UNCHANGED <<cmd, th, device>>

----------------------------------------------------------------------------
(* _cancel_active_pointers, the middle part of several calls.              *)

\* A playback releases pointers only while it is in control.
Touching(t) ==
    s.down /\ (t = "playback" => s.ctl = t /\ s.epoch = th[t].epoch)

AfterPointers(t) == IF t \in {"replay", "playback"} THEN "end" ELSE "second"

PointersUp(t) ==
    /\ th[t].pc = "pointers" /\ ~Touching(t)
    /\ Goto(t, AfterPointers(t))
    /\ UNCHANGED <<s, cmd, job, receipts, auth, rec, run, device>>

PointersCall(t) ==
    /\ th[t].pc = "pointers" /\ Touching(t) /\ MayPrepare
    /\ auth' = Prepared
    /\ Goto(t, "releasing")
    /\ UNCHANGED <<s, cmd, job, receipts, rec, run, device>>

PointersRefused(t) ==
    /\ th[t].pc = "pointers" /\ Touching(t) /\ ~MayPrepare
    /\ IF t \in {"replay", "playback"}
       THEN /\ Goto(t, IF t = "replay" THEN "kept" ELSE "end")
            /\ run' = [run EXCEPT ![t].st = "failed"]
       ELSE Return(t) /\ UNCHANGED run
    /\ UNCHANGED <<s, cmd, job, receipts, auth, rec, device>>

PointersReleased(t) ==
    /\ th[t].pc = "releasing" /\ auth # "lost"
    /\ auth' = Confirmed
    /\ s' = [s EXCEPT !.down = FALSE]
    /\ Goto(t, AfterPointers(t))
    /\ UNCHANGED <<cmd, job, receipts, rec, run, device>>

PointersUnknown(t) ==
    /\ th[t].pc = "releasing"
    /\ "unknown" \in Events \/ auth = "lost"
    /\ s' = [s EXCEPT !.st = "failed", !.epoch = @ + 1]
    /\ rec' = Invalidated
    /\ IF t \in {"replay", "playback"}
       THEN /\ Goto(t, IF t = "replay" THEN "kept" ELSE "end")
            /\ run' = [Cancelled EXCEPT ![t].st = "failed"]
       ELSE Return(t) /\ run' = Cancelled
    /\ UNCHANGED <<cmd, job, receipts, auth, device>>

----------------------------------------------------------------------------
(* _reset, in start_recording and at the beginning of a replay.            *)

ResetBegin(t) ==
    /\ th[t].pc = "reset"
    /\ IF ~s.down /\ MayPrepare
       THEN /\ s' = [s EXCEPT !.known = FALSE]
            /\ auth' = Prepared
            /\ Goto(t, "resetting")
            /\ UNCHANGED run
       ELSE /\ s' = IF s.down THEN s ELSE [s EXCEPT !.known = FALSE]
            /\ Raised(t)
            /\ UNCHANGED auth
    /\ UNCHANGED <<cmd, job, receipts, rec, device>>

ResetExecute(t) ==
    /\ th[t].pc = "resetting"
    /\ log' = <<IF t = "replay" THEN "replay" ELSE "reset">>
    /\ Goto(t, "answered")
    /\ UNCHANGED <<ran, s, cmd, job, receipts, auth, rec, run>>

ResetConfirmed(t) ==
    /\ th[t].pc = "answered" /\ s.st = "active" /\ ~s.stop /\ auth # "lost"
    /\ auth' = Confirmed
    /\ Goto(t, "frame")
    /\ UNCHANGED <<s, cmd, job, receipts, rec, run, device>>

\* A newer frame arrived; the start is known now.
ResetDone(t) ==
    /\ th[t].pc = "frame"
    /\ s' = [s EXCEPT !.known = TRUE]
    /\ Goto(t, IF t = "replay" THEN "ready" ELSE "second")
    /\ UNCHANGED <<cmd, job, receipts, auth, rec, run, device>>

ResetRejected(t) ==
    /\ th[t].pc = "resetting" /\ s.st = "active" /\ ~s.stop /\ auth # "lost"
    /\ auth' = Confirmed
    /\ Raised(t)
    /\ UNCHANGED <<s, cmd, job, receipts, rec, device>>

\* No answer, no frame, or a session that stopped: fail().
ResetUnknown(t) ==
    /\ th[t].pc \in {"resetting", "answered", "frame"}
    /\ \/ "unknown" \in Events
       \/ th[t].pc # "frame" /\ (s.st # "active" \/ s.stop \/ auth = "lost")
    /\ IF s.st = "draining"
       THEN UNCHANGED <<s, rec, auth>>
       ELSE /\ s' = [s EXCEPT !.st = "failed", !.epoch = @ + 1, !.plan = None]
            /\ rec' = Invalidated
            /\ auth' = IF Native THEN "lost" ELSE auth
    /\ IF t = "replay"
       THEN /\ Goto(t, "pointers")
            /\ run' = [(IF s.st = "draining" THEN run ELSE Cancelled)
                         EXCEPT ![t].st = "failed"]
       ELSE /\ Return(t)
            /\ run' = IF s.st = "draining" THEN run ELSE Cancelled
    /\ UNCHANGED <<cmd, job, receipts, device>>

----------------------------------------------------------------------------
(* Calls of two parts.  The first part checks, the second checks again.    *)

Enter(k, op, pc, ctl, arg) ==
    /\ ~Alive(k)
    /\ th' = [th EXCEPT ![k] = [op |-> op, pc |-> pc, ctl |-> ctl,
                                epoch |-> s.epoch, arg |-> arg, n |-> 0]]

Second(k, op) == th[k].pc = "second" /\ th[k].op = op

\* Mutant: control can be taken from a playback.
ClaimChecksMut == s.st = "active" /\ ~s.stop /\ Inflight = {}

\* claim.
ClaimChecks ==
    s.st = "active" /\ ~s.stop /\ ~Alive("playback") /\ Inflight = {}

ClaimBegin(k, c) ==
    /\ "claim" \in Calls[k] /\ s.epoch < MaxEpoch
    /\ ClaimChecks
    /\ Enter(k, "claim", "pointers", c, None)
    /\ UNCHANGED <<s, cmd, job, receipts, auth, rec, run, device>>

ClaimEnd(k) ==
    /\ Second(k, "claim")
    /\ Return(k)
    /\ IF ClaimChecks /\ s.epoch = th[k].epoch
       THEN /\ rec' = Invalidated
            /\ run' = Cancelled
            /\ s' = [s EXCEPT !.ctl = th[k].ctl, !.epoch = @ + 1, !.seq = 0,
                              !.mode = "manual", !.plan = None]
       ELSE UNCHANGED <<s, rec, run>>
    /\ UNCHANGED <<cmd, job, receipts, auth, device>>

\* start_recording: the second part does not look for an active recording.
RecordBegin(k, c, reset) ==
    /\ (IF reset THEN "reset" ELSE "record") \in Calls[k]
    /\ Control(c, s.epoch) /\ s.mode = "manual" /\ ~Active(s.rid)
    /\ \E r \in Recordings : rec[r].st = "none"      \* bound
    /\ Enter(k, "record", IF reset THEN "reset" ELSE "second", c, None)
    /\ UNCHANGED <<s, cmd, job, receipts, auth, rec, run, device>>

RecordEnd(k, r) ==
    /\ Second(k, "record") /\ rec[r].st = "none"
    /\ Return(k)
    /\ IF Control(th[k].ctl, th[k].epoch) /\ s.mode = "manual"
       THEN /\ rec' = [rec EXCEPT ![r] = [NoRec EXCEPT !.st = "recording",
                                                       !.replayable = s.known]]
            /\ s' = [s EXCEPT !.rid = r, !.geo = FALSE]
       ELSE UNCHANGED <<s, rec>>
    /\ UNCHANGED <<cmd, job, receipts, auth, run, device>>

\* stop_recording.
StopBegin(k, c) ==
    /\ "stop" \in Calls[k]
    /\ Control(c, s.epoch) /\ Active(s.rid)
    /\ ~Alive(k)
    /\ th' = [th EXCEPT ![k] = [op |-> "stop", pc |-> "pointers", ctl |-> c,
                                epoch |-> s.epoch, arg |-> s.rid,
                                n |-> IF s.down THEN 1 ELSE 0]]
    /\ UNCHANGED <<s, cmd, job, receipts, auth, rec, run, device>>

StopEnd(k) ==
    /\ Second(k, "stop")
    /\ Return(k)
    /\ IF Control(th[k].ctl, th[k].epoch)
       THEN /\ rec' = Frozen(th[k].arg, th[k].n = 1 \/ s.geo)
            /\ s' = IF th[k].n = 1 THEN s ELSE [s EXCEPT !.geo = FALSE]
       ELSE UNCHANGED <<s, rec>>
    /\ UNCHANGED <<cmd, job, receipts, auth, run, device>>

\* start_replay, of a recording that an earlier session left: one at a time,
\* and one in all, is a bound of the model.
ReplayBegin(k, c) ==
    /\ "replay" \in Calls[k] /\ s.epoch < MaxEpoch
    /\ Control(c, s.epoch) /\ s.mode = "manual" /\ run["replay"].st = "none"
    /\ Enter(k, "replay", "pointers", c, None)
    /\ UNCHANGED <<s, cmd, job, receipts, auth, rec, run, device>>

ReplayStart(k) ==
    /\ Second(k, "replay")
    /\ IF Control(th[k].ctl, th[k].epoch) /\ run["replay"].st = "none"
       THEN /\ rec' = Invalidated
            /\ s' = [s EXCEPT !.ctl = "replay", !.epoch = @ + 1, !.seq = 0,
                              !.mode = "replay", !.event = "replay"]
            /\ run' = [run EXCEPT !["replay"] =
                          [st |-> "running", cancel |-> FALSE, back |-> th[k].ctl]]
            /\ th' = [th EXCEPT ![k] = NoThread,
                                !["replay"] = [op |-> "replay", pc |-> "begin",
                                               ctl |-> "replay",
                                               epoch |-> s.epoch + 1,
                                               arg |-> None, n |-> 1]]
       ELSE Return(k) /\ UNCHANGED <<s, rec, run>>
    /\ UNCHANGED <<cmd, job, receipts, auth, device>>

----------------------------------------------------------------------------
(* The threads of a replay and of a playback.                              *)

Script(t) == IF t = "replay" THEN Replayed ELSE Played

\* Mutant: a start that is known from before is taken for a reset.
ReplayCheckMut ==
    LET t == "replay"
    IN  /\ th[t].pc \in {"begin", "ready"}
        /\ IF Control(t, th[t].epoch)
           THEN Goto(t, "next") /\ UNCHANGED run
           ELSE Raised(t)
        /\ UNCHANGED <<s, cmd, job, receipts, auth, rec, device>>

ReplayCheck ==
    LET t == "replay"
    IN  /\ th[t].pc \in {"begin", "ready"}
        /\ IF Control(t, th[t].epoch) /\ (th[t].pc = "ready" => s.known)
           THEN /\ Goto(t, IF th[t].pc = "begin" THEN "reset" ELSE "next")
                /\ UNCHANGED run
           ELSE Raised(t)
        /\ UNCHANGED <<s, cmd, job, receipts, auth, rec, device>>

\* The next action is sent as an ordinary command, with the index for its
\* sequence; a cancelled run stops, one without control fails.
RunNext(t) ==
    LET i == th[t].n
        c == Script(t)[i]
    IN  /\ th[t].pc = "next" /\ i <= Len(Script(t))
        /\ IF run[t].cancel
           THEN /\ run' = [run EXCEPT ![t].st = "cancelled"]
                /\ Goto(t, "pointers") /\ UNCHANGED cmd
           ELSE IF Control(t, th[t].epoch) /\ (t = "playback" /\ Native => auth = "free")
           THEN /\ cmd' = [cmd EXCEPT ![c] = [ctl |-> t, epoch |-> th[t].epoch,
                                              seq |-> i, act |-> "tap"]]
                /\ Goto(t, "input") /\ UNCHANGED run
           ELSE Raised(t) /\ UNCHANGED cmd
        /\ UNCHANGED <<s, job, receipts, auth, rec, device>>

\* input() of a run: admitted once, then awaited.
RunAdmit(t) ==
    LET c == Script(t)[th[t].n]
    IN  /\ th[t].pc = "input"
        /\ IF Accepted(c, cmd[c]) THEN Admission(c, cmd[c])
           ELSE UNCHANGED <<s, job, auth>>
        /\ IF Accepted(c, cmd[c]) /\ MayPrepare
           THEN Goto(t, "wait") /\ UNCHANGED run
           ELSE Raised(t)
        /\ UNCHANGED <<cmd, receipts, rec, device>>

RunAnswered(t) ==
    LET c == Script(t)[th[t].n]
    IN  /\ th[t].pc = "wait" /\ job[c] = "no"
        /\ IF c \in ran /\ s.st = "active"
           THEN /\ th' = [th EXCEPT ![t].pc = "next", ![t].n = @ + 1]
                /\ UNCHANGED run
           ELSE Raised(t)
        /\ UNCHANGED <<s, cmd, job, receipts, auth, rec, device>>

RunComplete(t) ==
    /\ th[t].pc = "next" /\ th[t].n > Len(Script(t))
    /\ run' = [run EXCEPT ![t].st = "played"]
    /\ Goto(t, "pointers")
    /\ UNCHANGED <<s, cmd, job, receipts, auth, rec, device>>

\* Control goes back unless somebody else has it by now.
RunEnd(t) ==
    /\ th[t].pc \in {"end", "kept"}
    /\ Return(t)
    /\ LET mine == s.ctl = t /\ s.epoch = th[t].epoch
       IN  /\ s' = IF mine /\ th[t].pc = "end"
                   THEN [s EXCEPT !.ctl = run[t].back, !.epoch = @ + 1, !.seq = 0,
                                  !.mode = "manual",
                                  !.known = @ /\ t = "replay"]
                   ELSE s
           /\ run' = IF t = "playback" /\ run[t].st = "played"
                        /\ (run[t].cancel \/ ~mine)
                     THEN [run EXCEPT ![t].st = "cancelled"] ELSE run
    /\ UNCHANGED <<cmd, job, receipts, auth, rec, device>>

CancelReplay ==
    /\ "cancel" \in Events /\ run["replay"].st # "none"
    /\ run' = [Cancelled EXCEPT !["replay"].st =
                  IF @ = "running" THEN "cancelling" ELSE @]
    /\ UNCHANGED <<s, cmd, job, receipts, auth, rec, th, device>>

----------------------------------------------------------------------------
(* plan_playback, confirm_playback, cancel_playback.                       *)

PlaybackScope ==
    /\ s.mode = "manual" /\ ~s.down /\ Inflight = {}
    /\ ~Alive("playback") /\ ~Active(s.rid)

Plan(c) ==
    /\ "playback" \in Events /\ Control(c, s.epoch) /\ PlaybackScope
    /\ run["playback"].st = "none"
    /\ s' = [s EXCEPT !.plan = [epoch |-> s.epoch, seq |-> s.seq]]
    /\ UNCHANGED <<cmd, job, receipts, auth, rec, th, run, device>>

\* The plan is used up whether it is confirmed or found stale.
ConfirmPlayback(c) ==
    /\ Control(c, s.epoch) /\ PlaybackScope
    /\ s.plan # None /\ s.epoch < MaxEpoch
    /\ IF s.plan = [epoch |-> s.epoch, seq |-> s.seq] /\ (Native => auth = "free")
       THEN /\ s' = [s EXCEPT !.plan = None, !.known = FALSE, !.epoch = @ + 1,
                              !.ctl = "playback", !.seq = 0, !.mode = "playback",
                              !.event = "playback"]
            /\ run' = [run EXCEPT !["playback"] =
                          [st |-> "running", cancel |-> FALSE, back |-> c]]
            /\ th' = [th EXCEPT !["playback"] = [op |-> "playback", pc |-> "next",
                                                 ctl |-> "playback",
                                                 epoch |-> s.epoch + 1,
                                                 arg |-> None, n |-> 1]]
       ELSE s' = [s EXCEPT !.plan = None] /\ UNCHANGED <<run, th>>
    /\ UNCHANGED <<cmd, job, receipts, auth, rec, device>>

CancelPlayback ==
    /\ "cancel" \in Events /\ (s.plan # None \/ run["playback"].st = "running")
    /\ s' = [s EXCEPT !.plan = None]
    /\ run' = IF run["playback"].st = "running"
              THEN [Cancelled EXCEPT !["playback"].st = "cancelling"] ELSE run
    /\ UNCHANGED <<cmd, job, receipts, auth, rec, th, device>>

----------------------------------------------------------------------------
(* Frames, the timer, failures and the end.                                *)

\* publish_frame; the flag is only looked at by a recording, and cleared when
\* one starts.
GeometryChange ==
    /\ "geometry" \in Events /\ ~s.geo /\ s.st = "active" /\ Active(s.rid)
    /\ s' = [s EXCEPT !.geo = TRUE]
    /\ UNCHANGED <<cmd, job, receipts, auth, rec, th, run, device>>

\* reap_expired: a pointer that is down for too long is released.
TimeoutBegin ==
    /\ "timeout" \in Events /\ ~Alive("timer") /\ s.epoch < MaxEpoch
    /\ s.st = "active" /\ s.down
    /\ th' = [th EXCEPT !["timer"] = [NoThread EXCEPT !.op = "timer",
                                                      !.pc = "pointers"]]
    /\ UNCHANGED <<s, cmd, job, receipts, auth, rec, run, device>>

TimeoutEnd ==
    /\ Second("timer", "timer")
    /\ Return("timer")
    /\ rec' = Invalidated
    /\ s' = [s EXCEPT !.epoch = @ + 1, !.seq = 0, !.mode = "manual"]
    /\ UNCHANGED <<cmd, job, receipts, auth, run, device>>

Fail ==
    /\ "fail" \in Events
    /\ s.st = "active" \/ (s.st = "failed" /\ s.epoch < MaxEpoch)
    /\ FailSession
    /\ auth' = IF Native THEN "lost" ELSE auth
    /\ UNCHANGED <<cmd, job, receipts, th, device>>

CloseStop ==
    /\ "close" \in Events /\ s.st # "draining" /\ ~s.stop
    /\ s' = [s EXCEPT !.stop = TRUE, !.plan = None]
    /\ UNCHANGED <<cmd, job, receipts, auth, rec, th, run, device>>

CloseDrain ==
    /\ s.stop /\ s.st # "draining"
    /\ s' = [s EXCEPT !.st = "draining", !.epoch = @ + 1]
    /\ run' = Cancelled
    /\ rec' = Invalidated
    /\ UNCHANGED <<cmd, job, receipts, auth, th, device>>

----------------------------------------------------------------------------

InputNext(c) ==
    \/ c \in Cmds /\ \E act \in Acts : Admit(c, act)
    \/ Execute(c) \/ InputRejected(c) \/ InputUnknown(c)
    \/ \E fresh \in BOOLEAN : InputDone(c, fresh)

CallerNext(k) ==
    \/ \E c \in Clients : ClaimBegin(k, c) \/ StopBegin(k, c) \/ ReplayBegin(k, c)
    \/ \E c \in Clients, reset \in BOOLEAN : RecordBegin(k, c, reset)
    \/ \E r \in Recordings : RecordEnd(k, r)
    \/ ClaimEnd(k) \/ StopEnd(k) \/ ReplayStart(k)

ThreadNext(t) ==
    \/ PointersUp(t) \/ PointersCall(t) \/ PointersRefused(t)
    \/ PointersReleased(t) \/ PointersUnknown(t)
    \/ ResetBegin(t) \/ ResetExecute(t) \/ ResetConfirmed(t) \/ ResetDone(t)
    \/ ResetRejected(t) \/ ResetUnknown(t)

RunSteps(t) ==
    \/ RunNext(t) \/ RunAdmit(t) \/ RunAnswered(t) \/ RunComplete(t) \/ RunEnd(t)

PlaybackNext ==
    \/ \E c \in Clients : Plan(c) \/ ConfirmPlayback(c)
    \/ CancelPlayback

Next ==
    \/ \E c \in AllCmds : InputNext(c)
    \/ \E k \in Callers : CallerNext(k)
    \/ \E t \in Threads : ThreadNext(t)
    \/ \E t \in {"replay", "playback"} : RunSteps(t)
    \/ ReplayCheck \/ CancelReplay \/ PlaybackNext
    \/ GeometryChange \/ TimeoutBegin \/ TimeoutEnd \/ Fail
    \/ CloseStop \/ CloseDrain

Spec == Init /\ [][Next]_vars

----------------------------------------------------------------------------
(* Properties.                                                             *)

\* A command is injected at most once, however often it arrives: also after
\* its receipt was evicted, its outcome became unknown or control changed.
AtMostOnce ==
    [][\A c \in AllCmds : job[c] = "admitted" /\ job'[c] = "executed"
                              => c \notin ran]_vars

\* While a playback runs no command of a client is injected: it starts with
\* nothing pending and control cannot be taken before its thread has ended.
PlaybackAlone ==
    Alive("playback") => Inflight \subseteq Elements(Played)

\* "Use Cancel action playback to request cancellation": no action of the
\* playback is admitted after cancel_playback has returned.
CancelledPlaybackStops ==
    [][\A c \in Elements(Played) :
          run["playback"].cancel /\ job[c] = "no" => job'[c] = "no"]_vars

\* When the last action of a replay is injected on a device with an authority,
\* the device has executed since the replay's reset the actions of the replay,
\* in their order, and nothing else; only the late reset of a start_recording
\* that the replay has overtaken may come among them, and then the rest of the
\* actions follows it (_reset, model.py:1981; start_recording, :2018).
ReplayIsPure ==
    [][\A c \in Elements(Replayed) :
          /\ Native /\ c = Replayed[Len(Replayed)]
          /\ job[c] = "admitted" /\ job'[c] = "executed"
          => \/ log' = <<"replay">> \o Replayed
             \/ \E m \in 1 .. Len(Replayed) :
                   log' = <<"reset">> \o SubSeq(Replayed, m, Len(Replayed))]_vars

\* "Trusted replay continues to require a supported, proven starting state":
\* while the start counts as known the device has executed nothing since its
\* last reset.
KnownStartIsReset ==
    s.known /\ Inflight = {} => log \in {<<"reset">>, <<"replay">>}

============================================================================
