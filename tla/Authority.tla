----------------------------- MODULE Authority -----------------------------
(***************************************************************************)
(* Ownership of one canonical device by competing host processes.          *)
(*                                                                         *)
(*   reproof/live/authority.py    HostAuthority, DeviceAuthority           *)
(*   reproof/live/state_store.py  the durable SQLite journal               *)
(*   reproof/storage.py           Lease: kernel lock and cutover marker    *)
(*                                                                         *)
(* Every statement of the journal is keyed by the device fingerprint, so   *)
(* devices are independent and one device stands for all of them.  A       *)
(* journal transaction (BEGIN IMMEDIATE ... COMMIT) is one atomic step.    *)
(* What runs under DeviceAuthority._lock is one step per transaction or    *)
(* marker write it makes; confirm_operation runs without that lock and is  *)
(* two steps, with every other thread free to run in between.              *)
(***************************************************************************)
EXTENDS Naturals, FiniteSets

CONSTANTS
    Hosts,        \* incarnations of the host process (HostAuthority objects)
    NoHost,       \* host_incarnation of a row nobody wrote yet
    Handles,      \* DeviceAuthority objects, each used for one claim
    NoHandle,     \* issuer of an operation nobody admitted yet
    HostOf,       \* the process that creates each handle
    Ops,          \* operation identities
    Kind,         \* what the provider does for an operation
    Deadlines,    \* host-clock deadlines a parent grant may carry
    Borrows,      \* which native owners borrow the lock: "native", "recovery"
    Events,       \* what the environment may do: "clock", "disk", "crash",
                  \* "shutdown", "legacy"
    MaxTime,      \* bound: clock ticks
    MaxGen,       \* bound: ownership generations
    MaxRenewal,   \* bound: renewal sequences of one grant
    MaxReceipts,  \* MAX_RECEIPTS_PER_OPERATION
    MaxRecons     \* MAX_RECONCILIATIONS_PER_DEVICE

ASSUME ConstantsAssumption ==
    /\ NoHost \notin Hosts
    /\ NoHandle \notin Handles
    /\ HostOf \in [Handles -> Hosts]
    /\ Kind \in [Ops -> {"start", "input", "cleanup"}]
    /\ Deadlines \subseteq Nat \ {0}
    /\ Borrows \subseteq {"native", "recovery"}
    /\ Events \subseteq {"clock", "disk", "crash", "shutdown", "legacy"}
    /\ MaxTime \in Nat /\ MaxGen \in Nat /\ MaxRenewal \in Nat
    /\ MaxReceipts \in Nat /\ MaxRecons \in Nat

VARIABLES
    \* durable: survives every crash
    dev,        \* the devices row
    op,         \* the operations rows, and the handle that admitted each
    watermark,  \* replay_watermarks: highest sequence of each generation
    receipts,   \* operation_receipts: statuses received per operation
    recons,     \* reconciliations: the prior generations reconciled
    marker,     \* the authority cutover marker beside the lock file
    \* kernel: released when the last descriptor is closed
    fd,         \* open descriptors of the lock file, per handle
    legacy,     \* a controller that predates the authority holds the lock
    \* process memory: lost in a crash
    host,       \* life of each host process
    hd,         \* fields of each DeviceAuthority object; flags names those of
                \* _dispatch_revoked, _native_helper_attached and
                \* _native_cleanup_confirmed that are set, and "released" while
                \* close() holds a release it has not published
    permit,     \* deadline of the DispatchPermit of an operation, 0 if none
    pend,       \* confirm_operation calls between their two steps
    \* the provider and the native helper on the device
    up,         \* generations whose native helper is running
    effect,     \* what became of the effect an operation permits
    now         \* host suspend-inclusive clock

journal == <<dev, op, watermark, receipts, recons>>
kernel  == <<fd, legacy>>
native  == <<up, effect>>
vars == <<dev, op, watermark, receipts, recons, marker, fd, legacy, host, hd,
          permit, pend, up, effect, now>>

----------------------------------------------------------------------------
(* Values.                                                                 *)

CleanupPending == "recovery-cleanup-pending"
Unconfirmed    == "provider-outcome-unconfirmed"

Reasons == {"none", "restart-ownership-unresolved", "parent-expired",
            "clock-incompatible", "host-session-revoked", Unconfirmed,
            "host-recovery-started", CleanupPending}

Results  == {"succeeded", "rejected", "unknown"}
Terminal == {"succeeded", "rejected", "expired", "recovered"}
Markers  == {"none", "shared", "rollback-blocked", "legacy-allowed"}

Rows == [status : {"unused", "owned", "expired", "quarantined", "released"},
         gen : 0..MaxGen, host : Hosts \cup {NoHost}, renewal : Nat,
         deadline : Nat, reason : Reasons]

Operations == [st : {"absent", "queued", "uncertain"} \cup Terminal,
               gen : Nat, seq : Nat, host : Hosts \cup {NoHost},
               by : Handles \cup {NoHandle}, deadline : Nat]

HandleFields == [phase : {"free", "claiming", "claimed", "open", "closing",
                          "stuck", "closed"},
                 gen : Nat, grant : {"none", "live", "stale"}, deadline : Nat,
                 flags : SUBSET {"revoked", "attached", "cleaned", "released"}]

NoOperation == [st |-> "absent", gen |-> 0, seq |-> 0, host |-> NoHost,
                by |-> NoHandle, deadline |-> 0]

NewHandle == [phase |-> "free", gen |-> 0, grant |-> "none", deadline |-> 0,
              flags |-> {}]

TypeOK ==
    /\ dev \in Rows
    /\ op \in [Ops -> Operations]
    /\ watermark \in [0..MaxGen -> Nat]
    /\ receipts \in [Ops -> SUBSET Results]
    /\ recons \in SUBSET Nat
    /\ marker \in Markers
    /\ fd \in [Handles -> SUBSET {"lease", "native", "recovery"}]
    /\ legacy \in BOOLEAN
    /\ host \in [Hosts -> {"open", "closing", "closed", "dead"}]
    /\ hd \in [Handles -> HandleFields]
    /\ permit \in [Ops -> Nat]
    /\ pend \in [Ops -> Results \cup {"none", "clock"}]
    /\ up \in SUBSET Nat
    /\ effect \in [Ops -> {"none", "armed", "landed", "refused"}]
    /\ now \in Nat

Init ==
    /\ dev = [status |-> "unused", gen |-> 0, host |-> NoHost, renewal |-> 0,
              deadline |-> 0, reason |-> "none"]
    /\ op = [o \in Ops |-> NoOperation]
    /\ watermark = [g \in 0..MaxGen |-> 0]
    /\ receipts = [o \in Ops |-> {}]
    /\ recons = {}
    /\ marker = "none"
    /\ fd = [x \in Handles |-> {}]
    /\ legacy = FALSE
    /\ host = [h \in Hosts |-> "open"]
    /\ hd = [x \in Handles |-> NewHandle]
    /\ permit = [o \in Ops |-> 0]
    /\ pend = [o \in Ops |-> "none"]
    /\ up = {}
    /\ effect = [o \in Ops |-> "none"]
    /\ now = 0

----------------------------------------------------------------------------
(* The kernel lock: flock follows the open file description, so it is free *)
(* only when the handle's file and every duplicate of it are closed.       *)

LockFree == ~legacy /\ \A x \in Handles : fd[x] = {}

\* A controller built before the authority takes the bare lock; the marker
\* is checked after the lock is obtained.
LegacyEnter ==
    /\ "legacy" \in Events
    /\ LockFree
    /\ marker \in {"none", "legacy-allowed"}
    /\ legacy' = TRUE
    /\ UNCHANGED <<journal, marker, fd, host, hd, permit, pend, native, now>>

LegacyExit ==
    /\ legacy
    /\ legacy' = FALSE
    /\ UNCHANGED <<journal, marker, fd, host, hd, permit, pend, native, now>>

----------------------------------------------------------------------------
(* The guards the handlers share.                                          *)

\* DeviceAuthority._require_open, which includes HostAuthority._require_open.
Open(x) == hd[x].phase = "open" /\ host[HostOf[x]] = "open"

\* The row still names this handle's generation and process.
Bound(x) == dev.gen = hd[x].gen /\ dev.host = HostOf[x]

Unfinished(o) == op[o].st \in {"queued", "uncertain"}

\* Mutant: only the operation's deadline bounds the permit.
Min2Mut(a, b) == a

Min2(a, b) == IF a <= b THEN a ELSE b

----------------------------------------------------------------------------
(* HostAuthority.claim_device: lock and block rollback, write the row,     *)
(* publish the marker; HostAuthority._lock is held throughout.             *)

ClaimBegin(x, d) ==
    /\ hd[x].phase = "free"
    /\ host[HostOf[x]] = "open"
    /\ \A y \in Handles : HostOf[y] = HostOf[x]
                            => hd[y].phase \notin {"claiming", "claimed"}
    /\ now < d
    /\ LockFree
    /\ fd' = [fd EXCEPT ![x] = {"lease"}]
    /\ marker' = "rollback-blocked"
    /\ hd' = [hd EXCEPT ![x] = [@ EXCEPT !.phase = "claiming", !.deadline = d]]
    /\ UNCHANGED <<journal, legacy, host, permit, pend, native, now>>

\* Mutant: a quarantined device is claimed like a released one.
ClaimedRowMut(x) ==
    [status |-> "owned", gen |-> dev.gen + 1, host |-> HostOf[x],
     renewal |-> 1, deadline |-> hd[x].deadline, reason |-> "none"]

\* The row StateStore.claim_device writes: only an unused or a released
\* device is owned at once, under the next generation; anything else stays
\* with its generation and process and needs reconciliation.
ClaimedRow(x) ==
    IF dev.status \in {"unused", "released"}
    THEN [status |-> "owned", gen |-> dev.gen + 1, host |-> HostOf[x],
          renewal |-> 1, deadline |-> hd[x].deadline, reason |-> "none"]
    ELSE [dev EXCEPT !.status = "quarantined",
                     !.reason = IF @ = "none" THEN "restart-ownership-unresolved"
                                ELSE @]

ClaimStore(x) ==
    /\ hd[x].phase = "claiming"
    /\ dev' = ClaimedRow(x)
    /\ dev'.gen <= MaxGen
    /\ hd' = [hd EXCEPT ![x] =
                [@ EXCEPT !.phase = "claimed", !.gen = dev'.gen,
                          !.grant = IF dev'.status = "owned" THEN "live"
                                    ELSE "none"]]
    /\ UNCHANGED <<op, watermark, receipts, recons, marker, kernel, host,
                   permit, pend, native, now>>

ClaimMarker(x) == IF hd[x].grant = "none" THEN "rollback-blocked" ELSE "shared"

ClaimFinish(x) ==
    /\ hd[x].phase = "claimed"
    /\ marker' = ClaimMarker(x)
    /\ hd' = [hd EXCEPT ![x].phase = "open"]
    /\ UNCHANGED <<journal, kernel, host, permit, pend, native, now>>

\* A failing write gives up the lock, not the row: the claim is not undone.
ClaimFail(x) ==
    /\ "disk" \in Events
    /\ hd[x].phase \in {"claiming", "claimed"}
    /\ fd' = [fd EXCEPT ![x] = {}]
    /\ hd' = [hd EXCEPT ![x].phase = "closed"]
    /\ UNCHANGED <<journal, marker, legacy, host, permit, pend, native, now>>

----------------------------------------------------------------------------
(* Parent grants: renewal, expiry and the clock they are bound to.         *)

\* DeviceAuthority.renew under a newer grant of the same binding.
Renew(x, r, d) ==
    /\ Open(x) /\ hd[x].grant = "live"
    /\ now < d
    /\ Bound(x)
    /\ dev.status = "owned" /\ now < dev.deadline
    /\ r > dev.renewal
    /\ dev' = [dev EXCEPT !.renewal = r, !.deadline = d]
    /\ hd' = [hd EXCEPT ![x].deadline = d]
    /\ UNCHANGED <<op, watermark, receipts, recons, marker, kernel, host,
                   permit, pend, native, now>>

ExpiredRow == [dev EXCEPT !.status = "expired", !.reason = "parent-expired"]

\* A renewal that comes too late is refused, but first journals the expiry.
RenewExpired(x) ==
    /\ Open(x) /\ hd[x].grant = "live"
    /\ \E d \in Deadlines : now < d
    /\ Bound(x)
    /\ \/ dev.status = "expired"
       \/ dev.status = "owned" /\ now >= dev.deadline
    /\ dev' = ExpiredRow
    /\ UNCHANGED <<op, watermark, receipts, recons, marker, kernel, host, hd,
                   permit, pend, native, now>>

\* The synchronizer invalidates the mapping of a grant (boot or clock
\* identity changed, clock went backwards or could not be read).
ClockBreak(x) ==
    /\ "clock" \in Events
    /\ hd[x].grant = "live"
    /\ hd' = [hd EXCEPT ![x].grant = "stale"]
    /\ UNCHANGED <<journal, marker, kernel, host, permit, pend, native, now>>

\* Mutant: the clock failure overwrites a pending cleanup.
ClockRowMut ==
    [dev EXCEPT !.status = "quarantined", !.reason = "clock-incompatible"]

\* StateStore.quarantine_clock: whatever the status of the row.
ClockRow ==
    [dev EXCEPT !.status = "quarantined",
                !.reason = IF @ = CleanupPending THEN @ ELSE "clock-incompatible"]

\* DeviceAuthority._now with a broken mapping, called under the handle lock
\* by renew, admit_operation, prepare_dispatch and check_dispatch_permit.
ClockQuarantine(x) ==
    /\ Open(x) /\ hd[x].grant = "stale"
    /\ Bound(x)
    /\ dev' = ClockRow
    /\ UNCHANGED <<op, watermark, receipts, recons, marker, kernel, host, hd,
                   permit, pend, native, now>>

----------------------------------------------------------------------------
(* Operations: admission and dispatch.                                     *)

\* admit_operation: the sequence must be the next one of the generation.
\* An identical retry returns the first admission and changes nothing.
Admit(x, o, d) ==
    /\ Open(x) /\ hd[x].grant = "live"
    /\ op[o].st = "absent"
    /\ dev.status = "owned" /\ Bound(x)
    /\ now < d /\ d <= hd[x].deadline
    /\ now < dev.deadline /\ d <= dev.deadline
    /\ op' = [op EXCEPT ![o] =
                [st |-> "queued", gen |-> hd[x].gen,
                 seq |-> watermark[hd[x].gen] + 1, host |-> HostOf[x],
                 by |-> x, deadline |-> d]]
    /\ watermark' = [watermark EXCEPT ![hd[x].gen] = @ + 1]
    /\ UNCHANGED <<dev, receipts, recons, marker, kernel, host, hd, permit,
                   pend, native, now>>

\* Mutant: the order of the sequences is not checked.
EarlierTerminalMut(o) == TRUE

\* Nothing of this generation with a lower sequence is unfinished.
EarlierTerminal(o) ==
    \A p \in Ops : op[p].gen = op[o].gen /\ op[p].seq < op[o].seq
                     => ~Unfinished(p)

\* This handle admitted the operation, in the generation it still has.
Issued(x, o) ==
    /\ Open(x) /\ hd[x].grant = "live"
    /\ op[o].by = x /\ op[o].gen = hd[x].gen

UncertainRow == [dev EXCEPT !.status = "quarantined", !.reason = Unconfirmed]

\* prepare_dispatch: the operation is uncertain, and the device quarantined,
\* before the provider is asked for anything.
Prepare(x, o) ==
    /\ Issued(x, o) /\ op[o].st = "queued"
    /\ dev.status = "owned" /\ Bound(x)
    /\ EarlierTerminal(o)
    /\ now < op[o].deadline /\ now < hd[x].deadline /\ now < dev.deadline
    /\ op' = [op EXCEPT ![o].st = "uncertain"]
    /\ dev' = UncertainRow
    /\ permit' = [permit EXCEPT ![o] = Min2(op[o].deadline, hd[x].deadline)]
    /\ UNCHANGED <<watermark, receipts, recons, marker, kernel, host, hd,
                   pend, native, now>>

\* Mutant: the expiry does not look at the status.
ExpiredOpMut(o) == [op EXCEPT ![o].st = "expired"]

ExpiredOp(o) ==
    [op EXCEPT ![o].st = IF @ = "queued" THEN "expired" ELSE @]

\* prepare_dispatch after the deadline: expire_queued_operation, then refuse.
PrepareExpired(x, o) ==
    /\ Issued(x, o)
    /\ Bound(x)
    /\ now >= op[o].deadline \/ now >= hd[x].deadline
    /\ op' = ExpiredOp(o)
    /\ dev' = IF now >= dev.deadline /\ dev.status \in {"owned", "expired"}
              THEN ExpiredRow ELSE dev
    /\ UNCHANGED <<watermark, receipts, recons, marker, kernel, host, hd,
                   permit, pend, native, now>>

----------------------------------------------------------------------------
(* The provider side.                                                      *)

\* check_dispatch_permit, immediately before a host or native effect.
PermitCurrent(x, o) ==
    /\ Open(x) /\ "revoked" \notin hd[x].flags /\ hd[x].grant = "live"
    /\ op[o].by = x /\ permit[o] # 0 /\ op[o].gen = hd[x].gen
    /\ op[o].st = "uncertain"
    /\ now < permit[o] /\ now < hd[x].deadline

\* The provider checks the permit and asks for the effect; a pointer input
\* needs the native_grant of a helper this handle has shaken hands with.
Arm(x, o) ==
    /\ PermitCurrent(x, o)
    /\ effect[o] = "none" /\ pend[o] = "none"
    /\ Kind[o] = "input" => "attached" \in hd[x].flags
    /\ effect' = [effect EXCEPT ![o] = "armed"]
    /\ UNCHANGED <<journal, marker, kernel, host, hd, permit, pend, up, now>>

\* The effect happens some time after the check.  The process launches or
\* stops the helper; the helper injects the input, and refuses it after the
\* native deadline, which is never later than the permit's.
Land(o) ==
    /\ effect[o] = "armed"
    /\ \/ /\ Kind[o] = "start" /\ host[op[o].host] # "dead"
          /\ up' = up \cup {op[o].gen}
       \/ /\ Kind[o] = "input" /\ op[o].gen \in up /\ now < permit[o]
          /\ up' = up
       \/ /\ Kind[o] = "cleanup" /\ host[op[o].host] # "dead"
          /\ up' = up \ {op[o].gen}
    /\ effect' = [effect EXCEPT ![o] = "landed"]
    /\ UNCHANGED <<journal, marker, kernel, host, hd, permit, pend, now>>

\* bind_native_handshake, on the helper the startup operation launched.
BindNative(x, o) ==
    /\ PermitCurrent(x, o)
    /\ Kind[o] = "start" /\ effect[o] = "landed" /\ op[o].gen \in up
    /\ hd' = [hd EXCEPT ![x].flags = (@ \cup {"attached"}) \ {"cleaned"}]
    /\ UNCHANGED <<journal, marker, kernel, host, permit, pend, native, now>>

HelperExit(g) ==
    /\ g \in up
    /\ up' = up \ {g}
    /\ UNCHANGED <<journal, marker, kernel, host, hd, permit, pend, effect, now>>

----------------------------------------------------------------------------
(* Provider results.                                                       *)

\* What the provider may truthfully report: a startup has succeeded when the
\* helper it launched has shaken hands, after any earlier cleanup.
Reportable(x, o, r) ==
    \/ r = "succeeded" /\ effect[o] = "landed"
                       /\ (Kind[o] = "start" => "attached" \in hd[x].flags
                                                /\ "cleaned" \notin hd[x].flags)
    \/ r = "rejected" /\ effect[o] # "landed"
    \/ r = "unknown"

\* confirm_operation up to the clock check: no handle lock is held.
BeginConfirm(x, o, r) ==
    /\ Open(x) /\ hd[x].grant # "none"
    /\ op[o].by = x /\ permit[o] # 0
    /\ pend[o] = "none"
    /\ Reportable(x, o, r)
    /\ pend' = [pend EXCEPT ![o] = IF hd[x].grant = "stale" THEN "clock" ELSE r]
    /\ effect' = IF r = "rejected" THEN [effect EXCEPT ![o] = "refused"]
                 ELSE effect
    /\ UNCHANGED <<journal, marker, kernel, host, hd, permit, up, now>>

\* Mutant: a receipt is current whatever fenced the device.
CurrentMut(o) ==
    op[o].st = "uncertain" /\ dev.gen = op[o].gen /\ dev.host = op[o].host

\* acknowledge_result counts a receipt as current only in this state.
Current(o) ==
    /\ op[o].st = "uncertain"
    /\ dev.gen = op[o].gen /\ dev.host = op[o].host
    /\ dev.status = "quarantined" /\ dev.reason = Unconfirmed

ResolvedRow ==
    IF now < dev.deadline
    THEN [dev EXCEPT !.status = "owned", !.reason = "none"] ELSE ExpiredRow

\* record_provider_result: a current final receipt ends the operation and
\* gives the device back; any other receipt is only filed.  The process was
\* open when the call began and may be closing by the time of the transaction.
FinishConfirm(o) ==
    /\ pend[o] \in Results /\ host[op[o].host] \in {"open", "closing"}
    /\ pend[o] \notin receipts[o] /\ Cardinality(receipts[o]) < MaxReceipts
    /\ receipts' = [receipts EXCEPT ![o] = @ \cup {pend[o]}]
    /\ \/ /\ Current(o) /\ pend[o] # "unknown"
          /\ op' = [op EXCEPT ![o].st = pend[o]]
          /\ dev' = ResolvedRow
       \/ /\ ~Current(o) \/ pend[o] = "unknown"
          /\ UNCHANGED <<op, dev>>
    /\ pend' = [pend EXCEPT ![o] = "none"]
    /\ UNCHANGED <<watermark, recons, marker, kernel, host, hd, permit,
                   native, now>>

\* The receipt is a repeat, the receipts are full, the process closed, or
\* the clock cannot be read for the time of the receipt.
DropConfirm(o) ==
    /\ \/ pend[o] \in Results
            /\ \/ pend[o] \in receipts[o]
               \/ Cardinality(receipts[o]) >= MaxReceipts
               \/ host[op[o].host] # "open"
               \/ "clock" \in Events
       \/ pend[o] = "clock" /\ host[op[o].host] = "closed"
    /\ pend' = [pend EXCEPT ![o] = "none"]
    /\ UNCHANGED <<journal, marker, kernel, host, hd, permit, native, now>>

\* The clock failure of a confirm_operation quarantines the generation the
\* handle has by then, not the permit's.
FinishClock(o) ==
    /\ pend[o] = "clock" /\ host[op[o].host] \in {"open", "closing"}
    /\ dev' = IF Bound(op[o].by) THEN ClockRow ELSE dev
    /\ pend' = [pend EXCEPT ![o] = "none"]
    /\ UNCHANGED <<op, watermark, receipts, recons, marker, kernel, host, hd,
                   permit, native, now>>

----------------------------------------------------------------------------
(* Fencing and cleanup.                                                    *)

\* StateStore.revoke_dispatches leaves a released row alone.
RevokedRow ==
    IF dev.status \in {"owned", "expired", "quarantined"}
    THEN [dev EXCEPT !.status = "quarantined",
                     !.reason = IF @ = CleanupPending THEN @
                                ELSE "host-session-revoked"]
    ELSE dev

Revoke(x) ==
    /\ Open(x)
    /\ hd' = [hd EXCEPT ![x].flags = @ \cup {"revoked"}]
    /\ dev' = IF Bound(x) THEN RevokedRow ELSE dev
    /\ UNCHANGED <<op, watermark, receipts, recons, marker, kernel, host,
                   permit, pend, native, now>>

\* confirm_native_cleanup.  The session closes with its cleanup operation,
\* so no startup is admitted between that operation and this call.
ConfirmCleanup(x, o) ==
    /\ Open(x) /\ "revoked" \notin hd[x].flags
    /\ Kind[o] = "cleanup" /\ op[o].by = x /\ permit[o] # 0
    /\ op[o].gen = hd[x].gen /\ op[o].st = "succeeded"
    /\ \A p \in Ops : Kind[p] = "start" /\ op[p].gen = op[o].gen
                        => op[p].seq < op[o].seq
    /\ dev.status \in {"owned", "expired"}
    /\ hd' = [hd EXCEPT ![x].flags = @ \cup {"cleaned"}]
    /\ UNCHANGED <<journal, marker, kernel, host, permit, pend, native, now>>

----------------------------------------------------------------------------
(* Recovery.                                                               *)

\* borrow_native_lease: a native owner keeps a duplicate of the lock.
BorrowNative(x) ==
    /\ "native" \in Borrows
    /\ Open(x)
    /\ dev.status \in {"owned", "quarantined"} /\ Bound(x)
    /\ fd' = [fd EXCEPT ![x] = @ \cup {"native"}]
    /\ UNCHANGED <<journal, marker, legacy, host, hd, permit, pend, native, now>>

\* borrow_native_recovery_lease fences the receipts of the old dispatch
\* before the recovery owner gets its descriptor.
BorrowRecovery(x) ==
    /\ "recovery" \in Borrows
    /\ Open(x)
    /\ dev.status = "quarantined" /\ dev.gen = hd[x].gen
    /\ "recovery" \notin fd[x]
    /\ \E d \in Deadlines : now < d
    /\ dev' = [dev EXCEPT !.reason = IF @ = Unconfirmed
                                     THEN "host-recovery-started" ELSE @]
    /\ hd' = [hd EXCEPT ![x].flags = @ \cup {"revoked"}]
    /\ fd' = [fd EXCEPT ![x] = @ \cup {"recovery"}]
    /\ UNCHANGED <<op, watermark, receipts, recons, marker, legacy, host,
                   permit, pend, native, now>>

\* The borrower closes its descriptor, possibly long after the handle.
EndBorrow(x, k) ==
    /\ k \in fd[x] \ {"lease"}
    /\ fd' = [fd EXCEPT ![x] = @ \ {k}]
    /\ UNCHANGED <<journal, marker, legacy, host, hd, permit, pend, native, now>>

\* The trusted evidence a reconciliation carries: the prior helper exited
\* and no provider call of that generation can still reach the device.
PriorHelperGone(g) ==
    /\ g \notin up
    /\ \A o \in Ops : effect[o] = "armed" /\ op[o].gen = g /\ Kind[o] # "input"
                        => host[op[o].host] = "dead"

\* Mutants: queued operations are left behind; finished ones are rewritten.
ReconciledOpsMut(v) ==
    [o \in Ops |-> IF op[o].st = "uncertain" THEN [op[o] EXCEPT !.st = v] ELSE op[o]]

ReconciledOpsMut2(v) ==
    [o \in Ops |-> IF op[o].gen # dev.gen THEN op[o] ELSE [op[o] EXCEPT !.st = v]]

\* One disposition for each unfinished operation: v is the verdict on the
\* uncertain one, queued operations were not dispatched.
ReconciledOps(v) ==
    [o \in Ops |->
       IF op[o].gen # dev.gen \/ ~Unfinished(o) THEN op[o]
       ELSE [op[o] EXCEPT !.st = IF @ = "queued" THEN "rejected" ELSE v]]

\* reconcile: the dispositions, in one transaction with the next generation.
Reconcile(x, d, v, cleanupPending) ==
    /\ Open(x)
    /\ "recovery" \notin fd[x]
    /\ dev.status = "quarantined" /\ dev.reason # CleanupPending
    /\ dev.gen = hd[x].gen
    /\ now < d
    /\ PriorHelperGone(dev.gen)
    /\ Cardinality(recons) < MaxRecons
    /\ dev.gen < MaxGen
    /\ op' = ReconciledOps(v)
    /\ recons' = recons \cup {dev.gen}
    /\ dev' = [status |-> IF cleanupPending THEN "quarantined" ELSE "owned",
               gen |-> dev.gen + 1, host |-> HostOf[x], renewal |-> 1,
               deadline |-> d,
               reason |-> IF cleanupPending THEN CleanupPending ELSE "none"]
    /\ hd' = [hd EXCEPT ![x] =
                [@ EXCEPT !.gen = dev.gen + 1, !.grant = "live", !.deadline = d,
                          !.flags = IF cleanupPending THEN {"revoked"} ELSE {}]]
    /\ marker' \in {"shared"} \cup (IF "disk" \in Events THEN {marker} ELSE {})
    /\ UNCHANGED <<watermark, receipts, kernel, host, permit, pend, native, now>>

\* finish_reconciliation_cleanup, by the process that reconciled or, from
\* the saved record, by a later one; the caller then closes the handle.
FinishCleanup(x) ==
    /\ Open(x)
    /\ dev.gen = hd[x].gen
    /\ dev.status = "quarantined" /\ dev.reason = CleanupPending
    /\ \E d \in Deadlines : now < d
    /\ \E g \in recons : g + 1 = dev.gen
    /\ dev' = [dev EXCEPT !.status = "released", !.reason = "none"]
    /\ UNCHANGED <<op, watermark, receipts, recons, marker, kernel, host, hd,
                   permit, pend, native, now>>

----------------------------------------------------------------------------
(* Closing a handle: journal the release, publish the marker, close the    *)
(* lock file.                                                              *)

\* A helper was attached and its cleanup was not confirmed.
Unclean(x) == "attached" \in hd[x].flags /\ "cleaned" \notin hd[x].flags

\* Mutant: a quarantined device is released like any other.
ReleasesMut(x, clockReadable) ==
    ~Unclean(x) /\ clockReadable /\ Bound(x) /\ dev.status # "unused"

\* close() reaches release_device, and that finds the row its own and not
\* quarantined.
Releases(x, clockReadable) ==
    /\ ~Unclean(x) /\ clockReadable
    /\ Bound(x) /\ dev.status \notin {"unused", "quarantined"}

\* Mutant: a release leaves the queue as it is.
ReleasedOpsMut(x, clockReadable) == op

\* release_device settles the queued operations with the row.
ReleasedOps(x, clockReadable) ==
    [o \in Ops |->
       IF Releases(x, clockReadable) /\ op[o].gen = dev.gen /\ op[o].st = "queued"
       THEN [op[o] EXCEPT !.st = "rejected"] ELSE op[o]]

ClosedRow(x, clockReadable) ==
    IF Unclean(x) THEN IF Bound(x) THEN RevokedRow ELSE dev
    ELSE IF Releases(x, clockReadable)
    THEN [dev EXCEPT !.status = "released", !.reason = "none"]
    ELSE dev

\* The row is read back to find out whether the device is released; a failed
\* revocation skips that.
ClosingFlags(x, row) ==
    (hd[x].flags \ {"released"})
      \cup (IF Unclean(x) THEN {"revoked"} ELSE {})
      \cup (IF row.status = "released" /\ (Unclean(x) => Bound(x))
            THEN {"released"} ELSE {})

CloseStore(x, clockReadable) ==
    /\ hd[x].phase = "open" /\ host[HostOf[x]] \in {"open", "closing"}
    /\ dev' = ClosedRow(x, clockReadable)
    /\ op' = ReleasedOps(x, clockReadable)
    /\ hd' = [hd EXCEPT ![x] =
                [@ EXCEPT !.phase = "closing", !.flags = ClosingFlags(x, dev')]]
    /\ UNCHANGED <<watermark, receipts, recons, marker, kernel, host, permit,
                   pend, native, now>>

\* Mutants: legacy use is allowed without a release; the row's status is
\* published instead of a marker.
CloseMarkerMut(x) == "legacy-allowed"

CloseMarkerMut2(x) == dev.status

\* What close() found, although the row may have changed since.
CloseMarker(x) == IF "released" \in hd[x].flags THEN "legacy-allowed"
                  ELSE "rollback-blocked"

CloseMark(x) ==
    /\ hd[x].phase = "closing"
    /\ marker' = CloseMarker(x)
    /\ fd' = [fd EXCEPT ![x] = @ \ {"lease"}]
    /\ hd' = [hd EXCEPT ![x] =
                [NewHandle EXCEPT !.phase = "closed", !.gen = hd[x].gen]]
    /\ UNCHANGED <<journal, legacy, host, permit, pend, native, now>>

\* An OSError of mark_authority leaves the lock file open; HostAuthority.close
\* does not try the same handle again.
CloseMarkFail(x) ==
    /\ "disk" \in Events
    /\ hd[x].phase = "closing"
    /\ hd' = [hd EXCEPT ![x].phase =
                IF host[HostOf[x]] = "closing" THEN "stuck" ELSE "open"]
    /\ UNCHANGED <<journal, marker, kernel, host, permit, pend, native, now>>

----------------------------------------------------------------------------
(* The life of a host process, and time.                                   *)

HostCloseBegin(h) ==
    /\ "shutdown" \in Events
    /\ host[h] = "open"
    /\ \A x \in Handles : HostOf[x] = h
                            => hd[x].phase \notin {"claiming", "claimed"}
    /\ host' = [host EXCEPT ![h] = "closing"]
    /\ UNCHANGED <<journal, marker, kernel, hd, permit, pend, native, now>>

HostCloseEnd(h) ==
    /\ host[h] = "closing"
    /\ \A x \in Handles : HostOf[x] = h
                            => hd[x].phase \in {"free", "closed", "stuck"}
    /\ host' = [host EXCEPT ![h] = "closed"]
    /\ UNCHANGED <<journal, marker, kernel, hd, permit, pend, native, now>>

\* The process ends at any point; a native owner it started may keep the
\* descriptors it inherited.
Crash(h, kept) ==
    /\ "crash" \in Events
    /\ host[h] # "dead"
    /\ host' = [host EXCEPT ![h] = "dead"]
    /\ hd' = [x \in Handles |->
                IF HostOf[x] = h THEN [NewHandle EXCEPT !.phase = "closed"]
                ELSE hd[x]]
    /\ fd' = [x \in Handles |->
                IF HostOf[x] = h THEN fd[x] \cap kept ELSE fd[x]]
    /\ pend' = [o \in Ops |-> IF op[o].host = h THEN "none" ELSE pend[o]]
    /\ permit' = [o \in Ops |->
                    IF op[o].host = h /\ effect[o] # "armed" THEN 0
                    ELSE permit[o]]
    /\ UNCHANGED <<journal, marker, legacy, native, now>>

Tick ==
    /\ now < MaxTime
    /\ now' = now + 1
    /\ UNCHANGED <<journal, marker, kernel, host, hd, permit, pend, native>>

----------------------------------------------------------------------------

HandleNext(x) ==
    \/ \E d \in Deadlines : ClaimBegin(x, d)
    \/ ClaimStore(x)
    \/ ClaimFinish(x)
    \/ ClaimFail(x)
    \/ \E r \in 1..MaxRenewal, d \in Deadlines : Renew(x, r, d)
    \/ RenewExpired(x)
    \/ ClockBreak(x)
    \/ ClockQuarantine(x)
    \/ Revoke(x)
    \/ BorrowNative(x)
    \/ BorrowRecovery(x)
    \/ \E k \in Borrows : EndBorrow(x, k)
    \/ \E d \in Deadlines, v \in {"succeeded", "rejected", "recovered"},
          c \in BOOLEAN : Reconcile(x, d, v, c)
    \/ FinishCleanup(x)
    \/ \E c \in BOOLEAN : CloseStore(x, c)
    \/ CloseMark(x)
    \/ CloseMarkFail(x)

OperationNext(o) ==
    \/ \E x \in Handles :
         \/ \E d \in Deadlines : Admit(x, o, d)
         \/ Prepare(x, o)
         \/ PrepareExpired(x, o)
         \/ Arm(x, o)
         \/ BindNative(x, o)
         \/ \E r \in Results : BeginConfirm(x, o, r)
         \/ ConfirmCleanup(x, o)
    \/ Land(o)
    \/ FinishConfirm(o)
    \/ DropConfirm(o)
    \/ FinishClock(o)

EnvironmentNext ==
    \/ LegacyEnter
    \/ LegacyExit
    \/ \E g \in up : HelperExit(g)
    \/ \E h \in Hosts : \/ HostCloseBegin(h)
                        \/ HostCloseEnd(h)
                        \/ \E kept \in SUBSET Borrows : Crash(h, kept)
    \/ Tick

Next == (\E x \in Handles : HandleNext(x)) \/ (\E o \in Ops : OperationNext(o))
          \/ EnvironmentNext

Spec == Init /\ [][Next]_vars

----------------------------------------------------------------------------
(* Safety.                                                                 *)

\* An operation whose outcome is unknown keeps the device quarantined under
\* its own generation, and there is never a second one: prepare_dispatch
\* must not be undone by an expiry, a claim, a close or a late receipt.
UncertainHoldsDevice ==
    \A o \in Ops : op[o].st = "uncertain" =>
        /\ dev.status = "quarantined" /\ dev.gen = op[o].gen
        /\ \A p \in Ops : op[p].st = "uncertain" => p = o

\* A generation that is over leaves no unfinished operation behind, and a
\* released device has none: nothing queued can be dispatched later.
NothingStranded ==
    \A o \in Ops : Unfinished(o) => /\ op[o].gen = dev.gen
                                    /\ dev.status \notin {"unused", "released"}

\* Operations of one generation are dispatched in sequence order: when one
\* has left the queue for the device, every earlier one is finished.
DispatchInOrder ==
    \A o, p \in Ops : /\ op[o].gen = op[p].gen /\ op[p].gen # 0
                      /\ op[p].seq < op[o].seq
                      /\ op[o].st = "uncertain" \/ effect[o] = "landed"
                      => ~Unfinished(p)

\* A permit never outlives the grant it was issued under, even when the
\* grant was renewed to an earlier deadline after the admission.
PermitWithinGrant ==
    \A o \in Ops : op[o].st = "uncertain" /\ permit[o] # 0
                     => permit[o] <= dev.deadline

\* A native helper only runs in the current generation, and neither it nor
\* an unknown outcome coexists with a controller from before the authority.
HelperIsolation ==
    /\ up \subseteq {dev.gen}
    /\ legacy => up = {} /\ \A o \in Ops : op[o].st # "uncertain"

\* An effect reaches the device only while its operation is journalled
\* uncertain under the current generation and the device is quarantined
\* for it, whatever closed, crashed or claimed since the permit was checked.
EffectFence ==
    [][\A o \in Ops : effect[o] # "landed" /\ effect'[o] = "landed" =>
         /\ op[o].st = "uncertain" /\ op[o].gen = dev.gen
         /\ dev.status = "quarantined"]_vars

\* Within one generation only the receipt of the outstanding operation turns
\* a device that is not owned into an owned one, and only while nothing has
\* fenced it: revocation, expiry, clock failure, restart and the start of a
\* recovery are final for the generation.
FenceHolds ==
    [][dev'.status = "owned" /\ dev.status # "owned" /\ dev'.gen = dev.gen
         => dev.reason = Unconfirmed /\ dev.status = "quarantined"]_vars

\* A finished operation keeps its outcome, also against late and duplicate
\* receipts and against a reconciliation.
OutcomeFinal ==
    [][\A o \in Ops : op[o].st \in Terminal => op'[o].st = op[o].st]_vars

\* A recovery whose cleanup is pending ends in a release and in nothing
\* else: no claim, receipt, revocation or clock failure clears it.
CleanupHold ==
    [][dev.reason = CleanupPending /\ dev'.reason # CleanupPending
         => dev'.status = "released" /\ dev'.gen = dev.gen]_vars

----------------------------------------------------------------------------
(* A statement of docs/HOST-AUTHORITY.md that the code does not keep.       *)

\* "Rollback to a legacy controller is permitted only after every authority
\* handle is cleanly released; quarantined ownership requires reconciliation
\* first."  A confirm_operation that meets a broken clock can quarantine the
\* row after close() released it and published legacy-allowed.
RollbackAfterRelease == legacy => dev.status \in {"unused", "released"}
============================================================================
