--------------------- MODULE AuthorityOwnershipProofs ---------------------
(* Proofs about the order of dispatches, the reach of permits and the      *)
(* isolation of the native helper.  They rest on who holds the kernel lock *)
(* and on what a handle knows of the row while it does.                    *)
EXTENDS AuthorityProofs

----------------------------------------------------------------------------
(* The inductive invariant.                                                *)

\* The operation has left the queue for the device.
Acting(o) == op[o].st = "uncertain" \/ effect[o] \in {"armed", "landed"}

\* Admission numbers the operations of a generation upwards, so nothing that
\* is admitted later comes before an operation that was dispatched.
Numbered ==
    \A o \in Ops :
        /\ op[o].st = "absent" => op[o].gen = 0 /\ effect[o] \notin {"armed", "landed"}
        /\ op[o].st # "absent" => /\ op[o].gen <= dev.gen
                                  /\ op[o].seq <= watermark[op[o].gen]
                                  /\ op[o].by \in Handles /\ op[o].host = HostOf[op[o].by]
        /\ op[o].st = "succeeded" /\ op[o].gen = dev.gen => effect[o] = "landed"

InOrder ==
    \A o, p \in Ops : Acting(o) /\ op[p].gen = op[o].gen /\ op[p].seq < op[o].seq
                        => ~Unfinished(p)

\* The handle has the lock file open, from the claim to the end of its close.
Holding(x) == hd[x].phase \notin {"free", "closed"}

\* The handle has read or written the row under that lock.
Settled(x) == Holding(x) /\ hd[x].phase # "claiming"

\* One descriptor table entry at most has the lock, and a controller from
\* before the authority has it only alone and behind a marker that allows it.
LockExclusive ==
    /\ \A x \in Handles : Holding(x) => "lease" \in fd[x]
    /\ \A x, y \in Handles : fd[x] # {} /\ fd[y] # {} => x = y
    /\ legacy => \A x \in Handles : fd[x] = {}
    /\ \A x \in Handles : Holding(x) => marker \in {"rollback-blocked", "shared"}

\* While a handle holds the lock only it moves the row to another generation
\* or deadline, so what it remembers of its grant is what the row says.
GrantKnown ==
    \A x \in Handles :
        /\ hd[x].phase \in {"free", "claiming"} => hd[x].grant = "none" /\ hd[x].flags = {}
        /\ Settled(x) => hd[x].gen = dev.gen
        /\ Settled(x) /\ hd[x].grant # "none"
             => dev.host = HostOf[x] /\ hd[x].deadline = dev.deadline
        /\ "attached" \in hd[x].flags /\ Settled(x) => hd[x].grant # "none"

\* A helper runs only in the current generation, and not on a device that
\* is free or that a recovery has left to its cleanup.
HelperCurrent == up \subseteq {dev.gen}

HelperAbsent ==
    dev.status \in {"unused", "released"} \/ dev.reason = CleanupPending => up = {}

\* A running helper is known to whoever can release the device: while it is
\* owned, to every handle under the lock; while an outcome is unknown, unless
\* no receipt can end that, to the handle that dispatched.
HelperTended ==
    dev.status \in {"owned", "expired"} /\ up # {}
      => \A x \in Handles : Settled(x) => Unclean(x)

HelperInDoubt ==
    dev.reason = Unconfirmed /\ up # {} =>
      \A o \in Ops : op[o].st = "uncertain" =>
         \/ host[op[o].host] = "dead"
         \/ Kind[o] = "start" /\ effect[o] = "landed" /\ pend[o] # "succeeded"
         \/ hd[op[o].by].phase = "open" /\ Unclean(op[o].by)

HelperKnown == HelperCurrent /\ HelperAbsent /\ HelperTended /\ HelperInDoubt

\* A cleanup that reached the device after every startup of its generation
\* left no helper there.
CleanupStopsHelper ==
    \A c \in Ops :
        /\ Kind[c] = "cleanup" /\ effect[c] = "landed" /\ op[c].gen = dev.gen
        /\ \A p \in Ops : Kind[p] = "start" /\ op[p].gen = op[c].gen
                            /\ op[p].st # "absent" => op[p].seq < op[c].seq
        => up = {}

\* Nothing runs on a device that legacy controllers may use.
Vacant == up = {} /\ \A o \in Ops : op[o].st # "uncertain"

RollbackVacant ==
    /\ marker \in {"none", "legacy-allowed"} => Vacant
    /\ \A x \in Handles : hd[x].phase = "closing" /\ "released" \in hd[x].flags => Vacant
    /\ legacy => Vacant

OwnershipInv ==
    /\ JournalInv
    /\ Numbered
    /\ InOrder
    /\ LockExclusive
    /\ GrantKnown
    /\ PermitWithinGrant
    /\ HelperKnown
    /\ CleanupStopsHelper
    /\ RollbackVacant

----------------------------------------------------------------------------
(* Every step, seen from the lock and the handles.  As in AuthorityProofs  *)
(* the classes name what a step does, field by field.                      *)

RowKept == dev'.gen = dev.gen /\ dev'.host = dev.host /\ dev'.deadline = dev.deadline

\* Operations keep their labels, and at most become finished.
OpsKept ==
    /\ watermark' = watermark
    /\ \A p \in Ops :
         /\ op'[p].gen = op[p].gen /\ op'[p].seq = op[p].seq
         /\ op'[p].by = op[p].by /\ op'[p].host = op[p].host
         /\ op'[p].st = op[p].st \/ (Unfinished(p) /\ op'[p].st \in Terminal)
         /\ op'[p].st = "succeeded" => \/ op[p].st = "succeeded"
                                       \/ pend[p] = "succeeded"
                                       \/ dev'.gen = dev.gen + 1

OpAdded(o) ==
    /\ dev' = dev /\ op[o].st = "absent"
    /\ watermark' = [watermark EXCEPT ![dev.gen] = @ + 1]
    /\ op'[o].st = "queued" /\ op'[o].gen = dev.gen
    /\ op'[o].seq = watermark[dev.gen] + 1
    /\ op'[o].by \in Handles /\ op'[o].host = HostOf[op'[o].by]
    /\ \A p \in Ops \ {o} : op'[p] = op[p]

\* No effect reaches the device, no call begins to report a success and no
\* permit is issued.
EffectsKept ==
    /\ up' \subseteq up
    /\ \A o \in Ops : /\ effect'[o] = "landed" <=> effect[o] = "landed"
                      /\ effect'[o] = "armed" => effect[o] = "armed" \/ op[o].st = "uncertain"
                      /\ pend'[o] = "succeeded" => pend[o] = "succeeded"
                      /\ permit'[o] \in {permit[o], 0}
    /\ \A h \in Hosts : host[h] = "dead" => host'[h] = "dead"

\* Nothing is dispatched, landed or reported: what is in doubt only fades.
Fading ==
    /\ OpsKept \/ \E o \in Ops : OpAdded(o)
    /\ EffectsKept
    /\ dev'.reason = Unconfirmed => dev.reason = Unconfirmed

\* Only handle x is touched.
Only(x) == \A y \in Handles \ {x} : hd'[y] = hd[y] /\ fd'[y] = fd[y]

\* A receipt that ends the outstanding operation and gives the device back.
Resolved(o) ==
    /\ op[o].st = "uncertain" /\ pend[o] \in {"succeeded", "rejected"}
    /\ host[op[o].host] # "dead" /\ dev.reason = Unconfirmed

\* No handle and no descriptor is touched.
StillStep ==
    /\ hd' = hd /\ fd' = fd /\ marker' = marker /\ legacy' = legacy /\ RowKept
    /\ dev'.status \in {"unused", "released"} \/ dev'.reason = CleanupPending
         => dev.status \in {"unused", "released"} \/ dev.reason = CleanupPending
    /\ dev'.status \in {"owned", "expired"}
         => dev.status \in {"owned", "expired"} \/ \E o \in Ops : Resolved(o)

LegacyStep ==
    /\ hd' = hd /\ fd' = fd /\ marker' = marker /\ dev' = dev
    /\ ~legacy' \/ (LockFree /\ marker \in {"none", "legacy-allowed"})

CrashStep(h) ==
    /\ dev' = dev /\ marker' = marker /\ legacy' = legacy /\ host'[h] = "dead"
    /\ \A x \in Handles :
         IF HostOf[x] = h
         THEN hd'[x].phase = "closed" /\ fd'[x] \subseteq fd[x]
         ELSE hd'[x] = hd[x] /\ fd'[x] = fd[x]

TakeStep(x) ==
    /\ LockFree /\ hd[x].phase = "free" /\ Only(x) /\ dev' = dev
    /\ hd'[x].phase = "claiming" /\ hd'[x].grant = hd[x].grant
    /\ hd'[x].flags = hd[x].flags
    /\ fd'[x] = {"lease"} /\ marker' = "rollback-blocked" /\ legacy' = legacy

LearnStep(x) ==
    /\ hd[x].phase = "claiming" /\ Only(x) /\ fd' = fd
    /\ marker' = marker /\ legacy' = legacy
    /\ hd'[x].phase = "claimed" /\ hd'[x].gen = dev'.gen
    /\ hd'[x].deadline = hd[x].deadline /\ hd'[x].flags = hd[x].flags
    /\ \/ /\ dev.status \in {"unused", "released"} /\ dev'.status = "owned"
          /\ dev'.gen = dev.gen + 1 /\ dev'.host = HostOf[x]
          /\ dev'.deadline = hd[x].deadline /\ dev'.reason = "none"
       \/ /\ dev'.status = "quarantined" /\ RowKept /\ hd'[x].grant = "none"
          /\ dev.status \notin {"unused", "released"}
          /\ dev'.reason = CleanupPending => dev.reason = CleanupPending

PhaseStep(x) ==
    /\ Only(x) /\ dev' = dev /\ fd' = fd /\ legacy' = legacy
    /\ hd'[x].gen = hd[x].gen /\ hd'[x].grant = hd[x].grant
    /\ hd'[x].deadline = hd[x].deadline /\ hd'[x].flags = hd[x].flags
    /\ \/ /\ hd[x].phase = "claimed" /\ hd'[x].phase = "open"
          /\ marker' \in {"rollback-blocked", "shared"}
       \/ /\ hd[x].phase = "closing" /\ hd'[x].phase \in {"open", "stuck"}
          /\ marker' = marker

LeaveStep(x) ==
    /\ Only(x) /\ dev' = dev /\ legacy' = legacy
    /\ hd[x].phase \in {"claiming", "claimed", "closing"} /\ hd'[x].phase = "closed"
    /\ fd'[x] \subseteq fd[x]
    /\ \/ marker' \in {marker, "rollback-blocked"}
       \/ hd[x].phase = "closing" /\ "released" \in hd[x].flags

RenewStep(x) ==
    /\ hd[x].phase = "open" /\ Only(x)
    /\ fd' = fd /\ marker' = marker /\ legacy' = legacy
    /\ hd'[x].phase = hd[x].phase /\ hd'[x].gen = hd[x].gen
    /\ hd'[x].grant = hd[x].grant /\ hd'[x].flags = hd[x].flags
    /\ hd'[x].deadline = dev'.deadline
    /\ dev.status = "owned" /\ dev'.status = dev.status /\ dev'.gen = dev.gen
    /\ dev'.host = dev.host /\ dev'.reason = dev.reason

FlagStep(x) ==
    /\ Only(x) /\ marker' = marker /\ legacy' = legacy
    /\ hd'[x].phase = hd[x].phase /\ hd'[x].gen = hd[x].gen
    /\ hd'[x].deadline = hd[x].deadline
    /\ hd'[x].grant = "none" <=> hd[x].grant = "none"
    /\ hd[x].phase = "open" \/ hd[x].grant = "live" \/ hd'[x] = hd[x]
    /\ hd'[x].flags \ {"revoked"} = hd[x].flags \ {"revoked"}
    /\ "lease" \in fd[x] => "lease" \in fd'[x]
    /\ fd'[x] # {} => fd[x] # {} \/ hd[x].phase = "open"
    /\ \/ dev' = dev
       \/ /\ RowKept /\ dev'.status = "quarantined"
          /\ dev'.reason = CleanupPending => dev.reason = CleanupPending

\* The helper of a startup has shaken hands.
BindStep(x) ==
    /\ hd[x].phase = "open" /\ hd[x].grant = "live"
    /\ Only(x) /\ fd' = fd /\ marker' = marker /\ legacy' = legacy /\ dev' = dev
    /\ hd'[x].phase = "open" /\ hd'[x].gen = hd[x].gen
    /\ hd'[x].deadline = hd[x].deadline /\ hd'[x].grant = hd[x].grant
    /\ "attached" \in hd'[x].flags /\ "cleaned" \notin hd'[x].flags

CleanedStep(x) ==
    /\ hd[x].phase = "open" /\ dev.status \in {"owned", "expired"}
    /\ Only(x) /\ fd' = fd /\ marker' = marker /\ legacy' = legacy /\ dev' = dev
    /\ hd'[x].phase = "open" /\ hd'[x].gen = hd[x].gen
    /\ hd'[x].deadline = hd[x].deadline /\ hd'[x].grant = hd[x].grant
    /\ hd'[x].flags = hd[x].flags \cup {"cleaned"}
    /\ \E c \in Ops :
         /\ Kind[c] = "cleanup" /\ op[c].gen = hd[x].gen /\ op[c].st = "succeeded"
         /\ \A p \in Ops : Kind[p] = "start" /\ op[p].gen = op[c].gen
                             => op[p].seq < op[c].seq

CloseStep(x) ==
    /\ hd[x].phase = "open" /\ hd'[x].phase = "closing"
    /\ Only(x) /\ fd' = fd /\ marker' = marker /\ legacy' = legacy /\ RowKept
    /\ hd'[x].gen = hd[x].gen
    /\ hd'[x].deadline = hd[x].deadline /\ hd'[x].grant = hd[x].grant
    /\ "attached" \in hd'[x].flags <=> "attached" \in hd[x].flags
    /\ "cleaned" \in hd'[x].flags <=> "cleaned" \in hd[x].flags
    /\ "released" \in hd'[x].flags => dev'.status = "released"
    /\ \/ dev' = dev /\ (Unclean(x) => ~Bound(x) \/ dev.status \in {"unused", "released"})
       \/ /\ Unclean(x) /\ dev'.status = "quarantined" /\ dev'.reason # Unconfirmed
          /\ dev'.reason = CleanupPending => dev.reason = CleanupPending
       \/ /\ ~Unclean(x) /\ dev'.status = "released" /\ dev'.reason = "none"
          /\ dev.status \in {"owned", "expired", "released"}

RecoveryStep(x) ==
    /\ hd[x].phase = "open" /\ dev.status = "quarantined" /\ dev.gen \notin up
    /\ Only(x) /\ fd' = fd /\ legacy' = legacy /\ marker' \in {marker, "shared"}
    /\ hd'[x].phase = "open" /\ hd'[x].gen = dev.gen + 1 /\ hd'[x].grant = "live"
    /\ hd'[x].deadline = dev'.deadline
    /\ "attached" \notin hd'[x].flags
    /\ dev'.gen = dev.gen + 1 /\ dev'.host = HostOf[x]
    /\ dev'.reason \in {"none", CleanupPending}
    /\ \A o \in Ops : op[o].gen = dev.gen => op'[o].st # "uncertain"

HoldStep ==
    \/ StillStep \/ LegacyStep
    \/ \E h \in Hosts : CrashStep(h)
    \/ \E x \in Handles :
         \/ TakeStep(x) \/ LearnStep(x) \/ PhaseStep(x) \/ LeaveStep(x)
         \/ RenewStep(x) \/ FlagStep(x) \/ BindStep(x) \/ CleanedStep(x)
         \/ CloseStep(x) \/ RecoveryStep(x)

\* The three steps that are not of the fading kind.
ActStep ==
    \E o \in Ops : \/ Land(o)
                   \/ \E x \in Handles : \/ Prepare(x, o)
                                         \/ \E r \in Results : BeginConfirm(x, o, r)

OwnershipStep == (Fading /\ HoldStep) \/ ActStep

\* What a step leaves alone, it leaves as the class Fading wants it.
LEMMA Unmoved ==
  ASSUME TypeOK, UNCHANGED <<op, watermark, effect, pend, permit, host>>, up' \subseteq up
  PROVE  OpsKept /\ EffectsKept
  BY DEF OpsKept, EffectsKept

LEMMA HoldClaim ==
  ASSUME TypeOK, NEW x \in Handles,
         \/ \E d \in Deadlines : ClaimBegin(x, d)
         \/ ClaimStore(x) \/ ClaimFinish(x) \/ ClaimFail(x)
  PROVE  Fading /\ HoldStep
<1> USE ConstantsAssumption
<1>a. hd \in Fields /\ fd \in [Handles -> SUBSET {"lease", "native", "recovery"}]
        /\ dev \in Rows
  BY RowTypes DEF TypeOK
<1>1. ASSUME NEW d \in Deadlines, ClaimBegin(x, d)
      PROVE  Fading /\ HoldStep
  <2>0. hd'[x].phase = "claiming" /\ hd'[x].grant = hd[x].grant
          /\ hd'[x].flags = hd[x].flags
    <3>1. hd'[x] = [hd[x] EXCEPT !.phase = "claiming", !.deadline = d]
      BY <1>1, <1>a DEF ClaimBegin, Fields
    <3>2. hd[x] \in HandleFields
      BY <1>a DEF Fields
    <3> QED
      BY <3>1, <3>2 DEF HandleFields
  <2>1. TakeStep(x)
    BY <1>1, <1>a, <2>0 DEF ClaimBegin, TakeStep, Only, Fields, journal
  <2> QED
    BY <1>1, <2>1, Unmoved DEF ClaimBegin, Fading, HoldStep, journal, native
<1>2. CASE ClaimStore(x)
  <2>0. hd'[x].phase = "claimed" /\ hd'[x].gen = dev'.gen
          /\ hd'[x].deadline = hd[x].deadline /\ hd'[x].flags = hd[x].flags
          /\ hd'[x].grant = IF dev'.status = "owned" THEN "live" ELSE "none"
    BY <1>2, <1>a DEF ClaimStore, Fields, HandleFields
  <2>1. CASE dev.status \in {"unused", "released"}
    <3>1. /\ dev'.status = "owned" /\ dev'.gen = dev.gen + 1 /\ dev'.host = HostOf[x]
          /\ dev'.deadline = hd[x].deadline /\ dev'.reason = "none"
      BY <1>2, <2>1 DEF ClaimStore, ClaimedRow
    <3>2. LearnStep(x)
      BY <1>2, <1>a, <2>0, <2>1, <3>1 DEF ClaimStore, LearnStep, Only, Fields, kernel
    <3> QED
      BY <1>2, <3>1, <3>2, Unmoved
      DEF ClaimStore, Fading, HoldStep, kernel, native, Unconfirmed
  <2>2. CASE dev.status \notin {"unused", "released"}
    <3>1. /\ dev'.status = "quarantined" /\ RowKept
          /\ dev'.reason = dev.reason \/ dev'.reason = "restart-ownership-unresolved"
      BY <1>2, <1>a, <2>2 DEF ClaimStore, ClaimedRow, RowKept, Rows
    <3>2. LearnStep(x)
      BY <1>2, <1>a, <2>0, <2>2, <3>1
      DEF ClaimStore, LearnStep, Only, Fields, kernel, CleanupPending
    <3> QED
      BY <1>2, <3>1, <3>2, Unmoved
      DEF ClaimStore, Fading, HoldStep, kernel, native, Unconfirmed
  <2> QED
    BY <2>1, <2>2
<1>3. CASE ClaimFinish(x)
  <2>1. PhaseStep(x)
    BY <1>3, <1>a
    DEF ClaimFinish, ClaimMarker, PhaseStep, Only, Fields, HandleFields, journal, kernel
  <2> QED
    BY <1>3, <2>1, Unmoved DEF ClaimFinish, Fading, HoldStep, journal, native
<1>4. CASE ClaimFail(x)
  <2>1. LeaveStep(x)
    BY <1>4, <1>a DEF ClaimFail, LeaveStep, Only, Fields, HandleFields, journal
  <2> QED
    BY <1>4, <2>1, Unmoved DEF ClaimFail, Fading, HoldStep, journal, native
<1> QED
  BY <1>1, <1>2, <1>3, <1>4

LEMMA HoldGrant ==
  ASSUME TypeOK, NEW x \in Handles,
         \/ \E r \in 1..MaxRenewal, d \in Deadlines : Renew(x, r, d)
         \/ RenewExpired(x) \/ ClockBreak(x) \/ ClockQuarantine(x) \/ Revoke(x)
         \/ BorrowNative(x) \/ BorrowRecovery(x)
         \/ \E k \in Borrows : EndBorrow(x, k)
  PROVE  Fading /\ HoldStep
<1> USE ConstantsAssumption
<1>a. hd \in Fields /\ fd \in [Handles -> SUBSET {"lease", "native", "recovery"}]
        /\ dev \in Rows
  BY RowTypes DEF TypeOK
<1>1. ASSUME NEW r \in 1..MaxRenewal, NEW d \in Deadlines, Renew(x, r, d)
      PROVE  Fading /\ HoldStep
  <2>1. dev'.deadline = d /\ dev'.status = dev.status /\ dev'.gen = dev.gen
          /\ dev'.host = dev.host /\ dev'.reason = dev.reason
    BY <1>1, <1>a DEF Renew, Rows
  <2>2. hd'[x].phase = hd[x].phase /\ hd'[x].gen = hd[x].gen
          /\ hd'[x].grant = hd[x].grant /\ hd'[x].flags = hd[x].flags
          /\ hd'[x].deadline = d
    BY <1>1, <1>a DEF Renew, Fields, HandleFields
  <2>3. RenewStep(x)
    BY <1>1, <1>a, <2>1, <2>2 DEF Renew, RenewStep, Only, Fields, kernel, Open
  <2> QED
    BY <1>1, <2>1, <2>3, Unmoved DEF Renew, Fading, HoldStep, kernel, native
<1>2. CASE RenewExpired(x)
  <2>1. dev'.status = "expired" /\ RowKept /\ dev'.reason = "parent-expired"
    BY <1>2, <1>a DEF RenewExpired, ExpiredRow, RowKept, Rows
  <2>2. StillStep
    BY <1>2, <2>1 DEF RenewExpired, StillStep, kernel, CleanupPending
  <2> QED
    BY <1>2, <2>1, <2>2, Unmoved
    DEF RenewExpired, Fading, HoldStep, kernel, native, Unconfirmed
<1>3. CASE ClockBreak(x)
  <2>0. hd'[x].phase = hd[x].phase /\ hd'[x].gen = hd[x].gen
          /\ hd'[x].deadline = hd[x].deadline /\ hd'[x].flags = hd[x].flags
          /\ hd'[x].grant = "stale" /\ hd[x].grant = "live"
    BY <1>3, <1>a DEF ClockBreak, Fields, HandleFields
  <2>1. FlagStep(x)
    BY <1>3, <1>a, <2>0 DEF ClockBreak, FlagStep, Only, Fields, journal, kernel
  <2> QED
    BY <1>3, <2>1, Unmoved DEF ClockBreak, Fading, HoldStep, journal, native
<1>4. CASE ClockQuarantine(x)
  <2>1. dev'.status = "quarantined" /\ RowKept
          /\ dev'.reason = IF dev.reason = CleanupPending THEN CleanupPending
                           ELSE "clock-incompatible"
    BY <1>4, <1>a DEF ClockQuarantine, ClockRow, RowKept, Rows
  <2>2. StillStep
    BY <1>4, <2>1 DEF ClockQuarantine, StillStep, kernel, CleanupPending
  <2> QED
    BY <1>4, <2>1, <2>2, Unmoved
    DEF ClockQuarantine, Fading, HoldStep, kernel, native, Unconfirmed, CleanupPending
<1>5. CASE Revoke(x)
  <2>0. hd'[x].phase = hd[x].phase /\ hd'[x].gen = hd[x].gen
          /\ hd'[x].deadline = hd[x].deadline /\ hd'[x].grant = hd[x].grant
          /\ hd'[x].flags = hd[x].flags \cup {"revoked"}
    BY <1>5, <1>a DEF Revoke, Fields, HandleFields
  <2>1. \/ dev' = dev
        \/ /\ RowKept /\ dev'.status = "quarantined"
           /\ dev'.reason = IF dev.reason = CleanupPending THEN CleanupPending
                            ELSE "host-session-revoked"
    BY <1>5, <1>a DEF Revoke, RevokedRow, RowKept, Rows
  <2>2. FlagStep(x)
    BY <1>5, <1>a, <2>0, <2>1
    DEF Revoke, FlagStep, Only, Fields, kernel, Open, CleanupPending
  <2> QED
    BY <1>5, <2>1, <2>2, Unmoved
    DEF Revoke, Fading, HoldStep, native, Unconfirmed, CleanupPending
<1>6. CASE BorrowNative(x)
  <2>1. FlagStep(x)
    BY <1>6, <1>a DEF BorrowNative, FlagStep, Only, journal, Open
  <2> QED
    BY <1>6, <2>1, Unmoved DEF BorrowNative, Fading, HoldStep, journal, native
<1>7. CASE BorrowRecovery(x)
  <2>0. hd'[x].phase = hd[x].phase /\ hd'[x].gen = hd[x].gen
          /\ hd'[x].deadline = hd[x].deadline /\ hd'[x].grant = hd[x].grant
          /\ hd'[x].flags = hd[x].flags \cup {"revoked"}
    BY <1>7, <1>a DEF BorrowRecovery, Fields, HandleFields
  <2>1. /\ RowKept /\ dev'.status = "quarantined"
        /\ dev'.reason = IF dev.reason = Unconfirmed THEN "host-recovery-started"
                         ELSE dev.reason
    BY <1>7, <1>a DEF BorrowRecovery, RowKept, Rows
  <2>2. FlagStep(x)
    BY <1>7, <1>a, <2>0, <2>1
    DEF BorrowRecovery, FlagStep, Only, Fields, Open, CleanupPending
  <2> QED
    BY <1>7, <2>1, <2>2, Unmoved
    DEF BorrowRecovery, Fading, HoldStep, native, Unconfirmed
<1>8. ASSUME NEW k \in Borrows, EndBorrow(x, k)
      PROVE  Fading /\ HoldStep
  <2>1. FlagStep(x)
    BY <1>8, <1>a DEF EndBorrow, FlagStep, Only, journal
  <2> QED
    BY <1>8, <2>1, Unmoved DEF EndBorrow, Fading, HoldStep, journal, native
<1> QED
  BY <1>1, <1>2, <1>3, <1>4, <1>5, <1>6, <1>7, <1>8

LEMMA HoldRecovery ==
  ASSUME TypeOK, NEW x \in Handles,
         \/ \E d \in Deadlines, v \in {"succeeded", "rejected", "recovered"},
              c \in BOOLEAN : Reconcile(x, d, v, c)
         \/ FinishCleanup(x)
  PROVE  Fading /\ HoldStep
<1> USE ConstantsAssumption
<1>a. hd \in Fields /\ dev \in Rows /\ op \in OpRows
  BY RowTypes
<1>1. ASSUME NEW d \in Deadlines, NEW c \in BOOLEAN,
             NEW v \in {"succeeded", "rejected", "recovered"},
             Reconcile(x, d, v, c)
      PROVE  Fading /\ HoldStep
  <2>0. hd'[x].phase = hd[x].phase /\ hd'[x].gen = dev.gen + 1
          /\ hd'[x].grant = "live" /\ hd'[x].deadline = d
          /\ hd'[x].flags \subseteq {"revoked"}
    <3>1. hd'[x] = [hd[x] EXCEPT !.gen = dev.gen + 1, !.grant = "live", !.deadline = d,
                                 !.flags = IF c THEN {"revoked"} ELSE {}]
      BY <1>1, <1>a DEF Reconcile, Fields
    <3>2. hd[x] \in HandleFields
      BY <1>a DEF Fields
    <3> QED
      BY <3>1, <3>2 DEF HandleFields
  <2>1. /\ dev'.gen = dev.gen + 1 /\ dev'.host = HostOf[x] /\ dev'.deadline = d
        /\ dev'.reason \in {"none", CleanupPending}
    BY <1>1 DEF Reconcile
  <2>2. ASSUME NEW p \in Ops
        PROVE  /\ op'[p].gen = op[p].gen /\ op'[p].seq = op[p].seq
               /\ op'[p].by = op[p].by /\ op'[p].host = op[p].host
               /\ op'[p].st = op[p].st \/ (Unfinished(p) /\ op'[p].st \in Terminal)
               /\ op[p].gen = dev.gen => op'[p].st # "uncertain"
    <3>1. op[p] \in Operations
      BY <1>a DEF OpRows
    <3>2. op'[p] = IF op[p].gen # dev.gen \/ ~Unfinished(p) THEN op[p]
                   ELSE [op[p] EXCEPT !.st = IF @ = "queued" THEN "rejected" ELSE v]
      BY <1>1 DEF Reconcile, ReconciledOps
    <3> QED
      BY <3>1, <3>2 DEF Operations, Unfinished, Terminal
  <2>3. OpsKept
    BY <1>1, <2>1, <2>2 DEF OpsKept, Reconcile
  <2>4. EffectsKept
    BY <1>1 DEF Reconcile, EffectsKept, native
  <2>5. RecoveryStep(x)
    BY <1>1, <1>a, <2>0, <2>1, <2>2
    DEF Reconcile, RecoveryStep, Only, Fields, kernel, Open, PriorHelperGone
  <2> QED
    BY <2>1, <2>3, <2>4, <2>5 DEF Fading, HoldStep, Unconfirmed, CleanupPending
<1>2. CASE FinishCleanup(x)
  <2>1. dev'.status = "released" /\ dev'.reason = "none" /\ RowKept
    BY <1>2, <1>a DEF FinishCleanup, RowKept, Rows
  <2>2. StillStep
    BY <1>2, <2>1 DEF FinishCleanup, StillStep, kernel
  <2> QED
    BY <1>2, <2>1, <2>2, Unmoved DEF FinishCleanup, Fading, HoldStep, native, Unconfirmed
<1> QED
  BY <1>1, <1>2

LEMMA HoldClose ==
  ASSUME TypeOK, NEW x \in Handles,
         (\E c \in BOOLEAN : CloseStore(x, c)) \/ CloseMark(x) \/ CloseMarkFail(x)
  PROVE  Fading /\ HoldStep
<1> USE ConstantsAssumption
<1>a. hd \in Fields /\ fd \in [Handles -> SUBSET {"lease", "native", "recovery"}]
        /\ dev \in Rows /\ op \in OpRows
  BY RowTypes DEF TypeOK
<1>1. ASSUME NEW c \in BOOLEAN, CloseStore(x, c)
      PROVE  Fading /\ HoldStep
  <2>0. hd'[x].phase = "closing" /\ hd'[x].gen = hd[x].gen
          /\ hd'[x].deadline = hd[x].deadline /\ hd'[x].grant = hd[x].grant
          /\ hd'[x].flags = ClosingFlags(x, dev')
    BY <1>1, <1>a DEF CloseStore, Fields, HandleFields
  <2>1. /\ "attached" \in hd'[x].flags <=> "attached" \in hd[x].flags
        /\ "cleaned" \in hd'[x].flags <=> "cleaned" \in hd[x].flags
        /\ "released" \in hd'[x].flags => dev'.status = "released"
    BY <2>0 DEF ClosingFlags
  <2>2. RowKept /\ (dev'.reason = Unconfirmed => dev.reason = Unconfirmed)
    BY <1>1, <1>a
    DEF CloseStore, ClosedRow, RevokedRow, RowKept, Rows, Unconfirmed, CleanupPending
  <2>3. \/ dev' = dev /\ (Unclean(x) => ~Bound(x) \/ dev.status \in {"unused", "released"})
        \/ /\ Unclean(x) /\ dev'.status = "quarantined" /\ dev'.reason # Unconfirmed
           /\ dev'.reason = CleanupPending => dev.reason = CleanupPending
        \/ /\ ~Unclean(x) /\ dev'.status = "released" /\ dev'.reason = "none"
           /\ dev.status \in {"owned", "expired", "released"}
    BY <1>1, <1>a
    DEF CloseStore, ClosedRow, RevokedRow, Releases, Rows, Unconfirmed, CleanupPending
  <2>4. CloseStep(x)
    BY <1>1, <1>a, <2>0, <2>1, <2>2, <2>3 DEF CloseStore, CloseStep, Only, Fields, kernel
  <2>5. OpsKept
    <3>1. ASSUME NEW p \in Ops
          PROVE  /\ op'[p].gen = op[p].gen /\ op'[p].seq = op[p].seq
                 /\ op'[p].by = op[p].by /\ op'[p].host = op[p].host
                 /\ op'[p].st = op[p].st \/ (Unfinished(p) /\ op'[p].st = "rejected")
      <4>1. op[p] \in Operations
        BY <1>a DEF OpRows
      <4>2. op'[p] = op[p]
              \/ (op[p].st = "queued" /\ op'[p] = [op[p] EXCEPT !.st = "rejected"])
        BY <1>1 DEF CloseStore, ReleasedOps
      <4> QED
        BY <4>1, <4>2 DEF Operations, Unfinished
    <3> QED
      BY <1>1, <3>1 DEF CloseStore, OpsKept, Terminal
  <2>6. EffectsKept
    BY <1>1 DEF CloseStore, EffectsKept, native
  <2> QED
    BY <2>2, <2>4, <2>5, <2>6 DEF Fading, HoldStep
<1>2. CASE CloseMark(x)
  <2>1. LeaveStep(x)
    BY <1>2, <1>a
    DEF CloseMark, CloseMarker, LeaveStep, Only, Fields, HandleFields, NewHandle, journal
  <2> QED
    BY <1>2, <2>1, Unmoved DEF CloseMark, Fading, HoldStep, journal, native
<1>3. CASE CloseMarkFail(x)
  <2>1. PhaseStep(x)
    BY <1>3, <1>a
    DEF CloseMarkFail, PhaseStep, Only, Fields, HandleFields, journal, kernel
  <2> QED
    BY <1>3, <2>1, Unmoved DEF CloseMarkFail, Fading, HoldStep, journal, native
<1> QED
  BY <1>1, <1>2, <1>3

LEMMA HoldOperation ==
  ASSUME TypeOK, NEW o \in Ops, OperationNext(o)
  PROVE  OwnershipStep
<1> USE ConstantsAssumption
<1>a. hd \in Fields /\ dev \in Rows /\ op \in OpRows
  BY RowTypes
<1>b. op[o] \in Operations /\ \A x \in Handles : hd[x] \in HandleFields
  BY <1>a DEF OpRows, Fields
<1>1. ASSUME NEW x \in Handles, NEW d \in Deadlines, Admit(x, o, d)
      PROVE  OwnershipStep
  <2>1. OpAdded(o)
    <3>1. op'[o] = [st |-> "queued", gen |-> hd[x].gen, seq |-> watermark[hd[x].gen] + 1,
                    host |-> HostOf[x], by |-> x, deadline |-> d]
            /\ \A p \in Ops \ {o} : op'[p] = op[p]
      BY <1>1, <1>a DEF Admit, OpRows
    <3>2. hd[x].gen = dev.gen
      BY <1>1 DEF Admit, Bound
    <3> QED
      BY <1>1, <3>1, <3>2 DEF Admit, OpAdded
  <2>2. StillStep
    BY <1>1 DEF Admit, StillStep, RowKept, kernel
  <2> QED
    BY <1>1, <2>1, <2>2
    DEF Admit, OwnershipStep, Fading, HoldStep, EffectsKept, native
<1>2. ASSUME NEW x \in Handles, PrepareExpired(x, o)
      PROVE  OwnershipStep
  <2>1. dev' = dev \/ /\ dev.status \in {"owned", "expired"} /\ dev'.status = "expired"
                      /\ RowKept /\ dev'.reason = "parent-expired"
    BY <1>2, <1>a DEF PrepareExpired, ExpiredRow, RowKept, Rows
  <2>2. OpsKept
    <3>1. \A p \in Ops \ {o} : op'[p] = op[p]
      BY <1>2, <1>a DEF PrepareExpired, ExpiredOp, OpRows
    <3>2. op'[o] = [op[o] EXCEPT !.st = IF @ = "queued" THEN "expired" ELSE @]
      BY <1>2, <1>a DEF PrepareExpired, ExpiredOp, OpRows
    <3>3. /\ op'[o].gen = op[o].gen /\ op'[o].seq = op[o].seq
          /\ op'[o].by = op[o].by /\ op'[o].host = op[o].host
          /\ op'[o].st = op[o].st \/ (op[o].st = "queued" /\ op'[o].st = "expired")
      BY <3>2, <1>b DEF Operations
    <3> QED
      BY <1>2, <3>1, <3>3 DEF PrepareExpired, OpsKept, Unfinished, Terminal
  <2>3. EffectsKept
    BY <1>2 DEF PrepareExpired, EffectsKept, native
  <2>4. StillStep
    BY <1>2, <2>1 DEF PrepareExpired, StillStep, RowKept, kernel, CleanupPending
  <2> QED
    BY <2>1, <2>2, <2>3, <2>4 DEF OwnershipStep, Fading, HoldStep, Unconfirmed
<1>3. ASSUME NEW x \in Handles, Arm(x, o)
      PROVE  OwnershipStep
  <2>1. EffectsKept
    BY <1>3 DEF Arm, EffectsKept, PermitCurrent, TypeOK
  <2>2. OpsKept /\ StillStep
    BY <1>3 DEF Arm, OpsKept, StillStep, RowKept, journal, kernel
  <2> QED
    BY <1>3, <2>1, <2>2 DEF Arm, OwnershipStep, Fading, HoldStep, journal
<1>4. ASSUME NEW x \in Handles, BindNative(x, o)
      PROVE  OwnershipStep
  <2>1. hd'[x] = [hd[x] EXCEPT !.flags = (@ \cup {"attached"}) \ {"cleaned"}]
    BY <1>4, <1>a DEF BindNative, Fields
  <2>2. hd'[x].phase = hd[x].phase /\ hd'[x].gen = hd[x].gen
          /\ hd'[x].deadline = hd[x].deadline /\ hd'[x].grant = hd[x].grant
          /\ "attached" \in hd'[x].flags /\ "cleaned" \notin hd'[x].flags
    BY <2>1, <1>b DEF HandleFields
  <2>3. BindStep(x)
    BY <1>4, <1>a, <2>2
    DEF BindNative, PermitCurrent, Open, BindStep, Only, Fields, journal, kernel
  <2> QED
    BY <1>4, <2>3, Unmoved
    DEF BindNative, OwnershipStep, Fading, HoldStep, journal, native
<1>5. ASSUME NEW x \in Handles, ConfirmCleanup(x, o)
      PROVE  OwnershipStep
  <2>1. hd'[x] = [hd[x] EXCEPT !.flags = @ \cup {"cleaned"}]
    BY <1>5, <1>a DEF ConfirmCleanup, Fields
  <2>2. hd'[x].phase = hd[x].phase /\ hd'[x].gen = hd[x].gen
          /\ hd'[x].deadline = hd[x].deadline /\ hd'[x].grant = hd[x].grant
          /\ hd'[x].flags = hd[x].flags \cup {"cleaned"}
    BY <2>1, <1>b DEF HandleFields
  <2>3. CleanedStep(x)
    BY <1>5, <1>a, <2>2
    DEF ConfirmCleanup, Open, CleanedStep, Only, Fields, journal, kernel
  <2> QED
    BY <1>5, <2>3, Unmoved
    DEF ConfirmCleanup, OwnershipStep, Fading, HoldStep, journal, native
<1>6. CASE FinishConfirm(o)
  <2>1. EffectsKept
    BY <1>6 DEF FinishConfirm, EffectsKept, native, TypeOK
  <2>2. CASE UNCHANGED <<op, dev>>
    <3>1. OpsKept /\ StillStep
      BY <1>6, <2>2 DEF FinishConfirm, OpsKept, StillStep, RowKept, kernel
    <3> QED
      BY <2>1, <2>2, <3>1 DEF OwnershipStep, Fading, HoldStep
  <2>3. CASE /\ Current(o) /\ pend[o] # "unknown"
             /\ op' = [op EXCEPT ![o].st = pend[o]]
             /\ dev' = ResolvedRow
    <3>1. pend[o] \in {"succeeded", "rejected"} /\ host[op[o].host] # "dead"
      BY <1>6, <2>3 DEF FinishConfirm, Results
    <3>2. /\ \A p \in Ops \ {o} : op'[p] = op[p]
          /\ op'[o] = [op[o] EXCEPT !.st = pend[o]]
      BY <2>3, <1>a DEF OpRows
    <3>3. /\ op'[o].gen = op[o].gen /\ op'[o].seq = op[o].seq
          /\ op'[o].by = op[o].by /\ op'[o].host = op[o].host /\ op'[o].st = pend[o]
      BY <3>2, <1>b DEF Operations
    <3>4. OpsKept
      BY <1>6, <2>3, <3>1, <3>2, <3>3
      DEF FinishConfirm, Current, OpsKept, Unfinished, Terminal
    <3>5. RowKept /\ dev'.status \in {"owned", "expired"}
            /\ dev'.reason \in {"none", "parent-expired"}
      BY <2>3, <1>a DEF ResolvedRow, ExpiredRow, RowKept, Rows
    <3>6. StillStep
      BY <1>6, <2>3, <3>1, <3>5
      DEF FinishConfirm, Current, Resolved, StillStep, kernel, CleanupPending
    <3> QED
      BY <2>1, <3>4, <3>5, <3>6 DEF OwnershipStep, Fading, HoldStep, Unconfirmed
  <2> QED
    BY <1>6, <2>2, <2>3 DEF FinishConfirm
<1>7. CASE DropConfirm(o)
  <2>1. EffectsKept
    BY <1>7 DEF DropConfirm, EffectsKept, native, TypeOK
  <2>2. OpsKept /\ StillStep
    BY <1>7 DEF DropConfirm, OpsKept, StillStep, RowKept, journal, kernel
  <2> QED
    BY <1>7, <2>1, <2>2 DEF DropConfirm, OwnershipStep, Fading, HoldStep, journal
<1>8. CASE FinishClock(o)
  <2>1. EffectsKept
    BY <1>8 DEF FinishClock, EffectsKept, native, TypeOK
  <2>2. dev' = dev \/ /\ dev'.status = "quarantined" /\ RowKept
                      /\ dev'.reason = IF dev.reason = CleanupPending THEN CleanupPending
                                       ELSE "clock-incompatible"
    BY <1>8, <1>a DEF FinishClock, ClockRow, RowKept, Rows
  <2>3. OpsKept /\ StillStep
    BY <1>8, <2>2 DEF FinishClock, OpsKept, StillStep, RowKept, kernel, CleanupPending
  <2> QED
    BY <2>1, <2>2, <2>3 DEF OwnershipStep, Fading, HoldStep, Unconfirmed, CleanupPending
<1> QED
  BY <1>1, <1>2, <1>3, <1>4, <1>5, <1>6, <1>7, <1>8 DEF OperationNext, OwnershipStep, ActStep

LEMMA HoldEnvironment ==
  ASSUME TypeOK, EnvironmentNext
  PROVE  Fading /\ HoldStep
<1> USE ConstantsAssumption
<1>a. hd \in Fields /\ fd \in [Handles -> SUBSET {"lease", "native", "recovery"}]
  BY RowTypes DEF TypeOK
<1>1. CASE LegacyEnter \/ LegacyExit
  <2>1. LegacyStep
    BY <1>1 DEF LegacyEnter, LegacyExit, LegacyStep, journal
  <2> QED
    BY <1>1, <2>1, Unmoved
    DEF LegacyEnter, LegacyExit, Fading, HoldStep, journal, native
<1>2. ASSUME NEW g \in up, HelperExit(g)
      PROVE  Fading /\ HoldStep
  <2>1. StillStep
    BY <1>2 DEF HelperExit, StillStep, RowKept, journal, kernel
  <2> QED
    BY <1>2, <2>1, Unmoved DEF HelperExit, Fading, HoldStep, journal
<1>3. CASE Tick
  <2>1. StillStep
    BY <1>3 DEF Tick, StillStep, RowKept, journal, kernel
  <2> QED
    BY <1>3, <2>1, Unmoved DEF Tick, Fading, HoldStep, journal, native
<1>4. ASSUME NEW h \in Hosts, HostCloseBegin(h) \/ HostCloseEnd(h)
      PROVE  Fading /\ HoldStep
  <2>1. StillStep /\ OpsKept
    BY <1>4 DEF HostCloseBegin, HostCloseEnd, StillStep, OpsKept, RowKept, journal, kernel
  <2>2. EffectsKept
    BY <1>4 DEF HostCloseBegin, HostCloseEnd, EffectsKept, native, TypeOK
  <2> QED
    BY <1>4, <2>1, <2>2 DEF HostCloseBegin, HostCloseEnd, Fading, HoldStep, journal
<1>5. ASSUME NEW h \in Hosts, NEW kept \in SUBSET Borrows, Crash(h, kept)
      PROVE  Fading /\ HoldStep
  <2>1. CrashStep(h)
    BY <1>5, <1>a DEF Crash, CrashStep, NewHandle, journal, TypeOK
  <2>2. EffectsKept
    BY <1>5 DEF Crash, EffectsKept, native, TypeOK
  <2>3. OpsKept
    BY <1>5 DEF Crash, OpsKept, journal
  <2> QED
    BY <1>5, <2>1, <2>2, <2>3 DEF Crash, Fading, HoldStep, journal
<1> QED
  BY <1>1, <1>2, <1>3, <1>4, <1>5 DEF EnvironmentNext

LEMMA OwnershipClasses == TypeOK /\ [Next]_vars => OwnershipStep
<1>1. TypeOK /\ UNCHANGED vars => OwnershipStep
  BY Unmoved DEF vars, OwnershipStep, Fading, HoldStep, StillStep, RowKept
<1>2. ASSUME TypeOK, NEW x \in Handles, HandleNext(x)
      PROVE  OwnershipStep
  BY <1>2, HoldClaim, HoldGrant, HoldRecovery, HoldClose DEF HandleNext, OwnershipStep
<1> QED
  BY <1>1, <1>2, HoldOperation, HoldEnvironment DEF Next, OwnershipStep

----------------------------------------------------------------------------
(* The three steps that act on the device, field by field.                 *)

\* Nothing but operations, effects and calls in progress changes.
HandlesKept ==
    /\ hd' = hd /\ fd' = fd /\ marker' = marker /\ legacy' = legacy /\ host' = host
    /\ RowKept /\ watermark' = watermark

SendStep(x, o) ==
    /\ HandlesKept /\ up' = up /\ effect' = effect /\ pend' = pend
    /\ hd[x].phase = "open" /\ hd[x].grant = "live" /\ op[o].by = x
    /\ dev.status = "owned" /\ dev'.status = "quarantined" /\ dev'.reason = Unconfirmed
    /\ op[o].st = "queued" /\ op'[o].st = "uncertain" /\ EarlierTerminal(o)
    /\ op'[o].gen = op[o].gen /\ op'[o].seq = op[o].seq
    /\ op'[o].by = op[o].by /\ op'[o].host = op[o].host
    /\ \A p \in Ops \ {o} : op'[p] = op[p] /\ permit'[p] = permit[p]
    /\ permit'[o] <= hd[x].deadline

StrikeStep(o) ==
    /\ HandlesKept /\ dev' = dev /\ op' = op /\ pend' = pend /\ permit' = permit
    /\ effect[o] = "armed" /\ effect' = [effect EXCEPT ![o] = "landed"]
    /\ op[o].st = "uncertain" /\ op[o].gen = dev.gen
    /\ \/ Kind[o] = "start" /\ up' = up \cup {dev.gen}
       \/ Kind[o] = "input" /\ up' = up
       \/ Kind[o] = "cleanup" /\ up' = up \ {dev.gen}

AnswerStep(x, o) ==
    /\ HandlesKept /\ dev' = dev /\ op' = op /\ up' = up /\ permit' = permit
    /\ hd[x].phase = "open" /\ op[o].by = x
    /\ \A p \in Ops : /\ effect'[p] = "landed" <=> effect[p] = "landed"
                      /\ effect'[p] = "armed" => effect[p] = "armed"
                      /\ pend'[p] = "succeeded" /\ p # o => pend[p] = "succeeded"
    /\ pend'[o] = "succeeded" /\ Kind[o] = "start" => Unclean(x)

LEMMA ActClasses ==
  ASSUME JournalInv, ActStep
  PROVE  \E o \in Ops : \/ StrikeStep(o)
                        \/ \E x \in Handles : SendStep(x, o) \/ AnswerStep(x, o)
<1> USE ConstantsAssumption
<1>a. TypeOK
  BY DEF JournalInv
<1>b. hd \in Fields /\ dev \in Rows /\ op \in OpRows
  BY <1>a, RowTypes
<1>1. ASSUME NEW o \in Ops, Land(o)
      PROVE  StrikeStep(o)
  <2>1. CanLand(o)
    BY <1>1 DEF Land, CanLand
  <2>2. op[o].st = "uncertain" /\ op[o].gen = dev.gen
    BY <1>1, <2>1 DEF Land, JournalInv, ArmedBound, UncertainHoldsDevice
  <2> QED
    BY <1>1, <2>2 DEF Land, StrikeStep, HandlesKept, RowKept, journal, kernel
<1>2. ASSUME NEW o \in Ops, NEW x \in Handles, Prepare(x, o)
      PROVE  SendStep(x, o)
  <2>1. op[o] \in Operations /\ op[o].deadline \in Nat /\ hd[x].deadline \in Nat
    BY <1>b DEF OpRows, Operations, Fields, HandleFields
  <2>2. /\ op'[o] = [op[o] EXCEPT !.st = "uncertain"]
        /\ \A p \in Ops \ {o} : op'[p] = op[p] /\ permit'[p] = permit[p]
        /\ permit'[o] = Min2(op[o].deadline, hd[x].deadline)
    BY <1>2, <1>a, <1>b DEF Prepare, OpRows, TypeOK
  <2>3. /\ op'[o].gen = op[o].gen /\ op'[o].seq = op[o].seq /\ op'[o].st = "uncertain"
        /\ op'[o].by = op[o].by /\ op'[o].host = op[o].host
    BY <2>1, <2>2 DEF Operations
  <2>4. permit'[o] <= hd[x].deadline
    BY <2>1, <2>2 DEF Min2
  <2>5. RowKept /\ dev'.status = "quarantined" /\ dev'.reason = Unconfirmed
    BY <1>2, <1>b DEF Prepare, UncertainRow, RowKept, Rows
  <2> QED
    BY <1>2, <2>2, <2>3, <2>4, <2>5
    DEF Prepare, Issued, Open, SendStep, HandlesKept, kernel, native
<1>3. ASSUME NEW o \in Ops, NEW x \in Handles, NEW r \in Results, BeginConfirm(x, o, r)
      PROVE  AnswerStep(x, o)
  <2>1. \A p \in Ops : /\ effect'[p] = "landed" <=> effect[p] = "landed"
                       /\ effect'[p] = "armed" => effect[p] = "armed"
                       /\ pend'[p] = "succeeded" /\ p # o => pend[p] = "succeeded"
    BY <1>3, <1>a DEF BeginConfirm, Reportable, TypeOK
  <2>2. pend'[o] = "succeeded" /\ Kind[o] = "start" => Unclean(x)
    BY <1>3, <1>a DEF BeginConfirm, Reportable, Unclean, TypeOK
  <2> QED
    BY <1>3, <2>1, <2>2
    DEF BeginConfirm, AnswerStep, HandlesKept, RowKept, Open, journal, kernel
<1> QED
  BY <1>1, <1>2, <1>3 DEF ActStep

----------------------------------------------------------------------------
(* The order of dispatches.                                                *)

\* A step that is not a claim or a recovery leaves the generation alone.
LEMMA GenerationStep ==
  ASSUME HoldStep
  PROVE  dev'.gen = dev.gen \/ dev'.gen = dev.gen + 1
  BY DEF HoldStep, StillStep, LegacyStep, CrashStep, TakeStep, LearnStep, PhaseStep,
     LeaveStep, RenewStep, FlagStep, BindStep, CleanedStep, CloseStep, RecoveryStep, RowKept

OrderInv == Numbered /\ InOrder

LEMMA OrderFading ==
  ASSUME JournalInv, OrderInv, Fading, HoldStep
  PROVE  OrderInv'
<1>t. TypeOK /\ ReportsTrue
  BY DEF JournalInv
<1>g. dev'.gen = dev.gen \/ dev'.gen = dev.gen + 1
  BY GenerationStep
<1>r. /\ dev.gen \in Nat /\ dev.gen <= MaxGen
      /\ \A o \in Ops : op[o].gen \in Nat /\ op[o].seq \in Nat
      /\ watermark \in [0..MaxGen -> Nat] /\ MaxGen \in Nat
  BY <1>t, RowTypes, ConstantsAssumption DEF TypeOK
<1>1. CASE OpsKept
  <2>1. ASSUME NEW o \in Ops
        PROVE  /\ op'[o].st = "absent" => op'[o].gen = 0 /\ effect'[o] \notin {"armed", "landed"}
               /\ op'[o].st # "absent" =>
                    /\ op'[o].gen <= dev'.gen /\ op'[o].seq <= watermark'[op'[o].gen]
                    /\ op'[o].by \in Handles /\ op'[o].host = HostOf[op'[o].by]
               /\ op'[o].st = "succeeded" /\ op'[o].gen = dev'.gen => effect'[o] = "landed"
    BY <1>1, <1>t, <1>g, <1>r
    DEF OrderInv, Numbered, OpsKept, Fading, EffectsKept, ReportsTrue, Unfinished, Terminal
  <2>2. InOrder'
    <3>1. \A o \in Ops : Acting(o)' => Acting(o)
      BY <1>1 DEF OpsKept, Fading, EffectsKept, Acting, Unfinished, Terminal
    <3>2. \A o \in Ops : Unfinished(o)' => Unfinished(o)
      BY <1>1 DEF OpsKept, Unfinished, Terminal
    <3> QED
      BY <1>1, <3>1, <3>2 DEF OrderInv, InOrder, OpsKept
  <2> QED
    BY <2>1, <2>2 DEF OrderInv, Numbered
<1>2. ASSUME NEW q \in Ops, OpAdded(q)
      PROVE  OrderInv'
  <2>w. /\ watermark'[dev.gen] = watermark[dev.gen] + 1
        /\ \A g \in 0..MaxGen : /\ watermark[g] \in Nat
                                 /\ g # dev.gen => watermark'[g] = watermark[g]
    BY <1>2, <1>r DEF OpAdded
  <2>e. \A o \in Ops : Acting(o)' => Acting(o) /\ o # q
    BY <1>2 DEF OrderInv, Numbered, OpAdded, Fading, EffectsKept, Acting
  <2>1. ASSUME NEW o \in Ops
        PROVE  /\ op'[o].st = "absent" => op'[o].gen = 0 /\ effect'[o] \notin {"armed", "landed"}
               /\ op'[o].st # "absent" =>
                    /\ op'[o].gen <= dev'.gen /\ op'[o].seq <= watermark'[op'[o].gen]
                    /\ op'[o].by \in Handles /\ op'[o].host = HostOf[op'[o].by]
               /\ op'[o].st = "succeeded" /\ op'[o].gen = dev'.gen => effect'[o] = "landed"
    <3>1. CASE o = q
      BY <3>1, <1>2, <1>r, <2>w DEF OpAdded
    <3>2. CASE o # q
      <4>1. op'[o] = op[o] /\ dev' = dev
        BY <3>2, <1>2 DEF OpAdded
      <4>2. op[o].st # "absent" => op[o].gen \in 0..MaxGen
                                     /\ op[o].seq <= watermark[op[o].gen]
        BY <1>r DEF OrderInv, Numbered
      <4>3. op[o].st # "absent" => op[o].seq <= watermark'[op[o].gen]
        <5>1. CASE op[o].gen = dev.gen
          <6>1. op[o].st # "absent" => /\ op[o].seq <= watermark[dev.gen]
                                       /\ watermark[dev.gen] \in Nat
            BY <4>2, <5>1, <1>r
          <6>2. op[o].seq \in Nat /\ watermark'[op[o].gen] = watermark[dev.gen] + 1
            BY <5>1, <2>w, <1>r
          <6> QED
            BY <6>1, <6>2
        <5>2. CASE op[o].gen # dev.gen
          <6>1. op[o].gen \in 0..MaxGen => watermark'[op[o].gen] = watermark[op[o].gen]
            BY <5>2, <2>w, <1>r
          <6> QED
            BY <4>2, <6>1
        <5> QED
          BY <5>1, <5>2
      <4> QED
        BY <4>1, <4>3 DEF OrderInv, Numbered, Fading, EffectsKept
    <3> QED
      BY <3>1, <3>2
  <2>2. ASSUME NEW o \in Ops, NEW p \in Ops, Acting(o)', op'[p].gen = op'[o].gen,
               op'[p].seq < op'[o].seq
        PROVE  ~Unfinished(p)'
    <3>1. Acting(o) /\ o # q /\ op'[o] = op[o]
      BY <2>2, <2>e, <1>2 DEF OpAdded
    <3>2. op[o].st # "absent"
      BY <3>1 DEF OrderInv, Numbered, Acting
    <3>3. CASE p = q
      <4>1. op[o].gen = dev.gen /\ op[o].seq <= watermark[dev.gen]
        BY <3>1, <3>2, <3>3, <2>2, <1>2 DEF OrderInv, Numbered, OpAdded
      <4>2. op[o].seq > watermark[dev.gen] + 1
        BY <3>1, <3>3, <2>2, <1>2 DEF OpAdded
      <4> QED
        BY <4>1, <4>2, <1>r
    <3>4. CASE p # q
      BY <3>1, <3>4, <2>2, <1>2 DEF OrderInv, InOrder, OpAdded, Unfinished
    <3> QED
      BY <3>3, <3>4
  <2> QED
    BY <2>1, <2>2 DEF OrderInv, Numbered, InOrder
<1> QED
  BY <1>1, <1>2 DEF Fading

LEMMA OrderActing ==
  ASSUME JournalInv, OrderInv, ActStep
  PROVE  OrderInv'
<1>t. TypeOK /\ effect \in [Ops -> {"none", "armed", "landed", "refused"}]
  BY DEF JournalInv, TypeOK
<1>1. ASSUME NEW o \in Ops, StrikeStep(o)
      PROVE  OrderInv'
  BY <1>1, <1>t
  DEF OrderInv, Numbered, InOrder, StrikeStep, HandlesKept, Acting, Unfinished
<1>2. ASSUME NEW o \in Ops, NEW x \in Handles, AnswerStep(x, o)
      PROVE  OrderInv'
  BY <1>2 DEF OrderInv, Numbered, InOrder, AnswerStep, HandlesKept, Acting, Unfinished
<1>3. ASSUME NEW o \in Ops, NEW x \in Handles, SendStep(x, o)
      PROVE  OrderInv'
  <2>0. \A p \in Ops : /\ op'[p].gen = op[p].gen /\ op'[p].seq = op[p].seq
                       /\ op'[p].by = op[p].by /\ op'[p].host = op[p].host
                       /\ op'[p].st = IF p = o THEN "uncertain" ELSE op[p].st
    BY <1>3 DEF SendStep
  <2>1. Numbered'
    BY <1>3, <2>0 DEF OrderInv, Numbered, SendStep, HandlesKept, RowKept
  <2>2. InOrder'
    <3> SUFFICES ASSUME NEW q \in Ops, NEW p \in Ops, Acting(q)',
                        op'[p].gen = op'[q].gen, op'[p].seq < op'[q].seq
                 PROVE  ~Unfinished(p)'
      BY DEF InOrder
    <3>r. op[o].seq \in Nat
      BY <1>t, RowTypes
    <3>1. Unfinished(p)' <=> Unfinished(p)
      BY <1>3, <2>0 DEF SendStep, Unfinished
    <3>2. CASE q = o
      BY <1>3, <2>0, <3>1, <3>2 DEF SendStep, EarlierTerminal
    <3>3. CASE q # o
      BY <1>3, <2>0, <3>1, <3>3 DEF OrderInv, InOrder, SendStep, Acting
    <3> QED
      BY <3>2, <3>3
  <2> QED
    BY <2>1, <2>2 DEF OrderInv
<1> QED
  BY <1>1, <1>2, <1>3, ActClasses

----------------------------------------------------------------------------
(* The lock, and what its holder knows.                                    *)

\* Two handles never hold the lock at once.
LEMMA OneHolder ==
  ASSUME LockExclusive, NEW x \in Handles, NEW y \in Handles, Holding(x), Holding(y)
  PROVE  x = y
  BY DEF LockExclusive

LEMMA LockStep ==
  ASSUME LockExclusive, HoldStep
  PROVE  LockExclusive'
<1> USE DEF LockExclusive
<1>1. CASE StillStep
  BY <1>1 DEF StillStep, Holding
<1>2. CASE LegacyStep
  BY <1>2 DEF LegacyStep, LockFree, Holding
<1>3. ASSUME NEW h \in Hosts, CrashStep(h)
      PROVE  LockExclusive'
  <2>1. \A x \in Handles : /\ fd'[x] # {} => fd[x] # {}
                           /\ Holding(x)' => Holding(x) /\ fd'[x] = fd[x]
    BY <1>3 DEF CrashStep, Holding
  <2> QED
    BY <1>3, <2>1 DEF CrashStep
<1>4. ASSUME NEW x \in Handles, TakeStep(x)
      PROVE  LockExclusive'
  <2>1. \A y \in Handles : /\ fd'[y] = IF y = x THEN {"lease"} ELSE {}
                           /\ y # x => ~Holding(y)'
    BY <1>4 DEF TakeStep, Only, LockFree, Holding
  <2> QED
    BY <1>4, <2>1 DEF TakeStep, LockFree
<1>5. ASSUME NEW x \in Handles, LearnStep(x) \/ PhaseStep(x) \/ RenewStep(x)
               \/ BindStep(x) \/ CleanedStep(x) \/ CloseStep(x) \/ RecoveryStep(x)
      PROVE  LockExclusive'
  <2>1. /\ fd' = fd /\ legacy' = legacy
        /\ marker' \in {marker, "shared", "rollback-blocked"}
        /\ \A y \in Handles : Holding(y)' => Holding(y)
    BY <1>5 DEF LearnStep, PhaseStep, RenewStep, BindStep, CleanedStep, CloseStep,
       RecoveryStep, Only, Holding
  <2> QED
    BY <2>1
<1>6. ASSUME NEW x \in Handles, LeaveStep(x)
      PROVE  LockExclusive'
  <2>1. Holding(x) /\ ~Holding(x)'
    BY <1>6 DEF LeaveStep, Holding
  <2>2. \A y \in Handles : ~Holding(y)'
    BY <1>6, <2>1, OneHolder DEF LeaveStep, Only, Holding
  <2> QED
    BY <1>6, <2>2 DEF LeaveStep, Only
<1>7. ASSUME NEW x \in Handles, FlagStep(x)
      PROVE  LockExclusive'
  <2>1. \A y \in Handles : /\ fd'[y] # {} => fd[y] # {}
                           /\ "lease" \in fd[y] => "lease" \in fd'[y]
                           /\ Holding(y)' <=> Holding(y)
    BY <1>7 DEF FlagStep, Only, Holding
  <2> QED
    BY <1>7, <2>1 DEF FlagStep
<1> QED
  BY <1>1, <1>2, <1>3, <1>4, <1>5, <1>6, <1>7 DEF HoldStep

\* One handle's share of GrantKnown.
GrantKnownOf(x) ==
    /\ hd[x].phase \in {"free", "claiming"} => hd[x].grant = "none" /\ hd[x].flags = {}
    /\ Settled(x) => hd[x].gen = dev.gen
    /\ Settled(x) /\ hd[x].grant # "none"
         => dev.host = HostOf[x] /\ hd[x].deadline = dev.deadline
    /\ "attached" \in hd[x].flags /\ Settled(x) => hd[x].grant # "none"

LEMMA GrantStep ==
  ASSUME LockExclusive, GrantKnown, HoldStep
  PROVE  GrantKnown'
<1> SUFFICES ASSUME NEW y \in Handles PROVE GrantKnownOf(y)'
  BY DEF GrantKnown, GrantKnownOf
<1>y. GrantKnownOf(y)
  BY DEF GrantKnown, GrantKnownOf
<1> USE DEF GrantKnownOf, Settled, Holding
<1>1. CASE StillStep
  BY <1>1, <1>y DEF StillStep, RowKept
<1>2. CASE LegacyStep
  BY <1>2, <1>y DEF LegacyStep
<1>3. ASSUME NEW h \in Hosts, CrashStep(h)
      PROVE  GrantKnownOf(y)'
  BY <1>3, <1>y DEF CrashStep
\* The handle that moves the row is the only one under the lock.
<1>4. ASSUME NEW x \in Handles, Holding(x), Only(x), y # x
      PROVE  GrantKnownOf(y)'
  <2>1. ~Holding(y) /\ hd'[y] = hd[y]
    BY <1>4, OneHolder DEF Only
  <2> QED
    BY <2>1, <1>y
<1>5. ASSUME NEW x \in Handles, TakeStep(x)
      PROVE  GrantKnownOf(y)'
  BY <1>5, <1>y DEF TakeStep, Only
<1>6. ASSUME NEW x \in Handles, LearnStep(x)
      PROVE  GrantKnownOf(y)'
  BY <1>6, <1>4, <1>y DEF LearnStep, RowKept
<1>7. ASSUME NEW x \in Handles, PhaseStep(x) \/ LeaveStep(x) \/ CloseStep(x)
      PROVE  GrantKnownOf(y)'
  BY <1>7, <1>4, <1>y DEF PhaseStep, LeaveStep, CloseStep, RowKept
<1>8. ASSUME NEW x \in Handles, RenewStep(x) \/ BindStep(x) \/ CleanedStep(x)
      PROVE  GrantKnownOf(y)'
  BY <1>8, <1>4, <1>y DEF RenewStep, BindStep, CleanedStep
<1>9. ASSUME NEW x \in Handles, FlagStep(x)
      PROVE  GrantKnownOf(y)'
  <2>1. RowKept
    BY <1>9 DEF FlagStep, RowKept
  <2>2. CASE y # x
    BY <1>9, <2>1, <2>2, <1>y DEF FlagStep, Only, RowKept
  <2>3. CASE y = x
    BY <1>9, <2>1, <2>3, <1>y DEF FlagStep, RowKept
  <2> QED
    BY <2>2, <2>3
<1>10. ASSUME NEW x \in Handles, RecoveryStep(x)
       PROVE  GrantKnownOf(y)'
  BY <1>10, <1>4, <1>y DEF RecoveryStep
<1> QED
  BY <1>1, <1>2, <1>3, <1>5, <1>6, <1>7, <1>8, <1>9, <1>10 DEF HoldStep

\* The steps that act on the device leave the lock and the grants alone.
LEMMA HoldActing ==
  ASSUME LockExclusive, GrantKnown, HandlesKept
  PROVE  LockExclusive' /\ GrantKnown'
  BY DEF LockExclusive, GrantKnown, HandlesKept, RowKept, Settled, Holding

----------------------------------------------------------------------------
(* The reach of a permit.                                                  *)

LEMMA PermitFading ==
  ASSUME JournalInv, Numbered, PermitWithinGrant, Fading, HoldStep
  PROVE  PermitWithinGrant'
<1>j. UncertainHoldsDevice
  BY DEF JournalInv
<1>1. ASSUME NEW o \in Ops, op'[o].st = "uncertain"
      PROVE  op[o].st = "uncertain" /\ op[o].gen = dev.gen /\ dev.status = "quarantined"
               /\ permit'[o] \in {permit[o], 0}
  BY <1>1, <1>j
  DEF Fading, OpsKept, OpAdded, EffectsKept, Unfinished, Terminal, UncertainHoldsDevice
<1>2. CASE dev'.deadline = dev.deadline
  BY <1>1, <1>2 DEF PermitWithinGrant
<1>3. CASE \A o \in Ops : op'[o].st # "uncertain"
  BY <1>3 DEF PermitWithinGrant
<1>4. ASSUME NEW x \in Handles, LearnStep(x) \/ RenewStep(x) \/ RecoveryStep(x)
      PROVE  dev'.deadline = dev.deadline \/ \A o \in Ops : op'[o].st # "uncertain"
  BY <1>1, <1>4 DEF LearnStep, RenewStep, RecoveryStep, RowKept
<1> QED
  BY <1>2, <1>3, <1>4 DEF HoldStep, StillStep, LegacyStep, CrashStep, TakeStep, PhaseStep,
     LeaveStep, FlagStep, BindStep, CleanedStep, CloseStep, RowKept

LEMMA PermitActing ==
  ASSUME JournalInv, GrantKnown, PermitWithinGrant, ActStep
  PROVE  PermitWithinGrant'
<1>1. ASSUME NEW o \in Ops, NEW x \in Handles, SendStep(x, o)
      PROVE  PermitWithinGrant'
  <2>1. hd[x].deadline = dev.deadline /\ dev'.deadline = dev.deadline
    BY <1>1 DEF SendStep, HandlesKept, RowKept, GrantKnown, Settled, Holding
  <2> QED
    BY <1>1, <2>1 DEF SendStep, PermitWithinGrant
<1>2. ASSUME NEW o \in Ops, StrikeStep(o) \/ \E x \in Handles : AnswerStep(x, o)
      PROVE  PermitWithinGrant'
  BY <1>2 DEF StrikeStep, AnswerStep, PermitWithinGrant
<1> QED
  BY <1>1, <1>2, ActClasses

----------------------------------------------------------------------------
(* The native helper.                                                      *)

\* What the fading steps have in common for the helper.
LEMMA Shrinking ==
  ASSUME Fading
  PROVE  /\ up' \subseteq up
         /\ \A o \in Ops : op'[o].st = "uncertain" =>
              /\ op[o].st = "uncertain" /\ op'[o].by = op[o].by
              /\ op'[o].host = op[o].host
  BY DEF Fading, OpsKept, OpAdded, EffectsKept, Unfinished, Terminal

LEMMA HelperCurrentStep ==
  ASSUME HelperCurrent, HelperAbsent, Fading, HoldStep
  PROVE  HelperCurrent' /\ (dev'.gen = dev.gen \/ up = {})
<1>1. dev'.gen = dev.gen \/ up = {}
  BY DEF HelperCurrent, HelperAbsent, HoldStep, StillStep, LegacyStep, CrashStep, TakeStep,
     LearnStep, PhaseStep, LeaveStep, RenewStep, FlagStep, BindStep, CleanedStep,
     CloseStep, RecoveryStep, RowKept
<1> QED
  BY <1>1, Shrinking DEF HelperCurrent

\* A device is released only when its helper is gone: by a close of a handle
\* that has no helper to clean up after, or at the end of a recovery.
LEMMA HelperAbsentStep ==
  ASSUME HelperCurrent, HelperAbsent, HelperTended, Fading, HoldStep
  PROVE  HelperAbsent'
<1>u. up' \subseteq up
  BY Shrinking
<1>1. CASE StillStep
  BY <1>1, <1>u DEF StillStep, HelperAbsent
<1>2. CASE dev' = dev
  BY <1>2, <1>u DEF HelperAbsent
<1>3. ASSUME NEW x \in Handles, LearnStep(x) \/ RenewStep(x) \/ RecoveryStep(x)
      PROVE  HelperAbsent'
  BY <1>3, <1>u
  DEF LearnStep, RenewStep, RecoveryStep, HelperAbsent, HelperCurrent, CleanupPending
<1>4. ASSUME NEW x \in Handles, FlagStep(x)
      PROVE  HelperAbsent'
  BY <1>4, <1>u DEF FlagStep, HelperAbsent
<1>5. ASSUME NEW x \in Handles, CloseStep(x)
      PROVE  HelperAbsent'
  BY <1>5, <1>u
  DEF CloseStep, HelperAbsent, HelperTended, Settled, Holding, CleanupPending
<1> QED
  BY <1>1, <1>2, <1>3, <1>4, <1>5 DEF HoldStep, LegacyStep, CrashStep, TakeStep,
     PhaseStep, LeaveStep, BindStep, CleanedStep

\* A confirmed cleanup finds the helper gone.
LEMMA CleanedVacant ==
  ASSUME Numbered, CleanupStopsHelper, GrantKnown, NEW x \in Handles, CleanedStep(x)
  PROVE  up = {}
<1>1. hd[x].gen = dev.gen
  BY DEF CleanedStep, GrantKnown, Settled, Holding
<1>2. PICK c \in Ops :
        /\ Kind[c] = "cleanup" /\ op[c].gen = hd[x].gen /\ op[c].st = "succeeded"
        /\ \A p \in Ops : Kind[p] = "start" /\ op[p].gen = op[c].gen
                            => op[p].seq < op[c].seq
  BY DEF CleanedStep
<1>3. effect[c] = "landed"
  BY <1>1, <1>2 DEF Numbered
<1> QED
  BY <1>1, <1>2, <1>3 DEF CleanupStopsHelper

LEMMA HelperTendedStep ==
  ASSUME OwnershipInv, Fading, HoldStep
  PROVE  HelperTended'
<1>i. /\ JournalInv /\ Numbered /\ LockExclusive /\ GrantKnown /\ CleanupStopsHelper
      /\ HelperCurrent /\ HelperAbsent /\ HelperTended /\ HelperInDoubt
  BY DEF OwnershipInv, HelperKnown
<1>u. up' \subseteq up
  BY Shrinking
<1> SUFFICES ASSUME dev'.status \in {"owned", "expired"}, up' # {},
                    NEW y \in Handles, Settled(y)'
             PROVE  Unclean(y)'
  BY DEF HelperTended
<1>k. ASSUME dev.status \in {"owned", "expired"}, Settled(y)
      PROVE  Unclean(y)
  BY <1>k, <1>i, <1>u DEF HelperTended
<1>1. CASE StillStep
  <2>1. Settled(y) /\ (Unclean(y) => Unclean(y)')
    BY <1>1 DEF StillStep, Settled, Holding, Unclean
  <2>2. ASSUME NEW o \in Ops, Resolved(o)
        PROVE  Unclean(y)
    <3>1. hd[op[o].by].phase = "open" /\ Unclean(op[o].by) /\ op[o].by \in Handles
      BY <2>2, <1>i, <1>u
      DEF Resolved, HelperInDoubt, JournalInv, ReportsTrue, Numbered
    <3>2. op[o].by = y
      BY <3>1, <2>1, <1>i, OneHolder DEF Settled, Holding
    <3> QED
      BY <3>1, <3>2
  <2> QED
    BY <1>1, <2>1, <2>2, <1>k DEF StillStep
<1>2. CASE LegacyStep
  BY <1>2, <1>k DEF LegacyStep, Settled, Holding, Unclean
<1>3. ASSUME NEW h \in Hosts, CrashStep(h)
      PROVE  Unclean(y)'
  BY <1>3, <1>k DEF CrashStep, Settled, Holding, Unclean
<1>4. ASSUME NEW x \in Handles, LearnStep(x) \/ RecoveryStep(x) \/ CleanedStep(x)
      PROVE  Unclean(y)'
  <2>1. up = {}
    BY <1>4, <1>i, CleanedVacant
    DEF LearnStep, RecoveryStep, HelperAbsent, HelperCurrent
  <2> QED
    BY <2>1, <1>u
<1>5. ASSUME NEW x \in Handles, TakeStep(x) \/ PhaseStep(x) \/ LeaveStep(x)
               \/ RenewStep(x) \/ BindStep(x) \/ CloseStep(x)
      PROVE  Unclean(y)'
  <2>1. CASE y # x
    BY <1>5, <2>1, <1>k DEF TakeStep, PhaseStep, LeaveStep, RenewStep, BindStep,
       CloseStep, Only, Settled, Holding, Unclean
  <2>2. CASE y = x
    BY <1>5, <2>2, <1>k DEF TakeStep, PhaseStep, LeaveStep, RenewStep, BindStep,
       CloseStep, Settled, Holding, Unclean
  <2> QED
    BY <2>1, <2>2
<1>6. ASSUME NEW x \in Handles, FlagStep(x)
      PROVE  Unclean(y)'
  <2>1. dev.status \in {"owned", "expired"}
    BY <1>6 DEF FlagStep
  <2>2. Settled(y) /\ (Unclean(y) => Unclean(y)')
    BY <1>6 DEF FlagStep, Only, Settled, Holding, Unclean
  <2> QED
    BY <2>1, <2>2, <1>k
<1> QED
  BY <1>1, <1>2, <1>3, <1>4, <1>5, <1>6 DEF HoldStep

LEMMA HelperInDoubtStep ==
  ASSUME OwnershipInv, Fading, HoldStep
  PROVE  HelperInDoubt'
<1>i. /\ UncertainHoldsDevice /\ Numbered /\ GrantKnown /\ LockExclusive /\ HelperInDoubt
  BY DEF OwnershipInv, JournalInv, HelperKnown
<1> SUFFICES ASSUME dev'.reason = Unconfirmed, up' # {},
                    NEW o \in Ops, op'[o].st = "uncertain"
             PROVE  \/ host'[op'[o].host] = "dead"
                    \/ Kind[o] = "start" /\ effect'[o] = "landed" /\ pend'[o] # "succeeded"
                    \/ hd'[op'[o].by].phase = "open" /\ Unclean(op[o].by)'
  BY Shrinking DEF HelperInDoubt, Unclean
<1>0. /\ op[o].st = "uncertain" /\ op'[o].by = op[o].by /\ op'[o].host = op[o].host
      /\ up # {} /\ dev.reason = Unconfirmed /\ dev.status = "quarantined"
      /\ op[o].by \in Handles /\ op[o].host = HostOf[op[o].by] /\ op[o].host \in Hosts
  BY <1>i, Shrinking, ConstantsAssumption DEF Fading, UncertainHoldsDevice, Numbered
<1>d. \/ host[op[o].host] = "dead"
      \/ Kind[o] = "start" /\ effect[o] = "landed" /\ pend[o] # "succeeded"
      \/ hd[op[o].by].phase = "open" /\ Unclean(op[o].by)
  BY <1>0, <1>i DEF HelperInDoubt
<1>1. CASE host[op[o].host] = "dead"
  BY <1>0, <1>1 DEF Fading, EffectsKept
<1>2. CASE Kind[o] = "start" /\ effect[o] = "landed" /\ pend[o] # "succeeded"
  BY <1>2 DEF Fading, EffectsKept
<1>3. CASE hd[op[o].by].phase = "open" /\ Unclean(op[o].by)
  <2>x. PICK x \in Handles : x = op[o].by
    BY <1>0
  <2>0. x \in Handles /\ hd[x].phase = "open" /\ Unclean(x) /\ Bound(x)
    BY <1>0, <1>3, <1>i, <2>x DEF GrantKnown, Settled, Holding, Unclean, Bound
  <2> SUFFICES \/ host'[HostOf[x]] = "dead"
               \/ hd'[x].phase = "open" /\ Unclean(x)'
    BY <1>0, <2>x DEF Unclean
  <2>1. CASE StillStep \/ LegacyStep
    BY <2>0, <2>1 DEF StillStep, LegacyStep, Unclean
  <2>2. ASSUME NEW h \in Hosts, CrashStep(h)
        PROVE  host'[HostOf[x]] = "dead" \/ (hd'[x].phase = "open" /\ Unclean(x)')
    BY <2>0, <2>2 DEF CrashStep, Unclean
  <2>3. ASSUME NEW y \in Handles, y # x, Only(y)
        PROVE  hd'[x].phase = "open" /\ Unclean(x)'
    BY <2>0, <2>3 DEF Only, Unclean
  <2>4. CASE TakeStep(x) \/ LearnStep(x) \/ PhaseStep(x) \/ LeaveStep(x) \/ CleanedStep(x)
    BY <2>0, <2>4, <1>0 DEF TakeStep, LearnStep, PhaseStep, LeaveStep, CleanedStep
  <2>5. CASE RenewStep(x) \/ FlagStep(x) \/ BindStep(x)
    BY <2>0, <2>5, <1>0 DEF RenewStep, FlagStep, BindStep, Unclean
  <2>6. CASE CloseStep(x) \/ RecoveryStep(x)
    BY <2>0, <2>6, <1>0 DEF CloseStep, RecoveryStep, Unconfirmed, CleanupPending
  <2> QED
    BY <2>0, <2>1, <2>2, <2>3, <2>4, <2>5, <2>6 DEF HoldStep, TakeStep, LearnStep,
       PhaseStep, LeaveStep, RenewStep, FlagStep, BindStep, CleanedStep, CloseStep,
       RecoveryStep
<1> QED
  BY <1>d, <1>1, <1>2, <1>3

LEMMA CleanupStep ==
  ASSUME OwnershipInv, Fading, HoldStep
  PROVE  CleanupStopsHelper'
<1>i. Numbered /\ CleanupStopsHelper /\ HelperCurrent /\ HelperAbsent
  BY DEF OwnershipInv, HelperKnown
<1>u. up' \subseteq up /\ (dev'.gen = dev.gen \/ up = {})
  BY <1>i, Shrinking, HelperCurrentStep
<1>1. CASE up = {}
  BY <1>1, <1>u DEF CleanupStopsHelper
<1>2. CASE dev'.gen = dev.gen
  <2>1. \A p \in Ops : op[p].st # "absent" =>
          op'[p].st # "absent" /\ op'[p].gen = op[p].gen /\ op'[p].seq = op[p].seq
    BY DEF Fading, OpsKept, OpAdded, Unfinished, Terminal
  <2>2. \A c \in Ops : effect'[c] = "landed" => effect[c] = "landed" /\ op[c].st # "absent"
    BY <1>i DEF Fading, EffectsKept, Numbered
  <2> QED
    BY <1>2, <1>i, <1>u, <2>1, <2>2 DEF CleanupStopsHelper
<1> QED
  BY <1>1, <1>2, <1>u

LEMMA RollbackStep ==
  ASSUME OwnershipInv, UncertainHoldsDevice', HelperAbsent', Fading, HoldStep
  PROVE  RollbackVacant'
<1>i. LockExclusive /\ RollbackVacant
  BY DEF OwnershipInv
<1>v. Vacant => Vacant'
  BY Shrinking DEF Vacant
<1> USE DEF RollbackVacant
<1>1. CASE StillStep \/ LegacyStep
  BY <1>1, <1>i, <1>v DEF StillStep, LegacyStep
<1>2. ASSUME NEW h \in Hosts, CrashStep(h)
      PROVE  RollbackVacant'
  BY <1>2, <1>i, <1>v DEF CrashStep
<1>3. ASSUME NEW x \in Handles, TakeStep(x) \/ LearnStep(x) \/ PhaseStep(x) \/ LeaveStep(x)
      PROVE  RollbackVacant'
  BY <1>3, <1>i, <1>v DEF TakeStep, LearnStep, PhaseStep, LeaveStep, Only
<1>4. ASSUME NEW x \in Handles, RenewStep(x) \/ FlagStep(x) \/ BindStep(x)
               \/ CleanedStep(x) \/ RecoveryStep(x)
      PROVE  RollbackVacant'
  BY <1>4, <1>i, <1>v
  DEF RenewStep, FlagStep, BindStep, CleanedStep, RecoveryStep, Only
<1>5. ASSUME NEW x \in Handles, CloseStep(x)
      PROVE  RollbackVacant'
  <2>1. dev'.status = "released" => Vacant'
    BY DEF HelperAbsent, UncertainHoldsDevice, Vacant
  <2> QED
    BY <1>5, <2>1, <1>i, <1>v DEF CloseStep, Only
<1> QED
  BY <1>1, <1>2, <1>3, <1>4, <1>5 DEF HoldStep

\* The steps that act on the device: a dispatch finds the helper tended, an
\* effect lands only for the outstanding operation, and a startup is reported
\* successful only by a handle that knows of the helper.
LEMMA HelperActing ==
  ASSUME OwnershipInv, ActStep
  PROVE  HelperKnown' /\ CleanupStopsHelper' /\ RollbackVacant'
<1>i. /\ JournalInv /\ Numbered /\ InOrder /\ LockExclusive /\ GrantKnown
      /\ CleanupStopsHelper /\ RollbackVacant
      /\ HelperCurrent /\ HelperAbsent /\ HelperTended /\ HelperInDoubt
      /\ UncertainHoldsDevice /\ CleanupSettled /\ ReportsTrue
  BY DEF OwnershipInv, HelperKnown, JournalInv
<1>t. TypeOK /\ effect \in [Ops -> {"none", "armed", "landed", "refused"}]
  BY <1>i DEF JournalInv, TypeOK
<1>1. ASSUME NEW o \in Ops, StrikeStep(o)
      PROVE  HelperKnown' /\ CleanupStopsHelper' /\ RollbackVacant'
  <2>0. /\ hd' = hd /\ dev' = dev /\ op' = op /\ pend' = pend /\ host' = host
        /\ marker' = marker /\ legacy' = legacy
        /\ op[o].st = "uncertain" /\ op[o].gen = dev.gen
        /\ up' \subseteq {dev.gen}
        /\ up' \subseteq up \/ Kind[o] = "start"
        /\ \A p \in Ops : effect'[p] = "landed" <=> effect[p] = "landed" \/ p = o
        /\ Kind[o] = "cleanup" => up' = {}
    BY <1>1, <1>t, <1>i DEF StrikeStep, HandlesKept, HelperCurrent
  <2>1. dev.status = "quarantined" /\ dev.reason # CleanupPending
    BY <2>0, <1>i DEF UncertainHoldsDevice, CleanupSettled, Unfinished
  <2>2. HelperCurrent' /\ HelperAbsent' /\ HelperTended'
    BY <2>0, <2>1 DEF HelperCurrent, HelperAbsent, HelperTended
  <2>3. HelperInDoubt'
    <3> SUFFICES ASSUME dev.reason = Unconfirmed, up' # {},
                        NEW p \in Ops, op[p].st = "uncertain"
                 PROVE  \/ host[op[p].host] = "dead"
                        \/ Kind[p] = "start" /\ effect'[p] = "landed" /\ pend[p] # "succeeded"
                        \/ hd[op[p].by].phase = "open" /\ Unclean(op[p].by)
      BY <2>0 DEF HelperInDoubt, Unclean
    <3>1. p = o
      BY <2>0, <1>i DEF UncertainHoldsDevice
    <3>2. pend[o] # "succeeded"
      BY <1>1, <1>i DEF StrikeStep, ReportsTrue
    <3>3. CASE Kind[o] = "start"
      BY <2>0, <3>1, <3>2, <3>3
    <3>4. CASE Kind[o] # "start"
      BY <2>0, <3>1, <3>4, <1>i DEF HelperInDoubt
    <3> QED
      BY <3>3, <3>4
  <2>4. CleanupStopsHelper'
    <3> SUFFICES ASSUME NEW c \in Ops, Kind[c] = "cleanup", effect'[c] = "landed",
                        op[c].gen = dev.gen,
                        \A p \in Ops : Kind[p] = "start" /\ op[p].gen = op[c].gen
                          /\ op[p].st # "absent" => op[p].seq < op[c].seq
                 PROVE  up' = {}
      BY <2>0 DEF CleanupStopsHelper
    <3>1. CASE c = o
      BY <3>1, <2>0
    <3>2. CASE c # o
      <4>1. effect[c] = "landed" /\ up = {}
        BY <3>2, <2>0, <1>i DEF CleanupStopsHelper
      <4>2. Kind[o] # "start"
        BY <4>1, <2>0, <1>i DEF InOrder, Acting, Unfinished
      <4> QED
        BY <4>1, <4>2, <2>0
    <3> QED
      BY <3>1, <3>2
  <2>5. RollbackVacant'
    BY <2>0, <1>i DEF RollbackVacant, Vacant
  <2> QED
    BY <2>2, <2>3, <2>4, <2>5 DEF HelperKnown
<1>2. ASSUME NEW o \in Ops, NEW x \in Handles, SendStep(x, o)
      PROVE  HelperKnown' /\ CleanupStopsHelper' /\ RollbackVacant'
  <2>0. /\ hd' = hd /\ pend' = pend /\ host' = host /\ effect' = effect /\ up' = up
        /\ marker' = marker /\ legacy' = legacy /\ dev'.gen = dev.gen
        /\ hd[x].phase = "open" /\ op[o].by = x
        /\ dev.status = "owned" /\ dev'.status = "quarantined" /\ dev'.reason = Unconfirmed
        /\ \A p \in Ops : /\ op'[p].gen = op[p].gen /\ op'[p].seq = op[p].seq
                          /\ op'[p].by = op[p].by /\ op'[p].host = op[p].host
                          /\ op'[p].st = IF p = o THEN "uncertain" ELSE op[p].st
        /\ op[o].st # "absent"
    BY <1>2 DEF SendStep, HandlesKept, RowKept
  <2>1. Holding(x) /\ Settled(x) /\ (up # {} => Unclean(x))
    BY <2>0, <1>i DEF Settled, Holding, HelperTended
  <2>2. HelperCurrent' /\ HelperAbsent' /\ HelperTended'
    BY <2>0, <1>i
    DEF HelperCurrent, HelperAbsent, HelperTended, Unconfirmed, CleanupPending
  <2>3. \A p \in Ops : op'[p].st = "uncertain" => p = o
    BY <2>0, <1>i DEF UncertainHoldsDevice
  <2>4. HelperInDoubt'
    <3>1. up' # {} => hd'[op'[o].by].phase = "open" /\ Unclean(op[o].by)'
      BY <2>0, <2>1 DEF Unclean
    <3> QED
      BY <2>3, <3>1 DEF HelperInDoubt
  <2>5. CleanupStopsHelper'
    BY <2>0, <1>i DEF CleanupStopsHelper
  <2>6. RollbackVacant'
    <3>1. marker \in {"rollback-blocked", "shared"} /\ ~legacy
      BY <2>1, <1>i DEF LockExclusive
    <3>2. \A y \in Handles : hd[y].phase # "closing"
      BY <2>0, <2>1, <1>i, OneHolder DEF Holding
    <3> QED
      BY <2>0, <3>1, <3>2 DEF RollbackVacant
  <2> QED
    BY <2>2, <2>4, <2>5, <2>6 DEF HelperKnown
<1>3. ASSUME NEW o \in Ops, NEW x \in Handles, AnswerStep(x, o)
      PROVE  HelperKnown' /\ CleanupStopsHelper' /\ RollbackVacant'
  <2>0. /\ hd' = hd /\ dev' = dev /\ op' = op /\ host' = host /\ up' = up
        /\ marker' = marker /\ legacy' = legacy
        /\ hd[x].phase = "open" /\ op[o].by = x
        /\ \A p \in Ops : /\ effect'[p] = "landed" <=> effect[p] = "landed"
                          /\ pend'[p] = "succeeded" /\ p # o => pend[p] = "succeeded"
        /\ pend'[o] = "succeeded" /\ Kind[o] = "start" => Unclean(x)
    BY <1>3 DEF AnswerStep, HandlesKept
  <2>1. HelperCurrent' /\ HelperAbsent' /\ HelperTended'
    BY <2>0, <1>i
    DEF HelperCurrent, HelperAbsent, HelperTended, Settled, Holding, Unclean
  <2>2. HelperInDoubt'
    BY <2>0, <1>i DEF HelperInDoubt, Unclean
  <2>3. CleanupStopsHelper' /\ RollbackVacant'
    BY <2>0, <1>i DEF CleanupStopsHelper, RollbackVacant, Vacant
  <2> QED
    BY <2>1, <2>2, <2>3 DEF HelperKnown
<1> QED
  BY <1>1, <1>2, <1>3, <1>i, ActClasses

----------------------------------------------------------------------------
(* The theorems.                                                           *)

\* Who holds the kernel lock, what it knows of the row, the order of the
\* operations and the whereabouts of the helper agree in every reachable
\* state, whatever crashes, closes, fails to write, claims or recovers.
THEOREM OwnershipInvariance == Spec => []OwnershipInv
<1>1. Init => OwnershipInv
  <2> SUFFICES ASSUME Init PROVE OwnershipInv
    OBVIOUS
  <2>1. JournalInv
    BY JournalInit
  <2> QED
    BY <2>1 DEF Init, OwnershipInv, Numbered, InOrder, Acting, Unfinished, LockExclusive,
       Holding, Settled, GrantKnown, PermitWithinGrant, HelperKnown, HelperCurrent,
       HelperAbsent, HelperTended, HelperInDoubt, CleanupStopsHelper, RollbackVacant,
       Vacant, NoOperation, NewHandle, Unconfirmed
<1>2. OwnershipInv /\ JournalInv' /\ [Next]_vars => OwnershipInv'
  <2> SUFFICES ASSUME OwnershipInv, JournalInv', [Next]_vars PROVE OwnershipInv'
    OBVIOUS
  <2>0. /\ JournalInv /\ TypeOK /\ OrderInv /\ Numbered /\ LockExclusive /\ GrantKnown
        /\ PermitWithinGrant /\ HelperCurrent /\ HelperAbsent /\ HelperTended
    BY DEF OwnershipInv, HelperKnown, JournalInv, OrderInv
  <2>1. CASE Fading /\ HoldStep
    <3>1. OrderInv' /\ LockExclusive' /\ GrantKnown' /\ PermitWithinGrant'
      BY <2>0, <2>1, OrderFading, LockStep, GrantStep, PermitFading
    <3>2. HelperKnown'
      BY <2>0, <2>1, HelperCurrentStep, HelperAbsentStep, HelperTendedStep,
         HelperInDoubtStep DEF HelperKnown
    <3>3. CleanupStopsHelper' /\ RollbackVacant'
      BY <2>1, <3>2, CleanupStep, RollbackStep DEF HelperKnown, JournalInv
    <3> QED
      BY <3>1, <3>2, <3>3 DEF OwnershipInv, OrderInv
  <2>2. CASE ActStep
    <3>1. HandlesKept
      BY <2>0, <2>2, ActClasses DEF StrikeStep, SendStep, AnswerStep
    <3>2. OrderInv' /\ LockExclusive' /\ GrantKnown' /\ PermitWithinGrant'
      BY <2>0, <2>2, <3>1, OrderActing, HoldActing, PermitActing
    <3> QED
      BY <2>2, <3>2, HelperActing DEF OwnershipInv, OrderInv
  <2> QED
    BY <2>0, <2>1, <2>2, OwnershipClasses DEF OwnershipStep
<1> QED
  BY <1>1, <1>2, JournalInvariant, PTL DEF Spec

\* prepare_dispatch keeps the order of the sequence numbers: an operation in
\* doubt or on the device has no unfinished predecessor in its generation.
THEOREM DispatchedInOrder == Spec => []DispatchInOrder
<1>1. OwnershipInv => DispatchInOrder
  BY DEF OwnershipInv, InOrder, Acting, DispatchInOrder
<1> QED
  BY <1>1, OwnershipInvariance, PTL

\* A permit ends no later than the grant the row has while its outcome is
\* unknown, also when the grant was renewed to an earlier deadline.
THEOREM PermitsWithinGrant == Spec => []PermitWithinGrant
<1>1. OwnershipInv => PermitWithinGrant
  BY DEF OwnershipInv
<1> QED
  BY <1>1, OwnershipInvariance, PTL

\* A native helper runs only in the current generation and never beside a
\* controller from before the authority, nor does an unknown outcome.
THEOREM HelperIsolated == Spec => []HelperIsolation
<1>1. OwnershipInv => HelperIsolation
  BY DEF OwnershipInv, HelperKnown, HelperCurrent, RollbackVacant, Vacant, HelperIsolation
<1> QED
  BY <1>1, OwnershipInvariance, PTL
============================================================================
