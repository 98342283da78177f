-------------------------- MODULE AuthorityProofs --------------------------
(* Proofs about the host authority, for any number of processes, handles,  *)
(* operations and generations.                                             *)
EXTENDS AuthorityRefinement, TLAPS

\* The record types of the three kinds of rows, kept folded in the proofs.
Fields == [Handles -> HandleFields]
OpRows == [Ops -> Operations]

LEMMA RowTypes ==
  TypeOK => /\ dev \in Rows /\ op \in OpRows /\ hd \in Fields
            /\ dev.gen \in Nat /\ dev.gen <= MaxGen
            /\ \A o \in Ops : op[o].gen \in Nat /\ op[o].seq \in Nat
            /\ \A x \in Handles : hd[x] \in HandleFields
            /\ \A x \in Handles : hd[x].gen \in Nat /\ hd[x].deadline \in Nat
  BY ConstantsAssumption DEF TypeOK, OpRows, Fields, Rows, Operations, HandleFields

LEMMA TypeInit == Init => TypeOK
<1> SUFFICES ASSUME Init PROVE TypeOK
  OBVIOUS
<1>1. dev \in Rows
  BY ConstantsAssumption DEF Init, Rows, Reasons
<1>2. NoOperation \in Operations
  BY DEF NoOperation, Operations
<1>3. NewHandle \in HandleFields
  BY DEF NewHandle, HandleFields
<1> QED
  BY <1>1, <1>2, <1>3 DEF Init, TypeOK, Markers

LEMMA TypeHandle ==
  ASSUME TypeOK, NEW x \in Handles, HandleNext(x)
  PROVE  TypeOK'
<1> USE ConstantsAssumption, RowTypes
<1>1. CASE \E d \in Deadlines : ClaimBegin(x, d)
  <2> PICK d \in Deadlines : ClaimBegin(x, d)
    BY <1>1
  <2>0. [hd[x] EXCEPT !.phase = "claiming", !.deadline = d] \in HandleFields
    BY ZenonT(40) DEF HandleFields
  <2>1. hd' \in Fields
    BY <2>0 DEF ClaimBegin, Fields
  <2> QED
    BY <2>1 DEF ClaimBegin, TypeOK, OpRows, Fields, journal, native, Markers
<1>2. CASE ClaimStore(x)
  <2>1. dev' \in Rows
    <3>1. CASE dev.status \in {"unused", "released"}
      BY <1>2, <3>1 DEF ClaimStore, ClaimedRow, Rows, Reasons, HandleFields
    <3>2. CASE dev.status \notin {"unused", "released"}
      BY <1>2, <3>2 DEF ClaimStore, ClaimedRow, Rows, Reasons
    <3> QED
      BY <3>1, <3>2
  <2>2. dev'.gen \in Nat
    BY <2>1 DEF Rows
  <2>3. [hd[x] EXCEPT !.phase = "claimed", !.gen = dev'.gen,
                      !.grant = IF dev'.status = "owned" THEN "live"
                                ELSE "none"] \in HandleFields
    BY <2>2, ZenonT(40) DEF HandleFields
  <2>4. hd' \in Fields
    BY <1>2, <2>3 DEF ClaimStore, Fields
  <2> QED
    BY <1>2, <2>1, <2>4 DEF ClaimStore, TypeOK, OpRows, Fields, kernel, native
<1>3. CASE ClaimFinish(x)
  <2>1. hd' \in Fields
    BY <1>3 DEF ClaimFinish, Fields, HandleFields
  <2> QED
    BY <1>3, <2>1 DEF ClaimFinish, TypeOK, OpRows, Fields, ClaimMarker, Markers, journal, kernel, native
<1>4. CASE ClaimFail(x)
  <2>1. hd' \in Fields
    BY <1>4 DEF ClaimFail, Fields, HandleFields
  <2> QED
    BY <1>4, <2>1 DEF ClaimFail, TypeOK, OpRows, Fields, journal, native
<1>5. CASE \E r \in 1..MaxRenewal, d \in Deadlines : Renew(x, r, d)
  <2>1. dev' \in Rows
    <3> PICK r \in 1..MaxRenewal, d \in Deadlines : Renew(x, r, d)
      BY <1>5
    <3>0. r \in Nat /\ d \in Nat
      OBVIOUS
    <3>1. [dev EXCEPT !.renewal = r, !.deadline = d] \in Rows
      BY <3>0 DEF Rows
    <3> QED
      BY <3>1 DEF Renew
  <2>2. hd' \in Fields
    BY <1>5, SMTT(30) DEF Renew, Fields, HandleFields
  <2> QED
    BY <1>5, <2>1, <2>2, SMTT(30) DEF Renew, TypeOK, OpRows, Fields, kernel, native
<1>6. CASE RenewExpired(x)
  <2>1. dev' \in Rows
    BY <1>6 DEF RenewExpired, Rows, ExpiredRow, Reasons
  <2> QED
    BY <1>6, <2>1 DEF RenewExpired, TypeOK, OpRows, Fields, kernel, native
<1>7. CASE ClockBreak(x)
  <2>1. hd' \in Fields
    BY <1>7 DEF ClockBreak, Fields, HandleFields
  <2> QED
    BY <1>7, <2>1 DEF ClockBreak, TypeOK, OpRows, Fields, journal, kernel, native
<1>8. CASE ClockQuarantine(x)
  <2>1. dev' \in Rows
    BY <1>8 DEF ClockQuarantine, Rows, ClockRow, Reasons
  <2> QED
    BY <1>8, <2>1 DEF ClockQuarantine, TypeOK, OpRows, Fields, kernel, native
<1>9. CASE Revoke(x)
  <2>1. dev' \in Rows
    BY <1>9 DEF Revoke, Rows, RevokedRow, Reasons
  <2>2. hd' \in Fields
    BY <1>9 DEF Revoke, Fields, HandleFields
  <2> QED
    BY <1>9, <2>1, <2>2 DEF Revoke, TypeOK, OpRows, Fields, kernel, native
<1>10. CASE BorrowNative(x)
  BY <1>10 DEF BorrowNative, TypeOK, journal, native
<1>11. CASE BorrowRecovery(x)
  <2>1. dev' \in Rows
    BY <1>11 DEF BorrowRecovery, Rows, Reasons
  <2>2. hd' \in Fields
    BY <1>11, SMTT(30) DEF BorrowRecovery, Fields, HandleFields
  <2> QED
    BY <1>11, <2>1, <2>2 DEF BorrowRecovery, TypeOK, OpRows, Fields, native
<1>12. CASE \E k \in Borrows : EndBorrow(x, k)
  BY <1>12 DEF EndBorrow, TypeOK, journal, native
<1>13. ASSUME NEW d \in Deadlines, NEW c \in BOOLEAN,
              NEW v \in {"succeeded", "rejected", "recovered"},
              Reconcile(x, d, v, c)
       PROVE  TypeOK'
  <2>1. dev' \in Rows
    BY <1>13 DEF ReconciledOps, Reconcile, Rows, Reasons, CleanupPending
  <2>2. op' \in OpRows
    <3>1. ASSUME NEW o \in Ops
          PROVE  [op[o] EXCEPT !.st = IF @ = "queued" THEN "rejected" ELSE v]
                   \in Operations
      BY DEF OpRows, Operations, Terminal
    <3> QED
      BY <1>13, <3>1 DEF ReconciledOps, Reconcile, OpRows
  <2>3. dev.gen + 1 \in Nat
    OBVIOUS
  <2>4. [hd[x] EXCEPT !.gen = dev.gen + 1, !.grant = "live", !.deadline = d,
                      !.flags = IF c THEN {"revoked"} ELSE {}] \in HandleFields
    BY <2>3, ZenonT(40) DEF HandleFields
  <2>5. hd' \in Fields
    BY <1>13, <2>4 DEF ReconciledOps, Reconcile, Fields
  <2>6. recons' \in SUBSET Nat /\ marker' \in Markers
    BY <1>13 DEF ReconciledOps, Reconcile, TypeOK, Markers
  <2> QED
    BY <1>13, <2>1, <2>2, <2>5, <2>6
    DEF ReconciledOps, Reconcile, TypeOK, OpRows, Fields, kernel, native
<1>14. CASE FinishCleanup(x)
  <2>1. dev' \in Rows
    BY <1>14 DEF FinishCleanup, Rows, Reasons
  <2> QED
    BY <1>14, <2>1 DEF FinishCleanup, TypeOK, OpRows, Fields, kernel, native
<1>15. ASSUME NEW c \in BOOLEAN, CloseStore(x, c)
       PROVE  TypeOK'
  <2>1. /\ RevokedRow \in Rows
        /\ [dev EXCEPT !.status = "released", !.reason = "none"] \in Rows
    BY DEF RevokedRow, Rows, Reasons
  <2>2. dev' \in Rows
    BY <1>15, <2>1 DEF ClosedRow, CloseStore
  <2>3. op' \in OpRows
    <3>1. ASSUME NEW o \in Ops
          PROVE  [op[o] EXCEPT !.st = "rejected"] \in Operations
      BY DEF OpRows, Operations, Terminal
    <3> QED
      BY <1>15, <3>1 DEF ReleasedOps, CloseStore, OpRows
  <2> DEFINE F == {"revoked", "attached", "cleaned", "released"}
             f == ClosingFlags(x, dev')
  <2>4. hd[x].flags \in SUBSET F
    BY DEF HandleFields
  <2>5. f \in SUBSET F
    BY <2>4 DEF ClosingFlags
  <2>6. hd' = [hd EXCEPT ![x] = [hd[x] EXCEPT !.phase = "closing", !.flags = f]]
    BY <1>15 DEF CloseStore
  <2>7. [hd[x] EXCEPT !.phase = "closing", !.flags = f] \in HandleFields
    <3> HIDE DEF f
    <3> QED
      BY <2>5, ZenonT(40) DEF HandleFields
  <2>8. hd' \in Fields
    <3> HIDE DEF f
    <3> QED
      BY <2>6, <2>7 DEF Fields
  <2> QED
    BY <1>15, <2>2, <2>3, <2>8 DEF CloseStore, TypeOK, OpRows, Fields, kernel, native
<1>16. CASE CloseMark(x)
  <2>1. hd' \in Fields
    BY <1>16 DEF CloseMark, Fields, HandleFields, NewHandle
  <2> QED
    BY <1>16, <2>1 DEF CloseMark, TypeOK, OpRows, Fields, CloseMarker, Markers, journal, native
<1>17. CASE CloseMarkFail(x)
  <2>1. hd' \in Fields
    BY <1>17 DEF CloseMarkFail, Fields, HandleFields
  <2> QED
    BY <1>17, <2>1 DEF CloseMarkFail, TypeOK, OpRows, Fields, journal, kernel, native
<1> QED
  BY <1>1, <1>2, <1>3, <1>4, <1>5, <1>6, <1>7, <1>8, <1>9, <1>10,
     <1>11, <1>12, <1>13, <1>14, <1>15, <1>16, <1>17 DEF HandleNext

LEMMA TypeOperation ==
  ASSUME TypeOK, NEW o \in Ops, OperationNext(o)
  PROVE  TypeOK'
<1> USE ConstantsAssumption, RowTypes
<1>1. ASSUME NEW x \in Handles, NEW d \in Deadlines, Admit(x, o, d)
      PROVE  TypeOK'
  <2>0. hd[x].gen \in 0..MaxGen /\ d \in Nat
    <3>1. dev.gen = hd[x].gen
      BY <1>1, Zenon DEF Admit, Bound
    <3>2. dev.gen \in 0..MaxGen
      BY DEF TypeOK, Rows
    <3>3. d \in Nat
      OBVIOUS
    <3> QED
      BY <3>1, <3>2, <3>3
  <2>1. op' \in OpRows
    <3>2. watermark[hd[x].gen] + 1 \in Nat
      BY <2>0 DEF TypeOK
    <3>3. [st |-> "queued", gen |-> hd[x].gen, seq |-> watermark[hd[x].gen] + 1,
           host |-> HostOf[x], by |-> x, deadline |-> d] \in Operations
      BY <2>0, <3>2 DEF Operations
    <3> QED
      BY <1>1, <3>3 DEF Admit, OpRows
  <2>2. watermark' \in [0..MaxGen -> Nat]
    BY <1>1, <2>0 DEF Admit, TypeOK
  <2> QED
    BY <1>1, <2>1, <2>2 DEF Admit, TypeOK, OpRows, kernel, native
<1>2. ASSUME NEW x \in Handles, Prepare(x, o)
      PROVE  TypeOK'
  <2>1. dev' \in Rows
    BY <1>2 DEF Issued, UncertainRow, Prepare, Rows, Reasons, Unconfirmed
  <2>2. op' \in OpRows
    BY <1>2 DEF Issued, UncertainRow, Prepare, OpRows, Operations
  <2>3. permit' \in [Ops -> Nat]
    BY <1>2, SMTT(30) DEF Issued, UncertainRow, Prepare, TypeOK, Min2, Operations
  <2> QED
    BY <1>2, <2>1, <2>2, <2>3 DEF Issued, UncertainRow, Prepare, TypeOK, OpRows, Fields, kernel, native
<1>3. ASSUME NEW x \in Handles, PrepareExpired(x, o)
      PROVE  TypeOK'
  <2>1. dev' \in Rows
    BY <1>3 DEF Issued, PrepareExpired, Rows, ExpiredRow, Reasons
  <2>2. op' \in OpRows
    BY <1>3 DEF PrepareExpired, ExpiredOp, OpRows, Operations, Terminal
  <2> QED
    BY <1>3, <2>1, <2>2 DEF Issued, PrepareExpired, TypeOK, OpRows, Fields, kernel, native
<1>4. ASSUME NEW x \in Handles, Arm(x, o)
      PROVE  TypeOK'
  BY <1>4 DEF Arm, TypeOK, journal, kernel
<1>5. ASSUME NEW x \in Handles, BindNative(x, o)
      PROVE  TypeOK'
  <2>1. hd' \in Fields
    BY <1>5 DEF BindNative, Fields, HandleFields
  <2> QED
    BY <1>5, <2>1 DEF BindNative, TypeOK, OpRows, Fields, journal, kernel, native
<1>6. ASSUME NEW x \in Handles, NEW r \in Results, BeginConfirm(x, o, r)
      PROVE  TypeOK'
  BY <1>6 DEF BeginConfirm, TypeOK, journal, kernel
<1>7. ASSUME NEW x \in Handles, ConfirmCleanup(x, o)
      PROVE  TypeOK'
  <2>1. hd' \in Fields
    BY <1>7 DEF ConfirmCleanup, Fields, HandleFields
  <2> QED
    BY <1>7, <2>1 DEF ConfirmCleanup, TypeOK, OpRows, Fields, journal, kernel, native
<1>8. CASE Land(o)
  BY <1>8 DEF Land, TypeOK, journal, kernel
<1>9. CASE FinishConfirm(o)
  <2>1. dev' \in Rows
    <3>1. ResolvedRow \in Rows
      BY DEF ResolvedRow, ExpiredRow, Rows, Reasons
    <3> QED
      BY <1>9, <3>1 DEF FinishConfirm
  <2>2. op' \in OpRows
    BY <1>9 DEF FinishConfirm, OpRows, Operations, Results, Terminal
  <2>3. receipts' \in [Ops -> SUBSET Results]
    BY <1>9 DEF FinishConfirm, TypeOK
  <2>4. pend' \in [Ops -> Results \cup {"none", "clock"}]
    BY <1>9 DEF FinishConfirm, TypeOK
  <2> QED
    BY <1>9, <2>1, <2>2, <2>3, <2>4, Zenon
    DEF FinishConfirm, TypeOK, OpRows, Fields, kernel, native
<1>10. CASE DropConfirm(o)
  BY <1>10 DEF DropConfirm, TypeOK, journal, kernel, native
<1>11. CASE FinishClock(o)
  <2>1. dev' \in Rows
    BY <1>11 DEF FinishClock, Rows, ClockRow, Reasons
  <2> QED
    BY <1>11, <2>1 DEF FinishClock, TypeOK, OpRows, Fields, kernel, native
<1> QED
  BY <1>1, <1>2, <1>3, <1>4, <1>5, <1>6, <1>7, <1>8, <1>9, <1>10,
     <1>11 DEF OperationNext

LEMMA TypeEnvironment ==
  ASSUME TypeOK, EnvironmentNext
  PROVE  TypeOK'
<1> USE ConstantsAssumption
<1>1. CASE LegacyEnter \/ LegacyExit
  BY <1>1 DEF LegacyEnter, LegacyExit, TypeOK, journal, native
<1>2. CASE \E g \in up : HelperExit(g)
  BY <1>2 DEF HelperExit, TypeOK, journal, kernel
<1>3. ASSUME NEW h \in Hosts, HostCloseBegin(h) \/ HostCloseEnd(h)
      PROVE  TypeOK'
  BY <1>3, ZenonT(40) DEF HostCloseBegin, HostCloseEnd, TypeOK, journal, kernel, native
<1>4. ASSUME NEW h \in Hosts, NEW kept \in SUBSET Borrows, Crash(h, kept)
      PROVE  TypeOK'
  <2>1. [NewHandle EXCEPT !.phase = "closed"] \in HandleFields
    BY DEF NewHandle, HandleFields
  <2> QED
    BY <1>4, <2>1 DEF Crash, TypeOK, journal, native
<1>5. CASE Tick
  BY <1>5 DEF Tick, TypeOK, journal, kernel, native
<1> QED
  BY <1>1, <1>2, <1>3, <1>4, <1>5 DEF EnvironmentNext

LEMMA TypeStep == TypeOK /\ [Next]_vars => TypeOK'
<1> SUFFICES ASSUME TypeOK, [Next]_vars PROVE TypeOK'
  OBVIOUS
<1>1. CASE UNCHANGED vars
  BY <1>1 DEF TypeOK, vars
<1> QED
  BY <1>1, TypeHandle, TypeOperation, TypeEnvironment DEF Next

\* The rows, the process memory and the native side keep their types: in
\* particular the generation never passes its bound and a handle record is
\* always one a DeviceAuthority object can hold.
THEOREM TypeCorrect == Spec => []TypeOK
  BY TypeInit, TypeStep, PTL DEF Spec

----------------------------------------------------------------------------
(* Every step, seen from the journal.  The classes below name what a step  *)
(* does to the row, the operations and the effects, field by field; the    *)
(* proofs that follow only distinguish the classes.                        *)

\* Processes may die and helpers may exit, no effect is gained or lost, and
\* calls in progress may end or turn into clock failures.
Steady ==
    /\ \A h \in Hosts : host[h] = "dead" => host'[h] = "dead"
    /\ up' \subseteq up
    /\ effect' = effect
    /\ \A o \in Ops : pend'[o] \in {pend[o], "none", "clock"}

RowSame == dev'.status = dev.status /\ dev'.gen = dev.gen /\ dev'.reason = dev.reason

\* The operations of set S get status s, the others stay as they are.
Restated(S, s) ==
    \A p \in Ops : /\ op'[p].st = IF p \in S THEN s ELSE op[p].st
                   /\ op'[p].gen = op[p].gen /\ op'[p].host = op[p].host

QuietStep == RowSame /\ op' = op /\ Steady

DoubtStep ==
    /\ dev'.status = "quarantined" /\ dev'.gen = dev.gen
    /\ dev'.reason = CleanupPending <=> dev.reason = CleanupPending
    /\ op' = op /\ Steady

AcquireStep ==
    /\ dev.status \in {"unused", "released"}
    /\ dev'.status = "owned" /\ dev'.gen = dev.gen + 1 /\ dev'.reason = "none"
    /\ op' = op /\ Steady

Expiry ==
    /\ dev.status \in {"owned", "expired"} /\ dev'.status = "expired"
    /\ dev'.gen = dev.gen /\ dev'.reason = "parent-expired"

ExpireStep == Expiry /\ op' = op /\ Steady

AdmitStep(o) ==
    /\ RowSame /\ dev.status = "owned" /\ op[o].st = "absent"
    /\ op'[o].st = "queued" /\ op'[o].gen = dev.gen /\ op'[o].host \in Hosts
    /\ \A p \in Ops \ {o} : op'[p] = op[p]
    /\ Steady

DispatchStep(o) ==
    /\ dev.status = "owned" /\ op[o].st = "queued" /\ op[o].gen = dev.gen
    /\ dev'.status = "quarantined" /\ dev'.gen = dev.gen /\ dev'.reason = Unconfirmed
    /\ Restated({o}, "uncertain") /\ Steady

DropStep(o) ==
    /\ op[o].st = "queued"
    /\ RowSame \/ Expiry
    /\ Restated({o}, "expired") /\ Steady

ArmStep(o) ==
    /\ op[o].st = "uncertain" /\ effect[o] = "none" /\ pend[o] = "none"
    /\ effect' = [effect EXCEPT ![o] = "armed"]
    /\ RowSame /\ op' = op /\ UNCHANGED <<host, up, pend>>

LandStep(o) ==
    /\ effect[o] = "armed" /\ CanLand(o)
    /\ effect' = [effect EXCEPT ![o] = "landed"]
    /\ up' \subseteq up \cup {op[o].gen}
    /\ RowSame /\ op' = op /\ UNCHANGED <<host, pend>>

ReportStep(o) ==
    /\ pend[o] = "none"
    /\ \E r \in Results :
         /\ r = "succeeded" => effect[o] = "landed"
         /\ r = "rejected" => effect[o] # "landed"
         /\ \/ pend' = [pend EXCEPT ![o] = r]
            \/ pend' = [pend EXCEPT ![o] = "clock"]
         /\ effect' = IF r = "rejected" THEN [effect EXCEPT ![o] = "refused"]
                      ELSE effect
    /\ RowSame /\ op' = op /\ UNCHANGED <<host, up>>

ResolveStep(o) ==
    /\ op[o].st = "uncertain" /\ op[o].gen = dev.gen
    /\ dev.status = "quarantined" /\ dev.reason = Unconfirmed
    /\ pend[o] \in {"succeeded", "rejected"}
    /\ dev'.status \in {"owned", "expired"} /\ dev'.gen = dev.gen
    /\ dev'.reason \in {"none", "parent-expired"}
    /\ Restated({o}, pend[o]) /\ Steady

RecoverStep ==
    /\ dev.status = "quarantined" /\ dev.reason # CleanupPending
    /\ PriorHelperGone(dev.gen)
    /\ dev'.gen = dev.gen + 1
    /\ \/ dev'.status = "owned" /\ dev'.reason = "none"
       \/ dev'.status = "quarantined" /\ dev'.reason = CleanupPending
    /\ \A p \in Ops :
         /\ op'[p].gen = op[p].gen /\ op'[p].host = op[p].host
         /\ IF op[p].gen = dev.gen /\ Unfinished(p)
            THEN op'[p].st \in Terminal ELSE op'[p].st = op[p].st
    /\ Steady /\ UNCHANGED <<host, up>>

ReleaseStep ==
    /\ dev.status \in {"owned", "expired", "released"}
    /\ dev'.status = "released" /\ dev'.gen = dev.gen /\ dev'.reason = "none"
    /\ Restated({p \in Ops : op[p].gen = dev.gen /\ op[p].st = "queued"}, "rejected")
    /\ Steady

FinishStep ==
    /\ dev.status = "quarantined" /\ dev.reason = CleanupPending
    /\ dev'.status = "released" /\ dev'.gen = dev.gen /\ dev'.reason = "none"
    /\ op' = op /\ Steady

JournalStep ==
    \/ QuietStep \/ DoubtStep \/ AcquireStep \/ ExpireStep
    \/ RecoverStep \/ ReleaseStep \/ FinishStep
    \/ \E o \in Ops : \/ AdmitStep(o) \/ DispatchStep(o) \/ DropStep(o)
                      \/ ArmStep(o) \/ LandStep(o) \/ ReportStep(o)
                      \/ ResolveStep(o)

LEMMA HandleSteps ==
  ASSUME TypeOK, NEW x \in Handles, HandleNext(x)
  PROVE  JournalStep
<1> USE ConstantsAssumption
<1>a. dev \in Rows /\ op \in OpRows
  BY RowTypes
<1>s. UNCHANGED <<effect, up, host, pend>> => Steady
  BY DEF Steady, TypeOK
<1>1. CASE \E d \in Deadlines : ClaimBegin(x, d)
  BY <1>1, <1>s DEF ClaimBegin, QuietStep, RowSame, JournalStep, journal, native
<1>2. CASE ClaimStore(x)
  <2>0. Steady /\ op' = op /\ dev' = ClaimedRow(x)
    BY <1>2, <1>s DEF ClaimStore, native
  <2>1. CASE dev.status \in {"unused", "released"}
    BY <2>0, <2>1 DEF ClaimedRow, AcquireStep, JournalStep
  <2>2. CASE dev.status \notin {"unused", "released"}
    BY <1>a, <2>0, <2>2 DEF ClaimedRow, DoubtStep, JournalStep, Rows, CleanupPending
  <2> QED
    BY <2>1, <2>2
<1>3. CASE ClaimFinish(x) \/ ClaimFail(x) \/ ClockBreak(x) \/ BorrowNative(x)
            \/ CloseMark(x) \/ CloseMarkFail(x)
  BY <1>3, <1>s DEF ClaimFinish, ClaimFail, ClockBreak, BorrowNative, CloseMark,
     CloseMarkFail, QuietStep, RowSame, JournalStep, journal, native
<1>4. CASE \E r \in 1..MaxRenewal, d \in Deadlines : Renew(x, r, d)
  <2> PICK r \in 1..MaxRenewal, d \in Deadlines : Renew(x, r, d)
    BY <1>4
  <2>1. RowSame
    BY <1>a DEF Renew, RowSame, Rows
  <2> QED
    BY <1>s, <2>1 DEF Renew, QuietStep, JournalStep, native
<1>5. CASE RenewExpired(x)
  <2>1. Expiry
    BY <1>5, <1>a DEF RenewExpired, ExpiredRow, Expiry, Rows
  <2> QED
    BY <1>5, <1>s, <2>1 DEF RenewExpired, ExpireStep, JournalStep, native
<1>6. CASE ClockQuarantine(x)
  <2>1. /\ dev'.status = "quarantined" /\ dev'.gen = dev.gen
        /\ dev'.reason = CleanupPending <=> dev.reason = CleanupPending
    BY <1>6, <1>a DEF ClockQuarantine, ClockRow, Rows, CleanupPending
  <2> QED
    BY <1>6, <1>s, <2>1 DEF ClockQuarantine, DoubtStep, JournalStep, native
<1>7. CASE Revoke(x)
  <2>1. Steady /\ op' = op
    BY <1>7, <1>s DEF Revoke, native
  <2>2. RowSame \/ (/\ dev'.status = "quarantined" /\ dev'.gen = dev.gen
                    /\ dev'.reason = CleanupPending <=> dev.reason = CleanupPending)
    BY <1>7, <1>a DEF Revoke, RevokedRow, RowSame, Rows, CleanupPending
  <2> QED
    BY <2>1, <2>2 DEF QuietStep, DoubtStep, JournalStep
<1>8. CASE BorrowRecovery(x)
  <2>1. /\ dev'.status = "quarantined" /\ dev'.gen = dev.gen
        /\ dev'.reason = CleanupPending <=> dev.reason = CleanupPending
    BY <1>8, <1>a DEF BorrowRecovery, Rows, CleanupPending, Unconfirmed
  <2> QED
    BY <1>8, <1>s, <2>1 DEF BorrowRecovery, DoubtStep, JournalStep, native
<1>9. CASE \E k \in Borrows : EndBorrow(x, k)
  BY <1>9, <1>s DEF EndBorrow, QuietStep, RowSame, JournalStep, journal, native
<1>10. ASSUME NEW d \in Deadlines, NEW c \in BOOLEAN,
              NEW v \in {"succeeded", "rejected", "recovered"},
              Reconcile(x, d, v, c)
       PROVE  JournalStep
  <2>1. \A p \in Ops :
          /\ op'[p].gen = op[p].gen /\ op'[p].host = op[p].host
          /\ IF op[p].gen = dev.gen /\ Unfinished(p)
             THEN op'[p].st \in Terminal ELSE op'[p].st = op[p].st
    BY <1>10, <1>a DEF ReconciledOps, Reconcile, Unfinished, OpRows, Operations, Terminal
  <2>2. /\ dev'.gen = dev.gen + 1
        /\ \/ dev'.status = "owned" /\ dev'.reason = "none"
           \/ dev'.status = "quarantined" /\ dev'.reason = CleanupPending
    BY <1>10 DEF ReconciledOps, Reconcile
  <2> QED
    BY <1>10, <1>s, <2>1, <2>2 DEF ReconciledOps, Reconcile, RecoverStep, JournalStep, native
<1>11. CASE FinishCleanup(x)
  <2>1. dev'.status = "released" /\ dev'.gen = dev.gen /\ dev'.reason = "none"
    BY <1>11, <1>a DEF FinishCleanup, Rows
  <2> QED
    BY <1>11, <1>s, <2>1 DEF FinishCleanup, FinishStep, JournalStep, native
<1>12. ASSUME NEW c \in BOOLEAN, CloseStore(x, c)
       PROVE  JournalStep
  <2>0. Steady
    BY <1>12, <1>s DEF ReleasedOps, CloseStore, native
  <2>1. CASE Releases(x, c)
    <3>1. /\ dev.status \in {"owned", "expired", "released"}
          /\ dev'.status = "released" /\ dev'.gen = dev.gen /\ dev'.reason = "none"
      BY <1>12, <2>1, <1>a DEF ClosedRow, CloseStore, Releases, Rows
    <3>2. Restated({p \in Ops : op[p].gen = dev.gen /\ op[p].st = "queued"}, "rejected")
      BY <1>12, <2>1, <1>a DEF ReleasedOps, CloseStore, Restated, OpRows, Operations
    <3> QED
      BY <2>0, <3>1, <3>2 DEF ReleaseStep, JournalStep
  <2>2. CASE ~Releases(x, c)
    <3>1. op' = op
      BY <1>12, <2>2, <1>a DEF ReleasedOps, CloseStore, OpRows
    <3>2. RowSame \/ (/\ dev'.status = "quarantined" /\ dev'.gen = dev.gen
                      /\ dev'.reason = CleanupPending <=> dev.reason = CleanupPending)
      BY <1>12, <2>2, <1>a
      DEF ClosedRow, CloseStore, RevokedRow, RowSame, Rows, CleanupPending
    <3> QED
      BY <2>0, <3>1, <3>2 DEF QuietStep, DoubtStep, JournalStep
  <2> QED
    BY <2>1, <2>2
<1> QED
  BY <1>1, <1>2, <1>3, <1>4, <1>5, <1>6, <1>7, <1>8, <1>9, <1>10, <1>11, <1>12
  DEF HandleNext

LEMMA OperationSteps ==
  ASSUME TypeOK, NEW o \in Ops, OperationNext(o)
  PROVE  JournalStep
<1> USE ConstantsAssumption
<1>a. dev \in Rows /\ op \in OpRows
  BY RowTypes
<1>s. UNCHANGED <<effect, up, host, pend>> => Steady
  BY DEF Steady, TypeOK
<1>1. ASSUME NEW x \in Handles, NEW d \in Deadlines, Admit(x, o, d)
      PROVE  JournalStep
  <2>1. AdmitStep(o)
    BY <1>1, <1>a, <1>s DEF Admit, AdmitStep, RowSame, Bound, OpRows, native
  <2> QED
    BY <2>1 DEF JournalStep
<1>2. ASSUME NEW x \in Handles, Prepare(x, o)
      PROVE  JournalStep
  <2>1. /\ dev'.status = "quarantined" /\ dev'.gen = dev.gen
        /\ dev'.reason = Unconfirmed
    BY <1>2, <1>a DEF Issued, UncertainRow, Prepare, Rows
  <2>2. Restated({o}, "uncertain")
    BY <1>2, <1>a DEF Issued, UncertainRow, Prepare, Restated, OpRows, Operations
  <2>3. DispatchStep(o)
    BY <1>2, <1>s, <2>1, <2>2 DEF Issued, UncertainRow, Prepare, DispatchStep, Bound, native
  <2> QED
    BY <2>3 DEF JournalStep
<1>3. ASSUME NEW x \in Handles, PrepareExpired(x, o)
      PROVE  JournalStep
  <2>1. RowSame \/ Expiry
    BY <1>3, <1>a DEF Issued, PrepareExpired, RowSame, Expiry, ExpiredRow, Rows
  <2>2. Steady
    BY <1>3, <1>s DEF PrepareExpired, native
  <2>3. CASE op[o].st = "queued"
    <3>1. Restated({o}, "expired")
      BY <1>3, <2>3, <1>a DEF PrepareExpired, ExpiredOp, Restated, OpRows, Operations
    <3>2. DropStep(o)
      BY <2>1, <2>2, <2>3, <3>1 DEF DropStep
    <3> QED
      BY <3>2 DEF JournalStep
  <2>4. CASE op[o].st # "queued"
    <3>1. op' = op
      BY <1>3, <2>4, <1>a DEF PrepareExpired, ExpiredOp, OpRows, Operations
    <3> QED
      BY <2>1, <2>2, <3>1 DEF QuietStep, ExpireStep, JournalStep
  <2> QED
    BY <2>3, <2>4
<1>4. ASSUME NEW x \in Handles, Arm(x, o)
      PROVE  JournalStep
  <2>1. ArmStep(o)
    BY <1>4 DEF Arm, PermitCurrent, ArmStep, RowSame, journal
  <2> QED
    BY <2>1 DEF JournalStep
<1>5. ASSUME NEW x \in Handles, BindNative(x, o) \/ ConfirmCleanup(x, o)
      PROVE  JournalStep
  BY <1>5, <1>s DEF BindNative, ConfirmCleanup, QuietStep, RowSame, JournalStep,
     journal, native
<1>6. ASSUME NEW x \in Handles, NEW r \in Results, BeginConfirm(x, o, r)
      PROVE  JournalStep
  <2>1. ReportStep(o)
    BY <1>6 DEF BeginConfirm, Reportable, ReportStep, RowSame, journal, Results
  <2> QED
    BY <2>1 DEF JournalStep
<1>7. CASE Land(o)
  <2>1. CanLand(o) /\ up' \subseteq up \cup {op[o].gen}
    BY <1>7 DEF Land, CanLand
  <2>2. LandStep(o)
    BY <1>7, <2>1 DEF Land, LandStep, RowSame, journal
  <2> QED
    BY <2>2 DEF JournalStep
<1>p. ASSUME pend' = [pend EXCEPT ![o] = "none"], UNCHANGED <<effect, up, host>>
      PROVE  Steady
  BY <1>p DEF Steady, TypeOK
<1>8. CASE FinishConfirm(o)
  <2>1. Steady
    BY <1>8, <1>p DEF FinishConfirm, native
  <2>2. CASE Current(o) /\ pend[o] # "unknown" /\ op' = [op EXCEPT ![o].st = pend[o]]
               /\ dev' = ResolvedRow
    <3>1. /\ dev'.status \in {"owned", "expired"} /\ dev'.gen = dev.gen
          /\ dev'.reason \in {"none", "parent-expired"}
      BY <1>a, <2>2 DEF ResolvedRow, ExpiredRow, Rows
    <3>2. Restated({o}, pend[o])
      BY <1>a, <2>2 DEF Restated, OpRows, Operations
    <3>3. ResolveStep(o)
      BY <1>8, <2>1, <2>2, <3>1, <3>2
      DEF FinishConfirm, ResolveStep, Current, Results
    <3> QED
      BY <3>3 DEF JournalStep
  <2>3. CASE UNCHANGED <<op, dev>>
    BY <2>1, <2>3 DEF QuietStep, RowSame, JournalStep
  <2> QED
    BY <1>8, <2>2, <2>3 DEF FinishConfirm
<1>9. CASE DropConfirm(o)
  BY <1>9, <1>p DEF DropConfirm, QuietStep, RowSame, JournalStep, journal, native
<1>10. CASE FinishClock(o)
  <2>1. Steady /\ op' = op
    BY <1>10, <1>p DEF FinishClock, native
  <2>2. RowSame \/ (/\ dev'.status = "quarantined" /\ dev'.gen = dev.gen
                    /\ dev'.reason = CleanupPending <=> dev.reason = CleanupPending)
    BY <1>10, <1>a DEF FinishClock, ClockRow, RowSame, Rows, CleanupPending
  <2> QED
    BY <2>1, <2>2 DEF QuietStep, DoubtStep, JournalStep
<1> QED
  BY <1>1, <1>2, <1>3, <1>4, <1>5, <1>6, <1>7, <1>8, <1>9, <1>10 DEF OperationNext

LEMMA EnvironmentSteps ==
  ASSUME TypeOK, EnvironmentNext
  PROVE  JournalStep
<1> USE ConstantsAssumption
<1>1. QuietStep
  <2>s. UNCHANGED <<effect, pend>> /\ up' \subseteq up
          /\ (\A h \in Hosts : host[h] = "dead" => host'[h] = "dead") => Steady
    BY DEF Steady, TypeOK
  <2>1. CASE LegacyEnter \/ LegacyExit \/ Tick
    BY <2>1, <2>s DEF LegacyEnter, LegacyExit, Tick, QuietStep, RowSame, journal,
       native
  <2>2. CASE \E g \in up : HelperExit(g)
    BY <2>2, <2>s DEF HelperExit, QuietStep, RowSame, journal
  <2>3. CASE \E h \in Hosts : HostCloseBegin(h) \/ HostCloseEnd(h)
    BY <2>3, <2>s DEF HostCloseBegin, HostCloseEnd, QuietStep, RowSame, journal,
       native, TypeOK
  <2>4. ASSUME NEW h \in Hosts, NEW kept, Crash(h, kept)
        PROVE  QuietStep
    <3>1. Steady
      BY <2>4 DEF Crash, Steady, native, TypeOK
    <3> QED
      BY <2>4, <3>1 DEF Crash, QuietStep, RowSame, journal
  <2> QED
    BY <2>1, <2>2, <2>3, <2>4 DEF EnvironmentNext
<1> QED
  BY <1>1 DEF JournalStep

LEMMA StepClasses == TypeOK /\ [Next]_vars => JournalStep
<1>1. TypeOK /\ UNCHANGED vars => JournalStep
  BY DEF vars, JournalStep, QuietStep, RowSame, Steady, TypeOK
<1> QED
  BY <1>1, HandleSteps, OperationSteps, EnvironmentSteps DEF Next

----------------------------------------------------------------------------
(* The inductive invariant.                                                *)

LEMMA JournalInit == Init => JournalInv
<1> SUFFICES ASSUME Init PROVE JournalInv
  OBVIOUS
<1>1. TypeOK
  BY TypeInit
<1> QED
  BY <1>1 DEF Init, JournalInv, UncertainHoldsDevice, NothingStranded, Unfinished,
     CleanupSettled, ReportsTrue, ArmedBound, NoOperation, CleanupPending

\* What the invariant needs of the types.
LEMMA Ranges ==
  ASSUME TypeOK
  PROVE  /\ dev.gen \in Nat
         /\ \A o \in Ops :
              /\ op[o].gen \in Nat
              /\ op[o].st \in {"absent", "queued", "uncertain"} \cup Terminal
              /\ effect[o] \in {"none", "armed", "landed", "refused"}
              /\ pend[o] \in Results \cup {"none", "clock"}
  BY RowTypes, ConstantsAssumption DEF TypeOK, Rows, OpRows, Operations

\* The part of the invariant that speaks only of the row and the operations.
RowInv == UncertainHoldsDevice /\ NothingStranded /\ CleanupSettled

LEMMA RowStep ==
  ASSUME JournalInv, JournalStep
  PROVE  RowInv'
<1>t. TypeOK
  BY DEF JournalInv
<1>r. /\ dev.gen \in Nat
      /\ \A o \in Ops : /\ op[o].gen \in Nat
                        /\ pend[o] \in Results \cup {"none", "clock"}
  BY <1>t, Ranges
<1> USE DEF RowInv, UncertainHoldsDevice, NothingStranded, CleanupSettled, Unfinished,
            JournalInv
<1>1. CASE QuietStep
  BY <1>1 DEF QuietStep, RowSame
<1>2. CASE DoubtStep
  BY <1>2 DEF DoubtStep
<1>3. CASE AcquireStep
  BY <1>3 DEF AcquireStep, CleanupPending
<1>4. CASE ExpireStep
  BY <1>4 DEF ExpireStep, Expiry, CleanupPending
<1>5. CASE RecoverStep
  BY <1>5, <1>r DEF RecoverStep, Terminal, CleanupPending
<1>6. CASE ReleaseStep
  BY <1>6 DEF ReleaseStep, Restated, CleanupPending
<1>7. CASE FinishStep
  BY <1>7 DEF FinishStep, CleanupPending
<1>8. ASSUME NEW o \in Ops, AdmitStep(o)
      PROVE  RowInv'
  BY <1>8 DEF AdmitStep, RowSame
<1>9. ASSUME NEW o \in Ops, DispatchStep(o)
      PROVE  RowInv'
  BY <1>9 DEF DispatchStep, Restated, CleanupPending, Unconfirmed
<1>10. ASSUME NEW o \in Ops, DropStep(o)
       PROVE  RowInv'
  BY <1>10 DEF DropStep, Restated, RowSame, Expiry, CleanupPending
<1>11. ASSUME NEW o \in Ops, ArmStep(o) \/ LandStep(o) \/ ReportStep(o)
       PROVE  RowInv'
  BY <1>11 DEF ArmStep, LandStep, ReportStep, RowSame
<1>12. ASSUME NEW o \in Ops, ResolveStep(o)
       PROVE  RowInv'
  BY <1>12 DEF ResolveStep, Restated, CleanupPending
<1> QED
  BY <1>1, <1>2, <1>3, <1>4, <1>5, <1>6, <1>7, <1>8, <1>9, <1>10, <1>11, <1>12
  DEF JournalStep

LEMMA ReportsStep ==
  ASSUME JournalInv, JournalStep
  PROVE  ReportsTrue'
<1>t. TypeOK /\ ReportsTrue
  BY DEF JournalInv
<1>r. effect \in [Ops -> {"none", "armed", "landed", "refused"}]
        /\ pend \in [Ops -> Results \cup {"none", "clock"}]
  BY <1>t DEF TypeOK
<1>1. CASE Steady
  BY <1>1, <1>t DEF Steady, ReportsTrue
<1>2. ASSUME NEW o \in Ops, ArmStep(o)
      PROVE  ReportsTrue'
  BY <1>2, <1>t, <1>r DEF ArmStep, ReportsTrue
<1>3. ASSUME NEW o \in Ops, LandStep(o)
      PROVE  ReportsTrue'
  BY <1>3, <1>t, <1>r DEF LandStep, ReportsTrue
<1>4. ASSUME NEW o \in Ops, ReportStep(o)
      PROVE  ReportsTrue'
  BY <1>4, <1>t, <1>r DEF ReportStep, ReportsTrue, Results
<1> QED
  BY <1>1, <1>2, <1>3, <1>4 DEF JournalStep, QuietStep, DoubtStep, AcquireStep,
     ExpireStep, RecoverStep, ReleaseStep, FinishStep, AdmitStep, DispatchStep,
     DropStep, ResolveStep

\* One operation's share of ArmedBound.
ArmedBoundOf(o) ==
    effect[o] = "armed" =>
        \/ op[o].st = "uncertain"
        \/ op[o].st # "absent" /\ op[o].gen < dev.gen /\ ~CanLand(o)

LEMMA ArmedBoundStep ==
  ASSUME JournalInv, JournalStep
  PROVE  ArmedBound'
<1>t. TypeOK /\ UncertainHoldsDevice /\ NothingStranded /\ ReportsTrue /\ ArmedBound
  BY DEF JournalInv
<1>r. /\ dev.gen \in Nat
      /\ \A o \in Ops : op[o].gen \in Nat
      /\ effect \in [Ops -> {"none", "armed", "landed", "refused"}]
  BY <1>t, Ranges DEF TypeOK
<1>1. \A o \in Ops : op'[o].st # "absent" => op'[o].host \in Hosts
  BY <1>t DEF ArmedBound, JournalStep, QuietStep, DoubtStep, AcquireStep, ExpireStep,
     RecoverStep, ReleaseStep, FinishStep, AdmitStep, DispatchStep, DropStep, ArmStep,
     LandStep, ReportStep, ResolveStep, Restated, Unfinished
<1>2. ASSUME NEW o \in Ops
      PROVE  ArmedBoundOf(o)'
  <2>b. ArmedBoundOf(o) /\ (op[o].st # "absent" => op[o].host \in Hosts)
    BY <1>t DEF ArmedBound, ArmedBoundOf
  <2>u. op[o].st = "uncertain" => op[o].gen = dev.gen /\ dev.status = "quarantined"
    BY <1>t DEF UncertainHoldsDevice
  <2>s. ASSUME Steady, op'[o].gen = op[o].gen, op'[o].host = op[o].host,
               op[o].st # "absent", ~CanLand(o)
        PROVE  ~CanLand(o)'
    BY <2>s, <2>b DEF Steady, CanLand
  \* The status and the generation of o stay, and the row's does not go back.
  <2>k. ASSUME Steady, op'[o].st = op[o].st, op'[o].gen = op[o].gen,
               op'[o].host = op[o].host, dev'.gen \in Nat, dev'.gen >= dev.gen
        PROVE  ArmedBoundOf(o)'
    BY <2>k, <2>b, <2>s, <1>r DEF ArmedBoundOf, Steady
  <2>1. CASE QuietStep \/ DoubtStep \/ AcquireStep \/ ExpireStep \/ FinishStep
    BY <2>1, <2>k, <1>r DEF QuietStep, RowSame, DoubtStep, AcquireStep, ExpireStep,
       Expiry, FinishStep
  <2>2. CASE RecoverStep
    <3>1. CASE op[o].gen = dev.gen /\ Unfinished(o)
      <4>1. effect[o] = "armed" => op[o].st = "uncertain" /\ ~CanLand(o)
        BY <3>1, <2>2, <2>b, <1>r
        DEF ArmedBoundOf, RecoverStep, PriorHelperGone, CanLand
      <4>2. effect[o] = "armed" => ~CanLand(o)'
        BY <4>1, <2>2, <2>s DEF RecoverStep
      <4> QED
        BY <4>2, <3>1, <2>2, <1>r DEF RecoverStep, ArmedBoundOf, Steady, Terminal
    <3>2. CASE ~(op[o].gen = dev.gen /\ Unfinished(o))
      BY <3>2, <2>2, <2>k, <1>r DEF RecoverStep
    <3> QED
      BY <3>1, <3>2
  <2>3. CASE ReleaseStep
    <3>1. op[o].st # "uncertain"
      BY <2>3, <2>u DEF ReleaseStep
    <3>2. Steady /\ op'[o].gen = op[o].gen /\ op'[o].host = op[o].host
            /\ dev'.gen = dev.gen /\ (op[o].st # "absent" => op'[o].st # "absent")
      BY <2>3 DEF ReleaseStep, Restated
    <3> QED
      BY <3>1, <3>2, <2>b, <2>s, <1>r DEF ArmedBoundOf, Steady
  <2>4. ASSUME NEW q \in Ops, AdmitStep(q)
        PROVE  ArmedBoundOf(o)'
    <3>1. CASE q = o
      BY <3>1, <2>4, <2>b DEF AdmitStep, ArmedBoundOf, Steady
    <3>2. CASE q # o
      BY <3>2, <2>4, <2>k, <1>r DEF AdmitStep, RowSame
    <3> QED
      BY <3>1, <3>2
  <2>5. ASSUME NEW q \in Ops, DispatchStep(q) \/ DropStep(q) \/ ResolveStep(q)
        PROVE  ArmedBoundOf(o)'
    <3>0. Steady /\ op'[o].gen = op[o].gen /\ op'[o].host = op[o].host
            /\ dev'.gen = dev.gen
      BY <2>5 DEF DispatchStep, DropStep, ResolveStep, Restated, RowSame, Expiry
    <3>1. CASE q = o /\ ResolveStep(q)
      BY <3>0, <3>1, <1>t DEF ResolveStep, ReportsTrue, ArmedBoundOf, Steady
    <3>2. CASE q = o /\ (DispatchStep(q) \/ DropStep(q))
      BY <3>0, <3>2, <2>b, <2>s, <1>r
      DEF DispatchStep, DropStep, Restated, ArmedBoundOf, Steady
    <3>3. CASE q # o
      BY <3>0, <3>3, <2>5, <2>k, <1>r DEF DispatchStep, DropStep, ResolveStep, Restated
    <3> QED
      BY <3>1, <3>2, <3>3, <2>5
  <2>6. ASSUME NEW q \in Ops, ArmStep(q) \/ ReportStep(q)
        PROVE  ArmedBoundOf(o)'
    <3>1. op' = op /\ dev'.gen = dev.gen /\ (CanLand(o)' <=> CanLand(o))
      BY <2>6 DEF ArmStep, ReportStep, RowSame, CanLand
    <3> QED
      BY <3>1, <2>6, <2>b, <1>r DEF ArmStep, ReportStep, ArmedBoundOf
  <2>7. ASSUME NEW q \in Ops, LandStep(q)
        PROVE  ArmedBoundOf(o)'
    <3>1. op[q].st = "uncertain" /\ op[q].gen = dev.gen
      BY <2>7, <1>t DEF LandStep, ArmedBound, UncertainHoldsDevice
    <3>2. op' = op /\ dev'.gen = dev.gen /\ host' = host
            /\ up' \subseteq up \cup {op[q].gen}
            /\ effect' = [effect EXCEPT ![q] = "landed"]
      BY <2>7 DEF LandStep, RowSame
    <3>3. op[o].gen < dev.gen /\ ~CanLand(o) => ~CanLand(o)'
      BY <3>1, <3>2, <1>r DEF CanLand
    <3> QED
      BY <3>2, <3>3, <2>b, <1>r DEF ArmedBoundOf
  <2> QED
    BY <2>1, <2>2, <2>3, <2>4, <2>5, <2>6, <2>7 DEF JournalStep
<1> QED
  BY <1>1, <1>2 DEF ArmedBound, ArmedBoundOf

\* The journal, the receipts on their way and the effects on the device agree
\* in every reachable state, whatever crashes, closes, claims or recovers.
THEOREM JournalInvariant == Spec => []JournalInv
<1>1. JournalInv /\ [Next]_vars => JournalInv'
  <2> SUFFICES ASSUME JournalInv, [Next]_vars PROVE JournalInv'
    OBVIOUS
  <2>1. TypeOK' /\ JournalStep
    BY TypeStep, StepClasses DEF JournalInv
  <2> QED
    BY <2>1, RowStep, ReportsStep, ArmedBoundStep DEF RowInv, JournalInv
<1> QED
  BY <1>1, JournalInit, PTL DEF Spec

\* An unknown outcome holds the device: prepare_dispatch's quarantine lasts
\* until that operation's receipt or a reconciliation.
THEOREM UncertainAlwaysHolds == Spec => []UncertainHoldsDevice
<1>1. JournalInv => UncertainHoldsDevice
  BY DEF JournalInv
<1> QED
  BY <1>1, JournalInvariant, PTL

\* No generation and no release leaves an unfinished operation behind.
THEOREM NothingEverStranded == Spec => []NothingStranded
<1>1. JournalInv => NothingStranded
  BY DEF JournalInv
<1> QED
  BY <1>1, JournalInvariant, PTL

----------------------------------------------------------------------------
(* What a step may never do.                                               *)

LEMMA StepWithInv == Spec => [][JournalInv /\ JournalStep]_vars
<1>1. JournalInv /\ [Next]_vars => [JournalInv /\ JournalStep]_vars
  BY StepClasses DEF JournalInv
<1> QED
  BY <1>1, JournalInvariant, PTL DEF Spec

\* An effect reaches the device only under its own quarantine: a permit that
\* was checked before a close, a crash, a claim or a recovery is harmless.
THEOREM EffectsFenced == Spec => EffectFence
<1>1. ASSUME JournalInv, JournalStep, NEW o \in Ops,
             effect[o] # "landed", effect'[o] = "landed"
      PROVE  op[o].st = "uncertain" /\ op[o].gen = dev.gen /\ dev.status = "quarantined"
  <2>t. effect \in [Ops -> {"none", "armed", "landed", "refused"}]
    BY <1>1 DEF JournalInv, TypeOK
  <2>1. PICK q \in Ops : ArmStep(q) \/ LandStep(q) \/ ReportStep(q)
    BY <1>1 DEF JournalStep, QuietStep, DoubtStep, AcquireStep, ExpireStep, RecoverStep,
       ReleaseStep, FinishStep, AdmitStep, DispatchStep, DropStep, ResolveStep, Steady
  <2>2. effect[o] = "armed" /\ CanLand(o)
    BY <1>1, <2>t, <2>1 DEF ArmStep, LandStep, ReportStep
  <2> QED
    BY <1>1, <2>2 DEF JournalInv, ArmedBound, UncertainHoldsDevice
<1>2. [JournalInv /\ JournalStep]_vars =>
        [\A o \in Ops : effect[o] # "landed" /\ effect'[o] = "landed" =>
           /\ op[o].st = "uncertain" /\ op[o].gen = dev.gen
           /\ dev.status = "quarantined"]_vars
  BY <1>1
<1> QED
  BY <1>2, StepWithInv, PTL DEF EffectFence

\* A fence is final for its generation.
THEOREM FencesHold == Spec => FenceHolds
<1>1. [JournalInv /\ JournalStep]_vars =>
        [dev'.status = "owned" /\ dev.status # "owned" /\ dev'.gen = dev.gen
           => dev.reason = Unconfirmed /\ dev.status = "quarantined"]_vars
  <2> SUFFICES ASSUME JournalInv, JournalStep, dev'.status = "owned",
                      dev.status # "owned", dev'.gen = dev.gen
               PROVE  dev.reason = Unconfirmed /\ dev.status = "quarantined"
    OBVIOUS
  <2>1. dev.gen \in Nat
    BY Ranges DEF JournalInv
  <2>2. ~AcquireStep /\ ~RecoverStep
    BY <2>1 DEF AcquireStep, RecoverStep
  <2>3. PICK o \in Ops : ResolveStep(o)
    BY <2>2 DEF JournalStep, QuietStep, RowSame, DoubtStep, ExpireStep, Expiry,
       ReleaseStep, FinishStep, AdmitStep, DispatchStep, DropStep, ArmStep, LandStep,
       ReportStep
  <2> QED
    BY <2>3 DEF ResolveStep
<1> QED
  BY <1>1, StepWithInv, PTL DEF FenceHolds

\* Late and duplicate receipts, expiries and recoveries never rewrite an
\* outcome.
THEOREM OutcomesFinal == Spec => OutcomeFinal
<1>1. [JournalInv /\ JournalStep]_vars =>
        [\A o \in Ops : op[o].st \in Terminal => op'[o].st = op[o].st]_vars
  BY DEF JournalStep, QuietStep, DoubtStep, AcquireStep, ExpireStep, RecoverStep,
     ReleaseStep, FinishStep, AdmitStep, DispatchStep, DropStep, ArmStep, LandStep,
     ReportStep, ResolveStep, Restated, Unfinished, Terminal
<1> QED
  BY <1>1, StepWithInv, PTL DEF OutcomeFinal

\* A pending cleanup is left only by finish_reconciliation_cleanup.
THEOREM CleanupsHeld == Spec => CleanupHold
<1>1. [JournalInv /\ JournalStep]_vars =>
        [dev.reason = CleanupPending /\ dev'.reason # CleanupPending
           => dev'.status = "released" /\ dev'.gen = dev.gen]_vars
  BY DEF JournalInv, CleanupSettled, CleanupPending, Unconfirmed, JournalStep,
     QuietStep, RowSame, DoubtStep, AcquireStep, ExpireStep, Expiry, RecoverStep,
     ReleaseStep, FinishStep, AdmitStep, DispatchStep, DropStep, ArmStep, LandStep,
     ReportStep, ResolveStep
<1> QED
  BY <1>1, StepWithInv, PTL DEF CleanupHold

----------------------------------------------------------------------------
(* Refinement.                                                             *)

Progress == [o \in Ops |-> ProgressOf(op[o].st)]
Accepted == [o \in Ops |-> op[o].gen]
Acted    == {o \in Ops : effect[o] = "landed"}

LEMMA JournalSimulation ==
  ASSUME JournalInv, JournalStep
  PROVE  J!JNext \/ UNCHANGED <<OwnOf(dev.status), dev.gen, Progress, Accepted, Acted>>
<1> DEFINE Stutter == UNCHANGED <<OwnOf(dev.status), dev.gen, Progress, Accepted, Acted>>
<1>t. TypeOK /\ UncertainHoldsDevice /\ NothingStranded /\ CleanupSettled /\ ArmedBound
  BY DEF JournalInv
<1>r. /\ dev.gen \in Nat
      /\ \A o \in Ops :
           op[o].st \in {"absent", "queued", "uncertain"} \cup Terminal
      /\ effect \in [Ops -> {"none", "armed", "landed", "refused"}]
  BY <1>t, Ranges DEF TypeOK
<1>a. ASSUME op' = op
      PROVE  Progress' = Progress /\ Accepted' = Accepted
  BY <1>a DEF Progress, Accepted
<1>e. Steady => Acted' = Acted
  BY DEF Steady, Acted
<1>1. CASE QuietStep
  BY <1>1, <1>a, <1>e DEF QuietStep, RowSame
<1>2. CASE DoubtStep
  <2>1. J!Suspect
    BY <1>2, <1>a, <1>e DEF DoubtStep, OwnOf, J!Suspect, Progress, Accepted, Acted
  <2> QED
    BY <2>1 DEF J!JNext
<1>3. CASE AcquireStep
  <2>1. J!Acquire
    BY <1>3, <1>a, <1>e DEF AcquireStep, OwnOf, J!Acquire, Progress, Accepted, Acted
  <2> QED
    BY <2>1 DEF J!JNext
<1>4. CASE ExpireStep
  BY <1>4, <1>a, <1>e DEF ExpireStep, Expiry, OwnOf
<1>5. CASE RecoverStep
  <2>1. Accepted' = Accepted
    BY <1>5 DEF RecoverStep, Accepted
  <2>2. Progress' = [o \in Ops |-> IF Progress[o] \in {"waiting", "doubtful"}
                                   THEN "done" ELSE Progress[o]]
    BY <1>5, <1>t, <1>r
    DEF RecoverStep, Progress, ProgressOf, NothingStranded, Unfinished, Terminal
  <2>3. J!Recover
    BY <1>5, <1>e, <2>1, <2>2
    DEF RecoverStep, OwnOf, J!Recover, J!Settled, Progress, Accepted, Acted
  <2> QED
    BY <2>3 DEF J!JNext
<1>6. CASE ReleaseStep
  <2>1. Accepted' = Accepted
    BY <1>6 DEF ReleaseStep, Restated, Accepted
  <2>2. Progress' = [o \in Ops |-> IF Progress[o] \in {"waiting"} THEN "done"
                                   ELSE Progress[o]]
    BY <1>6, <1>t, <1>r DEF ReleaseStep, Restated, Progress, ProgressOf,
       NothingStranded, Unfinished, Terminal
  <2>3. CASE dev.status = "released"
    <3>1. Progress' = Progress
      BY <2>2, <2>3, <1>t, <1>r
      DEF Progress, ProgressOf, NothingStranded, Unfinished, Terminal
    <3> QED
      BY <1>6, <1>e, <2>1, <2>3, <3>1 DEF ReleaseStep
  <2>4. CASE dev.status # "released"
    <3>1. \A o \in Ops : Progress[o] # "doubtful"
      BY <1>6, <1>t, <1>r DEF ReleaseStep, UncertainHoldsDevice, Progress, ProgressOf,
         Terminal
    <3>2. J!Release
      BY <1>6, <1>e, <2>1, <2>2, <2>4, <3>1
      DEF ReleaseStep, OwnOf, J!Release, J!Settled, Progress, Accepted, Acted
    <3> QED
      BY <3>2 DEF J!JNext
  <2> QED
    BY <2>3, <2>4
<1>7. CASE FinishStep
  <2>1. \A o \in Ops : Progress[o] \notin {"waiting", "doubtful"}
    BY <1>7, <1>t, <1>r DEF FinishStep, CleanupSettled, Unfinished, Progress, ProgressOf,
       Terminal
  <2>2. Progress = [o \in Ops |-> IF Progress[o] \in {"waiting"} THEN "done"
                                  ELSE Progress[o]]
    BY <2>1 DEF Progress
  <2>3. J!Release
    BY <1>7, <1>a, <1>e, <2>1, <2>2
    DEF FinishStep, OwnOf, J!Release, J!Settled, Progress, Accepted, Acted
  <2> QED
    BY <2>3 DEF J!JNext
<1>8. ASSUME NEW o \in Ops, AdmitStep(o)
      PROVE  J!JNext
  <2>1. /\ Progress' = [Progress EXCEPT ![o] = "waiting"]
        /\ Accepted' = [Accepted EXCEPT ![o] = dev.gen]
    BY <1>8 DEF AdmitStep, Progress, Accepted, ProgressOf
  <2>2. J!Accept(o)
    BY <1>8, <1>e, <2>1
    DEF AdmitStep, RowSame, OwnOf, J!Accept, Progress, ProgressOf, Accepted, Acted
  <2> QED
    BY <2>2 DEF J!JNext
<1>9. ASSUME NEW o \in Ops, DispatchStep(o)
      PROVE  J!JNext
  <2>1. Progress' = [Progress EXCEPT ![o] = "doubtful"] /\ Accepted' = Accepted
    BY <1>9 DEF DispatchStep, Restated, Progress, Accepted, ProgressOf
  <2>2. J!Dispatch(o)
    BY <1>9, <1>e, <2>1
    DEF DispatchStep, OwnOf, J!Dispatch, Progress, ProgressOf, Accepted, Acted
  <2> QED
    BY <2>2 DEF J!JNext
<1>10. ASSUME NEW o \in Ops, DropStep(o)
       PROVE  J!JNext
  <2>1. Progress' = [Progress EXCEPT ![o] = "done"] /\ Accepted' = Accepted
    BY <1>10 DEF DropStep, Restated, Progress, Accepted, ProgressOf
  <2>2. J!Drop(o)
    BY <1>10, <1>e, <2>1 DEF DropStep, RowSame, Expiry, OwnOf, J!Drop, Progress,
       ProgressOf, Accepted, Acted
  <2> QED
    BY <2>2 DEF J!JNext
<1>11. ASSUME NEW o \in Ops, ArmStep(o) \/ ReportStep(o)
       PROVE  Stutter
  <2>1. Acted' = Acted
    BY <1>11, <1>r DEF ArmStep, ReportStep, Acted
  <2> QED
    BY <1>11, <1>a, <2>1 DEF ArmStep, ReportStep, RowSame
<1>12. ASSUME NEW o \in Ops, LandStep(o)
       PROVE  J!JNext
  <2>1. Acted' = Acted \cup {o}
    BY <1>12, <1>r DEF LandStep, Acted
  <2>2. op[o].st = "uncertain" /\ op[o].gen = dev.gen /\ dev.status = "quarantined"
    BY <1>12, <1>t DEF LandStep, ArmedBound, UncertainHoldsDevice
  <2>3. J!Act(o)
    BY <1>12, <1>a, <2>1, <2>2
    DEF LandStep, RowSame, OwnOf, J!Act, Progress, ProgressOf, Accepted, Acted
  <2> QED
    BY <2>3 DEF J!JNext
<1>13. ASSUME NEW o \in Ops, ResolveStep(o)
       PROVE  J!JNext
  <2>1. Progress' = [Progress EXCEPT ![o] = "done"] /\ Accepted' = Accepted
    BY <1>13 DEF ResolveStep, Restated, Progress, Accepted, ProgressOf
  <2>2. J!Settle(o)
    BY <1>13, <1>e, <2>1
    DEF ResolveStep, OwnOf, J!Settle, Progress, ProgressOf, Accepted, Acted
  <2> QED
    BY <2>2 DEF J!JNext
<1> QED
  BY <1>1, <1>2, <1>3, <1>4, <1>5, <1>6, <1>7, <1>8, <1>9, <1>10, <1>11, <1>12, <1>13
  DEF JournalStep

\* The processes, the store, the lock and the provider together implement
\* the abstract journal.
THEOREM JournalImplemented == Spec => ImplementsJournal
<1>1. Init => J!JInit
  BY DEF Init, J!JInit, OwnOf, ProgressOf, NoOperation
<1>2. [JournalInv /\ JournalStep]_vars => [J!JNext]_(J!jvars)
  <2>1. JournalInv /\ JournalStep => J!JNext \/ UNCHANGED J!jvars
    BY JournalSimulation DEF J!jvars, Progress, Accepted, Acted
  <2>2. UNCHANGED vars => UNCHANGED J!jvars
    BY DEF vars, J!jvars
  <2> QED
    BY <2>1, <2>2
<1> QED
  BY <1>1, <1>2, StepWithInv, PTL DEF Spec, ImplementsJournal, J!JSpec
============================================================================
