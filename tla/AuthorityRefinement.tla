------------------------ MODULE AuthorityRefinement ------------------------
(* The host authority implements the abstract journal of one device.       *)
EXTENDS Authority

\* How firmly the row claims the device.
OwnOf(status) ==
    IF status \in {"unused", "released"} THEN "free"
    ELSE IF status = "quarantined" THEN "doubt" ELSE "held"

ProgressOf(s) ==
    IF s = "absent" THEN "none"
    ELSE IF s = "queued" THEN "waiting"
    ELSE IF s = "uncertain" THEN "doubtful" ELSE "done"

J == INSTANCE DeviceJournal WITH
        own   <- OwnOf(dev.status),
        gen   <- dev.gen,
        st    <- [o \in Ops |-> ProgressOf(op[o].st)],
        at    <- [o \in Ops |-> op[o].gen],
        acted <- {o \in Ops : effect[o] = "landed"}

\* Every run of the processes, the store, the lock and the provider is a run
\* of the abstract journal: crashes, races of close, claim, recovery and
\* receipts included, a device in doubt stays so until it is recovered or
\* its one outstanding outcome is known.
ImplementsJournal == J!JSpec

----------------------------------------------------------------------------
(* The inductive invariant behind the journal properties: what the code    *)
(* relies on between a permit check, a receipt and the effect itself.      *)

\* A recovery that waits for its cleanup has nothing unfinished.
CleanupSettled ==
    dev.reason = CleanupPending =>
        dev.status = "quarantined" /\ \A o \in Ops : ~Unfinished(o)

\* A provider only reports what happened: a success on its way to the
\* journal has landed, a rejection will never land.
ReportsTrue ==
    \A o \in Ops : /\ pend[o] = "succeeded" => effect[o] = "landed"
                   /\ pend[o] = "rejected" => effect[o] = "refused"

\* An effect that was asked for and may still reach the device.
CanLand(o) ==
    IF Kind[o] = "input" THEN op[o].gen \in up ELSE host[op[o].host] # "dead"

\* An armed effect belongs to an outstanding operation, or to an earlier
\* generation whose helper and process can no longer produce it.
ArmedBound ==
    \A o \in Ops :
        /\ op[o].st # "absent" => op[o].host \in Hosts
        /\ effect[o] = "armed" =>
             \/ op[o].st = "uncertain"
             \/ op[o].st # "absent" /\ op[o].gen < dev.gen /\ ~CanLand(o)

\* Inductive: TypeOK, the two safety properties of the journal and what
\* they need of receipts, effects and pending cleanups.
JournalInv ==
    /\ TypeOK
    /\ UncertainHoldsDevice
    /\ NothingStranded
    /\ CleanupSettled
    /\ ReportsTrue
    /\ ArmedBound
============================================================================
