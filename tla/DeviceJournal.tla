--------------------------- MODULE DeviceJournal ---------------------------
(***************************************************************************)
(* What the host authority promises of one device, without processes,      *)
(* locks, clocks or receipts: the device is free, held, or in doubt; an    *)
(* operation acts on the device only between its dispatch and its outcome; *)
(* one outcome is outstanding at a time; and a new generation, or a        *)
(* release, leaves nothing unfinished behind.                              *)
(***************************************************************************)
EXTENDS Naturals

CONSTANT Ops

VARIABLES
    own,    \* "free", "held" or "doubt"
    gen,    \* ownership generation
    st,     \* progress of each operation
    at,     \* generation that accepted each operation
    acted   \* operations whose effect reached the device

jvars == <<own, gen, st, at, acted>>

JTypeOK ==
    /\ own \in {"free", "held", "doubt"}
    /\ gen \in Nat
    /\ st \in [Ops -> {"none", "waiting", "doubtful", "done"}]
    /\ at \in [Ops -> Nat]
    /\ acted \in SUBSET Ops

JInit ==
    /\ own = "free"
    /\ gen = 0
    /\ st = [o \in Ops |-> "none"]
    /\ at = [o \in Ops |-> 0]
    /\ acted = {}

Settled(from) ==
    [o \in Ops |-> IF st[o] \in from THEN "done" ELSE st[o]]

Acquire ==
    /\ own = "free"
    /\ own' = "held"
    /\ gen' = gen + 1
    /\ UNCHANGED <<st, at, acted>>

Accept(o) ==
    /\ own = "held" /\ st[o] = "none"
    /\ st' = [st EXCEPT ![o] = "waiting"]
    /\ at' = [at EXCEPT ![o] = gen]
    /\ UNCHANGED <<own, gen, acted>>

Drop(o) ==
    /\ st[o] = "waiting"
    /\ st' = [st EXCEPT ![o] = "done"]
    /\ UNCHANGED <<own, gen, at, acted>>

Dispatch(o) ==
    /\ own = "held" /\ st[o] = "waiting" /\ at[o] = gen
    /\ own' = "doubt"
    /\ st' = [st EXCEPT ![o] = "doubtful"]
    /\ UNCHANGED <<gen, at, acted>>

Act(o) ==
    /\ own = "doubt" /\ st[o] = "doubtful" /\ at[o] = gen
    /\ acted' = acted \cup {o}
    /\ UNCHANGED <<own, gen, st, at>>

\* The outcome becomes known and the device is held again.
Settle(o) ==
    /\ own = "doubt" /\ st[o] = "doubtful" /\ at[o] = gen
    /\ own' = "held"
    /\ st' = [st EXCEPT ![o] = "done"]
    /\ UNCHANGED <<gen, at, acted>>

\* A restart, a revocation or a clock failure puts ownership in doubt.
Suspect ==
    /\ own' = "doubt"
    /\ UNCHANGED <<gen, st, at, acted>>

\* Recovery decides every unfinished operation and starts a generation.
Recover ==
    /\ own = "doubt"
    /\ own' \in {"held", "doubt"}
    /\ gen' = gen + 1
    /\ st' = Settled({"waiting", "doubtful"})
    /\ UNCHANGED <<at, acted>>

\* Nothing may be outstanding; what only waited is given up.
Release ==
    /\ own # "free"
    /\ \A o \in Ops : st[o] # "doubtful"
    /\ own' = "free"
    /\ st' = Settled({"waiting"})
    /\ UNCHANGED <<gen, at, acted>>

JNext ==
    \/ Acquire \/ Suspect \/ Recover \/ Release
    \/ \E o \in Ops : Accept(o) \/ Drop(o) \/ Dispatch(o) \/ Act(o) \/ Settle(o)

JSpec == JInit /\ [][JNext]_jvars
============================================================================
