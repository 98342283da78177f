---------------------------- MODULE MCRecording ----------------------------
(* Instances of a recording over the evidence store for TLC.               *)
EXTENDS Recording

CONSTANTS i1, t1, s1, s2, o1, bytes, frozen

TwoSamples == {s1, s2}

AllAttempts  == Samples \cup Finals
Reservations == Samples \cup {"journal", "final"}
Charged      == [a \in AllAttempts |-> IF a \in Finals THEN "final" ELSE a]
InOrder      == [s \in Samples |-> IF s = s1 THEN 1 ELSE 2]

\* All samples have the same bytes.
Hashes       == {bytes, frozen}
SameBytes    == [a \in AllAttempts |-> IF a \in Finals THEN frozen ELSE bytes]
============================================================================
