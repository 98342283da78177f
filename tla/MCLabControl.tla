---------------------------- MODULE MCLabControl ----------------------------
(* Instances of the control of a session for TLC.                          *)
EXTENDS LabControl

CONSTANTS a, c1, r1, k1, k2

Manual   == [k \in Callers |-> IF k = k1 THEN {"claim", "reset"}
                               ELSE {"replay", "stop"}]
Resetting == [k \in Callers |-> {"reset", "stop"}]

TwoEvents == <<"rp1", "rp2">>
OnePlayed == <<"pb1">>
=============================================================================
