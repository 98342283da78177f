---------------------------- MODULE MCLabDevices ----------------------------
(* Instances of the device ownership of the Lab for TLC.                   *)
EXTENDS LabDevices

CONSTANTS s1, s2, r1, k1, k2

TwoSessions == {s1, s2}
OneReservation == {r1}
TwoClosers == {k1, k2}
OneCloser == {k1}
FirstPrepared == {s1}
============================================================================
