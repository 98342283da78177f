---------------------------- MODULE MCJobQueue ----------------------------
(* Instances of the replay job queue for TLC.                              *)
EXTENDS JobQueue

CONSTANTS j1, j2, d1

TwoJobs   == {j1, j2}
OneDevice == [j \in TwoJobs |-> d1]

OneRun    == [j \in TwoJobs |-> 1]
TwoRuns   == [j \in TwoJobs |-> IF j = j1 THEN 2 ELSE 1]
============================================================================
