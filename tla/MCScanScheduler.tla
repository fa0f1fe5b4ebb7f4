-------------------------- MODULE MCScanScheduler --------------------------
(* Small instance of ScanScheduler for TLC.                                *)
EXTENDS ScanScheduler

\* A process with two equal regions, one with a better region, one not opted in.
MCScores == [p \in Procs |-> IF p = "p1" THEN <<1, 1>> ELSE IF p = "p2" THEN <<2>> ELSE <<3>>]
=============================================================================
