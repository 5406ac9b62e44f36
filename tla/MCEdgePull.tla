----------------------------- MODULE MCEdgePull -----------------------------
(***************************************************************************)
(* Instances of EdgePull for TLC.                                          *)
(***************************************************************************)
EXTENDS EdgePull

CONSTANTS p1, p2

TwoTasks == 1 .. 2
ThreeTasks == 1 .. 3
=============================================================================
