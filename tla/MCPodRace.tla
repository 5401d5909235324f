------------------------------ MODULE MCPodRace -------------------------------
(* An instance of PodRace for TLC: CRASH_FACTOR as in the code, and lap    *)
(* times on both sides of it, so that pods can crash, tie and overtake.    *)
EXTENDS PodRace

SomeTimes == {20, 21, 22}
=============================================================================
