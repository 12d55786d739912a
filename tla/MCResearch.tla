----------------------------- MODULE MCResearch -----------------------------
(* Instances of ResearchCoordinator for TLC: which needs belong to which   *)
(* mission is chosen by the first needs and missions of the model.         *)
EXTENDS ResearchCoordinator

CONSTANTS n1, n2, m1, m2

OneMission  == [n \in Needs |-> m1]
TwoMissions == [n \in Needs |-> IF n = n1 THEN m1 ELSE m2]
=============================================================================
