------------------------------- MODULE MCAgent -------------------------------
(* Instances of ResearchAgent for TLC. *)
EXTENDS ResearchAgent

OneTask  == <<"t1">>
TwoTasks == <<"t1", "t2">>

\* "a" and "a/" are the same page.
Canonical == [u \in Urls |-> IF u = "a/" THEN "a" ELSE u]
=============================================================================
