----------------------------- MODULE MCExecution -----------------------------
(* Instances of Execution for TLC: the records of the board depend on each *)
(* other in a chain, as _build_task_records publishes them.                *)
EXTENDS Execution

CONSTANTS r1, r2, r3

Chain == [t \in Steps |-> IF t = 1 THEN {} ELSE {t - 1}]
=============================================================================
