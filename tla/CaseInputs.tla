-------------------------------- MODULE CaseInputs --------------------------------
(***************************************************************************)
(* The algorithms are checked over all small inputs: a step picks an       *)
(* algorithm (the topic) and an input for it.                              *)
(***************************************************************************)
VARIABLES topic, input

Begin(name) == topic = "none" /\ topic' = name
=============================================================================
