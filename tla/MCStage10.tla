------------------------------ MODULE MCStage10 ------------------------------
(* Stage10 with a resolver, one more process and one plan. *)
EXTENDS Stage10
==============================================================================
