------------------------------ MODULE MCStage05 ------------------------------
(* Stage05 on a few processes and plans; what may go wrong is given by each
   cfg. *)
EXTENDS Stage05, TLC

Symmetry == Permutations(Procs) \cup Permutations(Plans)
==============================================================================
