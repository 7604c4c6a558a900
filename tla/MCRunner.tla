------------------------------- MODULE MCRunner -------------------------------
(* Runner with two streams, one unit of which is kept of two. *)
EXTENDS Runner
==============================================================================
