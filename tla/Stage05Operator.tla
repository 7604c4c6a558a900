--------------------------- MODULE Stage05Operator ---------------------------
(***************************************************************************)
(* Stage05 with the operator who wants the host back: failures cease at    *)
(* some point nobody knows in advance, and rollback is called again and    *)
(* again.  calm says that they have ceased; it is a variable of its own    *)
(* because an exception may look just like an ordinary refusal.            *)
(***************************************************************************)
EXTENDS Stage05

VARIABLE calm

CalmDown ==
  /\ ~calm
  /\ calm' = TRUE
  /\ UNCHANGED vars

Troubled ==
  /\ ~calm
  /\ (\E p \in Procs : Fault(p)) \/ PowerLoss
  /\ UNCHANGED calm

Work == (\E p \in Procs : Start(p) \/ Step(p)) /\ UNCHANGED calm

OperatorInit == Init /\ calm = FALSE

OperatorNext == (CalmDown \/ Troubled \/ Work) /\ UNCHANGED faults

(* A running operation takes its next step unless it is killed; the operator
   keeps calling rollback, whoever else uses the lock in between. *)
Insists(p) == \A plan \in Plans : SF_vars(BeginRollback(p, plan) /\ UNCHANGED roots)

OperatorSpec ==
  /\ OperatorInit
  /\ [][OperatorNext]_<<vars, faults, calm>>
  /\ \A p \in Procs : WF_vars(Step(p)) /\ Insists(p)

(* Every operation comes to an end: recovery, cleanup and mode repair never
   send it round in circles. *)
EveryRunEnds == \A p \in Procs : run[p].pc # "idle" ~> run[p].pc = "idle"

(* Once failures cease, insisting on rollback() takes every installation to
   rolled_back, from whatever any interruption left, unless a temporary file was
   torn. *)
RollbackCompletes ==
  calm /\ rec # NoRecord ~> State = "rolled_back" \/ blocked \/ marker.now.temp = Torn
==============================================================================
