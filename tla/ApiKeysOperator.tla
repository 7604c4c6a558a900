--------------------------- MODULE ApiKeysOperator ---------------------------
(***************************************************************************)
(* ApiKeys with an operator who repeats create, or revoke with deletion,   *)
(* until it works, after failures have ceased (calm) and the control plane *)
(* has got to every request that was still under way.                      *)
(***************************************************************************)
EXTENDS ApiKeys

VARIABLE calm

CalmDown ==
  /\ ~calm
  /\ calm' = TRUE
  /\ UNCHANGED vars

Troubled ==
  /\ ~calm
  /\ (\E p \in Procs : Fault(p)) \/ PowerLoss
  /\ UNCHANGED calm

Work ==
  /\ (\E p \in Procs : Start(p) \/ Step(p)) \/ Deliver
  /\ UNCHANGED calm

OperatorInit == Init /\ calm = FALSE

OperatorNext == (CalmDown \/ Troubled \/ Work) /\ UNCHANGED faults

(* A running command takes its next step, the control plane answers in the
   end, and the operator repeats both commands. *)
OperatorSpec ==
  /\ OperatorInit
  /\ [][OperatorNext]_<<vars, faults, calm>>
  /\ WF_vars(Deliver)
  /\ \A p \in Procs :
       WF_vars(Step(p)) /\ SF_vars(BeginCreate(p)) /\ SF_vars(BeginRevoke(p, TRUE))

(* What a repeated create cannot get out of: a file with a second name, a
   key file whose key is gone, two keys of one name. *)
Wedged ==
  \/ meta.now.linked \/ key.now.linked
  \/ meta.now.state = "creating" /\ key.now # NoKey /\ ~IsLive(key.now.id)
  \/ \E name \in Names : Cardinality(Live(name)) > 1

(* create() repeated: from every other interruption, orphans of a lost answer
   included, it reaches an active key. *)
CreateConverges ==
  calm /\ meta.now.state = "creating" ~> meta.now.state = "active" \/ Wedged

(* revoke --delete-key-file repeated: "a rerun can complete deletion if it was
   interrupted". *)
RevokeConverges ==
  calm /\ meta.now.state \in {"active", "revoked"}
  ~> \/ meta.now.state = "revoked" /\ key.now = NoKey /\ ~IsLive(meta.now.id)
     \/ Wedged
==============================================================================
