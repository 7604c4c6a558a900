---------------------------- MODULE JournalRecord ----------------------------
(***************************************************************************)
(* The record journal.py keeps for one install_id: the plan it was written *)
(* for and the lifecycle transitions it went through, in order.  The text  *)
(* of the record (its JSON, hashes and resource list) is not modelled: two *)
(* records are equal when their plans and their histories are.             *)
(***************************************************************************)
EXTENDS Naturals, Sequences, SequencesExt

CONSTANTS Plans,   \* the plans that ask for this install_id (plan_id, plan_hash, resources)
          NoPlan   \* the plan of the record that does not exist

ASSUME NoPlanIsNoPlan == NoPlan \notin Plans

(* JournalState and _ALLOWED_TRANSITIONS. *)
States == {"planned", "applying", "applied", "validated",
           "rolling_back", "rolled_back", "failed"}

Allowed == [planned      |-> {"applying", "failed"},
            applying     |-> {"applied", "rolling_back", "failed"},
            applied      |-> {"validated", "rolling_back", "failed"},
            validated    |-> {"rolling_back"},
            rolling_back |-> {"rolled_back", "failed"},
            rolled_back  |-> {},
            failed       |-> {"rolling_back"}]

(* JournalRecord: a plan and the transitions it went through. *)
Record(plan, hist) == [plan |-> plan, hist |-> hist]
Records == [plan : Plans, hist : Seq(States) \ {<<>>}]
NoRecord == Record(NoPlan, <<>>)
PlannedWithoutHistory(plan) == Record(plan, <<>>)  \* mutant: the first state is not recorded
Planned(plan) == Record(plan, <<"planned">>)
StateOf(r) == r.hist[Len(r.hist)]
After(r, st) == Record(r.plan, Append(r.hist, st))

(* r is what q was, or q further along its own history. *)
Extends(r, q) == q = NoRecord \/ (r.plan = q.plan /\ IsPrefix(q.hist, r.hist))

(* The record as it was after its first n transitions. *)
UpTo(r, n) == IF n = 0 THEN NoRecord ELSE Record(r.plan, SubSeq(r.hist, 1, n))
==============================================================================
