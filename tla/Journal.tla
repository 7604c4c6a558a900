------------------------------- MODULE Journal -------------------------------
(***************************************************************************)
(* What journal.py promises its callers, whatever the directory goes       *)
(* through: the record of one install_id belongs to one plan, its history  *)
(* grows by one allowed transition at a time, and no crash takes it back   *)
(* behind a history that create() or transition() has returned.  What it   *)
(* does not promise is to go on after an interruption that left a torn     *)
(* temporary file: then every later create() and transition() raises.      *)
(***************************************************************************)
EXTENDS JournalRecord

VARIABLES rec,      \* the published record
          floor,    \* what no power failure may take back: the last record create() or
            \* transition() returned, or the last power failure left
          blocked   \* a torn temporary file lies beside the record

journalVars == <<rec, floor, blocked>>

Init == rec = NoRecord /\ floor = NoRecord /\ blocked = FALSE

(* create(): the name is taken once. *)
Publish(plan) ==
  /\ ~blocked
  /\ rec = NoRecord
  /\ rec' = Planned(plan)
  /\ UNCHANGED <<floor, blocked>>

(* transition(): one allowed state is appended. *)
Advance(st) ==
  /\ ~blocked
  /\ rec # NoRecord
  /\ st \in Allowed[StateOf(rec)]
  /\ rec' = After(rec, st)
  /\ UNCHANGED <<floor, blocked>>

(* create() or transition() returns the published record to its caller. *)
Acknowledge ==
  /\ rec # NoRecord
  /\ floor' = rec
  /\ UNCHANGED <<rec, blocked>>

(* A writer stopped in the middle of its temporary file. *)
Interrupt ==
  /\ ~blocked
  /\ blocked' = TRUE
  /\ UNCHANGED <<rec, floor>>

(* A power failure takes back transitions nobody was told of; it may tear a
   temporary file or lose its name. *)
Lose ==
  /\ \E n \in 0..Len(rec.hist) : rec' = UpTo(rec, n)
  /\ Extends(rec', floor)
  /\ floor' = rec'
  /\ blocked' \in BOOLEAN

Next ==
  \/ \E plan \in Plans : Publish(plan)
  \/ \E st \in States : Advance(st)
  \/ Acknowledge
  \/ Interrupt
  \/ Lose

Spec == Init /\ [][Next]_journalVars
==============================================================================
