---------------------------- MODULE MCJournalStore ----------------------------
(* JournalStore on two processes, two plans, two temporary names and three
   files; a history of at most MaxTransitions entries. *)
EXTENDS JournalStore, TLC

Symmetry == Permutations(Procs) \cup Permutations(Temps) \cup Permutations(Inodes)
===============================================================================
