--------------------------- MODULE MCJournalWorkers ---------------------------
(* JournalWorkers on a small instance.  Tasks, process ids and inputs are   *)
(* interchangeable in the specification and in every property it checks.   *)
EXTENDS JournalWorkers, TLC

Symmetry ==
  Permutations(Tasks) \cup Permutations(Pids) \cup Permutations(Inputs)
=============================================================================
