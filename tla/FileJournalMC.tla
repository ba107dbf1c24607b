--------------------------- MODULE FileJournalMC ---------------------------
(* Processes and records are interchangeable.                              *)
EXTENDS FileJournal, TLC

Symmetry == Permutations(Processes) \cup Permutations(Records)
=============================================================================
