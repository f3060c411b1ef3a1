---------------------------- MODULE MCRunJournal ----------------------------
(* Small journals on which two processes work at the same time: which        *)
(* operations run together is the Ops of each config.                        *)
EXTENDS RunJournal, TLC

Symmetry == Permutations(Runs) \cup Permutations(Threads)

=============================================================================
