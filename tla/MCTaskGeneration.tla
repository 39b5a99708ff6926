-------------------------- MODULE MCTaskGeneration --------------------------
(* Small instances of TaskGeneration: tasks, learners and workers are      *)
(* interchangeable.                                                        *)
EXTENDS TaskGeneration, TLC

Symmetry == Permutations(Tasks) \cup Permutations(Learners) \cup Permutations(Slots)
=============================================================================
