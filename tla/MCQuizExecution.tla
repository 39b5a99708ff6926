---------------------------- MODULE MCQuizExecution ----------------------------
(* Instances of QuizExecution for TLC.                                     *)
EXTENDS QuizExecution, TLC

Symmetry == Permutations(Attempts) \cup Permutations(Requests)
=============================================================================
