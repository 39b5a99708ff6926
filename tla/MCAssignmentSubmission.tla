----------------------- MODULE MCAssignmentSubmission -----------------------
(* Small instances of AssignmentSubmission: the requests are spread over two *)
(* API processes, the first of which handles two of them.                  *)
EXTENDS AssignmentSubmission, TLC

CONSTANTS r1, r2, r3, p1, p2

TwoProcesses == [r \in Learning |-> IF r = r3 THEN p2 ELSE p1]

Symmetry == Permutations(Reviewing) \cup Permutations({r1, r2} \cap Learning)
=============================================================================
