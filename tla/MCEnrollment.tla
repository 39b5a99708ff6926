----------------------------- MODULE MCEnrollment -----------------------------
(* Instances of Enrollment for TLC.                                        *)
EXTENDS Enrollment, TLC

\* Both learners' addresses lead to the same username.
MCBase == [e \in Emails |-> "name"]

Symmetry == Permutations(Emails) \cup Permutations(Courses) \cup Permutations(Requests)
=============================================================================
