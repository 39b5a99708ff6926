------------------------- MODULE MCCoursePublishing -------------------------
(* Small instances of CoursePublishing: requests and learners are            *)
(* interchangeable.                                                         *)
EXTENDS CoursePublishing, TLC

Symmetry == Permutations(Requests) \cup Permutations(Learners)
=============================================================================
