------------------------- MODULE MCCourseCompletion -------------------------
(* A course of two modules, whose rule gives a certificate, and three       *)
(* requests.                                                               *)
EXTENDS CourseCompletion, TLC

CONSTANTS r1, r2, r3, m1, m2

TheModules == {m1, m2}
TheRequests == {r1, r2, r3}

\* Bound: rules without a certificate are left out.
GivesCertificate == rule.cert

Interchangeable == Permutations(TheRequests) \cup Permutations(TheModules)
=============================================================================
