----------------------------- MODULE MCEditLock -----------------------------
(* A small instance of EditLock: two users with one page each, which can   *)
(* change places together.                                                 *)
EXTENDS EditLock, TLC

CONSTANTS p1, p2, u1, u2

OnePageEach == p1 :> u1 @@ p2 :> u2

ChangePlaces == {p1 :> p2 @@ p2 :> p1 @@ u1 :> u2 @@ u2 :> u1}
=============================================================================
