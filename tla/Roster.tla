------------------------------- MODULE Roster -------------------------------
(***************************************************************************)
(* What an organisation's roster promises, whatever uploads, enrolments by  *)
(* hand and invitations are handled at the same time and whichever of their *)
(* rows fail: a request takes effect once, and what it reports is exactly   *)
(* what it has enrolled, unless it had to start again in the middle; then   *)
(* it may report more, and never less.  No account comes from it without an *)
(* enrolment, and nothing is ever taken back.                               *)
(***************************************************************************)
CONSTANTS
    Emails,
    Courses,
    Requests

VARIABLES
    accounts,   \* learners that have an account
    enrolments, \* learners with their courses
    answered,   \* requests that have ended
    restarted,  \* those of them that had to start again in the middle
    reports     \* what they have reported

vars == <<accounts, enrolments, answered, restarted, reports>>

Init ==
    /\ accounts \in SUBSET Emails
    /\ enrolments \in SUBSET (accounts \X Courses)
    /\ answered = {}
    /\ restarted = {}
    /\ reports = [r \in Requests |-> {}]

Enrol(P) ==
    /\ accounts' = accounts \cup {p[1] : p \in P}
    /\ enrolments' = enrolments \cup P

Answer(r, T) ==
    /\ r \notin answered
    /\ answered' = answered \cup {r}
    /\ reports' = [reports EXCEPT ![r] = T]
    /\ \/ Enrol(T) /\ restarted' = restarted
       \/ restarted' = restarted \cup {r} /\ \E P \in SUBSET T : Enrol(P)

\* The acceptance of an invitation makes an account and enrols nobody.
Invite(r, e) ==
    /\ r \notin answered
    /\ answered' = answered \cup {r}
    /\ accounts' = accounts \cup {e}
    /\ UNCHANGED <<enrolments, restarted, reports>>

Next == \E r \in Requests :
    \/ \E T \in SUBSET (Emails \X Courses) : Answer(r, T)
    \/ \E e \in Emails : Invite(r, e)

Spec == Init /\ [][Next]_vars
=============================================================================
