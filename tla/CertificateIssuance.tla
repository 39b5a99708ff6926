------------------------ MODULE CertificateIssuance ------------------------
(***************************************************************************)
(* What the learner's record of one course promises, whatever requests are *)
(* answered at the same time: an answer completes modules and takes        *)
(* completed ones back, a certificate stays issued, and none is issued     *)
(* before the learner has completed modules that are enough for one, at    *)
(* one time or another.                                                    *)
(***************************************************************************)
CONSTANTS
    Modules,
    Certificates

VARIABLES
    enough,     \* the sets of modules that are enough, fixed by the course's rule
    done,       \* the modules completed
    ever,       \* the modules that have been completed at some time
    certs       \* the certificates issued

vars == <<enough, done, ever, certs>>

Init ==
    /\ enough \in SUBSET (SUBSET Modules)
    /\ done = {}
    /\ ever = {}
    /\ certs = {}

\* One request takes effect: it completes modules, takes others back, and issues at
\* most one certificate, for which the modules completed so far must do.
Answer(completed, takenBack, issued) ==
    /\ completed \cap takenBack = {}
    /\ \A c, d \in issued : c = d
    /\ done' = (done \cup completed) \ takenBack
    /\ ever' = ever \cup completed
    /\ certs' = certs \cup issued
    /\ issued # {} => ever' \in enough
    /\ UNCHANGED enough

Next ==
    \E completed, takenBack \in SUBSET Modules, issued \in SUBSET Certificates :
        Answer(completed, takenBack, issued)

Spec == Init /\ [][Next]_vars
=============================================================================
