-------------------------- MODULE VersionCatalog --------------------------
(***************************************************************************)
(* What a course promises about its published versions, whatever requests   *)
(* are handled at the same time: the reviewed versions form a catalogue     *)
(* that only grows, each entry with a higher number than all before it and  *)
(* a copy of content that no earlier entry was ahead of; an enrolment takes *)
(* the latest published number and keeps it.  The copy is not of one moment:*)
(* it may mix editions, and be behind the content when it is published.     *)
(***************************************************************************)
EXTENDS Naturals

CONSTANT Learners

VARIABLES
    content,    \* the edition of the live content
    catalog,    \* the versions published after a review
    offered,    \* the numbers that enrolments choose from
    pins        \* the learners enrolled, each with a number, 0 for none

vars == <<content, catalog, offered, pins>>

Init ==
    /\ content = 1
    /\ catalog = {}
    /\ offered = {}
    /\ pins = {}

Edit ==
    /\ content' = content + 1
    /\ UNCHANGED <<catalog, offered, pins>>

Publish ==
    \E v \in catalog' :
        /\ v.number > 0
        /\ 0 < v.oldest /\ v.oldest <= v.newest /\ v.newest <= content
        /\ \A u \in catalog : u.number < v.number /\ u.newest <= v.oldest
        /\ catalog' = catalog \cup {v}
        /\ offered' = offered \cup {v.number}
        /\ UNCHANGED <<content, pins>>

\* An author's own version is offered without a review.
Offer ==
    \E n \in offered' :
        /\ n > 0
        /\ offered' = offered \cup {n}
        /\ UNCHANGED <<content, catalog, pins>>

Latest(n) ==
    /\ n = 0 => offered = {}
    /\ n # 0 => n \in offered
    /\ \A m \in offered : m <= n

Enrol(l) ==
    /\ \A p \in pins : p[1] # l
    /\ \E n \in offered \cup {0} : Latest(n) /\ pins' = pins \cup {<<l, n>>}
    /\ UNCHANGED <<content, catalog, offered>>

Next == Edit \/ Publish \/ Offer \/ \E l \in Learners : Enrol(l)

Spec == Init /\ [][Next]_vars
=============================================================================
