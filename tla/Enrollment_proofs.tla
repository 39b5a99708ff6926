-------------------------- MODULE Enrollment_proofs --------------------------
(***************************************************************************)
(* Proofs about Enrollment for any learners, courses and requests. The     *)
(* inductive invariant says what a transaction holds: the accounts it has  *)
(* made are nobody else's, its enrolments are of accounts it sees, its     *)
(* counts are at most what it read plus its own enrolments, and what it    *)
(* has told is committed or in its transaction. RosterInv, above it, says  *)
(* that the transaction is what the request will report; from it follows   *)
(* the refinement of Roster. The last part is about requests that are      *)
(* handled one after the other.                                            *)
(***************************************************************************)
EXTENDS Enrollment, FiniteSetTheorems, TLAPS

\* What a transaction and its savepoint may hold by phase.
Shape ==
    \A r \in Requests :
        /\ phase[r] \in {"new", "ended", "lost"} => tx[r] = Nothing
        /\ phase[r] \notin InRow => save[r] = Nothing
        /\ phase[r] \in InRow => at[r].email \in Emails /\ at[r].left \subseteq at[r].goal
        /\ phase[r] = "inserted" => at[r].course \in Courses
        /\ phase[r] = "checked" => at[r].email \notin at[r].known
        /\ save[r].made \subseteq tx[r].made /\ save[r].put \subseteq tx[r].put
        /\ \A x \in tx[r].put : x.by = r

\* An account is made by one transaction at a time, and an enrolment is of an
\* account that is there.
AccountsAreApart ==
    /\ \A r \in Requests : \A e \in tx[r].made : maker[e] = "none"
    /\ \A r, q \in Requests : q # r => tx[q].made \cap tx[r].made = {}
    /\ \A e \in Emails : maker[e] \in Requests => phase[maker[e]] = "ended"
    /\ \A x \in rows : maker[x.email] # "none" /\ (x.by \in Requests => phase[x.by] = "ended")

EnrolsTheKnown ==
    /\ \A r \in Requests : \A x \in tx[r].put : maker[x.email] # "none" \/ x.email \in tx[r].made
    /\ \A r \in Requests : \A x \in save[r].put : maker[x.email] # "none" \/ x.email \in save[r].made
    /\ \A r \in Requests : phase[r] \in {"placed", "inserted"} => Exists(r, at[r].email)

\* Nobody is about to double the enrolment that came with an account.
FirstIsLast ==
    \A x \in rows : x.by = maker[x.email] /\ x.by # "before" =>
        \A r \in Requests : \A y \in tx[r].put : ~(y.email = x.email /\ y.course = x.course)

N(c, set) == Cardinality(Of(c, set))

\* Counts never run ahead of the enrolments.
CountsAreBounded ==
    \A r \in Requests, c \in Courses :
        /\ tx[r].wrote[c] # Untouched => tx[r].wrote[c] <= N(c, rows) + N(c, tx[r].put)
        /\ save[r].wrote[c] # Untouched => save[r].wrote[c] <= N(c, rows) + N(c, save[r].put)
        /\ phase[r] \in InRow => at[r].seen[c] <= N(c, rows) + N(c, tx[r].put)
        /\ phase[r] = "inserted" /\ c = at[r].course =>
              at[r].seen[c] + 1 <= N(c, rows) + N(c, tx[r].put)

EnrolmentsAreCounted ==
    \A r \in Requests, c \in Courses :
        /\ tx[r].wrote[c] = Untouched => Of(c, tx[r].put) = {} \/ (phase[r] = "inserted" /\ c = at[r].course)
        /\ save[r].wrote[c] = Untouched => Of(c, save[r].put) = {}

\* What has been told is committed or will be with the transaction.
ToldIsWritten ==
    \A r \in Requests :
        /\ phase[r] # "lost" /\ r \notin wiped =>
             \A p \in told[r] :
                IF phase[r] \in InRow THEN Enrolled(p[1], p[2], rows \cup save[r].put)
                ELSE Enrolled(p[1], p[2], rows \cup tx[r].put)
        /\ phase[r] \in {"loaded", "fresh", "checked"} => at[r].left = at[r].goal
        /\ phase[r] \in {"placed", "inserted"} =>
             \A c \in at[r].goal \ at[r].left : Enrolled(at[r].email, c, rows \cup tx[r].put)

IInv ==
    /\ TypeOK
    /\ Shape
    /\ AccountsAreApart
    /\ EnrolsTheKnown
    /\ FirstIsLast
    /\ CountIsExplained
    /\ CountsAreBounded
    /\ EnrolmentsAreCounted
    /\ ToldIsWritten
    /\ FirstEnrolmentIsSingle

-----------------------------------------------------------------------------
(* Finite sets.                                                            *)

\* All enrolments there can be are finitely many.
LEMMA RowsFinite == IsFiniteSet(Rows)
<1> DEFINE B == Requests \cup {"before"}
           f == [x \in Rows |-> <<x.by, <<x.email, x.course>>>>]
<1>1. IsFiniteSet(B)
  BY RequestsAssumption, FS_AddElement
<1>2. IsFiniteSet(Emails \X Courses)
  BY EmailsAssumption, CoursesAssumption, FS_Product
<1>3. IsFiniteSet(B \X (Emails \X Courses))
  BY <1>1, <1>2, FS_Product
<1>4. f \in Injection(Rows, B \X (Emails \X Courses))
  <2>1. f \in [Rows -> B \X (Emails \X Courses)]
    BY DEF Rows
  <2>2. ASSUME NEW x \in Rows, NEW y \in Rows, f[x] = f[y]
        PROVE  x = y
    BY <2>2 DEF Rows
  <2> QED
    BY <2>1, <2>2 DEF Injection, IsInjective
<1> QED
  BY <1>3, <1>4, FS_Injection

\* The number of enrolments of a course among some.
LEMMA NType ==
    ASSUME NEW S \in SUBSET Rows, NEW c
    PROVE  IsFiniteSet(Of(c, S)) /\ N(c, S) \in Nat
<1>1. IsFiniteSet(Of(c, S))
  BY RowsFinite, FS_Subset DEF Of
<1> QED
  BY <1>1, FS_CardinalityType DEF N

\* It grows with the set.
LEMMA NGrows ==
    ASSUME NEW S \in SUBSET Rows, NEW T \in SUBSET Rows, S \subseteq T, NEW c
    PROVE  N(c, S) <= N(c, T)
<1>1. Of(c, S) \in SUBSET Of(c, T)
  BY DEF Of
<1> QED
  BY <1>1, NType, FS_Subset DEF N

\* It adds up over disjoint sets.
LEMMA NAdds ==
    ASSUME NEW S \in SUBSET Rows, NEW T \in SUBSET Rows, S \cap T = {}, NEW c
    PROVE  N(c, S \cup T) = N(c, S) + N(c, T)
<1>1. Of(c, S \cup T) = Of(c, S) \cup Of(c, T) /\ Of(c, S) \cap Of(c, T) = {}
  BY DEF Of
<1>2. IsFiniteSet(Of(c, S)) /\ IsFiniteSet(Of(c, T)) /\ N(c, S) \in Nat /\ N(c, T) \in Nat
  BY NType
<1>3. Cardinality(Of(c, S) \cup Of(c, T))
        = Cardinality(Of(c, S)) + Cardinality(Of(c, T)) - Cardinality(Of(c, S) \cap Of(c, T))
  BY <1>2, FS_Union
<1>4. Cardinality(Of(c, S) \cap Of(c, T)) = 0
  BY <1>1, FS_EmptySet
<1>5. N(c, S \cup T) = Cardinality(Of(c, S) \cup Of(c, T))
  BY <1>1 DEF N
<1> QED
  BY <1>2, <1>3, <1>4, <1>5 DEF N

\* A new enrolment counts for its course.
LEMMA NOneMore ==
    ASSUME NEW S \in SUBSET Rows, NEW x \in Rows, x \notin S, NEW c
    PROVE  N(c, S \cup {x}) = IF x.course = c THEN N(c, S) + 1 ELSE N(c, S)
<1>1. Of(c, S \cup {x}) = IF x.course = c THEN Of(c, S) \cup {x} ELSE Of(c, S)
  BY DEF Of
<1>2. x \notin Of(c, S) /\ IsFiniteSet(Of(c, S))
  BY NType DEF Of
<1> QED
  BY <1>1, <1>2, FS_AddElement DEF N

LEMMA NNone == \A c : N(c, {}) = 0
  BY FS_EmptySet DEF N, Of

\* What a transaction and a row are made of.
LEMMA Typed ==
    ASSUME TypeOK, NEW r \in Requests
    PROVE  /\ tx[r].made \in SUBSET Emails /\ save[r].made \in SUBSET Emails
           /\ tx[r].put \in SUBSET Rows /\ save[r].put \in SUBSET Rows
           /\ \A c \in Courses : tx[r].wrote[c] \in Nat \cup {-1} /\ save[r].wrote[c] \in Nat \cup {-1}
           /\ at[r].email \in Emails \cup {"none"} /\ at[r].goal \in SUBSET Courses /\ at[r].left \in SUBSET Courses
           /\ at[r] \in Works /\ tx[r] \in Writes /\ save[r] \in Writes
           /\ \A c \in Courses : at[r].seen[c] \in Nat
  BY DEF TypeOK, Works, Writes, Untouched

LEMMA RowUpdates ==
    ASSUME NEW w \in Works, NEW S \in SUBSET Courses, NEW K \in SUBSET Emails
    PROVE  /\ [w EXCEPT !.left = S] \in Works
           /\ \A c \in Courses : [w EXCEPT !.left = S, !.course = c] \in Works
           /\ [w EXCEPT !.known = K] \in Works
  BY DEF Works

LEMMA WriteUpdates ==
    ASSUME NEW w \in Writes
    PROVE  /\ \A M \in SUBSET Emails : [w EXCEPT !.made = M] \in Writes
           /\ \A P \in SUBSET Rows : [w EXCEPT !.put = P] \in Writes
           /\ \A c \in Courses, n \in Nat : [w EXCEPT !.wrote[c] = n] \in Writes
<1>1. ASSUME NEW M \in SUBSET Emails PROVE [w EXCEPT !.made = M] \in Writes
  BY DEF Writes
<1>2. ASSUME NEW P \in SUBSET Rows PROVE [w EXCEPT !.put = P] \in Writes
  BY DEF Writes
<1>3. ASSUME NEW c \in Courses, NEW n \in Nat PROVE [w EXCEPT !.wrote[c] = n] \in Writes
  <2>1. [w.wrote EXCEPT ![c] = n] \in [Courses -> Nat \cup {Untouched}]
    BY DEF Writes
  <2>2. [w EXCEPT !.wrote = [w.wrote EXCEPT ![c] = n]] \in Writes
    BY <2>1 DEF Writes
  <2> QED
    BY <2>2
<1> QED
  BY <1>1, <1>2, <1>3

\* A row to start with, and a transaction that has written nothing.
LEMMA Blank ==
    /\ Nothing \in Writes /\ Nothing.made = {} /\ Nothing.put = {}
    /\ \A c \in Courses : Nothing.wrote[c] = -1
    /\ NoRow \in Works
  BY DEF Nothing, NoRow, Writes, Works, Untouched

-----------------------------------------------------------------------------
(* What the steps do, request by request and course by course.             *)

LEMMA LoadDoes ==
    ASSUME TypeOK, NEW r \in Requests, NEW e \in Emails, NEW cs \in SUBSET Courses, Load(r, e, cs)
    PROVE  /\ UNCHANGED <<maker, rows, count, tx, told, wiped>>
           /\ phase[r] = "row"
           /\ \A q \in Requests : phase'[q] = IF q = r THEN "loaded" ELSE phase[q]
           /\ \A q \in Requests : save'[q] = IF q = r THEN tx[r] ELSE save[q]
           /\ \A q \in Requests : q # r => at'[q] = at[q]
           /\ at'[r].email = e /\ at'[r].left = cs /\ at'[r].goal = cs
           /\ \A c \in Courses : at'[r].seen[c] = CountSeen(r, c)
  BY DEF TypeOK, Load, NoRow, tables, history

LEMMA InsertLearnerDoes ==
    ASSUME TypeOK, NEW r \in Requests, InsertLearner(r)
    PROVE  /\ UNCHANGED <<maker, rows, count, at, save, told, wiped>>
           /\ phase[r] = "checked"
           /\ \A q \in Requests : phase'[q] = IF q = r THEN "placed" ELSE phase[q]
           /\ \A q \in Requests : /\ tx'[q].made = IF q = r THEN tx[r].made \cup {at[r].email} ELSE tx[q].made
                                  /\ tx'[q].put = tx[q].put /\ tx'[q].wrote = tx[q].wrote
  BY DEF TypeOK, InsertLearner, tables, history, Writes

EnrolmentOf(r, c) == [by |-> r, email |-> at[r].email, course |-> c]

LEMMA EnrollDoes ==
    ASSUME TypeOK, NEW r \in Requests, NEW c \in Courses, Enroll(r, c)
    PROVE  /\ maker' = maker /\ rows' = rows /\ save' = save /\ told' = told /\ wiped' = wiped
           /\ phase[r] = "placed" /\ c \in at[r].left
           /\ \A x \in rows \cup tx[r].put : ~(x.email = at[r].email /\ x.course = c)
           /\ phase'[r] = "inserted" /\ \A q \in Requests : q # r => phase'[q] = phase[q]
           /\ \A q \in Requests : tx'[q].made = tx[q].made /\ tx'[q].wrote = tx[q].wrote
           /\ \A q \in Requests : q # r => tx'[q].put = tx[q].put /\ at'[q] = at[q]
           /\ tx'[r].put = tx[r].put \cup {EnrolmentOf(r, c)}
           /\ at'[r].email = at[r].email /\ at'[r].goal = at[r].goal /\ at'[r].seen = at[r].seen
           /\ at'[r].left = at[r].left \ {c} /\ at'[r].course = c
           /\ EnrolmentOf(r, c).email = at[r].email /\ EnrolmentOf(r, c).course = c
  BY DEF TypeOK, Enroll, Enrolled, EnrolmentOf, tables, history, Writes, Works

LEMMA BumpDoes ==
    ASSUME TypeOK, NEW r \in Requests, at[r].course \in Courses, Bump(r)
    PROVE  /\ UNCHANGED <<maker, rows, count, at, save, told, wiped>>
           /\ phase[r] = "inserted"
           /\ \A q \in Requests : phase'[q] = IF q = r THEN "placed" ELSE phase[q]
           /\ \A q \in Requests : tx'[q].made = tx[q].made /\ tx'[q].put = tx[q].put
           /\ \A q \in Requests, c \in Courses :
                tx'[q].wrote[c] = IF q = r /\ c = at[r].course THEN at[r].seen[c] + 1 ELSE tx[q].wrote[c]
<1>1. tx \in [Requests -> Writes] /\ phase \in [Requests -> Phases]
  BY DEF TypeOK
<1>2. tx' = [tx EXCEPT ![r].wrote[at[r].course] = at[r].seen[at[r].course] + 1]
  BY DEF Bump
<1>3. \A q \in Requests : tx[q].wrote \in [Courses -> Nat \cup {Untouched}]
  BY <1>1 DEF Writes
<1> QED
  BY <1>1, <1>2, <1>3 DEF Bump, tables, history, Writes

LEMMA CommitDoes ==
    ASSUME TypeOK, NEW r \in Requests, Commit(r)
    PROVE  /\ UNCHANGED <<at, save, told, wiped>>
           /\ phase[r] = "row"
           /\ \A q \in Requests : phase'[q] = IF q = r THEN "ended" ELSE phase[q]
           /\ \A q \in Requests : tx'[q] = IF q = r THEN Nothing ELSE tx[q]
           /\ \A e \in Emails : maker'[e] = IF e \in tx[r].made THEN r ELSE maker[e]
           /\ rows' = rows \cup tx[r].put /\ rows' \in SUBSET Rows
           /\ \A c \in Courses : count'[c] = CountSeen(r, c)
           /\ overwritten' = overwritten \cup {c \in Courses : Overwrites(r, c)}
<1>1. tx[r].put \subseteq Rows /\ rows \subseteq Rows
  BY Typed DEF TypeOK
<1> QED
  BY <1>1 DEF TypeOK, Commit

LEMMA ReleaseDoes ==
    ASSUME TypeOK, NEW r \in Requests, Release(r)
    PROVE  /\ UNCHANGED <<maker, rows, count, tx, wiped>>
           /\ phase[r] = "placed" /\ at[r].left = {}
           /\ \A q \in Requests : phase'[q] = IF q = r THEN "row" ELSE phase[q]
           /\ \A q \in Requests : q # r => at'[q] = at[q] /\ save'[q] = save[q] /\ told'[q] = told[q]
           /\ told'[r] = told[r] \cup ({at[r].email} \X at[r].goal)
  BY DEF TypeOK, Release, tables, history

-----------------------------------------------------------------------------
(* The steps.                                                              *)

\* Types are preserved.
LEMMA TypeStep == IInv /\ [Next]_vars => TypeOK'
<1> SUFFICES ASSUME IInv, [Next]_vars PROVE TypeOK'
  OBVIOUS
<1> USE NamesAssumption DEF IInv, TypeOK, tables, locals, history, Kinds, InRow, Phases
<1>1. ASSUME NEW r \in Requests, NEW k \in Kinds, Begin(r, k)
      PROVE  TypeOK'
  BY <1>1, Blank DEF Begin
<1>2. ASSUME NEW r \in Requests, NEW e \in Emails, NEW cs \in SUBSET Courses, Load(r, e, cs)
      PROVE  TypeOK'
  <2>1. \A c2 \in Courses : CountSeen(r, c2) \in Nat
    BY Typed DEF CountSeen, Untouched
  <2>2. [c2 \in Courses |-> CountSeen(r, c2)] \in [Courses -> Nat]
    BY <2>1
  <2>3. used[r] + 1 \in 0..MaxRows
    BY <1>2, MaxRowsAssumption DEF Load, HasRoom
  <2>4. [NoRow EXCEPT !.email = e, !.goal = cs, !.left = cs, !.seen = [c2 \in Courses |-> CountSeen(r, c2)]] \in Works
    BY <2>2 DEF NoRow, Works
  <2> QED
    BY <1>2, <2>3, <2>4 DEF Load
<1>3. ASSUME NEW r \in Requests, FindLearner(r)
      PROVE  TypeOK'
  BY <1>3, Blank DEF FindLearner
<1>4. ASSUME NEW r \in Requests, CheckIdentity(r)
      PROVE  TypeOK'
  <2>1. [at[r] EXCEPT !.known = {f \in Emails : Exists(r, f)}] \in Works
    BY RowUpdates
  <2> QED
    BY <1>4, <2>1 DEF CheckIdentity
<1>5. ASSUME NEW r \in Requests, InsertLearner(r)
      PROVE  TypeOK'
  <2>1. at[r].email \in Emails
    BY <1>5 DEF InsertLearner, Shape
  <2>2. [tx[r] EXCEPT !.made = tx[r].made \cup {at[r].email}] \in Writes
    <3>1. tx[r] \in Writes /\ tx[r].made \cup {at[r].email} \in SUBSET Emails
      BY <2>1, Typed
    <3> QED
      BY <3>1, WriteUpdates
  <2>3. tx' = [tx EXCEPT ![r] = [tx[r] EXCEPT !.made = tx[r].made \cup {at[r].email}]]
    BY <1>5 DEF InsertLearner
  <2>4. tx' \in [Requests -> Writes] /\ phase' \in [Requests -> Phases]
    BY <1>5, <2>2, <2>3 DEF InsertLearner
  <2> QED
    BY <1>5, <2>4 DEF InsertLearner
<1>6. ASSUME NEW r \in Requests, Collide(r)
      PROVE  TypeOK'
  BY <1>6, Blank DEF Collide
<1>7. ASSUME NEW r \in Requests, NEW c \in Courses, Skip(r, c)
      PROVE  TypeOK'
  <2>1. [at[r] EXCEPT !.left = at[r].left \ {c}] \in Works
    BY Typed, RowUpdates
  <2> QED
    BY <1>7, <2>1 DEF Skip
<1>8. ASSUME NEW r \in Requests, NEW c \in Courses, Enroll(r, c)
      PROVE  TypeOK'
  <2>1. [by |-> r, email |-> at[r].email, course |-> c] \in Rows
    BY <1>8 DEF Enroll, Rows, Shape
  <2>2. [tx[r] EXCEPT !.put = tx[r].put \cup {[by |-> r, email |-> at[r].email, course |-> c]}] \in Writes
    <3>1. tx[r].put \cup {[by |-> r, email |-> at[r].email, course |-> c]} \in SUBSET Rows /\ tx[r] \in Writes
      BY <2>1, Typed
    <3> QED
      BY <3>1, WriteUpdates
  <2>3. [at[r] EXCEPT !.left = at[r].left \ {c}, !.course = c] \in Works
    BY Typed, RowUpdates
  <2> QED
    BY <1>8, <2>2, <2>3 DEF Enroll
<1>9. ASSUME NEW r \in Requests, Bump(r)
      PROVE  TypeOK'
  <2>1. at[r].course \in Courses
    BY <1>9 DEF Bump, Shape
  <2>2. at[r].seen[at[r].course] + 1 \in Nat
    BY <2>1, Typed
  <2>3. [tx[r] EXCEPT !.wrote[at[r].course] = at[r].seen[at[r].course] + 1] \in Writes
    BY <2>1, <2>2, WriteUpdates
  <2> QED
    BY <1>9, <2>3 DEF Bump
<1>10. ASSUME NEW r \in Requests, Release(r)
      PROVE  TypeOK'
  <2>1. at[r].email \in Emails /\ at[r].goal \subseteq Courses
    BY <1>10, Typed DEF Release, Shape
  <2>2. {at[r].email} \X at[r].goal \subseteq Emails \X Courses
    BY <2>1
  <2> QED
    BY <1>10, <2>2, Blank DEF Release
<1>11. ASSUME NEW r \in Requests, RowFail(r)
      PROVE  TypeOK'
  BY <1>11, Blank DEF RowFail, UndoRow
<1>12. ASSUME NEW r \in Requests, Commit(r)
      PROVE  TypeOK'
  <2>1. \A c2 \in Courses : CountSeen(r, c2) \in Nat
    BY Typed DEF CountSeen, Untouched
  <2>2. rows \cup tx[r].put \subseteq Rows
    BY Typed
  <2> QED
    BY <1>12, <2>1, <2>2, Blank DEF Commit
<1>13. ASSUME NEW r \in Requests, Lose(r)
      PROVE  TypeOK'
  BY <1>13, Blank DEF Lose
<1>14. CASE UNCHANGED vars
  BY <1>14 DEF vars
<1> HIDE DEF IInv, TypeOK, tables, locals, history, Kinds, InRow, Phases
<1> QED
  BY <1>1, <1>2, <1>3, <1>4, <1>5, <1>6, <1>7, <1>8, <1>9, <1>10, <1>11, <1>12, <1>13, <1>14 DEF Next, Step

\* What a transaction holds is preserved.
LEMMA ShapeStep == IInv /\ [Next]_vars => Shape'
<1> SUFFICES ASSUME IInv, [Next]_vars PROVE Shape'
  OBVIOUS
<1> USE NamesAssumption DEF IInv, TypeOK, Shape, tables, locals, history, Works, NoRow, Writes, Nothing, Untouched, Kinds, InRow, Phases
<1>1. ASSUME NEW r \in Requests, NEW k \in Kinds, Begin(r, k)
      PROVE  Shape'
  BY <1>1 DEF Begin
<1>2. ASSUME NEW r \in Requests, NEW e \in Emails, NEW cs \in SUBSET Courses, Load(r, e, cs)
      PROVE  Shape'
  <2> HIDE DEF IInv, TypeOK, Shape, tables, locals, history, Works, NoRow, Writes, Nothing, Untouched, Kinds, InRow, Phases
  <2>1. TypeOK /\ Shape /\ AccountsAreApart /\ EnrolsTheKnown /\ CountsAreBounded /\ EnrolmentsAreCounted
    BY DEF IInv
  <2>2. \A q \in Requests : at'[q].email \in Emails \/ phase'[q] \notin InRow
    BY <1>2, <2>1, LoadDoes DEF Shape
  <2> QED
    BY <1>2, <2>1, <2>2, LoadDoes DEF Shape, InRow
<1>3. ASSUME NEW r \in Requests, FindLearner(r)
      PROVE  Shape'
  BY <1>3 DEF FindLearner
<1>4. ASSUME NEW r \in Requests, CheckIdentity(r)
      PROVE  Shape'
  BY <1>4 DEF CheckIdentity
<1>5. ASSUME NEW r \in Requests, InsertLearner(r)
      PROVE  Shape'
  BY <1>5 DEF InsertLearner
<1>6. ASSUME NEW r \in Requests, Collide(r)
      PROVE  Shape'
  <2> HIDE DEF IInv, TypeOK, Shape, tables, locals, history, Works, NoRow, Writes, Nothing, Untouched, Kinds, InRow, Phases
  <2>1. TypeOK /\ Shape /\ AccountsAreApart /\ EnrolsTheKnown /\ CountsAreBounded /\ EnrolmentsAreCounted
    BY DEF IInv
  <2>2. /\ \A q \in Requests : phase'[q] = phase[q] \/ (q = r /\ phase'[r] \in {"row", "lost"})
        /\ \A q \in Requests : q # r => at'[q] = at[q] /\ tx'[q] = tx[q] /\ save'[q] = save[q] /\ phase'[q] = phase[q]
        /\ phase'[r] \in {"row", "lost"} /\ tx'[r] = Nothing /\ save'[r] = Nothing
    BY <1>6, <2>1 DEF Collide, TypeOK
  <2> QED
    BY <2>1, <2>2, Blank DEF Shape, InRow
<1>7. ASSUME NEW r \in Requests, NEW c \in Courses, Skip(r, c)
      PROVE  Shape'
  BY <1>7 DEF Skip
<1>8. ASSUME NEW r \in Requests, NEW c \in Courses, Enroll(r, c)
      PROVE  Shape'
  BY <1>8 DEF Enroll
<1>9. ASSUME NEW r \in Requests, Bump(r)
      PROVE  Shape'
  BY <1>9 DEF Bump
<1>10. ASSUME NEW r \in Requests, Release(r)
      PROVE  Shape'
  BY <1>10 DEF Release
<1>11. ASSUME NEW r \in Requests, RowFail(r)
      PROVE  Shape'
  BY <1>11 DEF RowFail, UndoRow
<1>12. ASSUME NEW r \in Requests, Commit(r)
      PROVE  Shape'
  BY <1>12 DEF Commit
<1>13. ASSUME NEW r \in Requests, Lose(r)
      PROVE  Shape'
  BY <1>13 DEF Lose
<1>14. CASE UNCHANGED vars
  BY <1>14 DEF vars
<1> HIDE DEF IInv, TypeOK, Shape, tables, locals, history, Works, NoRow, Writes, Nothing, Untouched, Kinds, InRow, Phases
<1> QED
  BY <1>1, <1>2, <1>3, <1>4, <1>5, <1>6, <1>7, <1>8, <1>9, <1>10, <1>11, <1>12, <1>13, <1>14 DEF Next, Step

\* Accounts are preserved.
LEMMA AccountsStep == IInv /\ [Next]_vars => AccountsAreApart'
<1> SUFFICES ASSUME IInv, [Next]_vars PROVE AccountsAreApart'
  OBVIOUS
<1> USE NamesAssumption DEF IInv, TypeOK, Shape, AccountsAreApart, tables, locals, history, Works, NoRow, Writes, Nothing, Untouched, Kinds, InRow, Phases
<1>1. ASSUME NEW r \in Requests, NEW k \in Kinds, Begin(r, k)
      PROVE  AccountsAreApart'
  BY <1>1 DEF Begin
<1>2. ASSUME NEW r \in Requests, NEW e \in Emails, NEW cs \in SUBSET Courses, Load(r, e, cs)
      PROVE  AccountsAreApart'
  BY <1>2 DEF Load
<1>3. ASSUME NEW r \in Requests, FindLearner(r)
      PROVE  AccountsAreApart'
  BY <1>3 DEF FindLearner
<1>4. ASSUME NEW r \in Requests, CheckIdentity(r)
      PROVE  AccountsAreApart'
  BY <1>4 DEF CheckIdentity
<1>5. ASSUME NEW r \in Requests, InsertLearner(r)
      PROVE  AccountsAreApart'
  <2> HIDE DEF IInv, TypeOK, Shape, AccountsAreApart, tables, locals, history, Works, NoRow, Writes, Nothing, Untouched, Kinds, InRow, Phases
  <2>1. TypeOK /\ Shape /\ AccountsAreApart /\ EnrolsTheKnown /\ CountsAreBounded /\ EnrolmentsAreCounted
    BY DEF IInv
  <2>2. at[r].email \in Rivals(r)
    BY <1>5, <2>1 DEF InsertLearner, Rivals, Shape, InRow
  <2>3. maker[at[r].email] = "none" /\ \A q \in Requests \ {r} : at[r].email \notin tx[q].made
    BY <1>5, <2>2 DEF InsertLearner, Clashes, Waits
  <2>4. /\ maker' = maker /\ rows' = rows
        /\ \A q \in Requests : phase[q] = "ended" => phase'[q] = "ended"
        /\ \A q \in Requests : tx'[q].made = IF q = r THEN tx[r].made \cup {at[r].email} ELSE tx[q].made
    BY <1>5, <2>1, InsertLearnerDoes
  <2>5. \A q, s \in Requests : q # s => tx'[q].made \cap tx'[s].made = {}
    BY <2>1, <2>3, <2>4 DEF AccountsAreApart
  <2>6. \A q \in Requests : \A e \in tx'[q].made : maker'[e] = "none"
    BY <2>1, <2>3, <2>4 DEF AccountsAreApart
  <2> QED
    BY <2>1, <2>4, <2>5, <2>6, NamesAssumption DEF AccountsAreApart, TypeOK, Rows
<1>6. ASSUME NEW r \in Requests, Collide(r)
      PROVE  AccountsAreApart'
  BY <1>6 DEF Collide
<1>7. ASSUME NEW r \in Requests, NEW c \in Courses, Skip(r, c)
      PROVE  AccountsAreApart'
  BY <1>7 DEF Skip
<1>8. ASSUME NEW r \in Requests, NEW c \in Courses, Enroll(r, c)
      PROVE  AccountsAreApart'
  BY <1>8 DEF Enroll
<1>9. ASSUME NEW r \in Requests, Bump(r)
      PROVE  AccountsAreApart'
  BY <1>9 DEF Bump
<1>10. ASSUME NEW r \in Requests, Release(r)
      PROVE  AccountsAreApart'
  BY <1>10 DEF Release
<1>11. ASSUME NEW r \in Requests, RowFail(r)
      PROVE  AccountsAreApart'
  BY <1>11 DEF RowFail, UndoRow
<1>12. ASSUME NEW r \in Requests, Commit(r)
      PROVE  AccountsAreApart'
  <2> HIDE DEF IInv, TypeOK, Shape, AccountsAreApart, tables, locals, history, Works, NoRow, Writes, Nothing, Untouched, Kinds, InRow, Phases
  <2>1. TypeOK /\ Shape /\ AccountsAreApart /\ EnrolsTheKnown /\ CountsAreBounded /\ EnrolmentsAreCounted
    BY DEF IInv
  <2>2. /\ \A e \in Emails : maker'[e] = IF e \in tx[r].made THEN r ELSE maker[e]
        /\ rows' = rows \cup tx[r].put /\ phase'[r] = "ended"
        /\ \A q \in Requests : q # r => phase'[q] = phase[q] /\ tx'[q] = tx[q]
        /\ tx'[r].made = {} /\ phase[r] = "row"
    BY <1>12, <2>1, CommitDoes, Blank
  <2>3. \A q \in Requests : tx[q].made \subseteq Emails /\ tx[q].put \subseteq Rows
    BY <2>1, Typed
  <2>4. \A q \in Requests : \A e \in tx'[q].made : maker'[e] = "none"
    <3> SUFFICES ASSUME NEW q \in Requests, NEW e \in tx'[q].made PROVE maker'[e] = "none"
      OBVIOUS
    <3>1. q # r /\ e \in tx[q].made
      BY <2>2
    <3>2. e \in Emails /\ e \notin tx[r].made /\ maker[e] = "none"
      BY <2>1, <2>3, <3>1 DEF AccountsAreApart
    <3> QED
      BY <2>2, <3>2
  <2>5. \A q, s \in Requests : q # s => tx'[q].made \cap tx'[s].made = {}
    BY <2>1, <2>2 DEF AccountsAreApart
  <2>6. \A e \in Emails : maker'[e] \in Requests => phase'[maker'[e]] = "ended"
    <3> SUFFICES ASSUME NEW e \in Emails, maker'[e] \in Requests PROVE phase'[maker'[e]] = "ended"
      OBVIOUS
    <3>1. CASE e \in tx[r].made
      BY <2>2, <3>1
    <3>2. CASE e \notin tx[r].made
      BY <2>1, <2>2, <3>2 DEF AccountsAreApart
    <3> QED
      BY <3>1, <3>2
  <2>7. \A x \in rows' : maker'[x.email] # "none" /\ (x.by \in Requests => phase'[x.by] = "ended")
    <3>1. ASSUME NEW x \in tx[r].put PROVE x.by = r /\ x.email \in Emails /\ (maker[x.email] # "none" \/ x.email \in tx[r].made)
      BY <2>1, <2>3 DEF EnrolsTheKnown, Rows, Shape
    <3>2. ASSUME NEW x \in rows PROVE x.email \in Emails /\ maker[x.email] # "none" /\ (x.by \in Requests => phase[x.by] = "ended")
      BY <2>1 DEF AccountsAreApart, Rows, TypeOK
    <3>3. r # "none"
      BY NamesAssumption
    <3> QED
      BY <2>2, <3>1, <3>2, <3>3
  <2> QED
    BY <2>4, <2>5, <2>6, <2>7 DEF AccountsAreApart
<1>13. ASSUME NEW r \in Requests, Lose(r)
      PROVE  AccountsAreApart'
  BY <1>13 DEF Lose
<1>14. CASE UNCHANGED vars
  BY <1>14 DEF vars
<1> HIDE DEF IInv, TypeOK, Shape, AccountsAreApart, tables, locals, history, Works, NoRow, Writes, Nothing, Untouched, Kinds, InRow, Phases
<1> QED
  BY <1>1, <1>2, <1>3, <1>4, <1>5, <1>6, <1>7, <1>8, <1>9, <1>10, <1>11, <1>12, <1>13, <1>14 DEF Next, Step

\* Enrolments stay those of known accounts.
LEMMA EnrolsStep == IInv /\ [Next]_vars => EnrolsTheKnown'
<1> SUFFICES ASSUME IInv, [Next]_vars PROVE EnrolsTheKnown'
  OBVIOUS
<1> USE NamesAssumption DEF IInv, TypeOK, Shape, AccountsAreApart, EnrolsTheKnown, Exists, tables, locals, history, Works, NoRow, Writes, Nothing, Untouched, Kinds, InRow, Phases
<1>1. ASSUME NEW r \in Requests, NEW k \in Kinds, Begin(r, k)
      PROVE  EnrolsTheKnown'
  BY <1>1 DEF Begin
<1>2. ASSUME NEW r \in Requests, NEW e \in Emails, NEW cs \in SUBSET Courses, Load(r, e, cs)
      PROVE  EnrolsTheKnown'
  BY <1>2 DEF Load
<1>3. ASSUME NEW r \in Requests, FindLearner(r)
      PROVE  EnrolsTheKnown'
  BY <1>3 DEF FindLearner
<1>4. ASSUME NEW r \in Requests, CheckIdentity(r)
      PROVE  EnrolsTheKnown'
  BY <1>4 DEF CheckIdentity
<1>5. ASSUME NEW r \in Requests, InsertLearner(r)
      PROVE  EnrolsTheKnown'
  BY <1>5 DEF InsertLearner
<1>6. ASSUME NEW r \in Requests, Collide(r)
      PROVE  EnrolsTheKnown'
  BY <1>6 DEF Collide
<1>7. ASSUME NEW r \in Requests, NEW c \in Courses, Skip(r, c)
      PROVE  EnrolsTheKnown'
  BY <1>7 DEF Skip
<1>8. ASSUME NEW r \in Requests, NEW c \in Courses, Enroll(r, c)
      PROVE  EnrolsTheKnown'
  <2> HIDE DEF IInv, TypeOK, Shape, AccountsAreApart, EnrolsTheKnown, Exists, tables, locals, history, Works, NoRow, Writes, Nothing, Untouched, Kinds, InRow, Phases
  <2>1. TypeOK /\ Shape /\ AccountsAreApart /\ EnrolsTheKnown /\ CountsAreBounded /\ EnrolmentsAreCounted
    BY DEF IInv
  <2>2. Exists(r, at[r].email)
    BY <1>8, <2>1, EnrollDoes DEF EnrolsTheKnown
  <2>3. \A q \in Requests : \A x \in tx'[q].put : maker'[x.email] # "none" \/ x.email \in tx'[q].made
    BY <1>8, <2>1, <2>2, EnrollDoes DEF EnrolsTheKnown, Exists
  <2>4. \A q \in Requests : \A x \in save'[q].put : maker'[x.email] # "none" \/ x.email \in save'[q].made
    BY <1>8, <2>1, EnrollDoes DEF EnrolsTheKnown
  <2>5. \A q \in Requests : phase'[q] \in {"placed", "inserted"} => (maker'[at'[q].email] # "none" \/ at'[q].email \in tx'[q].made)
    BY <1>8, <2>1, EnrollDoes DEF EnrolsTheKnown, Exists
  <2> QED
    BY <2>3, <2>4, <2>5 DEF EnrolsTheKnown, Exists
<1>9. ASSUME NEW r \in Requests, Bump(r)
      PROVE  EnrolsTheKnown'
  BY <1>9 DEF Bump
<1>10. ASSUME NEW r \in Requests, Release(r)
      PROVE  EnrolsTheKnown'
  BY <1>10 DEF Release
<1>11. ASSUME NEW r \in Requests, RowFail(r)
      PROVE  EnrolsTheKnown'
  BY <1>11 DEF RowFail, UndoRow
<1>12. ASSUME NEW r \in Requests, Commit(r)
      PROVE  EnrolsTheKnown'
  <2> HIDE DEF IInv, TypeOK, Shape, AccountsAreApart, EnrolsTheKnown, Exists, tables, locals, history, Works, NoRow, Writes, Nothing, Untouched, Kinds, InRow, Phases
  <2>1. TypeOK /\ Shape /\ AccountsAreApart /\ EnrolsTheKnown /\ CountsAreBounded /\ EnrolmentsAreCounted
    BY DEF IInv
  <2>2. save[r] = Nothing /\ r # "none"
    BY <1>12, <2>1, CommitDoes, NamesAssumption DEF Shape, InRow
  <2>3. \A e \in Emails : (maker[e] # "none" \/ e \in tx[r].made) => maker'[e] # "none"
    BY <1>12, <2>1, <2>2, CommitDoes
  <2>4. \A q \in Requests : tx[q].put \subseteq Rows /\ save[q].put \subseteq Rows
    BY <2>1, Typed
  <2>5. \A q \in Requests : \A x \in tx'[q].put : maker'[x.email] # "none" \/ x.email \in tx'[q].made
    <3> SUFFICES ASSUME NEW q \in Requests, NEW x \in tx'[q].put
                 PROVE  maker'[x.email] # "none" \/ x.email \in tx'[q].made
      OBVIOUS
    <3>1. q # r /\ x \in tx[q].put /\ tx'[q].made = tx[q].made
      BY <1>12, <2>1, CommitDoes, Blank
    <3> QED
      BY <2>1, <2>3, <2>4, <3>1 DEF EnrolsTheKnown, Rows
  <2>6. \A q \in Requests : \A x \in save'[q].put : maker'[x.email] # "none" \/ x.email \in save'[q].made
    <3>1. save' = save
      BY <1>12, <2>1, CommitDoes
    <3> QED
      BY <2>1, <2>3, <2>4, <3>1 DEF EnrolsTheKnown, Rows
  <2>7. \A q \in Requests : phase'[q] \in {"placed", "inserted"} => (maker'[at'[q].email] # "none" \/ at'[q].email \in tx'[q].made)
    <3> SUFFICES ASSUME NEW q \in Requests, phase'[q] \in {"placed", "inserted"}
                 PROVE  maker'[at'[q].email] # "none" \/ at'[q].email \in tx'[q].made
      OBVIOUS
    <3>1. q # r /\ phase[q] \in {"placed", "inserted"} /\ tx'[q] = tx[q] /\ at' = at
      BY <1>12, <2>1, CommitDoes
    <3>2. at[q].email \in Emails
      BY <2>1, <3>1 DEF Shape, InRow
    <3> QED
      BY <2>1, <2>3, <3>1, <3>2 DEF EnrolsTheKnown, Exists
  <2> QED
    BY <2>5, <2>6, <2>7 DEF EnrolsTheKnown, Exists
<1>13. ASSUME NEW r \in Requests, Lose(r)
      PROVE  EnrolsTheKnown'
  BY <1>13 DEF Lose
<1>14. CASE UNCHANGED vars
  BY <1>14 DEF vars
<1> HIDE DEF IInv, TypeOK, Shape, AccountsAreApart, EnrolsTheKnown, Exists, tables, locals, history, Works, NoRow, Writes, Nothing, Untouched, Kinds, InRow, Phases
<1> QED
  BY <1>1, <1>2, <1>3, <1>4, <1>5, <1>6, <1>7, <1>8, <1>9, <1>10, <1>11, <1>12, <1>13, <1>14 DEF Next, Step

\* The first enrolment stays single.
LEMMA SingleStep == IInv /\ [Next]_vars => (FirstIsLast /\ FirstEnrolmentIsSingle)'
<1> SUFFICES ASSUME IInv, [Next]_vars PROVE (FirstIsLast /\ FirstEnrolmentIsSingle)'
  OBVIOUS
<1> USE NamesAssumption DEF IInv, TypeOK, Shape, AccountsAreApart, FirstIsLast, FirstEnrolmentIsSingle, tables, locals, history, Works, NoRow, Writes, Nothing, Untouched, Kinds, InRow, Phases
<1>1. ASSUME NEW r \in Requests, NEW k \in Kinds, Begin(r, k)
      PROVE  (FirstIsLast /\ FirstEnrolmentIsSingle)'
  BY <1>1 DEF Begin
<1>2. ASSUME NEW r \in Requests, NEW e \in Emails, NEW cs \in SUBSET Courses, Load(r, e, cs)
      PROVE  (FirstIsLast /\ FirstEnrolmentIsSingle)'
  BY <1>2 DEF Load
<1>3. ASSUME NEW r \in Requests, FindLearner(r)
      PROVE  (FirstIsLast /\ FirstEnrolmentIsSingle)'
  BY <1>3 DEF FindLearner
<1>4. ASSUME NEW r \in Requests, CheckIdentity(r)
      PROVE  (FirstIsLast /\ FirstEnrolmentIsSingle)'
  BY <1>4 DEF CheckIdentity
<1>5. ASSUME NEW r \in Requests, InsertLearner(r)
      PROVE  (FirstIsLast /\ FirstEnrolmentIsSingle)'
  BY <1>5 DEF InsertLearner
<1>6. ASSUME NEW r \in Requests, Collide(r)
      PROVE  (FirstIsLast /\ FirstEnrolmentIsSingle)'
  BY <1>6 DEF Collide
<1>7. ASSUME NEW r \in Requests, NEW c \in Courses, Skip(r, c)
      PROVE  (FirstIsLast /\ FirstEnrolmentIsSingle)'
  BY <1>7 DEF Skip
<1>8. ASSUME NEW r \in Requests, NEW c \in Courses, Enroll(r, c)
      PROVE  (FirstIsLast /\ FirstEnrolmentIsSingle)'
  <2> HIDE DEF IInv, TypeOK, Shape, AccountsAreApart, FirstIsLast, FirstEnrolmentIsSingle, tables, locals, history, Works, NoRow, Writes, Nothing, Untouched, Kinds, InRow, Phases
  <2>1. TypeOK /\ Shape /\ AccountsAreApart /\ EnrolsTheKnown /\ CountsAreBounded /\ EnrolmentsAreCounted
    BY DEF IInv
  <2>2. FirstIsLast /\ FirstEnrolmentIsSingle
    BY DEF IInv
  <2>3. \A x \in rows : ~(x.email = at[r].email /\ x.course = c)
    BY <1>8, <2>1, EnrollDoes
  <2>4. FirstIsLast'
    BY <1>8, <2>1, <2>2, <2>3, EnrollDoes DEF FirstIsLast
  <2>5. FirstEnrolmentIsSingle'
    BY <1>8, <2>1, <2>2, EnrollDoes DEF FirstEnrolmentIsSingle
  <2> QED
    BY <2>4, <2>5
<1>9. ASSUME NEW r \in Requests, Bump(r)
      PROVE  (FirstIsLast /\ FirstEnrolmentIsSingle)'
  BY <1>9 DEF Bump
<1>10. ASSUME NEW r \in Requests, Release(r)
      PROVE  (FirstIsLast /\ FirstEnrolmentIsSingle)'
  BY <1>10 DEF Release
<1>11. ASSUME NEW r \in Requests, RowFail(r)
      PROVE  (FirstIsLast /\ FirstEnrolmentIsSingle)'
  BY <1>11 DEF RowFail, UndoRow
<1>12. ASSUME NEW r \in Requests, Commit(r)
      PROVE  (FirstIsLast /\ FirstEnrolmentIsSingle)'
  <2> HIDE DEF IInv, TypeOK, Shape, AccountsAreApart, FirstIsLast, FirstEnrolmentIsSingle, tables, locals, history, Works, NoRow, Writes, Nothing, Untouched, Kinds, InRow, Phases
  <2>1. TypeOK /\ Shape /\ AccountsAreApart /\ EnrolsTheKnown /\ CountsAreBounded /\ EnrolmentsAreCounted
    BY DEF IInv
  <2>2. FirstIsLast /\ FirstEnrolmentIsSingle
    BY DEF IInv
  <2>3. /\ \A e \in Emails : maker'[e] = IF e \in tx[r].made THEN r ELSE maker[e]
        /\ rows' = rows \cup tx[r].put /\ phase[r] = "row" /\ rows' \subseteq Rows
        /\ \A q \in Requests : tx'[q].put = IF q = r THEN {} ELSE tx[q].put
    BY <1>12, <2>1, CommitDoes, Blank
  <2>4. \A x \in tx[r].put : x.by = r /\ (maker[x.email] # "none" \/ x.email \in tx[r].made)
    BY <2>1 DEF EnrolsTheKnown, Shape
  <2>5. \A x \in rows : maker[x.email] # "none" /\ x.by # r
    BY <2>1, <2>3 DEF AccountsAreApart
  <2>6. \A e \in tx[r].made : maker[e] = "none"
    BY <2>1 DEF AccountsAreApart
  <2>7. \A x \in rows' : x.email \in Emails
    BY <2>3 DEF Rows
  <2>8. ASSUME NEW x \in tx[r].put, x.by = maker'[x.email]
        PROVE  x.email \in tx[r].made
    <3>1. x \in rows' /\ x.by = r
      BY <2>3, <2>4
    <3>2. CASE x.email \notin tx[r].made
      <4>1. maker[x.email] = r
        BY <2>3, <2>7, <2>8, <3>1, <3>2
      <4> QED
        BY <2>1, <2>3, <2>7, <3>1, <4>1 DEF AccountsAreApart
    <3> QED
      BY <3>2
  <2>9. ASSUME NEW x \in rows
        PROVE  x.email \notin tx[r].made /\ maker'[x.email] = maker[x.email]
    BY <2>3, <2>5, <2>6, <2>7
  <2>10. FirstEnrolmentIsSingle'
    <3> SUFFICES ASSUME NEW x \in rows', NEW y \in rows', x.email = y.email, x.course = y.course,
                        x.by = maker'[x.email], x.by # "before"
                 PROVE  x = y
      BY DEF FirstEnrolmentIsSingle
    <3>1. CASE x \in rows
      <4>1. x.by = maker[x.email]
        BY <2>9, <3>1
      <4>2. y \notin tx[r].put
        BY <2>2, <3>1, <4>1 DEF FirstIsLast
      <4>3. y \in rows
        BY <2>3, <4>2
      <4> QED
        BY <2>2, <3>1, <4>1, <4>3 DEF FirstEnrolmentIsSingle
    <3>2. CASE x \in tx[r].put
      <4>1. y \notin rows
        BY <2>8, <2>9, <3>2
      <4>2. y.by = r /\ x.by = r
        BY <2>3, <2>4, <3>2, <4>1
      <4> QED
        BY <2>3, <4>2 DEF Rows
    <3> QED
      BY <2>3, <3>1, <3>2
  <2>11. FirstIsLast'
    <3> SUFFICES ASSUME NEW x \in rows', x.by = maker'[x.email], x.by # "before",
                        NEW q \in Requests, NEW y \in tx'[q].put, y.email = x.email, y.course = x.course
                 PROVE  FALSE
      BY DEF FirstIsLast
    <3>1. q # r /\ y \in tx[q].put
      BY <2>3
    <3>2. maker[y.email] # "none" \/ y.email \in tx[q].made
      BY <2>1, <3>1 DEF EnrolsTheKnown
    <3>3. CASE x \in rows
      BY <2>2, <2>9, <3>1, <3>3 DEF FirstIsLast
    <3>4. CASE x \in tx[r].put
      <4>1. x.email \in tx[r].made
        BY <2>8, <3>4
      <4> QED
        BY <2>1, <2>6, <3>1, <3>2, <4>1 DEF AccountsAreApart
    <3> QED
      BY <2>3, <3>3, <3>4
  <2> QED
    BY <2>10, <2>11
<1>13. ASSUME NEW r \in Requests, Lose(r)
      PROVE  (FirstIsLast /\ FirstEnrolmentIsSingle)'
  BY <1>13 DEF Lose
<1>14. CASE UNCHANGED vars
  BY <1>14 DEF vars
<1> HIDE DEF IInv, TypeOK, Shape, AccountsAreApart, FirstIsLast, FirstEnrolmentIsSingle, tables, locals, history, Works, NoRow, Writes, Nothing, Untouched, Kinds, InRow, Phases
<1> QED
  BY <1>1, <1>2, <1>3, <1>4, <1>5, <1>6, <1>7, <1>8, <1>9, <1>10, <1>11, <1>12, <1>13, <1>14 DEF Next, Step

\* Counts stay bounded.
LEMMA BoundStep == IInv /\ [Next]_vars => CountsAreBounded'
<1> SUFFICES ASSUME IInv, [Next]_vars PROVE CountsAreBounded'
  OBVIOUS
<1> USE NamesAssumption DEF IInv, TypeOK, Shape, CountsAreBounded, EnrolmentsAreCounted, tables, locals, history, Works, NoRow, Writes, Nothing, Untouched, Kinds, InRow, Phases
<1>1. ASSUME NEW r \in Requests, NEW k \in Kinds, Begin(r, k)
      PROVE  CountsAreBounded'
  BY <1>1, NNone DEF Begin
<1>2. ASSUME NEW r \in Requests, NEW e \in Emails, NEW cs \in SUBSET Courses, Load(r, e, cs)
      PROVE  CountsAreBounded'
  <2> HIDE DEF IInv, TypeOK, Shape, CountsAreBounded, EnrolmentsAreCounted, tables, locals, history, Works, NoRow, Writes, Nothing, Untouched, Kinds, InRow, Phases
  <2>1. TypeOK /\ Shape /\ AccountsAreApart /\ EnrolsTheKnown /\ CountsAreBounded /\ EnrolmentsAreCounted
    BY DEF IInv
  <2>2. \A q \in Requests, c2 \in Courses :
          /\ N(c2, rows) \in Nat /\ N(c2, tx[q].put) \in Nat /\ N(c2, save[q].put) \in Nat
          /\ tx[q].wrote[c2] \in Nat \cup {-1} /\ save[q].wrote[c2] \in Nat \cup {-1} /\ at[q].seen[c2] \in Nat
    BY <2>1, Typed, NType DEF TypeOK
  <2>3. \A c2 \in Courses : CountSeen(r, c2) <= N(c2, rows) + N(c2, tx[r].put)
    <3> TAKE c2 \in Courses
    <3>1. count[c2] <= N(c2, rows) /\ count[c2] \in Nat
      BY <2>1 DEF IInv, CountIsExplained, N, TypeOK
    <3> QED
      BY <2>1, <2>2, <3>1 DEF CountSeen, CountsAreBounded
  <2> QED
    BY <1>2, <2>1, <2>3, LoadDoes DEF CountsAreBounded, InRow
<1>3. ASSUME NEW r \in Requests, FindLearner(r)
      PROVE  CountsAreBounded'
  BY <1>3, NNone DEF FindLearner
<1>4. ASSUME NEW r \in Requests, CheckIdentity(r)
      PROVE  CountsAreBounded'
  BY <1>4, NNone DEF CheckIdentity
<1>5. ASSUME NEW r \in Requests, InsertLearner(r)
      PROVE  CountsAreBounded'
  BY <1>5, NNone DEF InsertLearner
<1>6. ASSUME NEW r \in Requests, Collide(r)
      PROVE  CountsAreBounded'
  BY <1>6, NNone DEF Collide
<1>7. ASSUME NEW r \in Requests, NEW c \in Courses, Skip(r, c)
      PROVE  CountsAreBounded'
  BY <1>7, NNone DEF Skip
<1>8. ASSUME NEW r \in Requests, NEW c \in Courses, Enroll(r, c)
      PROVE  CountsAreBounded'
  <2> HIDE DEF IInv, TypeOK, Shape, CountsAreBounded, EnrolmentsAreCounted, tables, locals, history, Works, NoRow, Writes, Nothing, Untouched, Kinds, InRow, Phases
  <2>1. TypeOK /\ Shape /\ AccountsAreApart /\ EnrolsTheKnown /\ CountsAreBounded /\ EnrolmentsAreCounted
    BY DEF IInv
  <2>2. \A q \in Requests, c2 \in Courses :
          /\ N(c2, rows) \in Nat /\ N(c2, tx[q].put) \in Nat /\ N(c2, save[q].put) \in Nat
          /\ tx[q].wrote[c2] \in Nat \cup {-1} /\ save[q].wrote[c2] \in Nat \cup {-1} /\ at[q].seen[c2] \in Nat
    BY <2>1, Typed, NType DEF TypeOK
  <2> DEFINE x == EnrolmentOf(r, c)
  <2>3. at[r].email \in Emails /\ x \notin tx[r].put
    BY <1>8, <2>1, EnrollDoes DEF Shape, InRow
  <2>4. x \in Rows /\ x.course = c
    BY <1>8, <2>1, <2>3, EnrollDoes DEF Rows, EnrolmentOf
  <2>5. \A c2 \in Courses : N(c2, tx[r].put \cup {x}) = IF c = c2 THEN N(c2, tx[r].put) + 1 ELSE N(c2, tx[r].put)
    <3> TAKE c2 \in Courses
    <3>1. tx[r].put \in SUBSET Rows
      BY <2>1, Typed
    <3> HIDE DEF x
    <3> QED
      BY <2>3, <2>4, <3>1, NOneMore
  <2>6. /\ rows' = rows /\ save' = save /\ phase[r] = "placed"
        /\ tx'[r].wrote = tx[r].wrote /\ tx'[r].put = tx[r].put \cup {x}
        /\ at'[r].seen = at[r].seen /\ at'[r].course = c /\ phase'[r] = "inserted"
        /\ \A q \in Requests \ {r} : tx'[q].wrote = tx[q].wrote /\ tx'[q].put = tx[q].put
                                     /\ at'[q] = at[q] /\ phase'[q] = phase[q]
    BY <1>8, <2>1, EnrollDoes
  <2> HIDE DEF x
  <2> SUFFICES ASSUME NEW q \in Requests, NEW c2 \in Courses
      PROVE  /\ tx'[q].wrote[c2] # Untouched => tx'[q].wrote[c2] <= N(c2, rows) + N(c2, tx'[q].put)
             /\ save[q].wrote[c2] # Untouched => save[q].wrote[c2] <= N(c2, rows) + N(c2, save[q].put)
             /\ phase'[q] \in InRow => at'[q].seen[c2] <= N(c2, rows) + N(c2, tx'[q].put)
             /\ phase'[q] = "inserted" /\ c2 = at'[q].course =>
                  at'[q].seen[c2] + 1 <= N(c2, rows) + N(c2, tx'[q].put)
    BY <2>6 DEF CountsAreBounded
  <2>7. CASE q # r
    BY <2>1, <2>6, <2>7 DEF CountsAreBounded
  <2>8. CASE q = r
    <3>1. /\ tx[r].wrote[c2] # Untouched => tx[r].wrote[c2] <= N(c2, rows) + N(c2, tx[r].put)
          /\ save[r].wrote[c2] # Untouched => save[r].wrote[c2] <= N(c2, rows) + N(c2, save[r].put)
          /\ at[r].seen[c2] <= N(c2, rows) + N(c2, tx[r].put)
      BY <2>1, <2>6 DEF CountsAreBounded, InRow
    <3>2. /\ N(c2, rows) \in Nat /\ N(c2, tx[r].put) \in Nat /\ at[r].seen[c2] \in Nat
          /\ tx[r].wrote[c2] \in Nat \cup {-1}
      BY <2>2
    <3>3. /\ N(c2, tx'[r].put) >= N(c2, tx[r].put) /\ N(c2, tx'[r].put) \in Nat
          /\ c2 = c => N(c2, tx'[r].put) = N(c2, tx[r].put) + 1
      <4>1. tx'[r].put = tx[r].put \cup {x}
        BY <2>6
      <4>2. N(c2, tx[r].put \cup {x}) = IF c = c2 THEN N(c2, tx[r].put) + 1 ELSE N(c2, tx[r].put)
        BY <2>5
      <4>3. N(c2, tx'[r].put) = IF c = c2 THEN N(c2, tx[r].put) + 1 ELSE N(c2, tx[r].put)
        BY <4>1, <4>2, Zenon
      <4> QED
        BY <3>2, <4>3
    <3>4. tx'[r].wrote = tx[r].wrote /\ at'[r].seen = at[r].seen /\ at'[r].course = c
      BY <2>6
    <3> QED
      BY <2>8, <3>1, <3>2, <3>3, <3>4 DEF Untouched
  <2> QED
    BY <2>7, <2>8
<1>9. ASSUME NEW r \in Requests, Bump(r)
      PROVE  CountsAreBounded'
  <2> HIDE DEF IInv, TypeOK, Shape, CountsAreBounded, EnrolmentsAreCounted, tables, locals, history, Works, NoRow, Writes, Nothing, Untouched, Kinds, InRow, Phases
  <2>1. TypeOK /\ Shape /\ AccountsAreApart /\ EnrolsTheKnown /\ CountsAreBounded /\ EnrolmentsAreCounted
    BY DEF IInv
  <2>2. at[r].course \in Courses
    BY <1>9, <2>1 DEF Bump, Shape
  <2> QED
    BY <1>9, <2>1, <2>2, BumpDoes DEF CountsAreBounded, InRow
<1>10. ASSUME NEW r \in Requests, Release(r)
      PROVE  CountsAreBounded'
  BY <1>10, NNone DEF Release
<1>11. ASSUME NEW r \in Requests, RowFail(r)
      PROVE  CountsAreBounded'
  BY <1>11, NNone DEF RowFail, UndoRow
<1>12. ASSUME NEW r \in Requests, Commit(r)
      PROVE  CountsAreBounded'
  <2> HIDE DEF IInv, TypeOK, Shape, CountsAreBounded, EnrolmentsAreCounted, tables, locals, history, Works, NoRow, Writes, Nothing, Untouched, Kinds, InRow, Phases
  <2>1. TypeOK /\ Shape /\ AccountsAreApart /\ EnrolsTheKnown /\ CountsAreBounded /\ EnrolmentsAreCounted
    BY DEF IInv
  <2>2. \A q \in Requests, c2 \in Courses :
          /\ N(c2, rows) \in Nat /\ N(c2, tx[q].put) \in Nat /\ N(c2, save[q].put) \in Nat
          /\ tx[q].wrote[c2] \in Nat \cup {-1} /\ save[q].wrote[c2] \in Nat \cup {-1} /\ at[q].seen[c2] \in Nat
    BY <2>1, Typed, NType DEF TypeOK
  <2>3. rows' = rows \cup tx[r].put /\ rows \in SUBSET Rows /\ rows' \in SUBSET Rows
    BY <1>12, <2>1, CommitDoes DEF TypeOK
  <2>4. \A c \in Courses : N(c, rows) <= N(c, rows') /\ N(c, rows') \in Nat
    BY <2>3, NGrows, NType
  <2>5. /\ save' = save /\ at' = at /\ \A q \in Requests : tx'[q] = IF q = r THEN Nothing ELSE tx[q]
        /\ \A q \in Requests : phase'[q] = IF q = r THEN "ended" ELSE phase[q]
    BY <1>12, <2>1, CommitDoes
  <2> SUFFICES ASSUME NEW q \in Requests, NEW c2 \in Courses
      PROVE  /\ tx'[q].wrote[c2] # Untouched => tx'[q].wrote[c2] <= N(c2, rows') + N(c2, tx'[q].put)
             /\ save[q].wrote[c2] # Untouched => save[q].wrote[c2] <= N(c2, rows') + N(c2, save[q].put)
             /\ phase'[q] \in InRow => at[q].seen[c2] <= N(c2, rows') + N(c2, tx'[q].put)
             /\ phase'[q] = "inserted" /\ c2 = at[q].course =>
                  at[q].seen[c2] + 1 <= N(c2, rows') + N(c2, tx'[q].put)
    BY <2>5 DEF CountsAreBounded
  <2>6. /\ tx[q].wrote[c2] # Untouched => tx[q].wrote[c2] <= N(c2, rows) + N(c2, tx[q].put)
        /\ save[q].wrote[c2] # Untouched => save[q].wrote[c2] <= N(c2, rows) + N(c2, save[q].put)
        /\ phase[q] \in InRow => at[q].seen[c2] <= N(c2, rows) + N(c2, tx[q].put)
        /\ phase[q] = "inserted" /\ c2 = at[q].course =>
             at[q].seen[c2] + 1 <= N(c2, rows) + N(c2, tx[q].put)
    BY <2>1 DEF CountsAreBounded
  <2>7. CASE q # r
    BY <2>2, <2>4, <2>5, <2>6, <2>7 DEF Untouched
  <2>8. CASE q = r
    <3>1. tx'[q].wrote[c2] = Untouched /\ phase'[q] = "ended"
      BY <2>5, <2>8, Blank DEF Untouched
    <3> QED
      BY <2>2, <2>4, <2>6, <3>1 DEF Untouched, InRow
  <2> QED
    BY <2>7, <2>8
<1>13. ASSUME NEW r \in Requests, Lose(r)
      PROVE  CountsAreBounded'
  BY <1>13, NNone DEF Lose
<1>14. CASE UNCHANGED vars
  BY <1>14 DEF vars
<1> HIDE DEF IInv, TypeOK, Shape, CountsAreBounded, EnrolmentsAreCounted, tables, locals, history, Works, NoRow, Writes, Nothing, Untouched, Kinds, InRow, Phases
<1> QED
  BY <1>1, <1>2, <1>3, <1>4, <1>5, <1>6, <1>7, <1>8, <1>9, <1>10, <1>11, <1>12, <1>13, <1>14 DEF Next, Step

\* What is enrolled stays counted.
LEMMA CountedStep == IInv /\ [Next]_vars => EnrolmentsAreCounted'
<1> SUFFICES ASSUME IInv, [Next]_vars PROVE EnrolmentsAreCounted'
  OBVIOUS
<1> USE NamesAssumption DEF IInv, TypeOK, Shape, EnrolmentsAreCounted, tables, locals, history, Works, NoRow, Writes, Nothing, Untouched, Kinds, InRow, Phases
<1>1. ASSUME NEW r \in Requests, NEW k \in Kinds, Begin(r, k)
      PROVE  EnrolmentsAreCounted'
  BY <1>1 DEF Begin, Of
<1>2. ASSUME NEW r \in Requests, NEW e \in Emails, NEW cs \in SUBSET Courses, Load(r, e, cs)
      PROVE  EnrolmentsAreCounted'
  <2> HIDE DEF IInv, TypeOK, Shape, EnrolmentsAreCounted, tables, locals, history, Works, NoRow, Writes, Nothing, Untouched, Kinds, InRow, Phases
  <2>1. TypeOK /\ Shape /\ AccountsAreApart /\ EnrolsTheKnown /\ CountsAreBounded /\ EnrolmentsAreCounted
    BY DEF IInv
  <2> SUFFICES ASSUME NEW q \in Requests, NEW d \in Courses
               PROVE  /\ tx'[q].wrote[d] = Untouched => Of(d, tx'[q].put) = {} \/ (phase'[q] = "inserted" /\ d = at'[q].course)
                      /\ save'[q].wrote[d] = Untouched => Of(d, save'[q].put) = {}
    BY DEF EnrolmentsAreCounted
  <2>2. /\ tx[q].wrote[d] = Untouched => Of(d, tx[q].put) = {} \/ (phase[q] = "inserted" /\ d = at[q].course)
        /\ save[q].wrote[d] = Untouched => Of(d, save[q].put) = {}
    BY <2>1 DEF EnrolmentsAreCounted
  <2>3. /\ tx[r].wrote[d] = Untouched => Of(d, tx[r].put) = {} \/ (phase[r] = "inserted" /\ d = at[r].course)
        /\ save[r].wrote[d] = Untouched => Of(d, save[r].put) = {}
    BY <2>1 DEF EnrolmentsAreCounted
  <2> QED
    BY <1>2, <2>1, <2>2, <2>3, LoadDoes
<1>3. ASSUME NEW r \in Requests, FindLearner(r)
      PROVE  EnrolmentsAreCounted'
  BY <1>3 DEF FindLearner, Of
<1>4. ASSUME NEW r \in Requests, CheckIdentity(r)
      PROVE  EnrolmentsAreCounted'
  BY <1>4 DEF CheckIdentity, Of
<1>5. ASSUME NEW r \in Requests, InsertLearner(r)
      PROVE  EnrolmentsAreCounted'
  BY <1>5 DEF InsertLearner, Of
<1>6. ASSUME NEW r \in Requests, Collide(r)
      PROVE  EnrolmentsAreCounted'
  BY <1>6 DEF Collide, Of
<1>7. ASSUME NEW r \in Requests, NEW c \in Courses, Skip(r, c)
      PROVE  EnrolmentsAreCounted'
  BY <1>7 DEF Skip, Of
<1>8. ASSUME NEW r \in Requests, NEW c \in Courses, Enroll(r, c)
      PROVE  EnrolmentsAreCounted'
  <2> HIDE DEF IInv, TypeOK, Shape, EnrolmentsAreCounted, tables, locals, history, Works, NoRow, Writes, Nothing, Untouched, Kinds, InRow, Phases
  <2>1. TypeOK /\ Shape /\ AccountsAreApart /\ EnrolsTheKnown /\ CountsAreBounded /\ EnrolmentsAreCounted
    BY DEF IInv
  <2> DEFINE x == EnrolmentOf(r, c)
  <2>2. \A c2 \in Courses : c2 # c => Of(c2, tx[r].put \cup {x}) = Of(c2, tx[r].put)
    BY <1>8, <2>1, EnrollDoes DEF Of
  <2>3. /\ save' = save
        /\ tx'[r].wrote = tx[r].wrote /\ tx'[r].put = tx[r].put \cup {x}
        /\ at'[r].course = c /\ phase[r] = "placed" /\ phase'[r] = "inserted"
        /\ \A q \in Requests \ {r} : tx'[q].wrote = tx[q].wrote /\ tx'[q].put = tx[q].put
                                     /\ at'[q] = at[q] /\ phase'[q] = phase[q]
    BY <1>8, <2>1, EnrollDoes
  <2> HIDE DEF x
  <2> SUFFICES ASSUME NEW q \in Requests, NEW d \in Courses
               PROVE  /\ tx'[q].wrote[d] = Untouched => Of(d, tx'[q].put) = {} \/ (phase'[q] = "inserted" /\ d = at'[q].course)
                      /\ save'[q].wrote[d] = Untouched => Of(d, save'[q].put) = {}
    BY DEF EnrolmentsAreCounted
  <2>6. /\ tx[q].wrote[d] = Untouched => Of(d, tx[q].put) = {} \/ (phase[q] = "inserted" /\ d = at[q].course)
        /\ save[q].wrote[d] = Untouched => Of(d, save[q].put) = {}
    BY <2>1 DEF EnrolmentsAreCounted
  <2>4. CASE q = r
    BY <2>2, <2>3, <2>4, <2>6
  <2>5. CASE q # r
    BY <2>3, <2>5, <2>6
  <2> QED
    BY <2>4, <2>5
<1>9. ASSUME NEW r \in Requests, Bump(r)
      PROVE  EnrolmentsAreCounted'
  <2> HIDE DEF IInv, TypeOK, Shape, EnrolmentsAreCounted, tables, locals, history, Works, NoRow, Writes, Nothing, Untouched, Kinds, InRow, Phases
  <2>1. TypeOK /\ Shape /\ AccountsAreApart /\ EnrolsTheKnown /\ CountsAreBounded /\ EnrolmentsAreCounted
    BY DEF IInv
  <2>2. at[r].course \in Courses
    BY <1>9, <2>1 DEF Bump, Shape
  <2>3. at[r].seen[at[r].course] + 1 # Untouched
    BY <2>1, <2>2, Typed DEF Untouched
  <2> QED
    <3> SUFFICES ASSUME NEW q \in Requests, NEW d \in Courses
                 PROVE  /\ tx'[q].wrote[d] = Untouched => Of(d, tx'[q].put) = {} \/ (phase'[q] = "inserted" /\ d = at'[q].course)
                        /\ save'[q].wrote[d] = Untouched => Of(d, save'[q].put) = {}
      BY DEF EnrolmentsAreCounted
    <3>1. EnrolmentsAreCounted
      BY <2>1
    <3>4. /\ save' = save /\ tx'[q].put = tx[q].put /\ at' = at
          /\ phase'[q] = IF q = r THEN "placed" ELSE phase[q]
          /\ tx'[q].wrote[d] = IF q = r /\ d = at[r].course THEN at[r].seen[d] + 1 ELSE tx[q].wrote[d]
      BY <1>9, <2>1, <2>2, BumpDoes
    <3>2. CASE q = r /\ d = at[r].course
      BY <2>3, <3>1, <3>2, <3>4 DEF EnrolmentsAreCounted
    <3>3. CASE ~(q = r /\ d = at[r].course)
      BY <3>1, <3>3, <3>4 DEF EnrolmentsAreCounted
    <3> QED
      BY <3>2, <3>3
<1>10. ASSUME NEW r \in Requests, Release(r)
      PROVE  EnrolmentsAreCounted'
  BY <1>10 DEF Release, Of
<1>11. ASSUME NEW r \in Requests, RowFail(r)
      PROVE  EnrolmentsAreCounted'
  BY <1>11 DEF RowFail, UndoRow, Of
<1>12. ASSUME NEW r \in Requests, Commit(r)
      PROVE  EnrolmentsAreCounted'
  <2> HIDE DEF IInv, TypeOK, Shape, EnrolmentsAreCounted, tables, locals, history, Works, NoRow, Writes, Nothing, Untouched, Kinds, InRow, Phases
  <2>1. TypeOK /\ Shape /\ AccountsAreApart /\ EnrolsTheKnown /\ CountsAreBounded /\ EnrolmentsAreCounted
    BY DEF IInv
  <2>2. \A c \in Courses : Of(c, Nothing.put) = {}
    BY Blank DEF Of
  <2> SUFFICES ASSUME NEW q \in Requests, NEW d \in Courses
               PROVE  /\ tx'[q].wrote[d] = Untouched => Of(d, tx'[q].put) = {} \/ (phase'[q] = "inserted" /\ d = at'[q].course)
                      /\ save'[q].wrote[d] = Untouched => Of(d, save'[q].put) = {}
    BY DEF EnrolmentsAreCounted
  <2>3. /\ tx[q].wrote[d] = Untouched => Of(d, tx[q].put) = {} \/ (phase[q] = "inserted" /\ d = at[q].course)
        /\ save[q].wrote[d] = Untouched => Of(d, save[q].put) = {}
    BY <2>1 DEF EnrolmentsAreCounted
  <2>4. CASE q = r
    BY <1>12, <2>1, <2>2, <2>3, <2>4, CommitDoes
  <2>5. CASE q # r
    BY <1>12, <2>1, <2>3, <2>5, CommitDoes
  <2> QED
    BY <2>4, <2>5
<1>13. ASSUME NEW r \in Requests, Lose(r)
      PROVE  EnrolmentsAreCounted'
  BY <1>13 DEF Lose, Of
<1>14. CASE UNCHANGED vars
  BY <1>14 DEF vars
<1> HIDE DEF IInv, TypeOK, Shape, EnrolmentsAreCounted, tables, locals, history, Works, NoRow, Writes, Nothing, Untouched, Kinds, InRow, Phases
<1> QED
  BY <1>1, <1>2, <1>3, <1>4, <1>5, <1>6, <1>7, <1>8, <1>9, <1>10, <1>11, <1>12, <1>13, <1>14 DEF Next, Step

\* The counts stay explained.
LEMMA CountStep == IInv /\ [Next]_vars => CountIsExplained'
<1> SUFFICES ASSUME IInv, [Next]_vars PROVE CountIsExplained'
  OBVIOUS
<1> USE NamesAssumption DEF IInv, TypeOK, Shape, CountIsExplained, tables, locals, history, Works, NoRow, Writes, Nothing, Untouched, Kinds, InRow, Phases
<1>1. ASSUME NEW r \in Requests, NEW k \in Kinds, Begin(r, k)
      PROVE  CountIsExplained'
  BY <1>1 DEF Begin
<1>2. ASSUME NEW r \in Requests, NEW e \in Emails, NEW cs \in SUBSET Courses, Load(r, e, cs)
      PROVE  CountIsExplained'
  BY <1>2 DEF Load
<1>3. ASSUME NEW r \in Requests, FindLearner(r)
      PROVE  CountIsExplained'
  BY <1>3 DEF FindLearner
<1>4. ASSUME NEW r \in Requests, CheckIdentity(r)
      PROVE  CountIsExplained'
  BY <1>4 DEF CheckIdentity
<1>5. ASSUME NEW r \in Requests, InsertLearner(r)
      PROVE  CountIsExplained'
  BY <1>5 DEF InsertLearner
<1>6. ASSUME NEW r \in Requests, Collide(r)
      PROVE  CountIsExplained'
  BY <1>6 DEF Collide
<1>7. ASSUME NEW r \in Requests, NEW c \in Courses, Skip(r, c)
      PROVE  CountIsExplained'
  BY <1>7 DEF Skip
<1>8. ASSUME NEW r \in Requests, NEW c \in Courses, Enroll(r, c)
      PROVE  CountIsExplained'
  BY <1>8 DEF Enroll
<1>9. ASSUME NEW r \in Requests, Bump(r)
      PROVE  CountIsExplained'
  BY <1>9 DEF Bump
<1>10. ASSUME NEW r \in Requests, Release(r)
      PROVE  CountIsExplained'
  BY <1>10 DEF Release
<1>11. ASSUME NEW r \in Requests, RowFail(r)
      PROVE  CountIsExplained'
  BY <1>11 DEF RowFail, UndoRow
<1>12. ASSUME NEW r \in Requests, Commit(r)
      PROVE  CountIsExplained'
  <2> HIDE DEF IInv, TypeOK, Shape, CountIsExplained, tables, locals, history, Works, NoRow, Writes, Nothing, Untouched, Kinds, InRow, Phases
  <2>1. TypeOK /\ Shape /\ AccountsAreApart /\ EnrolsTheKnown /\ CountsAreBounded /\ EnrolmentsAreCounted
    BY DEF IInv
  <2>2. \A q \in Requests, c2 \in Courses :
          /\ N(c2, rows) \in Nat /\ N(c2, tx[q].put) \in Nat /\ N(c2, save[q].put) \in Nat
          /\ tx[q].wrote[c2] \in Nat \cup {-1} /\ save[q].wrote[c2] \in Nat \cup {-1} /\ at[q].seen[c2] \in Nat
    BY <2>1, Typed, NType DEF TypeOK
  <2>3. rows \in SUBSET Rows /\ tx[r].put \in SUBSET Rows
    BY <2>1, Typed DEF TypeOK
  <2>4. rows \cap tx[r].put = {}
    BY <1>12, <2>1, CommitDoes DEF AccountsAreApart, Shape
  <2>5. /\ rows' = rows \cup tx[r].put /\ overwritten' = overwritten \cup {c \in Courses : Overwrites(r, c)}
        /\ \A c \in Courses : count'[c] = CountSeen(r, c)
        /\ phase[r] = "row"
    BY <1>12, <2>1, CommitDoes
  <2> SUFFICES ASSUME NEW c \in Courses
               PROVE  count'[c] <= N(c, rows') /\ (c \notin overwritten' => count'[c] = N(c, rows'))
    BY DEF CountIsExplained, N
  <2>6. N(c, rows') = N(c, rows) + N(c, tx[r].put)
    BY <2>3, <2>4, <2>5, NAdds
  <2>7. count[c] <= N(c, rows) /\ (c \notin overwritten => count[c] = N(c, rows)) /\ count[c] \in Nat
    BY <2>1 DEF IInv, CountIsExplained, N, TypeOK
  <2>8. CASE tx[r].wrote[c] = Untouched
    <3>1. Of(c, tx[r].put) = {}
      BY <2>1, <2>5, <2>8 DEF EnrolmentsAreCounted
    <3>2. N(c, tx[r].put) = 0
      BY <3>1, FS_EmptySet DEF N
    <3>3. count'[c] = count[c]
      BY <2>5, <2>8 DEF CountSeen
    <3> QED
      BY <2>2, <2>5, <2>6, <2>7, <3>2, <3>3
  <2>9. CASE tx[r].wrote[c] # Untouched
    <3>1. count'[c] = tx[r].wrote[c] /\ tx[r].wrote[c] \in Nat
      BY <2>2, <2>5, <2>9 DEF CountSeen, Untouched
    <3>2. tx[r].wrote[c] <= N(c, rows) + N(c, tx[r].put)
      BY <2>1, <2>9 DEF CountsAreBounded
    <3>3. c \notin overwritten' => tx[r].wrote[c] - N(c, tx[r].put) = count[c] /\ c \notin overwritten
      BY <2>5, <2>9 DEF Overwrites, N
    <3> QED
      BY <2>2, <2>6, <2>7, <3>1, <3>2, <3>3
  <2> QED
    BY <2>8, <2>9
<1>13. ASSUME NEW r \in Requests, Lose(r)
      PROVE  CountIsExplained'
  BY <1>13 DEF Lose
<1>14. CASE UNCHANGED vars
  BY <1>14 DEF vars
<1> HIDE DEF IInv, TypeOK, Shape, CountIsExplained, tables, locals, history, Works, NoRow, Writes, Nothing, Untouched, Kinds, InRow, Phases
<1> QED
  BY <1>1, <1>2, <1>3, <1>4, <1>5, <1>6, <1>7, <1>8, <1>9, <1>10, <1>11, <1>12, <1>13, <1>14 DEF Next, Step

\* What is told stays written.
LEMMA ToldStep == IInv /\ [Next]_vars => ToldIsWritten'
<1> SUFFICES ASSUME IInv, [Next]_vars PROVE ToldIsWritten'
  OBVIOUS
<1> USE NamesAssumption DEF IInv, TypeOK, Shape, ToldIsWritten, tables, locals, history, Works, NoRow, Writes, Nothing, Untouched, Kinds, InRow, Phases
<1>1. ASSUME NEW r \in Requests, NEW k \in Kinds, Begin(r, k)
      PROVE  ToldIsWritten'
  BY <1>1 DEF Begin, Enrolled
<1>2. ASSUME NEW r \in Requests, NEW e \in Emails, NEW cs \in SUBSET Courses, Load(r, e, cs)
      PROVE  ToldIsWritten'
  BY <1>2 DEF Load, Enrolled
<1>3. ASSUME NEW r \in Requests, FindLearner(r)
      PROVE  ToldIsWritten'
  BY <1>3 DEF FindLearner, Enrolled
<1>4. ASSUME NEW r \in Requests, CheckIdentity(r)
      PROVE  ToldIsWritten'
  BY <1>4 DEF CheckIdentity, Enrolled
<1>5. ASSUME NEW r \in Requests, InsertLearner(r)
      PROVE  ToldIsWritten'
  BY <1>5 DEF InsertLearner, Enrolled
<1>6. ASSUME NEW r \in Requests, Collide(r)
      PROVE  ToldIsWritten'
  BY <1>6 DEF Collide, Enrolled
<1>7. ASSUME NEW r \in Requests, NEW c \in Courses, Skip(r, c)
      PROVE  ToldIsWritten'
  BY <1>7 DEF Skip, Enrolled
<1>8. ASSUME NEW r \in Requests, NEW c \in Courses, Enroll(r, c)
      PROVE  ToldIsWritten'
  <2> HIDE DEF IInv, TypeOK, Shape, ToldIsWritten, tables, locals, history, Works, NoRow, Writes, Nothing, Untouched, Kinds, InRow, Phases
  <2>1. TypeOK /\ Shape /\ AccountsAreApart /\ EnrolsTheKnown /\ CountsAreBounded /\ EnrolmentsAreCounted
    BY DEF IInv
  <2>2. ToldIsWritten
    BY DEF IInv
  <2>3. \A q \in Requests : \A e \in Emails, d \in Courses :
          Enrolled(e, d, rows \cup tx[q].put) => Enrolled(e, d, rows' \cup tx'[q].put)
    <3>1. \A q \in Requests : rows \cup tx[q].put \subseteq rows' \cup tx'[q].put
      BY <1>8, <2>1, EnrollDoes
    <3> QED
      BY <3>1 DEF Enrolled
  <2>4. Enrolled(at[r].email, c, rows' \cup tx'[r].put)
    <3>1. EnrolmentOf(r, c) \in rows' \cup tx'[r].put
      BY <1>8, <2>1, EnrollDoes
    <3> QED
      BY <1>8, <2>1, <3>1, EnrollDoes DEF Enrolled
  <2>5. \A q \in Requests : phase[q] \in InRow => at[q].email \in Emails
    BY <2>1 DEF Shape
  <2>6. \A q \in Requests : told[q] \subseteq Emails \X Courses /\ at[q].goal \subseteq Courses
    BY <2>1, Typed DEF TypeOK
  <2> SUFFICES ASSUME NEW q \in Requests
               PROVE  /\ phase'[q] # "lost" /\ q \notin wiped' =>
                          \A p \in told'[q] :
                             IF phase'[q] \in InRow THEN Enrolled(p[1], p[2], rows' \cup save'[q].put)
                             ELSE Enrolled(p[1], p[2], rows' \cup tx'[q].put)
                      /\ phase'[q] \in {"loaded", "fresh", "checked"} => at'[q].left = at'[q].goal
                      /\ phase'[q] \in {"placed", "inserted"} =>
                          \A d \in at'[q].goal \ at'[q].left : Enrolled(at'[q].email, d, rows' \cup tx'[q].put)
    BY DEF ToldIsWritten
  <2>7. CASE q # r
    <3>1. /\ phase'[q] = phase[q] /\ wiped' = wiped /\ told' = told /\ save' = save /\ rows' = rows
          /\ tx'[q].put = tx[q].put /\ at'[q] = at[q]
      BY <1>8, <2>1, <2>7, EnrollDoes
    <3> QED
      BY <2>2, <3>1 DEF ToldIsWritten
  <2>8. CASE q = r
    <3>1. phase[r] \in InRow /\ phase'[r] \in InRow /\ phase'[r] = "inserted"
      BY <1>8, <2>1, EnrollDoes DEF InRow
    <3>2. \A d \in at'[r].goal \ at'[r].left : d = c \/ d \in at[r].goal \ at[r].left
      BY <1>8, <2>1, EnrollDoes
    <3>3. \A d \in at[r].goal \ at[r].left : Enrolled(at[r].email, d, rows \cup tx[r].put)
      BY <1>8, <2>1, <2>2, EnrollDoes DEF ToldIsWritten
    <3>4. \A d \in at'[r].goal \ at'[r].left : Enrolled(at'[r].email, d, rows' \cup tx'[r].put)
      BY <1>8, <2>1, <2>3, <2>4, <2>5, <2>6, <3>1, <3>2, <3>3, EnrollDoes
    <3> QED
      BY <1>8, <2>1, <2>2, <2>8, <3>1, <3>4, EnrollDoes DEF ToldIsWritten
  <2> QED
    BY <2>7, <2>8
<1>9. ASSUME NEW r \in Requests, Bump(r)
      PROVE  ToldIsWritten'
  BY <1>9 DEF Bump, Enrolled
<1>10. ASSUME NEW r \in Requests, Release(r)
      PROVE  ToldIsWritten'
  <2> HIDE DEF IInv, TypeOK, Shape, ToldIsWritten, tables, locals, history, Works, NoRow, Writes, Nothing, Untouched, Kinds, InRow, Phases
  <2>1. TypeOK /\ Shape /\ AccountsAreApart /\ EnrolsTheKnown /\ CountsAreBounded /\ EnrolmentsAreCounted
    BY DEF IInv
  <2>2. ToldIsWritten
    BY DEF IInv
  <2>3. \A d \in at[r].goal : Enrolled(at[r].email, d, rows \cup tx[r].put)
    BY <1>10, <2>1, <2>2, ReleaseDoes DEF ToldIsWritten
  <2>4. phase[r] \in InRow /\ "row" \notin InRow /\ save[r].put \subseteq tx[r].put
    BY <1>10, <2>1, ReleaseDoes DEF InRow, Shape
  <2>5. \A p \in told'[r] : r \notin wiped => Enrolled(p[1], p[2], rows \cup tx[r].put)
    <3> SUFFICES ASSUME NEW p \in told'[r], r \notin wiped PROVE Enrolled(p[1], p[2], rows \cup tx[r].put)
      OBVIOUS
    <3>1. CASE p \in told[r]
      <4>1. Enrolled(p[1], p[2], rows \cup save[r].put)
        BY <1>10, <2>1, <2>2, <2>4, <3>1, ReleaseDoes DEF ToldIsWritten
      <4> QED
        BY <2>4, <4>1 DEF Enrolled
    <3>2. CASE p \in {at[r].email} \X at[r].goal
      <4>1. p[1] = at[r].email /\ p[2] \in at[r].goal
        BY <3>2
      <4> QED
        BY <2>3, <4>1
    <3> QED
      BY <1>10, <2>1, <3>1, <3>2, ReleaseDoes
  <2> SUFFICES ASSUME NEW q \in Requests
               PROVE  /\ phase'[q] # "lost" /\ q \notin wiped' =>
                          \A p \in told'[q] :
                             IF phase'[q] \in InRow THEN Enrolled(p[1], p[2], rows' \cup save'[q].put)
                             ELSE Enrolled(p[1], p[2], rows' \cup tx'[q].put)
                      /\ phase'[q] \in {"loaded", "fresh", "checked"} => at'[q].left = at'[q].goal
                      /\ phase'[q] \in {"placed", "inserted"} =>
                          \A d \in at'[q].goal \ at'[q].left : Enrolled(at'[q].email, d, rows' \cup tx'[q].put)
    BY DEF ToldIsWritten
  <2>6. CASE q # r
    BY <1>10, <2>1, <2>2, <2>6, ReleaseDoes DEF ToldIsWritten
  <2>7. CASE q = r
    BY <1>10, <2>1, <2>4, <2>5, <2>7, ReleaseDoes
  <2> QED
    BY <2>6, <2>7
<1>11. ASSUME NEW r \in Requests, RowFail(r)
      PROVE  ToldIsWritten'
  BY <1>11 DEF RowFail, UndoRow, Enrolled
<1>12. ASSUME NEW r \in Requests, Commit(r)
      PROVE  ToldIsWritten'
  BY <1>12 DEF Commit, Enrolled
<1>13. ASSUME NEW r \in Requests, Lose(r)
      PROVE  ToldIsWritten'
  BY <1>13 DEF Lose, Enrolled
<1>14. CASE UNCHANGED vars
  BY <1>14 DEF vars
<1> HIDE DEF IInv, TypeOK, Shape, ToldIsWritten, tables, locals, history, Works, NoRow, Writes, Nothing, Untouched, Kinds, InRow, Phases
<1> QED
  BY <1>1, <1>2, <1>3, <1>4, <1>5, <1>6, <1>7, <1>8, <1>9, <1>10, <1>11, <1>12, <1>13, <1>14 DEF Next, Step

\* The invariant holds initially.
LEMMA InitIInv == Init => IInv
<1> SUFFICES ASSUME Init PROVE IInv
  OBVIOUS
<1>1. rows \subseteq Rows /\ \A x \in rows : x.by = "before" /\ x.email \in Emails /\ maker[x.email] = "before"
  BY DEF Init, Rows
<1>2. \A c \in Courses : N(c, rows) \in Nat /\ count[c] = N(c, rows)
  BY <1>1, NType DEF Init, N
<1>3. count \in [Courses -> Nat]
  <2>1. \A c \in Courses : Cardinality(Of(c, rows)) \in Nat
    BY <1>2 DEF N
  <2> QED
    BY <2>1 DEF Init
<1>4. Nothing \in Writes /\ NoRow \in Works
  BY DEF Nothing, Writes, NoRow, Works, Untouched
<1>5. TypeOK
  BY <1>1, <1>3, <1>4, MaxRowsAssumption DEF Init, TypeOK, Phases
<1>6. Shape
  BY DEF Init, Shape, InRow, Nothing
<1>7. AccountsAreApart /\ EnrolsTheKnown /\ FirstIsLast /\ FirstEnrolmentIsSingle
  BY <1>1, NamesAssumption DEF Init, AccountsAreApart, EnrolsTheKnown, FirstIsLast, FirstEnrolmentIsSingle, Nothing
<1>8. CountIsExplained
  BY <1>2 DEF CountIsExplained, N
<1>9. CountsAreBounded /\ EnrolmentsAreCounted
  BY DEF Init, CountsAreBounded, EnrolmentsAreCounted, Nothing, Untouched, InRow, Of
<1>10. ToldIsWritten
  BY DEF Init, ToldIsWritten
<1> QED
  BY <1>5, <1>6, <1>7, <1>8, <1>9, <1>10 DEF IInv

\* The invariant holds of every behaviour.
THEOREM Invariant == Spec => []IInv
<1>1. Init => IInv
  BY InitIInv
<1>2. IInv /\ [Next]_vars => IInv'
  BY TypeStep, ShapeStep, AccountsStep, EnrolsStep, SingleStep, BoundStep, CountedStep, CountStep, ToldStep DEF IInv
<1> QED
  BY <1>1, <1>2, PTL DEF Spec

\* Every variable stays in its type, and an upload within its limit.
THEOREM TypeCorrect == Spec => []TypeOK
<1>1. IInv => TypeOK
  BY DEF IInv
<1> QED
  BY <1>1, Invariant, PTL

\* What has been told and was not rolled back with its transaction is committed.
LEMMA ReportedFollows == IInv => ReportedIsKept
<1> SUFFICES ASSUME IInv, NEW r \in Requests, phase[r] = "ended", r \notin wiped, NEW p \in told[r]
             PROVE  maker[p[1]] # "none" /\ Enrolled(p[1], p[2], rows)
  BY DEF ReportedIsKept
<1>1. tx[r].put = {} /\ phase[r] \notin InRow
  BY Blank DEF IInv, Shape, InRow
<1>2. Enrolled(p[1], p[2], rows \cup tx[r].put)
  BY <1>1 DEF IInv, ToldIsWritten
<1>3. Enrolled(p[1], p[2], rows)
  BY <1>1, <1>2
<1> QED
  BY <1>3 DEF IInv, AccountsAreApart, Enrolled

\* What an upload has counted as successful is in the database (execute_batch).
THEOREM ReportsAreKept == Spec => []ReportedIsKept
  BY ReportedFollows, Invariant, PTL

\* enrolled_count is never too high, and right until a request was overtaken.
THEOREM CountsAreExplained == Spec => []CountIsExplained
<1>1. IInv => CountIsExplained
  BY DEF IInv
<1> QED
  BY <1>1, Invariant, PTL

\* The enrolments that come with a new account are single (provision_manual_learner).
THEOREM FirstEnrolmentsAreSingle == Spec => []FirstEnrolmentIsSingle
<1>1. IInv => FirstEnrolmentIsSingle
  BY DEF IInv
<1> QED
  BY <1>1, Invariant, PTL

-----------------------------------------------------------------------------
(* The roster: what a request commits is what it reports.                  *)

\* Every enrolment a transaction has written is one it has told, or of the row it
\* works on.
WrittenIsTold ==
    \A r \in Requests :
        /\ \A x \in save[r].put : <<x.email, x.course>> \in told[r]
        /\ phase[r] \in InRow =>
              \A x \in tx[r].put : <<x.email, x.course>> \in told[r]
                                   \/ (x.email = at[r].email /\ x.course \in at[r].goal)
        /\ phase[r] \notin InRow => \A x \in tx[r].put : <<x.email, x.course>> \in told[r]

\* An account that a transaction has made comes with an enrolment, or is that of
\* the row it works on, which has a course to go.
MadeIsEnrolled ==
    \A r \in Requests : kind[r] # "accept" =>
        /\ \A e \in save[r].made : \E x \in save[r].put : x.email = e
        /\ phase[r] \in InRow => at[r].goal # {} /\ \A e \in tx[r].made : e \in save[r].made \/ e = at[r].email
        /\ phase[r] \notin InRow => \A e \in tx[r].made : \E x \in tx[r].put : x.email = e

\* An invitation makes one account at most and enrols nobody.
AcceptIsPlain ==
    \A r \in Requests :
        /\ phase[r] = "new" => told[r] = {} /\ used[r] = 0 /\ r \notin wiped
        /\ phase[r] \in InRow => used[r] # 0
        /\ kind[r] = "accept" =>
              /\ told[r] = {} /\ tx[r].put = {} /\ save[r].made = {}
              /\ phase[r] # "lost" => r \notin wiped
              /\ used[r] = 0 \/ phase[r] \in {"loaded", "fresh", "checked"} => tx[r].made = {}
              /\ phase[r] \in InRow => at[r].goal = {}
              /\ \A e, f \in tx[r].made : e = f

RosterInv ==
    /\ WrittenIsTold
    /\ MadeIsEnrolled
    /\ AcceptIsPlain

\* What is written is told, or of the row at hand.
LEMMA WrittenStep == IInv /\ RosterInv /\ [Next]_vars => WrittenIsTold'
<1> SUFFICES ASSUME IInv /\ RosterInv, [Next]_vars PROVE WrittenIsTold'
  OBVIOUS
<1> USE NamesAssumption DEF IInv, TypeOK, Shape, RosterInv, WrittenIsTold, tables, locals, history, Works, NoRow, Writes, Nothing, Untouched, Kinds, InRow, Phases
<1>1. ASSUME NEW r \in Requests, NEW k \in Kinds, Begin(r, k)
      PROVE  WrittenIsTold'
  BY <1>1 DEF Begin
<1>2. ASSUME NEW r \in Requests, NEW e \in Emails, NEW cs \in SUBSET Courses, Load(r, e, cs)
      PROVE  WrittenIsTold'
  BY <1>2 DEF Load
<1>3. ASSUME NEW r \in Requests, FindLearner(r)
      PROVE  WrittenIsTold'
  BY <1>3 DEF FindLearner
<1>4. ASSUME NEW r \in Requests, CheckIdentity(r)
      PROVE  WrittenIsTold'
  BY <1>4 DEF CheckIdentity
<1>5. ASSUME NEW r \in Requests, InsertLearner(r)
      PROVE  WrittenIsTold'
  BY <1>5 DEF InsertLearner
<1>6. ASSUME NEW r \in Requests, Collide(r)
      PROVE  WrittenIsTold'
  BY <1>6 DEF Collide
<1>7. ASSUME NEW r \in Requests, NEW c \in Courses, Skip(r, c)
      PROVE  WrittenIsTold'
  BY <1>7 DEF Skip
<1>8. ASSUME NEW r \in Requests, NEW c \in Courses, Enroll(r, c)
      PROVE  WrittenIsTold'
  BY <1>8 DEF Enroll
<1>9. ASSUME NEW r \in Requests, Bump(r)
      PROVE  WrittenIsTold'
  BY <1>9 DEF Bump
<1>10. ASSUME NEW r \in Requests, Release(r)
      PROVE  WrittenIsTold'
  BY <1>10 DEF Release
<1>11. ASSUME NEW r \in Requests, RowFail(r)
      PROVE  WrittenIsTold'
  BY <1>11 DEF RowFail, UndoRow
<1>12. ASSUME NEW r \in Requests, Commit(r)
      PROVE  WrittenIsTold'
  BY <1>12 DEF Commit
<1>13. ASSUME NEW r \in Requests, Lose(r)
      PROVE  WrittenIsTold'
  BY <1>13 DEF Lose
<1>14. CASE UNCHANGED vars
  BY <1>14 DEF vars
<1> HIDE DEF IInv, TypeOK, Shape, RosterInv, WrittenIsTold, tables, locals, history, Works, NoRow, Writes, Nothing, Untouched, Kinds, InRow, Phases
<1> QED
  BY <1>1, <1>2, <1>3, <1>4, <1>5, <1>6, <1>7, <1>8, <1>9, <1>10, <1>11, <1>12, <1>13, <1>14 DEF Next, Step

\* What is made is enrolled, or of the row at hand.
LEMMA MadeStep == IInv /\ RosterInv /\ [Next]_vars => MadeIsEnrolled'
<1> SUFFICES ASSUME IInv /\ RosterInv, [Next]_vars PROVE MadeIsEnrolled'
  OBVIOUS
<1> USE NamesAssumption DEF IInv, TypeOK, Shape, RosterInv, MadeIsEnrolled, tables, locals, history, Works, NoRow, Writes, Nothing, Untouched, Kinds, InRow, Phases
<1>1. ASSUME NEW r \in Requests, NEW k \in Kinds, Begin(r, k)
      PROVE  MadeIsEnrolled'
  BY <1>1 DEF Begin
<1>2. ASSUME NEW r \in Requests, NEW e \in Emails, NEW cs \in SUBSET Courses, Load(r, e, cs)
      PROVE  MadeIsEnrolled'
  BY <1>2 DEF Load
<1>3. ASSUME NEW r \in Requests, FindLearner(r)
      PROVE  MadeIsEnrolled'
  BY <1>3 DEF FindLearner
<1>4. ASSUME NEW r \in Requests, CheckIdentity(r)
      PROVE  MadeIsEnrolled'
  BY <1>4 DEF CheckIdentity
<1>5. ASSUME NEW r \in Requests, InsertLearner(r)
      PROVE  MadeIsEnrolled'
  BY <1>5 DEF InsertLearner
<1>6. ASSUME NEW r \in Requests, Collide(r)
      PROVE  MadeIsEnrolled'
  BY <1>6 DEF Collide
<1>7. ASSUME NEW r \in Requests, NEW c \in Courses, Skip(r, c)
      PROVE  MadeIsEnrolled'
  BY <1>7 DEF Skip
<1>8. ASSUME NEW r \in Requests, NEW c \in Courses, Enroll(r, c)
      PROVE  MadeIsEnrolled'
  BY <1>8 DEF Enroll
<1>9. ASSUME NEW r \in Requests, Bump(r)
      PROVE  MadeIsEnrolled'
  BY <1>9 DEF Bump
<1>10. ASSUME NEW r \in Requests, Release(r)
      PROVE  MadeIsEnrolled'
  <2> HIDE DEF IInv, TypeOK, Shape, RosterInv, MadeIsEnrolled, tables, locals, history, Works, NoRow, Writes, Nothing, Untouched, Kinds, InRow, Phases
  <2>1. TypeOK /\ Shape /\ AccountsAreApart /\ ToldIsWritten /\ MadeIsEnrolled
    BY DEF IInv, RosterInv
  <2>2. /\ phase[r] = "placed" /\ at[r].left = {} /\ tx' = tx /\ kind' = kind
        /\ save' = [save EXCEPT ![r] = Nothing]
        /\ \A q \in Requests : phase'[q] = IF q = r THEN "row" ELSE phase[q]
        /\ \A q \in Requests : q # r => at'[q] = at[q] /\ save'[q] = save[q]
    BY <1>10, <2>1, ReleaseDoes DEF Release
  <2>3. save'[r].made = {}
    BY <2>1, <2>2, Blank DEF TypeOK
  <2>4. ASSUME kind[r] # "accept", NEW e \in tx[r].made
        PROVE  \E x \in tx[r].put : x.email = e
    <3>1. CASE e \in save[r].made
      BY <2>1, <2>4, <3>1 DEF MadeIsEnrolled, Shape
    <3>2. CASE e = at[r].email
      <4>1. PICK c \in at[r].goal : TRUE
        BY <2>1, <2>2, <2>4 DEF MadeIsEnrolled, InRow
      <4>2. PICK x \in rows \cup tx[r].put : x.email = e
        BY <2>1, <2>2, <3>2, <4>1 DEF ToldIsWritten, Enrolled
      <4>3. x \notin rows
        BY <2>1, <2>4, <4>2 DEF AccountsAreApart
      <4> QED
        BY <4>2, <4>3
    <3> QED
      BY <2>1, <2>2, <2>4, <3>1, <3>2 DEF MadeIsEnrolled, InRow
  <2> QED
    BY <2>1, <2>2, <2>3, <2>4 DEF MadeIsEnrolled, InRow
<1>11. ASSUME NEW r \in Requests, RowFail(r)
      PROVE  MadeIsEnrolled'
  BY <1>11 DEF RowFail, UndoRow
<1>12. ASSUME NEW r \in Requests, Commit(r)
      PROVE  MadeIsEnrolled'
  BY <1>12 DEF Commit
<1>13. ASSUME NEW r \in Requests, Lose(r)
      PROVE  MadeIsEnrolled'
  BY <1>13 DEF Lose
<1>14. CASE UNCHANGED vars
  BY <1>14 DEF vars
<1> HIDE DEF IInv, TypeOK, Shape, RosterInv, MadeIsEnrolled, tables, locals, history, Works, NoRow, Writes, Nothing, Untouched, Kinds, InRow, Phases
<1> QED
  BY <1>1, <1>2, <1>3, <1>4, <1>5, <1>6, <1>7, <1>8, <1>9, <1>10, <1>11, <1>12, <1>13, <1>14 DEF Next, Step

\* Invitations stay plain.
LEMMA AcceptStep == IInv /\ RosterInv /\ [Next]_vars => AcceptIsPlain'
<1> SUFFICES ASSUME IInv /\ RosterInv, [Next]_vars PROVE AcceptIsPlain'
  OBVIOUS
<1> USE NamesAssumption DEF IInv, TypeOK, Shape, RosterInv, AcceptIsPlain, tables, locals, history, Works, NoRow, Writes, Nothing, Untouched, Kinds, InRow, Phases
<1>1. ASSUME NEW r \in Requests, NEW k \in Kinds, Begin(r, k)
      PROVE  AcceptIsPlain'
  BY <1>1 DEF Begin
<1>2. ASSUME NEW r \in Requests, NEW e \in Emails, NEW cs \in SUBSET Courses, Load(r, e, cs)
      PROVE  AcceptIsPlain'
  <2>1. used[r] \in Nat /\ used'[r] = used[r] + 1 /\ kind' = kind /\ tx' = tx /\ told' = told /\ wiped' = wiped
    BY <1>2 DEF Load
  <2>2. kind[r] = "accept" => used[r] = 0 /\ cs = {}
    BY <1>2 DEF Load, HasRoom
  <2>3. \A q \in Requests : q # r => used'[q] = used[q]
    BY <1>2 DEF Load
  <2>4. TypeOK /\ AcceptIsPlain
    OBVIOUS
  <2> HIDE DEF IInv, TypeOK, Shape, RosterInv, AcceptIsPlain, tables, locals, history, Works, NoRow, Writes, Nothing, Untouched, Kinds, InRow, Phases
  <2>5. /\ phase[r] = "row" /\ at'[r].goal = cs /\ \A q \in Requests : q # r => at'[q] = at[q]
        /\ \A q \in Requests : phase'[q] = IF q = r THEN "loaded" ELSE phase[q]
        /\ \A q \in Requests : save'[q] = IF q = r THEN tx[r] ELSE save[q]
    BY <1>2, <2>4, LoadDoes
  <2> QED
    BY <2>1, <2>2, <2>3, <2>4, <2>5 DEF AcceptIsPlain, InRow
<1>3. ASSUME NEW r \in Requests, FindLearner(r)
      PROVE  AcceptIsPlain'
  BY <1>3 DEF FindLearner
<1>4. ASSUME NEW r \in Requests, CheckIdentity(r)
      PROVE  AcceptIsPlain'
  BY <1>4 DEF CheckIdentity
<1>5. ASSUME NEW r \in Requests, InsertLearner(r)
      PROVE  AcceptIsPlain'
  <2>1. TypeOK /\ AcceptIsPlain /\ kind' = kind /\ used' = used /\ wiped' = wiped
    BY <1>5 DEF InsertLearner
  <2> HIDE DEF IInv, TypeOK, Shape, RosterInv, AcceptIsPlain, tables, locals, history, Works, NoRow, Writes, Nothing, Untouched, Kinds, InRow, Phases
  <2>2. /\ told' = told /\ at' = at /\ save' = save /\ phase[r] = "checked"
        /\ \A q \in Requests : phase'[q] = IF q = r THEN "placed" ELSE phase[q]
        /\ \A q \in Requests : tx'[q].put = tx[q].put
        /\ \A q \in Requests : tx'[q].made = IF q = r THEN tx[r].made \cup {at[r].email} ELSE tx[q].made
    BY <1>5, <2>1, InsertLearnerDoes
  <2>3. kind[r] = "accept" => tx[r].made = {}
    BY <2>1, <2>2 DEF AcceptIsPlain
  <2>4. used[r] # 0 /\ (kind[r] = "accept" => tx'[r].made = {at[r].email})
    BY <2>1, <2>2, <2>3 DEF AcceptIsPlain, InRow
  <2> QED
    BY <2>1, <2>2, <2>3, <2>4 DEF AcceptIsPlain, InRow
<1>6. ASSUME NEW r \in Requests, Collide(r)
      PROVE  AcceptIsPlain'
  BY <1>6 DEF Collide
<1>7. ASSUME NEW r \in Requests, NEW c \in Courses, Skip(r, c)
      PROVE  AcceptIsPlain'
  BY <1>7 DEF Skip
<1>8. ASSUME NEW r \in Requests, NEW c \in Courses, Enroll(r, c)
      PROVE  AcceptIsPlain'
  BY <1>8 DEF Enroll
<1>9. ASSUME NEW r \in Requests, Bump(r)
      PROVE  AcceptIsPlain'
  BY <1>9 DEF Bump
<1>10. ASSUME NEW r \in Requests, Release(r)
      PROVE  AcceptIsPlain'
  BY <1>10 DEF Release
<1>11. ASSUME NEW r \in Requests, RowFail(r)
      PROVE  AcceptIsPlain'
  BY <1>11 DEF RowFail, UndoRow
<1>12. ASSUME NEW r \in Requests, Commit(r)
      PROVE  AcceptIsPlain'
  BY <1>12 DEF Commit
<1>13. ASSUME NEW r \in Requests, Lose(r)
      PROVE  AcceptIsPlain'
  BY <1>13 DEF Lose
<1>14. CASE UNCHANGED vars
  BY <1>14 DEF vars
<1> HIDE DEF IInv, TypeOK, Shape, RosterInv, AcceptIsPlain, tables, locals, history, Works, NoRow, Writes, Nothing, Untouched, Kinds, InRow, Phases
<1> QED
  BY <1>1, <1>2, <1>3, <1>4, <1>5, <1>6, <1>7, <1>8, <1>9, <1>10, <1>11, <1>12, <1>13, <1>14 DEF Next, Step

\* Nothing is told, written or made yet.
LEMMA InitRoster == Init => RosterInv
<1> SUFFICES ASSUME Init PROVE RosterInv
  OBVIOUS
<1> QED
  BY Blank DEF Init, RosterInv, WrittenIsTold, MadeIsEnrolled, AcceptIsPlain, InRow

\* The second invariant holds of every behaviour.
LEMMA RosterInvariant == Spec => [](IInv /\ RosterInv)
<1>1. Init => RosterInv
  BY InitRoster
<1>2. IInv /\ RosterInv /\ [Next]_vars => RosterInv'
  BY WrittenStep, MadeStep, AcceptStep DEF RosterInv
<1> QED
  BY <1>1, <1>2, Invariant, PTL DEF Spec

Abstract == [Roster!Next]_(Roster!vars)

\* A step that ends no request and commits nothing is none of the roster's.
LEMMA SameRoster ==
    ASSUME maker' = maker, rows' = rows,
           \A q \in Requests : phase'[q] = "ended" <=> phase[q] = "ended",
           \A q \in Requests : phase[q] = "ended" => told'[q] = told[q] /\ (q \in wiped' <=> q \in wiped)
    PROVE  Abstract
<1>1. Answered' = Answered
  BY DEF Answered
<1>2. Reports' = Reports
  BY <1>1 DEF Reports, Answered
<1>3. (Answered \cap wiped)' = Answered \cap wiped
  BY <1>1 DEF Answered
<1>4. Accounts' = Accounts /\ Enrolments' = Enrolments
  BY DEF Accounts, Enrolments
<1> QED
  BY <1>1, <1>2, <1>3, <1>4 DEF Abstract, Roster!vars

PairsOf(set) == {<<x.email, x.course>> : x \in set}
EmailsOf(P) == {p[1] : p \in P}

LEMMA EmailsOfPairs == \A set : EmailsOf(PairsOf(set)) = {x.email : x \in set}
<1> SUFFICES ASSUME NEW set PROVE EmailsOf(PairsOf(set)) = {x.email : x \in set}
  OBVIOUS
<1>1. ASSUME NEW x \in set PROVE x.email \in EmailsOf(PairsOf(set))
  <2>1. <<x.email, x.course>> \in PairsOf(set) /\ <<x.email, x.course>>[1] = x.email
    BY DEF PairsOf
  <2> QED
    BY <2>1 DEF EmailsOf
<1>2. ASSUME NEW p \in PairsOf(set) PROVE p[1] \in {x.email : x \in set}
  BY DEF PairsOf
<1> QED
  BY <1>1, <1>2 DEF EmailsOf

\* What a commit adds to the roster.
LEMMA CommitAdds ==
    ASSUME IInv, NEW r \in Requests, Commit(r)
    PROVE  /\ Accounts' = Accounts \cup tx[r].made
           /\ Enrolments' = Enrolments \cup PairsOf(tx[r].put)
           /\ Answered' = Answered \cup {r} /\ r \notin Answered
           /\ (Answered \cap wiped)' = IF r \in wiped THEN (Answered \cap wiped) \cup {r} ELSE Answered \cap wiped
           /\ Reports' = [Reports EXCEPT ![r] = told[r]] /\ Reports[r] = {}
           /\ tx[r].made \subseteq Emails /\ tx[r].put \subseteq Rows
           /\ told[r] \subseteq Emails \X Courses
<1> HIDE DEF IInv
<1>1. TypeOK
  BY DEF IInv
<1>2. /\ told' = told /\ wiped' = wiped /\ phase[r] = "row" /\ rows' = rows \cup tx[r].put
      /\ \A q \in Requests : phase'[q] = IF q = r THEN "ended" ELSE phase[q]
      /\ \A e \in Emails : maker'[e] = IF e \in tx[r].made THEN r ELSE maker[e]
  BY <1>1, CommitDoes
<1>3. tx[r].made \subseteq Emails /\ tx[r].put \subseteq Rows /\ told[r] \subseteq Emails \X Courses
  BY <1>1, Typed DEF TypeOK
<1>4. Accounts' = Accounts \cup tx[r].made
  BY <1>2, <1>3, NamesAssumption DEF Accounts
<1>5. Enrolments' = Enrolments \cup PairsOf(tx[r].put)
  BY <1>2 DEF Enrolments, PairsOf
<1>6. Answered' = Answered \cup {r} /\ r \notin Answered
  BY <1>2 DEF Answered
<1>7. Reports' = [Reports EXCEPT ![r] = told[r]] /\ Reports[r] = {}
  BY <1>2, <1>6 DEF Reports
<1> QED
  BY <1>2, <1>3, <1>4, <1>5, <1>6, <1>7

\* A commit is one answer or an invitation.
LEMMA CommitRefines == ASSUME IInv, RosterInv, NEW r \in Requests, Commit(r) PROVE Abstract
<1> DEFINE P == PairsOf(tx[r].put)
           T == told[r]
<1>1. TypeOK /\ Shape /\ AccountsAreApart /\ EnrolsTheKnown /\ ToldIsWritten
  BY DEF IInv
<1>2. WrittenIsTold /\ MadeIsEnrolled /\ AcceptIsPlain
  BY DEF RosterInv
<1>3. /\ Accounts' = Accounts \cup tx[r].made /\ Enrolments' = Enrolments \cup P
      /\ Answered' = Answered \cup {r} /\ r \notin Answered
      /\ (Answered \cap wiped)' = IF r \in wiped THEN (Answered \cap wiped) \cup {r} ELSE Answered \cap wiped
      /\ Reports' = [Reports EXCEPT ![r] = T] /\ Reports[r] = {}
      /\ tx[r].made \subseteq Emails /\ tx[r].put \subseteq Rows /\ T \subseteq Emails \X Courses
  BY CommitAdds
<1>4. phase[r] = "row" /\ phase[r] \notin InRow /\ phase[r] # "lost"
  BY <1>1, CommitDoes DEF InRow
<1>5. P \subseteq T
  BY <1>2, <1>4 DEF WrittenIsTold, PairsOf
<1>6. EmailsOf(P) = {x.email : x \in tx[r].put} /\ EmailsOf(P) \subseteq EmailsOf(T)
  BY <1>5, EmailsOfPairs DEF EmailsOf
<1>7. \A x \in tx[r].put : x.email \in Accounts \cup tx[r].made
  BY <1>1, <1>3 DEF EnrolsTheKnown, Accounts, Rows
<1>8. kind[r] # "accept" => tx[r].made \subseteq EmailsOf(P)
  BY <1>2, <1>4, <1>6 DEF MadeIsEnrolled
<1> HIDE DEF P, T
<1>9. ASSUME r \in wiped, kind[r] # "accept"
      PROVE  Abstract
  <2>1. Accounts' = Accounts \cup EmailsOf(P)
    BY <1>3, <1>6, <1>7, <1>8, <1>9
  <2>2. Roster!Enrol(P)
    BY <1>3, <2>1 DEF Roster!Enrol, EmailsOf
  <2>3. Roster!Answer(r, T)
    BY <1>3, <1>5, <1>9, <2>2 DEF Roster!Answer
  <2> QED
    BY <1>3, <2>3 DEF Abstract, Roster!Next
<1>10. ASSUME r \notin wiped, kind[r] # "accept"
       PROVE  Abstract
  <2>1. \A p \in T : p[1] \in Emails /\ p[2] \in Courses /\ p = <<p[1], p[2]>>
    BY <1>3
  <2>2. \A p \in T : \E x \in rows \cup tx[r].put : x.email = p[1] /\ x.course = p[2]
    BY <1>1, <1>4, <1>10 DEF ToldIsWritten, Enrolled, T
  <2>3. ASSUME NEW p \in T
        PROVE  p \in Enrolments \cup P /\ p[1] \in Accounts \cup tx[r].made
    <3>1. PICK x \in rows \cup tx[r].put : x.email = p[1] /\ x.course = p[2]
      BY <2>2
    <3>2. p = <<x.email, x.course>>
      BY <2>1, <3>1
    <3>3. x \in rows => p[1] \in Accounts
      BY <1>1, <2>1, <3>1 DEF AccountsAreApart, Accounts
    <3> QED
      BY <1>7, <3>1, <3>2, <3>3 DEF Enrolments, PairsOf, P
  <2>4. Enrolments' = Enrolments \cup T
    BY <1>3, <1>5, <2>3
  <2>5. Accounts' = Accounts \cup EmailsOf(T)
    <3>1. EmailsOf(T) \subseteq Accounts \cup tx[r].made
      BY <2>3 DEF EmailsOf
    <3> QED
      BY <1>3, <1>6, <1>8, <1>10, <3>1
  <2>6. Roster!Enrol(T)
    BY <2>4, <2>5 DEF Roster!Enrol, EmailsOf
  <2>7. Roster!Answer(r, T)
    BY <1>3, <1>10, <2>6 DEF Roster!Answer
  <2> QED
    BY <1>3, <2>7 DEF Abstract, Roster!Next
<1>11. ASSUME kind[r] = "accept"
       PROVE  Abstract
  <2>1. T = {} /\ P = {} /\ r \notin wiped /\ \A e, f \in tx[r].made : e = f
    BY <1>2, <1>4, <1>11 DEF AcceptIsPlain, PairsOf, T, P
  <2>2. Enrolments' = Enrolments /\ Reports' = Reports /\ (Answered \cap wiped)' = Answered \cap wiped
    BY <1>3, <2>1 DEF Reports
  <2>3. CASE tx[r].made = {}
    <3>1. Roster!Enrol(T)
      BY <1>3, <2>1, <2>2, <2>3 DEF Roster!Enrol
    <3>2. Roster!Answer(r, T)
      BY <1>3, <2>2, <3>1 DEF Roster!Answer
    <3> QED
      BY <1>3, <3>2 DEF Abstract, Roster!Next
  <2>4. CASE tx[r].made # {}
    <3>1. PICK e \in Emails : tx[r].made = {e}
      BY <1>3, <2>1, <2>4
    <3>2. Roster!Invite(r, e)
      BY <1>3, <2>2, <3>1 DEF Roster!Invite
    <3> QED
      BY <3>2 DEF Abstract, Roster!Next
  <2> QED
    BY <2>3, <2>4
<1> QED
  BY <1>9, <1>10, <1>11

\* Every step is one of the roster's or none.
LEMMA RefineStep == IInv /\ RosterInv /\ [Next]_vars => Abstract
<1> SUFFICES ASSUME IInv /\ RosterInv, [Next]_vars PROVE Abstract
  OBVIOUS
<1> USE DEF IInv, TypeOK, tables, locals, history, InRow, Phases
<1>1. ASSUME NEW r \in Requests, NEW k \in Kinds, Begin(r, k)
      PROVE  Abstract
  BY <1>1, SameRoster DEF Begin
<1>2. ASSUME NEW r \in Requests, NEW e \in Emails, NEW cs \in SUBSET Courses, Load(r, e, cs)
      PROVE  Abstract
  BY <1>2, SameRoster DEF Load
<1>3. ASSUME NEW r \in Requests, FindLearner(r)
      PROVE  Abstract
  BY <1>3, SameRoster DEF FindLearner
<1>4. ASSUME NEW r \in Requests, CheckIdentity(r)
      PROVE  Abstract
  BY <1>4, SameRoster DEF CheckIdentity
<1>5. ASSUME NEW r \in Requests, InsertLearner(r)
      PROVE  Abstract
  BY <1>5, SameRoster DEF InsertLearner
<1>6. ASSUME NEW r \in Requests, Collide(r)
      PROVE  Abstract
  BY <1>6, SameRoster DEF Collide
<1>7. ASSUME NEW r \in Requests, NEW c \in Courses, Skip(r, c)
      PROVE  Abstract
  BY <1>7, SameRoster DEF Skip
<1>8. ASSUME NEW r \in Requests, NEW c \in Courses, Enroll(r, c)
      PROVE  Abstract
  BY <1>8, SameRoster DEF Enroll
<1>9. ASSUME NEW r \in Requests, Bump(r)
      PROVE  Abstract
  BY <1>9, SameRoster DEF Bump
<1>10. ASSUME NEW r \in Requests, Release(r)
      PROVE  Abstract
  BY <1>10, SameRoster DEF Release
<1>11. ASSUME NEW r \in Requests, RowFail(r)
      PROVE  Abstract
  BY <1>11, SameRoster DEF RowFail, UndoRow
<1>12. ASSUME NEW r \in Requests, Commit(r)
      PROVE  Abstract
  BY <1>12, CommitRefines
<1>13. ASSUME NEW r \in Requests, Lose(r)
      PROVE  Abstract
  BY <1>13, SameRoster DEF Lose
<1>14. CASE UNCHANGED vars
  BY <1>14, SameRoster DEF vars
<1> HIDE DEF IInv, TypeOK, tables, locals, history, InRow, Phases
<1> QED
  BY <1>1, <1>2, <1>3, <1>4, <1>5, <1>6, <1>7, <1>8, <1>9, <1>10, <1>11, <1>12, <1>13, <1>14 DEF Next, Step

\* Uploads, enrolments by hand and invitations implement the roster: a request takes
\* effect once, and what it reports is exactly what it has enrolled.
THEOREM Implements == Spec => ImplementsRoster
<1>1. Init => Roster!Init
  <2> SUFFICES ASSUME Init PROVE Roster!Init
    OBVIOUS
  <2>1. \A x \in rows : x.email \in Accounts /\ x.course \in Courses
    BY DEF Init, Accounts
  <2>2. Reports = [r \in Requests |-> {}] /\ Answered = {}
    BY DEF Init, Reports, Answered
  <2> QED
    BY <2>1, <2>2 DEF Init, Roster!Init, Enrolments, Accounts, Answered
<1>2. (IInv /\ RosterInv) /\ [Next]_vars => [Roster!Next]_(Roster!vars)
  BY RefineStep DEF Abstract
<1> QED
  BY <1>1, <1>2, RosterInvariant, PTL DEF Spec, Roster!Spec, ImplementsRoster

-----------------------------------------------------------------------------
(* One request at a time.  The exceptions that the promises above make, a   *)
(* count that was overwritten and a transaction that was restarted, are     *)
(* races: without them the promises are exact, whatever rows and requests   *)
(* fail.                                                                    *)

\* A request that has begun and not been answered.
Busy(r) == phase[r] \notin {"new", "ended", "lost"}

Alone == \A p, q \in Requests : Busy(p) /\ Busy(q) => p = q

\* The requests are handled one after the other; rows and requests may still fail.
SerialSpec == Spec /\ []Alone

\* A learner is enrolled in a course once.
Single(set) == \A x, y \in set : x.email = y.email /\ x.course = y.course => x = y

\* What was promised with exceptions, without them.
SerialPromises ==
    /\ Single(rows)
    /\ \A c \in Courses : count[c] = Cardinality(Of(c, rows))
    /\ \A r \in Requests : phase[r] = "ended" =>
          \A p \in told[r] : maker[p[1]] # "none" /\ Enrolled(p[1], p[2], rows)

Inserted(r, c) == phase[r] = "inserted" /\ c = at[r].course

\* The counts of the one open transaction are exact, and so is what it has read.
SerialRow(r) ==
    /\ Single(rows \cup tx[r].put)
    /\ phase[r] = "checked" => \A f \in Emails : Exists(r, f) => f \in at[r].known
    /\ \A c \in Courses :
          /\ tx[r].wrote[c] # Untouched /\ ~Inserted(r, c) =>
                tx[r].wrote[c] = count[c] + N(c, tx[r].put)
          /\ save[r].wrote[c] # Untouched => save[r].wrote[c] = count[c] + N(c, save[r].put)
          /\ phase[r] \in InRow /\ c \in at[r].left => at[r].seen[c] = count[c] + N(c, tx[r].put)
          /\ Inserted(r, c) => c \notin at[r].left /\ at[r].seen[c] + 1 = count[c] + N(c, tx[r].put)

SerialInv ==
    /\ Single(rows)
    /\ overwritten = {}
    /\ wiped = {}
    /\ \A r \in Requests : Busy(r) => SerialRow(r)

Facts == TypeOK /\ Shape /\ AccountsAreApart /\ EnrolmentsAreCounted /\ CountIsExplained

LEMMA FactsAre == IInv => Facts
  BY DEF IInv, Facts

\* Whoever takes a step and is under way is the only one under way.
LEMMA OnlyOne ==
    ASSUME Alone, Alone', NEW r \in Requests, Busy(r) \/ Busy(r)',
           \A q \in Requests : q # r => phase'[q] = phase[q]
    PROVE  \A q \in Requests : q # r => ~Busy(q)'
<1> SUFFICES ASSUME NEW q \in Requests, q # r, Busy(q)' PROVE FALSE
  OBVIOUS
<1>1. Busy(q)
  BY DEF Busy
<1> QED
  BY <1>1 DEF Alone

\* The numbers a transaction deals with.
LEMMA Numbers ==
    ASSUME TypeOK, NEW r \in Requests, NEW c \in Courses
    PROVE  /\ N(c, tx[r].put) \in Nat /\ N(c, save[r].put) \in Nat /\ count[c] \in Nat
           /\ at[r].seen[c] \in Nat
           /\ tx[r].wrote[c] \in Nat \cup {-1} /\ save[r].wrote[c] \in Nat \cup {-1}
  BY Typed, NType DEF TypeOK

\* Between two rows, what a request sees of a count is exact.
LEMMA SeenIsExact ==
    ASSUME Facts, NEW r \in Requests, SerialRow(r), phase[r] = "row", NEW c \in Courses
    PROVE  CountSeen(r, c) = count[c] + N(c, tx[r].put)
<1>1. ~Inserted(r, c)
  BY DEF Inserted
<1>2. CASE tx[r].wrote[c] # Untouched
  BY <1>1, <1>2 DEF SerialRow, CountSeen
<1>3. CASE tx[r].wrote[c] = Untouched
  <2>1. Of(c, tx[r].put) = {}
    BY <1>1, <1>3 DEF Facts, EnrolmentsAreCounted, Inserted
  <2>2. N(c, tx[r].put) = 0
    BY <2>1, FS_EmptySet DEF N
  <2> QED
    BY <1>3, <2>2, Numbers DEF Facts, CountSeen
<1> QED
  BY <1>2, <1>3

\* A request that is alone meets no account it has not seen.
LEMMA SerialNoCollision ==
    ASSUME Facts, SerialInv, NEW r \in Requests
    PROVE  ~Collide(r)
<1> SUFFICES ASSUME Collide(r) PROVE FALSE
  OBVIOUS
<1>1. phase[r] = "checked" /\ SerialRow(r)
  BY DEF Collide, SerialInv, Busy
<1>2. PICK f \in Emails \ at[r].known : maker[f] # "none"
  BY DEF Collide, Clashes, Rivals
<1> QED
  BY <1>1, <1>2 DEF SerialRow, Exists

\* A step that leaves the transaction and the tables alone keeps it exact.
LEMMA SameRow ==
    ASSUME NEW r \in Requests, SerialRow(r),
           UNCHANGED <<maker, rows, count, tx, save>>,
           phase[r] \in InRow, phase'[r] \in InRow,
           phase[r] # "inserted", phase'[r] # "inserted",
           at'[r].left \subseteq at[r].left, at'[r].seen = at[r].seen,
           phase'[r] = "checked" => \A f \in Emails : Exists(r, f) => f \in at'[r].known
    PROVE  SerialRow(r)'
<1>1. \A c \in Courses : ~Inserted(r, c) /\ ~Inserted(r, c)'
  BY DEF Inserted
<1>2. \A f : Exists(r, f)' <=> Exists(r, f)
  BY DEF Exists
<1>3. \A c : N(c, tx[r].put)' = N(c, tx[r].put) /\ N(c, save[r].put)' = N(c, save[r].put)
  BY DEF N, Of
<1>4. Single(rows \cup tx[r].put)'
  BY DEF SerialRow, Single
<1> QED
  BY <1>1, <1>2, <1>3, <1>4 DEF SerialRow

\* The first row, and every other one.
LEMMA SerialBegin ==
    ASSUME Facts, SerialInv, NEW r \in Requests, NEW k \in Kinds, Begin(r, k)
    PROVE  SerialRow(r)'
<1>1. tx[r] = Nothing /\ save[r] = Nothing /\ phase'[r] = "row"
      /\ UNCHANGED <<rows, tx, save>>
  BY DEF Facts, Shape, Begin, tables, TypeOK, InRow
<1>2. Single(rows \cup tx[r].put)'
  BY <1>1, Blank DEF SerialInv, Single
<1> QED
  BY <1>1, <1>2, Blank DEF SerialRow, Inserted, InRow, Untouched

LEMMA SerialLoad ==
    ASSUME Facts, NEW r \in Requests, SerialRow(r),
           NEW e \in Emails, NEW cs \in SUBSET Courses, Load(r, e, cs)
    PROVE  SerialRow(r)'
<1>1. /\ UNCHANGED <<maker, rows, count, tx>> /\ phase[r] = "row"
      /\ phase'[r] = "loaded" /\ save'[r] = tx[r]
      /\ \A c \in Courses : at'[r].seen[c] = CountSeen(r, c)
  BY LoadDoes DEF Facts
<1>2. Single(rows \cup tx[r].put)'
  BY <1>1 DEF SerialRow, Single
<1> SUFFICES ASSUME NEW c \in Courses
             PROVE  /\ tx'[r].wrote[c] # Untouched => tx'[r].wrote[c] = count'[c] + N(c, tx'[r].put)
                    /\ save'[r].wrote[c] # Untouched => save'[r].wrote[c] = count'[c] + N(c, save'[r].put)
                    /\ at'[r].seen[c] = count'[c] + N(c, tx'[r].put)
  BY <1>1, <1>2 DEF SerialRow, Inserted
<1>3. CountSeen(r, c) = count[c] + N(c, tx[r].put)
  BY <1>1, SeenIsExact
<1>4. ~Inserted(r, c)
  BY <1>1 DEF Inserted
<1> QED
  BY <1>1, <1>3, <1>4 DEF SerialRow

LEMMA SerialInsertLearner ==
    ASSUME Facts, NEW r \in Requests, SerialRow(r), InsertLearner(r)
    PROVE  SerialRow(r)'
<1>1. /\ UNCHANGED <<maker, rows, count, at, save>> /\ phase[r] = "checked"
      /\ phase'[r] = "placed" /\ tx'[r].put = tx[r].put /\ tx'[r].wrote = tx[r].wrote
  BY InsertLearnerDoes DEF Facts
<1>2. Single(rows \cup tx[r].put)'
  BY <1>1 DEF SerialRow, Single
<1>3. \A c \in Courses : ~Inserted(r, c) /\ ~Inserted(r, c)'
  BY <1>1 DEF Inserted
<1>4. \A c \in Courses : N(c, tx'[r].put) = N(c, tx[r].put) /\ N(c, save'[r].put) = N(c, save[r].put)
  BY <1>1
<1> QED
  BY <1>1, <1>2, <1>3, <1>4 DEF SerialRow, InRow

\* The next enrolment is a new one.
LEMMA SerialEnroll ==
    ASSUME Facts, NEW r \in Requests, SerialRow(r), NEW d \in Courses, Enroll(r, d)
    PROVE  SerialRow(r)'
<1> DEFINE x == EnrolmentOf(r, d)
<1>1. /\ UNCHANGED <<maker, rows, save>> /\ phase[r] = "placed" /\ phase'[r] = "inserted"
      /\ d \in at[r].left
      /\ \A y \in rows \cup tx[r].put : ~(y.email = x.email /\ y.course = x.course)
      /\ tx'[r].put = tx[r].put \cup {x} /\ tx'[r].wrote = tx[r].wrote
      /\ at'[r].left = at[r].left \ {d} /\ at'[r].course = d /\ at'[r].seen = at[r].seen
      /\ x.course = d
  BY EnrollDoes DEF Facts
<1>2. count' = count
  BY DEF Enroll, tables
<1>3. x \in Rows
  <2>1. at[r].email \in Emails
    BY <1>1 DEF Facts, Shape, InRow
  <2> QED
    BY <2>1 DEF Rows, EnrolmentOf
<1>4. x \notin tx[r].put /\ tx[r].put \in SUBSET Rows
  BY <1>1, Typed DEF Facts
<1> HIDE DEF x
<1>5. \A c \in Courses : N(c, tx'[r].put) = IF d = c THEN N(c, tx[r].put) + 1 ELSE N(c, tx[r].put)
  <2> TAKE c \in Courses
  <2>1. N(c, tx[r].put \cup {x}) = IF x.course = c THEN N(c, tx[r].put) + 1 ELSE N(c, tx[r].put)
    BY <1>3, <1>4, NOneMore
  <2> QED
    BY <1>1, <2>1, Zenon
<1>6. Single(rows' \cup tx'[r].put)
  BY <1>1 DEF SerialRow, Single
<1> SUFFICES ASSUME NEW c \in Courses
             PROVE  /\ tx'[r].wrote[c] # Untouched /\ ~Inserted(r, c)' =>
                          tx'[r].wrote[c] = count'[c] + N(c, tx'[r].put)
                    /\ save'[r].wrote[c] # Untouched => save'[r].wrote[c] = count'[c] + N(c, save'[r].put)
                    /\ c \in at'[r].left => at'[r].seen[c] = count'[c] + N(c, tx'[r].put)
                    /\ Inserted(r, c)' => c \notin at'[r].left /\ at'[r].seen[c] + 1 = count'[c] + N(c, tx'[r].put)
  BY <1>1, <1>6 DEF SerialRow, Inserted
<1>7. /\ tx[r].wrote[c] # Untouched => tx[r].wrote[c] = count[c] + N(c, tx[r].put)
      /\ save[r].wrote[c] # Untouched => save[r].wrote[c] = count[c] + N(c, save[r].put)
      /\ c \in at[r].left => at[r].seen[c] = count[c] + N(c, tx[r].put)
  <2>1. ~Inserted(r, c) /\ phase[r] \in InRow
    BY <1>1 DEF Inserted, InRow
  <2> QED
    BY <2>1 DEF SerialRow
<1>8. N(c, tx'[r].put) = IF d = c THEN N(c, tx[r].put) + 1 ELSE N(c, tx[r].put)
  BY <1>5
<1>9. /\ N(c, tx[r].put) \in Nat /\ count[c] \in Nat /\ at[r].seen[c] \in Nat
  BY Numbers DEF Facts
<1>10. Inserted(r, c)' <=> c = d
  BY <1>1 DEF Inserted
<1>11. /\ tx'[r].wrote[c] = tx[r].wrote[c] /\ save'[r] = save[r] /\ count'[c] = count[c]
       /\ at'[r].seen[c] = at[r].seen[c] /\ (c \in at'[r].left <=> c \in at[r].left /\ c # d)
  BY <1>1, <1>2
<1>12. CASE c = d
  <2>1. at[r].seen[c] = count[c] + N(c, tx[r].put)
    BY <1>1, <1>7, <1>12
  <2>2. at[r].seen[c] + 1 = count[c] + N(c, tx'[r].put)
    BY <1>8, <1>9, <1>12, <2>1
  <2> QED
    BY <1>7, <1>10, <1>11, <1>12, <2>2
<1>13. CASE c # d
  <2>1. N(c, tx'[r].put) = N(c, tx[r].put)
    BY <1>8, <1>13
  <2> QED
    BY <1>7, <1>10, <1>11, <1>13, <2>1
<1> QED
  BY <1>12, <1>13

\* Its count is flushed.
LEMMA SerialBump ==
    ASSUME Facts, NEW r \in Requests, SerialRow(r), Bump(r)
    PROVE  SerialRow(r)'
<1>1. at[r].course \in Courses
  BY DEF Bump, Facts, Shape
<1>2. /\ UNCHANGED <<maker, rows, count, at, save>> /\ phase[r] = "inserted"
      /\ phase'[r] = "placed" /\ tx'[r].put = tx[r].put
      /\ \A c \in Courses : tx'[r].wrote[c] =
            IF c = at[r].course THEN at[r].seen[c] + 1 ELSE tx[r].wrote[c]
  BY <1>1, BumpDoes DEF Facts
<1>3. Single(rows \cup tx[r].put)'
  BY <1>2 DEF SerialRow, Single
<1>4. \A c \in Courses : N(c, tx'[r].put) = N(c, tx[r].put) /\ N(c, save'[r].put) = N(c, save[r].put)
  BY <1>2
<1>5. \A c \in Courses : (Inserted(r, c) <=> c = at[r].course) /\ ~Inserted(r, c)'
  BY <1>2 DEF Inserted
<1> QED
  BY <1>2, <1>3, <1>4, <1>5 DEF SerialRow, InRow

\* A row that is done or has failed.
LEMMA SerialRelease ==
    ASSUME Facts, NEW r \in Requests, SerialRow(r), Release(r)
    PROVE  SerialRow(r)'
<1>1. /\ UNCHANGED <<maker, rows, count, tx>> /\ phase[r] = "placed" /\ phase'[r] = "row"
  BY ReleaseDoes DEF Facts
<1>2. save'[r] = Nothing
  BY DEF Release, Facts, TypeOK
<1>3. Single(rows \cup tx[r].put)'
  BY <1>1 DEF SerialRow, Single
<1>4. \A c \in Courses : N(c, tx'[r].put) = N(c, tx[r].put)
  BY <1>1
<1>5. \A c \in Courses : ~Inserted(r, c) /\ ~Inserted(r, c)'
  BY <1>1 DEF Inserted
<1> QED
  BY <1>1, <1>2, <1>3, <1>4, <1>5, Blank DEF SerialRow, InRow, Untouched

LEMMA SerialRowFail ==
    ASSUME Facts, NEW r \in Requests, SerialRow(r), RowFail(r)
    PROVE  SerialRow(r)'
<1>1. /\ UNCHANGED <<maker, rows, count>> /\ phase'[r] = "row"
      /\ tx'[r] = save[r] /\ save'[r] = Nothing
  BY DEF RowFail, UndoRow, Facts, TypeOK, tables
<1>2. save[r].put \subseteq tx[r].put
  BY DEF Facts, Shape
<1>3. Single(rows \cup tx[r].put)'
  BY <1>1, <1>2 DEF SerialRow, Single
<1>4. \A c \in Courses : N(c, tx'[r].put) = N(c, save[r].put)
  BY <1>1
<1> QED
  BY <1>1, <1>3, <1>4, Blank DEF SerialRow, InRow, Untouched, Inserted

\* A commit of a request that was alone overwrites no count.
LEMMA SerialCommit ==
    ASSUME Facts, SerialInv, NEW r \in Requests, SerialRow(r), Commit(r)
    PROVE  overwritten' = {} /\ Single(rows')
<1>1. phase[r] = "row" /\ rows' = rows \cup tx[r].put
      /\ overwritten' = overwritten \cup {c \in Courses : Overwrites(r, c)}
  BY CommitDoes DEF Facts
<1>2. ASSUME NEW c \in Courses PROVE ~Overwrites(r, c)
  <2>1. ~Inserted(r, c)
    BY <1>1 DEF Inserted
  <2>2. tx[r].wrote[c] # Untouched => tx[r].wrote[c] = count[c] + N(c, tx[r].put)
    BY <2>1 DEF SerialRow
  <2>3. N(c, tx[r].put) \in Nat /\ count[c] \in Nat
    BY Numbers DEF Facts
  <2> QED
    BY <2>2, <2>3 DEF Overwrites, N
<1>3. Single(rows')
  BY <1>1 DEF SerialRow
<1> QED
  BY <1>1, <1>2, <1>3 DEF SerialInv

\* Handled alone, a request keeps the serial invariant.
LEMMA SerialStep == IInv /\ SerialInv /\ Alone /\ Alone' /\ [Next]_vars => SerialInv'
<1> SUFFICES ASSUME IInv, SerialInv, Alone, Alone', [Next]_vars PROVE SerialInv'
  OBVIOUS
<1>0. Facts /\ TypeOK
  BY FactsAre DEF Facts
<1>1. CASE UNCHANGED vars
  <2>1. UNCHANGED <<maker, rows, count, phase, at, tx, save, wiped, overwritten>>
    BY <1>1 DEF vars, tables, locals, history
  <2>2. ASSUME NEW r \in Requests, Busy(r)' PROVE SerialRow(r)'
    <3>1. SerialRow(r)
      BY <2>1, <2>2 DEF SerialInv, Busy
    <3>2. \A c : N(c, tx[r].put)' = N(c, tx[r].put) /\ N(c, save[r].put)' = N(c, save[r].put)
      BY <2>1 DEF N, Of
    <3>3. \A c : (Inserted(r, c)' <=> Inserted(r, c)) /\ (Exists(r, c)' <=> Exists(r, c))
      BY <2>1 DEF Inserted, Exists
    <3>4. Single(rows \cup tx[r].put)' <=> Single(rows \cup tx[r].put)
      BY <2>1 DEF Single
    <3> QED
      BY <2>1, <3>1, <3>2, <3>3, <3>4 DEF SerialRow
  <2>3. Single(rows)' <=> Single(rows)
    BY <2>1 DEF Single
  <2> QED
    BY <2>1, <2>2, <2>3 DEF SerialInv
<1>2. CASE Next
  <2>1. PICK r \in Requests : Step(r)
    BY <1>2 DEF Next
  <2>2. \A q \in Requests : q # r => phase'[q] = phase[q]
    BY <1>0, <2>1 DEF Step, TypeOK, Begin, Load, FindLearner, CheckIdentity, InsertLearner, Collide,
       Skip, Enroll, Bump, Release, RowFail, Commit, Lose, locals
  <2>3. Busy(r) \/ Busy(r)'
    BY <1>0, <2>1 DEF Busy, TypeOK, Step, Begin, Load, FindLearner, CheckIdentity, InsertLearner, Collide,
       Skip, Enroll, Bump, Release, RowFail, Commit, Lose, InRow
  <2>4. \A q \in Requests : q # r => ~Busy(q)'
    BY <2>2, <2>3, OnlyOne
  <2>5. Busy(r) => SerialRow(r)
    BY DEF SerialInv
  <2> SUFFICES Single(rows') /\ overwritten' = {} /\ wiped' = {} /\ (Busy(r)' => SerialRow(r)')
    BY <2>4 DEF SerialInv
  <2>6. ASSUME UNCHANGED <<rows, overwritten, wiped>> PROVE Single(rows') /\ overwritten' = {} /\ wiped' = {}
    BY <2>6 DEF SerialInv
  <2>7. CASE \E k \in Kinds : Begin(r, k)
    BY <1>0, <2>6, <2>7, SerialBegin DEF Begin, tables, history
  <2>8. CASE \E e \in Emails, cs \in SUBSET Courses : Load(r, e, cs)
    BY <1>0, <2>5, <2>6, <2>8, SerialLoad DEF Load, Busy, tables, history
  <2>9. CASE FindLearner(r)
    <3>1. UNCHANGED <<maker, rows, count, tx, save, at, wiped, overwritten>> /\ phase[r] = "loaded" /\ phase'[r] \in {"placed", "fresh"}
      BY <1>0, <2>9 DEF FindLearner, TypeOK, tables, locals, history
    <3>2. SerialRow(r)
      BY <2>5, <3>1 DEF Busy
    <3> QED
      BY <2>6, <3>1, <3>2, SameRow DEF InRow
  <2>10. CASE CheckIdentity(r)
    <3>1. /\ UNCHANGED <<maker, rows, count, tx, save, wiped, overwritten>>
          /\ phase[r] = "fresh" /\ phase'[r] = "checked"
          /\ at'[r].left = at[r].left /\ at'[r].seen = at[r].seen
          /\ at'[r].known = {f \in Emails : Exists(r, f)}
      BY <1>0, <2>10 DEF CheckIdentity, TypeOK, Works, tables, history
    <3>2. SerialRow(r)
      BY <2>5, <3>1 DEF Busy
    <3>3. \A f \in Emails : Exists(r, f) => f \in at'[r].known
      BY <3>1
    <3>4. phase[r] \in InRow /\ phase'[r] \in InRow
      BY <3>1 DEF InRow
    <3> QED
      BY <2>6, <3>1, <3>2, <3>3, <3>4, SameRow
  <2>11. CASE InsertLearner(r)
    BY <1>0, <2>5, <2>6, <2>11, SerialInsertLearner DEF InsertLearner, Busy, tables, history
  <2>12. CASE Collide(r)
    BY <1>0, <2>12, SerialNoCollision
  <2>13. CASE \E c \in Courses : Skip(r, c)
    <3>1. /\ UNCHANGED <<maker, rows, count, tx, save, phase, wiped, overwritten>>
          /\ phase[r] = "placed" /\ at'[r].left \subseteq at[r].left /\ at'[r].seen = at[r].seen
      BY <1>0, <2>13 DEF Skip, TypeOK, Works, tables, history
    <3>2. SerialRow(r)
      BY <2>5, <3>1 DEF Busy
    <3>3. phase[r] \in InRow
      BY <3>1 DEF InRow
    <3> QED
      BY <2>6, <3>1, <3>2, <3>3, SameRow
  <2>14. CASE \E c \in Courses : Enroll(r, c)
    BY <1>0, <2>5, <2>6, <2>14, SerialEnroll DEF Enroll, Busy, tables, history
  <2>15. CASE Bump(r)
    BY <1>0, <2>5, <2>6, <2>15, SerialBump DEF Bump, Busy, tables, history
  <2>16. CASE Release(r)
    BY <1>0, <2>5, <2>6, <2>16, SerialRelease DEF Release, Busy, tables, history
  <2>17. CASE RowFail(r)
    <3>1. Busy(r)
      BY <2>17 DEF RowFail, Busy, InRow
    <3> QED
      BY <1>0, <2>5, <2>6, <2>17, <3>1, SerialRowFail DEF RowFail, tables, history
  <2>18. CASE Commit(r)
    <3>1. phase[r] = "row" /\ phase'[r] = "ended" /\ wiped' = wiped
      BY <1>0, <2>18, CommitDoes
    <3> QED
      BY <1>0, <2>5, <2>18, <3>1, SerialCommit DEF Busy, SerialInv
  <2>19. CASE Lose(r)
    <3>1. phase'[r] = "lost" /\ UNCHANGED <<rows, overwritten, wiped>>
      BY <1>0, <2>19 DEF Lose, TypeOK, tables, history
    <3> QED
      BY <2>6, <3>1 DEF Busy
  <2> QED
    BY <2>1, <2>7, <2>8, <2>9, <2>10, <2>11, <2>12, <2>13, <2>14, <2>15, <2>16, <2>17, <2>18, <2>19 DEF Step
<1> QED
  BY <1>1, <1>2

\* The serial invariant holds as long as requests come one after the other.
LEMMA SerialInvariant == SerialSpec => [](IInv /\ SerialInv)
<1>1. Init => SerialInv
  <2> SUFFICES ASSUME Init PROVE SerialInv
    OBVIOUS
  <2>1. \A r \in Requests : ~Busy(r)
    BY DEF Init, Busy
  <2>2. Single(rows)
    BY DEF Init, Single
  <2> QED
    BY <2>1, <2>2 DEF Init, SerialInv
<1> QED
  BY <1>1, SerialStep, Invariant, PTL DEF SerialSpec, Spec

\* One request at a time, a learner is enrolled in a course once, every count is
\* the number of enrolments, and what any request has reported is in the database.
THEOREM SerialIsExact == SerialSpec => []SerialPromises
<1>1. IInv /\ SerialInv => SerialPromises
  <2> SUFFICES ASSUME IInv, SerialInv PROVE SerialPromises
    OBVIOUS
  <2>1. \A c \in Courses : count[c] = Cardinality(Of(c, rows))
    BY DEF IInv, SerialInv, CountIsExplained
  <2>2. \A r \in Requests : phase[r] = "ended" =>
          \A p \in told[r] : maker[p[1]] # "none" /\ Enrolled(p[1], p[2], rows)
    <3>1. IInv => ReportedIsKept
      BY ReportedFollows
    <3> QED
      BY <3>1 DEF SerialInv, ReportedIsKept
  <2> QED
    BY <2>1, <2>2 DEF SerialInv, SerialPromises
<1> QED
  BY <1>1, SerialInvariant, PTL
=============================================================================
