----------------------- MODULE CourseCompletion_proofs -----------------------
(***************************************************************************)
(* Proofs about CourseCompletion for any number of modules and requests.   *)
(* The inductive invariant says what each kind of request carries from one *)
(* statement to the next: the modules it has counted have been completed    *)
(* or will be by its commit, the row it has loaded is still there, the row  *)
(* it has written is locked.  The last part is about requests that are      *)
(* handled one after the other.                                             *)
(***************************************************************************)
EXTENDS CourseCompletion, FiniteSetTheorems, TLAPS

\* A loaded row exists; a row exists only once its request has ended; modules are
\* evaluated together with a row.
RowsKnown ==
    /\ \A r \in Requests : seen[r].row # "none" => rows[seen[r].row] # NoRow
    /\ \A r \in Requests : rows[r] # NoRow => phase[r] = "ended"
    /\ ~behind => Stored # {}

\* Which phases a kind of request goes through, and what it changes of the modules.
PhaseOfKind ==
    \A r \in Requests :
        /\ phase[r] = "new" => kind[r] = "none"
        /\ phase[r] \in {"loaded", "evaluated", "flushed"} => kind[r] \in Kinds \ {"issue", "track"}
        /\ phase[r] = "settled" => kind[r] \in {"progress", "heartbeat"}
        /\ phase[r] = "submitted" => kind[r] = "submit"
        /\ phase[r] = "minting" => kind[r] \in {"progress", "submit", "issue"}
        /\ kind[r] # "progress" => plan[r].adds = {}
        /\ kind[r] \notin {"progress", "heartbeat"} => plan[r].drops = {}
        /\ plan[r].adds \cap plan[r].drops = {}
        /\ seen[r].row = "none" => seen[r].status = "in_progress"

\* A progress update counts modules that have been completed, or that it completes, and
\* its status follows from their number.
UpdateIsSound ==
    \A r \in Requests :
        kind[r] = "progress" /\ phase[r] \in {"evaluated", "flushed", "settled", "minting"} =>
            /\ plan[r].counted \subseteq ever \cup plan[r].adds
            /\ write[r].status \in {"in_progress", "pending_grade", "completed"}
            /\ write[r].status = "in_progress" <=> ~Enough(plan[r].counted)
            /\ phase[r] = "minting" => write[r].status = "completed"

\* What the other requests write.
OthersAreSound ==
    \A r \in Requests :
        /\ kind[r] = "heartbeat" /\ phase[r] \in {"evaluated", "flushed", "settled"} =>
              write[r].status = Beaten(seen[r].status)
        /\ kind[r] = "enroll" /\ phase[r] \in {"evaluated", "flushed"} =>
              seen[r].row = "none" /\ write[r] = Enrolled
        /\ kind[r] = "submit" /\ phase[r] \in {"evaluated", "flushed"} =>
              /\ seen[r].row # "none" /\ write[r].status = "submitted"
              /\ plan[r].counted = Modules
        /\ kind[r] = "submit" /\ phase[r] \in {"evaluated", "flushed", "submitted", "minting"} =>
              ever = Modules

\* A finished row, a certificate and a certificate request rest on enough modules.
RecordsAreEarned ==
    /\ (\E o \in Owners : rows[o].status \in Finished) => Enough(ever)
    /\ \A r \in Requests : phase[r] = "minting" /\ kind[r] = "issue" => Enough(ever)
    /\ CertificateIsEarned

Minting(r) == phase[r] = "minting" /\ Locked(r)

\* A progress update that writes the row holds its lock, so one at most is minting,
\* and it found no certificate.
LockIsHeld ==
    /\ \A r \in Requests :
          Locked(r) /\ phase[r] \in {"flushed", "settled", "minting"} => holder[seen[r].row] = r
    /\ \A r, q \in Requests : Minting(r) /\ Minting(q) => r = q
    /\ \A r \in Requests, q \in certs : Minting(r) => ~Locked(q)
    /\ \A q \in certs : phase[q] = "ended"
    /\ OneCertificateUnderTheLock

IInv ==
    /\ TypeOK
    /\ RowsKnown
    /\ PhaseOfKind
    /\ UpdateIsSound
    /\ OthersAreSound
    /\ RecordsAreEarned
    /\ LockIsHeld
    /\ CompletionIsRecorded

\* Sizes of sets of modules.
LEMMA ModuleCounts ==
    /\ N \in Nat \ {0}
    /\ \A S \in SUBSET Modules : Cardinality(S) \in 0..N
    /\ \A S, T \in SUBSET Modules : S \subseteq T => Cardinality(S) <= Cardinality(T)
<1>1. \A S \in SUBSET Modules : IsFiniteSet(S) /\ Cardinality(S) \in Nat /\ Cardinality(S) <= N
  BY ModulesAssumption, FS_Subset, FS_CardinalityType DEF N
<1>2. \A S, T \in SUBSET Modules : S \subseteq T => Cardinality(S) <= Cardinality(T)
  BY <1>1, FS_Subset
<1>3. N \in Nat /\ N # 0
  BY ModulesAssumption, FS_CardinalityType, FS_EmptySet DEF N
<1> QED
  BY <1>1, <1>2, <1>3

\* The rule never asks for more than the modules there are.
LEMMA RuleBound == TypeOK => rule.needed \in 0..N /\ Cardinality(Modules) = N
  BY DEF TypeOK, Rules, N

\* What FinishedIsKept says of one step.
FinishedKept ==
    \A o \in Owners : rows[o].status \in Finished /\ rows'[o].status \notin Finished
      => \/ ~Enough(done')
         \/ \E r \in Requests : Commit(r) /\ Overtaken(r)

\* A step of the abstract record, or none.
Abstract == [Issuance!Next]_(Issuance!vars)

\* A commit removes no row.
LEMMA StoredStays ==
    ASSUME IInv, NEW r \in Requests, Commit(r)
    PROVE  write[r] # NoRow /\ \A o \in Owners : rows[o] # NoRow => rows'[o] # NoRow
<1> USE DEF IInv, TypeOK, RowsKnown, Row, NoRow, Statuses
<1>1. write[r] # NoRow
  OBVIOUS
<1>2. CASE seen[r].row = "none"
  BY <1>1, <1>2 DEF Commit
<1>3. CASE seen[r].row # "none"
  <2>1. rows[seen[r].row] \in Row /\ seen[r].row \in Owners
    BY <1>3 DEF Owners
  <2>2. Apply(r, rows[seen[r].row]) # NoRow
    BY <2>1 DEF Apply
  <2> QED
    BY <1>1, <1>3, <2>1, <2>2 DEF Commit
<1> QED
  BY <1>1, <1>2, <1>3

\* What a commit does to the modules.
LEMMA CommitModules ==
    ASSUME IInv, NEW r \in Requests, Commit(r)
    PROVE  /\ done' = (done \cup plan[r].adds) \ plan[r].drops
           /\ ever' = ever \cup plan[r].adds
           /\ done' \in SUBSET Modules /\ ever' \in SUBSET Modules /\ done' \subseteq ever'
           /\ rule' = rule
<1>1. /\ plan[r].adds \in SUBSET Modules /\ plan[r].adds \cap plan[r].drops = {}
      /\ done \subseteq ever /\ ever \subseteq Modules
  BY DEF IInv, TypeOK, PhaseOfKind, Plans
<1>2. /\ done' = (done \cup plan[r].adds) \ plan[r].drops
      /\ ever' = ever \cup ((done \cup plan[r].adds) \ plan[r].drops)
      /\ rule' = rule
  BY DEF Commit, CompletedBy
<1> QED
  BY <1>1, <1>2

\* A commit that takes a row out of a finished status was overtaken or leaves too few
\* modules completed.
LEMMA CommitKeeps ==
    ASSUME IInv, NEW r \in Requests, Commit(r)
    PROVE  FinishedKept
<1> USE DEF IInv, TypeOK, PhaseOfKind, Kinds
<1> SUFFICES ASSUME NEW o \in Owners, rows[o].status \in Finished, rows'[o].status \notin Finished
             PROVE  Overtaken(r) \/ ~Enough(done')
  BY DEF FinishedKept
<1>2. seen[r].row = o
  <2>1. CASE seen[r].row = "none"
    <3>1. rows[r] = NoRow
      BY DEF RowsKnown, Commit, Ready
    <3> QED
      BY <2>1, <3>1 DEF Commit, NoRow, Finished
  <2>2. CASE seen[r].row # "none"
    BY <2>2 DEF Commit
  <2> QED
    BY <2>1, <2>2
<1>3. o # "none"
  BY NamesAssumption DEF Owners
<1>4. write[r].status # seen[r].status /\ write[r].status \notin Finished
  BY <1>2, <1>3 DEF Commit, Apply
<1>5. CASE kind[r] = "progress"
  <2>1. ~Enough(plan[r].counted)
    BY <1>4, <1>5 DEF UpdateIsSound, Commit, Ready, Finished
  <2>2. CASE plan[r].counted = CompletedBy(r)
    <3>1. done' = plan[r].counted
      BY <2>2 DEF Commit
    <3>2. rule' = rule
      BY DEF Commit
    <3> QED
      BY <2>1, <3>1, <3>2 DEF Enough
  <2> QED
    BY <1>5, <2>2 DEF Overtaken
<1>6. CASE kind[r] = "heartbeat"
  <2>1. seen[r].status = "not_started"
    BY <1>4, <1>6 DEF OthersAreSound, Commit, Ready, Beaten
  <2> QED
    BY <1>2, <1>3, <1>4, <1>6, <2>1 DEF Overtaken, RowMoved, Finished
<1>7. kind[r] # "submit"
  BY <1>4 DEF OthersAreSound, Commit, Ready, Finished
<1>8. kind[r] # "enroll"
  BY <1>2, <1>3 DEF OthersAreSound, Commit, Ready
<1> QED
  BY <1>5, <1>6, <1>7, <1>8 DEF Commit, Ready

\* What an update plans.
LEMMA EvaluatePlans ==
    ASSUME NEW r \in Requests, Evaluate(r)
    PROVE  \E adds \in SUBSET (Modules \ done), drops \in SUBSET done :
              /\ plan' = [plan EXCEPT ![r] =
                    [adds |-> adds, drops |-> drops, counted |-> (done \cup adds) \ drops]]
              /\ write' = [write EXCEPT ![r] = Evaluation((done \cup adds) \ drops)]
  BY DEF Evaluate

\* The types are preserved.
LEMMA TypeStep == IInv /\ [Next]_vars => TypeOK'
<1> SUFFICES ASSUME IInv, [Next]_vars PROVE TypeOK'
  OBVIOUS
<1> USE NamesAssumption DEF IInv, TypeOK, RowsKnown, PhaseOfKind, tables, locals, Row, Enrolled, NoRow, Unread, Plans, NoPlan, Statuses, Owners, Kinds, Phases
<1>1. ASSUME Regrade
      PROVE  TypeOK'
  BY <1>1 DEF Regrade
<1>2. ASSUME NEW r \in Requests, NEW k \in Kinds, Load(r, k)
      PROVE  TypeOK'
  <2>1. PICK o \in Owners \cup {"none"} : Finds(o) /\ seen' = [seen EXCEPT ![r] = View(o)]
    BY <1>2 DEF Load
  <2>2. View(o) \in [row : Owners \cup {"none"}, status : Statuses, pct : 0..N]
    BY <2>1, ModuleCounts DEF View, Finds, IsNewest, Stored
  <2>3. seen' \in [Requests -> [row : Owners \cup {"none"}, status : Statuses, pct : 0..N]]
    BY <2>1, <2>2
  <2>4. Cardinality({q \in Requests : phase[q] # "new"}) + 1 \in Nat
    <3> DEFINE begun == {q \in Requests : phase[q] # "new"}
    <3>1. begun \in SUBSET Requests
      OBVIOUS
    <3> HIDE DEF begun
    <3>2. Cardinality(begun) \in Nat
      BY <3>1, RequestsAssumption, FS_Subset, FS_CardinalityType
    <3> QED
      BY <3>2 DEF begun
  <2> QED
    BY <1>2, <2>3, <2>4 DEF Load
<1>3. ASSUME NEW r \in Requests, Evaluate(r)
      PROVE  TypeOK'
  <2>1. PICK adds \in SUBSET (Modules \ done), drops \in SUBSET done :
          /\ plan' = [plan EXCEPT ![r] =
                [adds |-> adds, drops |-> drops, counted |-> (done \cup adds) \ drops]]
          /\ write' = [write EXCEPT ![r] = Evaluation((done \cup adds) \ drops)]
    BY <1>3, EvaluatePlans
  <2>2. (done \cup adds) \ drops \in SUBSET Modules /\ adds \in SUBSET Modules /\ drops \in SUBSET Modules
    OBVIOUS
  <2>3. Evaluation((done \cup adds) \ drops) \in Row
    BY <2>2, ModuleCounts DEF Evaluation, NewState
  <2> QED
    BY <1>3, <2>1, <2>2, <2>3 DEF Evaluate
<1>4. ASSUME NEW r \in Requests, Check(r)
      PROVE  TypeOK'
  <2>1. [NoPlan EXCEPT !.counted = done] \in Plans
    OBVIOUS
  <2> HIDE DEF NoPlan, Plans
  <2> QED
    BY <1>4, <2>1, ModuleCounts DEF Check
<1>5. ASSUME NEW r \in Requests, Touch(r)
      PROVE  TypeOK'
  BY <1>5 DEF Touch, Beaten
<1>6. ASSUME NEW r \in Requests, Enroll(r)
      PROVE  TypeOK'
  BY <1>6, ModuleCounts DEF Enroll
<1>7. ASSUME NEW r \in Requests, Flush(r)
      PROVE  TypeOK'
  BY <1>7 DEF Flush
<1>8. ASSUME NEW r \in Requests, Certify(r)
      PROVE  TypeOK'
  BY <1>8 DEF Certify, CompletedNow, Eligible, EligibleRow
<1>9. ASSUME NEW r \in Requests, Commit(r)
      PROVE  TypeOK'
  <2>1. rows' \in [Owners -> Row \cup {NoRow}]
    <3>1. seen[r].row = "none" => rows' = [rows EXCEPT ![r] = write[r]]
      BY <1>9 DEF Commit
    <3>2. CASE seen[r].row # "none"
      <4>1. rows[seen[r].row] \in Row
        BY <3>2
      <4>2. Apply(r, rows[seen[r].row]) \in Row
        BY <4>1 DEF Apply
      <4> QED
        BY <1>9, <3>2, <4>2 DEF Commit
    <3>3. write[r] \in Row \cup {NoRow} /\ rows \in [Owners -> Row \cup {NoRow}] /\ r \in Owners
      OBVIOUS
    <3> HIDE DEF Row, NoRow, Owners
    <3> QED
      BY <3>1, <3>2, <3>3
  <2>2. holder' \in [Owners -> Requests \cup {"nobody"}]
    BY <1>9 DEF Commit
  <2>3. done' \subseteq ever' /\ ever' \subseteq Modules /\ certs' \subseteq Requests
    BY <1>9, CommitModules DEF Commit
  <2> QED
    BY <1>9, <2>1, <2>2, <2>3 DEF Commit
<1>10. ASSUME NEW r \in Requests, Generate(r)
      PROVE  TypeOK'
  BY <1>10 DEF Generate
<1>11. ASSUME NEW r \in Requests, Issue(r)
      PROVE  TypeOK'
  BY <1>11 DEF Issue, EligibleRow
<1>12. ASSUME NEW r \in Requests, Award(r)
      PROVE  TypeOK'
  BY <1>12 DEF Award
<1>13. ASSUME NEW r \in Requests, Revisit(r)
      PROVE  TypeOK'
  <2>1. PICK m \in Modules \ done : plan' = [plan EXCEPT ![r] = [NoPlan EXCEPT !.drops = {m}]]
    BY <1>13 DEF Revisit
  <2>2. [NoPlan EXCEPT !.drops = {m}] \in Plans
    OBVIOUS
  <2> HIDE DEF NoPlan, Plans
  <2> QED
    BY <1>13, <2>1, <2>2 DEF Revisit
<1>14. ASSUME NEW r \in Requests, NEW m \in Modules, Track(r, m)
      PROVE  TypeOK'
  BY <1>14 DEF Track
<1>15. ASSUME NEW r \in Requests, Fail(r)
      PROVE  TypeOK'
  <2>1. NoPlan \in Plans /\ Enrolled \in Row
        /\ Unread \in [row : Owners \cup {"none"}, status : Statuses, pct : 0..N]
    BY ModuleCounts
  <2> HIDE DEF NoPlan, Plans, Enrolled, Row, Unread
  <2> QED
    BY <1>15, <2>1 DEF Fail
<1>16. CASE UNCHANGED vars
  BY <1>16 DEF vars
<1> HIDE DEF IInv, TypeOK, RowsKnown, PhaseOfKind, tables, locals, Row, Enrolled, NoRow, Unread, Plans, NoPlan, Statuses, Owners, Kinds, Phases
<1> QED
  BY <1>1, <1>2, <1>3, <1>4, <1>5, <1>6, <1>7, <1>8, <1>9, <1>10, <1>11, <1>12, <1>13, <1>14, <1>15, <1>16 DEF Next, Step

\* Rows stay, and are inserted once, together with the modules.
LEMMA KnownStep == IInv /\ [Next]_vars => RowsKnown'
<1> SUFFICES ASSUME IInv, [Next]_vars PROVE RowsKnown'
  OBVIOUS
<1> USE NamesAssumption DEF IInv, TypeOK, tables, locals, RowsKnown, PhaseOfKind, OthersAreSound, Row, NoRow, Enrolled, Statuses, Owners, Kinds, Stored
<1>1. ASSUME Regrade
      PROVE  RowsKnown'
  BY <1>1 DEF Regrade
<1>2. ASSUME NEW r \in Requests, NEW k \in Kinds, Load(r, k)
      PROVE  RowsKnown'
  <2>1. PICK o \in Owners \cup {"none"} : Finds(o) /\ seen' = [seen EXCEPT ![r] = View(o)]
    BY <1>2 DEF Load
  <2>2. View(o).row = o /\ (o # "none" => rows[o] # NoRow)
    BY <2>1 DEF View, Unread, Finds, IsNewest, Stored
  <2> QED
    BY <1>2, <2>1, <2>2 DEF Load
<1>3. ASSUME NEW r \in Requests, Evaluate(r)
      PROVE  RowsKnown'
  BY <1>3 DEF Evaluate, Evaluation, NewState
<1>4. ASSUME NEW r \in Requests, Check(r)
      PROVE  RowsKnown'
  BY <1>4 DEF Check
<1>5. ASSUME NEW r \in Requests, Touch(r)
      PROVE  RowsKnown'
  BY <1>5 DEF Touch, Beaten
<1>6. ASSUME NEW r \in Requests, Enroll(r)
      PROVE  RowsKnown'
  BY <1>6 DEF Enroll
<1>7. ASSUME NEW r \in Requests, Flush(r)
      PROVE  RowsKnown'
  BY <1>7 DEF Flush
<1>8. ASSUME NEW r \in Requests, Certify(r)
      PROVE  RowsKnown'
  BY <1>8 DEF Certify, CompletedNow, Eligible, EligibleRow
<1>9. ASSUME NEW r \in Requests, Commit(r)
      PROVE  RowsKnown'
  <2>1. phase[r] \notin {"new", "ended"} /\ kind[r] \in Kinds \ {"issue"}
    BY <1>9 DEF Commit, Ready
  <2>2. write[r] # NoRow /\ write[r] \in Row
    OBVIOUS
  <2>3. CASE seen[r].row = "none"
    <3>1. rows' = [rows EXCEPT ![r] = write[r]]
      BY <1>9, <2>3 DEF Commit
    <3>2. kind[r] # "submit"
      BY <1>9, <2>3 DEF Commit, Ready
    <3>3. phase' = [phase EXCEPT ![r] = "ended"] /\ seen' = seen
      BY <1>9, <3>2 DEF Commit
    <3>4. rows'[r] # NoRow
      BY <3>1, <2>2
    <3> QED
      BY <3>1, <3>3, <3>4
  <2>4. CASE seen[r].row # "none"
    <3>1. rows[seen[r].row] \in Row /\ seen[r].row \in Owners
      BY <2>4
    <3>2. Apply(r, rows[seen[r].row]) # NoRow
      BY <3>1, <2>2 DEF Apply
    <3>3. rows' = [rows EXCEPT ![seen[r].row] = Apply(r, rows[seen[r].row])]
      BY <1>9, <2>4 DEF Commit
    <3>4. \A o \in Owners : rows'[o] # NoRow <=> rows[o] # NoRow
      BY <3>1, <3>2, <3>3, <2>4
    <3>5. seen' = seen /\ \A q \in Requests : phase[q] = "ended" => phase'[q] = "ended"
      BY <1>9, <2>1 DEF Commit
    <3>6. rows'[seen[r].row] # NoRow
      BY <3>1, <3>4, <2>4
    <3> QED
      BY <3>1, <3>4, <3>5, <3>6
  <2> QED
    BY <2>3, <2>4
<1>10. ASSUME NEW r \in Requests, Generate(r)
      PROVE  RowsKnown'
  BY <1>10 DEF Generate
<1>11. ASSUME NEW r \in Requests, Issue(r)
      PROVE  RowsKnown'
  BY <1>11 DEF Issue, EligibleRow
<1>12. ASSUME NEW r \in Requests, Award(r)
      PROVE  RowsKnown'
  BY <1>12 DEF Award
<1>13. ASSUME NEW r \in Requests, Revisit(r)
      PROVE  RowsKnown'
  BY <1>13 DEF Revisit
<1>14. ASSUME NEW r \in Requests, NEW m \in Modules, Track(r, m)
      PROVE  RowsKnown'
  BY <1>14 DEF Track
<1>15. ASSUME NEW r \in Requests, Fail(r)
      PROVE  RowsKnown'
  BY <1>15 DEF Fail, Unread
<1>16. CASE UNCHANGED vars
  BY <1>16 DEF vars
<1> HIDE DEF IInv, TypeOK, tables, locals, RowsKnown, PhaseOfKind, OthersAreSound, Row, NoRow, Enrolled, Statuses, Owners, Kinds, Stored
<1> QED
  BY <1>1, <1>2, <1>3, <1>4, <1>5, <1>6, <1>7, <1>8, <1>9, <1>10, <1>11, <1>12, <1>13, <1>14, <1>15, <1>16 DEF Next, Step

\* Each kind of request keeps to its phases.
LEMMA PhaseStep == IInv /\ [Next]_vars => PhaseOfKind'
<1> SUFFICES ASSUME IInv, [Next]_vars PROVE PhaseOfKind'
  OBVIOUS
<1> USE NamesAssumption DEF IInv, TypeOK, Plans, NoPlan, tables, locals, PhaseOfKind, Owners, Kinds
<1>1. ASSUME Regrade
      PROVE  PhaseOfKind'
  BY <1>1 DEF Regrade
<1>2. ASSUME NEW r \in Requests, NEW k \in Kinds, Load(r, k)
      PROVE  PhaseOfKind'
  <2>1. PICK o \in Owners \cup {"none"} : seen' = [seen EXCEPT ![r] = View(o)]
    BY <1>2 DEF Load
  <2>2. View(o).row = "none" => View(o).status = "in_progress"
    BY <2>1 DEF View, Unread
  <2> QED
    BY <1>2, <2>1, <2>2 DEF Load
<1>3. ASSUME NEW r \in Requests, Evaluate(r)
      PROVE  PhaseOfKind'
  <2>1. PICK adds \in SUBSET (Modules \ done), drops \in SUBSET done :
          plan' = [plan EXCEPT ![r] =
                [adds |-> adds, drops |-> drops, counted |-> (done \cup adds) \ drops]]
    <3> HIDE DEF IInv, TypeOK, Plans, NoPlan, PhaseOfKind, Owners, Kinds
    <3> QED
      BY <1>3, EvaluatePlans
  <2> QED
    BY <1>3, <2>1 DEF Evaluate
<1>4. ASSUME NEW r \in Requests, Check(r)
      PROVE  PhaseOfKind'
  BY <1>4 DEF Check
<1>5. ASSUME NEW r \in Requests, Touch(r)
      PROVE  PhaseOfKind'
  BY <1>5 DEF Touch, Beaten
<1>6. ASSUME NEW r \in Requests, Enroll(r)
      PROVE  PhaseOfKind'
  BY <1>6 DEF Enroll
<1>7. ASSUME NEW r \in Requests, Flush(r)
      PROVE  PhaseOfKind'
  BY <1>7 DEF Flush
<1>8. ASSUME NEW r \in Requests, Certify(r)
      PROVE  PhaseOfKind'
  BY <1>8 DEF Certify, CompletedNow, Eligible, EligibleRow
<1>9. ASSUME NEW r \in Requests, Commit(r)
      PROVE  PhaseOfKind'
  BY <1>9 DEF Commit, Ready, Apply, CompletedBy
<1>10. ASSUME NEW r \in Requests, Generate(r)
      PROVE  PhaseOfKind'
  BY <1>10 DEF Generate
<1>11. ASSUME NEW r \in Requests, Issue(r)
      PROVE  PhaseOfKind'
  BY <1>11 DEF Issue, EligibleRow
<1>12. ASSUME NEW r \in Requests, Award(r)
      PROVE  PhaseOfKind'
  BY <1>12 DEF Award
<1>13. ASSUME NEW r \in Requests, Revisit(r)
      PROVE  PhaseOfKind'
  BY <1>13 DEF Revisit
<1>14. ASSUME NEW r \in Requests, NEW m \in Modules, Track(r, m)
      PROVE  PhaseOfKind'
  BY <1>14 DEF Track
<1>15. ASSUME NEW r \in Requests, Fail(r)
      PROVE  PhaseOfKind'
  BY <1>15 DEF Fail, Unread
<1>16. CASE UNCHANGED vars
  BY <1>16 DEF vars
<1> HIDE DEF IInv, TypeOK, Plans, NoPlan, tables, locals, PhaseOfKind, Owners, Kinds
<1> QED
  BY <1>1, <1>2, <1>3, <1>4, <1>5, <1>6, <1>7, <1>8, <1>9, <1>10, <1>11, <1>12, <1>13, <1>14, <1>15, <1>16 DEF Next, Step

\* What an update has counted stays counted.
LEMMA UpdateStep == IInv /\ [Next]_vars => UpdateIsSound'
<1> SUFFICES ASSUME IInv, [Next]_vars PROVE UpdateIsSound'
  OBVIOUS
<1> USE NamesAssumption DEF IInv, TypeOK, tables, locals, PhaseOfKind, UpdateIsSound, Enough
<1>1. ASSUME Regrade
      PROVE  UpdateIsSound'
  BY <1>1 DEF Regrade
<1>2. ASSUME NEW r \in Requests, NEW k \in Kinds, Load(r, k)
      PROVE  UpdateIsSound'
  BY <1>2 DEF Load, View, Finds, IsNewest, Unread
<1>3. ASSUME NEW r \in Requests, Evaluate(r)
      PROVE  UpdateIsSound'
  BY <1>3 DEF Evaluate, Evaluation, NewState
<1>4. ASSUME NEW r \in Requests, Check(r)
      PROVE  UpdateIsSound'
  BY <1>4 DEF Check
<1>5. ASSUME NEW r \in Requests, Touch(r)
      PROVE  UpdateIsSound'
  BY <1>5 DEF Touch, Beaten
<1>6. ASSUME NEW r \in Requests, Enroll(r)
      PROVE  UpdateIsSound'
  BY <1>6 DEF Enroll
<1>7. ASSUME NEW r \in Requests, Flush(r)
      PROVE  UpdateIsSound'
  BY <1>7 DEF Flush
<1>8. ASSUME NEW r \in Requests, Certify(r)
      PROVE  UpdateIsSound'
  BY <1>8 DEF Certify, CompletedNow
<1>9. ASSUME NEW r \in Requests, Commit(r)
      PROVE  UpdateIsSound'
  BY <1>9 DEF Commit, Ready, Apply, CompletedBy
<1>10. ASSUME NEW r \in Requests, Generate(r)
      PROVE  UpdateIsSound'
  BY <1>10 DEF Generate
<1>11. ASSUME NEW r \in Requests, Issue(r)
      PROVE  UpdateIsSound'
  BY <1>11 DEF Issue, EligibleRow
<1>12. ASSUME NEW r \in Requests, Award(r)
      PROVE  UpdateIsSound'
  BY <1>12 DEF Award
<1>13. ASSUME NEW r \in Requests, Revisit(r)
      PROVE  UpdateIsSound'
  BY <1>13 DEF Revisit
<1>14. ASSUME NEW r \in Requests, NEW m \in Modules, Track(r, m)
      PROVE  UpdateIsSound'
  BY <1>14 DEF Track
<1>15. ASSUME NEW r \in Requests, Fail(r)
      PROVE  UpdateIsSound'
  BY <1>15 DEF Fail
<1>16. CASE UNCHANGED vars
  BY <1>16 DEF vars
<1> HIDE DEF IInv, TypeOK, tables, locals, PhaseOfKind, UpdateIsSound, Enough
<1> QED
  BY <1>1, <1>2, <1>3, <1>4, <1>5, <1>6, <1>7, <1>8, <1>9, <1>10, <1>11, <1>12, <1>13, <1>14, <1>15, <1>16 DEF Next, Step

\* What the others carry stays true.
LEMMA OthersStep == IInv /\ [Next]_vars => OthersAreSound'
<1> SUFFICES ASSUME IInv, [Next]_vars PROVE OthersAreSound'
  OBVIOUS
<1> USE NamesAssumption DEF IInv, TypeOK, RowsKnown, Plans, NoPlan, tables, locals, PhaseOfKind, OthersAreSound, Kinds, Enrolled, Beaten
<1>1. ASSUME Regrade
      PROVE  OthersAreSound'
  BY <1>1 DEF Regrade
<1>2. ASSUME NEW r \in Requests, NEW k \in Kinds, Load(r, k)
      PROVE  OthersAreSound'
  BY <1>2 DEF Load, View, Finds, IsNewest, Unread
<1>3. ASSUME NEW r \in Requests, Evaluate(r)
      PROVE  OthersAreSound'
  BY <1>3 DEF Evaluate, Evaluation, NewState
<1>4. ASSUME NEW r \in Requests, Check(r)
      PROVE  OthersAreSound'
  BY <1>4 DEF Check
<1>5. ASSUME NEW r \in Requests, Touch(r)
      PROVE  OthersAreSound'
  BY <1>5 DEF Touch, Beaten
<1>6. ASSUME NEW r \in Requests, Enroll(r)
      PROVE  OthersAreSound'
  BY <1>6 DEF Enroll
<1>7. ASSUME NEW r \in Requests, Flush(r)
      PROVE  OthersAreSound'
  BY <1>7 DEF Flush
<1>8. ASSUME NEW r \in Requests, Certify(r)
      PROVE  OthersAreSound'
  BY <1>8 DEF Certify, CompletedNow, Eligible, EligibleRow
<1>9. ASSUME NEW r \in Requests, Commit(r)
      PROVE  OthersAreSound'
  BY <1>9 DEF Commit, Ready, CompletedBy
<1>10. ASSUME NEW r \in Requests, Generate(r)
      PROVE  OthersAreSound'
  BY <1>10 DEF Generate
<1>11. ASSUME NEW r \in Requests, Issue(r)
      PROVE  OthersAreSound'
  BY <1>11 DEF Issue, EligibleRow
<1>12. ASSUME NEW r \in Requests, Award(r)
      PROVE  OthersAreSound'
  BY <1>12 DEF Award
<1>13. ASSUME NEW r \in Requests, Revisit(r)
      PROVE  OthersAreSound'
  BY <1>13 DEF Revisit
<1>14. ASSUME NEW r \in Requests, NEW m \in Modules, Track(r, m)
      PROVE  OthersAreSound'
  BY <1>14 DEF Track
<1>15. ASSUME NEW r \in Requests, Fail(r)
      PROVE  OthersAreSound'
  BY <1>15 DEF Fail
<1>16. CASE UNCHANGED vars
  BY <1>16 DEF vars
<1> HIDE DEF IInv, TypeOK, RowsKnown, Plans, NoPlan, tables, locals, PhaseOfKind, OthersAreSound, Kinds, Enrolled, Beaten
<1> QED
  BY <1>1, <1>2, <1>3, <1>4, <1>5, <1>6, <1>7, <1>8, <1>9, <1>10, <1>11, <1>12, <1>13, <1>14, <1>15, <1>16 DEF Next, Step

\* Records rest on enough modules.
LEMMA EarnedStep == IInv /\ [Next]_vars => RecordsAreEarned'
<1> SUFFICES ASSUME IInv, [Next]_vars PROVE RecordsAreEarned'
  OBVIOUS
<1> USE NamesAssumption DEF IInv, TypeOK, Plans, tables, locals, RowsKnown, PhaseOfKind, UpdateIsSound, OthersAreSound, RecordsAreEarned, CertificateIsEarned, Enough, Finished, Owners
<1>1. ASSUME Regrade
      PROVE  RecordsAreEarned'
  BY <1>1 DEF Regrade
<1>2. ASSUME NEW r \in Requests, NEW k \in Kinds, Load(r, k)
      PROVE  RecordsAreEarned'
  BY <1>2 DEF Load, View, Finds, IsNewest, Unread
<1>3. ASSUME NEW r \in Requests, Evaluate(r)
      PROVE  RecordsAreEarned'
  BY <1>3 DEF Evaluate, Evaluation, NewState
<1>4. ASSUME NEW r \in Requests, Check(r)
      PROVE  RecordsAreEarned'
  BY <1>4 DEF Check
<1>5. ASSUME NEW r \in Requests, Touch(r)
      PROVE  RecordsAreEarned'
  BY <1>5 DEF Touch, Beaten
<1>6. ASSUME NEW r \in Requests, Enroll(r)
      PROVE  RecordsAreEarned'
  BY <1>6 DEF Enroll
<1>7. ASSUME NEW r \in Requests, Flush(r)
      PROVE  RecordsAreEarned'
  BY <1>7 DEF Flush
<1>8. ASSUME NEW r \in Requests, Certify(r)
      PROVE  RecordsAreEarned'
  BY <1>8 DEF Certify, CompletedNow, Eligible, EligibleRow
<1>9. ASSUME NEW r \in Requests, Commit(r)
      PROVE  RecordsAreEarned'
  <2>0. /\ ever \in SUBSET Modules /\ ever' \in SUBSET Modules /\ ever \subseteq ever'
        /\ ever' = ever \cup plan[r].adds /\ rule' = rule
    BY <1>9, CommitModules
  <2>a. Cardinality(ever) <= Cardinality(ever')
    BY <2>0, ModuleCounts
  <2>b. rule.needed \in Nat /\ Cardinality(ever) \in Nat /\ Cardinality(ever') \in Nat
    BY <2>0, ModuleCounts, RuleBound
  <2>1. Enough(ever) => Enough(ever)'
    BY <2>0, <2>a, <2>b
  <2>2. write[r].status \in Finished /\ kind[r] # "heartbeat" => Enough(ever)'
    <3> SUFFICES ASSUME write[r].status \in Finished, kind[r] # "heartbeat" PROVE Enough(ever)'
      OBVIOUS
    <3>1. CASE kind[r] = "progress"
      <4>1. plan[r].counted \subseteq ever' /\ Enough(plan[r].counted)
        BY <1>9, <3>1, <2>0 DEF Commit, Ready
      <4>2. plan[r].counted \in SUBSET Modules
        BY <4>1, <2>0
      <4>3. Cardinality(plan[r].counted) <= Cardinality(ever') /\ Cardinality(plan[r].counted) \in Nat
        BY <4>1, <4>2, <2>0, ModuleCounts
      <4> QED
        BY <4>1, <4>3, <2>0, <2>b
    <3>2. CASE kind[r] = "submit"
      <4>1. ever = Modules
        BY <1>9, <3>2 DEF Commit, Ready
      <4>2. ever' = Modules
        BY <4>1, <2>0
      <4> QED
        BY <4>2, <2>0, ModuleCounts, RuleBound
    <3>3. kind[r] # "enroll"
      BY <1>9 DEF Commit, Ready, Enrolled
    <3> QED
      BY <1>9, <3>1, <3>2, <3>3 DEF Commit, Ready, Kinds
  <2>3. \A o \in Owners : rows'[o].status \in Finished => Enough(ever)'
    <3> SUFFICES ASSUME NEW o \in Owners, rows'[o].status \in Finished PROVE Enough(ever)'
      OBVIOUS
    <3>1. CASE rows'[o] = rows[o]
      BY <3>1, <2>1
    <3>2. CASE seen[r].row = "none" /\ o = r
      <4>1. rows'[o] = write[r]
        BY <1>9, <3>2 DEF Commit
      <4>2. kind[r] = "heartbeat" => write[r].status \notin Finished
        BY <1>9, <3>2 DEF Ready, Commit, Beaten
      <4> QED
        BY <4>1, <4>2, <2>2
    <3>3. CASE seen[r].row # "none" /\ o = seen[r].row
      <4>1. rows'[o] = Apply(r, rows[o])
        BY <1>9, <3>3 DEF Commit
      <4>2. CASE write[r].status = seen[r].status
        BY <4>1, <4>2, <2>1 DEF Apply
      <4>3. CASE write[r].status # seen[r].status
        <5>1. kind[r] = "heartbeat" => write[r].status \notin Finished
          BY <1>9, <4>3 DEF Ready, Commit, Beaten
        <5> QED
          BY <4>1, <4>3, <5>1, <2>2 DEF Apply
      <4> QED
        BY <4>2, <4>3
    <3> QED
      BY <1>9, <3>1, <3>2, <3>3 DEF Commit
  <2>4. phase[r] = "minting" => Enough(ever)'
    BY <1>9, <2>2 DEF Commit, Ready
  <2>5. \A q \in Requests : phase'[q] = "minting" /\ kind'[q] = "issue" => phase[q] = "minting" /\ kind[q] = "issue"
    BY <1>9 DEF Commit
  <2>6. certs' # {} => certs # {} \/ phase[r] = "minting"
    BY <1>9 DEF Commit
  <2> HIDE DEF Enough, Finished
  <2> QED
    BY <2>1, <2>3, <2>4, <2>5, <2>6
<1>10. ASSUME NEW r \in Requests, Generate(r)
      PROVE  RecordsAreEarned'
  BY <1>10 DEF Generate
<1>11. ASSUME NEW r \in Requests, Issue(r)
      PROVE  RecordsAreEarned'
  <2>1. Enough(ever)
    BY <1>11 DEF Issue, EligibleRow
  <2> QED
    BY <1>11, <2>1 DEF Issue
<1>12. ASSUME NEW r \in Requests, Award(r)
      PROVE  RecordsAreEarned'
  <2>1. Enough(ever)
    BY <1>12, ModuleCounts, RuleBound DEF Award
  <2> QED
    BY <1>12, <2>1 DEF Award
<1>13. ASSUME NEW r \in Requests, Revisit(r)
      PROVE  RecordsAreEarned'
  BY <1>13 DEF Revisit
<1>14. ASSUME NEW r \in Requests, NEW m \in Modules, Track(r, m)
      PROVE  RecordsAreEarned'
  <2>1. ever \in SUBSET Modules /\ ever' \in SUBSET Modules /\ ever \subseteq ever' /\ rule' = rule
    BY <1>14 DEF Track
  <2>a. Cardinality(ever) <= Cardinality(ever')
    BY <2>1, ModuleCounts
  <2>b. Cardinality(ever) \in Nat /\ Cardinality(ever') \in Nat
    BY <2>1, ModuleCounts
  <2>3. rule.needed \in Nat
    BY ModuleCounts, RuleBound
  <2>4. Enough(ever) => Enough(ever)'
    BY <2>1, <2>a, <2>b, <2>3
  <2>5. \A q \in Requests : phase'[q] = "minting" /\ kind'[q] = "issue" => phase[q] = "minting" /\ kind[q] = "issue"
    BY <1>14 DEF Track
  <2>6. certs' = certs /\ rows' = rows
    BY <1>14 DEF Track
  <2> HIDE DEF Enough, Finished
  <2> QED
    BY <2>4, <2>5, <2>6
<1>15. ASSUME NEW r \in Requests, Fail(r)
      PROVE  RecordsAreEarned'
  BY <1>15 DEF Fail
<1>16. CASE UNCHANGED vars
  BY <1>16 DEF vars
<1> HIDE DEF IInv, TypeOK, Plans, tables, locals, RowsKnown, PhaseOfKind, UpdateIsSound, OthersAreSound, RecordsAreEarned, CertificateIsEarned, Enough, Finished, Owners
<1> QED
  BY <1>1, <1>2, <1>3, <1>4, <1>5, <1>6, <1>7, <1>8, <1>9, <1>10, <1>11, <1>12, <1>13, <1>14, <1>15, <1>16 DEF Next, Step

\* The lock is held from the flush to the commit.
LEMMA LockStep == IInv /\ [Next]_vars => LockIsHeld'
<1> SUFFICES ASSUME IInv, [Next]_vars PROVE LockIsHeld'
  OBVIOUS
<1> USE NamesAssumption DEF IInv, TypeOK, tables, locals, RowsKnown, PhaseOfKind, LockIsHeld, OneCertificateUnderTheLock, Minting, Locked, Updates, Owners, Kinds
<1>1. ASSUME Regrade
      PROVE  LockIsHeld'
  BY <1>1 DEF Regrade
<1>2. ASSUME NEW r \in Requests, NEW k \in Kinds, Load(r, k)
      PROVE  LockIsHeld'
  BY <1>2 DEF Load, View, Finds, IsNewest, Unread
<1>3. ASSUME NEW r \in Requests, Evaluate(r)
      PROVE  LockIsHeld'
  BY <1>3 DEF Evaluate, Evaluation, NewState
<1>4. ASSUME NEW r \in Requests, Check(r)
      PROVE  LockIsHeld'
  BY <1>4 DEF Check
<1>5. ASSUME NEW r \in Requests, Touch(r)
      PROVE  LockIsHeld'
  BY <1>5 DEF Touch, Beaten
<1>6. ASSUME NEW r \in Requests, Enroll(r)
      PROVE  LockIsHeld'
  BY <1>6 DEF Enroll
<1>7. ASSUME NEW r \in Requests, Flush(r)
      PROVE  LockIsHeld'
  BY <1>7 DEF Flush
<1>8. ASSUME NEW r \in Requests, Certify(r)
      PROVE  LockIsHeld'
  <2>1. CASE ~(Updates(r) /\ phase'[r] = "minting")
    BY <1>8, <2>1 DEF Certify
  <2>2. CASE Updates(r) /\ phase'[r] = "minting"
    <3>1. holder[seen[r].row] = r /\ certs = {} /\ kind[r] = "progress"
      BY <1>8, <2>2 DEF Certify
    <3>2. \A o, p \in Stored : o = p
      BY <1>8 DEF Certify
    <3>3. ASSUME NEW q \in Requests, Minting(q) PROVE q = r
      <4>1. holder[seen[q].row] = q /\ seen[q].row \in Stored /\ seen[r].row \in Stored
        BY <1>8, <3>1, <3>3, <2>2 DEF Stored
      <4> QED
        BY <4>1, <3>1, <3>2
    <3> QED
      BY <1>8, <3>1, <3>3, <2>2 DEF Certify
  <2> QED
    BY <2>1, <2>2
<1>9. ASSUME NEW r \in Requests, Commit(r)
      PROVE  LockIsHeld'
  <2>1. phase[r] \notin {"new", "ended"} /\ phase'[r] \in {"submitted", "ended"}
    BY <1>9 DEF Commit, Ready
  <2>2. phase' = [phase EXCEPT ![r] = phase'[r]]
    BY <1>9, <2>1 DEF Commit
  <2>3. \A q \in Requests : q # r /\ phase[q] \in {"flushed", "settled", "minting"} /\ Locked(q)
           => holder'[seen[q].row] = q
    BY <1>9 DEF Commit
  <2>4. \A q \in Requests : Minting(q)' => q # r /\ Minting(q)
    BY <1>9, <2>1, <2>2 DEF Commit
  <2>5. certs' = certs \/ (certs' = certs \cup {r} /\ phase[r] = "minting" /\ phase'[r] = "ended" /\ kind[r] = "progress")
    BY <1>9 DEF Commit, Ready
  <2>6. \A q \in Requests : Locked(q)' = Locked(q)
    BY <1>9 DEF Commit
  <2> HIDE DEF Minting, Locked
  <2>7. \A q \in Requests, p \in certs' : Minting(q)' => ~Locked(p)
    BY <2>4, <2>5 DEF Minting
  <2>8. \A q, p \in certs' : Locked(q) /\ Locked(p) => q = p
    BY <2>5 DEF Minting
  <2>9. \A q \in certs' : phase'[q] = "ended"
    BY <2>2, <2>5, <2>1
  <2>10. \A q \in Requests : Locked(q)' /\ phase'[q] \in {"flushed", "settled", "minting"} => (holder[seen[q].row] = q)'
    BY <1>9, <2>1, <2>2, <2>3, <2>6 DEF Commit
  <2>11. \A q \in certs' : q \in Requests
    BY <2>5
  <2> QED
    BY <2>4, <2>6, <2>7, <2>8, <2>9, <2>10, <2>11
<1>10. ASSUME NEW r \in Requests, Generate(r)
      PROVE  LockIsHeld'
  BY <1>10 DEF Generate
<1>11. ASSUME NEW r \in Requests, Issue(r)
      PROVE  LockIsHeld'
  BY <1>11 DEF Issue, EligibleRow
<1>12. ASSUME NEW r \in Requests, Award(r)
      PROVE  LockIsHeld'
  BY <1>12 DEF Award
<1>13. ASSUME NEW r \in Requests, Revisit(r)
      PROVE  LockIsHeld'
  BY <1>13 DEF Revisit
<1>14. ASSUME NEW r \in Requests, NEW m \in Modules, Track(r, m)
      PROVE  LockIsHeld'
  BY <1>14 DEF Track
<1>15. ASSUME NEW r \in Requests, Fail(r)
      PROVE  LockIsHeld'
  BY <1>15 DEF Fail
<1>16. CASE UNCHANGED vars
  BY <1>16 DEF vars
<1> HIDE DEF IInv, TypeOK, tables, locals, RowsKnown, PhaseOfKind, LockIsHeld, OneCertificateUnderTheLock, Minting, Locked, Updates, Owners, Kinds
<1> QED
  BY <1>1, <1>2, <1>3, <1>4, <1>5, <1>6, <1>7, <1>8, <1>9, <1>10, <1>11, <1>12, <1>13, <1>14, <1>15, <1>16 DEF Next, Step

\* The row of an evaluated course is finished exactly when enough modules are completed.
LEMMA RecordedStep == IInv /\ [Next]_vars => CompletionIsRecorded'
<1> SUFFICES ASSUME IInv, [Next]_vars PROVE CompletionIsRecorded'
  OBVIOUS
<1> USE NamesAssumption DEF IInv, TypeOK, tables, locals, RowsKnown, PhaseOfKind, UpdateIsSound, OthersAreSound, RecordsAreEarned, CompletionIsRecorded, Enough, Stored, Finished, Owners, Kinds
<1>1. ASSUME Regrade
      PROVE  CompletionIsRecorded'
  BY <1>1 DEF Regrade
<1>2. ASSUME NEW r \in Requests, NEW k \in Kinds, Load(r, k)
      PROVE  CompletionIsRecorded'
  BY <1>2 DEF Load, View, Finds, IsNewest, Unread
<1>3. ASSUME NEW r \in Requests, Evaluate(r)
      PROVE  CompletionIsRecorded'
  BY <1>3 DEF Evaluate, Evaluation, NewState
<1>4. ASSUME NEW r \in Requests, Check(r)
      PROVE  CompletionIsRecorded'
  BY <1>4 DEF Check
<1>5. ASSUME NEW r \in Requests, Touch(r)
      PROVE  CompletionIsRecorded'
  BY <1>5 DEF Touch, Beaten
<1>6. ASSUME NEW r \in Requests, Enroll(r)
      PROVE  CompletionIsRecorded'
  BY <1>6 DEF Enroll
<1>7. ASSUME NEW r \in Requests, Flush(r)
      PROVE  CompletionIsRecorded'
  BY <1>7 DEF Flush
<1>8. ASSUME NEW r \in Requests, Certify(r)
      PROVE  CompletionIsRecorded'
  BY <1>8 DEF Certify, CompletedNow, Eligible, EligibleRow
<1>9. ASSUME NEW r \in Requests, Commit(r)
      PROVE  CompletionIsRecorded'
  <2> SUFFICES ASSUME NEW o \in Owners, Stored' = {o}, ~behind'
               PROVE  rows'[o].status \in Finished <=> Enough(done)'
    OBVIOUS
  <2>1. /\ ~Overtaken(r) /\ Stored \subseteq Stored' /\ rule' = rule
        /\ behind => kind[r] \in {"progress", "submit"}
    <3>1. \A p \in Owners : rows[p] # NoRow => rows'[p] # NoRow
      BY <1>9, StoredStays DEF Commit
    <3> QED
      BY <1>9, <3>1 DEF Commit
  <2>2. kind[r] \in {"progress", "submit"} => (write[r].status \in Finished <=> Enough(done)')
    <3> SUFFICES ASSUME kind[r] \in {"progress", "submit"}
                 PROVE  write[r].status \in Finished <=> Enough(done)'
      OBVIOUS
    <3>1. plan[r].counted = done'
      BY <1>9, <2>1 DEF Commit, Overtaken
    <3>2. CASE kind[r] = "progress"
      BY <1>9, <3>1, <3>2, <2>1 DEF Commit, Ready
    <3>3. CASE kind[r] = "submit"
      <4>1. done' = Modules /\ write[r].status = "submitted"
        BY <1>9, <3>1, <3>3 DEF Commit, Ready
      <4>2. rule.needed \in 0..N /\ Cardinality(Modules) = N /\ N \in Nat
        BY ModuleCounts, RuleBound
      <4> QED
        BY <4>1, <4>2, <2>1
    <3> QED
      BY <3>2, <3>3
  <2>4. CASE seen[r].row = "none"
    <3>1. rows' = [rows EXCEPT ![r] = write[r]]
      BY <1>9, <2>4 DEF Commit
    <3>a. write[r] # NoRow
      BY <1>9, StoredStays
    <3>b. rows'[r] = write[r]
      BY <3>1
    <3>2. rows[r] = NoRow /\ r \in Stored'
      <4>1. phase[r] # "ended"
        BY <1>9 DEF Commit, Ready
      <4> HIDE DEF NoRow, Row
      <4> QED
        BY <3>a, <3>b, <4>1
    <3>3. o = r /\ Stored = {}
      BY <2>1, <3>2
    <3>4. kind[r] \in {"progress", "submit"}
      BY <2>1, <3>3
    <3> QED
      BY <2>2, <3>b, <3>3, <3>4
  <2>5. CASE seen[r].row # "none"
    <3>1. seen[r].row = o /\ Stored = {o} /\ rows'[o] = Apply(r, rows[o])
      BY <1>9, <2>1, <2>5 DEF Commit
    <3>2. CASE kind[r] \in {"progress", "submit"}
      <4>1. rows'[o].status = write[r].status
        BY <3>1, <3>2, <2>1, <2>5 DEF Apply, Overtaken, RowMoved
      <4> QED
        BY <3>2, <4>1, <2>2
    <3>3. CASE kind[r] = "heartbeat"
      <4>1. done' = done /\ ~behind
        <5>1. plan[r].adds = {} /\ plan[r].drops \cap done = {} /\ ~behind
          BY <3>3, <2>1 DEF Overtaken
        <5>2. done' = (done \cup plan[r].adds) \ plan[r].drops
          BY <1>9, CommitModules
        <5> QED
          BY <5>1, <5>2
      <4>2. rows[o].status \in Finished <=> Enough(done)'
        BY <3>1, <4>1, <2>1
      <4>3. write[r].status # seen[r].status =>
               rows[o].status = seen[r].status /\ seen[r].status = "not_started" /\ write[r].status = "in_progress"
        BY <1>9, <2>1, <2>5, <3>1, <3>3 DEF Commit, Ready, Overtaken, RowMoved, Beaten
      <4> QED
        BY <3>1, <4>2, <4>3 DEF Apply
    <3>4. kind[r] # "enroll"
      BY <1>9, <2>5 DEF Commit, Ready
    <3> QED
      BY <1>9, <3>2, <3>3, <3>4 DEF Commit, Ready
  <2> QED
    BY <2>4, <2>5
<1>10. ASSUME NEW r \in Requests, Generate(r)
      PROVE  CompletionIsRecorded'
  BY <1>10 DEF Generate
<1>11. ASSUME NEW r \in Requests, Issue(r)
      PROVE  CompletionIsRecorded'
  BY <1>11 DEF Issue, EligibleRow
<1>12. ASSUME NEW r \in Requests, Award(r)
      PROVE  CompletionIsRecorded'
  BY <1>12 DEF Award
<1>13. ASSUME NEW r \in Requests, Revisit(r)
      PROVE  CompletionIsRecorded'
  BY <1>13 DEF Revisit
<1>14. ASSUME NEW r \in Requests, NEW m \in Modules, Track(r, m)
      PROVE  CompletionIsRecorded'
  BY <1>14 DEF Track
<1>15. ASSUME NEW r \in Requests, Fail(r)
      PROVE  CompletionIsRecorded'
  BY <1>15 DEF Fail
<1>16. CASE UNCHANGED vars
  BY <1>16 DEF vars
<1> HIDE DEF IInv, TypeOK, tables, locals, RowsKnown, PhaseOfKind, UpdateIsSound, OthersAreSound, RecordsAreEarned, CompletionIsRecorded, Enough, Stored, Finished, Owners, Kinds
<1> QED
  BY <1>1, <1>2, <1>3, <1>4, <1>5, <1>6, <1>7, <1>8, <1>9, <1>10, <1>11, <1>12, <1>13, <1>14, <1>15, <1>16 DEF Next, Step

\* The initial state satisfies the inductive invariant.
LEMMA InitIInv == Init => IInv
<1> SUFFICES ASSUME Init PROVE IInv
  OBVIOUS
<1> USE NamesAssumption, ModuleCounts DEF Init, NoRow, Unread, NoPlan, Enrolled, Owners, Finished
<1>1. TypeOK
  BY DEF TypeOK, Row, Plans, Statuses, Phases
<1>2. RowsKnown /\ PhaseOfKind
  BY DEF RowsKnown, PhaseOfKind
<1>3. UpdateIsSound /\ OthersAreSound
  BY DEF UpdateIsSound, OthersAreSound
<1>4. RecordsAreEarned
  <2>1. \A o \in Owners : rows[o] = Enrolled \/ rows[o] = NoRow
    OBVIOUS
  <2>2. \A o \in Owners : rows[o].status \notin Finished
    BY <2>1
  <2> QED
    BY <2>2 DEF RecordsAreEarned, CertificateIsEarned
<1>5. LockIsHeld
  BY DEF LockIsHeld, Minting, Locked, OneCertificateUnderTheLock
<1>6. CompletionIsRecorded
  BY DEF CompletionIsRecorded
<1> QED
  BY <1>1, <1>2, <1>3, <1>4, <1>5, <1>6 DEF IInv

\* Every step keeps the inductive invariant: the step lemmas together.
LEMMA StepIInv == IInv /\ [Next]_vars => IInv'
  BY TypeStep, KnownStep, PhaseStep, UpdateStep, OthersStep, EarnedStep, LockStep,
     RecordedStep DEF IInv

\* The inductive invariant holds in every behaviour.
LEMMA Invariant == Spec => []IInv
  BY InitIInv, StepIInv, PTL DEF Spec

\* The variables keep their types.
THEOREM TypeCorrect == Spec => []TypeOK
<1>1. IInv => TypeOK
  BY DEF IInv
<1> QED
  BY <1>1, Invariant, PTL

\* A certificate comes after as many modules as the rule asks for have been completed.
THEOREM CertificatesAreEarned == Spec => []CertificateIsEarned
<1>1. IInv => CertificateIsEarned
  BY DEF IInv, RecordsAreEarned
<1> QED
  BY <1>1, Invariant, PTL

\* Updates that write the row issue one certificate between them.
THEOREM LockIssuesOnce == Spec => []OneCertificateUnderTheLock
<1>1. IInv => OneCertificateUnderTheLock
  BY DEF IInv, LockIsHeld
<1> QED
  BY <1>1, Invariant, PTL

\* The row of an evaluated course is finished exactly when enough modules are completed.
THEOREM CompletionStaysRecorded == Spec => []CompletionIsRecorded
<1>1. IInv => CompletionIsRecorded
  BY DEF IInv
<1> QED
  BY <1>1, Invariant, PTL

\* Only an overtaken request, or one that leaves too few modules, takes a row out of a
\* finished status.
LEMMA FinishedStep == IInv /\ [Next]_vars => FinishedKept
<1> SUFFICES ASSUME IInv, [Next]_vars PROVE FinishedKept
  OBVIOUS
<1> USE NamesAssumption DEF FinishedKept, tables, locals
<1>1. ASSUME Regrade
      PROVE  FinishedKept
  BY <1>1 DEF Regrade
<1>2. ASSUME NEW r \in Requests, NEW k \in Kinds, Load(r, k)
      PROVE  FinishedKept
  BY <1>2 DEF Load, View, Finds, IsNewest, Unread
<1>3. ASSUME NEW r \in Requests, Evaluate(r)
      PROVE  FinishedKept
  BY <1>3 DEF Evaluate, Evaluation, NewState
<1>4. ASSUME NEW r \in Requests, Check(r)
      PROVE  FinishedKept
  BY <1>4 DEF Check
<1>5. ASSUME NEW r \in Requests, Touch(r)
      PROVE  FinishedKept
  BY <1>5 DEF Touch, Beaten
<1>6. ASSUME NEW r \in Requests, Enroll(r)
      PROVE  FinishedKept
  BY <1>6 DEF Enroll
<1>7. ASSUME NEW r \in Requests, Flush(r)
      PROVE  FinishedKept
  BY <1>7 DEF Flush
<1>8. ASSUME NEW r \in Requests, Certify(r)
      PROVE  FinishedKept
  BY <1>8 DEF Certify, CompletedNow, Eligible, EligibleRow
<1>9. ASSUME NEW r \in Requests, Commit(r)
      PROVE  FinishedKept
  BY <1>9, CommitKeeps
<1>10. ASSUME NEW r \in Requests, Generate(r)
      PROVE  FinishedKept
  BY <1>10 DEF Generate
<1>11. ASSUME NEW r \in Requests, Issue(r)
      PROVE  FinishedKept
  BY <1>11 DEF Issue, EligibleRow
<1>12. ASSUME NEW r \in Requests, Award(r)
      PROVE  FinishedKept
  BY <1>12 DEF Award
<1>13. ASSUME NEW r \in Requests, Revisit(r)
      PROVE  FinishedKept
  BY <1>13 DEF Revisit
<1>14. ASSUME NEW r \in Requests, NEW m \in Modules, Track(r, m)
      PROVE  FinishedKept
  BY <1>14 DEF Track
<1>15. ASSUME NEW r \in Requests, Fail(r)
      PROVE  FinishedKept
  BY <1>15 DEF Fail
<1>16. CASE UNCHANGED vars
  BY <1>16 DEF vars
<1> HIDE DEF FinishedKept, tables, locals
<1> QED
  BY <1>1, <1>2, <1>3, <1>4, <1>5, <1>6, <1>7, <1>8, <1>9, <1>10, <1>11, <1>12, <1>13, <1>14, <1>15, <1>16 DEF Next, Step

\* Only an overtaken request, or one that leaves too few modules, takes a row out of a
\* finished status.
THEOREM FinishedStaysKept == Spec => FinishedIsKept
<1>1. IInv /\ [Next]_vars => [FinishedKept]_vars
  BY FinishedStep
<1> QED
  BY <1>1, Invariant, PTL DEF Spec, FinishedIsKept, FinishedKept

\* Every step is an answer of the abstract record, or none.
LEMMA RefineStep == IInv /\ [Next]_vars => Abstract
<1> SUFFICES ASSUME IInv, [Next]_vars PROVE Abstract
  OBVIOUS
<1> USE NamesAssumption DEF Abstract, tables, locals
<1>1. ASSUME Regrade
      PROVE  Abstract
  BY <1>1 DEF Regrade, Enough, Issuance!vars
<1>2. ASSUME NEW r \in Requests, NEW k \in Kinds, Load(r, k)
      PROVE  Abstract
  BY <1>2 DEF Load, View, Finds, IsNewest, Enough, Issuance!vars
<1>3. ASSUME NEW r \in Requests, Evaluate(r)
      PROVE  Abstract
  BY <1>3 DEF Evaluate, Evaluation, NewState, Enough, Issuance!vars
<1>4. ASSUME NEW r \in Requests, Check(r)
      PROVE  Abstract
  BY <1>4 DEF Check, Enough, Issuance!vars
<1>5. ASSUME NEW r \in Requests, Touch(r)
      PROVE  Abstract
  BY <1>5 DEF Touch, Beaten, Enough, Issuance!vars
<1>6. ASSUME NEW r \in Requests, Enroll(r)
      PROVE  Abstract
  BY <1>6 DEF Enroll, Enough, Issuance!vars
<1>7. ASSUME NEW r \in Requests, Flush(r)
      PROVE  Abstract
  BY <1>7 DEF Flush, Enough, Issuance!vars
<1>8. ASSUME NEW r \in Requests, Certify(r)
      PROVE  Abstract
  BY <1>8 DEF Certify, CompletedNow, Eligible, EligibleRow, Enough, Issuance!vars
<1>9. ASSUME NEW r \in Requests, Commit(r)
      PROVE  Abstract
  <2>1. /\ rule' = rule /\ done' = (done \cup plan[r].adds) \ plan[r].drops
        /\ ever' = ever \cup plan[r].adds /\ ever' \in SUBSET Modules
    BY <1>9, CommitModules
  <2>2. /\ plan[r].adds \in SUBSET Modules /\ plan[r].drops \in SUBSET Modules
        /\ plan[r].adds \cap plan[r].drops = {}
    BY DEF IInv, TypeOK, Plans, PhaseOfKind
  <2>3. certs' # {} => ever' \in {S \in SUBSET Modules : Enough(S)}
    BY <2>1, EarnedStep DEF RecordsAreEarned, CertificateIsEarned, Enough
  <2>4. CASE phase[r] = "minting"
    <3>1. certs' = certs \cup {r} /\ {r} \in SUBSET Requests
      BY <1>9, <2>4 DEF Commit
    <3>2. Issuance!Answer(plan[r].adds, plan[r].drops, {r})
      BY <2>1, <2>2, <2>3, <3>1 DEF Issuance!Answer, Enough
    <3> QED
      BY <2>2, <3>1, <3>2 DEF Issuance!Next
  <2>5. CASE phase[r] # "minting"
    <3>1. certs' = certs \cup {}
      BY <1>9, <2>5 DEF Commit
    <3>2. Issuance!Answer(plan[r].adds, plan[r].drops, {})
      BY <2>1, <2>2, <2>3, <3>1 DEF Issuance!Answer, Enough
    <3>3. {} \in SUBSET Requests
      OBVIOUS
    <3> QED
      BY <2>2, <3>2, <3>3 DEF Issuance!Next
  <2> QED
    BY <2>4, <2>5
<1>10. ASSUME NEW r \in Requests, Generate(r)
      PROVE  Abstract
  BY <1>10 DEF Generate, Enough, Issuance!vars
<1>11. ASSUME NEW r \in Requests, Issue(r)
      PROVE  Abstract
  BY <1>11 DEF Issue, EligibleRow, Enough, Issuance!vars
<1>12. ASSUME NEW r \in Requests, Award(r)
      PROVE  Abstract
  <2>1. rule' = rule /\ done' = (done \cup {}) \ {} /\ ever' = ever \cup {} /\ certs' = certs \cup {r}
    BY <1>12 DEF Award
  <2>2. ever' \in SUBSET Modules
    BY <2>1 DEF IInv, TypeOK
  <2>3. ever' \in {S \in SUBSET Modules : Enough(S)}
    BY <2>1, <2>2, EarnedStep DEF RecordsAreEarned, CertificateIsEarned, Enough
  <2>4. Issuance!Answer({}, {}, {r})
    BY <2>1, <2>3 DEF Issuance!Answer, Enough
  <2>5. {} \in SUBSET Modules /\ {r} \in SUBSET Requests
    OBVIOUS
  <2> QED
    BY <2>4, <2>5 DEF Issuance!Next
<1>13. ASSUME NEW r \in Requests, Revisit(r)
      PROVE  Abstract
  BY <1>13 DEF Revisit, Enough, Issuance!vars
<1>14. ASSUME NEW r \in Requests, NEW m \in Modules, Track(r, m)
      PROVE  Abstract
  <2>1. {m} \in SUBSET Modules /\ {} \in SUBSET Modules /\ {} \in SUBSET Requests
    OBVIOUS
  <2>2. rule' = rule /\ certs' = certs \cup {} /\ ever' = ever \cup {m} /\ done \subseteq ever
    BY <1>14 DEF Track, IInv, TypeOK
  <2>3. CASE m \in done
    <3>1. done' = (done \cup {}) \ {m} /\ ever' = ever \cup {}
      BY <1>14, <2>2, <2>3 DEF Track
    <3>2. Issuance!Answer({}, {m}, {})
      BY <2>2, <3>1 DEF Issuance!Answer, Enough
    <3> QED
      BY <2>1, <3>2 DEF Issuance!Next
  <2>4. CASE m \notin done
    <3>1. done' = (done \cup {m}) \ {}
      BY <1>14, <2>4 DEF Track
    <3>2. Issuance!Answer({m}, {}, {})
      BY <2>2, <3>1 DEF Issuance!Answer, Enough
    <3> QED
      BY <2>1, <3>2 DEF Issuance!Next
  <2> QED
    BY <2>3, <2>4
<1>15. ASSUME NEW r \in Requests, Fail(r)
      PROVE  Abstract
  BY <1>15 DEF Fail, Enough, Issuance!vars
<1>16. CASE UNCHANGED vars
  BY <1>16 DEF vars, Enough, Issuance!vars
<1> HIDE DEF Abstract, tables, locals
<1> QED
  BY <1>1, <1>2, <1>3, <1>4, <1>5, <1>6, <1>7, <1>8, <1>9, <1>10, <1>11, <1>12, <1>13, <1>14, <1>15, <1>16 DEF Next, Step

\* The detailed model implements the abstract record of one course.
THEOREM Implements == Spec => ImplementsIssuance
<1>1. Init => Issuance!Init
  <2> SUFFICES ASSUME Init PROVE Issuance!Init
    OBVIOUS
  <2> QED
    BY DEF Init, Issuance!Init
<1>2. IInv /\ [Next]_vars => [Issuance!Next]_(Issuance!vars)
  BY RefineStep DEF Abstract
<1> QED
  BY <1>1, <1>2, Invariant, PTL DEF Spec, Issuance!Spec, ImplementsIssuance

-----------------------------------------------------------------------------
(* One request at a time.  A second row, a second certificate, a status that  *)
(* does not fit the modules and a finished row that is put back for nothing   *)
(* are races: nothing in the database prevents them, but requests handled one *)
(* after the other never make them.                                          *)

\* A request that has begun and not been answered.
Busy(r) == phase[r] \notin {"new", "ended"}

\* A request begins when no other is open.
InTurn == \A r \in Requests : phase[r] = "new" /\ phase'[r] # "new" => \A q \in Requests : ~Busy(q)

\* The requests are handled one after the other; any of them may fail, and grades
\* change at any time.
SerialSpec == Spec /\ [][InTurn]_vars

Alone == \A p, q \in Requests : Busy(p) /\ Busy(q) => p = q

\* What was promised with exceptions, with fewer of them.
SerialPromises ==
    /\ \A o, p \in Stored : o = p
    /\ \A r, q \in certs : r = q
    /\ ~behind => \A o \in Stored : rows[o].status \in Finished <=> Enough(done)

\* No request commits what it has computed from something that has changed.
NobodyOvertaken == [][\A r \in Requests : Commit(r) => ~Overtaken(r)]_vars

\* A finished row leaves its status only when too few modules are left.
FinishedWhileEnough ==
    [][\A o \in Owners : rows[o].status \in Finished /\ rows'[o].status \notin Finished => ~Enough(done')]_vars

\* The request still holds what it has loaded of the row.
HasRow(r) ==
    \/ phase[r] \in {"loaded", "evaluated", "flushed", "settled"}
    \/ phase[r] = "minting" /\ kind[r] = "progress"

\* What the one open request has read is what is there.
SerialRequest(r) ==
    /\ HasRow(r) => IF seen[r].row = "none" THEN Stored = {}
                    ELSE rows[seen[r].row].status = seen[r].status
    /\ HasRow(r) /\ kind[r] \in {"progress", "submit"} /\ phase[r] # "loaded" =>
          plan[r].counted = CompletedBy(r)
    /\ HasRow(r) /\ kind[r] = "heartbeat" => plan[r].drops \cap done = {}
    /\ phase[r] = "minting" => certs = {}

SerialInv ==
    /\ Alone
    /\ \A o, p \in Stored : o = p
    /\ \A r, q \in certs : r = q
    /\ \A r \in Requests : Busy(r) => SerialRequest(r)

\* A request that is alone overtakes nobody when it commits.
LEMMA SerialSound ==
    ASSUME IInv, SerialInv, NEW r \in Requests, Commit(r)
    PROVE  SerialRequest(r) /\ HasRow(r) /\ ~Overtaken(r)
<1> USE NamesAssumption
<1>1. SerialRequest(r) /\ HasRow(r)
  BY DEF Commit, Ready, SerialInv, Busy, HasRow, IInv, PhaseOfKind
<1>2. ~Overtaken(r)
  BY <1>1 DEF Overtaken, RowMoved, SerialRequest, Commit, Ready
<1> QED
  BY <1>1, <1>2

\* Its commit leaves one row and one certificate.
LEMMA SerialCommit ==
    ASSUME IInv, SerialInv, NEW r \in Requests, Commit(r)
    PROVE  /\ \A o, p \in Stored' : o = p
           /\ \A q, p \in certs' : q = p
           /\ phase'[r] \in {"submitted", "ended"}
<1> USE NamesAssumption
<1>1. SerialRequest(r) /\ HasRow(r)
  BY SerialSound
<1>4. phase'[r] \in {"submitted", "ended"}
  BY DEF Commit, IInv, TypeOK
<1>5. \A q, p \in certs' : q = p
  <2>1. phase[r] = "minting" => certs = {}
    BY <1>1 DEF SerialRequest
  <2> QED
    BY <2>1 DEF Commit, SerialInv
<1>6. rows \in [Owners -> Row \cup {NoRow}]
  BY DEF IInv, TypeOK
<1>7. \A o, p \in Stored' : o = p
  <2>1. CASE seen[r].row = "none"
    <3>1. \A o \in Owners : rows[o] = NoRow
      BY <1>1, <2>1 DEF SerialRequest, Stored
    <3>2. rows' = [rows EXCEPT ![r] = write[r]]
      BY <2>1 DEF Commit
    <3>3. \A o \in Owners : o # r => rows'[o] = NoRow
      BY <1>6, <3>1, <3>2
    <3> QED
      BY <3>3 DEF Stored
  <2>2. CASE seen[r].row # "none"
    <3>1. rows' = [rows EXCEPT ![seen[r].row] = Apply(r, @)] /\ seen[r].row \in Owners
      BY <2>2 DEF Commit, IInv, TypeOK
    <3>2. rows[seen[r].row] # NoRow
      BY <2>2 DEF IInv, RowsKnown
    <3>3. \A o \in Owners : rows'[o] # NoRow => rows[o] # NoRow
      BY <1>6, <3>1, <3>2
    <3> QED
      BY <3>3 DEF Stored, SerialInv
  <2> QED
    BY <2>1, <2>2
<1> QED
  BY <1>4, <1>5, <1>7

\* In turn, the only request under way is the one that takes a step.
LEMMA OnlyOne ==
    ASSUME TypeOK, Alone, InTurn, NEW r \in Requests, Step(r)
    PROVE  \A q \in Requests : q # r => ~Busy(q) /\ ~Busy(q)'
<1> USE NamesAssumption DEF tables, locals
<1>1. /\ \A q \in Requests : q # r => phase'[q] = phase[q]
      /\ phase[r] # "ended"
      /\ phase[r] = "new" => phase'[r] # "new"
  BY DEF TypeOK, Step, Load, Track, Evaluate, Check, Touch, Enroll, Flush, Certify, Revisit, Commit, Ready,
         Generate, Issue, Award, Fail
<1> SUFFICES ASSUME NEW q \in Requests, q # r, Busy(q) PROVE FALSE
  BY <1>1 DEF Busy
<1>2. CASE Busy(r)
  BY <1>2 DEF Alone
<1>3. CASE ~Busy(r)
  BY <1>1, <1>3 DEF Busy, InTurn
<1> QED
  BY <1>2, <1>3

\* Handled in turn, a request keeps the serial invariant.
LEMMA SerialStep == IInv /\ SerialInv /\ [Next]_vars /\ [InTurn]_vars => SerialInv'
<1> SUFFICES ASSUME IInv, SerialInv, [Next]_vars, [InTurn]_vars PROVE SerialInv'
  OBVIOUS
<1> USE NamesAssumption DEF tables, locals
<1>0. TypeOK
  BY DEF IInv
<1>1. CASE UNCHANGED vars \/ Regrade
  <2>1. UNCHANGED <<rows, done, certs, phase, kind, plan, seen>>
    BY <1>1 DEF vars, Regrade
  <2>2. Stored' = Stored
    BY <2>1 DEF Stored
  <2> QED
    BY <2>1, <2>2 DEF SerialInv, Alone, Busy, SerialRequest, HasRow, CompletedBy
<1>2. CASE (\E r \in Requests : Step(r)) /\ InTurn
  <2>1. PICK r \in Requests : Step(r)
    BY <1>2
  <2>2. \A q \in Requests : q # r => ~Busy(q) /\ ~Busy(q)'
    BY <1>0, <1>2, <2>1, OnlyOne DEF SerialInv
  <2>3. Alone'
    BY <2>2 DEF Alone
  <2>4. Busy(r) => SerialRequest(r)
    BY DEF SerialInv
  <2> SUFFICES /\ \A o, p \in Stored' : o = p
               /\ \A q, p \in certs' : q = p
               /\ Busy(r)' => SerialRequest(r)'
    BY <2>2, <2>3 DEF SerialInv
  <2>5. rows' = rows => Stored' = Stored
    BY DEF Stored
  <2>6. UNCHANGED <<rows, certs>> =>
           (\A o, p \in Stored' : o = p) /\ (\A q, p \in certs' : q = p)
    BY <2>5 DEF SerialInv
  <2>7. CASE \E k \in Kinds : Load(r, k)
    <3>1. PICK k \in Kinds : Load(r, k)
      BY <2>7
    <3>2. PICK o \in Owners \cup {"none"} : Finds(o) /\ seen' = [seen EXCEPT ![r] = View(o)]
      BY <3>1 DEF Load
    <3>3. UNCHANGED <<rows, certs, done, plan>> /\ phase'[r] = "loaded" /\ kind[r] = "none"
      BY <1>0, <3>1 DEF Load, TypeOK, IInv, PhaseOfKind
    <3>4. seen'[r] = View(o) /\ plan[r].drops = {}
      BY <1>0, <3>2, <3>3 DEF TypeOK, IInv, PhaseOfKind
    <3>5. "none" \notin Owners
      BY DEF Owners
    <3>6. IF seen'[r].row = "none" THEN Stored = {} ELSE rows[seen'[r].row].status = seen'[r].status
      <4>1. CASE o = "none"
        BY <3>2, <3>4, <3>5, <4>1 DEF View, Unread, Finds, IsNewest, Stored
      <4>2. CASE o # "none"
        BY <3>4, <4>2 DEF View
      <4> QED
        BY <4>1, <4>2
    <3> QED
      BY <2>5, <2>6, <3>3, <3>4, <3>6 DEF SerialRequest
  <2>8. CASE Evaluate(r)
    <3>1. PICK adds \in SUBSET (Modules \ done), drops \in SUBSET done :
             plan' = [plan EXCEPT ![r] =
                [adds |-> adds, drops |-> drops, counted |-> (done \cup adds) \ drops]]
      BY <2>8, EvaluatePlans
    <3>2. /\ phase[r] = "loaded" /\ phase'[r] = "evaluated" /\ kind'[r] = kind[r] /\ kind[r] = "progress"
          /\ UNCHANGED <<rows, certs, done, seen>>
          /\ plan'[r].counted = (done \cup plan'[r].adds) \ plan'[r].drops
      BY <1>0, <2>8, <3>1 DEF Evaluate, TypeOK
    <3> QED
      BY <2>4, <2>5, <2>6, <3>2 DEF SerialRequest, HasRow, CompletedBy, Busy
  <2>9. CASE Check(r)
    <3>1. /\ phase[r] = "loaded" /\ phase'[r] = "evaluated" /\ kind' = kind /\ kind[r] = "submit"
          /\ UNCHANGED <<rows, certs, done, seen>>
          /\ plan'[r].counted = (done \cup plan'[r].adds) \ plan'[r].drops
      BY <1>0, <2>9 DEF Check, TypeOK, NoPlan
    <3> QED
      BY <2>4, <2>5, <2>6, <3>1 DEF SerialRequest, HasRow, CompletedBy, Busy
  <2>10. CASE Touch(r) \/ Enroll(r)
    <3>1. /\ phase[r] = "loaded" /\ phase'[r] = "evaluated" /\ kind' = kind /\ kind[r] \in {"heartbeat", "enroll"}
          /\ UNCHANGED <<rows, certs, done, plan, seen>>
      BY <1>0, <2>10 DEF Touch, Enroll, TypeOK
    <3> QED
      BY <2>4, <2>5, <2>6, <3>1 DEF SerialRequest, HasRow, CompletedBy, Busy
  <2>11. CASE Flush(r)
    <3>1. /\ phase[r] = "evaluated" /\ phase'[r] = "flushed"
          /\ UNCHANGED <<rows, certs, done, plan, seen, kind>>
      BY <1>0, <2>11 DEF Flush, TypeOK
    <3> QED
      BY <2>4, <2>5, <2>6, <3>1 DEF SerialRequest, HasRow, CompletedBy, Busy
  <2>12. CASE Certify(r)
    <3>1. /\ phase[r] = "flushed" /\ phase'[r] \in {"minting", "settled"} /\ kind[r] = "progress"
          /\ phase'[r] = "minting" => certs = {}
          /\ UNCHANGED <<rows, certs, done, plan, seen, kind>>
      BY <1>0, <2>12 DEF Certify, TypeOK
    <3> QED
      BY <2>4, <2>5, <2>6, <3>1 DEF SerialRequest, HasRow, CompletedBy, Busy
  <2>13. CASE Revisit(r)
    <3>1. PICK m \in Modules \ done : plan' = [plan EXCEPT ![r] = [NoPlan EXCEPT !.drops = {m}]]
      BY <2>13 DEF Revisit
    <3>2. /\ phase[r] = "flushed" /\ phase'[r] = "settled" /\ kind' = kind /\ kind[r] = "heartbeat"
          /\ UNCHANGED <<rows, certs, done, seen>>
          /\ plan'[r].drops \cap done = {}
      BY <1>0, <2>13, <3>1 DEF Revisit, TypeOK, NoPlan
    <3> QED
      BY <2>4, <2>5, <2>6, <3>2 DEF SerialRequest, HasRow, Busy
  <2>14. CASE Commit(r)
    <3>1. /\ phase'[r] \in {"submitted", "ended"}
          /\ \A o, p \in Stored' : o = p
          /\ \A q, p \in certs' : q = p
      BY <2>14, SerialCommit
    <3> QED
      BY <3>1 DEF SerialRequest, HasRow
  <2>15. CASE Generate(r)
    <3>1. /\ phase[r] = "submitted" /\ phase'[r] = "minting" /\ certs = {}
          /\ UNCHANGED <<rows, certs, kind>>
      BY <1>0, <2>15 DEF Generate, TypeOK
    <3>2. kind[r] = "submit"
      BY <3>1 DEF IInv, PhaseOfKind
    <3> QED
      BY <2>6, <3>1, <3>2 DEF SerialRequest, HasRow
  <2>16. CASE Issue(r)
    <3>1. /\ phase'[r] = "minting" /\ certs = {} /\ kind'[r] = "issue"
          /\ UNCHANGED <<rows, certs>>
      BY <1>0, <2>16 DEF Issue, TypeOK
    <3> QED
      BY <2>6, <3>1 DEF SerialRequest, HasRow
  <2>17. CASE Award(r)
    <3>1. /\ phase[r] = "minting" /\ phase'[r] = "ended" /\ certs' = certs \cup {r}
          /\ UNCHANGED rows
      BY <1>0, <2>17 DEF Award, TypeOK
    <3>2. certs = {}
      BY <2>4, <3>1 DEF SerialRequest, Busy
    <3> QED
      BY <2>5, <3>1, <3>2 DEF SerialInv, Busy
  <2>18. CASE Fail(r) \/ \E m \in Modules : Track(r, m)
    <3>1. phase'[r] = "ended" /\ UNCHANGED <<rows, certs>>
      BY <1>0, <2>18 DEF Fail, Track, TypeOK
    <3> QED
      BY <2>6, <3>1 DEF Busy
  <2> QED
    BY <2>1, <2>7, <2>8, <2>9, <2>10, <2>11, <2>12, <2>13, <2>14, <2>15, <2>16, <2>17, <2>18 DEF Step
<1> QED
  BY <1>1, <1>2 DEF Next

\* The serial invariant holds as long as requests come one after the other.
LEMMA SerialInvariant == SerialSpec => [](IInv /\ SerialInv)
<1>1. Init => SerialInv
  <2> SUFFICES ASSUME Init PROVE SerialInv
    OBVIOUS
  <2>1. \A o \in Stored : o = "enrolment"
    BY DEF Init, Stored
  <2> QED
    BY <2>1 DEF Init, SerialInv, Alone, Busy
<1> QED
  BY <1>1, SerialStep, Invariant, PTL DEF SerialSpec, Spec

\* One request at a time, a course has one row and one certificate, and the row says
\* what the completed modules say.
THEOREM SerialIsExact == SerialSpec => []SerialPromises
<1>1. IInv /\ SerialInv => SerialPromises
  <2> SUFFICES ASSUME IInv, SerialInv, ~behind, NEW o \in Stored
               PROVE  rows[o].status \in Finished <=> Enough(done)
    BY DEF SerialInv, SerialPromises
  <2>1. Stored = {o} /\ o \in Owners
    BY DEF SerialInv, Stored
  <2> QED
    BY <2>1 DEF IInv, CompletionIsRecorded
<1> QED
  BY <1>1, SerialInvariant, PTL

\* One request at a time, none is overtaken.
THEOREM SerialOvertakesNobody == SerialSpec => NobodyOvertaken
<1>1. IInv /\ SerialInv => \A r \in Requests : Commit(r) => ~Overtaken(r)
  BY SerialSound
<1> QED
  BY <1>1, SerialInvariant, PTL DEF NobodyOvertaken

\* One request at a time, a row leaves its finished status only when a request takes
\* modules back and leaves too few.
THEOREM SerialFinishedIsKept == SerialSpec => FinishedWhileEnough
<1>1. IInv /\ SerialInv /\ [Next]_vars =>
        [\A o \in Owners : rows[o].status \in Finished /\ rows'[o].status \notin Finished => ~Enough(done')]_vars
  BY FinishedStep, SerialSound DEF FinishedKept
<1> QED
  BY <1>1, SerialInvariant, PTL DEF SerialSpec, Spec, FinishedWhileEnough
=============================================================================
