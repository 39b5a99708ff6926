-------------------- MODULE AssignmentSubmission_proofs --------------------
(***************************************************************************)
(* Proofs about AssignmentSubmission for any number of learner and         *)
(* reviewer requests, processes and files. The inductive invariant adds to *)
(* the checked invariants what the requests on their way have in hand:     *)
(* what the loaded rows and the plans can still write. The last part shows *)
(* that the checked counterexample is a race: only a stale save can be     *)
(* one, and there is none when requests are handled one after the other.   *)
(***************************************************************************)
EXTENDS AssignmentSubmission, TLAPS

\* What is pending or has a verdict was submitted, in the row and in every
\* row a request has loaded; a verdict was opened on a pending row.
Submitted ==
    /\ row.status \in Pending \cup {"approved", "rejected"} => complete
    /\ \A q \in Requests :
          /\ snap[q].status \in Pending => complete
          /\ kind[q] \in {"approve", "reject"} => snap[q].status \in Pending

\* A loaded row counts no more attempts than there were submissions.
Counted ==
    /\ row.attempt <= submits + 1
    /\ \A q \in Requests : snap[q].attempt <= submits + 1

\* A file that a row names was uploaded by a request that has committed.
Published ==
    /\ \A f \in row.files : phase[f[1]] = "saved"
    /\ \A q \in Requests : \A f \in snap[q].files : phase[f[1]] = "saved"

\* A request starts without files and is about to write its own and published ones.
Planned ==
    \A q \in Learning :
        /\ uploads[q] \subseteq {q} \X (1..MaxUploads)
        /\ phase[q] = "new" => uploads[q] = {}
        /\ phase[q] = "prepared" => uploads[q] \subseteq plan[q].files
        /\ \A f \in plan[q].files : f \in uploads[q] \/ phase[f[1]] = "saved"

\* A row that is absent names no files, once there it stays, and a request
\* that has loaded no row has removed nothing.
Absence ==
    /\ row.status = "absent" => row.files = {}
    /\ \A q \in Requests :
          /\ snap[q].status = "absent" => snap[q].files = {}
          /\ snap[q].status # "absent" => row.status # "absent"
          /\ phase[q] = "review" => snap[q].status # "absent"
    /\ \A q \in Learning :
          phase[q] = "prepared" /\ snap[q].status = "absent" => plan[q].removed = {}

IInv ==
    /\ TypeOK
    /\ Submitted
    /\ Counted
    /\ Published
    /\ Planned
    /\ Absence
    /\ UploadsAreSafe
    /\ OrphansAreExplained
    /\ DanglingIsExplained

\* What a commit writes: each column is the new one or the row's own.
LEMMA SaveWrites ==
    ASSUME NEW r \in Learning, TypeOK, Save(r)
    PROVE  /\ row'.status = IF NewRow(r).status # snap[r].status THEN NewRow(r).status ELSE row.status
           /\ row'.text = IF plan[r].text # snap[r].text THEN plan[r].text ELSE row.text
           /\ row'.files = IF plan[r].files # snap[r].files THEN plan[r].files ELSE row.files
           /\ row'.attempt = IF Attempt(kind[r], snap[r]) # snap[r].attempt
                             THEN Attempt(kind[r], snap[r]) ELSE row.attempt
           /\ NewRow(r).status = IF kind[r] = "draft" THEN "draft" ELSE "pending_verification"
  BY DEF Save, Merged, NewRow

\* A reviewer's commit writes the status only.
LEMMA DecideWrites ==
    ASSUME NEW v \in Reviewing, TypeOK, Decide(v)
    PROVE  /\ row'.status = IF Outcome(kind[v]) # snap[v].status
                             THEN Outcome(kind[v]) ELSE row.status
           /\ row'.text = row.text
           /\ row'.files = row.files
           /\ row'.attempt = row.attempt
           /\ row' \in Rows
           /\ Outcome(kind[v]) \in Decided
<1>1. snap[v] \in Rows /\ row \in Rows
  BY DEF TypeOK, Requests
<1>2. Outcome(kind[v]) \in Decided
  BY DEF Outcome, Decided
<1> QED
  BY <1>1, <1>2 DEF Decide, Merged, Rows, Statuses

\* The types are preserved.
LEMMA TypeStep == IInv /\ [Next]_vars => TypeOK'
<1> SUFFICES ASSUME IInv, [Next]_vars PROVE TypeOK'
  OBVIOUS
<1> USE RequestsAssumption DEF IInv, TypeOK, Requests, Rows, Plans, Files, Statuses, Pending, Decided, NoRow, NoPlan
<1>1. ASSUME NEW r \in Learning, NEW k \in {"draft", "submit", "resubmit"}, Open(r, k)
      PROVE  TypeOK'
  BY <1>1 DEF Open, Close, history
<1>2. ASSUME NEW r \in Learning, Upload(r)
      PROVE  TypeOK'
  BY <1>2 DEF Upload, Close, history
<1>3. ASSUME NEW r \in Learning, NEW kept \in SUBSET snap[r].files, NEW text \in {r, "none"}, Prepare(r, kept, text)
      PROVE  TypeOK'
  BY <1>3 DEF Prepare, Removed, history
<1>4. ASSUME NEW r \in Learning, RefuseEmpty(r)
      PROVE  TypeOK'
  BY <1>4 DEF RefuseEmpty, Removed, Close, history
<1>5. ASSUME NEW r \in Learning, Save(r)
      PROVE  TypeOK'
<2>1. NewRow(r) \in Rows
  BY <1>5 DEF Save, NewRow, Attempt
<2>2. row' \in Rows
  BY <1>5, <2>1 DEF Save, Merged
<2> QED
  BY <1>5, <2>2 DEF Save, Close
<1>6. ASSUME NEW r \in Learning, LoseRace(r)
      PROVE  TypeOK'
  BY <1>6 DEF LoseRace, Close, history
<1>7. ASSUME NEW r \in Learning, Abort(r)
      PROVE  TypeOK'
  BY <1>7 DEF Abort, Close, history
<1>8. ASSUME NEW v \in Reviewing, NEW k \in {"approve", "reject", "grade", "return"}, OpenReview(v, k)
      PROVE  TypeOK'
  BY <1>8 DEF OpenReview, Close, history
<1>9. ASSUME NEW v \in Reviewing, Decide(v)
      PROVE  TypeOK'
<2>1. row' \in Rows
  BY <1>9, DecideWrites
<2> QED
  BY <1>9, <2>1 DEF Decide, Close, history
<1>10. CASE UNCHANGED vars
  BY <1>10 DEF vars, history
<1> HIDE DEF IInv, TypeOK, Requests, Rows, Plans, Files, Statuses, Pending, Decided, NoRow, NoPlan
<1> QED
  BY <1>1, <1>2, <1>3, <1>4, <1>5, <1>6, <1>7, <1>8, <1>9, <1>10 DEF Next

\* Verdicts stay on submitted work.
LEMMA SubmittedStep == IInv /\ [Next]_vars => Submitted'
<1> SUFFICES ASSUME IInv, [Next]_vars PROVE Submitted'
  OBVIOUS
<1> USE RequestsAssumption DEF IInv, TypeOK, Submitted, Requests, Pending, NoRow
<1>1. ASSUME NEW r \in Learning, NEW k \in {"draft", "submit", "resubmit"}, Open(r, k)
      PROVE  Submitted'
  BY <1>1 DEF Open, Close, history
<1>2. ASSUME NEW r \in Learning, Upload(r)
      PROVE  Submitted'
  BY <1>2 DEF Upload, Close, history
<1>3. ASSUME NEW r \in Learning, NEW kept \in SUBSET snap[r].files, NEW text \in {r, "none"}, Prepare(r, kept, text)
      PROVE  Submitted'
  BY <1>3 DEF Prepare, Close, history
<1>4. ASSUME NEW r \in Learning, RefuseEmpty(r)
      PROVE  Submitted'
  BY <1>4 DEF RefuseEmpty, Close, history
<1>5. ASSUME NEW r \in Learning, Save(r)
      PROVE  Submitted'
  BY <1>5, SaveWrites DEF Save, Close
<1>6. ASSUME NEW r \in Learning, LoseRace(r)
      PROVE  Submitted'
  BY <1>6 DEF LoseRace, Close, history
<1>7. ASSUME NEW r \in Learning, Abort(r)
      PROVE  Submitted'
  BY <1>7 DEF Abort, Close, history
<1>8. ASSUME NEW v \in Reviewing, NEW k \in {"approve", "reject", "grade", "return"}, OpenReview(v, k)
      PROVE  Submitted'
  BY <1>8 DEF OpenReview, Close, history
<1>9. ASSUME NEW v \in Reviewing, Decide(v)
      PROVE  Submitted'
<2>1. row'.status \in {"approved", "rejected"} => snap[v].status \in Pending \/ row'.status = row.status
  BY <1>9, DecideWrites DEF Outcome
<2>2. row'.status \in Pending => row.status \in Pending
  BY <1>9, DecideWrites DEF Decided
<2>3. row'.status \in Pending \cup {"approved", "rejected"} => complete
  BY <2>1, <2>2
<2>4. UNCHANGED complete /\ snap' = [snap EXCEPT ![v] = NoRow] /\ kind' = [kind EXCEPT ![v] = "none"]
  BY <1>9 DEF Decide, Close, history
<2> QED
  BY <2>3, <2>4
<1>10. CASE UNCHANGED vars
  BY <1>10 DEF vars
<1> HIDE DEF IInv, TypeOK, Submitted, Requests, Pending, NoRow
<1> QED
  BY <1>1, <1>2, <1>3, <1>4, <1>5, <1>6, <1>7, <1>8, <1>9, <1>10 DEF Next

\* Attempts stay below the submissions.
LEMMA CountedStep == IInv /\ [Next]_vars => Counted'
<1> SUFFICES ASSUME IInv, [Next]_vars PROVE Counted'
  OBVIOUS
<1> USE RequestsAssumption DEF IInv, TypeOK, Counted, Requests, NoRow, Rows
<1>1. ASSUME NEW r \in Learning, NEW k \in {"draft", "submit", "resubmit"}, Open(r, k)
      PROVE  Counted'
  BY <1>1 DEF Open, Close, history
<1>2. ASSUME NEW r \in Learning, Upload(r)
      PROVE  Counted'
  BY <1>2 DEF Upload, Close, history
<1>3. ASSUME NEW r \in Learning, NEW kept \in SUBSET snap[r].files, NEW text \in {r, "none"}, Prepare(r, kept, text)
      PROVE  Counted'
  BY <1>3 DEF Prepare, Close, history
<1>4. ASSUME NEW r \in Learning, RefuseEmpty(r)
      PROVE  Counted'
  BY <1>4 DEF RefuseEmpty, Close, history
<1>5. ASSUME NEW r \in Learning, Save(r)
      PROVE  Counted'
<2>1. submits' \in Nat /\ submits' >= submits
  BY <1>5 DEF Save
<2>2. Attempt(kind[r], snap[r]) <= submits' + 1
  BY <1>5 DEF Save, Attempt
<2>3. row'.attempt <= submits' + 1
  BY <2>1, <2>2, SaveWrites, <1>5
<2>4. snap' = [snap EXCEPT ![r] = NoRow]
  BY <1>5 DEF Save, Close
<2>5. \A q \in Requests : snap'[q].attempt <= submits' + 1
  BY <2>1, <2>4
<2> QED
  BY <2>3, <2>5
<1>6. ASSUME NEW r \in Learning, LoseRace(r)
      PROVE  Counted'
  BY <1>6 DEF LoseRace, Close, history
<1>7. ASSUME NEW r \in Learning, Abort(r)
      PROVE  Counted'
  BY <1>7 DEF Abort, Close, history
<1>8. ASSUME NEW v \in Reviewing, NEW k \in {"approve", "reject", "grade", "return"}, OpenReview(v, k)
      PROVE  Counted'
  BY <1>8 DEF OpenReview, Close, history
<1>9. ASSUME NEW v \in Reviewing, Decide(v)
      PROVE  Counted'
<2>1. row'.attempt = row.attempt
  BY <1>9, DecideWrites
<2>2. submits' = submits /\ snap' = [snap EXCEPT ![v] = NoRow]
  BY <1>9 DEF Decide, Close, history
<2> QED
  BY <2>1, <2>2
<1>10. CASE UNCHANGED vars
  BY <1>10 DEF vars
<1> HIDE DEF IInv, TypeOK, Counted, Requests, NoRow, Rows
<1> QED
  BY <1>1, <1>2, <1>3, <1>4, <1>5, <1>6, <1>7, <1>8, <1>9, <1>10 DEF Next

\* Named files stay published.
LEMMA PublishedStep == IInv /\ [Next]_vars => Published'
<1> SUFFICES ASSUME IInv, [Next]_vars PROVE Published'
  OBVIOUS
<1> USE RequestsAssumption DEF IInv, TypeOK, Published, Requests, NoRow
<1>1. ASSUME NEW r \in Learning, NEW k \in {"draft", "submit", "resubmit"}, Open(r, k)
      PROVE  Published'
  BY <1>1 DEF Open, Close, history
<1>2. ASSUME NEW r \in Learning, Upload(r)
      PROVE  Published'
  BY <1>2 DEF Upload, Close, history
<1>3. ASSUME NEW r \in Learning, NEW kept \in SUBSET snap[r].files, NEW text \in {r, "none"}, Prepare(r, kept, text)
      PROVE  Published'
  BY <1>3 DEF Prepare, Close, history
<1>4. ASSUME NEW r \in Learning, RefuseEmpty(r)
      PROVE  Published'
  BY <1>4 DEF RefuseEmpty, Close, history
<1>5. ASSUME NEW r \in Learning, Save(r)
      PROVE  Published'
<2>1. \A f \in plan[r].files : phase[f[1]] = "saved" \/ f[1] = r
  BY DEF Planned, Files
<2>2. row'.files = plan[r].files \/ row'.files = row.files
  BY <1>5, SaveWrites
<2>3. phase' = [phase EXCEPT ![r] = "saved"] /\ snap' = [snap EXCEPT ![r] = NoRow]
  BY <1>5 DEF Save, Close
<2>4. \A q \in Learning : phase[q] = "saved" => phase'[q] = "saved"
  BY <2>3
<2>5. plan[r].files \subseteq Files /\ row.files \subseteq Files /\ \A q \in Requests : snap[q].files \subseteq Files
  BY DEF Plans, Rows
<2>6. \A f \in Files : f[1] \in Learning
  BY DEF Files
<2>7. \A f \in row'.files : phase'[f[1]] = "saved"
  BY <2>1, <2>2, <2>3, <2>4, <2>5, <2>6
<2>8. \A q \in Requests : \A f \in snap'[q].files : phase'[f[1]] = "saved"
  BY <2>3, <2>4, <2>5, <2>6
<2> QED
  BY <2>7, <2>8
<1>6. ASSUME NEW r \in Learning, LoseRace(r)
      PROVE  Published'
  BY <1>6 DEF LoseRace, Close, history
<1>7. ASSUME NEW r \in Learning, Abort(r)
      PROVE  Published'
  BY <1>7 DEF Abort, Close, history
<1>8. ASSUME NEW v \in Reviewing, NEW k \in {"approve", "reject", "grade", "return"}, OpenReview(v, k)
      PROVE  Published'
  BY <1>8 DEF OpenReview, Close, history
<1>9. ASSUME NEW v \in Reviewing, Decide(v)
      PROVE  Published'
<2>1. row'.files = row.files
  BY <1>9, DecideWrites
<2>2. phase' = [phase EXCEPT ![v] = "saved"] /\ snap' = [snap EXCEPT ![v] = NoRow]
  BY <1>9 DEF Decide, Close, history
<2> QED
  BY <2>1, <2>2
<1>10. CASE UNCHANGED vars
  BY <1>10 DEF vars
<1> HIDE DEF IInv, TypeOK, Published, Requests, NoRow
<1> QED
  BY <1>1, <1>2, <1>3, <1>4, <1>5, <1>6, <1>7, <1>8, <1>9, <1>10 DEF Next

\* Plans name own and published files only.
LEMMA PlannedStep == IInv /\ [Next]_vars => Planned'
<1> SUFFICES ASSUME IInv, [Next]_vars PROVE Planned'
  OBVIOUS
<1> USE RequestsAssumption DEF IInv, TypeOK, Planned, Requests, NoPlan, Files
<1>1. ASSUME NEW r \in Learning, NEW k \in {"draft", "submit", "resubmit"}, Open(r, k)
      PROVE  Planned'
  BY <1>1 DEF Open, Close, history
<1>2. ASSUME NEW r \in Learning, Upload(r)
      PROVE  Planned'
  BY <1>2 DEF Upload, Close, history
<1>3. ASSUME NEW r \in Learning, NEW kept \in SUBSET snap[r].files, NEW text \in {r, "none"}, Prepare(r, kept, text)
      PROVE  Planned'
  BY <1>3 DEF Prepare, Published, history, Plans
<1>4. ASSUME NEW r \in Learning, RefuseEmpty(r)
      PROVE  Planned'
  BY <1>4 DEF RefuseEmpty, Close, history
<1>5. ASSUME NEW r \in Learning, Save(r)
      PROVE  Planned'
  BY <1>5 DEF Save, Close, history
<1>6. ASSUME NEW r \in Learning, LoseRace(r)
      PROVE  Planned'
  BY <1>6 DEF LoseRace, Close, history
<1>7. ASSUME NEW r \in Learning, Abort(r)
      PROVE  Planned'
  BY <1>7 DEF Abort, Close, history
<1>8. ASSUME NEW v \in Reviewing, NEW k \in {"approve", "reject", "grade", "return"}, OpenReview(v, k)
      PROVE  Planned'
  BY <1>8 DEF OpenReview, Close, history
<1>9. ASSUME NEW v \in Reviewing, Decide(v)
      PROVE  Planned'
  BY <1>9 DEF Decide, Close, history
<1>10. CASE UNCHANGED vars
  BY <1>10 DEF vars
<1> HIDE DEF IInv, TypeOK, Planned, Requests, NoPlan, Files
<1> QED
  BY <1>1, <1>2, <1>3, <1>4, <1>5, <1>6, <1>7, <1>8, <1>9, <1>10 DEF Next

\* A row that has been inserted stays.
LEMMA AbsenceStep == IInv /\ [Next]_vars => Absence'
<1> SUFFICES ASSUME IInv, [Next]_vars PROVE Absence'
  OBVIOUS
<1> USE RequestsAssumption DEF IInv, TypeOK, Absence, Requests, NoRow, NoPlan
<1>1. ASSUME NEW r \in Learning, NEW k \in {"draft", "submit", "resubmit"}, Open(r, k)
      PROVE  Absence'
  BY <1>1 DEF Open, Close, history
<1>2. ASSUME NEW r \in Learning, Upload(r)
      PROVE  Absence'
  BY <1>2 DEF Upload, Close, history
<1>3. ASSUME NEW r \in Learning, NEW kept \in SUBSET snap[r].files, NEW text \in {r, "none"}, Prepare(r, kept, text)
      PROVE  Absence'
  BY <1>3 DEF Prepare, history, Plans, Removed
<1>4. ASSUME NEW r \in Learning, RefuseEmpty(r)
      PROVE  Absence'
  BY <1>4 DEF RefuseEmpty, Close, history
<1>5. ASSUME NEW r \in Learning, Save(r)
      PROVE  Absence'
  <2>1. row'.status # "absent"
    BY <1>5, SaveWrites DEF Save
  <2>2. snap' = [snap EXCEPT ![r] = NoRow]
    BY <1>5 DEF Save, Close
  <2>3. /\ phase' = [phase EXCEPT ![r] = "saved"]
        /\ plan' = [plan EXCEPT ![r] = NoPlan]
    BY <1>5 DEF Save, Close
  <2> QED
    BY <2>1, <2>2, <2>3
<1>6. ASSUME NEW r \in Learning, LoseRace(r)
      PROVE  Absence'
  BY <1>6 DEF LoseRace, Close, history
<1>7. ASSUME NEW r \in Learning, Abort(r)
      PROVE  Absence'
  BY <1>7 DEF Abort, Close, history
<1>8. ASSUME NEW v \in Reviewing, NEW k \in {"approve", "reject", "grade", "return"}, OpenReview(v, k)
      PROVE  Absence'
  BY <1>8 DEF OpenReview, Close, history
<1>9. ASSUME NEW v \in Reviewing, Decide(v)
      PROVE  Absence'
  BY <1>9, DecideWrites DEF Decide, Close, history, Rows, Decided
<1>10. CASE UNCHANGED vars
  BY <1>10 DEF vars
<1> HIDE DEF IInv, TypeOK, Absence, Requests, NoRow, NoPlan
<1> QED
  BY <1>1, <1>2, <1>3, <1>4, <1>5, <1>6, <1>7, <1>8, <1>9, <1>10 DEF Next

\* Nobody deletes the uploads of a request on its way.
LEMMA UploadsStep == IInv /\ [Next]_vars => UploadsAreSafe'
<1> SUFFICES ASSUME IInv, [Next]_vars PROVE UploadsAreSafe'
  OBVIOUS
<1> USE RequestsAssumption DEF IInv, TypeOK, UploadsAreSafe, Requests
<1>1. ASSUME NEW r \in Learning, NEW k \in {"draft", "submit", "resubmit"}, Open(r, k)
      PROVE  UploadsAreSafe'
  BY <1>1 DEF Open, Planned, history
<1>2. ASSUME NEW r \in Learning, Upload(r)
      PROVE  UploadsAreSafe'
  BY <1>2 DEF Upload, Close, history
<1>3. ASSUME NEW r \in Learning, NEW kept \in SUBSET snap[r].files, NEW text \in {r, "none"}, Prepare(r, kept, text)
      PROVE  UploadsAreSafe'
  BY <1>3 DEF Prepare, history, Removed, Published, Planned
<1>4. ASSUME NEW r \in Learning, RefuseEmpty(r)
      PROVE  UploadsAreSafe'
  BY <1>4 DEF RefuseEmpty, history, Removed, Published, Planned
<1>5. ASSUME NEW r \in Learning, Save(r)
      PROVE  UploadsAreSafe'
  BY <1>5 DEF Save, Close, history
<1>6. ASSUME NEW r \in Learning, LoseRace(r)
      PROVE  UploadsAreSafe'
  BY <1>6 DEF LoseRace, Planned, history
<1>7. ASSUME NEW r \in Learning, Abort(r)
      PROVE  UploadsAreSafe'
  BY <1>7 DEF Abort, Close, history
<1>8. ASSUME NEW v \in Reviewing, NEW k \in {"approve", "reject", "grade", "return"}, OpenReview(v, k)
      PROVE  UploadsAreSafe'
  BY <1>8 DEF OpenReview, Close, history
<1>9. ASSUME NEW v \in Reviewing, Decide(v)
      PROVE  UploadsAreSafe'
  BY <1>9 DEF Decide, Close, history
<1>10. CASE UNCHANGED vars
  BY <1>10 DEF vars
<1> HIDE DEF IInv, TypeOK, UploadsAreSafe, Requests
<1> QED
  BY <1>1, <1>2, <1>3, <1>4, <1>5, <1>6, <1>7, <1>8, <1>9, <1>10 DEF Next

\* Every orphan keeps its explanation.
LEMMA OrphansStep == IInv /\ [Next]_vars => OrphansAreExplained'
<1> SUFFICES ASSUME IInv, [Next]_vars PROVE OrphansAreExplained'
  OBVIOUS
<1> USE RequestsAssumption DEF IInv, TypeOK, OrphansAreExplained, Requests
<1>1. ASSUME NEW r \in Learning, NEW k \in {"draft", "submit", "resubmit"}, Open(r, k)
      PROVE  OrphansAreExplained'
  BY <1>1 DEF Open, Close, history
<1>2. ASSUME NEW r \in Learning, Upload(r)
      PROVE  OrphansAreExplained'
  BY <1>2 DEF Upload, Close, history
<1>3. ASSUME NEW r \in Learning, NEW kept \in SUBSET snap[r].files, NEW text \in {r, "none"}, Prepare(r, kept, text)
      PROVE  OrphansAreExplained'
  BY <1>3 DEF Prepare, history, Removed
<1>4. ASSUME NEW r \in Learning, RefuseEmpty(r)
      PROVE  OrphansAreExplained'
  BY <1>4 DEF RefuseEmpty, Close, history
<1>5. ASSUME NEW r \in Learning, Save(r)
      PROVE  OrphansAreExplained'
<2>1. uploads[r] \subseteq row'.files
  <3>1. uploads[r] \subseteq plan[r].files /\ \A f \in uploads[r] : f[1] = r
    BY <1>5 DEF Save, Planned
  <3>2. uploads[r] \cap snap[r].files = {}
    BY <1>5, <3>1 DEF Save, Published
  <3> QED
    BY <1>5, <3>1, <3>2, SaveWrites
<2>2. \A f \in store : f \in row.files \cup overwritten => f \in row'.files \cup overwritten'
  BY <1>5 DEF Save
<2>3. overwritten \subseteq overwritten' /\ UNCHANGED <<store, uploads>> /\ phase' = [phase EXCEPT ![r] = "saved"]
  BY <1>5 DEF Save
<2> QED
  BY <2>1, <2>2, <2>3
<1>6. ASSUME NEW r \in Learning, LoseRace(r)
      PROVE  OrphansAreExplained'
  BY <1>6 DEF LoseRace, Close, history
<1>7. ASSUME NEW r \in Learning, Abort(r)
      PROVE  OrphansAreExplained'
  BY <1>7 DEF Abort, Close, history
<1>8. ASSUME NEW v \in Reviewing, NEW k \in {"approve", "reject", "grade", "return"}, OpenReview(v, k)
      PROVE  OrphansAreExplained'
  BY <1>8 DEF OpenReview, Close, history
<1>9. ASSUME NEW v \in Reviewing, Decide(v)
      PROVE  OrphansAreExplained'
  BY <1>9, DecideWrites DEF Decide, history, Rows
<1>10. CASE UNCHANGED vars
  BY <1>10 DEF vars, history
<1> HIDE DEF IInv, TypeOK, OrphansAreExplained, Requests
<1> QED
  BY <1>1, <1>2, <1>3, <1>4, <1>5, <1>6, <1>7, <1>8, <1>9, <1>10 DEF Next

\* Every dangling name keeps its explanation.
LEMMA DanglingStep == IInv /\ [Next]_vars => DanglingIsExplained'
<1> SUFFICES ASSUME IInv, [Next]_vars PROVE DanglingIsExplained'
  OBVIOUS
<1> USE RequestsAssumption DEF IInv, TypeOK, DanglingIsExplained, Requests, NoPlan
<1>1. ASSUME NEW r \in Learning, NEW k \in {"draft", "submit", "resubmit"}, Open(r, k)
      PROVE  DanglingIsExplained'
  BY <1>1 DEF Open, Close, history
<1>2. ASSUME NEW r \in Learning, Upload(r)
      PROVE  DanglingIsExplained'
  BY <1>2 DEF Upload, Close, history
<1>3. ASSUME NEW r \in Learning, NEW kept \in SUBSET snap[r].files, NEW text \in {r, "none"}, Prepare(r, kept, text)
      PROVE  DanglingIsExplained'
  BY <1>3 DEF Prepare, history, Removed, Plans
<1>4. ASSUME NEW r \in Learning, RefuseEmpty(r)
      PROVE  DanglingIsExplained'
  BY <1>4 DEF RefuseEmpty, history, Removed, Plans
<1>5. ASSUME NEW r \in Learning, Save(r)
      PROVE  DanglingIsExplained'
  BY <1>5, SaveWrites DEF Save
<1>6. ASSUME NEW r \in Learning, LoseRace(r)
      PROVE  DanglingIsExplained'
  BY <1>6 DEF LoseRace, history, Planned, Published, Absence
<1>7. ASSUME NEW r \in Learning, Abort(r)
      PROVE  DanglingIsExplained'
  BY <1>7 DEF Abort, history, Plans
<1>8. ASSUME NEW v \in Reviewing, NEW k \in {"approve", "reject", "grade", "return"}, OpenReview(v, k)
      PROVE  DanglingIsExplained'
  BY <1>8 DEF OpenReview, Close, history
<1>9. ASSUME NEW v \in Reviewing, Decide(v)
      PROVE  DanglingIsExplained'
  BY <1>9, DecideWrites DEF Decide, history, Rows
<1>10. CASE UNCHANGED vars
  BY <1>10 DEF vars, history
<1> HIDE DEF IInv, TypeOK, DanglingIsExplained, Requests, NoPlan
<1> QED
  BY <1>1, <1>2, <1>3, <1>4, <1>5, <1>6, <1>7, <1>8, <1>9, <1>10 DEF Next

\* The initial state satisfies the inductive invariant.
LEMMA InitIInv == Init => IInv
<1> SUFFICES ASSUME Init PROVE IInv
  OBVIOUS
<1> USE DEF Init, NoRow, NoPlan
<1>1. TypeOK
  BY DEF TypeOK, Requests, Rows, Plans, Statuses
<1>2. Submitted /\ Counted /\ Absence
  BY DEF Submitted, Counted, Absence, Requests, Pending
<1>3. Published /\ Planned
  BY DEF Published, Planned, Requests
<1>4. UploadsAreSafe /\ OrphansAreExplained /\ DanglingIsExplained
  BY DEF UploadsAreSafe, OrphansAreExplained, DanglingIsExplained, Requests
<1> QED
  BY <1>1, <1>2, <1>3, <1>4 DEF IInv

\* Every step keeps the inductive invariant: the step lemmas together.
LEMMA StepIInv == IInv /\ [Next]_vars => IInv'
  BY TypeStep, SubmittedStep, CountedStep, PublishedStep, PlannedStep, AbsenceStep, UploadsStep,
     OrphansStep, DanglingStep DEF IInv

\* The inductive invariant holds in every behaviour.
LEMMA Invariant == Spec => []IInv
  BY InitIInv, StepIInv, PTL DEF Spec

\* The variables keep their types.
THEOREM TypeCorrect == Spec => []TypeOK
<1>1. IInv => TypeOK
  BY DEF IInv
<1> QED
  BY <1>1, Invariant, PTL

\* A submission with a verdict was submitted and its block is complete.
THEOREM VerdictsAreOnSubmittedWork == Spec => []DecidedWasSubmitted
<1>1. IInv => DecidedWasSubmitted
  BY DEF IInv, Submitted, DecidedWasSubmitted
<1> QED
  BY <1>1, Invariant, PTL

\* The attempt number never runs ahead of the submissions.
THEOREM AttemptsAreCounted == Spec => []AttemptsNeverOvercount
<1>1. IInv => AttemptsNeverOvercount
  BY DEF IInv, Counted, AttemptsNeverOvercount
<1> QED
  BY <1>1, Invariant, PTL

\* No request deletes the files another one has uploaded and not yet committed.
THEOREM UploadsStaySafe == Spec => []UploadsAreSafe
<1>1. IInv => UploadsAreSafe
  BY DEF IInv
<1> QED
  BY <1>1, Invariant, PTL

\* An unnamed file on disk is in use, left by a failure, or was overwritten.
THEOREM OrphansStayExplained == Spec => []OrphansAreExplained
<1>1. IInv => OrphansAreExplained
  BY DEF IInv
<1> QED
  BY <1>1, Invariant, PTL

\* A named file is missing only by an uncommitted removal or a stale save.
THEOREM DanglingStaysExplained == Spec => []DanglingIsExplained
<1>1. IInv => DanglingIsExplained
  BY DEF IInv
<1> QED
  BY <1>1, Invariant, PTL

-----------------------------------------------------------------------------
(* The counterexample to ReviewedContentIsFrozen is a race and nothing      *)
(* else: only a save from a row that has changed since can be one, and in   *)
(* the behaviours that handle one request at a time there is none.          *)

\* The step changes the content of an approved submission and leaves the verdict.
ChangesReviewed ==
    /\ row.status = "approved" /\ row'.status = "approved"
    /\ row'.text # row.text \/ row'.files # row.files

\* The save writes from a row that is not the committed one any more.
StaleSave == \E r \in Learning : Save(r) /\ snap[r] # row

\* The content of an approved submission changes under its verdict only by a
\* save whose handler has loaded the row before the approval was committed.
ReviewedChangesOnlyByStaleSave == [][ChangesReviewed => StaleSave]_vars

\* A step that changes reviewed content is a stale save.
LEMMA ReviewedStep == IInv /\ [Next]_vars => (ChangesReviewed => StaleSave)
<1> SUFFICES ASSUME IInv, [Next]_vars, ChangesReviewed PROVE StaleSave
  OBVIOUS
<1>1. row' # row
  BY DEF ChangesReviewed
<1>2. CASE \E r \in Learning : Save(r)
  <2>1. PICK r \in Learning : Save(r)
    BY <1>2
  <2>2. NewRow(r).status # "approved"
    BY DEF NewRow
  <2>3. snap[r].status # "approved"
    BY <2>1, <2>2, SaveWrites DEF ChangesReviewed, IInv
  <2>4. snap[r] # row
    BY <2>3 DEF ChangesReviewed
  <2> QED
    BY <2>1, <2>4 DEF StaleSave
<1>3. CASE \E v \in Reviewing : Decide(v)
  BY <1>3, DecideWrites DEF ChangesReviewed, IInv
<1>4. row' = row \/ (\E r \in Learning : Save(r)) \/ (\E v \in Reviewing : Decide(v))
  BY DEF Next, vars, Open, Upload, Prepare, RefuseEmpty, LoseRace, Abort, OpenReview
<1> QED
  BY <1>1, <1>2, <1>3, <1>4

\* Whatever the interleaving, an approved submission changes under its verdict
\* only by a save from a stale row: save_submission checks no version.
THEOREM OnlyStaleSavesTouchReviewed == Spec => ReviewedChangesOnlyByStaleSave
<1>1. IInv /\ [Next]_vars => [ChangesReviewed => StaleSave]_vars
  BY ReviewedStep
<1> QED
  BY <1>1, Invariant, PTL DEF Spec, ReviewedChangesOnlyByStaleSave

\* A request that has loaded the row and not answered yet.
Busy(q) == phase[q] \in {"upload", "prepared", "review"}

Alone == \A p, q \in Requests : Busy(p) /\ Busy(q) => p = q

\* The requests are handled one after the other; any of them may still fail.
SerialSpec == Spec /\ []Alone

\* A missing file that the row names was removed by a request that has not
\* committed: no stale save brings a name back.
DanglesByFailure ==
    \A f \in row.files \ store :
        \E r \in Learning : f \in plan[r].removed /\ phase[r] \in {"prepared", "torn"}

\* The one request on its way has the committed row, and what it does not
\* write back is gone from the disk.
SerialInv ==
    /\ \A q \in Requests : Busy(q) => snap[q] = row
    /\ \A r \in Learning : phase[r] = "prepared" =>
          /\ (row.files \ plan[r].files) \cap store = {}
          /\ plan[r].files \cap plan[r].removed \subseteq store
          /\ plan[r].files \subseteq row.files \cup uploads[r]
    /\ overwritten = {}
    /\ DanglesByFailure

\* A serial request loses no insert race.
LEMMA SerialNoRace ==
    ASSUME IInv, SerialInv, NEW r \in Learning
    PROVE  ~LoseRace(r)
  BY DEF LoseRace, SerialInv, Busy, Requests

\* A serial save writes the planned files and drops none that are on disk.
LEMMA SerialSaveWrites ==
    ASSUME IInv, SerialInv, NEW r \in Learning, Save(r)
    PROVE  /\ row'.files = plan[r].files
           /\ (row.files \ row'.files) \cap store = {}
<1>1. snap[r] = row /\ (row.files \ plan[r].files) \cap store = {}
  BY DEF Save, SerialInv, Busy, Requests
<1>2. row'.files = plan[r].files
  BY <1>1, SaveWrites DEF IInv
<1> QED
  BY <1>1, <1>2

\* Handled alone, a request keeps the serial invariant.
LEMMA SerialStep == IInv /\ SerialInv /\ Alone /\ Alone' /\ [Next]_vars => SerialInv'
<1> SUFFICES ASSUME IInv, SerialInv, Alone, Alone', [Next]_vars PROVE SerialInv'
  OBVIOUS
<1> USE RequestsAssumption DEF IInv, TypeOK, Requests, Busy, Alone, NoPlan
<1>1. ASSUME NEW r \in Learning, NEW k \in {"draft", "submit", "resubmit"}, Open(r, k)
      PROVE  SerialInv'
  BY <1>1 DEF Open, history, SerialInv, DanglesByFailure
<1>2. ASSUME NEW r \in Learning, Upload(r)
      PROVE  SerialInv'
  BY <1>2 DEF Upload, history, SerialInv, DanglesByFailure
<1>3. ASSUME NEW r \in Learning, NEW kept \in SUBSET snap[r].files, NEW text \in {r, "none"}, Prepare(r, kept, text)
      PROVE  SerialInv'
  <2>1. /\ phase[r] = "upload"
        /\ phase' = [phase EXCEPT ![r] = "prepared"]
        /\ plan' = [plan EXCEPT ![r] = [text |-> text, files |-> kept \cup uploads[r],
                                        removed |-> snap[r].files \ kept]]
        /\ store' = store \ (snap[r].files \ kept)
        /\ UNCHANGED <<row, uploads, overwritten>>
        /\ snap' = IF snap[r].status = "absent" THEN [snap EXCEPT ![r] = row] ELSE snap
    BY <1>3 DEF Prepare, Removed, history
  <2>2. snap[r] = row /\ \A q \in Requests \ {r} : ~Busy(q)
    BY <2>1 DEF SerialInv
  <2>3. snap' = snap
    BY <2>1, <2>2
  <2>4. \A f \in uploads[r] : f \notin snap[r].files
    BY <2>1 DEF Planned, Published
  <2>5. \A q \in Requests : Busy(q)' => snap'[q] = row'
    BY <2>1, <2>2, <2>3
  <2>6. /\ (row.files \ plan'[r].files) \cap store' = {}
        /\ plan'[r].files \cap plan'[r].removed = {}
        /\ plan'[r].files \subseteq row.files \cup uploads[r]
    BY <2>1, <2>2, <2>4
  <2>7. DanglesByFailure'
    <3> SUFFICES ASSUME NEW f \in row.files, f \notin store'
                 PROVE  \E q \in Learning : f \in plan'[q].removed /\ phase'[q] \in {"prepared", "torn"}
      BY <2>1 DEF DanglesByFailure
    <3>1. CASE f \in store
      BY <3>1, <2>1
    <3>2. CASE f \notin store
      BY <3>2, <2>1 DEF SerialInv, DanglesByFailure
    <3> QED
      BY <3>1, <3>2
  <2> QED
    BY <2>1, <2>2, <2>5, <2>6, <2>7 DEF SerialInv
<1>4. ASSUME NEW r \in Learning, RefuseEmpty(r)
      PROVE  SerialInv'
  BY <1>4 DEF RefuseEmpty, Removed, Close, history, SerialInv, DanglesByFailure, Plans
<1>5. ASSUME NEW r \in Learning, Save(r)
      PROVE  SerialInv'
  <2>1. /\ phase[r] = "prepared"
        /\ phase' = [phase EXCEPT ![r] = "saved"]
        /\ plan' = [plan EXCEPT ![r] = NoPlan]
        /\ overwritten' = overwritten \cup ((row.files \ row'.files) \cap store)
        /\ UNCHANGED <<store, uploads>>
    BY <1>5 DEF Save
  <2>2. \A q \in Requests : ~Busy(q)'
    BY <2>1
  <2>3. overwritten' = {}
    BY <1>5, <2>1, SerialSaveWrites DEF SerialInv
  <2>4. DanglesByFailure'
    <3> SUFFICES ASSUME NEW f \in plan[r].files, f \notin store
                 PROVE  \E q \in Learning : f \in plan'[q].removed /\ phase'[q] \in {"prepared", "torn"}
      BY <1>5, <2>1, SerialSaveWrites DEF DanglesByFailure
    <3>1. f \in row.files /\ f \notin plan[r].removed
      BY <2>1 DEF SerialInv, UploadsAreSafe
    <3>2. PICK q \in Learning : f \in plan[q].removed /\ phase[q] \in {"prepared", "torn"}
      BY <3>1 DEF SerialInv, DanglesByFailure
    <3> QED
      BY <2>1, <3>1, <3>2
  <2> QED
    BY <2>2, <2>3, <2>4 DEF SerialInv
<1>6. ASSUME NEW r \in Learning, LoseRace(r)
      PROVE  SerialInv'
  BY <1>6, SerialNoRace
<1>7. ASSUME NEW r \in Learning, Abort(r)
      PROVE  SerialInv'
  BY <1>7 DEF Abort, Close, history, SerialInv, DanglesByFailure, Plans
<1>8. ASSUME NEW v \in Reviewing, NEW k \in {"approve", "reject", "grade", "return"}, OpenReview(v, k)
      PROVE  SerialInv'
  BY <1>8 DEF OpenReview, history, SerialInv, DanglesByFailure
<1>9. ASSUME NEW v \in Reviewing, Decide(v)
      PROVE  SerialInv'
  <2>1. /\ phase[v] = "review"
        /\ phase' = [phase EXCEPT ![v] = "saved"]
        /\ row'.files = row.files
        /\ UNCHANGED <<store, uploads, plan, overwritten>>
    BY <1>9, DecideWrites DEF Decide, history
  <2>2. \A q \in Requests : ~Busy(q)'
    BY <2>1
  <2>3. DanglesByFailure'
    BY <2>1 DEF SerialInv, DanglesByFailure
  <2> QED
    BY <2>1, <2>2, <2>3 DEF SerialInv
<1>10. CASE UNCHANGED vars
  BY <1>10 DEF vars, history, SerialInv, DanglesByFailure
<1> HIDE DEF IInv, TypeOK, Requests, Busy, Alone, NoPlan
<1> QED
  BY <1>1, <1>2, <1>3, <1>4, <1>5, <1>6, <1>7, <1>8, <1>9, <1>10 DEF Next

\* The serial invariant holds as long as requests come one after the other.
LEMMA SerialInvariant == SerialSpec => []SerialInv
<1>1. Init => SerialInv
  BY DEF Init, SerialInv, Busy, DanglesByFailure, NoRow, Requests
<1> QED
  BY <1>1, SerialStep, Invariant, PTL DEF SerialSpec, Spec

\* One request at a time, submit keeps its word: the content of an approved
\* submission changes only together with its status.
THEOREM SerialReviewedIsFrozen == SerialSpec => ReviewedContentIsFrozen
<1>1. SerialInv => ~StaleSave
  BY DEF SerialInv, StaleSave, Save, Busy, Requests
<1>2. IInv /\ SerialInv /\ [Next]_vars =>
        [row.status = "approved" /\ row'.status = "approved" =>
            row'.text = row.text /\ row'.files = row.files]_vars
  BY <1>1, ReviewedStep DEF ChangesReviewed
<1> QED
  BY <1>2, SerialInvariant, Invariant, PTL DEF SerialSpec, Spec, ReviewedContentIsFrozen

\* One request at a time, no save leaves a file behind, and a file the row
\* names is missing only where a request failed after removing it.
THEOREM SerialStorageFollowsRow == SerialSpec => [](overwritten = {} /\ DanglesByFailure)
<1>1. SerialInv => overwritten = {} /\ DanglesByFailure
  BY DEF SerialInv
<1> QED
  BY <1>1, SerialInvariant, PTL
=============================================================================
