------------------------ MODULE AssignmentSubmission ------------------------
(***************************************************************************)
(* One learner's submission to one assignment block: one database row, its *)
(* files in storage, the learner's draft, submit and resubmit requests, and *)
(* the reviewers' approve, reject, grade and return requests.              *)
(*                                                                         *)
(* Learner handlers are coroutines: a coroutine leaves its API process to  *)
(* the others only while it awaits an upload.  Reviewer handlers run in    *)
(* threads and interleave with everything.  All of them read the row first *)
(* and write it later, in one UPDATE that names only the columns whose new *)
(* value differs from the value read (SQLAlchemy's unit of work), so two   *)
(* writers mix their columns.  The UPDATE takes the row lock, hence from   *)
(* the flush to the commit a handler is one action.  Storage is no part of *)
(* the transaction.                                                        *)
(***************************************************************************)
EXTENDS Naturals, FiniteSets

CONSTANTS
    Learning,    \* the learner's requests, each handled once
    Reviewing,   \* the reviewers' requests, each handled once
    Processes,   \* API processes
    Home,        \* Home[r]: the process that handles the learner's request r
    MaxUploads   \* bound: files uploaded by one request

ASSUME HomeAssumption == Home \in [Learning -> Processes]
ASSUME RequestsAssumption == Learning \cap Reviewing = {}
ASSUME UploadsAssumption == MaxUploads \in Nat

VARIABLES
    row,         \* the assignment_submissions row; status "absent" before the insert
    store,       \* files on disk
    phase,       \* how far a request has come
    kind,        \* what the request asks for
    snap,        \* the row as the request has loaded it
    uploads,     \* files the request has uploaded
    plan,        \* what it is going to write, and the files it has removed
    complete,    \* lesson_block_progress.status = "completed"
    submits,     \* history: committed submissions
    overwritten, \* history: files a save dropped from the row and left on disk
    revived      \* history: files a save named in the row though they were gone

requests == <<phase, kind, snap, uploads, plan>>
history == <<submits, overwritten, revived>>
vars == <<row, store, phase, kind, snap, uploads, plan, complete, submits, overwritten, revived>>

Requests == Learning \cup Reviewing

\* A stored file has a fresh uuid; the n-th upload of request r stands for it.
Files == Learning \X (1..MaxUploads)

Pending == {"pending_verification"}
Decided == {"approved", "rejected", "graded", "returned"}
Statuses == {"absent", "draft"} \cup Pending \cup Decided

Rows == [status : Statuses, text : Learning \cup {"none"}, files : SUBSET Files, attempt : Nat]
Plans == [text : Learning \cup {"none"}, files : SUBSET Files, removed : SUBSET Files]

NoRow == [status |-> "absent", text |-> "none", files |-> {}, attempt |-> 0]
NoPlan == [text |-> "none", files |-> {}, removed |-> {}]

Init ==
    /\ row = NoRow
    /\ store = {}
    /\ phase = [r \in Requests |-> "new"]
    /\ kind = [r \in Requests |-> "none"]
    /\ snap = [r \in Requests |-> NoRow]
    /\ uploads = [r \in Learning |-> {}]
    /\ plan = [r \in Learning |-> NoPlan]
    /\ complete = FALSE
    /\ submits = 0
    /\ overwritten = {}
    /\ revived = {}

-----------------------------------------------------------------------------
(* The learner's requests.                                                 *)

\* Between its last await and its commit a coroutine has its process for itself.
LoopFree(r) == \A q \in Learning \ {r} : Home[q] = Home[r] => phase[q] # "prepared"

Refused(k, status) ==
    \/ k = "draft" /\ status \in {"submitted", "graded"}
    \/ k = "submit" /\ status \in {"approved", "graded"}
    \/ k = "resubmit" /\ status \in Pending

\* The request is answered: nothing of its session remains.
Close(r) ==
    /\ kind' = [kind EXCEPT ![r] = "none"]
    /\ snap' = [snap EXCEPT ![r] = NoRow]

\* save_draft and submit: load the row and check its status.
Open(r, k) ==
    /\ phase[r] = "new"
    /\ LoopFree(r)
    /\ ~Refused(k, row.status)
    /\ phase' = [phase EXCEPT ![r] = "upload"]
    /\ kind' = [kind EXCEPT ![r] = k]
    /\ snap' = [snap EXCEPT ![r] = row]
    /\ UNCHANGED <<row, store, uploads, plan, complete, history>>

\* _store_files: one file; the draft route passes none.
Upload(r) ==
    /\ phase[r] = "upload"
    /\ kind[r] # "draft"
    /\ LoopFree(r)
    /\ \E n \in 1..MaxUploads :
         /\ uploads[r] = {r} \X (1..n - 1)
         /\ uploads' = [uploads EXCEPT ![r] = @ \cup {<<r, n>>}]
         /\ store' = store \cup {<<r, n>>}
    /\ UNCHANGED <<row, phase, kind, snap, plan, complete, history>>

Empty(r, kept, text) == kind[r] # "draft" /\ text = "none" /\ kept \cup uploads[r] = {}

\* Mutant: what is not kept is swept from the learner's folder, row or not.
RemovedByFolder(r, kept) == store \ (kept \cup uploads[r])

\* _cleanup_removed_files: the row's files the learner does not keep.
Removed(r, kept) == snap[r].files \ kept

\* The removed files are deleted at once.  save_submission loads the row again,
\* which shows anything new only if there was no row before.
Prepare(r, kept, text) ==
    /\ phase[r] = "upload"
    /\ LoopFree(r)
    /\ kept \subseteq snap[r].files
    /\ ~Empty(r, kept, text)
    /\ store' = store \ Removed(r, kept)
    /\ plan' = [plan EXCEPT ![r] =
          [text |-> text, files |-> kept \cup uploads[r], removed |-> Removed(r, kept)]]
    /\ snap' = IF snap[r].status = "absent" THEN [snap EXCEPT ![r] = row] ELSE snap
    /\ phase' = [phase EXCEPT ![r] = "prepared"]
    /\ UNCHANGED <<row, kind, uploads, complete, history>>

\* An empty submission is refused (HTTP 400) after its files have been deleted.
RefuseEmpty(r) ==
    /\ phase[r] = "upload"
    /\ LoopFree(r)
    /\ Empty(r, {}, "none")
    /\ store' = store \ Removed(r, {})
    /\ plan' = [plan EXCEPT ![r] = [NoPlan EXCEPT !.removed = Removed(r, {})]]
    /\ phase' = [phase EXCEPT ![r] = "torn"]
    /\ Close(r)
    /\ UNCHANGED <<row, uploads, complete, history>>

\* Mutant: a draft counts as an attempt as well.
AttemptOfEverySave(k, old) == IF old.status = "absent" THEN 1 ELSE old.attempt + 1

\* attempt_number: a submission over anything but a draft counts one more.
Attempt(k, old) ==
    IF old.status = "absent" THEN 1
    ELSE IF k # "draft" /\ old.status # "draft" THEN old.attempt + 1
    ELSE old.attempt

\* Mutant: a resubmission is stored under the status it once had.
NewRowResubmitted(r) ==
    [status |-> IF kind[r] = "draft" THEN "draft"
                ELSE IF kind[r] = "resubmit" THEN "resubmitted" ELSE "pending_verification",
     text |-> plan[r].text, files |-> plan[r].files, attempt |-> Attempt(kind[r], snap[r])]

NewRow(r) ==
    [status |-> IF kind[r] = "draft" THEN "draft" ELSE "pending_verification",
     text |-> plan[r].text, files |-> plan[r].files, attempt |-> Attempt(kind[r], snap[r])]

\* Mutant: the UPDATE names every column, the unchanged ones with their old value.
MergedAllColumns(r, new) == new

\* An UPDATE writes the columns that differ from the loaded row.
Merged(r, new) ==
    [status |-> IF new.status # snap[r].status THEN new.status ELSE row.status,
     text |-> IF new.text # snap[r].text THEN new.text ELSE row.text,
     files |-> IF new.files # snap[r].files THEN new.files ELSE row.files,
     attempt |-> IF new.attempt # snap[r].attempt THEN new.attempt ELSE row.attempt]

\* save_submission and _mark_assignment_complete, to the commit.
Save(r) ==
    /\ phase[r] = "prepared"
    /\ snap[r].status = "absent" => row.status = "absent"
    /\ row' = Merged(r, NewRow(r))
    /\ complete' = (complete \/ kind[r] # "draft")
    /\ submits' = IF kind[r] = "draft" THEN submits ELSE submits + 1
    /\ overwritten' = overwritten \cup ((row.files \ row'.files) \cap store)
    /\ revived' = revived \cup (row'.files \ store)
    /\ plan' = [plan EXCEPT ![r] = NoPlan]
    /\ phase' = [phase EXCEPT ![r] = "saved"]
    /\ Close(r)
    /\ UNCHANGED <<store, uploads>>

\* Mutant: the except branch answers without deleting the uploads.
LoseRaceKeepsUploads(r) ==
    /\ phase[r] = "prepared"
    /\ snap[r].status = "absent" /\ row.status # "absent"
    /\ plan' = [plan EXCEPT ![r] = NoPlan]
    /\ phase' = [phase EXCEPT ![r] = "lost"]
    /\ Close(r)
    /\ UNCHANGED <<row, store, uploads, complete, history>>

\* The INSERT meets another request's row: IntegrityError, rollback, the
\* uploads are deleted, and the request answers with the other's row.
LoseRace(r) ==
    /\ phase[r] = "prepared"
    /\ snap[r].status = "absent" /\ row.status # "absent"
    /\ store' = store \ uploads[r]
    /\ plan' = [plan EXCEPT ![r] = NoPlan]
    /\ phase' = [phase EXCEPT ![r] = "lost"]
    /\ Close(r)
    /\ UNCHANGED <<row, uploads, complete, history>>

\* An upload that is refused, a database error, a crash of the process: the
\* request ends and what it has done to the storage stays.
Abort(r) ==
    /\ phase[r] \in {"upload", "prepared"}
    /\ phase' = [phase EXCEPT ![r] = IF phase[r] = "upload" THEN "failed" ELSE "torn"]
    /\ plan' = [plan EXCEPT ![r] = [NoPlan EXCEPT !.removed = plan[r].removed]]
    /\ Close(r)
    /\ UNCHANGED <<row, store, uploads, complete, history>>

-----------------------------------------------------------------------------
(* The reviewers' requests.                                                *)

\* Mutant: review refuses what is decided and forgets the check for pending.
OpenReviewOfDraft(v, k) ==
    /\ phase[v] = "new"
    /\ row.status # "absent"
    /\ k \in {"approve", "reject"} => row.status \notin Decided
    /\ phase' = [phase EXCEPT ![v] = "review"]
    /\ kind' = [kind EXCEPT ![v] = k]
    /\ snap' = [snap EXCEPT ![v] = row]
    /\ UNCHANGED <<row, store, uploads, plan, complete, history>>

\* review checks the status, grade takes any row.
OpenReview(v, k) ==
    /\ phase[v] = "new"
    /\ row.status # "absent"
    /\ k \in {"approve", "reject"} => row.status \in Pending
    /\ phase' = [phase EXCEPT ![v] = "review"]
    /\ kind' = [kind EXCEPT ![v] = k]
    /\ snap' = [snap EXCEPT ![v] = row]
    /\ UNCHANGED <<row, store, uploads, plan, complete, history>>

Outcome(k) ==
    CASE k = "approve" -> "approved"
      [] k = "reject" -> "rejected"
      [] k = "grade" -> "graded"
      [] OTHER -> "returned"

\* review_submission and grade_submission, to the commit.
Decide(v) ==
    /\ phase[v] = "review"
    /\ row' = Merged(v, [snap[v] EXCEPT !.status = Outcome(kind[v])])
    /\ phase' = [phase EXCEPT ![v] = "saved"]
    /\ Close(v)
    /\ UNCHANGED <<store, uploads, plan, complete, history>>

-----------------------------------------------------------------------------
Next ==
    \/ \E r \in Learning :
         \/ \E k \in {"draft", "submit", "resubmit"} : Open(r, k)
         \/ Upload(r)
         \/ \E kept \in SUBSET snap[r].files, text \in {r, "none"} : Prepare(r, kept, text)
         \/ RefuseEmpty(r)
         \/ Save(r)
         \/ LoseRace(r)
         \/ Abort(r)
    \/ \E v \in Reviewing :
         \/ \E k \in {"approve", "reject", "grade", "return"} : OpenReview(v, k)
         \/ Decide(v)

Spec == Init /\ [][Next]_vars

-----------------------------------------------------------------------------
TypeOK ==
    /\ row \in Rows
    /\ store \subseteq Files
    /\ phase \in [Requests -> {"new", "upload", "prepared", "saved", "lost", "failed", "torn", "review"}]
    /\ kind \in [Requests -> {"none", "draft", "submit", "resubmit", "approve", "reject", "grade", "return"}]
    /\ snap \in [Requests -> Rows]
    /\ uploads \in [Learning -> SUBSET Files]
    /\ plan \in [Learning -> Plans]
    /\ complete \in BOOLEAN
    /\ submits \in Nat
    /\ overwritten \subseteq Files
    /\ revived \subseteq Files

\* An approved or rejected submission was really submitted, and the learner's
\* block is complete: no mixture of a draft, a submission and two reviewers
\* gets a verdict on work that was never handed in.
DecidedWasSubmitted == row.status \in {"approved", "rejected"} => complete

\* attempt_number, which the gradebook copies, never runs ahead of what the
\* learner handed in, although it is computed from a row that may be stale and
\* a graded draft counts as an attempt.
AttemptsNeverOvercount == row.attempt <= submits + 1

\* While a request is on its way nobody deletes the files it has uploaded: not
\* a request that removes files, not one that loses the insert race.
UploadsAreSafe ==
    \A r \in Learning : phase[r] \in {"upload", "prepared"} => uploads[r] \subseteq store

\* A file on disk that the row does not name belongs to a request on its way,
\* was left by one that failed, or was dropped by a save that had read an
\* older row.  In particular a request that loses the insert race leaves none.
OrphansAreExplained ==
    \A f \in store :
        \/ f \in row.files \cup overwritten
        \/ \E r \in Learning : f \in uploads[r] /\ phase[r] \in {"upload", "prepared", "failed", "torn"}

\* A file the row names is missing from the disk only because a request
\* removed it and has not committed (and may never), or because a save brought
\* the name back from an older row.
DanglingIsExplained ==
    \A f \in row.files \ store :
        \/ f \in revived
        \/ \E r \in Learning : f \in plan[r].removed /\ phase[r] \in {"prepared", "torn"}

\* What submit tells the learner: "Cannot update a reviewed assignment without
\* resubmitting".  The content of an approved submission changes only together
\* with its status.
ReviewedContentIsFrozen ==
    [][row.status = "approved" /\ row'.status = "approved" =>
          row'.text = row.text /\ row'.files = row.files]_vars
=============================================================================
