-------------------------- MODULE CoursePublishing --------------------------
(***************************************************************************)
(* One course: its publishing workflow, its numbered versions and the       *)
(* version each learner is pinned to.  Every handler runs in a thread of    *)
(* its own and interleaves at its database statements.  A handler reads the *)
(* course first and writes it later; the UPDATE of the courses row takes    *)
(* the row's lock, which is held until the commit.  Version rows are        *)
(* numbered by reading the highest number; nothing in the database keeps    *)
(* two rows from having the same one.                                      *)
(***************************************************************************)
EXTENDS Naturals, FiniteSets

CONSTANTS
    Requests,   \* authors' and reviewers' requests, each handled once
    Learners,   \* learners, each enrolled at most once
    MaxEdits    \* bound: edits of the course content

ASSUME EditsAssumption == MaxEdits \in Nat
ASSUME NobodyAssumption == "nobody" \notin Requests

VARIABLES
    status,     \* courses.status
    holder,     \* the request that holds the lock of the courses row
    content,    \* which edition of the live sections, modules and blocks there is
    versions,   \* course_versions: the row each request has inserted
    phase,      \* how far a request has come
    kind,       \* what the request asks for
    number,     \* the version number it is going to use
    snapshot,   \* the oldest and the newest edition it has copied, 0 for not yet
    step,       \* how far the enrolment of a learner has come
    pin,        \* the number the enrolment has read, then course_progress.enrolled_version
    admitted    \* history: the latest published number when the enrolment was admitted

course == <<status, holder, content, versions>>
requests == <<phase, kind, number, snapshot>>
enrolments == <<step, pin, admitted>>
vars == <<status, holder, content, versions, phase, kind, number, snapshot, step, pin, admitted>>

Statuses == {"draft", "review", "approved", "rejected", "published", "archived", "active"}

\* The workflow's table, with the restoring of an archived course.
AllowedFrom ==
    [submit_for_review |-> {"draft", "rejected", "published", "active"},
     approve           |-> {"review"},
     reject            |-> {"review"},
     publish           |-> {"approved"},
     archive           |-> {"published", "active"},
     restore           |-> {"archived"}]

\* Mutant: the name of the action is stored as the status.
TargetByName == [k \in DOMAIN AllowedFrom |-> k]

Target ==
    [submit_for_review |-> "review",
     approve           |-> "approved",
     reject            |-> "draft",
     publish           |-> "published",
     archive           |-> "archived",
     restore           |-> "active"]

Workflow == DOMAIN Target
Kinds == Workflow \cup {"create_version", "branch"}

\* "published" is written by the workflow, "Draft" and "Published" by the older
\* authoring routes.  A snapshot is copied with several SELECTs and may mix editions
\* of the content: from the oldest to the newest one it has read.  A branch stores
\* none (0, for NULL).
VersionStatuses == {"none", "draft", "published", "Draft", "Published"}
Editions == 1..MaxEdits + 1
Snapshots == [oldest : Editions \cup {0}, newest : Editions \cup {0}]
Versions == [status : VersionStatuses, number : Nat, snapshot : Snapshots]

NoSnapshot == [oldest |-> 0, newest |-> 0]
NoVersion == [status |-> "none", number |-> 0, snapshot |-> NoSnapshot]

Stored == {r \in Requests : versions[r].status # "none"}
Published == {r \in Requests : versions[r].status \in {"published", "Published"}}

\* n is the highest number in the rows of the given requests, 0 if there are none.
IsHighest(n, rows) ==
    /\ n = 0 => rows = {}
    /\ n > 0 => \E r \in rows : versions[r].number = n
    /\ \A r \in rows : versions[r].number <= n

Numbers == 0..Cardinality(Requests)

Init ==
    /\ status \in Statuses
    /\ holder = "nobody"
    /\ content = 1
    /\ versions = [r \in Requests |-> NoVersion]
    /\ phase = [r \in Requests |-> "new"]
    /\ kind = [r \in Requests |-> "none"]
    /\ number = [r \in Requests |-> 0]
    /\ snapshot = [r \in Requests |-> NoSnapshot]
    /\ step = [l \in Learners |-> "out"]
    /\ pin = [l \in Learners |-> 0]
    /\ admitted = [l \in Learners |-> 0]

-----------------------------------------------------------------------------
(* The workflow.                                                           *)

\* execute_workflow_action loads the course and checks the transition.
Begin(r, k) ==
    /\ phase[r] = "new"
    /\ status \in AllowedFrom[k]
    /\ phase' = [phase EXCEPT ![r] = "checked"]
    /\ kind' = [kind EXCEPT ![r] = k]
    /\ UNCHANGED <<course, number, snapshot, enrolments>>

\* update_course_status: the flush waits for the row and locks it.
Flush(r) ==
    /\ phase[r] = "checked" /\ kind[r] \in Workflow
    /\ holder = "nobody"
    /\ holder' = r
    /\ phase' = [phase EXCEPT ![r] = "flushed"]
    /\ UNCHANGED <<status, content, versions, kind, number, snapshot, enrolments>>

\* Mutant: the number is taken before the status is written.
TakeNumberUnlocked(r) ==
    /\ phase[r] = "checked" /\ kind[r] \in {"publish", "create_version", "branch"}
    /\ number[r] = 0
    /\ \E n \in Numbers : IsHighest(n, Stored) /\ number' = [number EXCEPT ![r] = n + 1]
    /\ UNCHANGED <<course, phase, kind, snapshot, enrolments>>

\* Mutant: the rows are counted instead.
TakeNumberByCount(r) ==
    /\ \/ phase[r] = "flushed" /\ kind[r] = "publish"
       \/ phase[r] = "checked" /\ kind[r] \in {"create_version", "branch"}
    /\ number[r] = 0
    /\ number' = [number EXCEPT ![r] = Cardinality(Stored) + 1]
    /\ UNCHANGED <<course, phase, kind, snapshot, enrolments>>

\* get_versions: the highest number there is, and one more.
TakeNumber(r) ==
    /\ \/ phase[r] = "flushed" /\ kind[r] = "publish"
       \/ phase[r] = "checked" /\ kind[r] \in {"create_version", "branch"}
    /\ number[r] = 0
    /\ \E n \in Numbers : IsHighest(n, Stored) /\ number' = [number EXCEPT ![r] = n + 1]
    /\ UNCHANGED <<course, phase, kind, snapshot, enrolments>>

\* build_snapshot begins: the course's sections as they are now.
CopySections(r) ==
    /\ kind[r] \in {"publish", "create_version"} /\ phase[r] # "done"
    /\ number[r] # 0 /\ snapshot[r].oldest = 0
    /\ snapshot' = [snapshot EXCEPT ![r] = [oldest |-> content, newest |-> 0]]
    /\ UNCHANGED <<course, phase, kind, number, enrolments>>

\* build_snapshot ends: the modules, then their blocks.  The builder's saves do not
\* wait for the course, so they may be newer than the sections.
CopyBlocks(r) ==
    /\ phase[r] # "done"
    /\ snapshot[r].oldest # 0 /\ snapshot[r].newest = 0
    /\ snapshot' = [snapshot EXCEPT ![r] = [oldest |-> @.oldest, newest |-> content]]
    /\ UNCHANGED <<course, phase, kind, number, enrolments>>

\* The commit of every action but publish.
CommitStatus(r) ==
    /\ phase[r] = "flushed" /\ kind[r] \in Workflow \ {"publish"}
    /\ status' = Target[kind[r]]
    /\ holder' = "nobody"
    /\ phase' = [phase EXCEPT ![r] = "done"]
    /\ UNCHANGED <<content, versions, kind, number, snapshot, enrolments>>

\* The commit of publish: the version with its snapshot, and the status.
CommitPublish(r) ==
    /\ phase[r] = "flushed" /\ kind[r] = "publish" /\ snapshot[r].newest # 0
    /\ versions' = [versions EXCEPT ![r] =
          [status |-> "published", number |-> number[r], snapshot |-> snapshot[r]]]
    /\ status' = "published"
    /\ holder' = "nobody"
    /\ phase' = [phase EXCEPT ![r] = "done"]
    /\ snapshot' = [snapshot EXCEPT ![r] = NoSnapshot]
    /\ UNCHANGED <<content, kind, number, enrolments>>

\* An error: validation, a question that is not published, a lost connection.
Fail(r) ==
    /\ phase[r] \in {"checked", "flushed"}
    /\ phase' = [phase EXCEPT ![r] = "done"]
    /\ holder' = IF holder = r THEN "nobody" ELSE holder
    /\ snapshot' = [snapshot EXCEPT ![r] = NoSnapshot]
    /\ UNCHANGED <<status, content, versions, kind, number, enrolments>>

-----------------------------------------------------------------------------
(* Versions outside the workflow, and the other writers of the course.      *)

\* create_version and branch_course_version start from any status.
BeginVersion(r, k) ==
    /\ phase[r] = "new"
    /\ phase' = [phase EXCEPT ![r] = "checked"]
    /\ kind' = [kind EXCEPT ![r] = k]
    /\ UNCHANGED <<course, number, snapshot, enrolments>>

CommitVersion(r) ==
    /\ phase[r] = "checked" /\ number[r] # 0
    /\ \/ kind[r] = "branch"
       \/ kind[r] = "create_version" /\ snapshot[r].newest # 0
    /\ versions' = [versions EXCEPT ![r] =
          [status |-> IF kind[r] = "branch" THEN "Draft" ELSE "draft",
           number |-> number[r], snapshot |-> snapshot[r]]]
    /\ phase' = [phase EXCEPT ![r] = "done"]
    /\ snapshot' = [snapshot EXCEPT ![r] = NoSnapshot]
    /\ UNCHANGED <<status, holder, content, kind, number, enrolments>>

\* publish_course of the authoring routes: any branch becomes published, whatever
\* the course's status, and stays without a snapshot.
PublishBranch(r) ==
    /\ versions[r].status = "Draft"
    /\ versions' = [versions EXCEPT ![r] = [@ EXCEPT !.status = "Published"]]
    /\ UNCHANGED <<status, holder, content, requests, enrolments>>

\* patch_course writes the status it is given, delete_course "archived".
Patch(s) ==
    /\ holder = "nobody"
    /\ status' = s
    /\ UNCHANGED <<holder, content, versions, requests, enrolments>>

\* The builder saves sections, modules and blocks in every status.
Edit ==
    /\ content <= MaxEdits
    /\ content' = content + 1
    /\ UNCHANGED <<status, holder, versions, requests, enrolments>>

-----------------------------------------------------------------------------
(* The enrolment of a learner.                                             *)

\* _load_and_validate_courses.
Admit(l) ==
    /\ step[l] = "out"
    /\ status \in {"active", "published"}
    /\ step' = [step EXCEPT ![l] = "admitted"]
    /\ \E n \in Numbers : IsHighest(n, Published) /\ admitted' = [admitted EXCEPT ![l] = n]
    /\ UNCHANGED <<course, requests, pin>>

\* _latest_published_version_number; 0 stands for None.
IsLatest(n) == IsHighest(n, Published)

ReadLatest(l) ==
    /\ step[l] = "admitted"
    /\ step' = [step EXCEPT ![l] = "read"]
    /\ \E n \in Numbers : IsLatest(n) /\ pin' = [pin EXCEPT ![l] = n]
    /\ UNCHANGED <<course, requests, admitted>>

\* The commit; counting the learner in the courses row waits for its lock.
Enroll(l) ==
    /\ step[l] = "read"
    /\ holder = "nobody"
    /\ step' = [step EXCEPT ![l] = "enrolled"]
    /\ UNCHANGED <<course, requests, pin, admitted>>

-----------------------------------------------------------------------------
Next ==
    \/ \E r \in Requests :
         \/ \E k \in Workflow : Begin(r, k)
         \/ Flush(r)
         \/ TakeNumber(r)
         \/ CopySections(r)
         \/ CopyBlocks(r)
         \/ CommitStatus(r)
         \/ CommitPublish(r)
         \/ Fail(r)
         \/ \E k \in {"create_version", "branch"} : BeginVersion(r, k)
         \/ CommitVersion(r)
         \/ PublishBranch(r)
    \/ \E s \in Statuses : Patch(s)
    \/ Edit
    \/ \E l \in Learners :
         \/ Admit(l)
         \/ ReadLatest(l)
         \/ Enroll(l)

Spec == Init /\ [][Next]_vars

-----------------------------------------------------------------------------
TypeOK ==
    /\ status \in Statuses
    /\ holder \in Requests \cup {"nobody"}
    /\ content \in Editions
    /\ versions \in [Requests -> Versions]
    /\ phase \in [Requests -> {"new", "checked", "flushed", "done"}]
    /\ kind \in [Requests -> Kinds \cup {"none"}]
    /\ number \in [Requests -> Nat]
    /\ snapshot \in [Requests -> Snapshots]
    /\ step \in [Learners -> {"out", "admitted", "read", "enrolled"}]
    /\ pin \in [Learners -> Nat]
    /\ admitted \in [Learners -> Nat]

\* Two versions published through the workflow never share a number, and the one
\* with the higher number has copied no piece of the content that is older than a
\* piece of the other, although two publish requests may both have found the course
\* approved and saves come in while the content is copied: the second one waits for
\* the row, and numbers and copies the course after the first has committed.
PublishedInOrder ==
    \A r, s \in Requests :
        r # s /\ versions[r].status = "published" /\ versions[s].status = "published"
            => /\ versions[r].number # versions[s].number
               /\ versions[r].number < versions[s].number
                    => versions[r].snapshot.newest <= versions[s].snapshot.oldest

\* The numbers in use have no gap, however many requests fail after taking one
\* and however often a number is used twice.
NumbersHaveNoGap ==
    \A r \in Stored :
        versions[r].number = 1 \/ \E s \in Stored : versions[s].number = versions[r].number - 1

\* A learner is pinned to a published version, never to one that is only stored.
PinIsPublished ==
    \A l \in Learners : pin[l] # 0 => \E r \in Published : versions[r].number = pin[l]

\* A learner is pinned to no older version than the one that was published when
\* the enrolment was admitted, although it reads the versions later.
PinIsFresh ==
    \A l \in Learners : step[l] \in {"read", "enrolled"} => pin[l] >= admitted[l]

-----------------------------------------------------------------------------
(* The promise.                                                            *)

\* Mapping: what the workflow has published, the numbers a learner may be pinned
\* to, and the enrolments that have chosen.
Entries ==
    {[number |-> versions[r].number, oldest |-> versions[r].snapshot.oldest,
      newest |-> versions[r].snapshot.newest] :
        r \in {s \in Requests : versions[s].status = "published"}}
Offered == {versions[r].number : r \in Published}
Pins == {<<l, pin[l]>> : l \in {k \in Learners : step[k] \in {"read", "enrolled"}}}

Catalog == INSTANCE VersionCatalog WITH catalog <- Entries, offered <- Offered, pins <- Pins

\* Whatever requests overlap and fail, the workflow's versions are a catalogue that
\* only grows, in the order of numbers and of the editions copied, and every learner
\* is pinned to the number that was the latest at one moment of the enrolment, for
\* good (execute_workflow_action, build_snapshot, _latest_published_version_number).
ImplementsCatalog == Catalog!Spec
=============================================================================
