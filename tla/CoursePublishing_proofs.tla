---------------------- MODULE CoursePublishing_proofs ----------------------
(***************************************************************************)
(* Proofs about CoursePublishing for any number of requests, learners and  *)
(* edits. Published versions are distinct and in order because a publish   *)
(* request reads the highest number, and copies the content, while it      *)
(* holds the lock of the course: the inductive invariant says who holds    *)
(* the lock, and that the number the holder has taken is above every       *)
(* published one. The last part shows that the whole implements            *)
(* VersionCatalog.                                                         *)
(***************************************************************************)
EXTENDS CoursePublishing, TLAPS

\* The lock is held by the one request between its flush and its commit.
Locked ==
    \A r \in Requests :
        /\ phase[r] = "flushed" <=> holder = r
        /\ phase[r] \in {"new", "checked", "flushed"} => versions[r].status = "none"

\* A publish request under way has a number above all published ones, and has copied
\* nothing that is older than what they have copied.
TakenAbove ==
    \A r \in Requests :
        /\ phase[r] = "new" \/ (phase[r] = "checked" /\ kind[r] = "publish") => number[r] = 0
        /\ phase[r] = "flushed" /\ kind[r] = "publish" /\ number[r] # 0
              => \A s \in Requests : versions[s].status = "published" => versions[s].number < number[r]
        /\ phase[r] = "flushed" /\ kind[r] = "publish" /\ snapshot[r].oldest # 0
              => \A s \in Requests :
                    versions[s].status = "published" => versions[s].snapshot.newest <= snapshot[r].oldest

\* A number that has been taken follows one that is stored.
TakenNext ==
    \A r \in Requests :
        /\ number[r] # 0 => number[r] = 1 \/ \E s \in Stored : versions[s].number = number[r] - 1
        /\ r \in Stored => versions[r].number = number[r] /\ number[r] # 0

\* What was the latest published number at the admission is still published.
AdmittedIsPublished ==
    \A l \in Learners :
        step[l] = "admitted" /\ admitted[l] # 0 => \E r \in Published : versions[r].number = admitted[l]

\* The pieces of a snapshot are copied in order, and none is newer than the content.
CopiedInOrder(c) ==
    /\ c.oldest <= content /\ c.newest <= content
    /\ c.newest # 0 => 0 < c.oldest /\ c.oldest <= c.newest

\* A snapshot was copied from the content as it is or as it was: by a request that has
\* its number, a publish request after its flush.
SnapshotsArePast ==
    \A r \in Requests :
        /\ CopiedInOrder(snapshot[r])
        /\ CopiedInOrder(versions[r].snapshot)
        /\ versions[r].status = "published" => versions[r].snapshot.newest # 0
        /\ snapshot[r].oldest # 0 => /\ number[r] # 0
                                      /\ phase[r] \in {"checked", "flushed"}
                                      /\ kind[r] \in {"publish", "create_version"}

IInv ==
    /\ TypeOK
    /\ Locked
    /\ TakenAbove
    /\ TakenNext
    /\ SnapshotsArePast
    /\ AdmittedIsPublished
    /\ PublishedInOrder
    /\ PinIsPublished
    /\ PinIsFresh

\* The target of every action is a status.
LEMMA TargetType == \A k \in Workflow : Target[k] \in Statuses
  BY DEF Workflow, Target, Statuses

\* The types are preserved.
LEMMA TypeStep == IInv /\ [Next]_vars => TypeOK'
<1> SUFFICES ASSUME IInv, [Next]_vars PROVE TypeOK'
  OBVIOUS
<1> USE EditsAssumption, NobodyAssumption DEF
      IInv, TypeOK, Versions, Snapshots, NoSnapshot, Editions, VersionStatuses, Kinds,
      Numbers, course, requests, enrolments
<1>1. ASSUME NEW r \in Requests, NEW k \in Workflow, Begin(r, k)
      PROVE  TypeOK'
  BY <1>1 DEF Begin
<1>2. ASSUME NEW r \in Requests, Flush(r)
      PROVE  TypeOK'
  BY <1>2 DEF Flush
<1>3. ASSUME NEW r \in Requests, TakeNumber(r)
      PROVE  TypeOK'
  BY <1>3 DEF TakeNumber
<1>4. ASSUME NEW r \in Requests, CopySections(r)
      PROVE  TypeOK'
  BY <1>4 DEF CopySections
<1>5. ASSUME NEW r \in Requests, CopyBlocks(r)
      PROVE  TypeOK'
  BY <1>5 DEF CopyBlocks
<1>6. ASSUME NEW r \in Requests, CommitStatus(r)
      PROVE  TypeOK'
  BY <1>6, TargetType DEF CommitStatus
<1>7. ASSUME NEW r \in Requests, CommitPublish(r)
      PROVE  TypeOK'
  BY <1>7 DEF CommitPublish, Statuses
<1>8. ASSUME NEW r \in Requests, Fail(r)
      PROVE  TypeOK'
  BY <1>8 DEF Fail
<1>9. ASSUME NEW r \in Requests, NEW k \in {"create_version", "branch"}, BeginVersion(r, k)
      PROVE  TypeOK'
  BY <1>9 DEF BeginVersion
<1>10. ASSUME NEW r \in Requests, CommitVersion(r)
      PROVE  TypeOK'
  BY <1>10 DEF CommitVersion
<1>11. ASSUME NEW r \in Requests, PublishBranch(r)
      PROVE  TypeOK'
  <2>1. [versions[r] EXCEPT !.status = "Published"] \in Versions
    OBVIOUS
  <2> HIDE DEF IInv, TypeOK, Versions, Snapshots, Editions, VersionStatuses
  <2>2. TypeOK
    BY DEF IInv
  <2>3. versions' \in [Requests -> Versions]
    BY <1>11, <2>1, <2>2 DEF PublishBranch, TypeOK
  <2>4. UNCHANGED <<status, holder, content, phase, kind, number, snapshot, step, pin, admitted>>
    BY <1>11 DEF PublishBranch
  <2> QED
    BY <2>2, <2>3, <2>4 DEF TypeOK
<1>12. ASSUME NEW s \in Statuses, Patch(s)
      PROVE  TypeOK'
  BY <1>12 DEF Patch
<1>13. ASSUME Edit
      PROVE  TypeOK'
  BY <1>13 DEF Edit
<1>14. ASSUME NEW l \in Learners, Admit(l)
      PROVE  TypeOK'
  BY <1>14 DEF Admit
<1>15. ASSUME NEW l \in Learners, ReadLatest(l)
      PROVE  TypeOK'
  BY <1>15 DEF ReadLatest, IsLatest
<1>16. ASSUME NEW l \in Learners, Enroll(l)
      PROVE  TypeOK'
  BY <1>16 DEF Enroll
<1>17. CASE UNCHANGED vars
  BY <1>17 DEF vars
<1> HIDE DEF
      IInv, TypeOK, Versions, Snapshots, NoSnapshot, Editions, VersionStatuses, Kinds,
      Numbers, course, requests, enrolments
<1> QED
  BY <1>1, <1>2, <1>3, <1>4, <1>5, <1>6, <1>7, <1>8, <1>9, <1>10, <1>11, <1>12, <1>13, <1>14, <1>15,
     <1>16, <1>17 DEF Next

\* The lock has one holder.
LEMMA LockedStep == IInv /\ [Next]_vars => Locked'
<1> SUFFICES ASSUME IInv, [Next]_vars PROVE Locked'
  OBVIOUS
<1> USE EditsAssumption, NobodyAssumption DEF
      IInv, TypeOK, Locked, Versions, course, requests, enrolments
<1>1. ASSUME NEW r \in Requests, NEW k \in Workflow, Begin(r, k)
      PROVE  Locked'
  BY <1>1 DEF Begin
<1>2. ASSUME NEW r \in Requests, Flush(r)
      PROVE  Locked'
  BY <1>2 DEF Flush
<1>3. ASSUME NEW r \in Requests, TakeNumber(r)
      PROVE  Locked'
  BY <1>3 DEF TakeNumber
<1>4. ASSUME NEW r \in Requests, CopySections(r)
      PROVE  Locked'
  BY <1>4 DEF CopySections
<1>5. ASSUME NEW r \in Requests, CopyBlocks(r)
      PROVE  Locked'
  BY <1>5 DEF CopyBlocks
<1>6. ASSUME NEW r \in Requests, CommitStatus(r)
      PROVE  Locked'
  BY <1>6 DEF CommitStatus
<1>7. ASSUME NEW r \in Requests, CommitPublish(r)
      PROVE  Locked'
  BY <1>7 DEF CommitPublish
<1>8. ASSUME NEW r \in Requests, Fail(r)
      PROVE  Locked'
  BY <1>8 DEF Fail
<1>9. ASSUME NEW r \in Requests, NEW k \in {"create_version", "branch"}, BeginVersion(r, k)
      PROVE  Locked'
  BY <1>9 DEF BeginVersion
<1>10. ASSUME NEW r \in Requests, CommitVersion(r)
      PROVE  Locked'
  BY <1>10 DEF CommitVersion
<1>11. ASSUME NEW r \in Requests, PublishBranch(r)
      PROVE  Locked'
  BY <1>11 DEF PublishBranch
<1>12. ASSUME NEW s \in Statuses, Patch(s)
      PROVE  Locked'
  BY <1>12 DEF Patch
<1>13. ASSUME Edit
      PROVE  Locked'
  BY <1>13 DEF Edit
<1>14. ASSUME NEW l \in Learners, Admit(l)
      PROVE  Locked'
  BY <1>14 DEF Admit
<1>15. ASSUME NEW l \in Learners, ReadLatest(l)
      PROVE  Locked'
  BY <1>15 DEF ReadLatest
<1>16. ASSUME NEW l \in Learners, Enroll(l)
      PROVE  Locked'
  BY <1>16 DEF Enroll
<1>17. CASE UNCHANGED vars
  BY <1>17 DEF vars
<1> HIDE DEF IInv, TypeOK, Locked, Versions, course, requests, enrolments
<1> QED
  BY <1>1, <1>2, <1>3, <1>4, <1>5, <1>6, <1>7, <1>8, <1>9, <1>10, <1>11, <1>12, <1>13, <1>14, <1>15,
     <1>16, <1>17 DEF Next

\* The number of a publish request stays above the published ones.
LEMMA AboveStep == IInv /\ [Next]_vars => TakenAbove'
<1> SUFFICES ASSUME IInv, [Next]_vars PROVE TakenAbove'
  OBVIOUS
<1> USE EditsAssumption, NobodyAssumption DEF
      IInv, TypeOK, Locked, TakenAbove, SnapshotsArePast, CopiedInOrder, Versions, Snapshots,
      NoSnapshot, Editions, Stored, Numbers, course, requests, enrolments
<1>1. ASSUME NEW r \in Requests, NEW k \in Workflow, Begin(r, k)
      PROVE  TakenAbove'
  BY <1>1 DEF Begin
<1>2. ASSUME NEW r \in Requests, Flush(r)
      PROVE  TakenAbove'
  BY <1>2 DEF Flush
<1>3. ASSUME NEW r \in Requests, TakeNumber(r)
      PROVE  TakenAbove'
  BY <1>3 DEF TakeNumber, IsHighest
<1>4. ASSUME NEW r \in Requests, CopySections(r)
      PROVE  TakenAbove'
  BY <1>4 DEF CopySections
<1>5. ASSUME NEW r \in Requests, CopyBlocks(r)
      PROVE  TakenAbove'
  BY <1>5 DEF CopyBlocks
<1>6. ASSUME NEW r \in Requests, CommitStatus(r)
      PROVE  TakenAbove'
  BY <1>6 DEF CommitStatus
<1>7. ASSUME NEW r \in Requests, CommitPublish(r)
      PROVE  TakenAbove'
  BY <1>7 DEF CommitPublish
<1>8. ASSUME NEW r \in Requests, Fail(r)
      PROVE  TakenAbove'
  BY <1>8 DEF Fail
<1>9. ASSUME NEW r \in Requests, NEW k \in {"create_version", "branch"}, BeginVersion(r, k)
      PROVE  TakenAbove'
  BY <1>9 DEF BeginVersion
<1>10. ASSUME NEW r \in Requests, CommitVersion(r)
      PROVE  TakenAbove'
  BY <1>10 DEF CommitVersion
<1>11. ASSUME NEW r \in Requests, PublishBranch(r)
      PROVE  TakenAbove'
  BY <1>11 DEF PublishBranch
<1>12. ASSUME NEW s \in Statuses, Patch(s)
      PROVE  TakenAbove'
  BY <1>12 DEF Patch
<1>13. ASSUME Edit
      PROVE  TakenAbove'
  BY <1>13 DEF Edit
<1>14. ASSUME NEW l \in Learners, Admit(l)
      PROVE  TakenAbove'
  BY <1>14 DEF Admit
<1>15. ASSUME NEW l \in Learners, ReadLatest(l)
      PROVE  TakenAbove'
  BY <1>15 DEF ReadLatest
<1>16. ASSUME NEW l \in Learners, Enroll(l)
      PROVE  TakenAbove'
  BY <1>16 DEF Enroll
<1>17. CASE UNCHANGED vars
  BY <1>17 DEF vars
<1> HIDE DEF
      IInv, TypeOK, Locked, TakenAbove, SnapshotsArePast, CopiedInOrder, Versions, Snapshots,
      NoSnapshot, Editions, Stored, Numbers, course, requests, enrolments
<1> QED
  BY <1>1, <1>2, <1>3, <1>4, <1>5, <1>6, <1>7, <1>8, <1>9, <1>10, <1>11, <1>12, <1>13, <1>14, <1>15,
     <1>16, <1>17 DEF Next

\* Taken numbers stay next to stored ones.
LEMMA NextStep == IInv /\ [Next]_vars => TakenNext'
<1> SUFFICES ASSUME IInv, [Next]_vars PROVE TakenNext'
  OBVIOUS
<1> USE EditsAssumption, NobodyAssumption DEF
      IInv, TypeOK, Locked, TakenNext, Versions, Stored, Numbers, course, requests, enrolments
<1>1. ASSUME NEW r \in Requests, NEW k \in Workflow, Begin(r, k)
      PROVE  TakenNext'
  BY <1>1 DEF Begin
<1>2. ASSUME NEW r \in Requests, Flush(r)
      PROVE  TakenNext'
  BY <1>2 DEF Flush
<1>3. ASSUME NEW r \in Requests, TakeNumber(r)
      PROVE  TakenNext'
  BY <1>3 DEF TakeNumber, IsHighest
<1>4. ASSUME NEW r \in Requests, CopySections(r)
      PROVE  TakenNext'
  BY <1>4 DEF CopySections
<1>5. ASSUME NEW r \in Requests, CopyBlocks(r)
      PROVE  TakenNext'
  BY <1>5 DEF CopyBlocks
<1>6. ASSUME NEW r \in Requests, CommitStatus(r)
      PROVE  TakenNext'
  BY <1>6 DEF CommitStatus
<1>7. ASSUME NEW r \in Requests, CommitPublish(r)
      PROVE  TakenNext'
  BY <1>7 DEF CommitPublish, SnapshotsArePast, CopiedInOrder, Snapshots, Editions
<1>8. ASSUME NEW r \in Requests, Fail(r)
      PROVE  TakenNext'
  BY <1>8 DEF Fail
<1>9. ASSUME NEW r \in Requests, NEW k \in {"create_version", "branch"}, BeginVersion(r, k)
      PROVE  TakenNext'
  BY <1>9 DEF BeginVersion
<1>10. ASSUME NEW r \in Requests, CommitVersion(r)
      PROVE  TakenNext'
  BY <1>10 DEF CommitVersion
<1>11. ASSUME NEW r \in Requests, PublishBranch(r)
      PROVE  TakenNext'
  BY <1>11 DEF PublishBranch
<1>12. ASSUME NEW s \in Statuses, Patch(s)
      PROVE  TakenNext'
  BY <1>12 DEF Patch
<1>13. ASSUME Edit
      PROVE  TakenNext'
  BY <1>13 DEF Edit
<1>14. ASSUME NEW l \in Learners, Admit(l)
      PROVE  TakenNext'
  BY <1>14 DEF Admit
<1>15. ASSUME NEW l \in Learners, ReadLatest(l)
      PROVE  TakenNext'
  BY <1>15 DEF ReadLatest
<1>16. ASSUME NEW l \in Learners, Enroll(l)
      PROVE  TakenNext'
  BY <1>16 DEF Enroll
<1>17. CASE UNCHANGED vars
  BY <1>17 DEF vars
<1> HIDE DEF
      IInv, TypeOK, Locked, TakenNext, Versions, Stored, Numbers, course, requests, enrolments
<1> QED
  BY <1>1, <1>2, <1>3, <1>4, <1>5, <1>6, <1>7, <1>8, <1>9, <1>10, <1>11, <1>12, <1>13, <1>14, <1>15,
     <1>16, <1>17 DEF Next

\* The content only moves on, and a new snapshot is the content.
LEMMA SnapshotStep == IInv /\ [Next]_vars => SnapshotsArePast'
<1> SUFFICES ASSUME IInv, [Next]_vars PROVE SnapshotsArePast'
  OBVIOUS
<1> USE EditsAssumption, NobodyAssumption DEF
      IInv, TypeOK, Locked, SnapshotsArePast, CopiedInOrder, Versions, Snapshots, NoSnapshot,
      Editions, Numbers, course, requests, enrolments
<1>1. ASSUME NEW r \in Requests, NEW k \in Workflow, Begin(r, k)
      PROVE  SnapshotsArePast'
  BY <1>1 DEF Begin
<1>2. ASSUME NEW r \in Requests, Flush(r)
      PROVE  SnapshotsArePast'
  BY <1>2 DEF Flush
<1>3. ASSUME NEW r \in Requests, TakeNumber(r)
      PROVE  SnapshotsArePast'
  BY <1>3 DEF TakeNumber
<1>4. ASSUME NEW r \in Requests, CopySections(r)
      PROVE  SnapshotsArePast'
  BY <1>4 DEF CopySections, TakenAbove
<1>5. ASSUME NEW r \in Requests, CopyBlocks(r)
      PROVE  SnapshotsArePast'
  BY <1>5 DEF CopyBlocks
<1>6. ASSUME NEW r \in Requests, CommitStatus(r)
      PROVE  SnapshotsArePast'
  BY <1>6 DEF CommitStatus, Workflow, Target
<1>7. ASSUME NEW r \in Requests, CommitPublish(r)
      PROVE  SnapshotsArePast'
  BY <1>7 DEF CommitPublish
<1>8. ASSUME NEW r \in Requests, Fail(r)
      PROVE  SnapshotsArePast'
  BY <1>8 DEF Fail
<1>9. ASSUME NEW r \in Requests, NEW k \in {"create_version", "branch"}, BeginVersion(r, k)
      PROVE  SnapshotsArePast'
  BY <1>9 DEF BeginVersion
<1>10. ASSUME NEW r \in Requests, CommitVersion(r)
      PROVE  SnapshotsArePast'
  BY <1>10 DEF CommitVersion
<1>11. ASSUME NEW r \in Requests, PublishBranch(r)
      PROVE  SnapshotsArePast'
  BY <1>11 DEF PublishBranch
<1>12. ASSUME NEW s \in Statuses, Patch(s)
      PROVE  SnapshotsArePast'
  BY <1>12 DEF Patch
<1>13. ASSUME Edit
      PROVE  SnapshotsArePast'
  BY <1>13 DEF Edit
<1>14. ASSUME NEW l \in Learners, Admit(l)
      PROVE  SnapshotsArePast'
  BY <1>14 DEF Admit
<1>15. ASSUME NEW l \in Learners, ReadLatest(l)
      PROVE  SnapshotsArePast'
  BY <1>15 DEF ReadLatest
<1>16. ASSUME NEW l \in Learners, Enroll(l)
      PROVE  SnapshotsArePast'
  BY <1>16 DEF Enroll
<1>17. CASE UNCHANGED vars
  BY <1>17 DEF vars
<1> HIDE DEF
      IInv, TypeOK, Locked, SnapshotsArePast, CopiedInOrder, Versions, Snapshots, NoSnapshot,
      Editions, Numbers, course, requests, enrolments
<1> QED
  BY <1>1, <1>2, <1>3, <1>4, <1>5, <1>6, <1>7, <1>8, <1>9, <1>10, <1>11, <1>12, <1>13, <1>14, <1>15,
     <1>16, <1>17 DEF Next

\* Published numbers stay published.
LEMMA AdmittedStep == IInv /\ [Next]_vars => AdmittedIsPublished'
<1> SUFFICES ASSUME IInv, [Next]_vars PROVE AdmittedIsPublished'
  OBVIOUS
<1> USE EditsAssumption, NobodyAssumption DEF
      IInv, TypeOK, Locked, AdmittedIsPublished, Versions, Published, Numbers, course,
      requests, enrolments
<1>1. ASSUME NEW r \in Requests, NEW k \in Workflow, Begin(r, k)
      PROVE  AdmittedIsPublished'
  BY <1>1 DEF Begin
<1>2. ASSUME NEW r \in Requests, Flush(r)
      PROVE  AdmittedIsPublished'
  BY <1>2 DEF Flush
<1>3. ASSUME NEW r \in Requests, TakeNumber(r)
      PROVE  AdmittedIsPublished'
  BY <1>3 DEF TakeNumber
<1>4. ASSUME NEW r \in Requests, CopySections(r)
      PROVE  AdmittedIsPublished'
  BY <1>4 DEF CopySections
<1>5. ASSUME NEW r \in Requests, CopyBlocks(r)
      PROVE  AdmittedIsPublished'
  BY <1>5 DEF CopyBlocks
<1>6. ASSUME NEW r \in Requests, CommitStatus(r)
      PROVE  AdmittedIsPublished'
  BY <1>6 DEF CommitStatus
<1>7. ASSUME NEW r \in Requests, CommitPublish(r)
      PROVE  AdmittedIsPublished'
  BY <1>7 DEF CommitPublish
<1>8. ASSUME NEW r \in Requests, Fail(r)
      PROVE  AdmittedIsPublished'
  BY <1>8 DEF Fail
<1>9. ASSUME NEW r \in Requests, NEW k \in {"create_version", "branch"}, BeginVersion(r, k)
      PROVE  AdmittedIsPublished'
  BY <1>9 DEF BeginVersion
<1>10. ASSUME NEW r \in Requests, CommitVersion(r)
      PROVE  AdmittedIsPublished'
  BY <1>10 DEF CommitVersion
<1>11. ASSUME NEW r \in Requests, PublishBranch(r)
      PROVE  AdmittedIsPublished'
  BY <1>11 DEF PublishBranch
<1>12. ASSUME NEW s \in Statuses, Patch(s)
      PROVE  AdmittedIsPublished'
  BY <1>12 DEF Patch
<1>13. ASSUME Edit
      PROVE  AdmittedIsPublished'
  BY <1>13 DEF Edit
<1>14. ASSUME NEW l \in Learners, Admit(l)
      PROVE  AdmittedIsPublished'
  BY <1>14 DEF Admit, IsHighest
<1>15. ASSUME NEW l \in Learners, ReadLatest(l)
      PROVE  AdmittedIsPublished'
  BY <1>15 DEF ReadLatest
<1>16. ASSUME NEW l \in Learners, Enroll(l)
      PROVE  AdmittedIsPublished'
  BY <1>16 DEF Enroll
<1>17. CASE UNCHANGED vars
  BY <1>17 DEF vars
<1> HIDE DEF
      IInv, TypeOK, Locked, AdmittedIsPublished, Versions, Published, Numbers, course,
      requests, enrolments
<1> QED
  BY <1>1, <1>2, <1>3, <1>4, <1>5, <1>6, <1>7, <1>8, <1>9, <1>10, <1>11, <1>12, <1>13, <1>14, <1>15,
     <1>16, <1>17 DEF Next

\* A new published version has a number above the others and no older content.
LEMMA OrderStep == IInv /\ [Next]_vars => PublishedInOrder'
<1> SUFFICES ASSUME IInv, [Next]_vars PROVE PublishedInOrder'
  OBVIOUS
<1> USE EditsAssumption, NobodyAssumption DEF
      IInv, TypeOK, Locked, TakenAbove, SnapshotsArePast, CopiedInOrder, PublishedInOrder,
      Versions, Snapshots, NoSnapshot, Editions, course, requests, enrolments
<1>1. ASSUME NEW r \in Requests, NEW k \in Workflow, Begin(r, k)
      PROVE  PublishedInOrder'
  BY <1>1 DEF Begin
<1>2. ASSUME NEW r \in Requests, Flush(r)
      PROVE  PublishedInOrder'
  BY <1>2 DEF Flush
<1>3. ASSUME NEW r \in Requests, TakeNumber(r)
      PROVE  PublishedInOrder'
  BY <1>3 DEF TakeNumber
<1>4. ASSUME NEW r \in Requests, CopySections(r)
      PROVE  PublishedInOrder'
  BY <1>4 DEF CopySections
<1>5. ASSUME NEW r \in Requests, CopyBlocks(r)
      PROVE  PublishedInOrder'
  BY <1>5 DEF CopyBlocks
<1>6. ASSUME NEW r \in Requests, CommitStatus(r)
      PROVE  PublishedInOrder'
  BY <1>6 DEF CommitStatus
<1>7. ASSUME NEW r \in Requests, CommitPublish(r)
      PROVE  PublishedInOrder'
  <2> USE <1>7 DEF CommitPublish
  <2>1. /\ snapshot[r].oldest # 0 /\ number[r] # 0
        /\ \A s \in Requests : versions'[s] =
              IF s = r THEN [status |-> "published", number |-> number[r], snapshot |-> snapshot[r]]
              ELSE versions[s]
    OBVIOUS
  <2>2. \A s \in Requests : versions[s].status = "published"
                              => /\ versions[s].number < number[r]
                                 /\ versions[s].snapshot.newest <= snapshot[r].oldest
    BY <2>1
  <2>3. versions \in [Requests -> Versions] /\ number[r] \in Nat
    OBVIOUS
  <2>4. SUFFICES ASSUME NEW s \in Requests, NEW t \in Requests, s # t,
                        versions'[s].status = "published", versions'[t].status = "published"
                 PROVE  /\ versions'[s].number # versions'[t].number
                        /\ versions'[s].number < versions'[t].number
                              => versions'[s].snapshot.newest <= versions'[t].snapshot.oldest
    BY DEF PublishedInOrder
  <2>5. CASE s = r
    BY <2>1, <2>2, <2>3, <2>4, <2>5
  <2>6. CASE t = r
    BY <2>1, <2>2, <2>3, <2>4, <2>6
  <2>7. CASE s # r /\ t # r
    BY <2>1, <2>4, <2>7
  <2> QED
    BY <2>5, <2>6, <2>7
<1>8. ASSUME NEW r \in Requests, Fail(r)
      PROVE  PublishedInOrder'
  BY <1>8 DEF Fail
<1>9. ASSUME NEW r \in Requests, NEW k \in {"create_version", "branch"}, BeginVersion(r, k)
      PROVE  PublishedInOrder'
  BY <1>9 DEF BeginVersion
<1>10. ASSUME NEW r \in Requests, CommitVersion(r)
      PROVE  PublishedInOrder'
  BY <1>10 DEF CommitVersion
<1>11. ASSUME NEW r \in Requests, PublishBranch(r)
      PROVE  PublishedInOrder'
  BY <1>11 DEF PublishBranch
<1>12. ASSUME NEW s \in Statuses, Patch(s)
      PROVE  PublishedInOrder'
  BY <1>12 DEF Patch
<1>13. ASSUME Edit
      PROVE  PublishedInOrder'
  BY <1>13 DEF Edit
<1>14. ASSUME NEW l \in Learners, Admit(l)
      PROVE  PublishedInOrder'
  BY <1>14 DEF Admit
<1>15. ASSUME NEW l \in Learners, ReadLatest(l)
      PROVE  PublishedInOrder'
  BY <1>15 DEF ReadLatest
<1>16. ASSUME NEW l \in Learners, Enroll(l)
      PROVE  PublishedInOrder'
  BY <1>16 DEF Enroll
<1>17. CASE UNCHANGED vars
  BY <1>17 DEF vars
<1> HIDE DEF
      IInv, TypeOK, Locked, TakenAbove, SnapshotsArePast, CopiedInOrder, PublishedInOrder,
      Versions, Snapshots, NoSnapshot, Editions, course, requests, enrolments
<1> QED
  BY <1>1, <1>2, <1>3, <1>4, <1>5, <1>6, <1>7, <1>8, <1>9, <1>10, <1>11, <1>12, <1>13, <1>14, <1>15,
     <1>16, <1>17 DEF Next

\* Pins keep their published version.
LEMMA PinStep == IInv /\ [Next]_vars => PinIsPublished'
<1> SUFFICES ASSUME IInv, [Next]_vars PROVE PinIsPublished'
  OBVIOUS
<1> USE EditsAssumption, NobodyAssumption DEF
      IInv, TypeOK, Locked, PinIsPublished, Versions, Published, Numbers, course, requests,
      enrolments
<1>1. ASSUME NEW r \in Requests, NEW k \in Workflow, Begin(r, k)
      PROVE  PinIsPublished'
  BY <1>1 DEF Begin
<1>2. ASSUME NEW r \in Requests, Flush(r)
      PROVE  PinIsPublished'
  BY <1>2 DEF Flush
<1>3. ASSUME NEW r \in Requests, TakeNumber(r)
      PROVE  PinIsPublished'
  BY <1>3 DEF TakeNumber
<1>4. ASSUME NEW r \in Requests, CopySections(r)
      PROVE  PinIsPublished'
  BY <1>4 DEF CopySections
<1>5. ASSUME NEW r \in Requests, CopyBlocks(r)
      PROVE  PinIsPublished'
  BY <1>5 DEF CopyBlocks
<1>6. ASSUME NEW r \in Requests, CommitStatus(r)
      PROVE  PinIsPublished'
  BY <1>6 DEF CommitStatus
<1>7. ASSUME NEW r \in Requests, CommitPublish(r)
      PROVE  PinIsPublished'
  BY <1>7 DEF CommitPublish
<1>8. ASSUME NEW r \in Requests, Fail(r)
      PROVE  PinIsPublished'
  BY <1>8 DEF Fail
<1>9. ASSUME NEW r \in Requests, NEW k \in {"create_version", "branch"}, BeginVersion(r, k)
      PROVE  PinIsPublished'
  BY <1>9 DEF BeginVersion
<1>10. ASSUME NEW r \in Requests, CommitVersion(r)
      PROVE  PinIsPublished'
  BY <1>10 DEF CommitVersion
<1>11. ASSUME NEW r \in Requests, PublishBranch(r)
      PROVE  PinIsPublished'
  BY <1>11 DEF PublishBranch
<1>12. ASSUME NEW s \in Statuses, Patch(s)
      PROVE  PinIsPublished'
  BY <1>12 DEF Patch
<1>13. ASSUME Edit
      PROVE  PinIsPublished'
  BY <1>13 DEF Edit
<1>14. ASSUME NEW l \in Learners, Admit(l)
      PROVE  PinIsPublished'
  BY <1>14 DEF Admit
<1>15. ASSUME NEW l \in Learners, ReadLatest(l)
      PROVE  PinIsPublished'
  BY <1>15 DEF ReadLatest, IsLatest, IsHighest
<1>16. ASSUME NEW l \in Learners, Enroll(l)
      PROVE  PinIsPublished'
  BY <1>16 DEF Enroll
<1>17. CASE UNCHANGED vars
  BY <1>17 DEF vars
<1> HIDE DEF
      IInv, TypeOK, Locked, PinIsPublished, Versions, Published, Numbers, course, requests,
      enrolments
<1> QED
  BY <1>1, <1>2, <1>3, <1>4, <1>5, <1>6, <1>7, <1>8, <1>9, <1>10, <1>11, <1>12, <1>13, <1>14, <1>15,
     <1>16, <1>17 DEF Next

\* A pin is read after the admission.
LEMMA FreshStep == IInv /\ [Next]_vars => PinIsFresh'
<1> SUFFICES ASSUME IInv, [Next]_vars PROVE PinIsFresh'
  OBVIOUS
<1> USE EditsAssumption, NobodyAssumption DEF
      IInv, TypeOK, PinIsFresh, Numbers, course, requests, enrolments
<1>1. ASSUME NEW r \in Requests, NEW k \in Workflow, Begin(r, k)
      PROVE  PinIsFresh'
  BY <1>1 DEF Begin
<1>2. ASSUME NEW r \in Requests, Flush(r)
      PROVE  PinIsFresh'
  BY <1>2 DEF Flush
<1>3. ASSUME NEW r \in Requests, TakeNumber(r)
      PROVE  PinIsFresh'
  BY <1>3 DEF TakeNumber
<1>4. ASSUME NEW r \in Requests, CopySections(r)
      PROVE  PinIsFresh'
  BY <1>4 DEF CopySections
<1>5. ASSUME NEW r \in Requests, CopyBlocks(r)
      PROVE  PinIsFresh'
  BY <1>5 DEF CopyBlocks
<1>6. ASSUME NEW r \in Requests, CommitStatus(r)
      PROVE  PinIsFresh'
  BY <1>6 DEF CommitStatus
<1>7. ASSUME NEW r \in Requests, CommitPublish(r)
      PROVE  PinIsFresh'
  BY <1>7 DEF CommitPublish
<1>8. ASSUME NEW r \in Requests, Fail(r)
      PROVE  PinIsFresh'
  BY <1>8 DEF Fail
<1>9. ASSUME NEW r \in Requests, NEW k \in {"create_version", "branch"}, BeginVersion(r, k)
      PROVE  PinIsFresh'
  BY <1>9 DEF BeginVersion
<1>10. ASSUME NEW r \in Requests, CommitVersion(r)
      PROVE  PinIsFresh'
  BY <1>10 DEF CommitVersion
<1>11. ASSUME NEW r \in Requests, PublishBranch(r)
      PROVE  PinIsFresh'
  BY <1>11 DEF PublishBranch
<1>12. ASSUME NEW s \in Statuses, Patch(s)
      PROVE  PinIsFresh'
  BY <1>12 DEF Patch
<1>13. ASSUME Edit
      PROVE  PinIsFresh'
  BY <1>13 DEF Edit
<1>14. ASSUME NEW l \in Learners, Admit(l)
      PROVE  PinIsFresh'
  BY <1>14 DEF Admit
<1>15. ASSUME NEW l \in Learners, ReadLatest(l)
      PROVE  PinIsFresh'
  BY <1>15 DEF ReadLatest, IsLatest, IsHighest, AdmittedIsPublished, Published, Versions
<1>16. ASSUME NEW l \in Learners, Enroll(l)
      PROVE  PinIsFresh'
  BY <1>16 DEF Enroll
<1>17. CASE UNCHANGED vars
  BY <1>17 DEF vars
<1> HIDE DEF IInv, TypeOK, PinIsFresh, Numbers, course, requests, enrolments
<1> QED
  BY <1>1, <1>2, <1>3, <1>4, <1>5, <1>6, <1>7, <1>8, <1>9, <1>10, <1>11, <1>12, <1>13, <1>14, <1>15,
     <1>16, <1>17 DEF Next

\* The initial state satisfies the inductive invariant.
LEMMA InitIInv == Init => IInv
<1> SUFFICES ASSUME Init PROVE IInv
  OBVIOUS
<1> USE EditsAssumption, NobodyAssumption DEF Init, NoVersion, NoSnapshot
<1>1. TypeOK
  BY DEF TypeOK, Versions, Snapshots, NoSnapshot, Editions, VersionStatuses
<1>2. Locked /\ TakenAbove /\ TakenNext /\ SnapshotsArePast
  BY DEF Locked, TakenAbove, TakenNext, SnapshotsArePast, CopiedInOrder, Stored, NoSnapshot
<1>3. AdmittedIsPublished /\ PublishedInOrder /\ PinIsPublished /\ PinIsFresh
  BY DEF AdmittedIsPublished, PublishedInOrder, PinIsPublished, PinIsFresh
<1> QED
  BY <1>1, <1>2, <1>3 DEF IInv

\* Every step keeps the inductive invariant: the step lemmas together.
LEMMA StepIInv == IInv /\ [Next]_vars => IInv'
  BY TypeStep, LockedStep, AboveStep, NextStep, SnapshotStep, AdmittedStep, OrderStep, PinStep, FreshStep DEF IInv

\* The inductive invariant holds in every behaviour.
LEMMA Invariant == Spec => []IInv
  BY InitIInv, StepIInv, PTL DEF Spec

\* The variables keep their types.
THEOREM TypeCorrect == Spec => []TypeOK
<1>1. IInv => TypeOK
  BY DEF IInv
<1> QED
  BY <1>1, Invariant, PTL

\* Versions published through the workflow have distinct numbers, in the order of
\* their content.
THEOREM PublishedStaysInOrder == Spec => []PublishedInOrder
<1>1. IInv => PublishedInOrder
  BY DEF IInv
<1> QED
  BY <1>1, Invariant, PTL

\* The numbers in use are 1 to the highest.
THEOREM NumbersAreContiguous == Spec => []NumbersHaveNoGap
<1>1. IInv => NumbersHaveNoGap
  BY DEF IInv, TakenNext, NumbersHaveNoGap, Stored, TypeOK, Versions
<1> QED
  BY <1>1, Invariant, PTL

\* Learners are pinned to published versions.
THEOREM PinsArePublished == Spec => []PinIsPublished
<1>1. IInv => PinIsPublished
  BY DEF IInv
<1> QED
  BY <1>1, Invariant, PTL

\* No learner is pinned to a version older than the latest at the admission.
THEOREM PinsAreFresh == Spec => []PinIsFresh
<1>1. IInv => PinIsFresh
  BY DEF IInv
<1> QED
  BY <1>1, Invariant, PTL

\* One step of the abstract catalogue, or none.
Abstract == [Catalog!Next]_(Catalog!vars)

\* A step that leaves the content and the version rows alone, and the numbers that
\* enrolments have chosen, is no step of the catalogue.
LEMMA SameCatalog ==
    ASSUME UNCHANGED <<content, versions>>, Pins' = Pins
    PROVE  Abstract
  BY DEF Abstract, Catalog!vars, Entries, Offered, Published

\* So is one that leaves the enrolments alone.
LEMMA SamePins ==
    ASSUME UNCHANGED <<content, versions, step, pin>>
    PROVE  Abstract
  BY SameCatalog DEF Pins

\* The catalogue's entry for a version row.
Entry(v) == [number |-> v.number, oldest |-> v.snapshot.oldest, newest |-> v.snapshot.newest]

\* A row that becomes a workflow's version is one entry more, any other row none.
LEMMA EntriesAfter ==
  ASSUME TypeOK, NEW r \in Requests, NEW v \in Versions,
         versions' = [versions EXCEPT ![r] = v], versions[r].status # "published"
  PROVE  Entries' = IF v.status = "published"
                    THEN Entries \cup {Entry(v)}
                    ELSE Entries
<1>1. \A s \in Requests : versions'[s] = IF s = r THEN v ELSE versions[s]
  BY DEF TypeOK
<1>2. ASSUME NEW e \in Entries' PROVE e \in Entries \/ (v.status = "published" /\ e = Entry(v))
  BY <1>1, <1>2 DEF Entries, Entry
<1>3. ASSUME NEW e \in Entries PROVE e \in Entries'
  BY <1>1, <1>3 DEF Entries, Entry
<1>4. ASSUME v.status = "published" PROVE Entry(v) \in Entries'
  BY <1>1, <1>4 DEF Entries, Entry
<1> QED
  BY <1>2, <1>3, <1>4

\* A row that becomes published is one number more on offer, any other row none.
LEMMA OfferedAfter ==
  ASSUME TypeOK, NEW r \in Requests, NEW v \in Versions,
         versions' = [versions EXCEPT ![r] = v], r \notin Published
  PROVE  Offered' = IF v.status \in {"published", "Published"}
                    THEN Offered \cup {v.number} ELSE Offered
<1>1. \A s \in Requests : versions'[s] = IF s = r THEN v ELSE versions[s]
  BY DEF TypeOK
<1>2. ASSUME NEW n \in Offered' PROVE n \in Offered \/ (v.status \in {"published", "Published"} /\ n = v.number)
  BY <1>1, <1>2 DEF Offered, Published
<1>3. ASSUME NEW n \in Offered PROVE n \in Offered'
  BY <1>1, <1>3 DEF Offered, Published
<1>4. ASSUME v.status \in {"published", "Published"} PROVE v.number \in Offered'
  BY <1>1, <1>4 DEF Offered, Published
<1> QED
  BY <1>2, <1>3, <1>4

\* Each step of the requests, the editors and the enrolments is one step of the
\* catalogue or none.
LEMMA RefineStep == IInv /\ [Next]_vars => Abstract
<1> SUFFICES ASSUME IInv, [Next]_vars PROVE Abstract
  OBVIOUS
<1> USE DEF course, requests, enrolments
<1>1. ASSUME NEW r \in Requests, NEW k \in Workflow, Begin(r, k)
      PROVE  Abstract
  BY <1>1, SamePins DEF Begin
<1>2. ASSUME NEW r \in Requests, Flush(r)
      PROVE  Abstract
  BY <1>2, SamePins DEF Flush
<1>3. ASSUME NEW r \in Requests, TakeNumber(r)
      PROVE  Abstract
  BY <1>3, SamePins DEF TakeNumber
<1>4. ASSUME NEW r \in Requests, CopySections(r)
      PROVE  Abstract
  BY <1>4, SamePins DEF CopySections
<1>5. ASSUME NEW r \in Requests, CopyBlocks(r)
      PROVE  Abstract
  BY <1>5, SamePins DEF CopyBlocks
<1>6. ASSUME NEW r \in Requests, CommitStatus(r)
      PROVE  Abstract
  BY <1>6, SamePins DEF CommitStatus
<1>7. ASSUME NEW r \in Requests, CommitPublish(r)
      PROVE  Abstract
  <2> DEFINE v == [status |-> "published", number |-> number[r], snapshot |-> snapshot[r]]
             e == Entry(v)
  <2>1. /\ v \in Versions /\ v.status = "published" /\ v.number = number[r]
        /\ e.number = number[r] /\ e.oldest = snapshot[r].oldest /\ e.newest = snapshot[r].newest
    BY <1>7 DEF CommitPublish, IInv, TypeOK, Versions, VersionStatuses, Entry
  <2>2. versions' = [versions EXCEPT ![r] = v] /\ UNCHANGED <<content, Pins>>
    BY <1>7 DEF CommitPublish, Pins
  <2>3. versions[r].status = "none" /\ r \notin Published
    BY <1>7 DEF CommitPublish, IInv, Locked, Published
  <2>4. Entries' = Entries \cup {e} /\ Offered' = Offered \cup {e.number}
    BY <2>1, <2>2, <2>3, EntriesAfter, OfferedAfter DEF IInv
  <2>5. /\ number[r] > 0 /\ 0 < e.oldest /\ e.oldest <= e.newest /\ e.newest <= content
    BY <1>7, <2>1, EditsAssumption
    DEF CommitPublish, IInv, TypeOK, Snapshots, Editions, SnapshotsArePast, CopiedInOrder
  <2>7. \A u \in Entries : u.number < e.number /\ u.newest <= e.oldest
    BY <1>7, <2>1, <2>5, EditsAssumption
    DEF CommitPublish, IInv, TypeOK, Snapshots, Editions, TakenAbove, Entries
  <2>6. Catalog!Publish
    BY <2>1, <2>2, <2>4, <2>5, <2>7 DEF Catalog!Publish
  <2> QED
    BY <2>6 DEF Abstract, Catalog!Next
<1>8. ASSUME NEW r \in Requests, Fail(r)
      PROVE  Abstract
  BY <1>8, SamePins DEF Fail
<1>9. ASSUME NEW r \in Requests, NEW k \in {"create_version", "branch"}, BeginVersion(r, k)
      PROVE  Abstract
  BY <1>9, SamePins DEF BeginVersion
<1>10. ASSUME NEW r \in Requests, CommitVersion(r)
      PROVE  Abstract
  <2> DEFINE v == [status |-> IF kind[r] = "branch" THEN "Draft" ELSE "draft",
                   number |-> number[r], snapshot |-> snapshot[r]]
  <2>1. v \in Versions /\ versions' = [versions EXCEPT ![r] = v] /\ v.status \in {"draft", "Draft"}
    BY <1>10, EditsAssumption DEF CommitVersion, IInv, TypeOK, Versions, VersionStatuses
  <2>2. versions[r].status = "none" /\ r \notin Published
    BY <1>10 DEF CommitVersion, IInv, Locked, Published
  <2> HIDE DEF v
  <2>3. Entries' = Entries /\ Offered' = Offered
    BY <2>1, <2>2, EntriesAfter, OfferedAfter DEF IInv
  <2> QED
    BY <1>10, <2>3 DEF CommitVersion, Abstract, Catalog!vars, Pins
<1>11. ASSUME NEW r \in Requests, PublishBranch(r)
      PROVE  Abstract
  <2> DEFINE v == [versions[r] EXCEPT !.status = "Published"]
  <2>1. /\ v \in Versions /\ versions' = [versions EXCEPT ![r] = v]
        /\ v.status = "Published" /\ v.number = versions[r].number
    BY <1>11 DEF PublishBranch, IInv, TypeOK, Versions, VersionStatuses
  <2>2. versions[r].status = "Draft" /\ r \notin Published
    BY <1>11 DEF PublishBranch, Published
  <2> HIDE DEF v
  <2>3. Entries' = Entries /\ Offered' = Offered \cup {v.number}
    BY <2>1, <2>2, EntriesAfter, OfferedAfter DEF IInv
  <2>4. v.number > 0
    BY <2>1, <2>2 DEF IInv, TakenNext, Stored, TypeOK, Versions
  <2>5. Catalog!Offer
    BY <1>11, <2>3, <2>4 DEF PublishBranch, Catalog!Offer, Pins
  <2> QED
    BY <2>5 DEF Abstract, Catalog!Next
<1>12. ASSUME NEW s \in Statuses, Patch(s)
      PROVE  Abstract
  BY <1>12, SamePins DEF Patch
<1>13. ASSUME Edit
      PROVE  Abstract
  <2>1. Catalog!Edit
    BY <1>13 DEF Edit, Catalog!Edit, Entries, Offered, Published, Pins
  <2> QED
    BY <2>1 DEF Abstract, Catalog!Next
<1>14. ASSUME NEW l \in Learners, Admit(l)
      PROVE  Abstract
  <2>1. \A k \in Learners : step'[k] \in {"read", "enrolled"} <=> step[k] \in {"read", "enrolled"}
    BY <1>14 DEF Admit, IInv, TypeOK
  <2> QED
    BY <1>14, <2>1, SameCatalog DEF Admit, Pins
<1>15. ASSUME NEW l \in Learners, ReadLatest(l)
      PROVE  Abstract
  <2>1. PICK n \in Numbers : IsHighest(n, Published) /\ pin' = [pin EXCEPT ![l] = n]
    BY <1>15 DEF ReadLatest, IsLatest
  <2>2. UNCHANGED <<content, versions>> /\ step[l] = "admitted" /\ step' = [step EXCEPT ![l] = "read"]
    BY <1>15 DEF ReadLatest
  <2>3. \A p \in Pins : p[1] # l
    BY <2>2 DEF Pins
  <2>4. Pins' = Pins \cup {<<l, n>>}
    <3>1. \A k \in Learners : /\ step'[k] = IF k = l THEN "read" ELSE step[k]
                              /\ pin'[k] = IF k = l THEN n ELSE pin[k]
      BY <2>1, <2>2 DEF IInv, TypeOK
    <3>2. ASSUME NEW p \in Pins' PROVE p \in Pins \cup {<<l, n>>}
      BY <3>1, <3>2 DEF Pins
    <3>3. ASSUME NEW p \in Pins \cup {<<l, n>>} PROVE p \in Pins'
      BY <2>2, <3>1, <3>3 DEF Pins
    <3> QED
      BY <3>2, <3>3
  <2>5. n \in Offered \cup {0} /\ Catalog!Latest(n)
    BY <2>1 DEF IsHighest, Numbers, Catalog!Latest, Offered
  <2>6. Catalog!Enrol(l)
    BY <2>2, <2>3, <2>4, <2>5 DEF Catalog!Enrol, Entries, Offered, Published
  <2> QED
    BY <2>6 DEF Abstract, Catalog!Next
<1>16. ASSUME NEW l \in Learners, Enroll(l)
      PROVE  Abstract
  <2>1. \A k \in Learners : step'[k] \in {"read", "enrolled"} <=> step[k] \in {"read", "enrolled"}
    BY <1>16 DEF Enroll, IInv, TypeOK
  <2> QED
    BY <1>16, <2>1, SameCatalog DEF Enroll, Pins
<1>17. CASE UNCHANGED vars
  BY <1>17, SamePins DEF vars
<1> QED
  BY <1>1, <1>2, <1>3, <1>4, <1>5, <1>6, <1>7, <1>8, <1>9, <1>10, <1>11, <1>12, <1>13, <1>14, <1>15,
     <1>16, <1>17 DEF Next

\* The workflow and its rivals implement the catalogue: entries in order, none ever
\* changed or withdrawn, and pins that stay.
THEOREM Implements == Spec => ImplementsCatalog
<1>1. Init => Catalog!Init
  BY DEF Init, Catalog!Init, Entries, Offered, Published, Pins, NoVersion
<1>2. IInv /\ [Next]_vars => [Catalog!Next]_(Catalog!vars)
  BY RefineStep DEF Abstract
<1> QED
  BY <1>1, <1>2, Invariant, PTL DEF Spec, Catalog!Spec, ImplementsCatalog
=============================================================================
