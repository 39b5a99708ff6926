--------------------------- MODULE EditLock_proofs ---------------------------
(***************************************************************************)
(* Proofs about EditLock for any number of pages, users, edits and         *)
(* openings. The inductive invariant ties what the history says of a page  *)
(* and of its save to the owner of the row, and says that a page that kept *)
(* the lock has seen everything others have saved, strays excepted. The    *)
(* last part shows that strays are no exception of their own.              *)
(***************************************************************************)
EXTENDS EditLock, TLAPS

\* A loaded page is without the lock exactly while its user does not own the row.
HoldFollowsOwner == \A p \in loaded : hold[p] = "lost" <=> lock.owner # User[p]

\* So is a save, until the server has checked it.
BaseFollowsOwner ==
    \A p \in Pages :
        /\ save[p] \in {"check", "relock", "regrant", "recheck"} => (base[p] = "lost" <=> lock.owner # User[p])
        /\ save[p] = "write" => base[p] # "lost" /\ (base[p] = "kept" => lock.owner = User[p])

\* A page that kept the lock shows what other users have saved.
LocalHasOthers ==
    \A p \in loaded :
        hold[p] = "kept" => \A e \in content : Author(e) = User[p] \/ e \in strays \/ e \in local[p]

\* So does what its save sends.
PayloadHasOthers ==
    \A p \in Pages :
        save[p] # "idle" /\ base[p] = "kept" =>
            \A e \in content : Author(e) = User[p] \/ e \in strays \/ e \in payload[p]

IInv ==
    /\ TypeOK
    /\ HoldFollowsOwner
    /\ BaseFollowsOwner
    /\ LocalHasOthers
    /\ PayloadHasOthers
    /\ LeftoversAreExplained

\* The types are preserved.
LEMMA TypeStep == IInv /\ [Next]_vars => TypeOK'
<1> SUFFICES ASSUME IInv, [Next]_vars PROVE TypeOK'
  OBVIOUS
<1> USE UserAssumption, NobodyAssumption, BoundsAssumption DEF IInv, TypeOK, Edits, server, editor, saving, history
<1>1. ASSUME Expire
      PROVE  TypeOK'
  BY <1>1 DEF Expire
<1>2. ASSUME NEW p \in Pages, Open(p)
      PROVE  TypeOK'
  BY <1>2 DEF Open
<1>3. ASSUME NEW p \in Pages, AcquireCheck(p)
      PROVE  TypeOK'
  BY <1>3 DEF AcquireCheck, Become
<1>4. ASSUME NEW p \in Pages, AcquireGrant(p)
      PROVE  TypeOK'
  BY <1>4 DEF AcquireGrant, Become, Upsert, Passes, Since
<1>5. ASSUME NEW p \in Pages, AcquireFail(p)
      PROVE  TypeOK'
  BY <1>5 DEF AcquireFail, Become
<1>6. ASSUME NEW p \in Pages, Fetched(p)
      PROVE  TypeOK'
  BY <1>6 DEF Fetched
<1>7. ASSUME NEW p \in Pages, BeatStart(p)
      PROVE  TypeOK'
  BY <1>7 DEF BeatStart
<1>8. ASSUME NEW p \in Pages, BeatUpdate(p)
      PROVE  TypeOK'
  <2>1. lock' \in [owner : Users \cup {"nobody"}, live : BOOLEAN]
    <3>1. lock' = lock \/ lock' = [lock EXCEPT !.live = TRUE]
      BY <1>8 DEF BeatUpdate
    <3>2. [lock EXCEPT !.live = TRUE] \in [owner : Users \cup {"nobody"}, live : BOOLEAN]
      OBVIOUS
    <3> QED
      BY <3>1, <3>2
  <2>2. page' \in [Pages -> {"closed", "connecting", "fetching", "active", "blocked", "lost"}]
    BY <1>8 DEF BeatUpdate, Become
  <2>3. beat' \in [Pages -> {"idle", "update", "reread", "recover"}]
    BY <1>8 DEF BeatUpdate
  <2> QED
    BY <1>8, <2>1, <2>2, <2>3 DEF BeatUpdate
<1>9. ASSUME NEW p \in Pages, BeatReread(p)
      PROVE  TypeOK'
  BY <1>9 DEF BeatReread, Become
<1>10. ASSUME NEW p \in Pages, BeatRecover(p)
      PROVE  TypeOK'
  BY <1>10 DEF BeatRecover, Become, Upsert, Passes, Since
<1>11. ASSUME NEW p \in Pages, BeatFail(p)
      PROVE  TypeOK'
  BY <1>11 DEF BeatFail, Become
<1>12. ASSUME NEW p \in Pages, Close(p)
      PROVE  TypeOK'
  BY <1>12 DEF Close, Unmount
<1>13. ASSUME NEW p \in Pages, ReleaseCheck(p)
      PROVE  TypeOK'
  BY <1>13 DEF ReleaseCheck
<1>14. ASSUME NEW p \in Pages, ReleaseDelete(p)
      PROVE  TypeOK'
  BY <1>14 DEF ReleaseDelete, Passes, Since, NoLock
<1>15. ASSUME NEW p \in Pages, ReleaseFail(p)
      PROVE  TypeOK'
  BY <1>15 DEF ReleaseFail
<1>16. ASSUME NEW p \in Pages, Load(p)
      PROVE  TypeOK'
  BY <1>16 DEF Load
<1>17. ASSUME NEW p \in Pages, Edit(p)
      PROVE  TypeOK'
  BY <1>17 DEF Edit
<1>18. ASSUME NEW p \in Pages, SaveStart(p)
      PROVE  TypeOK'
  BY <1>18 DEF SaveStart
<1>19. ASSUME NEW p \in Pages, SaveCheck(p)
      PROVE  TypeOK'
  BY <1>19 DEF SaveCheck, SaveTo, EndSave
<1>20. ASSUME NEW p \in Pages, Relock(p)
      PROVE  TypeOK'
  BY <1>20 DEF Relock, SaveTo, EndSave
<1>21. ASSUME NEW p \in Pages, Regrant(p)
      PROVE  TypeOK'
  BY <1>21 DEF Regrant, Upsert, Passes, Since
<1>22. ASSUME NEW p \in Pages, SaveWrite(p)
      PROVE  TypeOK'
  BY <1>22 DEF SaveWrite, EndSave
<1>23. ASSUME NEW p \in Pages, SaveFail(p)
      PROVE  TypeOK'
  BY <1>23 DEF SaveFail, EndSave
<1>24. CASE UNCHANGED vars
  BY <1>24 DEF vars
<1> HIDE DEF IInv, TypeOK, Edits, server, editor, saving, history
<1> QED
  BY <1>1, <1>2, <1>3, <1>4, <1>5, <1>6, <1>7, <1>8, <1>9, <1>10, <1>11, <1>12, <1>13, <1>14, <1>15, <1>16, <1>17, <1>18, <1>19, <1>20, <1>21, <1>22, <1>23, <1>24 DEF Next, BeatStep

\* The history of a page follows the owner.
LEMMA HoldStep == IInv /\ [Next]_vars => HoldFollowsOwner'
<1> SUFFICES ASSUME IInv, [Next]_vars PROVE HoldFollowsOwner'
  OBVIOUS
<1> USE UserAssumption, NobodyAssumption, BoundsAssumption DEF IInv, TypeOK, HoldFollowsOwner, server, editor, saving, history
<1>1. ASSUME Expire
      PROVE  HoldFollowsOwner'
  BY <1>1 DEF Expire
<1>2. ASSUME NEW p \in Pages, Open(p)
      PROVE  HoldFollowsOwner'
  BY <1>2 DEF Open
<1>3. ASSUME NEW p \in Pages, AcquireCheck(p)
      PROVE  HoldFollowsOwner'
  BY <1>3 DEF AcquireCheck, Become
<1>4. ASSUME NEW p \in Pages, AcquireGrant(p)
      PROVE  HoldFollowsOwner'
  BY <1>4 DEF AcquireGrant, Become, Upsert, Passes, Since
<1>5. ASSUME NEW p \in Pages, AcquireFail(p)
      PROVE  HoldFollowsOwner'
  BY <1>5 DEF AcquireFail, Become
<1>6. ASSUME NEW p \in Pages, Fetched(p)
      PROVE  HoldFollowsOwner'
  BY <1>6 DEF Fetched
<1>7. ASSUME NEW p \in Pages, BeatStart(p)
      PROVE  HoldFollowsOwner'
  BY <1>7 DEF BeatStart
<1>8. ASSUME NEW p \in Pages, BeatUpdate(p)
      PROVE  HoldFollowsOwner'
  BY <1>8 DEF BeatUpdate, Become
<1>9. ASSUME NEW p \in Pages, BeatReread(p)
      PROVE  HoldFollowsOwner'
  BY <1>9 DEF BeatReread, Become
<1>10. ASSUME NEW p \in Pages, BeatRecover(p)
      PROVE  HoldFollowsOwner'
  BY <1>10 DEF BeatRecover, Become, Upsert, Passes, Since
<1>11. ASSUME NEW p \in Pages, BeatFail(p)
      PROVE  HoldFollowsOwner'
  BY <1>11 DEF BeatFail, Become
<1>12. ASSUME NEW p \in Pages, Close(p)
      PROVE  HoldFollowsOwner'
  BY <1>12 DEF Close, Unmount
<1>13. ASSUME NEW p \in Pages, ReleaseCheck(p)
      PROVE  HoldFollowsOwner'
  BY <1>13 DEF ReleaseCheck
<1>14. ASSUME NEW p \in Pages, ReleaseDelete(p)
      PROVE  HoldFollowsOwner'
  BY <1>14 DEF ReleaseDelete, Passes, Since, NoLock
<1>15. ASSUME NEW p \in Pages, ReleaseFail(p)
      PROVE  HoldFollowsOwner'
  BY <1>15 DEF ReleaseFail
<1>16. ASSUME NEW p \in Pages, Load(p)
      PROVE  HoldFollowsOwner'
  BY <1>16 DEF Load
<1>17. ASSUME NEW p \in Pages, Edit(p)
      PROVE  HoldFollowsOwner'
  BY <1>17 DEF Edit
<1>18. ASSUME NEW p \in Pages, SaveStart(p)
      PROVE  HoldFollowsOwner'
  BY <1>18 DEF SaveStart
<1>19. ASSUME NEW p \in Pages, SaveCheck(p)
      PROVE  HoldFollowsOwner'
  BY <1>19 DEF SaveCheck, SaveTo, EndSave
<1>20. ASSUME NEW p \in Pages, Relock(p)
      PROVE  HoldFollowsOwner'
  BY <1>20 DEF Relock, SaveTo, EndSave
<1>21. ASSUME NEW p \in Pages, Regrant(p)
      PROVE  HoldFollowsOwner'
  BY <1>21 DEF Regrant, Upsert, Passes, Since
<1>22. ASSUME NEW p \in Pages, SaveWrite(p)
      PROVE  HoldFollowsOwner'
  BY <1>22 DEF SaveWrite, EndSave
<1>23. ASSUME NEW p \in Pages, SaveFail(p)
      PROVE  HoldFollowsOwner'
  BY <1>23 DEF SaveFail, EndSave
<1>24. CASE UNCHANGED vars
  BY <1>24 DEF vars
<1> HIDE DEF IInv, TypeOK, HoldFollowsOwner, server, editor, saving, history
<1> QED
  BY <1>1, <1>2, <1>3, <1>4, <1>5, <1>6, <1>7, <1>8, <1>9, <1>10, <1>11, <1>12, <1>13, <1>14, <1>15, <1>16, <1>17, <1>18, <1>19, <1>20, <1>21, <1>22, <1>23, <1>24 DEF Next, BeatStep

\* The history of a save follows the owner.
LEMMA BaseStep == IInv /\ [Next]_vars => BaseFollowsOwner'
<1> SUFFICES ASSUME IInv, [Next]_vars PROVE BaseFollowsOwner'
  OBVIOUS
<1> USE UserAssumption, NobodyAssumption, BoundsAssumption DEF IInv, TypeOK, HoldFollowsOwner, BaseFollowsOwner, server, editor, saving, history
<1>1. ASSUME Expire
      PROVE  BaseFollowsOwner'
  BY <1>1 DEF Expire
<1>2. ASSUME NEW p \in Pages, Open(p)
      PROVE  BaseFollowsOwner'
  BY <1>2 DEF Open
<1>3. ASSUME NEW p \in Pages, AcquireCheck(p)
      PROVE  BaseFollowsOwner'
  BY <1>3 DEF AcquireCheck, Become
<1>4. ASSUME NEW p \in Pages, AcquireGrant(p)
      PROVE  BaseFollowsOwner'
  BY <1>4 DEF AcquireGrant, Become, Upsert, Passes, Since
<1>5. ASSUME NEW p \in Pages, AcquireFail(p)
      PROVE  BaseFollowsOwner'
  BY <1>5 DEF AcquireFail, Become
<1>6. ASSUME NEW p \in Pages, Fetched(p)
      PROVE  BaseFollowsOwner'
  BY <1>6 DEF Fetched
<1>7. ASSUME NEW p \in Pages, BeatStart(p)
      PROVE  BaseFollowsOwner'
  BY <1>7 DEF BeatStart
<1>8. ASSUME NEW p \in Pages, BeatUpdate(p)
      PROVE  BaseFollowsOwner'
  BY <1>8 DEF BeatUpdate, Become
<1>9. ASSUME NEW p \in Pages, BeatReread(p)
      PROVE  BaseFollowsOwner'
  BY <1>9 DEF BeatReread, Become
<1>10. ASSUME NEW p \in Pages, BeatRecover(p)
      PROVE  BaseFollowsOwner'
  BY <1>10 DEF BeatRecover, Become, Upsert, Passes, Since
<1>11. ASSUME NEW p \in Pages, BeatFail(p)
      PROVE  BaseFollowsOwner'
  BY <1>11 DEF BeatFail, Become
<1>12. ASSUME NEW p \in Pages, Close(p)
      PROVE  BaseFollowsOwner'
  BY <1>12 DEF Close, Unmount
<1>13. ASSUME NEW p \in Pages, ReleaseCheck(p)
      PROVE  BaseFollowsOwner'
  BY <1>13 DEF ReleaseCheck
<1>14. ASSUME NEW p \in Pages, ReleaseDelete(p)
      PROVE  BaseFollowsOwner'
  BY <1>14 DEF ReleaseDelete, Passes, Since, NoLock
<1>15. ASSUME NEW p \in Pages, ReleaseFail(p)
      PROVE  BaseFollowsOwner'
  BY <1>15 DEF ReleaseFail
<1>16. ASSUME NEW p \in Pages, Load(p)
      PROVE  BaseFollowsOwner'
  BY <1>16 DEF Load
<1>17. ASSUME NEW p \in Pages, Edit(p)
      PROVE  BaseFollowsOwner'
  BY <1>17 DEF Edit
<1>18. ASSUME NEW p \in Pages, SaveStart(p)
      PROVE  BaseFollowsOwner'
  BY <1>18 DEF SaveStart
<1>19. ASSUME NEW p \in Pages, SaveCheck(p)
      PROVE  BaseFollowsOwner'
  BY <1>19 DEF SaveCheck, SaveTo, EndSave
<1>20. ASSUME NEW p \in Pages, Relock(p)
      PROVE  BaseFollowsOwner'
  BY <1>20 DEF Relock, SaveTo, EndSave
<1>21. ASSUME NEW p \in Pages, Regrant(p)
      PROVE  BaseFollowsOwner'
  BY <1>21 DEF Regrant, Upsert, Passes, Since
<1>22. ASSUME NEW p \in Pages, SaveWrite(p)
      PROVE  BaseFollowsOwner'
  BY <1>22 DEF SaveWrite, EndSave
<1>23. ASSUME NEW p \in Pages, SaveFail(p)
      PROVE  BaseFollowsOwner'
  BY <1>23 DEF SaveFail, EndSave
<1>24. CASE UNCHANGED vars
  BY <1>24 DEF vars
<1> HIDE DEF IInv, TypeOK, HoldFollowsOwner, BaseFollowsOwner, server, editor, saving, history
<1> QED
  BY <1>1, <1>2, <1>3, <1>4, <1>5, <1>6, <1>7, <1>8, <1>9, <1>10, <1>11, <1>12, <1>13, <1>14, <1>15, <1>16, <1>17, <1>18, <1>19, <1>20, <1>21, <1>22, <1>23, <1>24 DEF Next, BeatStep

\* A page that keeps the lock keeps what others have saved.
LEMMA LocalStep == IInv /\ [Next]_vars => LocalHasOthers'
<1> SUFFICES ASSUME IInv, [Next]_vars PROVE LocalHasOthers'
  OBVIOUS
<1> USE UserAssumption, NobodyAssumption, BoundsAssumption DEF IInv, TypeOK, HoldFollowsOwner, BaseFollowsOwner, LocalHasOthers, server, editor, saving, history
<1>1. ASSUME Expire
      PROVE  LocalHasOthers'
  BY <1>1 DEF Expire
<1>2. ASSUME NEW p \in Pages, Open(p)
      PROVE  LocalHasOthers'
  BY <1>2 DEF Open
<1>3. ASSUME NEW p \in Pages, AcquireCheck(p)
      PROVE  LocalHasOthers'
  BY <1>3 DEF AcquireCheck, Become
<1>4. ASSUME NEW p \in Pages, AcquireGrant(p)
      PROVE  LocalHasOthers'
  BY <1>4 DEF AcquireGrant, Become, Upsert, Passes, Since
<1>5. ASSUME NEW p \in Pages, AcquireFail(p)
      PROVE  LocalHasOthers'
  BY <1>5 DEF AcquireFail, Become
<1>6. ASSUME NEW p \in Pages, Fetched(p)
      PROVE  LocalHasOthers'
  BY <1>6 DEF Fetched
<1>7. ASSUME NEW p \in Pages, BeatStart(p)
      PROVE  LocalHasOthers'
  BY <1>7 DEF BeatStart
<1>8. ASSUME NEW p \in Pages, BeatUpdate(p)
      PROVE  LocalHasOthers'
  BY <1>8 DEF BeatUpdate, Become
<1>9. ASSUME NEW p \in Pages, BeatReread(p)
      PROVE  LocalHasOthers'
  BY <1>9 DEF BeatReread, Become
<1>10. ASSUME NEW p \in Pages, BeatRecover(p)
      PROVE  LocalHasOthers'
  BY <1>10 DEF BeatRecover, Become, Upsert, Passes, Since
<1>11. ASSUME NEW p \in Pages, BeatFail(p)
      PROVE  LocalHasOthers'
  BY <1>11 DEF BeatFail, Become
<1>12. ASSUME NEW p \in Pages, Close(p)
      PROVE  LocalHasOthers'
  BY <1>12 DEF Close, Unmount
<1>13. ASSUME NEW p \in Pages, ReleaseCheck(p)
      PROVE  LocalHasOthers'
  BY <1>13 DEF ReleaseCheck
<1>14. ASSUME NEW p \in Pages, ReleaseDelete(p)
      PROVE  LocalHasOthers'
  BY <1>14 DEF ReleaseDelete, Passes, Since, NoLock
<1>15. ASSUME NEW p \in Pages, ReleaseFail(p)
      PROVE  LocalHasOthers'
  BY <1>15 DEF ReleaseFail
<1>16. ASSUME NEW p \in Pages, Load(p)
      PROVE  LocalHasOthers'
  BY <1>16 DEF Load
<1>17. ASSUME NEW p \in Pages, Edit(p)
      PROVE  LocalHasOthers'
  BY <1>17 DEF Edit
<1>18. ASSUME NEW p \in Pages, SaveStart(p)
      PROVE  LocalHasOthers'
  BY <1>18 DEF SaveStart
<1>19. ASSUME NEW p \in Pages, SaveCheck(p)
      PROVE  LocalHasOthers'
  BY <1>19 DEF SaveCheck, SaveTo, EndSave
<1>20. ASSUME NEW p \in Pages, Relock(p)
      PROVE  LocalHasOthers'
  BY <1>20 DEF Relock, SaveTo, EndSave
<1>21. ASSUME NEW p \in Pages, Regrant(p)
      PROVE  LocalHasOthers'
  BY <1>21 DEF Regrant, Upsert, Passes, Since
<1>22. ASSUME NEW p \in Pages, SaveWrite(p)
      PROVE  LocalHasOthers'
  BY <1>22 DEF SaveWrite, EndSave
<1>23. ASSUME NEW p \in Pages, SaveFail(p)
      PROVE  LocalHasOthers'
  BY <1>23 DEF SaveFail, EndSave
<1>24. CASE UNCHANGED vars
  BY <1>24 DEF vars
<1> HIDE DEF IInv, TypeOK, HoldFollowsOwner, BaseFollowsOwner, LocalHasOthers, server, editor, saving, history
<1> QED
  BY <1>1, <1>2, <1>3, <1>4, <1>5, <1>6, <1>7, <1>8, <1>9, <1>10, <1>11, <1>12, <1>13, <1>14, <1>15, <1>16, <1>17, <1>18, <1>19, <1>20, <1>21, <1>22, <1>23, <1>24 DEF Next, BeatStep

\* So does its save.
LEMMA PayloadStep == IInv /\ [Next]_vars => PayloadHasOthers'
<1> SUFFICES ASSUME IInv, [Next]_vars PROVE PayloadHasOthers'
  OBVIOUS
<1> USE UserAssumption, NobodyAssumption, BoundsAssumption DEF IInv, TypeOK, HoldFollowsOwner, BaseFollowsOwner, LocalHasOthers, PayloadHasOthers, server, editor, saving, history
<1>1. ASSUME Expire
      PROVE  PayloadHasOthers'
  BY <1>1 DEF Expire
<1>2. ASSUME NEW p \in Pages, Open(p)
      PROVE  PayloadHasOthers'
  BY <1>2 DEF Open
<1>3. ASSUME NEW p \in Pages, AcquireCheck(p)
      PROVE  PayloadHasOthers'
  BY <1>3 DEF AcquireCheck, Become
<1>4. ASSUME NEW p \in Pages, AcquireGrant(p)
      PROVE  PayloadHasOthers'
  BY <1>4 DEF AcquireGrant, Become, Upsert, Passes, Since
<1>5. ASSUME NEW p \in Pages, AcquireFail(p)
      PROVE  PayloadHasOthers'
  BY <1>5 DEF AcquireFail, Become
<1>6. ASSUME NEW p \in Pages, Fetched(p)
      PROVE  PayloadHasOthers'
  BY <1>6 DEF Fetched
<1>7. ASSUME NEW p \in Pages, BeatStart(p)
      PROVE  PayloadHasOthers'
  BY <1>7 DEF BeatStart
<1>8. ASSUME NEW p \in Pages, BeatUpdate(p)
      PROVE  PayloadHasOthers'
  BY <1>8 DEF BeatUpdate, Become
<1>9. ASSUME NEW p \in Pages, BeatReread(p)
      PROVE  PayloadHasOthers'
  BY <1>9 DEF BeatReread, Become
<1>10. ASSUME NEW p \in Pages, BeatRecover(p)
      PROVE  PayloadHasOthers'
  BY <1>10 DEF BeatRecover, Become, Upsert, Passes, Since
<1>11. ASSUME NEW p \in Pages, BeatFail(p)
      PROVE  PayloadHasOthers'
  BY <1>11 DEF BeatFail, Become
<1>12. ASSUME NEW p \in Pages, Close(p)
      PROVE  PayloadHasOthers'
  BY <1>12 DEF Close, Unmount
<1>13. ASSUME NEW p \in Pages, ReleaseCheck(p)
      PROVE  PayloadHasOthers'
  BY <1>13 DEF ReleaseCheck
<1>14. ASSUME NEW p \in Pages, ReleaseDelete(p)
      PROVE  PayloadHasOthers'
  BY <1>14 DEF ReleaseDelete, Passes, Since, NoLock
<1>15. ASSUME NEW p \in Pages, ReleaseFail(p)
      PROVE  PayloadHasOthers'
  BY <1>15 DEF ReleaseFail
<1>16. ASSUME NEW p \in Pages, Load(p)
      PROVE  PayloadHasOthers'
  BY <1>16 DEF Load
<1>17. ASSUME NEW p \in Pages, Edit(p)
      PROVE  PayloadHasOthers'
  BY <1>17 DEF Edit
<1>18. ASSUME NEW p \in Pages, SaveStart(p)
      PROVE  PayloadHasOthers'
  BY <1>18 DEF SaveStart
<1>19. ASSUME NEW p \in Pages, SaveCheck(p)
      PROVE  PayloadHasOthers'
  BY <1>19 DEF SaveCheck, SaveTo, EndSave
<1>20. ASSUME NEW p \in Pages, Relock(p)
      PROVE  PayloadHasOthers'
  BY <1>20 DEF Relock, SaveTo, EndSave
<1>21. ASSUME NEW p \in Pages, Regrant(p)
      PROVE  PayloadHasOthers'
  BY <1>21 DEF Regrant, Upsert, Passes, Since
<1>22. ASSUME NEW p \in Pages, SaveWrite(p)
      PROVE  PayloadHasOthers'
  BY <1>22 DEF SaveWrite, EndSave
<1>23. ASSUME NEW p \in Pages, SaveFail(p)
      PROVE  PayloadHasOthers'
  BY <1>23 DEF SaveFail, EndSave
<1>24. CASE UNCHANGED vars
  BY <1>24 DEF vars
<1> HIDE DEF IInv, TypeOK, HoldFollowsOwner, BaseFollowsOwner, LocalHasOthers, PayloadHasOthers, server, editor, saving, history
<1> QED
  BY <1>1, <1>2, <1>3, <1>4, <1>5, <1>6, <1>7, <1>8, <1>9, <1>10, <1>11, <1>12, <1>13, <1>14, <1>15, <1>16, <1>17, <1>18, <1>19, <1>20, <1>21, <1>22, <1>23, <1>24 DEF Next, BeatStep

\* A closed page's lock has its reason.
LEMMA LeftoverStep == IInv /\ [Next]_vars => LeftoversAreExplained'
<1> SUFFICES ASSUME IInv, [Next]_vars PROVE LeftoversAreExplained'
  OBVIOUS
<1> USE UserAssumption, NobodyAssumption, BoundsAssumption DEF IInv, TypeOK, LeftoversAreExplained, InUse, server, editor, saving, history
<1>1. ASSUME Expire
      PROVE  LeftoversAreExplained'
  BY <1>1 DEF Expire
<1>2. ASSUME NEW p \in Pages, Open(p)
      PROVE  LeftoversAreExplained'
  BY <1>2 DEF Open
<1>3. ASSUME NEW p \in Pages, AcquireCheck(p)
      PROVE  LeftoversAreExplained'
  BY <1>3 DEF AcquireCheck, Become
<1>4. ASSUME NEW p \in Pages, AcquireGrant(p)
      PROVE  LeftoversAreExplained'
  BY <1>4 DEF AcquireGrant, Become, Upsert, Passes, Since
<1>5. ASSUME NEW p \in Pages, AcquireFail(p)
      PROVE  LeftoversAreExplained'
  BY <1>5 DEF AcquireFail, Become
<1>6. ASSUME NEW p \in Pages, Fetched(p)
      PROVE  LeftoversAreExplained'
  BY <1>6 DEF Fetched
<1>7. ASSUME NEW p \in Pages, BeatStart(p)
      PROVE  LeftoversAreExplained'
  BY <1>7 DEF BeatStart
<1>8. ASSUME NEW p \in Pages, BeatUpdate(p)
      PROVE  LeftoversAreExplained'
  BY <1>8 DEF BeatUpdate, Become
<1>9. ASSUME NEW p \in Pages, BeatReread(p)
      PROVE  LeftoversAreExplained'
  BY <1>9 DEF BeatReread, Become
<1>10. ASSUME NEW p \in Pages, BeatRecover(p)
      PROVE  LeftoversAreExplained'
  BY <1>10 DEF BeatRecover, Become, Upsert, Passes, Since
<1>11. ASSUME NEW p \in Pages, BeatFail(p)
      PROVE  LeftoversAreExplained'
  BY <1>11 DEF BeatFail, Become
<1>12. ASSUME NEW p \in Pages, Close(p)
      PROVE  LeftoversAreExplained'
  BY <1>12 DEF Close, Unmount
<1>13. ASSUME NEW p \in Pages, ReleaseCheck(p)
      PROVE  LeftoversAreExplained'
  BY <1>13 DEF ReleaseCheck
<1>14. ASSUME NEW p \in Pages, ReleaseDelete(p)
      PROVE  LeftoversAreExplained'
  BY <1>14 DEF ReleaseDelete, Passes, Since, NoLock
<1>15. ASSUME NEW p \in Pages, ReleaseFail(p)
      PROVE  LeftoversAreExplained'
  BY <1>15 DEF ReleaseFail
<1>16. ASSUME NEW p \in Pages, Load(p)
      PROVE  LeftoversAreExplained'
  BY <1>16 DEF Load
<1>17. ASSUME NEW p \in Pages, Edit(p)
      PROVE  LeftoversAreExplained'
  BY <1>17 DEF Edit
<1>18. ASSUME NEW p \in Pages, SaveStart(p)
      PROVE  LeftoversAreExplained'
  BY <1>18 DEF SaveStart
<1>19. ASSUME NEW p \in Pages, SaveCheck(p)
      PROVE  LeftoversAreExplained'
  BY <1>19 DEF SaveCheck, SaveTo, EndSave
<1>20. ASSUME NEW p \in Pages, Relock(p)
      PROVE  LeftoversAreExplained'
  BY <1>20 DEF Relock, SaveTo, EndSave
<1>21. ASSUME NEW p \in Pages, Regrant(p)
      PROVE  LeftoversAreExplained'
  BY <1>21 DEF Regrant, Upsert, Passes, Since
<1>22. ASSUME NEW p \in Pages, SaveWrite(p)
      PROVE  LeftoversAreExplained'
  BY <1>22 DEF SaveWrite, EndSave
<1>23. ASSUME NEW p \in Pages, SaveFail(p)
      PROVE  LeftoversAreExplained'
  BY <1>23 DEF SaveFail, EndSave
<1>24. CASE UNCHANGED vars
  BY <1>24 DEF vars
<1> HIDE DEF IInv, TypeOK, LeftoversAreExplained, InUse, server, editor, saving, history
<1> QED
  BY <1>1, <1>2, <1>3, <1>4, <1>5, <1>6, <1>7, <1>8, <1>9, <1>10, <1>11, <1>12, <1>13, <1>14, <1>15, <1>16, <1>17, <1>18, <1>19, <1>20, <1>21, <1>22, <1>23, <1>24 DEF Next, BeatStep

\* The initial state satisfies the inductive invariant.
LEMMA InitIInv == Init => IInv
<1> SUFFICES ASSUME Init PROVE IInv
  OBVIOUS
<1> USE UserAssumption, NobodyAssumption, BoundsAssumption DEF Init, NoLock
<1>1. TypeOK
  BY DEF TypeOK
<1>2. HoldFollowsOwner /\ BaseFollowsOwner /\ LocalHasOthers /\ PayloadHasOthers
  BY DEF HoldFollowsOwner, BaseFollowsOwner, LocalHasOthers, PayloadHasOthers
<1>3. LeftoversAreExplained
  BY DEF LeftoversAreExplained
<1> QED
  BY <1>1, <1>2, <1>3 DEF IInv

\* Every step keeps the inductive invariant: the step lemmas together.
LEMMA StepIInv == IInv /\ [Next]_vars => IInv'
  BY TypeStep, HoldStep, BaseStep, LocalStep, PayloadStep, LeftoverStep DEF IInv

\* The inductive invariant holds in every behaviour.
LEMMA Invariant == Spec => []IInv
  BY InitIInv, StepIInv, PTL DEF Spec

\* What one step may overwrite.
Overwrite ==
    \A p \in Pages :
        save[p] = "write" /\ save'[p] = "idle" /\ base[p] # "excused" =>
            \A e \in content \ content' : Author(e) = User[p] \/ e \in strays

\* No step overwrites more than that.
LEMMA OverwriteStep == IInv /\ [Next]_vars => Overwrite
<1> SUFFICES ASSUME IInv, [Next]_vars PROVE Overwrite
  OBVIOUS
<1> USE UserAssumption, NobodyAssumption, BoundsAssumption DEF IInv, Overwrite, server, editor, saving, history
<1>1. ASSUME Expire
      PROVE  Overwrite
  BY <1>1 DEF Expire
<1>2. ASSUME NEW p \in Pages, Open(p)
      PROVE  Overwrite
  BY <1>2 DEF Open
<1>3. ASSUME NEW p \in Pages, AcquireCheck(p)
      PROVE  Overwrite
  BY <1>3 DEF AcquireCheck, Become
<1>4. ASSUME NEW p \in Pages, AcquireGrant(p)
      PROVE  Overwrite
  BY <1>4 DEF AcquireGrant, Become, Upsert, Passes, Since
<1>5. ASSUME NEW p \in Pages, AcquireFail(p)
      PROVE  Overwrite
  BY <1>5 DEF AcquireFail, Become
<1>6. ASSUME NEW p \in Pages, Fetched(p)
      PROVE  Overwrite
  BY <1>6 DEF Fetched
<1>7. ASSUME NEW p \in Pages, BeatStart(p)
      PROVE  Overwrite
  BY <1>7 DEF BeatStart
<1>8. ASSUME NEW p \in Pages, BeatUpdate(p)
      PROVE  Overwrite
  BY <1>8 DEF BeatUpdate, Become
<1>9. ASSUME NEW p \in Pages, BeatReread(p)
      PROVE  Overwrite
  BY <1>9 DEF BeatReread, Become
<1>10. ASSUME NEW p \in Pages, BeatRecover(p)
      PROVE  Overwrite
  BY <1>10 DEF BeatRecover, Become, Upsert, Passes, Since
<1>11. ASSUME NEW p \in Pages, BeatFail(p)
      PROVE  Overwrite
  BY <1>11 DEF BeatFail, Become
<1>12. ASSUME NEW p \in Pages, Close(p)
      PROVE  Overwrite
  BY <1>12 DEF Close, Unmount
<1>13. ASSUME NEW p \in Pages, ReleaseCheck(p)
      PROVE  Overwrite
  BY <1>13 DEF ReleaseCheck
<1>14. ASSUME NEW p \in Pages, ReleaseDelete(p)
      PROVE  Overwrite
  BY <1>14 DEF ReleaseDelete, Passes, Since, NoLock
<1>15. ASSUME NEW p \in Pages, ReleaseFail(p)
      PROVE  Overwrite
  BY <1>15 DEF ReleaseFail
<1>16. ASSUME NEW p \in Pages, Load(p)
      PROVE  Overwrite
  BY <1>16 DEF Load
<1>17. ASSUME NEW p \in Pages, Edit(p)
      PROVE  Overwrite
  BY <1>17 DEF Edit
<1>18. ASSUME NEW p \in Pages, SaveStart(p)
      PROVE  Overwrite
  BY <1>18 DEF SaveStart
<1>19. ASSUME NEW p \in Pages, SaveCheck(p)
      PROVE  Overwrite
  BY <1>19 DEF SaveCheck, SaveTo, EndSave
<1>20. ASSUME NEW p \in Pages, Relock(p)
      PROVE  Overwrite
  BY <1>20 DEF Relock, SaveTo, EndSave
<1>21. ASSUME NEW p \in Pages, Regrant(p)
      PROVE  Overwrite
  BY <1>21 DEF Regrant, Upsert, Passes, Since
<1>22. ASSUME NEW p \in Pages, SaveWrite(p)
      PROVE  Overwrite
  BY <1>22 DEF SaveWrite, EndSave, TypeOK, BaseFollowsOwner, PayloadHasOthers
<1>23. ASSUME NEW p \in Pages, SaveFail(p)
      PROVE  Overwrite
  BY <1>23 DEF SaveFail, EndSave
<1>24. CASE UNCHANGED vars
  BY <1>24 DEF vars
<1> HIDE DEF IInv, Overwrite, server, editor, saving, history
<1> QED
  BY <1>1, <1>2, <1>3, <1>4, <1>5, <1>6, <1>7, <1>8, <1>9, <1>10, <1>11, <1>12, <1>13, <1>14, <1>15, <1>16, <1>17, <1>18, <1>19, <1>20, <1>21, <1>22, <1>23, <1>24 DEF Next, BeatStep

\* The variables keep their types.
THEOREM TypeCorrect == Spec => []TypeOK
<1>1. IInv => TypeOK
  BY DEF IInv
<1> QED
  BY <1>1, Invariant, PTL

\* A user without a page keeps the lock only by a lost release or a late grant.
THEOREM LeftoversStayExplained == Spec => []LeftoversAreExplained
<1>1. IInv => LeftoversAreExplained
  BY DEF IInv
<1> QED
  BY <1>1, Invariant, PTL

\* A save overwrites another user's edit only in the ways the property lists.
THEOREM OverwritesStayExplained == Spec => OverwritesAreExplained
<1>1. IInv /\ [Next]_vars => [Overwrite]_vars
  BY OverwriteStep
<1> QED
  BY <1>1, Invariant, PTL DEF Spec, OverwritesAreExplained, Overwrite

-----------------------------------------------------------------------------
(* What the exceptions rest on.  Of the three that OverwritesAreExplained    *)
(* makes, the third follows from the first two: without a save that commits  *)
(* although its user had been without the lock, nothing comes back and       *)
(* nobody's work is replaced.                                                *)

\* A save commits although its user has been without the lock since its blocks were
\* loaded, or since the server has checked it.
ExcusedWrite == \E p \in Pages : SaveWrite(p) /\ base[p] = "excused"

\* The behaviours in which every such save is refused or fails.
FencedSpec == Spec /\ [][~ExcusedWrite]_vars

\* A save takes away edits of its own user only.
NeverOverwrites ==
    [][\A p \in Pages : SaveWrite(p) => \A e \in content \ content' : Author(e) = User[p]]_vars

\* What a page that kept the lock shows, and its save sends, of other users' edits
\* is what is saved.
NoneComesBack ==
    /\ strays = {}
    /\ \A p \in loaded :
          hold[p] = "kept" => \A e \in local[p] \ content : Author(e) = User[p]
    /\ \A p \in Pages : save[p] # "idle" /\ base[p] = "kept" =>
          \A e \in payload[p] \ content : Author(e) = User[p]

\* A save that is not excused leaves other users' edits as they are.
LEMMA SaveKeepsOthers ==
    ASSUME IInv, NoneComesBack, ~ExcusedWrite, NEW p \in Pages, SaveWrite(p)
    PROVE  /\ lock.owner = User[p] /\ strays' = {}
           /\ \A e : Author(e) # User[p] => (e \in content <=> e \in content')
<1>1. save[p] = "write" /\ base[p] = "kept" /\ lock.owner = User[p]
  BY DEF SaveWrite, ExcusedWrite, IInv, TypeOK, BaseFollowsOwner
<1>2. content' = payload[p]
  BY DEF SaveWrite
<1>3. \A e \in content : Author(e) = User[p] \/ e \in payload[p]
  BY <1>1 DEF IInv, PayloadHasOthers, NoneComesBack
<1>4. \A e \in payload[p] \ content : Author(e) = User[p]
  BY <1>1 DEF NoneComesBack
<1>5. strays' = {}
  BY <1>1, <1>4 DEF SaveWrite, NoneComesBack
<1> QED
  BY <1>1, <1>2, <1>3, <1>4, <1>5

\* Every step but an excused save keeps it so.
LEMMA FencedStep == IInv /\ NoneComesBack /\ [Next]_vars /\ ~ExcusedWrite => NoneComesBack'
<1> SUFFICES ASSUME IInv, NoneComesBack, [Next]_vars, ~ExcusedWrite PROVE NoneComesBack'
  OBVIOUS
<1> USE UserAssumption, NobodyAssumption DEF IInv, TypeOK, NoneComesBack, HoldFollowsOwner, BaseFollowsOwner, server, editor, saving, history
<1>1. ASSUME Expire
      PROVE  NoneComesBack'
  BY <1>1 DEF Expire
<1>2. ASSUME NEW p \in Pages, Open(p)
      PROVE  NoneComesBack'
  BY <1>2 DEF Open
<1>3. ASSUME NEW p \in Pages, AcquireCheck(p)
      PROVE  NoneComesBack'
  BY <1>3 DEF AcquireCheck, Become
<1>4. ASSUME NEW p \in Pages, AcquireGrant(p)
      PROVE  NoneComesBack'
  BY <1>4 DEF AcquireGrant, Upsert, Passes, Since
<1>5. ASSUME NEW p \in Pages, AcquireFail(p)
      PROVE  NoneComesBack'
  BY <1>5 DEF AcquireFail, Become
<1>6. ASSUME NEW p \in Pages, Fetched(p)
      PROVE  NoneComesBack'
  BY <1>6 DEF Fetched
<1>7. ASSUME NEW p \in Pages, BeatStart(p)
      PROVE  NoneComesBack'
  BY <1>7 DEF BeatStart
<1>8. ASSUME NEW p \in Pages, BeatUpdate(p)
      PROVE  NoneComesBack'
  BY <1>8 DEF BeatUpdate, Become
<1>9. ASSUME NEW p \in Pages, BeatReread(p)
      PROVE  NoneComesBack'
  BY <1>9 DEF BeatReread, Become
<1>10. ASSUME NEW p \in Pages, BeatRecover(p)
      PROVE  NoneComesBack'
  BY <1>10 DEF BeatRecover, Upsert, Passes, Since
<1>11. ASSUME NEW p \in Pages, BeatFail(p)
      PROVE  NoneComesBack'
  BY <1>11 DEF BeatFail, Become
<1>12. ASSUME NEW p \in Pages, Close(p)
      PROVE  NoneComesBack'
  BY <1>12 DEF Close, Unmount
<1>13. ASSUME NEW p \in Pages, ReleaseCheck(p)
      PROVE  NoneComesBack'
  BY <1>13 DEF ReleaseCheck
<1>14. ASSUME NEW p \in Pages, ReleaseDelete(p)
      PROVE  NoneComesBack'
  BY <1>14 DEF ReleaseDelete, Passes, Since
<1>15. ASSUME NEW p \in Pages, ReleaseFail(p)
      PROVE  NoneComesBack'
  BY <1>15 DEF ReleaseFail
<1>16. ASSUME NEW p \in Pages, Load(p)
      PROVE  NoneComesBack'
  BY <1>16 DEF Load
<1>17. ASSUME NEW p \in Pages, Edit(p)
      PROVE  NoneComesBack'
  <2>1. ASSUME NEW q \in loaded', hold'[q] = "kept", NEW e \in local'[q] \ content'
        PROVE  Author(e) = User[q]
    <3>1. q \in loaded /\ hold[q] = "kept" /\ e \notin content
      BY <1>17, <2>1 DEF Edit
    <3>2. e \in local[q] \/ (q = p /\ e = <<p, made[p] + 1>>)
      BY <1>17, <2>1 DEF Edit
    <3>3. Author(<<p, made[p] + 1>>) = User[p]
      BY DEF Author
    <3> QED
      BY <3>1, <3>2, <3>3
  <2>2. UNCHANGED <<content, payload, save, base, strays>>
    BY <1>17 DEF Edit
  <2> QED
    BY <2>1, <2>2
<1>18. ASSUME NEW p \in Pages, SaveStart(p)
      PROVE  NoneComesBack'
  BY <1>18 DEF SaveStart
<1>19. ASSUME NEW p \in Pages, SaveCheck(p)
      PROVE  NoneComesBack'
  BY <1>19 DEF SaveCheck, SaveTo, EndSave
<1>20. ASSUME NEW p \in Pages, Relock(p)
      PROVE  NoneComesBack'
  BY <1>20 DEF Relock, SaveTo, EndSave
<1>21. ASSUME NEW p \in Pages, Regrant(p)
      PROVE  NoneComesBack'
  BY <1>21 DEF Regrant, Upsert, Passes, Since
<1>22. ASSUME NEW p \in Pages, SaveWrite(p)
      PROVE  NoneComesBack'
  <2>1. /\ lock.owner = User[p] /\ strays' = {}
        /\ \A e : Author(e) # User[p] => (e \in content <=> e \in content')
    BY <1>22, SaveKeepsOthers
  <2>2. ASSUME NEW q \in loaded', hold'[q] = "kept", NEW e \in local'[q] \ content'
        PROVE  Author(e) = User[q]
    <3>1. q \in loaded /\ hold[q] = "kept" /\ e \in local[q]
      BY <1>22, <2>2 DEF SaveWrite
    <3>2. User[q] = User[p]
      BY <2>1, <3>1
    <3> QED
      BY <2>1, <2>2, <3>1, <3>2
  <2>3. ASSUME NEW q \in Pages, save'[q] # "idle", base'[q] = "kept", NEW e \in payload'[q] \ content'
        PROVE  Author(e) = User[q]
    <3>1. save[q] # "idle" /\ base[q] = "kept" /\ e \in payload[q]
      BY <1>22, <2>3 DEF SaveWrite, EndSave
    <3>2. User[q] = User[p]
      BY <2>1, <3>1
    <3> QED
      BY <2>1, <2>3, <3>1, <3>2
  <2> QED
    BY <2>1, <2>2, <2>3
<1>23. ASSUME NEW p \in Pages, SaveFail(p)
      PROVE  NoneComesBack'
  BY <1>23 DEF SaveFail, EndSave
<1>24. CASE UNCHANGED vars
  BY <1>24 DEF vars
<1> HIDE DEF IInv, TypeOK, NoneComesBack, HoldFollowsOwner, BaseFollowsOwner, server, editor, saving, history
<1> QED
  BY <1>1, <1>2, <1>3, <1>4, <1>5, <1>6, <1>7, <1>8, <1>9, <1>10, <1>11, <1>12, <1>13, <1>14, <1>15, <1>16, <1>17, <1>18, <1>19, <1>20, <1>21, <1>22, <1>23, <1>24 DEF Next, BeatStep

\* If no save commits although its user had been without the lock, no user's saved
\* edit is ever replaced by another's: expiry, takeovers, lost answers and the second
\* try (acquire_lock, renew_builder_lock, useAutosave) by themselves take nothing away.
THEOREM OverwritesNeedAnExcuse == FencedSpec => NeverOverwrites
<1>1. Init => NoneComesBack
  BY DEF Init, NoneComesBack
<1>2. IInv /\ NoneComesBack /\ [Next]_vars /\ [~ExcusedWrite]_vars => NoneComesBack'
  <2> SUFFICES ASSUME IInv, NoneComesBack, UNCHANGED vars PROVE NoneComesBack'
    BY FencedStep
  <2> QED
    BY DEF NoneComesBack, vars
<1>3. IInv /\ NoneComesBack /\ [Next]_vars /\ [~ExcusedWrite]_vars =>
        [\A p \in Pages : SaveWrite(p) => \A e \in content \ content' : Author(e) = User[p]]_vars
  BY SaveKeepsOthers
<1> QED
  BY <1>1, <1>2, <1>3, Invariant, PTL DEF FencedSpec, Spec, NeverOverwrites
=============================================================================
