------------------------------- MODULE EditLock -------------------------------
(***************************************************************************)
(* The edit lock of one course and the builder pages that compete for it.  *)
(* The server keeps one row (course_edit_locks) that names a user, not a   *)
(* page, and an expiry.  A page acquires the lock when it opens, renews it *)
(* every 30 seconds, releases it when it closes, and autosaves the blocks  *)
(* of a module two seconds after an edit; a save that is refused acquires  *)
(* the lock again and is sent once more.                                   *)
(*                                                                         *)
(* The handlers run in threads and interleave at their statements; one     *)
(* action is one statement of a handler (to its commit, when it takes the  *)
(* row's lock) or one step of a page.  A page has at most one request of   *)
(* each sort on its way.  A block's text stands for the blocks of a module;*)
(* it is the set of the edits it reflects, and a save replaces it.         *)
(***************************************************************************)
EXTENDS Naturals

CONSTANTS
    Pages,      \* builder pages (browser tabs) on the course
    Users,      \* administrators
    User,       \* User[p]: who is signed in on page p
    MaxEdits,   \* bound: edits made on one page
    MaxOpens,   \* bound: openings of pages
    MaxSaves    \* bound: saves of all pages

ASSUME UserAssumption == User \in [Pages -> Users]
ASSUME NobodyAssumption == "nobody" \notin Users
ASSUME BoundsAssumption == MaxEdits \in Nat /\ MaxOpens \in Nat /\ MaxSaves \in Nat

VARIABLES
    lock,      \* the course_edit_locks row; owner "nobody": no row
    content,   \* the saved blocks
    page,      \* CourseBuilderPage: lockState (active is "fetching" until the course is there), or "closed"
    leaked,    \* pages that closed while fetching: their interval starts all the same
    opens,     \* openings of pages so far
    loaded,    \* pages whose editor shows blocks
    local,     \* the blocks the editor shows
    made,      \* edits made on a page
    armed,     \* pages whose autosave timer runs
    acquire,   \* how far the page's POST .../lock has come
    beat,      \* how far its POST .../heartbeat has come
    release,   \* how far its DELETE .../lock has come
    saves,     \* saves so far
    save,      \* how far its PUT .../blocks has come, with the second try
    payload,   \* the blocks that save sends
    left,      \* history: users whose release was lost, or who got the lock on a closed page
    hold,      \* history: what became of the lock since the page loaded its blocks
    base,      \* history: the same for the blocks that save sends
    strays     \* history: edits saved by an excused save, or brought back after they were lost

server == <<lock, content>>
editor == <<opens, leaked, loaded, local, made, armed>>
saving == <<saves, save, payload>>
history == <<left, hold, base, strays>>
vars == <<lock, content, page, opens, leaked, loaded, local, made, armed, acquire, beat, release,
          saves, save, payload, left, hold, base, strays>>

Edits == Pages \X (1..MaxEdits)
Author(e) == User[e[1]]

NoLock == [owner |-> "nobody", live |-> FALSE]

Init ==
    /\ lock = NoLock
    /\ content = {}
    /\ page = [p \in Pages |-> "closed"]
    /\ opens = 0
    /\ leaked = {}
    /\ loaded = {}
    /\ local = [p \in Pages |-> {}]
    /\ made = [p \in Pages |-> 0]
    /\ armed = {}
    /\ acquire = [p \in Pages |-> "idle"]
    /\ beat = [p \in Pages |-> "idle"]
    /\ release = [p \in Pages |-> "idle"]
    /\ saves = 0
    /\ save = [p \in Pages |-> "idle"]
    /\ payload = [p \in Pages |-> {}]
    /\ left = {}
    /\ hold = [p \in Pages |-> "kept"]
    /\ base = [p \in Pages |-> "kept"]
    /\ strays = {}

-----------------------------------------------------------------------------
(* The row.                                                                *)

\* The lock passes to user u.  Who was without it and has it again is excused,
\* and so is a save that has passed the server's check already.
Since(h, q, u) ==
    IF User[q] # u THEN "lost" ELSE IF h = "lost" THEN "excused" ELSE h

Passes(u) ==
    /\ hold' = [q \in Pages |-> IF q \in loaded THEN Since(hold[q], q, u) ELSE hold[q]]
    /\ base' = [q \in Pages |->
          IF save[q] = "idle" THEN base[q]
          ELSE IF save[q] = "write" /\ User[q] # u THEN "excused"
          ELSE Since(base[q], q, u)]

\* acquire_lock: INSERT ... ON CONFLICT DO UPDATE, whatever the row says by now.
Upsert(p) ==
    /\ lock' = [owner |-> User[p], live |-> TRUE]
    /\ Passes(User[p])
    /\ left' = IF page[p] = "closed" THEN left \cup {User[p]} ELSE left
    /\ UNCHANGED strays

\* acquire_builder_lock's check; expires_at is compared with the request's now.
LockedByOther(p) == lock.owner \notin {"nobody", User[p]} /\ lock.live

\* Fifteen minutes without a renewal.
Expire ==
    /\ lock.live
    /\ lock' = [lock EXCEPT !.live = FALSE]
    /\ UNCHANGED <<content, page, editor, acquire, beat, release, saving, history>>

-----------------------------------------------------------------------------
(* The page opens, and acquires the lock.                                  *)

Become(p, state) == page' = IF page[p] = "closed" THEN page ELSE [page EXCEPT ![p] = state]

Open(p) ==
    /\ page[p] = "closed" /\ acquire[p] = "idle" /\ beat[p] = "idle" /\ p \notin leaked
    /\ opens < MaxOpens
    /\ opens' = opens + 1
    /\ page' = [page EXCEPT ![p] = "connecting"]
    /\ acquire' = [acquire EXCEPT ![p] = "check"]
    /\ UNCHANGED <<server, leaked, loaded, local, made, armed, beat, release, saving, history>>

AcquireCheck(p) ==
    /\ acquire[p] = "check"
    /\ IF LockedByOther(p)
         THEN acquire' = [acquire EXCEPT ![p] = "idle"] /\ Become(p, "blocked")
         ELSE acquire' = [acquire EXCEPT ![p] = "grant"] /\ UNCHANGED page
    /\ UNCHANGED <<server, editor, beat, release, saving, history>>

\* The answer may get lost: the page is blocked though its user has the lock.
AcquireGrant(p) ==
    /\ acquire[p] = "grant"
    /\ Upsert(p)
    /\ acquire' = [acquire EXCEPT ![p] = "idle"]
    /\ Become(p, "fetching") \/ Become(p, "blocked")
    /\ UNCHANGED <<content, editor, beat, release, saving>>

AcquireFail(p) ==
    /\ acquire[p] # "idle"
    /\ acquire' = [acquire EXCEPT ![p] = "idle"]
    /\ Become(p, "blocked")
    /\ UNCHANGED <<server, editor, beat, release, saving, history>>

\* fetchStructure has its answer, good or bad; the interval starts.
Fetched(p) ==
    /\ page[p] = "fetching"
    /\ page' = [page EXCEPT ![p] = "active"]
    /\ UNCHANGED <<server, editor, acquire, beat, release, saving, history>>

-----------------------------------------------------------------------------
(* The heartbeat.  Closing the page stops the interval, if it has started. *)

BeatStart(p) ==
    /\ page[p] \in {"active", "lost"} \/ p \in leaked
    /\ beat[p] = "idle"
    /\ beat' = [beat EXCEPT ![p] = "update"]
    /\ UNCHANGED <<server, page, editor, acquire, release, saving, history>>

\* Mutant: the UPDATE names the course and not the user.
BeatUpdateAnyone(p) ==
    /\ beat[p] = "update"
    /\ IF lock.owner # "nobody"
         THEN /\ lock' = [lock EXCEPT !.live = TRUE]
              /\ beat' = [beat EXCEPT ![p] = "reread"]
              /\ UNCHANGED page
         ELSE /\ beat' = [beat EXCEPT ![p] = "idle"]
              /\ Become(p, "lost")
              /\ UNCHANGED lock
    /\ UNCHANGED <<content, editor, acquire, release, saving, history>>

\* UPDATE ... WHERE user_id = ..., which also renews an expired row.
BeatUpdate(p) ==
    /\ beat[p] = "update"
    /\ IF lock.owner = User[p]
         THEN /\ lock' = [lock EXCEPT !.live = TRUE]
              /\ beat' = [beat EXCEPT ![p] = "reread"]
              /\ UNCHANGED page
         ELSE /\ beat' = [beat EXCEPT ![p] = "idle"]
              /\ Become(p, "lost")
              /\ UNCHANGED lock
    /\ UNCHANGED <<content, editor, acquire, release, saving, history>>

\* The row is read again after the commit; any row will do for the answer.
BeatReread(p) ==
    /\ beat[p] = "reread"
    /\ IF lock.owner = "nobody"
         THEN beat' = [beat EXCEPT ![p] = "recover"] /\ UNCHANGED page
         ELSE beat' = [beat EXCEPT ![p] = "idle"] /\ Become(p, "active")
    /\ UNCHANGED <<server, editor, acquire, release, saving, history>>

\* "Auto-recovery".
BeatRecover(p) ==
    /\ beat[p] = "recover"
    /\ Upsert(p)
    /\ beat' = [beat EXCEPT ![p] = "idle"]
    /\ Become(p, "active")
    /\ UNCHANGED <<content, editor, acquire, release, saving>>

BeatFail(p) ==
    /\ beat[p] # "idle"
    /\ beat' = [beat EXCEPT ![p] = "idle"]
    /\ Become(p, "lost")
    /\ UNCHANGED <<server, editor, acquire, release, saving, history>>

-----------------------------------------------------------------------------
(* The page closes, and releases the lock.                                 *)

\* Mutant: the autosave's timer is not cleared.
UnmountKeepsTimer(p) ==
    /\ page' = [page EXCEPT ![p] = "closed"]
    /\ loaded' = loaded \ {p}
    /\ local' = [local EXCEPT ![p] = {}]
    /\ hold' = [hold EXCEPT ![p] = "kept"]
    /\ UNCHANGED armed

Unmount(p) ==
    /\ page' = [page EXCEPT ![p] = "closed"]
    /\ loaded' = loaded \ {p}
    /\ local' = [local EXCEPT ![p] = {}]
    /\ armed' = armed \ {p}
    /\ hold' = [hold EXCEPT ![p] = "kept"]

\* Mutant: only a page that shows the lock as active releases it.
CloseActiveOnly(p) ==
    /\ page[p] # "closed" /\ release[p] = "idle"
    /\ Unmount(p)
    /\ release' = IF page[p] = "active" THEN [release EXCEPT ![p] = "check"] ELSE release
    /\ leaked' = IF page[p] = "fetching" THEN leaked \cup {p} ELSE leaked
    /\ UNCHANGED <<server, opens, made, acquire, beat, saving, left, base, strays>>

\* The effect's cleanup stops the timers there are and sends the release in every
\* state; an interval that starts once the structure has arrived is not stopped.
Close(p) ==
    /\ page[p] # "closed" /\ release[p] = "idle"
    /\ Unmount(p)
    /\ release' = [release EXCEPT ![p] = "check"]
    /\ leaked' = IF page[p] = "fetching" THEN leaked \cup {p} ELSE leaked
    /\ UNCHANGED <<server, opens, made, acquire, beat, saving, left, base, strays>>

ReleaseCheck(p) ==
    /\ release[p] = "check"
    /\ release' = [release EXCEPT ![p] = IF lock.owner = User[p] THEN "delete" ELSE "idle"]
    /\ UNCHANGED <<server, page, editor, acquire, beat, saving, history>>

\* DELETE by primary key: the row, whoever owns it by now.
ReleaseDelete(p) ==
    /\ release[p] = "delete"
    /\ lock' = NoLock
    /\ Passes("nobody")
    /\ release' = [release EXCEPT ![p] = "idle"]
    /\ UNCHANGED <<content, page, editor, acquire, beat, saving, left, strays>>

ReleaseFail(p) ==
    /\ release[p] # "idle"
    /\ release' = [release EXCEPT ![p] = "idle"]
    /\ left' = left \cup {User[p]}
    /\ UNCHANGED <<server, page, editor, acquire, beat, saving, hold, base, strays>>

-----------------------------------------------------------------------------
(* The editor and its autosave.                                            *)

\* fetchBlocks, when the editor opens and at every change of module.  For the
\* autosave, blocks that differ from those shown before are a change like any.
Load(p) ==
    /\ page[p] \in {"active", "lost"}
    /\ loaded' = loaded \cup {p}
    /\ local' = [local EXCEPT ![p] = content]
    /\ armed' = IF content = local[p] THEN armed \ {p} ELSE armed \cup {p}
    /\ hold' = [hold EXCEPT ![p] = IF lock.owner = User[p] THEN "kept" ELSE "lost"]
    /\ UNCHANGED <<server, page, opens, leaked, made, acquire, beat, release, saving, left, base, strays>>

Edit(p) ==
    /\ p \in loaded
    /\ made[p] < MaxEdits
    /\ made' = [made EXCEPT ![p] = @ + 1]
    /\ local' = [local EXCEPT ![p] = @ \cup {<<p, made[p] + 1>>}]
    /\ armed' = armed \cup {p}
    /\ UNCHANGED <<server, page, opens, leaked, loaded, acquire, beat, release, saving, history>>

\* performSave, when the timer has run out.
SaveStart(p) ==
    /\ p \in armed /\ save[p] = "idle"
    /\ saves < MaxSaves
    /\ saves' = saves + 1
    /\ armed' = armed \ {p}
    /\ save' = [save EXCEPT ![p] = "check"]
    /\ payload' = [payload EXCEPT ![p] = local[p]]
    /\ base' = [base EXCEPT ![p] = hold[p]]
    /\ UNCHANGED <<server, page, opens, leaked, loaded, local, made, acquire, beat, release, left, hold, strays>>

\* The save is over, one way or the other.
EndSave(p) ==
    /\ save' = [save EXCEPT ![p] = "idle"]
    /\ payload' = [payload EXCEPT ![p] = {}]
    /\ base' = [base EXCEPT ![p] = "kept"]

SaveTo(p, step) == save' = [save EXCEPT ![p] = step] /\ UNCHANGED <<payload, base>>

\* Mutant: the lock is looked at and its owner is not.
SaveCheckAnyone(p) ==
    /\ save[p] \in {"check", "recheck"}
    /\ \/ lock.owner # "nobody" /\ SaveTo(p, "write")
       \/ lock.owner = "nobody" /\ save[p] = "check" /\ SaveTo(p, "relock")
       \/ lock.owner = "nobody" /\ save[p] = "recheck" /\ EndSave(p)
    /\ UNCHANGED <<server, page, editor, acquire, beat, release, saves, left, hold, strays>>

\* save_module_blocks' check: the owner, not the expiry.  The first refusal
\* makes the page acquire the lock again, the second one is shown.
SaveCheck(p) ==
    /\ save[p] \in {"check", "recheck"}
    /\ \/ lock.owner = User[p] /\ SaveTo(p, "write")
       \/ lock.owner # User[p] /\ save[p] = "check" /\ SaveTo(p, "relock")
       \/ lock.owner # User[p] /\ save[p] = "recheck" /\ EndSave(p)
    /\ UNCHANGED <<server, page, editor, acquire, beat, release, saves, left, hold, strays>>

Relock(p) ==
    /\ save[p] = "relock"
    /\ IF LockedByOther(p) THEN EndSave(p) ELSE SaveTo(p, "regrant")
    /\ UNCHANGED <<server, page, editor, acquire, beat, release, saves, left, hold, strays>>

Regrant(p) ==
    /\ save[p] = "regrant"
    /\ Upsert(p)
    /\ save' = [save EXCEPT ![p] = "recheck"]
    /\ UNCHANGED <<content, page, editor, acquire, beat, release, saves, payload>>

\* The commit of the blocks.  The answer, if it arrives, makes the editor render
\* again, which clears a timer that an edit has armed meanwhile.
SaveWrite(p) ==
    /\ save[p] = "write"
    /\ content' = payload[p]
    /\ strays' = strays \cup {e \in payload[p] \ content : base[p] = "excused" \/ Author(e) # User[p]}
    /\ EndSave(p)
    /\ armed' = armed \/ armed' = armed \ {p}
    /\ UNCHANGED <<lock, page, opens, leaked, loaded, local, made, acquire, beat, release, saves, left, hold>>

SaveFail(p) ==
    /\ save[p] # "idle"
    /\ EndSave(p)
    /\ UNCHANGED <<server, page, editor, acquire, beat, release, saves, left, hold, strays>>

-----------------------------------------------------------------------------
BeatStep(p) == BeatStart(p) \/ BeatUpdate(p) \/ BeatReread(p) \/ BeatRecover(p)

Next ==
    \/ Expire
    \/ \E p \in Pages :
         \/ Open(p) \/ AcquireCheck(p) \/ AcquireGrant(p) \/ AcquireFail(p) \/ Fetched(p)
         \/ BeatStep(p) \/ BeatFail(p)
         \/ Close(p) \/ ReleaseCheck(p) \/ ReleaseDelete(p) \/ ReleaseFail(p)
         \/ Load(p) \/ Edit(p)
         \/ SaveStart(p) \/ SaveCheck(p) \/ Relock(p) \/ Regrant(p) \/ SaveWrite(p) \/ SaveFail(p)

Spec == Init /\ [][Next]_vars

\* The interval of an open page fires and its request is handled.
FairSpec == Spec /\ \A p \in Pages : WF_vars(BeatStep(p))

-----------------------------------------------------------------------------
TypeOK ==
    /\ lock \in [owner : Users \cup {"nobody"}, live : BOOLEAN]
    /\ content \subseteq Edits
    /\ page \in [Pages -> {"closed", "connecting", "fetching", "active", "blocked", "lost"}]
    /\ leaked \subseteq Pages
    /\ loaded \subseteq Pages
    /\ local \in [Pages -> SUBSET Edits]
    /\ opens \in 0..MaxOpens
    /\ made \in [Pages -> 0..MaxEdits]
    /\ armed \subseteq loaded
    /\ acquire \in [Pages -> {"idle", "check", "grant"}]
    /\ beat \in [Pages -> {"idle", "update", "reread", "recover"}]
    /\ release \in [Pages -> {"idle", "check", "delete"}]
    /\ saves \in 0..MaxSaves
    /\ save \in [Pages -> {"idle", "check", "write", "relock", "regrant", "recheck"}]
    /\ payload \in [Pages -> SUBSET Edits]
    /\ left \subseteq Users
    /\ hold \in [Pages -> {"kept", "lost", "excused"}]
    /\ base \in [Pages -> {"kept", "lost", "excused"}]
    /\ strays \subseteq Edits

\* What the lock is for, as far as the code keeps it: a save overwrites what
\* another user saved only if its page went on after its user had been without
\* the lock, or the lock was lost between the save's check and its commit, or
\* the overwritten edit was itself saved in one of these ways.
OverwritesAreExplained ==
    [][\A p \in Pages :
         save[p] = "write" /\ save'[p] = "idle" /\ base[p] # "excused" =>
            \A e \in content \ content' : Author(e) = User[p] \/ e \in strays]_vars

InUse(u) == \E p \in Pages : User[p] = u /\ (page[p] # "closed" \/ release[p] # "idle")

\* A user who has closed every page keeps the lock only if a release failed or
\* a request that was still on its way got the lock after the page was closed.
LeftoversAreExplained ==
    lock.owner # "nobody" /\ ~InUse(lock.owner) => lock.owner \in left

\* A page that shows the lock as active learns that its user has lost it.
LoserLearns ==
    \A p \in Pages :
        (page[p] = "active" /\ lock.owner # User[p])
            ~> (page[p] # "active" \/ lock.owner = User[p])
=============================================================================
