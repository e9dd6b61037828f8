----------------------------- MODULE ArtifactSession -----------------------------
(***************************************************************************)
(* One open design artifact of a workspace session (fanta-format, project/ *)
(* session/artifact.rs and the parts of workspace.rs that route to it):    *)
(* its canvas and text working copies, its save with the disk check, the   *)
(* three-way merge with a concurrent external edit, and its conflicts.     *)
(*                                                                         *)
(* An edition maps keys (addresses of node properties) to values and also  *)
(* stands for its file set and that file set's hash.  A session method     *)
(* runs with the session exclusively borrowed, so between two methods, and *)
(* between the disk accesses inside save, only external editors act.       *)
(* Renamed directories, changed identities and sources that need an id     *)
(* migration on load are left out.                                         *)
(***************************************************************************)
EXTENDS Naturals, FiniteSets

CONSTANTS
    Keys, Vals,  \* an edition gives every key a value
    Bad,         \* a text buffer that does not parse
    None,        \* no entry: no buffer, no conflict, not indexed
    Disciplined  \* the host draws only on a canvas that shows the working copy

\* File sets that hold no edition: removed, source file missing, unparsable.
CONSTANTS Gone, Partial, Broken

CONSTANTS
    Zero,        \* ContentHash::default(), which no file set hashes to
    Free, Either \* ghost marks: untouched, resolved by the user either way

Editions == [Keys -> Vals]
FileSets == Editions \cup {Gone, Partial, Broken}
Sides == {"Canvas", "Text"}
States == {"Closed", "Clean", "DirtyCanvas", "DirtyText", "Conflict", "Invalid"}

ASSUME ArtifactAssumption ==
    /\ Bad # None /\ Bad \notin Editions
    /\ Cardinality({Gone, Partial, Broken}) = 3 /\ {Gone, Partial, Broken} \cap Editions = {}
    /\ None \notin FileSets /\ Zero \notin FileSets
    /\ Free # Either /\ Free \notin Vals /\ Either \notin Vals
    /\ Disciplined \in BOOLEAN

VARIABLES
    disk,      \* the artifact's file set
    fileIndex, \* WorkspaceSession.file_index: the hash the workspace has indexed
    state,     \* ArtifactSession.state, or "Closed"
    scene,     \* the canvas working copy (scoped, ir and source agree on it)
    text,      \* the text buffer
    stale,     \* scene_stale: the buffer has moved on from the scene
    base,      \* base_nodes: the common ancestor of the next merge
    seen,      \* disk_hash: the file set the session last observed
    conflict,  \* Conflict(ConflictState): theirs, the merge preview, the origin
    pc         \* "idle", or how far a save is: "recheck", "write"

VARIABLES
    mine,      \* ghost: what the user gave each key since it last was in sync
    raced      \* ghost: the disk changed between save's last check and its write

session == <<scene, text, stale, base, seen, conflict>>
vars == <<disk, fileIndex, state, session, pc, mine, raced>>

Untouched == [k \in Keys |-> Free]

Init ==
    /\ disk \in Editions /\ fileIndex = disk
    /\ state = "Closed" /\ scene = disk /\ text = None /\ stale = FALSE
    /\ base = disk /\ seen = disk /\ conflict = None /\ pc = "idle"
    /\ mine = Untouched /\ raced = FALSE

-----------------------------------------------------------------------------
(***************************************************************************)
(* merge_artifact: each key on its own, ours wins where both sides moved.  *)
(***************************************************************************)
Collides(b, o, t, k) == o[k] # t[k] /\ o[k] # b[k] /\ t[k] # b[k]

Conflicts(b, o, t) == {k \in Keys : Collides(b, o, t, k)}

MergeArtifact(b, o, t) == [k \in Keys |-> IF o[k] = b[k] THEN t[k] ELSE o[k]]

-----------------------------------------------------------------------------
\* The edition a save would project: the buffer is primary while DirtyText.
Working == IF state = "DirtyText" THEN text ELSE scene

Origin == IF state = "DirtyText" THEN "Text" ELSE "Canvas"

\* Fault: every resolved conflict continues in text mode.
FaultyDirtyOf(side) == IF side \in Sides THEN "DirtyText" ELSE "DirtyCanvas"

DirtyOf(side) == IF side = "Text" THEN "DirtyText" ELSE "DirtyCanvas"

IsDirty == state \in {"DirtyCanvas", "DirtyText"}

\* load_artifact_session of the edition now on disk.
Load ==
    /\ state' = "Clean" /\ scene' = disk /\ text' = None /\ stale' = FALSE
    /\ base' = disk /\ seen' = disk /\ conflict' = None /\ mine' = Untouched

\* Forget the session, so that the states of closed sessions coincide.
Drop ==
    /\ state' = "Closed" /\ text' = None /\ stale' = FALSE /\ conflict' = None
    /\ mine' = Untouched /\ UNCHANGED <<scene, base, seen>>

\* A key the user changed and that still differs from the ancestor stays his.
Carried == [k \in Keys |-> IF mine[k] \in Vals /\ mine[k] # base[k] THEN mine[k] ELSE Free]

-----------------------------------------------------------------------------
(***************************************************************************)
(* handle_disk_changed_dirty, by its outcome.  h is the hash under which   *)
(* the caller observed the file set.                                       *)
(***************************************************************************)
\* Fault: the observed hash is not recorded with the conflict.
FaultyEnterConflict(theirs, auto, h) ==
    /\ state' = "Conflict"
    /\ conflict' = [theirs |-> theirs, auto |-> auto, origin |-> Origin]
    /\ UNCHANGED <<seen, scene, text, stale, base, mine>>

EnterConflict(theirs, auto, h) ==
    /\ state' = "Conflict"
    /\ conflict' = [theirs |-> theirs, auto |-> auto, origin |-> Origin]
    /\ seen' = h
    /\ UNCHANGED <<scene, text, stale, base, mine>>

DiskDeleted(h) ==
    /\ disk \in {Gone, Partial} /\ Working # Bad
    /\ EnterConflict(Gone, None, h)

DiskCollides ==
    /\ disk \in Editions /\ Working # Bad /\ Conflicts(base, Working, disk) # {}
    /\ EnterConflict(disk, MergeArtifact(base, Working, disk), disk)

\* install_merged_working on the swapped-in scratch session.
InstallMerged(merged, side) ==
    /\ scene' = merged /\ stale' = FALSE
    /\ IF merged = seen'
       THEN state' = "Clean" /\ text' = None
       ELSE state' = DirtyOf(side) /\ text' = IF side = "Text" THEN merged ELSE text

\* Fault: the ancestor stays behind when the disk edition is merged.
FaultyDiskMerges ==
    /\ disk \in Editions /\ Working # Bad /\ Conflicts(base, Working, disk) = {}
    /\ seen' = disk
    /\ InstallMerged(MergeArtifact(base, Working, disk), Origin)
    /\ mine' = Carried /\ UNCHANGED <<base, conflict>>

DiskMerges ==
    /\ disk \in Editions /\ Working # Bad /\ Conflicts(base, Working, disk) = {}
    /\ base' = disk /\ seen' = disk
    /\ InstallMerged(MergeArtifact(base, Working, disk), Origin)
    /\ mine' = Carried /\ UNCHANGED conflict

BufferInvalid ==
    /\ disk \in Editions /\ Working = Bad
    /\ state' = "Invalid"
    /\ UNCHANGED <<session, mine>>

\* An error return: the file set, or our buffer, does not parse.
DiskUnreadable ==
    /\ disk = Broken \/ (disk \in {Gone, Partial} /\ Working = Bad)
    /\ UNCHANGED <<state, session, mine>>

-----------------------------------------------------------------------------
(***************************************************************************)
(* Opening, closing and editing.                                           *)
(***************************************************************************)
OpenArtifact ==
    /\ pc = "idle" /\ state = "Closed" /\ fileIndex # None /\ disk \in Editions
    /\ Load
    /\ UNCHANGED <<disk, fileIndex, pc, raced>>

CloseArtifact ==
    /\ pc = "idle" /\ state # "Closed"
    /\ Drop
    /\ UNCHANGED <<disk, fileIndex, pc, raced>>

\* apply_transaction_atomic, undo and redo: refused in text mode.
CanvasEdit(k, v) ==
    /\ pc = "idle" /\ state \in {"Clean", "DirtyCanvas"}
    /\ Disciplined => ~stale
    /\ v # scene[k]
    /\ scene' = [scene EXCEPT ![k] = v] /\ mine' = [mine EXCEPT ![k] = v]
    /\ state' = "DirtyCanvas"
    /\ UNCHANGED <<disk, fileIndex, text, stale, base, seen, conflict, pc, raced>>

\* A tool gesture through DocMutGuard: allowed, and noted on drop, in any state.
GuardEdit(k, v) ==
    /\ pc = "idle" /\ state # "Closed"
    /\ Disciplined => ~stale /\ (state = "Conflict" => conflict.origin = "Canvas")
    /\ v # scene[k]
    /\ scene' = [scene EXCEPT ![k] = v] /\ mine' = [mine EXCEPT ![k] = v]
    /\ state' = IF state \in {"Conflict", "Invalid"} THEN state ELSE "DirtyCanvas"
    /\ UNCHANGED <<disk, fileIndex, text, stale, base, seen, conflict, pc, raced>>

BeginTextEdit ==
    /\ pc = "idle" /\ state \in {"Clean", "DirtyCanvas"}
    /\ Disciplined => ~stale
    /\ text' = scene /\ state' = "DirtyText" /\ stale' = FALSE
    /\ UNCHANGED <<disk, fileIndex, scene, base, seen, conflict, pc, mine, raced>>

\* switch_to_text: the same projection, with no test of the state and no reset
\* of stale; its comment says that it is for DirtyCanvas.
SwitchToText ==
    /\ pc = "idle" /\ state # "Closed"
    /\ Disciplined => ~stale /\ state = "DirtyCanvas"
    /\ text' = scene /\ state' = "DirtyText" /\ conflict' = None
    /\ UNCHANGED <<disk, fileIndex, scene, stale, base, seen, pc, mine, raced>>

SetText(t) ==
    /\ pc = "idle" /\ state \in {"Clean", "DirtyCanvas", "DirtyText"}
    /\ text' = t /\ state' = "DirtyText" /\ stale' = TRUE
    \* the author changed the keys that differ from what the buffer showed
    /\ LET shown == IF state = "DirtyText" THEN text ELSE IF stale THEN seen ELSE scene
       IN  mine' = IF t = Bad THEN mine
                   ELSE IF shown = Bad THEN t
                   ELSE [k \in Keys |-> IF t[k] # shown[k] THEN t[k] ELSE mine[k]]
    /\ UNCHANGED <<disk, fileIndex, scene, base, seen, conflict, pc, raced>>

CommitTextToScene ==
    /\ pc = "idle" /\ state = "DirtyText" /\ text # Bad
    /\ scene' = text /\ stale' = FALSE /\ state' = "DirtyCanvas"
    /\ UNCHANGED <<disk, fileIndex, text, base, seen, conflict, pc, mine, raced>>

CommitTextFails ==
    /\ pc = "idle" /\ state = "DirtyText" /\ text = Bad
    /\ state' = "Invalid"
    /\ UNCHANGED <<disk, fileIndex, session, pc, mine, raced>>

-----------------------------------------------------------------------------
(***************************************************************************)
(* save, through WorkspaceSession::save_artifact, which indexes the        *)
(* session's hash when save returns Ok.                                    *)
(***************************************************************************)
SaveClean ==
    /\ pc = "idle" /\ state = "Clean"
    /\ fileIndex' = seen
    /\ UNCHANGED <<disk, state, session, pc, mine, raced>>

\* The projection equals the file set on disk: nothing to write.
SaveUnchanged ==
    /\ pc = "idle" /\ IsDirty /\ Working # Bad /\ disk = seen /\ Working = seen
    /\ state' = "Clean" /\ base' = Working /\ text' = None /\ fileIndex' = seen
    /\ mine' = Untouched
    /\ UNCHANGED <<disk, scene, stale, seen, conflict, pc, raced>>

\* Fault: the bytes are projected and written without a look at the disk.
FaultySaveChecked ==
    /\ pc = "idle" /\ IsDirty /\ Working # Bad /\ Working # seen
    /\ pc' = "write"
    /\ UNCHANGED <<disk, fileIndex, state, session, mine, raced>>

SaveChecked ==
    /\ pc = "idle" /\ IsDirty /\ Working # Bad /\ disk = seen /\ Working # seen
    /\ pc' = "write"
    /\ UNCHANGED <<disk, fileIndex, state, session, mine, raced>>

\* The disk moved.  A merge that leaves nothing to write ends the save.
SaveMerges ==
    /\ pc = "idle" /\ IsDirty /\ Working # Bad /\ disk # seen
    /\ \/ DiskDeleted(disk) /\ UNCHANGED <<pc, fileIndex>>
       \/ DiskCollides /\ UNCHANGED <<pc, fileIndex>>
       \/ DiskUnreadable /\ UNCHANGED <<pc, fileIndex>>
       \/ /\ DiskMerges
          /\ IF state' = "Clean"
             THEN fileIndex' = seen' /\ UNCHANGED pc
             ELSE pc' = "recheck" /\ UNCHANGED fileIndex
    /\ UNCHANGED <<disk, raced>>

\* Read the disk once more after the merge; give up if it moved again.
SaveRecheck ==
    /\ pc = "recheck"
    /\ pc' = IF disk = seen THEN "write" ELSE "idle"
    /\ UNCHANGED <<disk, fileIndex, state, session, mine, raced>>

SaveWrite ==
    /\ pc = "write"
    /\ disk' = Working /\ seen' = Working /\ base' = Working /\ fileIndex' = Working
    /\ state' = "Clean" /\ text' = None /\ pc' = "idle"
    /\ mine' = Untouched /\ raced' = FALSE
    /\ UNCHANGED <<scene, stale, conflict>>

\* write_artifact_files replaces source, sidecar and header one after the other.  When
\* it fails, the files are the old ones, the new ones, or some of each: they read as
\* an edition with old and new values, or do not fit together.
HalfWritten ==
    {Broken} \cup IF disk \in Editions
                  THEN {f \in Editions : \A k \in Keys : f[k] \in {disk[k], Working[k]}}
                  ELSE {disk, Working}

SaveWriteFails ==
    /\ pc = "write"
    /\ disk' \in HalfWritten /\ pc' = "idle" /\ raced' = FALSE
    /\ UNCHANGED <<fileIndex, state, session, mine>>

-----------------------------------------------------------------------------
(***************************************************************************)
(* notify_fs_event, for a file event or from reconcile_disk_snapshot: it   *)
(* looks at the disk, so it may come at any time, late or more than once.  *)
(***************************************************************************)
NotifyRemoved ==
    /\ pc = "idle" /\ disk = Gone /\ fileIndex # None
    /\ \/ state = "Closed" /\ fileIndex' = None /\ UNCHANGED <<state, session, mine>>
       \/ state = "Clean" /\ fileIndex' = None /\ Drop
       \/ IsDirty /\ (DiskDeleted(Zero) \/ DiskUnreadable) /\ UNCHANGED fileIndex
    /\ UNCHANGED <<disk, pc, raced>>

NotifyCreated ==
    /\ pc = "idle" /\ disk # Gone /\ fileIndex = None
    /\ fileIndex' = disk
    /\ UNCHANGED <<disk, state, session, pc, mine, raced>>

\* The hash gate lets only file sets through that differ from the index;
\* Conflict and Invalid sessions answer with an error and stay as they are.
NotifyModified ==
    /\ pc = "idle" /\ disk # Gone /\ fileIndex \notin {None, disk}
    /\ \/ state = "Closed" /\ fileIndex' = disk /\ UNCHANGED <<state, session, mine>>
       \/ state = "Clean" /\ disk \in Editions /\ Load /\ fileIndex' = disk
       \/ IsDirty /\ (DiskDeleted(disk) \/ DiskCollides \/ BufferInvalid \/ DiskUnreadable)
                  /\ UNCHANGED fileIndex
       \/ IsDirty /\ DiskMerges /\ fileIndex' = disk
    /\ UNCHANGED <<disk, pc, raced>>

-----------------------------------------------------------------------------
(***************************************************************************)
(* resolve_conflict.                                                       *)
(***************************************************************************)
Settled == conflict' = None /\ UNCHANGED <<disk, pc, raced>>

KeepOurs ==
    /\ pc = "idle" /\ state = "Conflict"
    /\ state' = DirtyOf(conflict.origin)
    /\ mine' = [k \in Keys |-> IF mine[k] = Free THEN Either ELSE mine[k]]
    /\ Settled /\ UNCHANGED <<fileIndex, scene, text, stale, base, seen>>

\* Fault: the ancestor is not moved to the edition that was taken.
FaultyTakeTheirs ==
    /\ pc = "idle" /\ state = "Conflict" /\ conflict.theirs # Gone
    /\ scene' = conflict.theirs /\ stale' = FALSE
    /\ state' = "Clean" /\ text' = None /\ mine' = Untouched
    /\ Settled /\ UNCHANGED <<fileIndex, base, seen>>

TakeTheirs ==
    /\ pc = "idle" /\ state = "Conflict" /\ conflict.theirs # Gone
    /\ scene' = conflict.theirs /\ base' = conflict.theirs /\ stale' = FALSE
    /\ state' = "Clean" /\ text' = None /\ mine' = Untouched
    /\ Settled /\ UNCHANGED <<fileIndex, seen>>

TakeDeletion ==
    /\ pc = "idle" /\ state = "Conflict" /\ conflict.theirs = Gone
    /\ Drop /\ fileIndex' = None
    /\ UNCHANGED <<disk, pc, raced>>

AcceptAuto ==
    /\ pc = "idle" /\ state = "Conflict" /\ conflict.theirs # Gone
    /\ UNCHANGED seen
    /\ InstallMerged(conflict.auto, conflict.origin)
    /\ base' = conflict.theirs
    /\ mine' = [k \in Keys |-> IF conflict.auto[k] # conflict.theirs[k]
                               THEN conflict.auto[k] ELSE Free]
    /\ Settled /\ UNCHANGED fileIndex

Manual(m) ==
    /\ pc = "idle" /\ state = "Conflict"
    /\ scene' = m /\ stale' = FALSE /\ state' = "DirtyCanvas"
    /\ base' = IF conflict.theirs = Gone THEN base ELSE conflict.theirs
    /\ mine' = m
    /\ Settled /\ UNCHANGED <<fileIndex, text, seen>>

-----------------------------------------------------------------------------
(***************************************************************************)
(* Another program edits, breaks, removes or restores the files.           *)
(***************************************************************************)
ExternalEdit(f) ==
    /\ f # disk
    /\ disk' = f /\ raced' = (raced \/ pc = "write")
    /\ UNCHANGED <<fileIndex, state, session, pc, mine>>

OneKeyAway(f) == disk \in Editions => Cardinality({k \in Keys : f[k] # disk[k]}) = 1

Next ==
    \/ OpenArtifact \/ CloseArtifact \/ BeginTextEdit \/ SwitchToText
    \/ \E k \in Keys, v \in Vals : CanvasEdit(k, v) \/ GuardEdit(k, v)
    \/ \E t \in Editions \cup {Bad} : SetText(t)
    \/ CommitTextToScene \/ CommitTextFails
    \/ SaveClean \/ SaveUnchanged \/ SaveChecked \/ SaveMerges \/ SaveRecheck
    \/ SaveWrite \/ SaveWriteFails
    \/ NotifyRemoved \/ NotifyCreated \/ NotifyModified
    \/ KeepOurs \/ TakeTheirs \/ TakeDeletion \/ AcceptAuto
    \/ \E m \in Editions : Manual(m)
    \/ \E f \in Editions : OneKeyAway(f) /\ ExternalEdit(f)
    \/ \E f \in {Gone, Partial, Broken} : ExternalEdit(f)

Spec == Init /\ [][Next]_vars

-----------------------------------------------------------------------------
(***************************************************************************)
(* Properties.                                                             *)
(***************************************************************************)

\* Every variable has its type, and a conflict is held exactly in Conflict.
TypeOK ==
    /\ disk \in FileSets /\ fileIndex \in FileSets \cup {None}
    /\ state \in States /\ scene \in Editions
    /\ text \in Editions \cup {Bad, None} /\ stale \in BOOLEAN
    /\ base \in Editions /\ seen \in FileSets \cup {Zero}
    /\ IF state = "Conflict"
       THEN conflict \in [theirs : Editions \cup {Gone}, auto : Editions \cup {None},
                          origin : Sides]
       ELSE conflict = None
    /\ state = "DirtyText" => text # None
    /\ pc \in {"idle", "recheck", "write"} /\ (pc # "idle" => IsDirty)
    /\ mine \in [Keys -> Vals \cup {Free, Either}] /\ raced \in BOOLEAN

\* The side of a session that holds the user's work, in conflict too.
Ours == IF state = "DirtyText" \/ (state = "Conflict" /\ conflict.origin = "Text")
        THEN text ELSE scene

\* The working copy is always the file set the session last observed with the
\* user's changes on top and nothing else: through merges, refused saves and
\* conflicts no change of the user is lost and no external change is undone
\* (handle_disk_changed_dirty, resolve_conflict).
WorkingCopyIsDiskPlusMine ==
    (state \in {"DirtyCanvas", "DirtyText"} /\ Ours # Bad) =>
        \A k \in Keys : /\ mine[k] \in Vals => Ours[k] = mine[k]
                        /\ mine[k] = Free /\ seen \in Editions => Ours[k] = seen[k]

\* While a conflict waits for its resolution, both sides are still there: the
\* user's changes in the session and, frozen, the edition that collided with
\* them, from which the offered merge differs only by the user's changes.
ConflictKeepsBothSides ==
    state = "Conflict" =>
        /\ conflict.theirs = IF seen \in Editions THEN seen ELSE Gone
        /\ Ours # Bad /\ \A k \in Keys : mine[k] \in Vals => Ours[k] = mine[k]
        /\ conflict.theirs # Gone => \A k \in Keys :
               conflict.auto[k] # conflict.theirs[k] => mine[k] # Free

\* A clean session whose buffer was not saved over its canvas shows the
\* edition it would merge with next.
CleanMeansMerged == state = "Clean" /\ ~stale => scene = base /\ base = seen

\* A write that no external edit raced changes only the keys the user changed
\* or ruled on, and gives them his values (save, "never write pre-TOCTOU
\* bytes").
SaveTouchesOnlyMine ==
    [][(SaveWrite /\ ~raced /\ disk \in Editions) =>
        \A k \in Keys : /\ disk'[k] # disk[k] => mine[k] # Free
                        /\ mine[k] \in Vals => disk'[k] = mine[k]]_vars

\* project-schema.md: an overlap of a canvas edit and a file edit "is shown as
\* a conflict and is never silently overwritten".  A merge without conflict
\* therefore leaves the user's value of every key on which the working copy
\* differs from the file version the session saw last.
MergeOverrulesNothing ==
    [][(IsDirty /\ seen \in Editions /\ state' # "Closed" /\ DiskMerges) =>
        \A k \in Keys : Working[k] # seen[k] => scene'[k] = Working[k]]_vars

\* project-schema.md: the editor "checks content hashes, and reconciles changed
\* artifacts".  So when the hash gate of notify_fs_event ignores an event, the
\* clean session already shows what is on disk.
GatedMeansShown ==
    (pc = "idle" /\ state = "Clean" /\ ~stale /\ disk \in Editions /\ fileIndex = disk)
        => scene = disk
=============================================================================
