------------------------------- MODULE DesignItem -------------------------------
(***************************************************************************)
(* The design item of the editor (crates/fig_viewer/src/document.rs,       *)
(* FigItem): one open project, its canvas document, and the tasks that     *)
(* keep the canvas and the project's files in step.  The canvas is edited  *)
(* by the user, the files by anybody; a watcher check decides whether a    *)
(* file event is the item's own write, a reload or a three-way merge takes *)
(* foreign changes into the canvas, and a queue of saves writes captured   *)
(* snapshots of the canvas back.                                           *)
(*                                                                         *)
(* Every action is one update of the item on the foreground thread or one  *)
(* background step on the files.  A project write is one step here: module *)
(* ProjectTransaction shows that writes are atomic and see whole saves.    *)
(*                                                                         *)
(* An artifact is what a save checks, an event names and the merge takes   *)
(* from one side.  Left out: the first save of a bare .fig file, computed  *)
(* source layout, selection and scope, a second view of the same item.     *)
(***************************************************************************)
EXTENDS Naturals, FiniteSets, Sequences

CONSTANTS
    Artifacts,  \* the project's pages, components and shared files
    Shared,     \* the shared files: a change of one needs a full load or save
    Values,     \* the contents of an artifact
    Broken,     \* bytes on disk that do not parse
    Untracked,  \* no hash in own_write_hashes
    NoIndex,    \* workspace_session is None
    NoTask,     \* a task slot is None
    NoGen,      \* failed_autosave is None
    MaxQueue,   \* bound: saves waiting or running at a time
    Features    \* the operations in use

ASSUME ArtifactsAssumption == Shared \subseteq Artifacts /\ IsFiniteSet(Artifacts)
ASSUME ValuesAssumption ==
    /\ Broken \notin Values /\ Untracked \notin Values
    /\ NoIndex \notin [Artifacts -> Values \cup {Broken}]
ASSUME QueueAssumption == MaxQueue \in Nat \ {0} /\ NoGen \notin Nat
ASSUME FeaturesAssumption ==
    Features \subseteq {"explicit", "preview", "discard", "source", "saveas", "broken", "fault",
                 "alone"}

Trees == [Artifacts -> Values]
Disks == [Artifacts -> Values \cup {Broken}]

\* Render generations are only compared for equality: enough of them that one is
\* free when every holder (item, failed autosave, merge, queued saves) has its own.
Gens == 0 .. MaxQueue + 3

\* The tasks of the item: what each has captured, read and still has to do.
ChangedReads == [result : {"changed"}, doc : Trees, index : Disks]
Reads == [result : {"unchanged", "error"}] \cup ChangedReads
ReloadTasks ==
    [kind : {"merge", "reload"}, phase : {"debounce", "stale"}]
    \cup [kind : {"merge", "reload"}, phase : {"loaded"}, read : Reads]
    \cup [kind : {"merge"}, phase : {"merging"}, read : ChangedReads, ours : Trees, gen : Gens]
DiscardTasks == [by : {"user", "source"}, phase : {"started", "stale"}]
                \cup [by : {"user", "source"}, phase : {"loaded"}, read : Reads]
Checks == [paths : SUBSET Artifacts, fresh : BOOLEAN, changed : BOOLEAN]
Kinds == {"auto", "explicit"}
Indexes == Disks \cup {NoIndex}
Saves ==
    [kind : Kinds \cup {"saveas"}, phase : {"queued"}, gen : Gens, doc : Trees]
    \cup [kind : Kinds, phase : {"prepared"}, gen : Gens, doc : Trees,
          index : Indexes, base : Trees]
    \cup [kind : Kinds, phase : {"written"}, gen : Gens, doc : Trees,
          index : Disks, wrote : Disks]
    \cup [kind : Kinds, phase : {"failed"}, gen : Gens, doc : Trees, index : Indexes]
    \cup [kind : {"source"}, phase : {"queued", "written", "adopting"}, gen : Gens,
          at : Artifacts, value : Values]

ASSUME TaskAssumption == NoTask \notin Checks \cup ReloadTasks \cup DiscardTasks

VARIABLES
    disk,      \* the project's files
    doc,       \* the canvas document
    base,      \* merge_base: the canvas content last known to be on disk
    session,   \* workspace_session: the disk content its hash index describes
    own,       \* own_write_hashes: the content of the item's own last writes
    dirty,     \* unsaved edits
    conflict,  \* the conflict banner
    pending,   \* external_change_pending
    error,     \* source_reload_error: the files could not be read
    locked,    \* source_edit_locked: an FNX buffer has unsaved edits
    preview,   \* content_preview: "none", or "clean"/"dirty" for dirty_before
    before,    \* the document the active preview would be canceled to
    gen,       \* render_generation of the document
    failed,    \* failed_autosave: the generation of the snapshot
    events,    \* changed files whose event no watcher check has taken yet
    check,     \* watcher_check_task
    reload,    \* reload_task: a reload or a merge
    discard,   \* the task of reload_from_disk
    queue,     \* project_writes: the saves in capture order, the head running
    armed      \* the view's autosave timer

files == <<disk, events>>
canvas == <<doc, gen, preview, before>>
synced == <<base, session, own>>
flags == <<dirty, conflict, pending, error, locked, failed>>
tasks == <<check, reload, discard>>
vars == <<files, canvas, synced, flags, tasks, queue, armed>>

-----------------------------------------------------------------------------
\* adopt_initial_load: the canvas shows what was read; files that changed since
\* have an event.
Init ==
    /\ doc \in Trees /\ base = doc /\ session = doc /\ own = doc
    /\ disk \in Trees
    /\ events = {a \in Artifacts : disk[a] # doc[a]}
    /\ dirty = FALSE /\ conflict = FALSE /\ pending = FALSE
    /\ error = FALSE /\ locked = FALSE
    /\ preview = "none" /\ before = doc
    /\ gen = 0 /\ failed = NoGen
    /\ check = NoTask /\ reload = NoTask /\ discard = NoTask
    /\ queue = <<>> /\ armed = FALSE

-----------------------------------------------------------------------------
(***************************************************************************)
(* Helpers                                                                 *)
(***************************************************************************)

Idle == queue = <<>>                    \* ~has_active_writes
Saving == queue # <<>> /\ Head(queue).kind \in {"auto", "explicit"}
ChangingDestination == queue # <<>> /\ Head(queue).kind = "saveas"
SourceSaving == \E n \in 1 .. Len(queue) : queue[n].kind = "source"
InPreview == preview # "none"

\* advance_render_generation: a generation nobody holds.
Held == {gen, failed} \cup {queue[n].gen : n \in 1 .. Len(queue)}
        \cup (IF reload # NoTask /\ reload.phase = "merging" THEN {reload.gen} ELSE {})
NextGen == CHOOSE g \in Gens : g \notin Held

\* Fault: a document that replaces another one starts at zero again.
FaultyContinuedGen == 0

\* continue_generation_after: a document made by a load starts at zero and is lifted
\* past the one it replaces.
ContinuedGen == NextGen

\* sync_epoch += 1.  A task that finds the epoch moved uses nothing it has read:
\* a reload re-checks the disk, a check gives its paths back, a discard ends.
SupersededCheck ==
    IF check = NoTask THEN NoTask
    ELSE [paths |-> check.paths, fresh |-> FALSE, changed |-> check.changed]
SupersededReload ==
    IF reload = NoTask THEN NoTask ELSE [kind |-> reload.kind, phase |-> "stale"]
\* Fault: a discard does not notice.
FaultySupersededDiscard == discard

SupersededDiscard ==
    IF discard = NoTask THEN NoTask ELSE [by |-> discard.by, phase |-> "stale"]

\* autosave_allowed, of the item's state after the step that emits Edited.
AutosaveAllowed ==
    dirty /\ failed # gen /\ ~conflict /\ ~pending /\ ~InPreview /\ ~locked

\* The view's handler of FigItemEvent::Edited runs when the update is over.
Edited == armed' = AutosaveAllowed'

\* schedule_reload_with_full and schedule_merge_with_full: replace the reload
\* task, or defer to the end of the preview.  slot is what the task slot holds
\* otherwise.
Schedule(isDirty, inPreview, slot) ==
    /\ pending' = TRUE
    /\ reload' = IF inPreview THEN slot
                 ELSE [kind |-> IF isDirty THEN "merge" ELSE "reload", phase |-> "debounce"]

RaiseConflict == conflict' = TRUE /\ pending' = FALSE

\* schedule_resync.
Resync(isDirty, inPreview, slot) ==
    IF locked
    THEN RaiseConflict /\ reload' = slot
    ELSE Schedule(isDirty, inPreview, slot) /\ UNCHANGED conflict

\* load_changed_project_document: compare a fresh index with the old one and
\* splice the changed artifacts into a document, or load everything.
Unparsable(S) == \E a \in S : disk[a] = Broken
\* Fault: bytes that do not parse are taken for a document.
FaultyReadAll == [result |-> "changed", doc |-> disk, index |-> disk]

ReadAll ==
    IF Unparsable(Artifacts) THEN [result |-> "error"]
    ELSE [result |-> "changed", doc |-> disk, index |-> disk]
ReadChanged(index, into) ==
    LET changed == {a \in Artifacts : disk[a] # index[a]}
    IN IF changed \cap Shared # {} THEN ReadAll
       ELSE IF changed = {} THEN [result |-> "unchanged"]
       ELSE IF Unparsable(changed) THEN [result |-> "error"]
       ELSE [result |-> "changed", index |-> disk,
             doc |-> [a \in Artifacts |-> IF a \in changed THEN disk[a] ELSE into[a]]]
ReadProject(into) == IF session = NoIndex THEN ReadAll ELSE ReadChanged(session, into)

\* merge_docs: the side that changed an artifact wins; two different changes conflict.
MergeConflict(o, ours, theirs) ==
    \E a \in Artifacts : ours[a] # o[a] /\ theirs[a] # o[a] /\ ours[a] # theirs[a]

Merged(o, ours, theirs) ==
    [a \in Artifacts |-> IF ours[a] = o[a] THEN theirs[a] ELSE ours[a]]

-----------------------------------------------------------------------------
(***************************************************************************)
(* The user edits the canvas.                                              *)
(***************************************************************************)

\* apply_for_owner, a committing with_document, undo and redo.  The owner of an
\* active preview ends it by committing.
Apply(a, v) ==
    /\ ~locked /\ doc[a] # v
    /\ doc' = [doc EXCEPT ![a] = v] /\ gen' = NextGen
    /\ preview' = "none" /\ before' = doc'
    /\ dirty' = TRUE
    /\ IF InPreview /\ pending THEN Resync(TRUE, FALSE, reload)
                               ELSE UNCHANGED <<conflict, pending, reload>>
    /\ UNCHANGED <<files, synced, error, locked, failed, check, discard, queue>>
    /\ Edited

\* A preview frame (DocChange::ContentPreview): the item is dirty meanwhile.
Preview(a, v) ==
    /\ "preview" \in Features /\ ~locked /\ ~ChangingDestination /\ doc[a] # v
    /\ doc' = [doc EXCEPT ![a] = v] /\ gen' = NextGen
    /\ preview' = IF InPreview THEN preview ELSE IF dirty THEN "dirty" ELSE "clean"
    /\ before' = IF InPreview THEN before ELSE doc
    /\ dirty' = TRUE
    /\ UNCHANGED <<files, synced, conflict, pending, error, locked, failed, tasks, queue>>
    /\ IF dirty THEN UNCHANGED armed ELSE Edited

\* finish_content_preview: committed, or after the owner has put the document
\* back with one more frame.
\* Fault: a canceled preview leaves the deferred change waiting for nobody.
FaultyFinishPreview(committed) ==
    /\ InPreview
    /\ IF committed THEN UNCHANGED <<doc, gen, dirty>>
                    ELSE doc' = before /\ gen' = NextGen /\ dirty' = (preview = "dirty")
    /\ preview' = "none" /\ before' = doc'
    /\ UNCHANGED <<files, synced, conflict, pending, error, locked, failed, tasks, queue>>
    /\ Edited

FinishPreview(committed) ==
    /\ InPreview
    /\ IF committed THEN UNCHANGED <<doc, gen, dirty>>
                    ELSE doc' = before /\ gen' = NextGen /\ dirty' = (preview = "dirty")
    /\ preview' = "none" /\ before' = doc'
    /\ IF pending THEN Resync(dirty', FALSE, reload)
                  ELSE UNCHANGED <<conflict, pending, reload>>
    /\ UNCHANGED <<files, synced, error, locked, failed, check, discard, queue>>
    /\ Edited

-----------------------------------------------------------------------------
(***************************************************************************)
(* The files change, and the watcher looks at the events.                  *)
(***************************************************************************)

\* Another program writes a file.
ExternalEdit(a, v) ==
    /\ disk[a] # v
    /\ disk' = [disk EXCEPT ![a] = v]
    /\ events' = events \cup {a}
    /\ UNCHANGED <<canvas, synced, flags, tasks, queue, armed>>

\* schedule_watcher_check takes the paths whose events have been delivered and
\* compares the files with the item's own writes.  Never while a write is active.
TakePaths(paths) ==
    /\ check = NoTask /\ Idle
    /\ paths \subseteq events /\ paths # {}
    /\ check' = [paths |-> paths, fresh |-> TRUE,
                 changed |-> \E a \in paths : disk[a] # own[a]]
    /\ events' = events \ paths
    /\ UNCHANGED <<disk, canvas, synced, flags, reload, discard, queue, armed>>

\* Fault: the paths of a check that was overtaken are dropped.
FaultyFinishCheck ==
    /\ check # NoTask
    /\ check' = NoTask
    /\ IF check.fresh /\ Idle /\ check.changed
       THEN Resync(dirty, InPreview, reload)
       ELSE UNCHANGED <<conflict, pending, reload>>
    /\ UNCHANGED <<files, canvas, synced, dirty, error, locked, failed, discard, queue, armed>>

FinishCheck ==
    /\ check # NoTask
    /\ check' = NoTask
    /\ IF ~check.fresh \/ ~Idle
       THEN /\ events' = events \cup check.paths
            /\ UNCHANGED <<conflict, pending, reload>>
       ELSE /\ UNCHANGED events
            /\ IF check.changed THEN Resync(dirty, InPreview, reload)
                                ELSE UNCHANGED <<conflict, pending, reload>>
    /\ UNCHANGED <<disk, canvas, synced, dirty, error, locked, failed, discard, queue, armed>>

-----------------------------------------------------------------------------
(***************************************************************************)
(* The reload task: debounce, read, (capture the canvas and merge), adopt. *)
(***************************************************************************)

ItemUnchanged == UNCHANGED <<files, canvas, synced, dirty, locked, failed>>

\* The epoch moved under the task: re-dispatch.
ReloadStale ==
    /\ reload # NoTask /\ reload.phase = "stale"
    /\ Resync(dirty, InPreview, NoTask)
    /\ ItemUnchanged /\ UNCHANGED <<error, check, discard, queue, armed>>

\* A preview began: the change waits for its end.
ReloadDefer ==
    /\ reload # NoTask /\ reload.phase # "stale" /\ InPreview
    /\ reload.phase = "merging" => ~locked
    /\ pending' = TRUE /\ reload' = NoTask
    /\ ItemUnchanged /\ UNCHANGED <<conflict, error, check, discard, queue, armed>>

ReloadRead ==
    /\ reload # NoTask /\ reload.phase = "debounce" /\ ~InPreview
    /\ reload' = [kind |-> reload.kind, phase |-> "loaded",
                  read |-> ReadProject(IF reload.kind = "merge" THEN base ELSE doc)]
    /\ ItemUnchanged /\ UNCHANGED <<conflict, pending, error, check, discard, queue, armed>>

\* Fault: autosave is not told that nothing stands in its way any more.
FaultyReloadUnchanged ==
    /\ reload # NoTask /\ reload.phase = "loaded" /\ ~InPreview
    /\ reload.read.result = "unchanged"
    /\ pending' = FALSE /\ reload' = NoTask
    /\ ItemUnchanged /\ UNCHANGED <<error, conflict, check, discard, queue, armed>>

\* Nothing on disk differs from what the session knows.  A reload, not a merge,
\* takes an earlier read error back.
ReloadUnchanged ==
    /\ reload # NoTask /\ reload.phase = "loaded" /\ ~InPreview
    /\ reload.read.result = "unchanged"
    /\ IF reload.kind = "reload"
       THEN error' = FALSE /\ conflict' = (conflict /\ ~error)
       ELSE UNCHANGED <<error, conflict>>
    /\ pending' = FALSE /\ reload' = NoTask
    /\ ItemUnchanged /\ UNCHANGED <<check, discard, queue>>
    /\ Edited

ReloadError ==
    /\ reload # NoTask /\ reload.phase = "loaded" /\ ~InPreview
    /\ reload.read.result = "error"
    /\ error' = (error \/ reload.kind = "merge" \/ ~(dirty \/ locked))
    /\ RaiseConflict /\ reload' = NoTask
    /\ ItemUnchanged /\ UNCHANGED <<check, discard, queue, armed>>

\* apply_reloaded_document_with_session.  The epoch moves.
Adopt(read) ==
    /\ doc' = read.doc /\ base' = read.doc /\ session' = read.index
    /\ gen' = ContinuedGen /\ preview' = "none" /\ before' = read.doc
    /\ dirty' = FALSE /\ pending' = FALSE /\ conflict' = FALSE /\ error' = FALSE

\* Fault: the FNX buffer that became dirty during the load is not looked at.
FaultyFinishReload ==
    /\ reload # NoTask /\ reload.kind = "reload" /\ reload.phase = "loaded" /\ ~InPreview
    /\ reload.read.result = "changed"
    /\ IF dirty
       THEN /\ RaiseConflict
            /\ UNCHANGED <<canvas, base, session, dirty, error, check, discard>>
       ELSE /\ Adopt(reload.read)
            /\ check' = SupersededCheck /\ discard' = SupersededDiscard
    /\ reload' = NoTask
    /\ UNCHANGED <<files, own, locked, failed, queue, armed>>

FinishReload ==
    /\ reload # NoTask /\ reload.kind = "reload" /\ reload.phase = "loaded" /\ ~InPreview
    /\ reload.read.result = "changed"
    /\ IF dirty \/ locked
       THEN /\ RaiseConflict
            /\ UNCHANGED <<canvas, base, session, dirty, error, check, discard>>
       ELSE /\ Adopt(reload.read)
            /\ check' = SupersededCheck /\ discard' = SupersededDiscard
    /\ reload' = NoTask
    /\ UNCHANGED <<files, own, locked, failed, queue, armed>>

MergeCapture ==
    /\ reload # NoTask /\ reload.kind = "merge" /\ reload.phase = "loaded" /\ ~InPreview
    /\ reload.read.result = "changed"
    /\ reload' = [kind |-> "merge", phase |-> "merging", read |-> reload.read,
                  ours |-> doc, gen |-> gen]
    /\ ItemUnchanged /\ UNCHANGED <<conflict, pending, error, check, discard, queue, armed>>

Merging == reload # NoTask /\ reload.phase = "merging"

\* The merge is not adopted: an FNX buffer became dirty, the changes overlap, or what
\* they make together does not load.
MergeRefused ==
    /\ Merging
    /\ locked \/ (~InPreview /\ dirty /\ reload.gen = gen
                  /\ (\/ MergeConflict(base, reload.ours, reload.read.doc)
                      \/ "fault" \in Features))
    /\ RaiseConflict /\ reload' = NoTask
    /\ ItemUnchanged /\ UNCHANGED <<error, check, discard, queue, armed>>

\* The edits were saved or discarded mid-merge: a plain reload.  A safeguard: what
\* makes the canvas clean also moves the epoch, so the task is stale by then.
MergeClean ==
    /\ Merging /\ ~locked /\ ~InPreview /\ ~dirty
    /\ Adopt(reload.read)
    /\ check' = SupersededCheck /\ discard' = SupersededDiscard /\ reload' = NoTask
    /\ UNCHANGED <<files, own, locked, failed, queue, armed>>

\* The user kept editing: merge again.
MergeAgain ==
    /\ Merging /\ ~locked /\ ~InPreview /\ dirty /\ reload.gen # gen
    /\ Schedule(TRUE, FALSE, NoTask)
    /\ ItemUnchanged /\ UNCHANGED <<conflict, error, check, discard, queue, armed>>

\* Fault: a merge of an older canvas is adopted.
FaultyMergeAdopt ==
    /\ Merging /\ ~locked /\ ~InPreview /\ dirty
    /\ ~MergeConflict(base, reload.ours, reload.read.doc)
    /\ doc' = Merged(base, reload.ours, reload.read.doc) /\ before' = doc'
    /\ gen' = ContinuedGen
    /\ base' = reload.read.doc /\ session' = reload.read.index
    /\ pending' = FALSE /\ conflict' = FALSE /\ error' = FALSE
    /\ check' = SupersededCheck /\ discard' = SupersededDiscard /\ reload' = NoTask
    /\ UNCHANGED <<files, preview, own, dirty, locked, failed, queue>>
    /\ Edited

\* adopt_merged_document: the canvas stays dirty.  The epoch moves.
MergeAdopt ==
    /\ Merging /\ ~locked /\ ~InPreview /\ dirty /\ reload.gen = gen
    /\ ~MergeConflict(base, reload.ours, reload.read.doc)
    /\ doc' = Merged(base, reload.ours, reload.read.doc) /\ before' = doc'
    /\ gen' = ContinuedGen
    /\ base' = reload.read.doc /\ session' = reload.read.index
    /\ pending' = FALSE /\ conflict' = FALSE /\ error' = FALSE
    /\ check' = SupersededCheck /\ discard' = SupersededDiscard /\ reload' = NoTask
    /\ UNCHANGED <<files, preview, own, dirty, locked, failed, queue>>
    /\ Edited

FinishMerge == IF dirty THEN MergeAdopt ELSE MergeClean

-----------------------------------------------------------------------------
(***************************************************************************)
(* reload_from_disk: throw the canvas edits away.  The source editor uses  *)
(* it to show a source it has saved.                                       *)
(***************************************************************************)

\* Bound: one discard at a time.
StartDiscard(by) ==
    /\ discard = NoTask /\ ~InPreview
    /\ discard' = [by |-> by, phase |-> "started"]
    /\ reload' = NoTask

Discard ==
    /\ "discard" \in Features /\ ~locked /\ (dirty \/ conflict)
    /\ StartDiscard("user")
    /\ UNCHANGED <<files, canvas, synced, flags, check, queue, armed>>

DiscardRead ==
    /\ discard # NoTask /\ discard.phase = "started"
    /\ discard' = [by |-> discard.by, phase |-> "loaded", read |-> ReadAll]
    /\ UNCHANGED <<files, canvas, synced, flags, check, reload, queue, armed>>

\* A save or an adoption superseded the discard, or a preview is in the way:
\* nothing is adopted.
EndDiscard ==
    \/ /\ discard.phase = "stale" \/ (discard.phase = "loaded" /\ InPreview
                                      /\ discard.read.result = "changed")
       /\ UNCHANGED <<canvas, base, session, dirty, conflict, pending, error, check, reload>>
    \/ /\ discard.phase = "loaded" /\ discard.read.result = "error"
       /\ RaiseConflict /\ error' = TRUE
       /\ UNCHANGED <<canvas, base, session, dirty, check, reload>>
    \/ /\ discard.phase = "loaded" /\ discard.read.result = "changed" /\ ~InPreview
       /\ Adopt(discard.read)
       /\ check' = SupersededCheck /\ reload' = SupersededReload

FinishDiscard ==
    /\ discard # NoTask /\ discard.by = "user"
    /\ EndDiscard
    /\ discard' = NoTask
    /\ UNCHANGED <<files, own, locked, failed, queue, armed>>

-----------------------------------------------------------------------------
(***************************************************************************)
(* Saving the canvas (save_inner).                                         *)
(***************************************************************************)

\* The snapshot is captured and its place in the queue reserved.
Save(kind) ==
    /\ Len(queue) < MaxQueue
    /\ ~ChangingDestination /\ ~InPreview /\ ~pending /\ ~locked
    /\ kind = "auto" => failed # gen
    /\ queue' = Append(queue, [kind |-> kind, phase |-> "queued", gen |-> gen, doc |-> doc])
    /\ reload' = NoTask
    /\ UNCHANGED <<files, canvas, synced, flags, check, discard>>

SaveExplicit ==
    /\ "explicit" \in Features /\ dirty
    /\ Save("explicit")
    /\ UNCHANGED armed

\* autosave_now: the debounce elapsed.
Autosave ==
    /\ armed /\ armed' = FALSE
    /\ IF AutosaveAllowed /\ ~ChangingDestination
       THEN Save("auto")
       ELSE UNCHANGED <<files, canvas, synced, flags, tasks, queue>>

Task == Head(queue)
Become(task) == queue' = <<task>> \o Tail(queue)
Release == queue' = Tail(queue)          \* the lease is dropped

\* The turn has come, but the snapshot must not or need not be written.
SaveDropped ==
    /\ Saving /\ Task.phase = "queued"
    /\ locked \/ (Task.kind = "auto" /\ failed = Task.gen)
    /\ Release
    /\ UNCHANGED <<files, canvas, synced, flags, tasks, armed>>

\* The write takes the session with it.
PrepareSave ==
    /\ Saving /\ Task.phase = "queued"
    /\ ~locked /\ ~(Task.kind = "auto" /\ failed = Task.gen)
    /\ Become([kind |-> Task.kind, gen |-> Task.gen, doc |-> Task.doc,
               phase |-> "prepared", index |-> session, base |-> base])
    /\ session' = NoIndex
    /\ UNCHANGED <<files, canvas, base, own, flags, tasks, armed>>

\* The index whose hashes the writer checks: the session's, or one read now.
WriteIndex == IF Task.index = NoIndex THEN disk ELSE Task.index
ChangedArtifacts == {a \in Artifacts : Task.doc[a] # Task.base[a]}

\* try_save_document_artifacts writes the changed artifacts; a change of shared
\* files needs the whole-project writer.
WriteScope ==
    IF \A a \in Shared : Task.doc[a] = Task.base[a] /\ WriteIndex[a] = Task.doc[a]
    THEN ChangedArtifacts ELSE Artifacts

CanWrite ==
    /\ Task.index = NoIndex => ~Unparsable(Shared)
    /\ disk = WriteIndex
    /\ ~Unparsable(ChangedArtifacts)

WriteSave ==
    /\ Saving /\ Task.phase = "prepared" /\ CanWrite
    /\ disk' = [a \in Artifacts |-> IF a \in WriteScope THEN Task.doc[a] ELSE disk[a]]
    /\ events' = events \cup {a \in Artifacts : disk'[a] # disk[a]}
    /\ Become([kind |-> Task.kind, gen |-> Task.gen, doc |-> Task.doc,
               phase |-> "written", index |-> WriteIndex, wrote |-> disk'])
    /\ UNCHANGED <<canvas, synced, flags, tasks, armed>>

\* A precondition fails, or the file system does.
WriteFails ==
    /\ Saving /\ Task.phase = "prepared"
    /\ ~CanWrite \/ "fault" \in Features
    /\ Become([kind |-> Task.kind, gen |-> Task.gen, doc |-> Task.doc,
               phase |-> "failed",
               index |-> IF Task.index = NoIndex /\ Unparsable(Shared) THEN NoIndex
                         ELSE WriteIndex])
    /\ UNCHANGED <<files, canvas, synced, flags, tasks, armed>>

\* Fault: a finished save makes the canvas clean whatever happened meanwhile.
FaultyFinishSave ==
    /\ Saving /\ Task.phase = "written" /\ disk = Task.wrote
    /\ session' = Task.wrote
    /\ own' = [a \in Artifacts |-> IF Task.wrote[a] # Task.index[a] THEN Task.wrote[a] ELSE own[a]]
    /\ base' = Task.doc
    /\ failed' = NoGen
    /\ dirty' = FALSE /\ preview' = "none" /\ conflict' = FALSE
    /\ check' = SupersededCheck /\ reload' = SupersededReload /\ discard' = SupersededDiscard
    /\ Release
    /\ UNCHANGED <<files, doc, gen, before, pending, error, locked, armed>>

\* The written files are still there when the session accepts them.
FinishSave ==
    /\ Saving /\ Task.phase = "written" /\ disk = Task.wrote
    /\ session' = Task.wrote
    /\ own' = [a \in Artifacts |-> IF Task.wrote[a] # Task.index[a] THEN Task.wrote[a] ELSE own[a]]
    /\ base' = Task.doc
    /\ failed' = NoGen
    /\ dirty' = (gen # Task.gen)
    /\ IF dirty' THEN UNCHANGED preview ELSE preview' = "none"
    /\ conflict' = FALSE
    /\ check' = SupersededCheck /\ reload' = SupersededReload /\ discard' = SupersededDiscard
    /\ Release
    /\ UNCHANGED <<files, doc, gen, before, pending, error, locked>>
    /\ IF dirty' THEN Edited ELSE UNCHANGED armed

\* Fault: the session that made the failed write is dropped.
ForgetfulFinishFailedSave ==
    /\ Saving
    /\ \/ Task.phase = "failed"
       \/ Task.phase = "written" /\ (disk # Task.wrote \/ "fault" \in Features)
    /\ session' = disk
    /\ failed' = IF Task.kind = "auto" THEN Task.gen ELSE failed
    /\ Resync(dirty, InPreview, reload)
    /\ Release
    /\ UNCHANGED <<files, canvas, base, own, dirty, error, locked, check, discard, armed>>

\* The failed write, DiskChangedAgain, or a failure after the files have landed: the
\* index is not advanced, and the item does not know the writes for its own.
FinishFailedSave ==
    /\ Saving
    /\ \/ Task.phase = "failed"
       \/ Task.phase = "written" /\ (disk # Task.wrote \/ "fault" \in Features)
    /\ session' = Task.index
    /\ failed' = IF Task.kind = "auto" THEN Task.gen ELSE failed
    /\ Resync(dirty, InPreview, reload)
    /\ Release
    /\ UNCHANGED <<files, canvas, base, own, dirty, error, locked, check, discard, armed>>

-----------------------------------------------------------------------------
(***************************************************************************)
(* Save As: the copy becomes the project.                                  *)
(***************************************************************************)

SaveAs ==
    /\ "saveas" \in Features
    /\ Idle /\ ~locked /\ ~InPreview /\ ~pending
    /\ queue' = <<[kind |-> "saveas", phase |-> "queued", gen |-> gen, doc |-> doc]>>
    /\ check' = SupersededCheck /\ reload' = NoTask /\ discard' = SupersededDiscard
    /\ UNCHANGED <<files, canvas, synced, flags, armed>>

SaveAsRefused ==
    /\ "saveas" \in Features
    /\ ~Idle \/ locked \/ InPreview \/ pending
    /\ dirty
    /\ UNCHANGED <<files, canvas, synced, flags, tasks, queue>>
    /\ Edited

FinishSaveAs ==
    /\ ChangingDestination
    /\ disk' = Task.doc /\ base' = Task.doc /\ session' = NoIndex
    /\ own' = [a \in Artifacts |-> Untracked]
    /\ failed' = NoGen /\ conflict' = FALSE
    /\ dirty' = (gen # Task.gen) /\ preview' = "none" /\ before' = doc
    /\ check' = SupersededCheck /\ reload' = SupersededReload /\ discard' = SupersededDiscard
    /\ Release
    /\ UNCHANGED <<events, doc, gen, pending, error, locked>>
    /\ IF dirty' THEN Edited ELSE UNCHANGED armed

\* Fault: the views' autosave timers stay spent.
FaultySaveAsFails ==
    /\ ChangingDestination
    /\ Release
    /\ UNCHANGED <<files, canvas, synced, flags, tasks, armed>>

SaveAsFails ==
    /\ ChangingDestination
    /\ Release
    /\ UNCHANGED <<files, canvas, synced, flags, tasks>>
    /\ IF dirty THEN Edited ELSE UNCHANGED armed

-----------------------------------------------------------------------------
(***************************************************************************)
(* The source editor (code_workspace.rs): an FNX buffer is edited while    *)
(* the canvas is clean, and saved through the same queue.                  *)
(***************************************************************************)

SourceEdit ==
    /\ "source" \in Features /\ ~dirty /\ ~locked /\ ~SourceSaving
    /\ locked' = TRUE
    /\ UNCHANGED <<files, canvas, synced, dirty, conflict, pending, error, failed, tasks, queue, armed>>

\* discard_source_edit: the buffer goes back to the file.
SourceRevert ==
    /\ locked /\ ~SourceSaving
    /\ locked' = FALSE
    /\ UNCHANGED <<files, canvas, synced, dirty, conflict, pending, error, failed, tasks, queue, armed>>

\* save_source_edit.  A buffer whose file changed under it is refused; one that
\* was loaded since is not, so the file may differ from the canvas either way.
SaveSource(a, v) ==
    /\ locked /\ ~dirty /\ ~SourceSaving /\ ~ChangingDestination /\ Len(queue) < MaxQueue
    /\ queue' = Append(queue, [kind |-> "source", phase |-> "queued", gen |-> gen,
                               at |-> a, value |-> v])
    /\ reload' = NoTask
    /\ UNCHANGED <<files, canvas, synced, flags, check, discard, armed>>

SourceTurn == queue # <<>> /\ Task.kind = "source"
SourceTask(phase) == [kind |-> "source", phase |-> phase, gen |-> Task.gen,
                      at |-> Task.at, value |-> Task.value]

\* apply_project_source_edit validates the source in the project as it is now.
WriteSource ==
    /\ SourceTurn /\ Task.phase = "queued" /\ ~Unparsable(Artifacts \ {Task.at})
    /\ disk' = [disk EXCEPT ![Task.at] = Task.value]
    /\ events' = IF disk' = disk THEN events ELSE events \cup {Task.at}
    /\ own' = [own EXCEPT ![Task.at] = Task.value]
    /\ Become(SourceTask("written"))
    /\ UNCHANGED <<canvas, base, session, flags, tasks, armed>>

\* The source does not validate, or the buffer cannot be refreshed: the edit stays
\* in the buffer and the lease is dropped.
SourceFails ==
    /\ SourceTurn
    /\ Task.phase = "queued" \/ (Task.phase = "written" /\ "fault" \in Features)
    /\ Release
    /\ UNCHANGED <<files, canvas, synced, flags, tasks, armed>>

\* The canvas shows the saved source; the lease is held until it does.  The lock
\* keeps previews out.
AdoptSource ==
    /\ SourceTurn /\ Task.phase = "written"
    /\ Become(SourceTask("adopting"))
    /\ StartDiscard("source")
    /\ UNCHANGED <<files, canvas, synced, flags, check, armed>>

\* Adopted or not, the lock stays when another buffer is dirty.
FinishSource(more) ==
    /\ SourceTurn /\ Task.phase = "adopting" /\ discard # NoTask /\ discard.by = "source"
    /\ EndDiscard
    /\ discard' = NoTask
    /\ locked' = more
    /\ Release
    /\ UNCHANGED <<files, own, failed, armed>>

-----------------------------------------------------------------------------
User ==
    \/ \E a \in Artifacts, v \in Values :
         Apply(a, v) \/ Preview(a, v) \/ SaveSource(a, v)
    \/ \E committed \in BOOLEAN : FinishPreview(committed)
    \/ Discard \/ SaveExplicit \/ SaveAs \/ SaveAsRefused \/ SourceEdit \/ SourceRevert

\* In the instances with "alone" only the item itself writes after the load.
External ==
    /\ "alone" \notin Features
    /\ \E a \in Artifacts, v \in Values \cup (IF "broken" \in Features THEN {Broken} ELSE {}) :
         ExternalEdit(a, v)

Watcher == (\E paths \in SUBSET events : TakePaths(paths)) \/ FinishCheck

Reload ==
    \/ ReloadStale \/ ReloadDefer \/ ReloadRead \/ ReloadUnchanged \/ ReloadError
    \/ FinishReload \/ MergeCapture \/ MergeRefused \/ MergeAgain \/ FinishMerge

Discarding == DiscardRead \/ FinishDiscard

Writer ==
    \/ SaveDropped \/ PrepareSave \/ WriteSave \/ WriteFails \/ FinishSave \/ FinishFailedSave
    \/ FinishSaveAs \/ SaveAsFails
    \/ WriteSource \/ SourceFails \/ AdoptSource \/ \E more \in BOOLEAN : FinishSource(more)

Next == User \/ External \/ Watcher \/ Reload \/ Discarding \/ Writer \/ Autosave

Spec == Init /\ [][Next]_vars

-----------------------------------------------------------------------------
(***************************************************************************)
(* Properties                                                              *)
(***************************************************************************)

\* Every variable has its type.
TypeOK ==
    /\ disk \in Disks /\ doc \in Trees /\ base \in Trees /\ before \in Trees
    /\ session \in Indexes /\ own \in [Artifacts -> Values \cup {Untracked}]
    /\ dirty \in BOOLEAN /\ conflict \in BOOLEAN /\ pending \in BOOLEAN
    /\ error \in BOOLEAN /\ locked \in BOOLEAN /\ armed \in BOOLEAN
    /\ preview \in {"none", "clean", "dirty"}
    /\ gen \in Gens /\ failed \in Gens \cup {NoGen}
    /\ events \subseteq Artifacts
    /\ check \in Checks \cup {NoTask}
    /\ reload \in ReloadTasks \cup {NoTask}
    /\ discard \in DiscardTasks \cup {NoTask}
    /\ queue \in Seq(Saves) /\ Len(queue) <= MaxQueue

\* A canvas that is not dirty shows what the item takes to be on disk, however
\* edits, previews, reloads and a save that captured an older canvas interleave
\* (dirty is recomputed by save_inner and restored by finish_content_preview).
CleanShowsBase == ~dirty => doc = base

\* A render generation stands for a document: a snapshot whose generation is still
\* the canvas's is the canvas (what save_inner and the merge compare afterwards).
GenerationNamesDocument ==
    /\ \A n \in 1 .. Len(queue) :
         queue[n].kind # "source" /\ queue[n].gen = gen => queue[n].doc = doc
    /\ Merging /\ reload.gen = gen => reload.ours = doc

\* The item knows that the file may differ from the canvas: its event is on the
\* way, a task will look at it, or the user has been told.
Noticed(a) ==
    \/ a \in events \/ (check # NoTask /\ a \in check.paths)
    \/ reload # NoTask \/ discard # NoTask \/ conflict \/ pending \/ ~Idle

\* A foreign change is never lost between the watcher, the saves and the reloads
\* (schedule_watcher_check, schedule_resync), unless the item's tables of its own
\* writes or of its session vouch for the bytes.
DivergenceNoticed ==
    \A a \in Artifacts :
        disk[a] = base[a] \/ Noticed(a)
        \/ disk[a] = own[a] \/ (session # NoIndex /\ disk[a] = session[a])

\* "An event is an echo only when its bytes exactly match the writer's committed
\* digest" and not because the item once wrote them (own_write_hashes).
EchoIsReconciled == \A a \in Artifacts : disk[a] = base[a] \/ Noticed(a)

\* While saving is refused because "external changes are still being reconciled",
\* somebody reconciles them (external_change_pending).
PendingHasTask ==
    pending => reload # NoTask \/ InPreview \/ discard # NoTask \/ ~Idle

\* Unsaved edits that may be saved have an autosave coming (schedule_autosave):
\* whatever stood in the way has armed the timer again when it ended.
AutosaveNotForgotten == AutosaveAllowed => armed \/ ~Idle

\* A clean canvas has no save of other content waiting behind it: edits that were
\* discarded stay discarded (reload_from_disk).
DiscardIsFinal ==
    ~dirty => \A n \in 1 .. Len(queue) : queue[n].kind \in Kinds => queue[n].gen = gen

\* What a reload or a merge brings in never replaces an unsaved edit
\* (schedule_merge_with_full, schedule_reload_with_full).
AdoptionKeepsEdits ==
    [][Reload /\ dirty => \A a \in Artifacts : doc[a] # base[a] => doc'[a] = doc[a]]_vars

\* A delayed save replaces only content the canvas had reconciled with when the
\* save took its turn (the preconditions of write_project_artifacts_checked).
SaveReplacesReconciled ==
    [][WriteSave => \A a \in Artifacts : disk'[a] # disk[a] => disk[a] = Task.base[a]]_vars

\* While an FNX buffer has unsaved edits the canvas under it stands still, whatever
\* reloads and merges were on the way when the first character was typed
\* (source_edit_locked); only a discard the user asked for goes on.
LockedCanvasWaits == [][Reload /\ locked => doc' = doc]_vars

\* When nobody else writes, a snapshot that was read before a save landed is never
\* adopted after it: the content just saved is not reverted (sync_epoch, and the
\* cancelled reload_task of save_inner).
SaveNotReverted ==
    [][Reload \/ Discarding =>
         \A a \in Artifacts : disk[a] = base[a] => base'[a] = disk[a]]_vars

\* Why no foreign change is lost, for any number of queued saves: what changed since a
\* read or a check has an event of its own; a task that read before it is replaced when
\* the event is looked at; a running save settles with the disk when it ends, and then
\* asks for the reload it has cancelled; a change deferred to the end of a preview is
\* pending until then.
HasEvent(a) == a \in events \/ (check # NoTask /\ a \in check.paths)
Vouched(a) == HasEvent(a) \/ disk[a] = own[a]
Known(a) == disk[a] = base[a] \/ Vouched(a) \/ (session # NoIndex /\ disk[a] = session[a])
Writing == queue # <<>> /\ Task.phase # "queued"
DiskKnown == \A a \in Artifacts : Known(a) \/ conflict \/ pending \/ Writing
CheckVouched ==
    check # NoTask /\ check.fresh /\ ~check.changed =>
        \A a \in check.paths : disk[a] = own[a] \/ a \in events
ReadKnown ==
    reload # NoTask /\ reload.phase \in {"loaded", "merging"} =>
        \/ InPreview /\ pending
        \/ \A a \in Artifacts :
            /\ reload.read.result = "unchanged" => Known(a) \/ Writing
            /\ reload.read.result = "changed" => disk[a] = reload.read.index[a] \/ Vouched(a)
PendingIsReload == (reload # NoTask => pending) /\ (pending => reload # NoTask \/ InPreview)
NothingLostInv == DiskKnown /\ CheckVouched /\ ReadKnown /\ PendingIsReload

-----------------------------------------------------------------------------
(***************************************************************************)
(* Liveness: the executor runs the tasks it was given and timers expire;   *)
(* people stop editing at some time.                                       *)
(***************************************************************************)
FairSpec ==
    /\ Spec
    /\ WF_vars(Watcher) /\ WF_vars(Reload) /\ WF_vars(Discarding)
    /\ WF_vars(Writer) /\ WF_vars(Autosave)
    /\ <>[][~User /\ ~External]_vars

\* When everybody has stopped, so does the item: unsaved edits are on disk unless the
\* user was told of a conflict or a failed save, and the canvas shows the files (or they
\* are bytes the item once wrote itself).  Only a preview that its owner has left open
\* keeps a reload pending and edits unsaved (schedule_reload_with_full, autosave_now).
Converges ==
    <>[](/\ pending => InPreview
         /\ dirty => InPreview \/ conflict \/ failed = gen
         /\ doc # disk => dirty \/ conflict
              \/ \A a \in Artifacts : disk[a] \in {doc[a], own[a]})

\* "External edits conflict with unsaved canvas edits - save or reload to resolve":
\* an explicit save that is asked for in a conflict ends the conflict (save_inner).
SaveResolvesConflict ==
    (conflict /\ \E n \in 1 .. Len(queue) : queue[n].kind = "explicit") ~> ~conflict
=============================================================================
