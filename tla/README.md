# TLA+ models of the Fanta editor's document core

Fanta is a native design editor whose documents are folders of source files
(FNX pages and components, JSON headers and sidecars, content-addressed
assets). The files are authoritative (`docs/decisions/0009`): the in-memory
document is a cache for editing, and people, agents and Git edit the same
files while the editor is running. This directory models the parts in which
that can go wrong: how a save changes the folder, how the open design and its
files are kept in step while both change, how an open artifact follows its
files, and how the edits of a design are undone, journaled and reported.

All paths below are relative to the repository.

## Inventory

| Component | State | Operations | Interacts with |
| --- | --- | --- | --- |
| Project writer (`crates/fanta-format/src/project/write.rs`) | the folder, the `.fanta-transaction` journal, a per-process lock | recover, read under the lock, save unchecked / checked / incrementally | called by every save and open; shares the folder with external programs |
| Artifact session (`.../project/session/artifact.rs`, `guard.rs`, `types.rs`) | canvas scene, text buffer, merge ancestor, last observed file hash, conflict | canvas and text edits, save, merge, resolve | owned by the workspace session |
| Workspace session (`.../session/workspace.rs`, `sync.rs`) | index of artifact hashes, open sessions, shared project state | open, close, save, save all, file events, reconcile | routes file events to artifact sessions; adopts the canvas document before a save |
| Three-way merge (`.../project/merge.rs`) | none | `merge_artifact`, `merge_docs` | used by artifact sessions and by the design item |
| History (`crates/fanta-doc/src/history.rs`) | undo and redo stacks, open transaction, edit generation | begin, commit, roll back, abort, apply, derive, undo, redo | emits journal events |
| Journal and replay (`crates/fanta-doc/src/journal.rs`, `replay.rs`) | recorded steps | record with amendments, replay | follows the history |
| Headless document (`crates/fanta-headless/src/document.rs`, `layout.rs`, `apply.rs`) | document, layout baseline, journal | transactions, design-op batches, settle layout, undo, redo | drains the journal events |
| Design API (`crates/fanta-api`) | pending undo step, event subscriptions | edits, undo steps, undo, redo, templates, polling | drives the headless document |
| Design item (`crates/fig_viewer/src/document.rs`; autosave timer in `view.rs`, source editor in `code_workspace.rs`) | live document, merge base, hash index of the session, own writes, queue of saves, watcher check, reload task, flags | edit, preview, autosave, save, Save As, watch, reload, merge, discard, save a source | workspace session, writer, watcher |
| Live design server (`fig_viewer/src/live_mcp.rs`) | requests, revisions | batches, reads | design item |
| Headless save and engine (`fanta-headless/src/save.rs`, `fanta-engine`) | none | one-shot save | writer, from another process |
| Scene graph and operations (`crates/fanta-doc`) | tree of nodes | apply, revert | history |
| FNX language, renderers, tools, interop, exports, the editor shell | | | not modelled, see below |

What is hard in these components, and what makes them correct:

- *Writer*: a save of several files can be cut off by a crash or an I/O error
  between any two renames, and another program may write any file at any
  moment. Saves must be atomic, readers must never see half of one, no
  external edit may be lost, and a crash alone must not leave a project that
  cannot be opened.
- *Design item*: the foreground thread is serial, but every operation on the
  files is a task that captures state, waits, and applies its result later: a
  save behind other saves, a check of file events, a debounced reload, a merge,
  a discard, a source save. They overtake each other in every order. No unsaved
  edit may be replaced by a reload, no foreign change replaced by a save or
  forgotten, no saved content reverted, and when everybody stops the canvas and
  the files must agree or the user must have been told.
- *Artifact session*: two working copies (canvas and text) of which one is
  primary, and a file that moves underneath both. No change of the user and no
  change on disk may be lost without a conflict.
- *History and its followers*: failing edits, rollback to a savepoint, undo and
  redo around a pending step, geometry that joins a step after the fact. Undo
  must restore whole states, the journals must reproduce the live document and
  events must describe what changed.

The hazards are listed one by one, with their source lines and the properties
that cover them, in `PROJECT.json`.

## Modules

| Module | Models |
| --- | --- |
| `ProjectTransaction` | the project writer, its journal and recovery, crashes and external edits |
| `AtomicProject` | what the writer promises: a tree that a save changes in one step |
| `ProjectTransaction_proofs` | the theorems about the writer, among them that it implements `AtomicProject` |
| `DesignItem` | the design item: canvas, merge base, watcher, reloads, merges, discards, the queue of saves, Save As, the source editor |
| `DesignItemSeen` | the same with a memory of every content the canvas has reconciled with |
| `DesignItem_proofs`, `DesignItemQueue_proofs`, `DesignItemSeen_proofs` | the theorems about it, all for any length of the queue: types, generations and adoptions; what is noticed, saved and remembered; what a save replaces |
| `History` | the undo/redo history as operators on a document value |
| `DesignSession` | a design API session over the headless document over `History`, with both journals and an event subscriber |
| `History_proofs` | what applying, reverting and stacking operations does to a scene |
| `DesignSession_proofs`, `DesignSessionFollowers_proofs` | the theorems about the session's timeline and headless journal; about the recorded session and the subscriber |
| `ArtifactSession` | one open artifact with its working copies, merge, conflicts and workspace index |
| `ArtifactSession_proofs` | the theorems about it |
| `MCProjectTransaction`, `MCDesignItem`, `MCDesignItemSeen`, `MCDesignSession`, `MCArtifactSession` | instances for TLC and their symmetries |

Operators whose names begin with `Faulty` or `Forgetful` are deliberately wrong variants of the
definition they precede. Nothing uses them; each one, put in the place of that
definition, violates a property, which shows that the property can fail.

### ProjectTransaction

The folder is a function `disk` from the managed paths `1 .. N`, in the order
of the writer's sorted maps, to contents or `Missing`; a content stands for the
bytes and their digest. The journal directory is `journal` with the plan
(`jold`, `jnew`) and the staged data that are left (`staged`). Every operation
holds the project's mutex from beginning to end, so one program counter `pc`
and one set of locals (`target`, `expected`, `pold`, `i`) describe the operation
in progress. A save's arguments are chosen when the recovery at its beginning is
through, because nothing looks at them earlier.

| Actions | Code |
| --- | --- |
| `StartOpen`, `ReadFile`, `ReadDone` | `with_project_read_lock` and the readers of `read.rs` |
| `StartSave`, `TakeArguments` | `write_project_tree_cached_impl` without (`unchecked`) and with (`checked`) `expected_disk`; `write_project_artifacts_checked` (`artifacts`) |
| `RecoverNoJournal`, `RecoverPlanless`, `RecoverJournal`, `Write*`, `Rename`, `Remove*`, `Clear*` | `recover_project_transaction_locked`, one action per file-system step; the hash check of a file and the rename that follows are two steps |
| `Validate*`, `PlanWrite`, `Scan*` | `validate_expected_disk_content`, `plan_write`, `stale_managed_files` in the order of each entry point |
| `Single*` | `apply_single_change`. What follows its rename may fail as well, or the process die: the file has changed, and the caller does not know |
| `Publish` | `apply_project_transaction`: everything before the rename of the staging directory is invisible, so the rename is the step |
| `Crash`, `IoFail` | the process dies, or a call fails, at any step |
| `Edit` | another program changes any file, at any moment |

Three ghost variables state the properties: `shadow` is the tree that results
from all saves and edits in the order in which they took effect (a save takes
effect when its single file is renamed or its journal is published); `touched`
holds the planned files edited since the plan read them; `raced` holds edits
the writer cannot distinguish from its own work, because they fall between the
hash check and the rename or restore exactly the bytes the journal replaces.
`docs/fanta/capabilities.md:59-60` concedes the first kind.

### AtomicProject, and how the writer implements it

`AtomicProject` has no journal directory, no staged files, no plan and no loop:
only the `tree`, the operation in progress, what an open has read (`view`) and
the last change of several files while it is unsettled (`redo`). A save changes
the tree in one step, and may then still report a failure; an open reads the tree and nothing else, and only while
nothing is unsettled; failures and crashes change nothing. `Redo` states what is
left visible of the journal: until it is removed it may win a race against
another program's edit of one of its own files. `Fail("wedged")` needs an
unsettled change.

`ImplementsAtomicProject` maps `tree` to `shadow`, `redo` to the journal's plan
`jnew`, `phase` to the operation of the program counter (`PhaseSeen`) and `view`
to the files before the loop index of an open (`ViewSeen`). Planning, validating,
staging, replaying, retrying after a crash and clearing the directory are
stutters; publishing the journal is `SaveFiles`; removing its plan is `Settle`.
That is why `DesignItem` may write the project in one step.

### DesignItem

One open project. An artifact stands for a page, a component or a shared file: it
is what an event names, what a save checks and what the merge takes from one
side. `disk` gives each its content, or `Broken` for bytes that do not parse.
`doc` is the canvas, `base` the merge base, `session` the disk content that the
hash index of the workspace session describes (or `NoIndex` while a save has
taken the session), `own` the content of the item's own last writes. The tasks
(`check`, `reload`, `discard` and the `queue` of saves) are records of what each
has captured and how far it is.

Two counters of the code are abstracted to what is compared. The render
generation is only tested for equality, so a new one is any that nobody holds
(`NextGen`); a document that replaces another one would start at zero again, and
`ContinuedGen` is the generation `continue_generation_after` gives it instead. `sync_epoch` is only compared with the value a task captured, so a
step that advances it turns the running tasks stale (`Superseded*`).

| Actions | Code |
| --- | --- |
| `Apply`, `Preview`, `FinishPreview` | `apply_for_owner`, `with_document`, `finish_content_preview`, undo and redo |
| `ExternalEdit`, `TakePaths`, `FinishCheck` | another program; `schedule_watcher_check` before and after its background comparison. Events may be delivered late, together, or while a save is running |
| `ReloadRead`, `ReloadUnchanged`, `ReloadError`, `FinishReload`, `ReloadStale`, `ReloadDefer` | `schedule_reload_with_full`, one action per update of the item; the last two are common to both kinds of task |
| `MergeCapture`, `MergeRefused`, `MergeAgain`, `FinishMerge` | `schedule_merge_with_full`, `adopt_merged_document`. The branch of `FinishMerge` for a canvas that became clean is never taken: what makes the canvas clean makes the task stale |
| `Discard`, `DiscardRead`, `FinishDiscard` | `reload_from_disk` |
| `SaveExplicit`, `Autosave`, `SaveDropped`, `PrepareSave`, `WriteSave`, `WriteFails`, `FinishSave`, `FinishFailedSave` | `save_inner`: capture, wait for the turn, take the session, write, apply the report; `autosave_now` |
| `SaveAs`, `SaveAsRefused`, `FinishSaveAs`, `SaveAsFails` | `save_as` |
| `SourceEdit`, `SourceRevert`, `SaveSource`, `WriteSource`, `SourceFails`, `AdoptSource`, `FinishSource` | `code_workspace.rs` and `apply_source_edit`; the lease is held until the canvas has adopted the source |

`Features` selects the operations an instance uses. `"fault"` lets a write fail
without a reason in the model, before anything has changed or after the files have
landed (what follows the write in `save_inner` may fail too), and lets a merge that
overlaps nowhere fail because its result does not load; `"broken"` lets other programs write bytes that do
not parse, and `"alone"` keeps other programs away after the initial load.

Abstractions. The whole project write is one step, as `AtomicProject` allows. The
set of changed artifacts is recomputed from the base when a save takes its turn,
which is what the code does whenever its watermark of the saved scene has moved.
A changed asset counts as a changed shared file. The copy that Save As makes and
its adoption are one step. The conflict of a source buffer with its file is not
tracked: a source save may find any content. An explicit save is asked for when
the canvas is dirty, as the pane does. At most one discard runs at a time.

### DesignSession and History

A document value has a scene (a value per node, or absent), the undo and redo
stacks, the open transaction and the journal events not drained yet. An
operation records the value it found and the value it sets. Each call of the
API is one action: the edits, the layout solve (any new values for existing
nodes, if the scene differs from the one last solved), the joining of that
geometry to the transaction, the draining of events and the report to the
subscriber. A failing call stops after any prefix of its operations; `fill_template` after one
of its edits, with the layout solved for it.

Applying a sequence of operations is stated by its outcome: a node ends with the
value of the last operation on it (`Applied`), reverting gives it back what the
first one found (`Reverted`), and `Runs` says that each operation on the way finds
the value it records, which is when `Operation::apply` succeeds. The loops over
journal events (`Drain`, `Record`) and over node events (`PushAll`) are recursive
functions of the number of events taken over.

The two journals grow without bound in the program. The model keeps the part
that undo can still reach (`MaxDepth` transactions) and folds the rest into the
scene it produces: `base` for the headless journal, and for a recorded session
the document that replaying all steps but the last yields.

### ArtifactSession

An edition gives every key (a property of a node) a value. `disk` is an edition
or one of the three ways in which files hold none: removed, source missing,
unparsable. Session methods are atomic with respect to each other; `save`
reads the disk, may merge, reads again and writes, and external edits fall
between these steps. A write that fails may have replaced some of the artifact's files:
what is left reads as an edition with old and new values, or not at all (`HalfWritten`). `notify_fs_event` looks at the disk when it runs, so a
late, repeated or merged event is the same action at another time.
The ghost `mine` records what the user gave each key since it last agreed with
the disk, or that he ruled on it when he resolved a conflict.

`Disciplined` restricts the host: it draws on the canvas only while the canvas
shows the working copy. The editor's code workspace locks the canvas while a
source is dirty; the session itself does not insist on it, and one of the runs
shows what that costs.

## Runs

| Run | Checks | Instance |
| --- | --- | --- |
| `project` | `TypeOK`, `EditsSurvive`, `OpensSeeWholeSaves`, `WedgedOnlyByEdit`, `CheckedSaveKeepsEdits`, `ImplementsAtomicProject` | 2 files, 2 contents, all entry points: 807 thousand states |
| `project_live` | `JournalCleared` | 2 files, 1 content, all entry points |
| `design_events` | `TypeOK`, `LinearTimeline`, `EventsTellTheTruth` | 1 node, 2 values, 2 undo steps, pending step of 2 operations, subscriber: 403 thousand states |
| `design_project` | `LinearTimeline`, `JournalReplays`, `SessionReplays` | 1 node, 2 values, 2 undo steps, batches of 2, the project's own steps, a recorded session: 305 thousand states |
| `artifact` | `TypeOK`, `WorkingCopyIsDiskPlusMine`, `ConflictKeepsBothSides`, `CleanMeansMerged`, `SaveTouchesOnlyMine` | 2 keys, 3 values: 1.3 million states |
| `item_merge` | `NothingLostInv`, `AdoptionKeepsEdits` | 2 artifacts, 2 values, one save at a time: 1.7 million states |
| `item_queue` | `CleanShowsBase`, `DivergenceNoticed`, `AutosaveNotForgotten`, `SaveReplacesSeen` | 1 shared artifact, 2 values, 2 saves in the queue, failing writes: 1.5 million states |
| `item_source` | `TypeOK`, `LockedCanvasWaits` | 1 shared artifact, 2 values, 2 saves in the queue, source editor, broken files: 2.5 million states |
| `item_alone` | `GenerationNamesDocument`, `AutosaveNotForgotten`, `SaveNotReverted` | 1 shared artifact, 2 values, previews, discards, explicit saves, Save As, failing writes: 2.0 million states |
| `item_live` | `PendingHasTask`, `Converges` | 1 artifact, 2 values, previews, explicit saves, failing writes, one save at a time: 613 thousand states |
| `artifact_keep_ours` | `MergeOverrulesNothing` fails | as `artifact` |
| `item_stuck` | `PendingHasTask` fails | 1 artifact, 2 values, source editor |

Why the bounds are enough. The journal matters from two changed files on; with
two, one can be renamed, staged, edited, or removed while the other is not, and
two contents with `Missing` give an edit that equals the old content, the new
one or neither. `ProjectTransaction` has no other bound, and the theorems
remove this one. A collision in a merge needs an ancestor and two different
changes: three values; two keys allow a clean merge of one with a collision of
the other. In a design session every interplay is between operations on the
same node, so one node suffices; two values and absence distinguish a change
from its inverse; two undo steps reach the depth cap. In the design item the
tasks of one artifact already meet in every order; a second artifact is needed for
a merge that takes one side each (`item_merge`). Changes that overlap take three values,
but a merge they stop ends in the same step as one whose result does not load
(`MergeRefused`), which two values reach. A queue of
two (`MaxQueue`) has a save that captured its snapshot before another one ended and may
run after the canvas has reconciled with other content (`item_queue`); the
theorems hold for any length. `MaxQueue` also keeps a timer from queueing a save behind a
full queue. The code's queue has no limit, so what a run shows with a queue of one is
either proved for every length or, for `Converges`, said to be about one save at a time:
a save has ended before the timer of the next one expires. `MaxOps` bounds the
pending step and `MaxBatch` the operations of one call; both are guards of the
next-state relation and bound nothing else. Values, keys in
`ArtifactSession` and artifacts of one kind in `DesignItem` are interchangeable, which the symmetry sets use. No liveness
property is checked under symmetry.

Deadlock is checked in every run: in each model some call is always possible.

### Fairness

Two runs assume some. In `project_live`, `WF(Step)`: the thread that holds the lock is
scheduled. `WF(StartOpen)`: somebody opens the project again, without which
nobody could complete the save. `<>[][~Crash /\ ~IoFail]`: from some point on
the machine stays up and its disk works. External edits stay possible; if one
hits a file of the journal, recovery rightly stops, so the property lets go.

In `item_live`, weak fairness of `Watcher`, `Reload`, `Discarding` and `Writer` says
that the executor runs the tasks it was given and that file events are delivered;
of `Autosave`, that the timer expires. `<>[][~User /\ ~External]`: people and other
programs stop at some time, without which nothing would have to settle. Nothing is
assumed about writes succeeding, and nothing about the end of a preview: while one is
open `Converges` lets its reload and its edits wait.

### What the failing runs show

- `artifact_keep_ours`: after `KeepOurs` the ancestor is the one from before the
  conflict (`artifact.rs:1679`). If the user then holds the ancestor's value for
  a contested property, the next event replaces it by the file's value and
  nobody is asked.
- `item_stuck`: `apply_source_edit` cancels the pending reload (`document.rs:2624`).
  If the source then does not validate, nobody schedules that reload again, and
  the canvas refuses to be saved because "external changes are still being
  reconciled" until another file event happens to arrive.

### What else the models show

Each of these is a property that a document, comment or message of the repository
suggests and that TLC refutes under the configuration named; the properties that
pass are stated so as not to promise them.

- `MCDesignSessionRedo.cfg`, `ApplyClearsRedo`: `History::apply` documents that the
  redo stack is cleared "either way" (`history.rs:304`); inside an open
  transaction it is cleared at the commit. The API is safe because
  `DesignSession::redo` refuses while a pending step has operations.
- `MCArtifactSessionText.cfg`, `SaveTouchesOnlyMine` for a host without the
  discipline above: `DocMutGuard` marks an artifact as canvas-dirty also while a
  text edit is in progress (`guard.rs:78`), and the next save writes the scene
  without the text edits.
- `MCArtifactSessionGate.cfg`, `GatedMeansShown`: the hash gate of
  `handle_artifact_fs` (`workspace.rs:2107`) compares with the index, which
  `open_artifact` does not refresh. A file that changes, is opened, and changes
  back is not reloaded.
- `MCDesignItemEcho.cfg`, `EchoIsReconciled`: `own_write_hashes` is not updated by
  a reload, so a file that returns to bytes the item once wrote is taken for an
  echo and the canvas keeps the other version, clean (against
  `docs/decisions/0005-let-agents-edit-designs-through-project-files.md:22`).
- `MCDesignItemDiscard.cfg`, `DiscardIsFinal`: `reload_from_disk` neither waits for
  nor cancels a save in flight, which then writes the discarded edits
  (`document.rs:2686`). If a preview is begun before that save ends and canceled
  after it, the canvas is even called clean while it shows other content.
- `MCDesignItemDiscardStuck.cfg`, `PendingHasTask` with discards and two saves in the
  queue: `reload_from_disk` cancels the pending reload too (`document.rs:2686`). If a save
  that was already queued ends while the discard is loading, the discard sees that the
  epoch has moved and ends without doing anything (`:2709`), and the reload is lost, as in
  `item_stuck`.
- `MCDesignItemStaleIndex.cfg`, `SaveReplacesReconciled` with two saves in the queue: when
  a save ends, also when it failed, `save_inner` puts the session it took back
  (`document.rs:3428`), over one that a merge has adopted meanwhile. A file that returns
  to the old bytes then passes the preconditions of the next save and is replaced,
  although the canvas had reconciled with other content (against
  `docs/fanta/project-schema.md:100-102`). `SaveReplacesSeen` is what is left.
- `MCDesignItemCopy.cfg`, `SaveReplacesReconciled` with Save As: it drops the session
  (`document.rs:3594`) and the next save opens it again when it writes (`:3342`), so its
  preconditions hold whatever happened to the copy in between (against the same lines).
- `MCDesignItemOverwrite.cfg`, `SaveResolvesConflict`: the banner says "save or reload
  to resolve" (`view.rs:1205`), but a save is checked against the old index and
  fails again.
- `MCDesignItemRevert.cfg`, `AutosaveNotForgotten` with the source editor and three
  explicit saves in the queue: a failed save is followed by a reload, the last save makes
  the reloaded canvas dirty again while an FNX buffer is locked, and reverting the buffer
  (`discard_source_edit`) emits nothing that would arm the timer.
- `MCDesignItemLateSave.cfg`, `CleanShowsBase` with three explicit saves and previews: a
  save of an older canvas lands while a preview is shown, and canceling the preview
  restores the flag "clean" from before that save (`finish_content_preview`).
- `MCDesignItemLiveQueue.cfg`, `Converges` with a second save in the queue: each save
  fails against the old index, puts it back over the one a merge has adopted while it
  was running, and finds the next autosave already queued behind it, which then fails
  for the same reason (the cause is that of `MCDesignItemStaleIndex.cfg`).

## Proofs

`ProjectTransaction_proofs` proves, for every number of files, every set of
contents and every choice of entry points, that `Spec` implies always `TypeOK`
(`TypeCorrect`), `EditsSurvive` (`SavesAreAtomic`), `OpensSeeWholeSaves`
(`ReadersSeeWholeSaves`), `WedgedOnlyByEdit` (`CrashesDoNotWedge`), and the
action property `CheckedSaveKeepsEdits` (`SavesRespectExpectedDisk`). The
assumptions are those of the module: `N` is positive, `Missing` and
`Untracked` are no contents and differ, and `Kinds` names entry points of the
writer.

None of the properties is inductive. `EditsSurvive` says that a file that is
behind is still pending in the journal; to keep it when the journal is removed
one must know that the replay finished (`ReplayProgress`: the part of the plan
before the loop index has landed, and the file about to be renamed had its old
content when it was checked), that a file found with its old content really
has its staged data (`JournalInv`), and that the plan holds real changes only
(`PlanInv`). `WedgedOnlyByEdit` needs `TouchInv`: a planned file nobody touched
has its old content with staged data, or its new one. `CheckedSaveKeepsEdits`
needs `ExpectedInv`: a planned file the second validation passed has the
expected content or was touched since. Their conjunction is `IInv`.
`OpensSeeWholeSaves` then follows from `IInv` without a step of its own: while
an operation reads, there is no journal for a file to be pending in.

The proof goes group by group through the disjuncts of `Next` (`RecoveryIInv`,
`PlanningIInv`, `CommittingIInv`, `EditIInv`, and the rest in `NextIInv`), and
the continuation common to the three ways in which recovery ends is a lemma of
its own (`AfterRecoveryIInv`).

`WriterImplementsAtomicProject` proves the refinement, `Spec =>
ImplementsAtomicProject`, from `IInv` and `OperationInv` (which operation a program
counter belongs to, and that an open has an entry for every file before its loop
index). Each group of actions is shown to map to a step of `AtomicProject` or to a
stutter (`RecoveryRefines`, `PlanningRefines`, `CommittingRefines`). The argument needs
the invariant in two places: a rename of the replay changes `shadow` only if it wins a
race, so otherwise the file must have been settled or pending with exactly that
content; and an open reads `disk`, which is the tree only because no file is pending
while there is no journal.

`DesignItem_proofs` proves, for every set of artifacts and contents, every length of the
queue and every choice of operations: `TypeCorrect`, `GenerationsAreNames`
(`GenerationNamesDocument`) and `EditsSurviveAdoption` (`AdoptionKeepsEdits`). `TypeOK` needs
`WroteValues` (a save records only values as its own writes), and the choice of a new
generation needs that one is free, a counting argument over the holders (`NextGenFresh`).
Their conjunction is that module's `IInv`.

`DesignItemQueue_proofs` says what holds for any length of the queue, any artifacts and
contents, each theorem under the weakest choice of operations that was found to suffice:

| Theorem | Property | Operations left out, and why |
| --- | --- | --- |
| `LockedCanvasStands` | `LockedCanvasWaits` | none |
| `AutosavesAreRemembered` | `AutosaveNotForgotten` | the source editor (`NoSource`): reverting a dirty buffer unlocks the canvas and emits nothing that would arm the timer (`MCDesignItemRevert.cfg`) |
| `CleanCanvasIsBase` | `CleanShowsBase` | previews (`NoPreview`): one that is canceled after a late save restores the wrong flag (`MCDesignItemLateSave.cfg`) |
| `NothingIsLost`, `NoChangeUnnoticed`, `PendingIsServed` | `NothingLostInv`, `DivergenceNoticed`, `PendingHasTask` | discards and the source editor (`OnlyReloads`): a discard may adopt a read older than the last check and clears the conflict with it; `MCDesignItemDiscardStuck.cfg` and `item_stuck` show what either does to a pending reload |
| `NoSaveIsReverted` | `SaveNotReverted` | other programs, which the property excludes, and the source editor (`Alone`); previews, unless every artifact is a shared file, since a load may be spliced into a canvas that is called clean after a preview and does not show the base |

`AutosaveNotForgotten` says that the queue is not empty; what is inductive is that it
holds a save whose end arms the timer or which is of the canvas as it is
(`AutosaveInv`). `NothingLostInv` says of the disk, a check and a read what each may
still not know; what is inductive with it says the same of a running save and of the
queue: whatever changed since has an event of its own, or a save on its way will settle
with the disk and ask for the reload it deferred. `NoChangeUnnoticed` and
`PendingIsServed` follow from it. `NoSaveIsReverted`
needs that a finished load is current wherever the disk is what the base says
(`ReloadCurrent`, `DiscardCurrent`), and that the session, or the index and the baseline of
the save that took it, agree with the base on every file that passes the check against
them (`SessionAgrees`): a save that fails gives back an index which may be older than
the base, but only for files that would be read again.

`DesignItemSeen_proofs` proves `SavesReplaceSeen` (`SaveReplacesSeen`) for every operation
but Save As (`NoSaveAs`; `MCDesignItemCopy.cfg` shows why), the source editor and discards included.
`SaveReplacesReconciled` is what one would like to have instead; `MCDesignItemStaleIndex.cfg` refutes it,
because an index outlives the base it was made for. What is left is that every index in
the system, of the session, of the save that took it, and of a finished read, is made of
contents the canvas has reconciled with or is about to (`SeenInv`), so that a save never
replaces an edit of another program the item had not taken in. The proof rests on
`IInv` and on the shape of the queue (`TailQueued`: only its head has begun): the session is
absent only while a running save holds it.

`ArtifactSession_proofs` proves `TypeCorrect` for every host, and for one that keeps the
discipline above (`Disciplined`; `MCArtifactSessionText.cfg` shows the other kind)
`NoChangeLost` (`WorkingCopyIsDiskPlusMine`), `ConflictsKeepBothSides`, `CleanIsMerged`
(`CleanMeansMerged`) and the action property `SavesTouchOnlyMine`
(`SaveTouchesOnlyMine`), for any keys and values. Types already need that a conflict has
parsable sides, since its resolution reads them. The invariant relates five things:
the canvas to the working copy (`CanvasInv`), the user's changes to it and to the
ancestor (`MineInv`), the observed files to the ancestor (`SeenInv`), both to a frozen
conflict (`ConflictInv`), and the bytes about to be written to all of them
(`WriteInv`). The merge needs the ancestor there: a key the user did not touch
agrees with the ancestor, so the merge takes the file's value.

`History_proofs` holds the laws of operations on scenes, for sequences of any length:
concatenation (`SceneConcat`, `RunsConcat`), that reverting undoes what ran
(`RevertUndoes`), that a run can be walked back one operation at a time (`WalkBack`),
and what pushing on a capped stack keeps (`PushKeeps`). `DesignSession_proofs` uses them
for the invariant of a session (`Invariant`), for every set of nodes and values, every
undo depth and batch size: the undo stack is the end of the headless journal with the
undrained events taken over; that journal runs from the opened design and ends where
the open step begins; the open step runs from there to the live scene; the redo stack
runs from the same place; and both stacks together are no longer than the undo depth.
`TypeCorrect`, `JournalIsFaithful` (`JournalReplays`) and `TimelineIsLinear`
(`LinearTimeline`) follow. No property is inductive without the others: an undo keeps
the journal faithful because the transaction it takes off the stack is the journal's
last one, and keeps it linear because that transaction ran.

`DesignSessionFollowers_proofs` adds the two followers. `RecordingReplays`
(`SessionReplays`): replaying the recording gives the document's stacks and the scene
before its pending step; an amendment is only emitted directly after the commit it
extends, which is why it can be folded in. `EventsAreTrue` (`EventsTellTheTruth`), with a
subscriber and for a session that is driven through the API alone (`~ProjectEdits`: the
headless project's own calls report to nobody). It needs that no operation on the
stacks leaves its node as it was: such an operation on an absent node would be reported
as a creation.

These proofs go through sequences by induction on their length. Where a definition is
recursive (`Drain`, `Record`, `PushAll`), its function is first shown to exist for every
length (`DrainExists` and its like), with the set of lengths for which it does as the
induction set.

Every invariant and every action property of a passing run is a theorem whose hypotheses
that run's instance satisfies, so a run and a theorem never speak of different
operations. Model-checked only: `JournalCleared` and `Converges`, liveness properties under
fairness, which the prover does not handle.

## Not modelled

- *Second processes.* The project lock is a mutex of one process. The headless
  engine and the editor can write the same folder at once.
- *Durability.* Renames are taken to be durable in order; the `fsync` calls of the
  writer and power loss are left out.
- *Symlinks and case-aliased directories*, which the writer removes or heals before
  it plans; files the project does not manage; the editor support files written
  after the lock is released.
- *Text.* FNX parsing, printing and patching of retained source, and the projection
  of a document to bytes: their correctness is about strings.
- *Layout, rendering, tools, Figma import, exports and the runtime bundle*: floating
  point and pure conversions. The layout solver appears as an arbitrary choice.
- *The editor shell* (the Zed fork): panels, language servers, collaboration.
- *Around the design item.* The first save of a bare `.fig`, which creates the project;
  source layout computed by the editor; a second view of the same item with a timer of
  its own; reads that see a half-written batch of another program's files (`Broken`
  stands for those that do not parse); the two hashes `source_write_preconditions` takes
  of each shared file, between which an edit would become its own precondition.

## Plan

Done: `ProjectTransaction` with its refinement of `AtomicProject`, `DesignItem`,
`History` and `DesignSession`, and `ArtifactSession`, all with their proofs. Next, in this
order:

1. `WorkspaceSession`: several artifacts and the shared project state over
   `ArtifactSession`'s rules; `save_all` with partial failure; proposals and
   merge reviews with their generations (`propose_source`, `apply_merge_review`).
2. For `DesignItem`: `SaveNotReverted` with the source editor, and `DivergenceNoticed` with
   it, once it is clear what a source that is shown may overwrite.
3. The live design server's requests and revisions over the design item.
4. `ArtifactMerge`: `merge_value` on nested objects as a recursive function, against
   a declarative reference over bounded trees.
5. Two writer processes over one tree (editor and headless engine).
6. `SceneOps`: structural operations and their inverses on a tree of nodes, which
   `History` takes for granted.
