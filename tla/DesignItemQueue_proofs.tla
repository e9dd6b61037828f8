------------------------- MODULE DesignItemQueue_proofs -------------------------
(***************************************************************************)
(* Proofs about the design item with any number of queued saves: no        *)
(* autosave is forgotten, a clean canvas shows the merge base, no foreign  *)
(* change is lost, a pending reconciliation has a task and nothing saved   *)
(* is reverted.  The hypotheses name the operations that have to stay      *)
(* unused; runs show what happens with them.                               *)
(***************************************************************************)
EXTENDS DesignItem_proofs

\* A queued save whose end leaves a canvas that may be saved with the timer armed,
\* or one of the canvas as it is.
Rearms(t, g) == t.kind \in {"explicit", "saveas"} \/ t.phase # "queued" \/ t.gen = g

\* Unsaved edits that may be saved have the timer running or such a save coming.
AutosaveInv == AutosaveAllowed /\ ~armed => \E n \in 1 .. Len(queue) : Rearms(queue[n], gen)

\* A locked canvas has no unsaved edits, and stays locked while a source is saved.
LockedIsClean == (locked => ~dirty) /\ (SourceSaving => locked)

-----------------------------------------------------------------------------
(***************************************************************************)
(* No autosave is forgotten.                                               *)
(***************************************************************************)

\* What autosave_allowed depends on, and the timer, are left alone.
Untimed == UNCHANGED <<dirty, failed, gen, conflict, pending, preview, locked, armed>>

\* A step that leaves them and the queue alone keeps AutosaveInv.
LEMMA UntimedStep ==
    ASSUME AutosaveInv, Untimed, queue' = queue
    PROVE  AutosaveInv'
BY DEF AutosaveInv, Untimed, AutosaveAllowed, InPreview, Rearms

\* A resynchronization holds autosave back: it is pending or raises the conflict.
LEMMA ResyncHoldsBack ==
    ASSUME NEW d, NEW p, NEW slot, Resync(d, p, slot)
    PROVE  ~AutosaveAllowed'
BY DEF Resync, Schedule, RaiseConflict, AutosaveAllowed

\* The operations of the user keep a save coming: each emits Edited, holds autosave
\* back, or changes nothing it depends on.
LEMMA AutosaveUser ==
    ASSUME TypeOK, LockedIsClean, AutosaveInv, User \/ Autosave
    PROVE  AutosaveInv'
<1> USE DEF files, canvas, synced, flags, tasks
<1>1. Edited => AutosaveInv'
  BY DEF Edited, AutosaveInv
<1>2. ASSUME NEW kind \in Kinds \cup {"saveas"}, gen' = gen,
             queue' = Append(queue, [kind |-> kind, phase |-> "queued", gen |-> gen, doc |-> doc])
      PROVE  AutosaveInv'
  <2> DEFINE t == [kind |-> kind, phase |-> "queued", gen |-> gen, doc |-> doc]
  <2>1. Len(queue) + 1 \in 1 .. Len(queue') /\ queue'[Len(queue) + 1] = t
    BY <1>2 DEF TypeOK
  <2>2. Rearms(t, gen')
    BY <1>2 DEF Rearms
  <2> HIDE DEF t
  <2>3. \E n \in 1 .. Len(queue') : Rearms(queue'[n], gen')
    BY <2>1, <2>2
  <2>4. QED BY <2>3 DEF AutosaveInv
<1>3. ASSUME NEW kind \in Kinds, Save(kind) PROVE AutosaveInv'
  BY <1>2, <1>3 DEF Save
<1>4. CASE Autosave
  <2>1. CASE AutosaveAllowed /\ ~ChangingDestination
    BY <1>3, <1>4, <2>1 DEF Autosave, Kinds
  <2>2. CASE ~AutosaveAllowed
    BY <1>4, <2>2 DEF Autosave, AutosaveAllowed, InPreview, AutosaveInv
  <2>3. CASE ChangingDestination
    <3>1. 1 \in 1 .. Len(queue) /\ Rearms(queue[1], gen)
      BY <2>3, TaskType DEF ChangingDestination, Rearms, Task
    <3>2. queue' = queue /\ gen' = gen
      BY <1>4, <2>3 DEF Autosave
    <3>3. QED BY <3>1, <3>2 DEF AutosaveInv
  <2>4. QED BY <2>1, <2>2, <2>3
<1>5. CASE User
  <2>1. ASSUME NEW a \in Artifacts, NEW v \in Values, Apply(a, v) PROVE AutosaveInv'
    BY <1>1, <2>1 DEF Apply
  <2>2. ASSUME NEW a \in Artifacts, NEW v \in Values, Preview(a, v) PROVE AutosaveInv'
    <3>1. InPreview'
      BY <2>2 DEF Preview, InPreview
    <3>2. QED BY <3>1 DEF AutosaveInv, AutosaveAllowed
  <2>3. ASSUME NEW committed \in BOOLEAN, FinishPreview(committed) PROVE AutosaveInv'
    BY <1>1, <2>3 DEF FinishPreview
  <2>4. CASE Discard
    BY <2>4, UntimedStep DEF Discard, Untimed
  <2>5. CASE SaveExplicit
    BY <1>3, <2>5 DEF SaveExplicit, Kinds
  <2>6. CASE SaveAs
    <3>1. queue' = Append(queue, [kind |-> "saveas", phase |-> "queued", gen |-> gen, doc |-> doc])
      BY <2>6 DEF SaveAs, Idle
    <3>2. QED BY <1>2, <2>6, <3>1 DEF SaveAs
  <2>7. CASE SaveAsRefused
    BY <1>1, <2>7 DEF SaveAsRefused
  <2>8. ASSUME NEW a \in Artifacts, NEW v \in Values, SaveSource(a, v) PROVE AutosaveInv'
    BY <2>8 DEF SaveSource, AutosaveInv, AutosaveAllowed
  <2>9. CASE SourceEdit \/ SourceRevert
    <3>1. ~dirty'
      BY <2>9 DEF SourceEdit, SourceRevert, LockedIsClean
    <3>2. QED BY <3>1 DEF AutosaveInv, AutosaveAllowed
  <2>10. QED BY <1>5, <2>1, <2>2, <2>3, <2>4, <2>5, <2>6, <2>7, <2>8, <2>9 DEF User
<1>6. QED BY <1>4, <1>5

\* So do the watcher, the reload task and a discard.
LEMMA AutosaveTasks ==
    ASSUME TypeOK, LockedIsClean, AutosaveInv, External \/ Watcher \/ Reload \/ Discarding
    PROVE  AutosaveInv'
<1> USE DEF files, canvas, synced, flags, tasks
<1>1. Edited => AutosaveInv'
  BY DEF Edited, AutosaveInv
<1>2. ~AutosaveAllowed' => AutosaveInv'
  BY DEF AutosaveInv
<1>3. CASE External \/ Watcher
  <2>1. ASSUME NEW a \in Artifacts, NEW v, ExternalEdit(a, v) PROVE AutosaveInv'
    BY <2>1, UntimedStep DEF ExternalEdit, Untimed
  <2>2. ASSUME NEW paths \in SUBSET events, TakePaths(paths) PROVE AutosaveInv'
    BY <2>2, UntimedStep DEF TakePaths, Untimed
  <2>3. CASE FinishCheck
    <3>1. CASE Resync(dirty, InPreview, reload)
      BY <1>2, <3>1, ResyncHoldsBack
    <3>2. CASE UNCHANGED <<conflict, pending>>
      BY <2>3, <3>2, UntimedStep DEF FinishCheck, Untimed
    <3>3. QED BY <2>3, <3>1, <3>2 DEF FinishCheck
  <2>4. QED BY <1>3, <2>1, <2>2, <2>3 DEF External, Watcher
<1>4. CASE Reload
  <2>1. CASE ReloadStale
    BY <1>2, <2>1, ResyncHoldsBack DEF ReloadStale
  <2>2. CASE ReloadDefer \/ MergeAgain
    <3>1. pending'
      BY <2>2 DEF ReloadDefer, MergeAgain, Schedule
    <3>2. QED BY <3>1, <1>2 DEF AutosaveAllowed
  <2>3. CASE ReloadRead \/ MergeCapture
    BY <2>3, UntimedStep DEF ReloadRead, MergeCapture, ItemUnchanged, Untimed
  <2>4. CASE ReloadUnchanged \/ MergeAdopt
    BY <1>1, <2>4 DEF ReloadUnchanged, MergeAdopt
  <2>5. CASE ReloadError \/ MergeRefused
    <3>1. conflict'
      BY <2>5 DEF ReloadError, MergeRefused, RaiseConflict
    <3>2. QED BY <3>1, <1>2 DEF AutosaveAllowed
  <2>6. CASE FinishReload \/ MergeClean
    <3>1. conflict' \/ ~dirty'
      BY <2>6 DEF FinishReload, MergeClean, Adopt, RaiseConflict
    <3>2. QED BY <3>1, <1>2 DEF AutosaveAllowed
  <2>7. QED BY <1>4, <2>1, <2>2, <2>3, <2>4, <2>5, <2>6 DEF Reload, FinishMerge
<1>5. CASE DiscardRead
  BY <1>5, UntimedStep DEF DiscardRead, Untimed
<1>6. CASE FinishDiscard
  <2>1. EndDiscard /\ UNCHANGED <<locked, failed, queue, armed>>
    BY <1>6 DEF FinishDiscard
  <2>2. conflict' \/ ~dirty' \/ UNCHANGED <<canvas, dirty, conflict, pending>>
    BY <2>1 DEF EndDiscard, RaiseConflict, Adopt
  <2>3. CASE UNCHANGED <<canvas, dirty, conflict, pending>>
    BY <2>1, <2>3, UntimedStep DEF Untimed
  <2>4. QED BY <1>2, <2>2, <2>3 DEF AutosaveAllowed
<1>7. QED BY <1>3, <1>4, <1>5, <1>6 DEF Discarding

\* So does the writer: a save that is dropped because it failed before was not one
\* of the canvas as it is, so another one is coming.
LEMMA AutosaveWriter ==
    ASSUME TypeOK, LockedIsClean, AutosaveInv, Writer
    PROVE  AutosaveInv'
<1> USE DEF files, canvas, synced, flags, tasks
<1>1. Edited => AutosaveInv'
  BY DEF Edited, AutosaveInv
<1>2. ~AutosaveAllowed' => AutosaveInv'
  BY DEF AutosaveInv
<1>3. locked \/ SourceTurn => ~dirty
  BY TaskType DEF LockedIsClean, SourceTurn, SourceSaving
<1>4. CASE SaveDropped
  <2>1. /\ queue # <<>> /\ Release /\ Untimed
        /\ locked \/ (Task.kind = "auto" /\ failed = Task.gen /\ Task.phase = "queued")
    BY <1>4 DEF SaveDropped, Saving, Untimed
  <2>2. /\ Len(queue') = Len(queue) - 1 /\ Len(queue) \in Nat
        /\ \A n \in 1 .. Len(queue) - 1 : queue'[n] = queue[n + 1]
        /\ Task = queue[1]
    BY <2>1, TaskType DEF Release
  <2>3. ASSUME AutosaveAllowed', ~armed'
        PROVE  \E n \in 1 .. Len(queue') : Rearms(queue'[n], gen')
    <3>1. AutosaveAllowed /\ ~armed /\ gen' = gen
      BY <2>1, <2>3 DEF Untimed, AutosaveAllowed, InPreview
    <3>2. PICK n \in 1 .. Len(queue) : Rearms(queue[n], gen)
      BY <3>1 DEF AutosaveInv
    <3>3. ~Rearms(queue[1], gen)
      BY <2>1, <2>2, <3>1 DEF Rearms, AutosaveAllowed
    <3>4. n # 1
      BY <3>2, <3>3
    <3>5. n - 1 \in 1 .. Len(queue') /\ queue'[n - 1] = queue[n]
      BY <2>2, <3>4
    <3>6. QED BY <3>1, <3>2, <3>5
  <2>4. QED BY <2>3 DEF AutosaveInv
<1>5. CASE PrepareSave \/ WriteSave \/ WriteFails
  <2>1. PICK t : Become(t) /\ t.phase # "queued"
    <3>1. CASE PrepareSave
      BY <3>1 DEF PrepareSave
    <3>2. CASE WriteSave
      BY <3>2 DEF WriteSave
    <3>3. CASE WriteFails
      BY <3>3 DEF WriteFails
    <3>4. QED BY <1>5, <3>1, <3>2, <3>3
  <2>2. Rearms(t, gen') /\ queue # <<>> /\ queue' = <<t>> \o Tail(queue)
    BY <1>5, <2>1 DEF Rearms, PrepareSave, WriteSave, WriteFails, Saving, Become
  <2>3. Len(queue') \in Nat /\ Len(queue') >= 1 /\ queue'[1] = t
    BY <2>2, TaskType
  <2>4. \E n \in 1 .. Len(queue') : Rearms(queue'[n], gen')
    BY <2>2, <2>3
  <2>5. QED BY <2>4 DEF AutosaveInv
<1>6. CASE FinishSave \/ FinishSaveAs \/ SaveAsFails
  <2>1. Edited \/ ~dirty'
    BY <1>6 DEF FinishSave, FinishSaveAs, SaveAsFails
  <2>2. QED BY <1>1, <1>2, <2>1 DEF AutosaveAllowed
<1>7. CASE FinishFailedSave
  BY <1>2, <1>7, ResyncHoldsBack DEF FinishFailedSave
<1>8. CASE WriteSource \/ SourceFails \/ AdoptSource
  <2>1. dirty' = dirty /\ SourceTurn
    BY <1>8 DEF WriteSource, SourceFails, AdoptSource
  <2>2. QED BY <1>2, <1>3, <2>1 DEF AutosaveAllowed
<1>9. ASSUME NEW more \in BOOLEAN, FinishSource(more) PROVE AutosaveInv'
  <2>1. SourceTurn /\ (dirty' = dirty \/ dirty' = FALSE)
    BY <1>9 DEF FinishSource, EndDiscard, Adopt
  <2>2. QED BY <1>2, <1>3, <2>1 DEF AutosaveAllowed
<1>10. QED BY <1>4, <1>5, <1>6, <1>7, <1>8, <1>9 DEF Writer

\* Whatever stood in the way of an autosave has armed the timer again when it ended,
\* or left a save in the queue that will: for any number of queued saves, discards,
\* failed saves, previews and Save As, without the source editor.  With it the property
\* fails: SourceRevert emits no Edited.
THEOREM AutosavesAreRemembered ==
    ASSUME NoSource
    PROVE  Spec => []AutosaveNotForgotten
<1> DEFINE Inv == IInv /\ AutosaveInv /\ NoSourceInv
<1>1. Init => Inv
  <2> SUFFICES ASSUME Init PROVE NoSourceInv /\ AutosaveInv
    BY InitIInv
  <2>1. 1 .. Len(queue) = {} /\ ~locked /\ ~dirty
    BY DEF Init
  <2>2. QED BY <2>1 DEF NoSourceInv, AutosaveInv, AutosaveAllowed
<1>2. Inv /\ [Next]_vars => Inv'
  <2> SUFFICES ASSUME Inv, [Next]_vars PROVE NoSourceInv' /\ AutosaveInv'
    BY NextIInv
  <2>1. CASE Next
    <3>1. TypeOK /\ LockedIsClean
      BY DEF IInv, NoSourceInv, LockedIsClean, SourceSaving
    <3>2. QED BY <2>1, <3>1, NoSourceStep, AutosaveUser, AutosaveTasks, AutosaveWriter DEF Next
  <2>2. CASE UNCHANGED vars
    BY <2>2, UntimedStep DEF vars, files, canvas, synced, flags, tasks, NoSourceInv, Untimed
  <2>3. QED BY <2>1, <2>2
<1>3. Inv => AutosaveNotForgotten
  <2> SUFFICES ASSUME Inv, AutosaveAllowed, ~armed, queue = <<>> PROVE FALSE
    BY DEF AutosaveNotForgotten, Idle
  <2>1. 1 .. Len(queue) = {}
    OBVIOUS
  <2>2. QED BY <2>1 DEF AutosaveInv
<1>4. QED BY <1>1, <1>2, <1>3, PTL DEF Spec

-----------------------------------------------------------------------------
(***************************************************************************)
(* A clean canvas, and a locked one.                                       *)
(***************************************************************************)

\* Previews are not in use: the canvas has none.
NoPreview == "preview" \notin Features
CleanInv == CleanShowsBase /\ ~InPreview

\* A document that is adopted is the new base, and the preview has ended.
LEMMA AdoptClean ==
    ASSUME NEW read, Adopt(read)
    PROVE  CleanInv'
BY DEF Adopt, CleanInv, CleanShowsBase, InPreview

\* A step that changes neither document keeps a clean canvas clean.
LEMMA SameClean ==
    ASSUME CleanInv, UNCHANGED <<doc, base, preview>>, dirty' = dirty \/ dirty'
    PROVE  CleanInv'
BY DEF CleanInv, CleanShowsBase, InPreview

\* Every step keeps it.  A save that ends makes the canvas clean only when the
\* generation it captured is still the canvas's, and then its snapshot is the canvas.
LEMMA CleanStep ==
    ASSUME IInv, NoPreview, CleanInv, Next
    PROVE  CleanInv'
<1> USE DEF files, canvas, synced, flags, tasks
<1>1. ~InPreview
  BY DEF CleanInv
<1>2. CASE User
  <2>1. ASSUME NEW a \in Artifacts, NEW v \in Values, Apply(a, v) PROVE CleanInv'
    BY <2>1 DEF Apply, CleanInv, CleanShowsBase, InPreview
  <2>2. ASSUME NEW a \in Artifacts, NEW v \in Values, Preview(a, v) PROVE FALSE
    BY <2>2 DEF Preview, NoPreview
  <2>3. ASSUME NEW a \in Artifacts, NEW v \in Values, SaveSource(a, v) PROVE CleanInv'
    BY <2>3, SameClean DEF SaveSource
  <2>4. ASSUME NEW committed \in BOOLEAN, FinishPreview(committed) PROVE FALSE
    BY <1>1, <2>4 DEF FinishPreview
  <2>5. CASE Discard \/ SaveExplicit \/ SaveAs \/ SaveAsRefused \/ SourceEdit \/ SourceRevert
    BY <2>5, SameClean DEF Discard, SaveExplicit, Save, SaveAs, SaveAsRefused, SourceEdit, SourceRevert
  <2>6. QED BY <1>2, <2>1, <2>2, <2>3, <2>4, <2>5 DEF User
<1>3. CASE External \/ Watcher \/ Autosave
  BY <1>3, SameClean DEF External, ExternalEdit, Watcher, TakePaths, FinishCheck, Autosave, Save
<1>4. CASE Reload
  <2>1. CASE FinishReload \/ MergeClean
    BY <2>1, AdoptClean, SameClean DEF FinishReload, MergeClean
  <2>2. CASE MergeAdopt
    BY <2>2 DEF MergeAdopt, CleanInv, CleanShowsBase, InPreview
  <2>3. CASE ReloadStale \/ ReloadDefer \/ ReloadRead \/ ReloadUnchanged \/ ReloadError
             \/ MergeCapture \/ MergeRefused \/ MergeAgain
    BY <2>3, SameClean DEF ReloadStale, ReloadDefer, ReloadRead, ReloadUnchanged, ReloadError,
                           MergeCapture, MergeRefused, MergeAgain, ItemUnchanged
  <2>4. QED BY <1>4, <2>1, <2>2, <2>3 DEF Reload, FinishMerge
<1>5. EndDiscard => CleanInv'
  BY AdoptClean, SameClean DEF EndDiscard
<1>6. CASE Discarding
  BY <1>5, <1>6, SameClean DEF Discarding, DiscardRead, FinishDiscard
<1>7. CASE Writer
  <2>1. CASE FinishSave \/ FinishSaveAs
    <3>1. /\ Task = queue[1] /\ 1 \in 1 .. Len(queue)
          /\ Task.kind # "source"
      BY <2>1, TaskType DEF FinishSave, FinishSaveAs, Saving, ChangingDestination, Task, IInv
    <3>2. gen = Task.gen => doc = Task.doc
      BY <3>1 DEF IInv, GenerationNamesDocument
    <3>3. base' = Task.doc /\ doc' = doc /\ (~dirty' => gen = Task.gen)
          /\ (preview' = preview \/ preview' = "none")
      BY <2>1 DEF FinishSave, FinishSaveAs
    <3>4. QED BY <1>1, <3>2, <3>3 DEF CleanInv, CleanShowsBase, InPreview
  <2>2. CASE \E more \in BOOLEAN : FinishSource(more)
    BY <1>5, <2>2 DEF FinishSource
  <2>3. CASE SaveDropped \/ PrepareSave \/ WriteSave \/ WriteFails \/ FinishFailedSave
             \/ SaveAsFails \/ WriteSource \/ SourceFails \/ AdoptSource
    BY <2>3, SameClean DEF SaveDropped, PrepareSave, WriteSave, WriteFails, FinishFailedSave,
                           SaveAsFails, WriteSource, SourceFails, AdoptSource
  <2>4. QED BY <1>7, <2>1, <2>2, <2>3 DEF Writer
<1>8. QED BY <1>2, <1>3, <1>4, <1>6, <1>7 DEF Next

\* For any number of queued saves and every operation but previews, a canvas that is
\* not dirty shows what the item takes to be on disk.  A preview that is canceled
\* after a discard and a late save breaks it.
THEOREM CleanCanvasIsBase ==
    ASSUME NoPreview
    PROVE  Spec => []CleanShowsBase
<1> DEFINE Inv == IInv /\ CleanInv
<1>1. Init => Inv
  BY InitIInv DEF Init, CleanInv, CleanShowsBase, InPreview
<1>2. Inv /\ [Next]_vars => Inv'
  <2> SUFFICES ASSUME Inv, [Next]_vars PROVE CleanInv'
    BY NextIInv
  <2>1. CASE UNCHANGED vars
    BY <2>1, SameClean DEF vars, canvas, synced, flags
  <2>2. QED BY <2>1, CleanStep
<1>3. Inv => CleanShowsBase
  BY DEF CleanInv
<1>4. QED BY <1>1, <1>2, <1>3, PTL DEF Spec

\* In every instance, no reload and no merge moves the canvas while an FNX buffer has
\* unsaved edits, however far it was when the buffer was locked (source_edit_locked).
THEOREM LockedCanvasStands == Spec => LockedCanvasWaits
<1>1. Reload /\ locked => doc' = doc
  BY DEF Reload, FinishMerge, ReloadStale, ReloadDefer, ReloadRead, ReloadUnchanged, ReloadError,
         FinishReload, MergeCapture, MergeRefused, MergeClean, MergeAgain, MergeAdopt, ItemUnchanged, canvas
<1>2. QED BY <1>1, PTL DEF LockedCanvasWaits

-----------------------------------------------------------------------------
(***************************************************************************)
(* No foreign change is lost.                                              *)
(***************************************************************************)

\* Neither the source editor nor a discard is in use: only reloads and merges bring
\* files into the canvas.
OnlyReloads == Features \cap {"source", "discard"} = {}

\* A Save As has the queue to itself; a preview shows a canvas no queued save captured.
SaveAsAlone == \A n \in 1 .. Len(queue) : queue[n].kind = "saveas" => Len(queue) = 1
PreviewIsNew ==
    InPreview => \A n \in 1 .. Len(queue) : queue[n].kind # "saveas" /\ queue[n].gen # gen

QueueInv == NoSourceInv /\ SaveAsAlone /\ PreviewIsNew
LossInv == discard = NoTask /\ NothingLostInv

\* What a lease that is dropped or a save that moves on leaves in the queue.
LEMMA QueueShift ==
    ASSUME TypeOK, queue # <<>>
    PROVE  /\ Release => /\ Len(queue') = Len(queue) - 1
                         /\ \A n \in 1 .. Len(queue') : queue'[n] = queue[n + 1]
           /\ \A t \in Saves : Become(t) =>
                /\ Len(queue') = Len(queue) /\ queue'[1] = t
                /\ \A n \in 2 .. Len(queue') : queue'[n] = queue[n]
<1>1. /\ Len(queue) \in Nat /\ Len(queue) >= 1
      /\ Tail(queue) \in Seq(Saves) /\ Len(Tail(queue)) = Len(queue) - 1
      /\ \A n \in 1 .. Len(queue) - 1 : Tail(queue)[n] = queue[n + 1]
  BY TaskType
<1>2. ASSUME NEW t \in Saves
      PROVE  /\ Len(<<t>> \o Tail(queue)) = Len(queue) /\ (<<t>> \o Tail(queue))[1] = t
             /\ \A n \in 2 .. Len(queue) : (<<t>> \o Tail(queue))[n] = queue[n]
  <2> DEFINE tail == Tail(queue)
  <2>1. tail \in Seq(Saves) /\ Len(tail) = Len(queue) - 1
        /\ \A n \in 2 .. Len(queue) : n - 1 \in 1 .. Len(queue) - 1 /\ tail[n - 1] = queue[n]
    BY <1>1
  <2> HIDE DEF tail
  <2>2. <<t>> \in Seq(Saves) /\ Len(<<t>>) = 1 /\ <<t>>[1] = t
    OBVIOUS
  <2>3. Len(<<t>> \o tail) = Len(queue)
    <3>1. Len(<<t>> \o tail) = 1 + Len(tail)
      BY <2>1, <2>2
    <3>2. Len(queue) \in Nat /\ Len(tail) = Len(queue) - 1
      BY <1>1, <2>1
    <3>3. QED BY <3>1, <3>2
  <2>4. (<<t>> \o tail)[1] = t
    BY <1>1, <2>1, <2>2
  <2>5. ASSUME NEW n \in 2 .. Len(queue) PROVE (<<t>> \o tail)[n] = tail[n - 1]
    BY <1>1, <2>1, <2>2, <2>5
  <2>6. QED BY <2>1, <2>3, <2>4, <2>5 DEF tail
<1>3. ASSUME Release
      PROVE  Len(queue') = Len(queue) - 1 /\ \A n \in 1 .. Len(queue') : queue'[n] = queue[n + 1]
  BY <1>1, <1>3 DEF Release
<1>4. ASSUME NEW t \in Saves, Become(t)
      PROVE  /\ Len(queue') = Len(queue) /\ queue'[1] = t
             /\ \A n \in 2 .. Len(queue') : queue'[n] = queue[n]
  <2>1. queue' = <<t>> \o Tail(queue)
    BY <1>4 DEF Become
  <2>2. QED BY <1>2, <2>1, Zenon
<1>5. QED BY <1>3, <1>4

\* The writer queues nothing.
LEMMA WriterShrinks ==
    ASSUME TypeOK, Writer, NEW t \in Saves
    PROVE  queue' # Append(queue, t)
<1> SUFFICES ASSUME queue' = Append(queue, t) PROVE FALSE
  OBVIOUS
<1>1. queue # <<>>
  BY DEF Writer, SaveDropped, PrepareSave, WriteSave, WriteFails, FinishSave, FinishFailedSave,
         FinishSaveAs, SaveAsFails, WriteSource, SourceFails, AdoptSource, FinishSource,
         Saving, ChangingDestination, SourceTurn
<1>2. Len(queue') = Len(queue) + 1 /\ Len(queue) \in Nat
  BY DEF TypeOK
<1>3. Release => Len(queue') <= Len(queue)
  BY <1>1, <1>2, TaskType DEF Release
<1>4. ASSUME NEW u, Become(u) PROVE Len(queue') <= Len(queue)
  <2> DEFINE S == Saves \cup {u}
  <2>1. <<u>> \in Seq(S) /\ Len(<<u>>) = 1
    OBVIOUS
  <2>2. Tail(queue) \in Seq(Saves) /\ Len(Tail(queue)) = Len(queue) - 1
    BY <1>1, TaskType
  <2>3. Tail(queue) \in Seq(S)
    BY <2>2
  <2> HIDE DEF S
  <2>4. Len(<<u>> \o Tail(queue)) = 1 + Len(Tail(queue))
    BY <2>1, <2>3
  <2>5. QED BY <1>2, <1>4, <2>2, <2>4 DEF Become
<1>5. Release \/ \E u : Become(u)
  BY DEF Writer, SaveDropped, PrepareSave, WriteSave, WriteFails, FinishSave, FinishFailedSave,
         FinishSaveAs, SaveAsFails, WriteSource, SourceFails, AdoptSource, FinishSource
<1>6. QED BY <1>2, <1>3, <1>4, <1>5

\* A Save As is captured when nothing else is queued, and nothing is queued behind it.
LEMMA SaveAsStep ==
    ASSUME TypeOK, NoSource, NoSourceInv, SaveAsAlone, Next
    PROVE  SaveAsAlone'
<1> USE DEF files, canvas, synced, flags, tasks
<1>1. QueueMove
  BY QueueStep
<1>2. Len(queue) \in Nat
  BY DEF TypeOK
<1>3. CASE queue # <<>> /\ Release
  <2>1. Len(queue') = Len(queue) - 1 /\ \A n \in 1 .. Len(queue') : queue'[n] = queue[n + 1]
    BY <1>3, QueueShift
  <2>2. QED BY <1>2, <2>1, SMTT(40) DEF SaveAsAlone
<1>4. ASSUME queue # <<>>, NEW t \in Saves, IsSuccessor(t), Become(t) PROVE SaveAsAlone'
  <2>1. Len(queue') = Len(queue) /\ queue'[1] = t /\ t.kind = queue[1].kind
        /\ \A n \in 2 .. Len(queue') : queue'[n] = queue[n]
    BY <1>4, TaskType, QueueShift DEF IsSuccessor
  <2>2. \A n \in 1 .. Len(queue') : queue'[n].kind = queue[n].kind
    BY <1>2, <2>1
  <2>3. QED BY <2>1, <2>2 DEF SaveAsAlone
<1>5. ASSUME NEW kind \in Kinds, Save(kind) PROVE SaveAsAlone'
  <2>1. \A n \in 1 .. Len(queue) : queue[n].kind # "saveas"
    <3> SUFFICES ASSUME NEW n \in 1 .. Len(queue), queue[n].kind = "saveas" PROVE FALSE
      OBVIOUS
    <3>1. n = 1 /\ queue # <<>>
      BY <1>2 DEF SaveAsAlone
    <3>2. QED BY <1>5, <3>1, TaskType DEF Save, ChangingDestination, Task
  <2>2. ~("saveas" \in Kinds)
    BY DEF Kinds
  <2>3. ASSUME NEW n \in 1 .. Len(queue') PROVE queue'[n].kind # "saveas"
    BY <1>2, <1>5, <2>1, <2>2, <2>3 DEF Save, TypeOK
  <2>4. QED BY <2>3 DEF SaveAsAlone
<1>6. CASE SaveAs
  <2>1. Len(queue') = 1
    BY <1>6 DEF SaveAs
  <2>2. QED BY <2>1 DEF SaveAsAlone
<1>7. CASE queue' = queue
  BY <1>7 DEF SaveAsAlone
<1>8. CASE User \/ Autosave
  BY <1>5, <1>6, <1>7, <1>8
     DEF User, Apply, Preview, SaveSource, FinishPreview, Discard, SaveExplicit, SaveAsRefused,
         SourceEdit, SourceRevert, Autosave, NoSourceInv, Kinds
<1>9. CASE External \/ Watcher \/ Reload \/ Discarding
  BY <1>7, <1>9
     DEF External, ExternalEdit, Watcher, TakePaths, FinishCheck, Reload, FinishMerge, ReloadStale,
         ReloadDefer, ReloadRead, ReloadUnchanged, ReloadError, FinishReload, MergeCapture, MergeRefused,
         MergeClean, MergeAgain, MergeAdopt, Discarding, DiscardRead, FinishDiscard
<1>10. CASE Writer
  BY <1>1, <1>3, <1>4, <1>7, <1>10, WriterShrinks DEF QueueMove
<1>11. QED BY <1>8, <1>9, <1>10 DEF Next

\* A preview stays new while its canvas stands and saves only move on.
LEMMA PreviewQueue ==
    ASSUME TypeOK, NoSourceInv, SaveAsAlone, PreviewIsNew, Next, gen' = gen,
           InPreview' => InPreview /\ ~\E t \in Saves : queue' = Append(queue, t)
    PROVE  PreviewIsNew'
<1> SUFFICES ASSUME InPreview', NEW n \in 1 .. Len(queue')
             PROVE  queue'[n].kind # "saveas" /\ queue'[n].gen # gen
  BY DEF PreviewIsNew
<1>1. InPreview /\ QueueMove /\ ~\E t \in Saves : queue' = Append(queue, t)
  BY QueueStep
<1>2. \A m \in 1 .. Len(queue) : queue[m].kind # "saveas" /\ queue[m].gen # gen
  BY <1>1 DEF PreviewIsNew
<1>3. Len(queue) \in Nat
  BY DEF TypeOK
<1>4. CASE queue' = queue
  BY <1>2, <1>4
<1>5. CASE queue # <<>> /\ Release
  BY <1>2, <1>3, <1>5, QueueShift
<1>6. ASSUME queue # <<>>, NEW t \in Saves, IsSuccessor(t), Become(t)
      PROVE  queue'[n].kind # "saveas" /\ queue'[n].gen # gen
  <2>1. Len(queue') = Len(queue) /\ queue'[1] = t
        /\ \A m \in 2 .. Len(queue') : queue'[m] = queue[m]
    BY <1>6, QueueShift
  <2>2. queue[1].kind # "source" /\ 1 \in 1 .. Len(queue) /\ Task = queue[1]
    BY <1>6, TaskType DEF NoSourceInv
  <2>3. t.kind = queue[1].kind /\ t.gen = queue[1].gen
    BY <1>6, <2>2 DEF IsSuccessor
  <2>4. CASE n = 1
    BY <1>2, <2>1, <2>2, <2>3, <2>4
  <2>5. CASE n # 1
    BY <1>2, <1>3, <2>1, <2>5
  <2>6. QED BY <2>4, <2>5
<1>7. QED BY <1>1, <1>4, <1>5, <1>6 DEF QueueMove

\* A frame of a preview takes a generation that no queued save has.
LEMMA PreviewStep ==
    ASSUME TypeOK, NoSource, NoSourceInv, SaveAsAlone, PreviewIsNew, Next
    PROVE  PreviewIsNew'
<1> USE DEF files, canvas, synced, flags, tasks
<1>1. ~InPreview' => PreviewIsNew'
  BY DEF PreviewIsNew
<1>3. ASSUME queue' = queue, gen' = gen, preview' = preview PROVE PreviewIsNew'
  BY <1>3 DEF PreviewIsNew, InPreview
<1>4. CASE User \/ Autosave
  <2>1. ASSUME NEW a \in Artifacts, NEW v \in Values, Preview(a, v) PROVE PreviewIsNew'
    <3>1. gen' = NextGen /\ queue' = queue /\ ~ChangingDestination
      BY <2>1 DEF Preview
    <3>2. \A n \in 1 .. Len(queue) : queue[n].gen # gen'
      BY <3>1, NextGenFresh DEF Held
    <3>3. \A n \in 1 .. Len(queue) : queue[n].kind # "saveas"
      <4> SUFFICES ASSUME NEW n \in 1 .. Len(queue), queue[n].kind = "saveas" PROVE FALSE
        OBVIOUS
      <4>1. n = 1 /\ queue # <<>>
        BY DEF SaveAsAlone, TypeOK
      <4>2. QED BY <3>1, <4>1, TaskType DEF ChangingDestination, Task
    <3>4. QED BY <3>1, <3>2, <3>3 DEF PreviewIsNew
  <2>2. ASSUME NEW a \in Artifacts, NEW v \in Values, Apply(a, v) PROVE PreviewIsNew'
    BY <1>1, <2>2 DEF Apply, InPreview
  <2>3. ASSUME NEW committed \in BOOLEAN, FinishPreview(committed) PROVE PreviewIsNew'
    BY <1>1, <2>3 DEF FinishPreview, InPreview
  <2>4. CASE SaveExplicit \/ SaveAs \/ \E kind \in Kinds : Save(kind)
    BY <1>1, <2>4 DEF SaveExplicit, Save, SaveAs, InPreview
  <2>5. CASE Discard \/ SaveAsRefused \/ SourceEdit \/ SourceRevert
    BY <1>3, <2>5 DEF Discard, SaveAsRefused, SourceEdit, SourceRevert
  <2>6. CASE Autosave
    BY <1>3, <2>4, <2>6 DEF Autosave, Kinds
  <2>7. QED BY <1>4, <2>1, <2>2, <2>3, <2>4, <2>5, <2>6 DEF User, SaveSource, NoSourceInv
<1>5. CASE External \/ Watcher
  BY <1>3, <1>5 DEF External, ExternalEdit, Watcher, TakePaths, FinishCheck
<1>6. CASE Reload
  <2>1. CASE FinishReload \/ FinishMerge
    BY <1>1, <1>3, <2>1 DEF FinishReload, FinishMerge, MergeClean, MergeAdopt, Adopt, InPreview
  <2>2. CASE ReloadStale \/ ReloadDefer \/ ReloadRead \/ ReloadUnchanged \/ ReloadError
             \/ MergeCapture \/ MergeRefused \/ MergeAgain
    BY <1>3, <2>2 DEF ReloadStale, ReloadDefer, ReloadRead, ReloadUnchanged, ReloadError,
                      MergeCapture, MergeRefused, MergeAgain, ItemUnchanged
  <2>3. QED BY <1>6, <2>1, <2>2 DEF Reload
<1>7. CASE Discarding
  BY <1>1, <1>3, <1>7 DEF Discarding, DiscardRead, FinishDiscard, EndDiscard, Adopt, InPreview
<1>8. CASE Writer
  <2>1. ~SourceTurn
    BY TaskType DEF NoSourceInv, SourceTurn
  <2>2. gen' = gen /\ (InPreview' => InPreview)
    BY <1>8, <2>1 DEF Writer, SaveDropped, PrepareSave, WriteSave, WriteFails, FinishSave,
           FinishFailedSave, FinishSaveAs, SaveAsFails, WriteSource, SourceFails, AdoptSource,
           FinishSource, InPreview
  <2>3. ~\E t \in Saves : queue' = Append(queue, t)
    BY <1>8, WriterShrinks
  <2>4. QED BY <2>2, <2>3, PreviewQueue
<1>9. QED BY <1>4, <1>5, <1>6, <1>7, <1>8 DEF Next

\* Files that changed since the initial load have an event.
LEMMA InitLoss == Init => QueueInv /\ LossInv
<1> SUFFICES ASSUME Init PROVE QueueInv /\ LossInv
  OBVIOUS
<1>1. 1 .. Len(queue) = {} /\ ~locked /\ ~InPreview
  BY DEF Init, InPreview
<1>2. QED
  BY <1>1 DEF Init, QueueInv, NoSourceInv, SaveAsAlone, PreviewIsNew, LossInv, NothingLostInv, DiskKnown, Known,
              CheckVouched, ReadKnown, PendingIsReload, Vouched, HasEvent

\* What is known of a file stays known in a step that keeps the files, the events
\* and the tables of the item.
LEMMA KnownKept ==
    ASSUME IInv, UNCHANGED <<disk, events, own, base, session>>,
           check' = check \/ check' = SupersededCheck,
           NEW a \in Artifacts, Known(a)
    PROVE  Known(a)'
<1>1. Vouched(a) => Vouched(a)'
  BY VouchedKept
<1>2. QED BY <1>1 DEF Known

\* A save that is running stays at the head of the queue when another one is added.
LEMMA WritingKept ==
    ASSUME TypeOK, NEW t \in Saves, queue' = Append(queue, t) \/ queue' = queue, Writing
    PROVE  Writing'
<1>1. queue' # <<>> /\ Head(queue') = Head(queue)
  BY TaskType DEF Writing, TypeOK
<1>2. QED BY <1>1 DEF Writing, Task

\* A step that keeps the files, the tables and the reload keeps LossInv.
LEMMA LossSame ==
    ASSUME IInv, LossInv, UNCHANGED <<disk, events, own, base, session, conflict, pending, reload, discard>>,
           check' = check \/ check' = SupersededCheck,
           InPreview' = InPreview \/ ~pending, Writing => Writing'
    PROVE  LossInv'
<1>1. CheckVouched'
  BY CheckKept DEF LossInv, NothingLostInv
<1>2. \A a \in Artifacts : (Vouched(a) => Vouched(a)') /\ (Known(a) => Known(a)')
  BY VouchedKept, KnownKept
<1>3. DiskKnown'
  BY <1>2 DEF LossInv, NothingLostInv, DiskKnown
<1>4. PendingIsReload' /\ (reload # NoTask => pending)
  BY DEF LossInv, NothingLostInv, PendingIsReload
<1>5. ReadKnown'
  BY <1>2, <1>4 DEF LossInv, NothingLostInv, ReadKnown
<1>6. QED BY <1>1, <1>3, <1>4, <1>5 DEF LossInv, NothingLostInv

\* So does one that leaves a fresh reload waiting.
LEMMA LossDebounce ==
    ASSUME CheckVouched', discard' = NoTask, pending' = TRUE,
           reload' # NoTask, reload'.phase = "debounce"
    PROVE  LossInv'
BY DEF LossInv, NothingLostInv, DiskKnown, ReadKnown, PendingIsReload

\* And one that schedules a resynchronization, which a preview may postpone.
LEMMA LossResync ==
    ASSUME ~locked, CheckVouched', discard' = NoTask, preview' = preview,
           NEW slot, Resync(dirty, InPreview, slot)
    PROVE  LossInv'
<1> DEFINE p == InPreview
<1>1. Resync(dirty, p, slot) /\ p \in BOOLEAN /\ p = InPreview'
  BY DEF InPreview
<1> HIDE DEF p
<1>2. /\ pending' = TRUE /\ (p => reload' = slot)
      /\ ~p => reload' # NoTask /\ reload'.phase = "debounce"
  BY <1>1, ResyncTask
<1>3. CASE p
  BY <1>1, <1>2, <1>3 DEF LossInv, NothingLostInv, DiskKnown, ReadKnown, PendingIsReload
<1>4. CASE ~p
  BY <1>2, <1>4, LossDebounce
<1>5. QED BY <1>1, <1>3, <1>4

\* The user's operations and autosave lose no foreign change.
LEMMA LossUser ==
    ASSUME IInv, QueueInv, LossInv, OnlyReloads, User \/ Autosave
    PROVE  LossInv'
<1> USE DEF files, canvas, synced, flags, tasks
<1>1. /\ ~locked /\ discard = NoTask /\ CheckVouched /\ TypeOK
      /\ "discard" \notin Features /\ "source" \notin Features
      /\ reload # NoTask => pending
  BY DEF QueueInv, NoSourceInv, LossInv, NothingLostInv, PendingIsReload, IInv, OnlyReloads
<1>2. ASSUME NEW a \in Artifacts, NEW v \in Values, Apply(a, v) PROVE LossInv'
  <2>1. CASE InPreview /\ pending
    <3>1. Resync(TRUE, FALSE, reload) /\ discard' = NoTask /\ UNCHANGED <<disk, events, own, check>>
      BY <1>1, <1>2, <2>1 DEF Apply
    <3>2. QED BY <1>1, <3>1, CheckKept, ResyncTask, LossDebounce
  <2>2. CASE ~(InPreview /\ pending)
    <3>1. InPreview' = InPreview \/ ~pending
      BY <1>2, <2>2 DEF Apply, InPreview
    <3>2. QED BY <1>2, <2>2, <3>1, LossSame DEF Apply, Writing, Task
  <2>3. QED BY <2>1, <2>2
<1>3. ASSUME NEW committed \in BOOLEAN, FinishPreview(committed) PROVE LossInv'
  <2>1. CASE pending
    <3>1. Resync(dirty', FALSE, reload) /\ discard' = NoTask /\ UNCHANGED <<disk, events, own, check>>
      BY <1>1, <1>3, <2>1 DEF FinishPreview
    <3>2. QED BY <1>1, <3>1, CheckKept, ResyncTask, LossDebounce
  <2>2. CASE ~pending
    BY <1>3, <2>2, LossSame DEF FinishPreview, Writing, Task
  <2>3. QED BY <2>1, <2>2
<1>4. ASSUME NEW a \in Artifacts, NEW v \in Values, Preview(a, v) PROVE LossInv'
  <2>1. CASE pending => InPreview
    <3>1. InPreview' = InPreview \/ ~pending
      BY <1>4, <2>1 DEF Preview, InPreview
    <3>2. QED BY <1>4, <3>1, LossSame DEF Preview, Writing, Task
  <2>2. CASE pending
    <3>1. /\ UNCHANGED <<disk, events, own, check, reload, pending, discard>> /\ InPreview'
      BY <1>4 DEF Preview, InPreview
    <3>2. CheckVouched'
      BY <1>1, <3>1, CheckKept
    <3>3. QED BY <1>1, <2>2, <3>1, <3>2 DEF LossInv, NothingLostInv, DiskKnown, ReadKnown, PendingIsReload
  <2>3. QED BY <2>1, <2>2
<1>5. ASSUME NEW kind \in Kinds, Save(kind) PROVE LossInv'
  <2> DEFINE t == [kind |-> kind, phase |-> "queued", gen |-> gen, doc |-> doc]
  <2>1. t \in Saves
    BY <1>1 DEF Saves, TypeOK, Kinds
  <2> HIDE DEF t
  <2>2. queue' = Append(queue, t)
    BY <1>5 DEF Save, t
  <2>3. Writing => Writing'
    BY <1>1, <2>1, <2>2, WritingKept
  <2>4. QED BY <1>1, <1>5, <2>3, LossSame DEF Save
<1>6. CASE SaveAs
  <2>1. SupersededDiscard = discard /\ ~Writing
    BY <1>1, <1>6 DEF SaveAs, SupersededDiscard, Writing, Idle
  <2>2. QED BY <1>1, <1>6, <2>1, LossSame DEF SaveAs
<1>7. CASE SaveAsRefused
  BY <1>7, LossSame DEF SaveAsRefused, Writing, Task, InPreview
<1>8. CASE Autosave
  BY <1>5, <1>8, LossSame DEF Autosave, Kinds, Writing, Task, InPreview
<1>9. QED
  BY <1>1, <1>2, <1>3, <1>4, <1>5, <1>6, <1>7, <1>8
     DEF User, Discard, SaveExplicit, SourceEdit, SourceRevert, SaveSource, Kinds

\* A foreign write has an event, and the watcher hands what it took to a task.
LEMMA LossFiles ==
    ASSUME IInv, QueueInv, LossInv, External \/ Watcher
    PROVE  LossInv'
<1> USE DEF files, canvas, synced, flags, tasks
<1>1. ~locked /\ discard = NoTask /\ CheckVouched /\ TypeOK
  BY DEF QueueInv, NoSourceInv, LossInv, NothingLostInv, IInv
<1>2. ASSUME UNCHANGED <<queue, preview, pending, conflict, reload, discard>>, CheckVouched',
             \A a \in Artifacts : (Vouched(a) => Vouched(a)') /\ (Known(a) => Known(a)'),
             \A a \in Artifacts : disk'[a] = disk[a] \/ Vouched(a)'
      PROVE  LossInv'
  <2>1. (Writing' <=> Writing) /\ (InPreview' <=> InPreview)
    BY <1>2 DEF Writing, Task, InPreview
  <2>2. DiskKnown'
    BY <1>2, <2>1 DEF LossInv, NothingLostInv, DiskKnown
  <2>3. ReadKnown'
    BY <1>2, <2>1 DEF LossInv, NothingLostInv, ReadKnown
  <2>4. QED BY <1>2, <2>1, <2>2, <2>3 DEF LossInv, NothingLostInv, PendingIsReload
<1>3. ASSUME NEW b \in Artifacts, NEW v \in Values \cup {Broken}, ExternalEdit(b, v)
      PROVE  LossInv'
  <2>1. /\ disk' = [disk EXCEPT ![b] = v] /\ events' = events \cup {b}
        /\ UNCHANGED <<base, session, own, check, reload, discard, pending, conflict, preview, queue>>
    BY <1>3 DEF ExternalEdit
  <2>2. /\ b \in events'
        /\ \A a \in Artifacts : a # b => disk'[a] = disk[a]
        /\ \A a \in Artifacts : a \in events => a \in events'
    BY <1>1, <2>1 DEF TypeOK, Disks
  <2>3. \A a \in Artifacts : Vouched(a) => Vouched(a)'
    BY <2>1, <2>2 DEF Vouched, HasEvent
  <2>4. Vouched(b)'
    BY <2>2 DEF Vouched, HasEvent
  <2>5. \A a \in Artifacts : Known(a) => Known(a)'
    BY <2>1, <2>2, <2>3, <2>4 DEF Known
  <2>6. CheckVouched'
    BY <1>1, <2>1, <2>2 DEF CheckVouched, TypeOK, Checks
  <2>7. QED BY <1>2, <2>1, <2>2, <2>3, <2>4, <2>5, <2>6
<1>4. ASSUME NEW paths \in SUBSET events, TakePaths(paths)
      PROVE  LossInv'
  <2>1. /\ check = NoTask /\ events' = events \ paths
        /\ check' = [paths |-> paths, fresh |-> TRUE, changed |-> \E a \in paths : disk[a] # own[a]]
        /\ UNCHANGED <<disk, base, session, own, reload, discard, pending, conflict, preview, queue>>
    BY <1>4 DEF TakePaths
  <2>2. check' # NoTask /\ check'.paths = paths
    <3>1. check' \in Checks
      BY <1>1, <2>1 DEF Checks, TypeOK
    <3>2. QED BY <2>1, <3>1, TaskAssumption
  <2>3. \A a \in Artifacts : Vouched(a) => Vouched(a)'
    BY <2>1, <2>2 DEF Vouched, HasEvent
  <2>4. \A a \in Artifacts : Known(a) => Known(a)'
    BY <2>1, <2>3 DEF Known
  <2>5. CheckVouched'
    BY <2>1, <2>2 DEF CheckVouched
  <2>6. QED BY <1>2, <2>1, <2>3, <2>4, <2>5
<1>5. CASE FinishCheck
  <2>1. /\ check # NoTask /\ check' = NoTask
        /\ UNCHANGED <<disk, base, session, own, preview, discard, queue>>
    BY <1>5 DEF FinishCheck
  <2>2. CheckVouched'
    BY <2>1 DEF CheckVouched
  <2>3. CASE events' = events \cup check.paths /\ UNCHANGED <<conflict, pending, reload>>
    <3>1. \A a \in Artifacts : Vouched(a) => Vouched(a)'
      BY <2>1, <2>3 DEF Vouched, HasEvent
    <3>2. \A a \in Artifacts : Known(a) => Known(a)'
      BY <2>1, <3>1 DEF Known
    <3>3. QED BY <1>2, <2>1, <2>2, <2>3, <3>1, <3>2
  <2>4. CASE check.fresh /\ ~check.changed /\ UNCHANGED <<events, conflict, pending, reload>>
    <3>1. \A a \in Artifacts : Vouched(a) => Vouched(a)'
      BY <1>1, <2>1, <2>4 DEF Vouched, HasEvent, CheckVouched
    <3>2. \A a \in Artifacts : Known(a) => Known(a)'
      BY <2>1, <3>1 DEF Known
    <3>3. QED BY <1>2, <2>1, <2>2, <2>4, <3>1, <3>2
  <2>5. CASE Resync(dirty, InPreview, reload)
    BY <1>1, <2>1, <2>2, <2>5, LossResync
  <2>6. QED BY <1>5, <2>3, <2>4, <2>5 DEF FinishCheck
<1>6. QED BY <1>3, <1>4, <1>5 DEF External, Watcher

\* A read that found nothing found what the session describes; one that found
\* something indexes the files as they are.
LEMMA ReadKnowsDisk ==
    ASSUME TypeOK, NEW into \in Trees
    PROVE  /\ ReadProject(into).result = "unchanged" => session # NoIndex /\ disk = session
           /\ ReadProject(into).result = "changed" => ReadProject(into).index = disk
<1> DEFINE changed == {a \in Artifacts : disk[a] # session[a]}
           spliced == [a \in Artifacts |-> IF a \in changed THEN disk[a] ELSE into[a]]
<1>1. session # NoIndex /\ changed = {} => disk = session
  BY DEF TypeOK, Indexes, Disks
<1> HIDE DEF spliced
<1>2. CASE ReadProject(into) = ReadAll
  BY <1>2 DEF ReadAll
<1>3. CASE ReadProject(into) = [result |-> "changed", index |-> disk, doc |-> spliced]
  BY <1>3
<1>4. CASE ReadProject(into) = [result |-> "unchanged"] /\ changed = {} /\ session # NoIndex
  BY <1>1, <1>4
<1>5. CASE ReadProject(into) = [result |-> "error"]
  BY <1>5
<1>6. QED BY <1>2, <1>3, <1>4, <1>5 DEF ReadProject, ReadChanged, spliced

\* A reload that ends has adopted the files or raised the conflict.
LEMMA LossReload ==
    ASSUME IInv, QueueInv, LossInv, Reload
    PROVE  LossInv'
<1> USE DEF files, canvas, synced, flags, tasks, ItemUnchanged
<1>1. /\ UNCHANGED <<disk, events, own, queue>> /\ (check' = check \/ check' = SupersededCheck)
      /\ reload # NoTask /\ (discard' = discard \/ discard' = SupersededDiscard)
  BY DEF Reload, FinishMerge, ReloadStale, ReloadDefer, ReloadRead, ReloadUnchanged, ReloadError,
         FinishReload, MergeCapture, MergeRefused, MergeClean, MergeAgain, MergeAdopt, Merging
<1>2. /\ ~locked /\ pending /\ discard' = NoTask /\ TypeOK /\ CheckVouched'
      /\ (Writing' <=> Writing)
  BY <1>1, CheckKept DEF QueueInv, NoSourceInv, LossInv, NothingLostInv, PendingIsReload, IInv, SupersededDiscard,
                         Writing, Task
<1>3. \A a \in Artifacts : Vouched(a) => Vouched(a)'
  BY <1>1, VouchedKept
<1>4. ASSUME pending' = TRUE, InPreview', reload' = NoTask PROVE LossInv'
  BY <1>2, <1>4 DEF LossInv, NothingLostInv, DiskKnown, ReadKnown, PendingIsReload
<1>5. ASSUME pending' = FALSE, reload' = NoTask,
             conflict' \/ \A a \in Artifacts : Known(a)' \/ Writing'
      PROVE  LossInv'
  BY <1>2, <1>5 DEF LossInv, NothingLostInv, DiskKnown, ReadKnown, PendingIsReload
<1>6. CASE ReloadStale
  BY <1>2, <1>6, LossResync DEF ReloadStale
<1>7. CASE ReloadDefer
  BY <1>4, <1>7 DEF ReloadDefer, InPreview
<1>8. CASE ReloadRead
  <2> DEFINE into == IF reload.kind = "merge" THEN base ELSE doc
             read == ReadProject(into)
             t == [kind |-> reload.kind, phase |-> "loaded", read |-> read]
  <2>1. into \in Trees
    BY <1>2 DEF TypeOK
  <2> HIDE DEF into
  <2>2. /\ read.result = "unchanged" => session # NoIndex /\ disk = session
        /\ read.result = "changed" => read.index = disk
    BY <1>2, <2>1, ReadKnowsDisk
  <2>3. t # NoTask
    <3>1. read \in Reads
      BY <1>2, <2>1, ReadProjectType
    <3>2. reload.kind \in {"merge", "reload"}
      BY <1>1, <1>2 DEF TypeOK, ReloadTasks
    <3> HIDE DEF read
    <3>3. t \in ReloadTasks
      BY <3>1, <3>2 DEF ReloadTasks
    <3>4. QED BY <3>3, TaskAssumption
  <2> HIDE DEF read
  <2>4. reload' = t /\ UNCHANGED <<base, session, pending, conflict, preview>>
    BY <1>8 DEF ReloadRead, into, read
  <2>5. reload'.read = read
    BY <2>4
  <2>6. DiskKnown'
    BY <1>2, <2>4 DEF DiskKnown
  <2>7. ReadKnown'
    BY <1>1, <2>2, <2>4, <2>5 DEF ReadKnown, Known
  <2>8. PendingIsReload'
    BY <1>2, <2>3, <2>4 DEF PendingIsReload
  <2>9. QED BY <1>2, <2>6, <2>7, <2>8 DEF LossInv, NothingLostInv
<1>9. CASE ReloadUnchanged
  <2>1. \A a \in Artifacts : Known(a) \/ Writing
    BY <1>1, <1>9 DEF ReloadUnchanged, LossInv, NothingLostInv, ReadKnown
  <2>2. pending' = FALSE /\ reload' = NoTask /\ UNCHANGED <<base, session>>
    BY <1>9 DEF ReloadUnchanged
  <2>3. \A a \in Artifacts : Known(a)' \/ Writing'
    BY <1>1, <1>2, <1>3, <2>1, <2>2 DEF Known
  <2>4. QED BY <1>5, <2>2, <2>3
<1>10. CASE ReloadError \/ MergeRefused
  BY <1>5, <1>10 DEF ReloadError, MergeRefused, RaiseConflict
<1>11. CASE MergeAgain
  <2>1. Resync(TRUE, FALSE, NoTask)
    BY <1>2, <1>11 DEF Resync, MergeAgain
  <2>2. QED BY <1>2, <2>1, ResyncTask, LossDebounce
<1>12. CASE MergeCapture
  <2> DEFINE t == [kind |-> "merge", phase |-> "merging", read |-> reload.read,
                   ours |-> doc, gen |-> gen]
  <2>1. reload.read \in Reads /\ reload.read.result = "changed"
    BY <1>1, <1>2, <1>12 DEF MergeCapture, TypeOK, ReloadTasks
  <2>2. reload.read \in ChangedReads
    BY <2>1 DEF Reads
  <2>3. t \in ReloadTasks
    BY <1>2, <2>2 DEF ReloadTasks, TypeOK
  <2>4. t # NoTask /\ t.read = reload.read
    BY <2>3, TaskAssumption
  <2> HIDE DEF t
  <2>5. reload' = t /\ UNCHANGED <<base, pending, conflict, preview>> /\ ~InPreview
        /\ reload.phase = "loaded"
    BY <1>12 DEF MergeCapture, t
  <2>6. DiskKnown' /\ PendingIsReload'
    BY <1>2, <2>4, <2>5 DEF DiskKnown, PendingIsReload
  <2>7. ReadKnown'
    BY <1>1, <1>3, <2>1, <2>4, <2>5 DEF LossInv, NothingLostInv, ReadKnown
  <2>8. QED BY <1>2, <2>6, <2>7 DEF LossInv, NothingLostInv
<1>13. ASSUME reload.phase \in {"loaded", "merging"}, ~InPreview, reload.read \in ChangedReads,
              pending' = FALSE, reload' = NoTask, session' = reload.read.index
       PROVE  LossInv'
  <2>1. reload.read.result = "changed" /\ session' # NoIndex
    BY <1>13, ValuesAssumption DEF ChangedReads, Disks
  <2>2. \A a \in Artifacts : disk[a] = reload.read.index[a] \/ Vouched(a)
    BY <1>1, <1>13, <2>1 DEF LossInv, NothingLostInv, ReadKnown
  <2>3. \A a \in Artifacts : Known(a)'
    BY <1>1, <1>3, <1>13, <2>1, <2>2 DEF Known
  <2>4. QED BY <1>5, <1>13, <2>3
<1>14. CASE FinishReload
  <2>1. reload.read \in ChangedReads
    <3>1. reload.read \in Reads /\ reload.read.result = "changed"
      BY <1>1, <1>2, <1>14 DEF FinishReload, TypeOK, ReloadTasks
    <3>2. QED BY <3>1 DEF Reads
  <2>2. QED BY <1>5, <1>13, <1>14, <2>1 DEF FinishReload, RaiseConflict, Adopt
<1>15. CASE FinishMerge
  <2>1. Merging /\ ~InPreview /\ pending' = FALSE /\ reload' = NoTask /\ session' = reload.read.index
    BY <1>15 DEF FinishMerge, MergeClean, MergeAdopt, Adopt
  <2>2. reload.read \in ChangedReads
    BY <1>2, <2>1 DEF Merging, TypeOK, ReloadTasks
  <2>3. QED BY <1>13, <2>1, <2>2 DEF Merging
<1>16. QED BY <1>6, <1>7, <1>8, <1>9, <1>10, <1>11, <1>12, <1>14, <1>15 DEF Reload

\* A superseded reload is still a reload, and has nothing read.
LEMMA SupersededWaits ==
    ASSUME TypeOK, reload' = SupersededReload
    PROVE  /\ reload' = NoTask <=> reload = NoTask
           /\ reload' # NoTask => reload'.phase = "stale"
<1> DEFINE t == [kind |-> reload.kind, phase |-> "stale"]
<1>1. reload # NoTask => t \in ReloadTasks
  BY DEF TypeOK, ReloadTasks
<1>2. t.phase = "stale"
  OBVIOUS
<1> HIDE DEF t
<1>3. reload' = IF reload = NoTask THEN NoTask ELSE t
  BY DEF SupersededReload, t
<1>4. QED BY <1>1, <1>2, <1>3, TaskAssumption

\* A save that ends has taken the files as they are for the new session, or waits
\* for a reload; while it runs it answers for them.
LEMMA LossWriter ==
    ASSUME IInv, QueueInv, LossInv, Writer
    PROVE  LossInv'
<1> USE DEF files, canvas, synced, flags, tasks
<1>1. /\ ~locked /\ discard = NoTask /\ CheckVouched /\ TypeOK /\ ~SourceTurn
      /\ queue # <<>> /\ Task \in Saves /\ 1 \in 1 .. Len(queue) /\ Task = queue[1]
  <2>1. queue # <<>>
    BY DEF Writer, SaveDropped, PrepareSave, WriteSave, WriteFails, FinishSave, FinishFailedSave,
           FinishSaveAs, SaveAsFails, WriteSource, SourceFails, AdoptSource, FinishSource,
           Saving, ChangingDestination, SourceTurn
  <2>2. QED BY <2>1, TaskType DEF QueueInv, NoSourceInv, LossInv, NothingLostInv, IInv, SourceTurn
<1>2. ASSUME NEW t, t.phase # "queued", Become(t) PROVE Writing'
  <2>1. queue' = <<t>> \o Tail(queue) /\ Tail(queue) \in Seq(Saves)
    BY <1>1, <1>2, TaskType DEF Become
  <2>2. queue' # <<>> /\ Head(queue') = t
    BY <2>1
  <2>3. QED BY <1>2, <2>2 DEF Writing, Task
<1>3. CASE SaveDropped \/ SaveAsFails
  <2>1. Task.phase = "queued"
    BY <1>1, <1>3 DEF SaveDropped, SaveAsFails, ChangingDestination, Task, Saves, Kinds
  <2>2. ~Writing
    BY <2>1 DEF Writing
  <2>3. UNCHANGED <<files, synced, conflict, pending, preview, tasks>>
    BY <1>3 DEF SaveDropped, SaveAsFails
  <2>4. QED BY <2>2, <2>3, LossSame DEF InPreview
<1>4. CASE PrepareSave \/ WriteFails
  <2>1. /\ UNCHANGED <<files, base, own, conflict, pending, preview, tasks>> /\ Writing'
    BY <1>2, <1>4 DEF PrepareSave, WriteFails
  <2>2. CheckVouched' /\ \A a \in Artifacts : Vouched(a) => Vouched(a)'
    BY <1>1, <2>1, CheckKept, VouchedKept
  <2>3. QED BY <2>1, <2>2 DEF LossInv, NothingLostInv, DiskKnown, ReadKnown, PendingIsReload, InPreview
<1>5. CASE WriteSave
  <2>1. /\ events' = events \cup {a \in Artifacts : disk'[a] # disk[a]}
        /\ UNCHANGED <<synced, tasks, pending, conflict, preview>> /\ Writing'
    BY <1>2, <1>5 DEF WriteSave
  <2>2. \A a \in Artifacts : disk'[a] = disk[a] \/ a \in events'
    BY <2>1
  <2>3. \A a \in Artifacts : Vouched(a) => Vouched(a)'
    BY <2>1, <2>2 DEF Vouched, HasEvent
  <2>4. \A a \in Artifacts : disk'[a] = disk[a] \/ Vouched(a)'
    BY <2>2 DEF Vouched, HasEvent
  <2>5. CheckVouched'
    BY <1>1, <2>1, <2>2 DEF CheckVouched, TypeOK, Checks
  <2>6. ReadKnown'
    BY <2>1, <2>3, <2>4 DEF LossInv, NothingLostInv, ReadKnown, InPreview
  <2>7. QED BY <2>1, <2>5, <2>6 DEF LossInv, NothingLostInv, DiskKnown, PendingIsReload, InPreview
<1>6. ASSUME check' = SupersededCheck, reload' = SupersededReload, discard' = SupersededDiscard,
             pending' = pending, InPreview' = InPreview \/ ~InPreview,
             \A a \in Artifacts : Known(a)'
      PROVE  LossInv'
  <2>1. CheckVouched' /\ discard' = NoTask
    BY <1>1, <1>6 DEF CheckVouched, SupersededCheck, SupersededDiscard
  <2>2. (reload' = NoTask <=> reload = NoTask) /\ (reload' # NoTask => reload'.phase = "stale")
    BY <1>1, <1>6, SupersededWaits
  <2>3. QED BY <1>6, <2>1, <2>2 DEF LossInv, NothingLostInv, DiskKnown, ReadKnown, PendingIsReload
<1>7. CASE FinishSave
  <2>1. Task.wrote = disk /\ disk' = disk /\ session' = Task.wrote
    BY <1>7 DEF FinishSave
  <2>2. session' # NoIndex
    BY <1>1, <2>1, ValuesAssumption DEF TypeOK, Disks
  <2>3. \A a \in Artifacts : Known(a)'
    BY <2>1, <2>2 DEF Known
  <2>4. InPreview' = InPreview
    <3>1. CASE InPreview
      <4>1. gen # Task.gen
        BY <1>1, <3>1 DEF QueueInv, PreviewIsNew
      <4>2. QED BY <1>7, <4>1 DEF FinishSave, InPreview
    <3>2. CASE ~InPreview
      BY <1>7, <3>2 DEF FinishSave, InPreview
    <3>3. QED BY <3>1, <3>2 DEF InPreview
  <2>5. QED BY <1>6, <1>7, <2>3, <2>4 DEF FinishSave
<1>8. CASE FinishSaveAs
  <2>1. Task.kind = "saveas"
    BY <1>8 DEF FinishSaveAs, ChangingDestination, Task
  <2>2. ~InPreview
    BY <1>1, <2>1 DEF QueueInv, PreviewIsNew
  <2>3. \A a \in Artifacts : Known(a)'
    BY <1>8 DEF FinishSaveAs, Known
  <2>4. QED BY <1>6, <1>8, <2>2, <2>3 DEF FinishSaveAs
<1>9. CASE FinishFailedSave
  <2>1. UNCHANGED <<disk, events, own, check, discard, preview>> /\ Resync(dirty, InPreview, reload)
    BY <1>9 DEF FinishFailedSave
  <2>2. QED BY <1>1, <2>1, CheckKept, LossResync
<1>10. QED
  BY <1>1, <1>3, <1>4, <1>5, <1>7, <1>8, <1>9
     DEF Writer, WriteSource, SourceFails, AdoptSource, FinishSource

\* LossInv is inductive relative to IInv and QueueInv.
LEMMA NextLoss ==
    ASSUME IInv, QueueInv, LossInv, OnlyReloads, [Next]_vars
    PROVE  QueueInv' /\ LossInv'
<1>1. CASE Next
  <2>1. NoSource /\ TypeOK /\ ~Discarding
    BY DEF OnlyReloads, NoSource, IInv, LossInv, NothingLostInv, Discarding, DiscardRead, FinishDiscard
  <2>2. QueueInv'
    BY <1>1, <2>1, NoSourceStep, SaveAsStep, PreviewStep DEF QueueInv
  <2>3. LossInv'
    BY <1>1, <2>1, LossUser, LossFiles, LossReload, LossWriter DEF Next
  <2>4. QED BY <2>2, <2>3
<1>2. CASE UNCHANGED vars
  <2>1. QueueInv'
    BY <1>2 DEF vars, canvas, flags, QueueInv, NoSourceInv, SaveAsAlone, PreviewIsNew, InPreview
  <2>2. LossInv'
    BY <1>2, LossSame DEF vars, files, canvas, synced, flags, tasks, Writing, Task, InPreview
  <2>3. QED BY <2>1, <2>2
<1>3. QED BY <1>1, <1>2

\* For any number of queued saves, with previews, Save As, failing saves and files that
\* do not parse: a file that changed since a read or a check has an event of its own, what
\* a save or a preview holds up is waited for, and what a reload has read describes the
\* files (watcher events, pending_paths, pending_reconciliation, sync_epoch).
THEOREM NothingIsLost ==
    ASSUME OnlyReloads
    PROVE  Spec => []NothingLostInv
<1>1. Init => IInv /\ QueueInv /\ LossInv
  BY InitIInv, InitLoss
<1>2. IInv /\ QueueInv /\ LossInv /\ [Next]_vars => (IInv /\ QueueInv /\ LossInv)'
  BY NextIInv, NextLoss
<1>3. LossInv => NothingLostInv
  BY DEF LossInv
<1>4. QED BY <1>1, <1>2, <1>3, PTL DEF Spec

\* So a file that differs from what the canvas last reconciled with has an
\* event, a task, a save or a message to the user behind it, or its bytes are vouched
\* for by the item's tables.  A discard breaks it: it adopts what it read before the
\* conflict that it clears.
THEOREM NoChangeUnnoticed ==
    ASSUME OnlyReloads
    PROVE  Spec => []DivergenceNoticed
<1>1. Init => IInv /\ QueueInv /\ LossInv
  BY InitIInv, InitLoss
<1>2. IInv /\ QueueInv /\ LossInv /\ [Next]_vars => (IInv /\ QueueInv /\ LossInv)'
  BY NextIInv, NextLoss
<1>3. LossInv => DivergenceNoticed
  BY DEF LossInv, NothingLostInv, DiskKnown, Known, Vouched, HasEvent, Writing, Idle, DivergenceNoticed, Noticed
<1>4. QED BY <1>1, <1>2, <1>3, PTL DEF Spec

\* Under the same hypothesis nobody waits in vain for "external changes are still being
\* reconciled": a reload is on its way, or the end of a preview starts one.
THEOREM PendingIsServed ==
    ASSUME OnlyReloads
    PROVE  Spec => []PendingHasTask
<1>1. Init => IInv /\ QueueInv /\ LossInv
  BY InitIInv, InitLoss
<1>2. IInv /\ QueueInv /\ LossInv /\ [Next]_vars => (IInv /\ QueueInv /\ LossInv)'
  BY NextIInv, NextLoss
<1>3. LossInv => PendingHasTask
  BY DEF LossInv, NothingLostInv, PendingIsReload, PendingHasTask
<1>4. QED BY <1>1, <1>2, <1>3, PTL DEF Spec

-----------------------------------------------------------------------------
(***************************************************************************)
(* Nothing saved is reverted, when nobody else writes.                     *)
(***************************************************************************)

\* Only the item writes, and not through the source editor.  A clean canvas shows the
\* base for want of previews, or no load is spliced with it because all files are
\* shared ones.
Alone == "alone" \in Features /\ NoSource /\ (NoPreview \/ Shared = Artifacts)

\* A finished load brings the index of its document, and the files that still are
\* what the item takes them to be are what it has read.
Current(read) ==
    /\ read.doc = read.index
    /\ \A a \in Artifacts : disk[a] = base[a] => read.doc[a] = disk[a]

ReloadCurrent ==
    reload # NoTask /\ reload.phase \in {"loaded", "merging"} /\ reload.read.result = "changed" =>
        (reload.kind = "reload" /\ dirty /\ preview # "clean") \/ Current(reload.read)
DiscardCurrent ==
    discard # NoTask /\ discard.phase = "loaded" /\ discard.read.result = "changed" =>
        Current(discard.read)

\* Where the disk passes the check against an index, document b is what is on disk.
Agrees(index, b) ==
    \A a \in Artifacts : index = NoIndex \/ disk[a] = index[a] => b[a] = disk[a]

\* The session, or the index and baseline of the save that took it, agree with the
\* base; what a save has written is its snapshot.
SessionAgrees ==
    /\ ~Writing => Agrees(session, base)
    /\ Writing => /\ session # NoIndex => session = base
                  /\ Task.phase \in {"prepared", "failed", "written"} => Agrees(Task.index, base)
                  /\ Task.phase = "prepared" => Agrees(Task.index, Task.base)
                  /\ Task.phase = "written" => disk = Task.wrote /\ Task.wrote = Task.doc

\* Only the head of the queue runs.
TailQueued == \A n \in 2 .. Len(queue) : queue[n].phase = "queued"

AloneInv == ReloadCurrent /\ DiscardCurrent /\ SessionAgrees /\ TailQueued

\* Saves are queued, and move on only at the head.
LEMMA TailStep ==
    ASSUME TypeOK, TailQueued, Next
    PROVE  TailQueued'
<1>1. QueueMove /\ Len(queue) \in Nat
  BY QueueStep DEF TypeOK
<1>2. CASE queue' = queue
  BY <1>2 DEF TailQueued
<1>3. CASE queue # <<>> /\ Release
  <2>1. Len(queue') = Len(queue) - 1 /\ \A n \in 1 .. Len(queue') : queue'[n] = queue[n + 1]
    BY <1>3, QueueShift
  <2>2. \A n \in 2 .. Len(queue') : n + 1 \in 2 .. Len(queue) /\ n \in 1 .. Len(queue')
    BY <1>1, <2>1
  <2>3. QED BY <2>1, <2>2 DEF TailQueued
<1>4. ASSUME NEW t \in Saves, IsSnapshot(t), queue' = Append(queue, t) PROVE TailQueued'
  <2>1. Len(queue') = Len(queue) + 1 /\ queue'[Len(queue) + 1] = t
        /\ \A n \in 1 .. Len(queue) : queue'[n] = queue[n]
    BY <1>4 DEF TypeOK
  <2>2. \A n \in 2 .. Len(queue') : n = Len(queue) + 1 \/ n \in 2 .. Len(queue)
    BY <1>1, <2>1
  <2>3. t.phase = "queued"
    BY <1>4 DEF IsSnapshot
  <2>4. \A n \in 2 .. Len(queue) : n \in 1 .. Len(queue)
    BY <1>1
  <2>5. QED BY <2>1, <2>2, <2>3, <2>4 DEF TailQueued
<1>5. ASSUME queue # <<>>, NEW t \in Saves, Become(t) PROVE TailQueued'
  <2>1. Len(queue') = Len(queue) /\ \A n \in 2 .. Len(queue') : queue'[n] = queue[n]
    BY <1>5, QueueShift
  <2>2. QED BY <2>1 DEF TailQueued
<1>6. QED BY <1>1, <1>2, <1>3, <1>4, <1>5 DEF QueueMove

\* When a lease is dropped the next save has not begun.
LEMMA ReleasedRests ==
    ASSUME TypeOK, TailQueued, queue # <<>>, Release
    PROVE  ~Writing'
<1>1. SUFFICES ASSUME queue' # <<>> PROVE queue'[1].phase = "queued"
  <2>1. queue' \in Seq(Saves)
    BY ReleaseType
  <2>2. queue' # <<>> => Head(queue') = queue'[1]
    BY <2>1
  <2>3. QED BY <1>1, <2>2 DEF Writing, Task
<1>2. Len(queue') = Len(queue) - 1 /\ Len(queue) \in Nat
      /\ \A n \in 1 .. Len(queue') : queue'[n] = queue[n + 1]
  BY QueueShift DEF TypeOK
<1>3. queue' \in Seq(Saves)
  BY ReleaseType
<1>4. Len(queue') >= 1
  BY <1>1, <1>3
<1>5. 1 \in 1 .. Len(queue') /\ 1 + 1 \in 2 .. Len(queue)
  BY <1>2, <1>4
<1>6. QED BY <1>2, <1>5 DEF TailQueued

\* A save that moves on is running.
LEMMA BecomeRuns ==
    ASSUME TypeOK, queue # <<>>, NEW t, Become(t)
    PROVE  queue' # <<>> /\ Task' = t
<1>1. queue' = <<t>> \o Tail(queue) /\ Tail(queue) \in Seq(Saves)
  BY TaskType DEF Become
<1>2. queue' # <<>> /\ Head(queue') = t
  BY <1>1
<1>3. QED BY <1>2 DEF Task

\* A save that is queued leaves the head alone.
LEMMA QueuedBehind ==
    ASSUME TypeOK, NEW t \in Saves, t.phase = "queued", queue' = Append(queue, t)
    PROVE  (Writing' <=> Writing) /\ (Writing => Task' = Task)
<1>1. CASE queue = <<>>
  <2>1. queue' # <<>> /\ Head(queue') = t
    BY <1>1
  <2>2. QED BY <1>1, <2>1 DEF Writing, Task
<1>2. CASE queue # <<>>
  <2>1. queue' # <<>> /\ Head(queue') = Head(queue)
    BY <1>2, TaskType DEF TypeOK
  <2>2. QED BY <1>2, <2>1 DEF Writing, Task
<1>3. QED BY <1>1, <1>2

-----------------------------------------------------------------------------
\* Agreement needs the files, the base, the session and the running save only.
LEMMA SameAgrees ==
    ASSUME SessionAgrees, UNCHANGED <<disk, base, session>>,
           Writing' <=> Writing, Writing => Task' = Task
    PROVE  SessionAgrees'
BY DEF SessionAgrees, Agrees

\* A reload that was not read in this step and keeps its read is as current as before,
\* if no file has become what the base has.
LEMMA KeptCurrent ==
    ASSUME ReloadCurrent, base' = base,
           \A a \in Artifacts : disk'[a] = disk[a] \/ disk'[a] # base[a],
           \/ reload' = NoTask
           \/ reload'.phase \in {"debounce", "stale"}
           \/ /\ reload # NoTask /\ reload'.kind = reload.kind /\ reload'.read = reload.read
              /\ reload'.phase \in {"loaded", "merging"} => reload.phase \in {"loaded", "merging"},
           dirty /\ preview # "clean" => dirty' /\ preview' # "clean"
    PROVE  ReloadCurrent'
BY DEF ReloadCurrent, Current

\* So is a discard.
LEMMA KeptDiscard ==
    ASSUME DiscardCurrent, base' = base,
           \A a \in Artifacts : disk'[a] = disk[a] \/ disk'[a] # base[a],
           discard' = NoTask \/ discard'.phase # "loaded" \/ discard' = discard
    PROVE  DiscardCurrent'
BY DEF DiscardCurrent, Current

\* Moving sync_epoch leaves nothing read.
LEMMA SupersededUnread ==
    /\ SupersededReload = NoTask \/ SupersededReload.phase = "stale"
    /\ SupersededDiscard = NoTask \/ SupersededDiscard.phase = "stale"
BY DEF SupersededReload, SupersededDiscard

\* A document that is adopted with its index agrees with the session it becomes.
LEMMA AdoptedAgrees ==
    ASSUME SessionAgrees, NEW read, Current(read), read.index \in Disks,
           base' = read.doc, session' = read.index, UNCHANGED <<disk, queue>>
    PROVE  SessionAgrees'
<1>1. session' # NoIndex /\ session' = base'
  BY ValuesAssumption DEF Current, Disks
<1>2. Agrees(session, base)'
  BY <1>1 DEF Agrees
<1>3. Writing' = Writing /\ Task' = Task
  BY DEF Writing, Task
<1>4. \A index : Agrees(index, base) => \A a \in Artifacts :
          index = NoIndex \/ disk[a] = index[a] => read.doc[a] = disk[a]
  BY DEF Agrees, Current
<1>5. Writing /\ Task.phase \in {"prepared", "failed", "written"} => Agrees(Task.index, base)'
  BY <1>3, <1>4 DEF SessionAgrees, Agrees
<1>6. Writing /\ Task.phase = "prepared" => Agrees(Task.index, Task.base)'
  BY <1>3 DEF SessionAgrees, Agrees
<1>7. QED BY <1>1, <1>2, <1>3, <1>5, <1>6 DEF SessionAgrees

-----------------------------------------------------------------------------
\* The user, the timer and the watcher read and write nothing.
LEMMA AloneUser ==
    ASSUME IInv, NoSourceInv, AloneInv, User \/ Watcher \/ Autosave
    PROVE  ReloadCurrent' /\ DiscardCurrent' /\ SessionAgrees'
<1> USE DEF files, canvas, synced, flags, tasks
<1> DEFINE Waits == reload' = reload \/ reload' = NoTask \/ reload'.phase \in {"debounce", "stale"}
           Queues == queue' = queue \/ \E t \in Saves : t.phase = "queued" /\ queue' = Append(queue, t)
           Rests == discard' = discard \/ discard' = NoTask \/ discard'.phase # "loaded"
           Stays == dirty /\ preview # "clean" => dirty' /\ preview' # "clean"
<1>1. TypeOK /\ ~locked
  BY DEF IInv, NoSourceInv
<1>2. SUFFICES UNCHANGED <<disk, base, session>> /\ Waits /\ Queues /\ Rests /\ Stays
  <2>1. (Writing' <=> Writing) /\ (Writing => Task' = Task)
    BY <1>1, <1>2, QueuedBehind DEF Writing, Task
  <2>2. SessionAgrees'
    BY <1>2, <2>1, SameAgrees DEF AloneInv
  <2>3. ReloadCurrent'
    BY <1>2, KeptCurrent DEF AloneInv, ReloadCurrent
  <2>4. DiscardCurrent'
    BY <1>2, KeptDiscard DEF AloneInv
  <2>5. QED BY <2>2, <2>3, <2>4
<1>3. \A d, p : Resync(d, p, reload) => Waits
  BY ResyncNotMerging
<1>4. ASSUME NEW kind \in Kinds \cup {"saveas"},
             queue' = Append(queue, [kind |-> kind, phase |-> "queued", gen |-> gen, doc |-> doc])
      PROVE  Queues
  <2> DEFINE t == [kind |-> kind, phase |-> "queued", gen |-> gen, doc |-> doc]
  <2>1. t \in Saves /\ t.phase = "queued"
    BY <1>1 DEF Saves, TypeOK, Kinds
  <2>2. queue' = Append(queue, t)
    BY <1>4
  <2> HIDE DEF t
  <2>3. QED BY <2>1, <2>2
<1>5. ASSUME NEW kind \in Kinds, Save(kind)
      PROVE  UNCHANGED <<disk, base, session>> /\ Waits /\ Queues /\ Rests /\ Stays
  BY <1>4, <1>5 DEF Save
<1>6. CASE Autosave
  <2>1. CASE Save("auto")
    BY <1>5, <2>1 DEF Kinds
  <2>2. CASE UNCHANGED <<files, canvas, synced, flags, tasks, queue>>
    BY <2>2
  <2>3. QED BY <1>6, <2>1, <2>2 DEF Autosave
<1>7. CASE Watcher
  <2>1. ASSUME NEW paths \in SUBSET events, TakePaths(paths)
        PROVE  UNCHANGED <<disk, base, session>> /\ Waits /\ Queues /\ Rests /\ Stays
    BY <2>1 DEF TakePaths
  <2>2. CASE FinishCheck
    BY <1>3, <2>2 DEF FinishCheck
  <2>3. QED BY <1>7, <2>1, <2>2 DEF Watcher
<1>8. CASE User
  <2>1. ASSUME NEW a \in Artifacts, NEW v \in Values, Apply(a, v)
        PROVE  UNCHANGED <<disk, base, session>> /\ Waits /\ Queues /\ Rests /\ Stays
    <3>1. Waits
      BY <1>3, <2>1 DEF Apply
    <3>2. QED BY <2>1, <3>1 DEF Apply
  <2>2. ASSUME NEW a \in Artifacts, NEW v \in Values, Preview(a, v)
        PROVE  UNCHANGED <<disk, base, session>> /\ Waits /\ Queues /\ Rests /\ Stays
    BY <2>2 DEF Preview, InPreview
  <2>3. ASSUME NEW a \in Artifacts, NEW v \in Values, SaveSource(a, v) PROVE FALSE
    BY <1>1, <2>3 DEF SaveSource
  <2>4. ASSUME NEW committed \in BOOLEAN, FinishPreview(committed)
        PROVE  UNCHANGED <<disk, base, session>> /\ Waits /\ Queues /\ Rests /\ Stays
    <3>1. Waits
      BY <1>3, <2>4 DEF FinishPreview
    <3>2. Stays
      BY <1>1, <2>4 DEF FinishPreview, InPreview, TypeOK
    <3>3. QED BY <2>4, <3>1, <3>2 DEF FinishPreview
  <2>5. CASE Discard
    BY <2>5 DEF Discard, StartDiscard
  <2>6. CASE SaveExplicit
    BY <1>5, <2>6 DEF SaveExplicit, Kinds
  <2>7. CASE SaveAs
    <3>1. queue' = Append(queue, [kind |-> "saveas", phase |-> "queued", gen |-> gen, doc |-> doc])
      BY <2>7 DEF SaveAs, Idle
    <3>2. Queues
      BY <1>4, <3>1
    <3>3. QED BY <2>7, <3>2, SupersededUnread DEF SaveAs
  <2>8. CASE SaveAsRefused \/ SourceEdit \/ SourceRevert
    BY <2>8 DEF SaveAsRefused, SourceEdit, SourceRevert
  <2>9. QED BY <1>8, <2>1, <2>2, <2>3, <2>4, <2>5, <2>6, <2>7, <2>8 DEF User
<1>9. QED BY <1>6, <1>7, <1>8

\* A load that finds changes finds all the files as they are: what it does not read is
\* taken from a document that agrees with the session.
LEMMA LoadIsDisk ==
    ASSUME TypeOK, SessionAgrees, NEW into \in Trees, into = base \/ Shared = Artifacts,
           ReadProject(into).result = "changed"
    PROVE  ReadProject(into).doc = disk /\ ReadProject(into).index = disk
<1> DEFINE changed == {a \in Artifacts : disk[a] # session[a]}
           spliced == [a \in Artifacts |-> IF a \in changed THEN disk[a] ELSE into[a]]
           r == [result |-> "changed", index |-> disk, doc |-> spliced]
<1>1. session # NoIndex => Agrees(session, base)
  BY DEF SessionAgrees, Agrees
<1>2. CASE ReadProject(into) = ReadAll
  BY <1>2 DEF ReadAll
<1>3. CASE session # NoIndex /\ changed \cap Shared = {} /\ changed # {} /\ ReadProject(into) = r
  <2>1. into = base
    BY <1>3
  <2>2. ASSUME NEW a \in Artifacts PROVE spliced[a] = disk[a]
    BY <1>1, <1>3, <2>1 DEF Agrees
  <2>3. disk = [a \in Artifacts |-> disk[a]]
    BY DEF TypeOK, Disks
  <2>4. spliced = disk
    BY <2>2, <2>3
  <2> HIDE DEF spliced
  <2>5. QED BY <1>3, <2>4
<1>4. CASE ReadProject(into) \in {[result |-> "unchanged"], [result |-> "error"]}
  BY <1>4
<1>5. QED
  <2> HIDE DEF spliced
  <2>1. QED BY <1>2, <1>3, <1>4 DEF ReadProject, ReadChanged, spliced

\* The reload task reads the files as they are, and adopts them while the ones that
\* are on record are still the same.
LEMMA AloneReload ==
    ASSUME IInv, NoSourceInv, AloneInv, Alone, NoPreview => CleanShowsBase, Reload
    PROVE  /\ ReloadCurrent' /\ DiscardCurrent' /\ SessionAgrees'
           /\ \A a \in Artifacts : disk[a] = base[a] => base'[a] = disk[a]
<1> USE DEF files, canvas, synced, flags, tasks, ItemUnchanged
<1> DEFINE Goal == /\ ReloadCurrent' /\ DiscardCurrent' /\ SessionAgrees'
                   /\ \A a \in Artifacts : disk[a] = base[a] => base'[a] = disk[a]
<1>1. /\ TypeOK /\ ~locked /\ reload # NoTask /\ reload \in ReloadTasks
      /\ UNCHANGED <<disk, queue>>
  BY DEF IInv, NoSourceInv, TypeOK, Reload, FinishMerge, ReloadStale, ReloadDefer, ReloadRead,
         ReloadUnchanged, ReloadError, FinishReload, MergeCapture, MergeRefused, MergeClean,
         MergeAgain, MergeAdopt, Merging
<1>2. (Writing' <=> Writing) /\ Task' = Task
  BY <1>1 DEF Writing, Task
<1>3. ASSUME UNCHANGED <<base, session, discard>>, ReloadCurrent' PROVE Goal
  <2>1. SessionAgrees'
    BY <1>1, <1>2, <1>3, SameAgrees DEF AloneInv
  <2>2. DiscardCurrent'
    BY <1>1, <1>3, KeptDiscard DEF AloneInv
  <2>3. QED BY <1>3, <2>1, <2>2
<1>4. ASSUME UNCHANGED <<base, session, discard>>, reload' = NoTask \/ reload'.phase = "debounce" PROVE Goal
  BY <1>3, <1>4 DEF ReloadCurrent
<1>5. CASE ReloadStale
  BY <1>4, <1>5, ResyncNotMerging DEF ReloadStale
<1>6. CASE ReloadDefer \/ ReloadUnchanged \/ ReloadError \/ MergeRefused
  BY <1>4, <1>6 DEF ReloadDefer, ReloadUnchanged, ReloadError, MergeRefused
<1>7. CASE MergeAgain
  BY <1>4, <1>7 DEF MergeAgain, Schedule
<1>8. CASE MergeCapture
  <2>1. reload'.kind = reload.kind /\ reload'.read = reload.read /\ reload.phase = "loaded"
    BY <1>8 DEF MergeCapture
  <2>2. ReloadCurrent'
    BY <1>1, <1>8, <2>1, KeptCurrent DEF MergeCapture, AloneInv
  <2>3. QED BY <1>3, <1>8, <2>2 DEF MergeCapture
<1>9. CASE ReloadRead
  <2> DEFINE into == IF reload.kind = "merge" THEN base ELSE doc
             read == ReadProject(into)
  <2>1. reload' = [kind |-> reload.kind, phase |-> "loaded", read |-> read] /\ ~InPreview
        /\ UNCHANGED <<base, session, discard, doc, dirty, preview>> /\ into \in Trees
    BY <1>1, <1>9 DEF ReloadRead, TypeOK
  <2> HIDE DEF read
  <2>2. reload'.kind = reload.kind /\ reload'.read = read
    BY <2>1
  <2>3. reload.kind \in {"merge", "reload"}
    BY <1>1 DEF ReloadTasks
  <2>4. CASE reload.kind = "reload" /\ dirty
    <3>1. preview # "clean"
      BY <2>1 DEF InPreview
    <3>2. ReloadCurrent'
      BY <2>1, <2>2, <2>4, <3>1 DEF ReloadCurrent
    <3>3. QED BY <1>3, <2>1, <3>2
  <2>5. CASE ~(reload.kind = "reload" /\ dirty)
    <3>1. into = base \/ Shared = Artifacts
      BY <2>3, <2>5 DEF Alone, CleanShowsBase
    <3>2. read.result = "changed" => read.doc = disk /\ read.index = disk
      BY <1>1, <2>1, <3>1, LoadIsDisk DEF AloneInv, read
    <3> HIDE DEF into
    <3>3. read.result = "changed" =>
            /\ read.doc = read.index
            /\ \A a \in Artifacts : disk'[a] = base'[a] => read.doc[a] = disk'[a]
      BY <1>1, <3>2
    <3>4. ReloadCurrent'
      BY <2>2, <3>3 DEF ReloadCurrent, Current
    <3>5. QED BY <1>3, <2>1, <3>4
  <2>6. QED BY <2>4, <2>5
<1>10. ASSUME reload.read.result = "changed", reload.phase \in {"loaded", "merging"},
              ~dirty \/ reload.kind = "merge",
              base' = reload.read.doc, session' = reload.read.index, reload' = NoTask,
              discard' = SupersededDiscard
       PROVE  Goal
  <2>1. Current(reload.read)
    BY <1>1, <1>10 DEF AloneInv, ReloadCurrent
  <2>2. reload.read.index \in Disks
    BY <1>1, <1>10, ChangedRead DEF ReloadTasks, Reads, ChangedReads
  <2>3. SessionAgrees'
    BY <1>1, <1>10, <2>1, <2>2, AdoptedAgrees DEF AloneInv
  <2>4. ReloadCurrent' /\ DiscardCurrent'
    BY <1>10, SupersededUnread DEF ReloadCurrent, DiscardCurrent
  <2>5. QED BY <1>10, <2>1, <2>3, <2>4 DEF Current
<1>11. CASE FinishReload
  <2>1. CASE dirty
    BY <1>4, <1>11, <2>1 DEF FinishReload
  <2>2. CASE ~dirty
    <3>1. Adopt(reload.read) /\ reload' = NoTask /\ discard' = SupersededDiscard
          /\ reload.read.result = "changed" /\ reload.phase = "loaded"
      BY <1>1, <1>11, <2>2 DEF FinishReload
    <3>2. QED BY <1>10, <2>2, <3>1 DEF Adopt
  <2>3. QED BY <2>1, <2>2
<1>12. CASE MergeClean \/ MergeAdopt
  <2>1. reload.phase = "merging" /\ reload.read.result = "changed" /\ reload.kind = "merge"
    BY <1>1, <1>12 DEF MergeClean, MergeAdopt, Merging, ReloadTasks, ChangedReads
  <2>2. base' = reload.read.doc /\ session' = reload.read.index /\ reload' = NoTask
        /\ discard' = SupersededDiscard
    BY <1>12 DEF MergeClean, MergeAdopt, Adopt
  <2>3. QED BY <1>10, <2>1, <2>2
<1>13. QED
  BY <1>5, <1>6, <1>7, <1>8, <1>9, <1>11, <1>12 DEF Reload, FinishMerge

\* A discard reads all files, and adopts them while the ones on record are the same.
LEMMA AloneDiscarding ==
    ASSUME IInv, NoSourceInv, AloneInv, Discarding
    PROVE  /\ ReloadCurrent' /\ DiscardCurrent' /\ SessionAgrees'
           /\ \A a \in Artifacts : disk[a] = base[a] => base'[a] = disk[a]
<1> USE DEF files, canvas, synced, flags, tasks
<1>1. TypeOK /\ discard # NoTask /\ discard \in DiscardTasks /\ UNCHANGED <<disk, queue>>
  BY DEF IInv, TypeOK, Discarding, DiscardRead, FinishDiscard
<1>2. (Writing' <=> Writing) /\ Task' = Task
  BY <1>1 DEF Writing, Task
<1>3. CASE DiscardRead
  <2>1. discard' = [by |-> discard.by, phase |-> "loaded", read |-> ReadAll]
        /\ UNCHANGED <<base, session, reload, dirty, preview>>
    BY <1>3 DEF DiscardRead
  <2>2. ReadAll.result = "changed" => ReadAll.doc = disk /\ ReadAll.index = disk
    BY DEF ReadAll
  <2>3. DiscardCurrent'
    BY <1>1, <2>1, <2>2 DEF DiscardCurrent, Current
  <2>4. ReloadCurrent' /\ SessionAgrees'
    BY <1>1, <1>2, <2>1, SameAgrees DEF AloneInv, ReloadCurrent, Current
  <2>5. QED BY <2>1, <2>3, <2>4
<1>4. CASE FinishDiscard
  <2>1. EndDiscard /\ discard' = NoTask
    BY <1>4 DEF FinishDiscard
  <2>2. DiscardCurrent'
    BY <2>1 DEF DiscardCurrent
  <2>3. CASE UNCHANGED <<preview, base, session, dirty, reload>>
    <3>1. ReloadCurrent' /\ SessionAgrees'
      BY <1>1, <1>2, <2>3, SameAgrees DEF AloneInv, ReloadCurrent, Current
    <3>2. QED BY <2>2, <2>3, <3>1
  <2>4. CASE /\ discard.phase = "loaded" /\ discard.read.result = "changed"
             /\ Adopt(discard.read) /\ reload' = SupersededReload
    <3>1. Current(discard.read)
      BY <1>1, <2>4 DEF AloneInv, DiscardCurrent
    <3>2. discard.read.index \in Disks
      BY <1>1, <2>4, ChangedRead DEF DiscardTasks, Reads, ChangedReads
    <3>3. base' = discard.read.doc /\ session' = discard.read.index
      BY <2>4 DEF Adopt
    <3>4. SessionAgrees'
      BY <1>1, <3>1, <3>2, <3>3, AdoptedAgrees DEF AloneInv
    <3>5. ReloadCurrent'
      BY <2>4, SupersededUnread DEF ReloadCurrent
    <3>6. QED BY <2>2, <3>1, <3>3, <3>4, <3>5 DEF Current
  <2>5. QED BY <2>1, <2>3, <2>4 DEF EndDiscard
<1>5. QED BY <1>3, <1>4 DEF Discarding

\* A write that passes its preconditions replaces what the base and its baseline agree
\* is on disk, and leaves the snapshot there.
LEMMA WriteLands ==
    ASSUME IInv, AloneInv, WriteSave
    PROVE  /\ disk' = Task.doc /\ base = disk /\ WriteIndex = disk
           /\ \A a \in Artifacts : disk'[a] = disk[a] \/ disk'[a] # base[a]
<1>1. /\ Writing /\ Task.phase = "prepared" /\ CanWrite /\ TypeOK
      /\ disk' = [a \in Artifacts |-> IF a \in WriteScope THEN Task.doc[a] ELSE disk[a]]
  BY DEF WriteSave, Saving, Writing, IInv
<1>2. Task.doc \in Trees /\ base \in Trees /\ disk \in Disks
  BY <1>1, SavingTask DEF WriteSave, TypeOK
<1>3. ASSUME NEW a \in Artifacts PROVE base[a] = disk[a] /\ Task.base[a] = disk[a]
  <2>1. Task.index = NoIndex \/ disk[a] = Task.index[a]
    BY <1>1 DEF CanWrite, WriteIndex
  <2>2. Agrees(Task.index, base) /\ Agrees(Task.index, Task.base)
    BY <1>1 DEF AloneInv, SessionAgrees
  <2>3. QED BY <2>1, <2>2 DEF Agrees
<1>4. base = disk
  BY <1>2, <1>3 DEF Trees, Disks
<1>5. ASSUME NEW a \in Artifacts PROVE disk'[a] = Task.doc[a]
  <2>1. a \notin WriteScope => Task.doc[a] = Task.base[a]
    BY DEF WriteScope, ChangedArtifacts
  <2>2. QED BY <1>1, <1>3, <2>1
<1>6. disk' = Task.doc
  BY <1>1, <1>2, <1>5 DEF Trees
<1>7. QED BY <1>1, <1>4, <1>6 DEF CanWrite

\* The writer puts a snapshot on disk, and what was read before ends with it.
LEMMA AloneWriter ==
    ASSUME IInv, NoSourceInv, AloneInv, Writer
    PROVE  ReloadCurrent' /\ DiscardCurrent' /\ SessionAgrees'
<1> USE DEF files, canvas, synced, flags, tasks
<1>1. /\ TypeOK /\ ~locked /\ ~SourceTurn /\ queue # <<>> /\ TailQueued /\ SessionAgrees
      /\ Task \in Saves
  <2>1. queue # <<>>
    BY DEF Writer, SaveDropped, PrepareSave, WriteSave, WriteFails, FinishSave, FinishFailedSave,
           FinishSaveAs, SaveAsFails, WriteSource, SourceFails, AdoptSource, FinishSource,
           Saving, ChangingDestination, SourceTurn
  <2>2. QED BY <2>1, TaskType DEF NoSourceInv, IInv, SourceTurn, AloneInv
<1>2. ASSUME UNCHANGED <<disk, base, reload, discard, dirty, preview>>
      PROVE  ReloadCurrent' /\ DiscardCurrent'
  BY <1>2 DEF AloneInv, ReloadCurrent, DiscardCurrent, Current
<1>3. CASE SaveDropped \/ SaveAsFails
  <2>1. Task.phase = "queued"
    BY <1>1, <1>3 DEF SaveDropped, SaveAsFails, ChangingDestination, Task, Saves, Kinds
  <2>2. ~Writing /\ ~Writing' /\ UNCHANGED <<disk, base, session, reload, discard, dirty, preview>>
    BY <1>1, <1>3, <2>1, ReleasedRests DEF SaveDropped, SaveAsFails, Writing
  <2>3. QED BY <1>1, <1>2, <2>2, SameAgrees
<1>4. CASE PrepareSave
  <2> DEFINE t == [kind |-> Task.kind, gen |-> Task.gen, doc |-> Task.doc,
                   phase |-> "prepared", index |-> session, base |-> base]
  <2>1. /\ Task.phase = "queued" /\ Become(t) /\ session' = NoIndex
        /\ UNCHANGED <<disk, base, reload, discard, dirty, preview>>
    BY <1>4 DEF PrepareSave
  <2>2. t.phase = "prepared" /\ t.index = session /\ t.base = base
    OBVIOUS
  <2> HIDE DEF t
  <2>3. queue' # <<>> /\ Task' = t
    BY <1>1, <2>1, BecomeRuns
  <2>4. Agrees(session, base)
    BY <1>1, <2>1 DEF SessionAgrees, Writing
  <2>5. Agrees(Task.index, base)' /\ Agrees(Task.index, Task.base)'
    BY <2>1, <2>2, <2>3, <2>4 DEF Agrees
  <2>6. SessionAgrees'
    BY <2>1, <2>2, <2>3, <2>5 DEF SessionAgrees, Writing
  <2>7. QED BY <1>2, <2>1, <2>6
<1>5. CASE WriteSave
  <2> DEFINE t == [kind |-> Task.kind, gen |-> Task.gen, doc |-> Task.doc,
                   phase |-> "written", index |-> WriteIndex, wrote |-> disk']
  <2>1. /\ Become(t) /\ UNCHANGED <<base, session, reload, discard, dirty, preview>>
        /\ Task.phase = "prepared"
    BY <1>5 DEF WriteSave
  <2>2. t.phase = "written" /\ t.wrote = disk' /\ t.doc = Task.doc /\ t.index = WriteIndex
    OBVIOUS
  <2> HIDE DEF t
  <2>3. queue' # <<>> /\ Task' = t /\ Writing
    BY <1>1, <2>1, BecomeRuns DEF Writing
  <2>4. /\ disk' = Task.doc /\ WriteIndex = base
        /\ \A a \in Artifacts : disk'[a] = disk[a] \/ disk'[a] # base[a]
    BY <1>5, WriteLands
  <2>5. base # NoIndex
    BY <1>1, ValuesAssumption DEF TypeOK, Trees
  <2>6. Agrees(Task.index, base)'
    BY <2>1, <2>2, <2>3, <2>4, <2>5 DEF Agrees
  <2>7. SessionAgrees'
    BY <1>1, <2>1, <2>2, <2>3, <2>4, <2>6 DEF SessionAgrees, Writing
  <2>8. ReloadCurrent' /\ DiscardCurrent'
    BY <2>1, <2>4 DEF AloneInv, ReloadCurrent, DiscardCurrent, Current
  <2>9. QED BY <2>7, <2>8
<1>6. CASE WriteFails
  <2> DEFINE index == IF Task.index = NoIndex /\ Unparsable(Shared) THEN NoIndex ELSE WriteIndex
             t == [kind |-> Task.kind, gen |-> Task.gen, doc |-> Task.doc,
                   phase |-> "failed", index |-> index]
  <2>1. /\ Become(t) /\ UNCHANGED <<disk, base, session, reload, discard, dirty, preview>>
        /\ Task.phase = "prepared"
    BY <1>6 DEF WriteFails
  <2>2. t.phase = "failed" /\ t.index = index
    OBVIOUS
  <2>3. Writing /\ Agrees(Task.index, base)
    BY <1>1, <2>1 DEF SessionAgrees, Writing
  <2>4. Agrees(index, base)
    BY <2>3 DEF Agrees, WriteIndex
  <2> HIDE DEF t, index
  <2>5. queue' # <<>> /\ Task' = t
    BY <1>1, <2>1, BecomeRuns
  <2>6. Agrees(Task.index, base)'
    BY <2>1, <2>2, <2>4, <2>5 DEF Agrees
  <2>7. SessionAgrees'
    BY <1>1, <2>1, <2>2, <2>3, <2>5, <2>6 DEF SessionAgrees, Writing
  <2>8. QED BY <1>2, <2>1, <2>7
<1>7. ASSUME reload' = SupersededReload, discard' = SupersededDiscard
      PROVE  ReloadCurrent' /\ DiscardCurrent'
  BY <1>7, SupersededUnread DEF ReloadCurrent, DiscardCurrent
<1>8. CASE FinishSave
  <2>1. /\ Task.phase = "written" /\ session' = Task.wrote /\ base' = Task.doc /\ disk' = disk
        /\ reload' = SupersededReload /\ discard' = SupersededDiscard /\ Release
    BY <1>8 DEF FinishSave
  <2>2. Task.wrote = Task.doc /\ disk = Task.wrote
    BY <1>1, <2>1 DEF SessionAgrees, Writing
  <2>3. ~Writing'
    BY <1>1, <2>1, ReleasedRests
  <2>4. Agrees(session, base)'
    BY <2>1, <2>2 DEF Agrees
  <2>5. QED BY <1>7, <2>1, <2>3, <2>4 DEF SessionAgrees
<1>9. CASE FinishFailedSave
  <2>1. /\ UNCHANGED <<disk, base, discard, dirty, preview>> /\ session' = Task.index
        /\ Resync(dirty, InPreview, reload) /\ Release
    BY <1>9 DEF FinishFailedSave
  <2>2. Task.phase \in {"failed", "written"}
    BY <1>9 DEF FinishFailedSave
  <2>3. Agrees(Task.index, base) /\ ~Writing'
    BY <1>1, <2>1, <2>2, ReleasedRests DEF SessionAgrees, Writing
  <2>4. Agrees(session, base)'
    BY <2>1, <2>3 DEF Agrees
  <2>5. reload' = reload \/ reload'.phase = "debounce"
    BY <2>1, ResyncNotMerging
  <2>6. ReloadCurrent' /\ DiscardCurrent'
    BY <2>1, <2>5 DEF AloneInv, ReloadCurrent, DiscardCurrent, Current
  <2>7. QED BY <2>3, <2>4, <2>6 DEF SessionAgrees
<1>10. CASE FinishSaveAs
  <2>1. /\ disk' = Task.doc /\ base' = Task.doc /\ session' = NoIndex
        /\ reload' = SupersededReload /\ discard' = SupersededDiscard /\ Release
    BY <1>10 DEF FinishSaveAs
  <2>2. ~Writing'
    BY <1>1, <2>1, ReleasedRests
  <2>3. Agrees(session, base)'
    BY <2>1 DEF Agrees
  <2>4. QED BY <1>7, <2>1, <2>2, <2>3 DEF SessionAgrees
<1>11. QED
  BY <1>1, <1>3, <1>4, <1>5, <1>6, <1>8, <1>9, <1>10
     DEF Writer, WriteSource, SourceFails, AdoptSource, FinishSource

\* The content a save has put on disk is never taken back by a load from before it, when
\* nobody else writes: for any number of queued saves, with discards, failing saves and
\* Save As (sync_epoch, and the cancelled reload_task of save_inner).
THEOREM NoSaveIsReverted ==
    ASSUME Alone
    PROVE  Spec => SaveNotReverted
<1> DEFINE Inv == /\ IInv /\ NoSourceInv /\ (NoPreview => CleanInv) /\ AloneInv
           Kept == Reload \/ Discarding =>
                     \A a \in Artifacts : disk[a] = base[a] => base'[a] = disk[a]
<1>1. Init => Inv
  <2> SUFFICES ASSUME Init PROVE NoSourceInv /\ CleanInv /\ AloneInv
    BY InitIInv
  <2>1. queue = <<>> /\ 1 .. Len(queue) = {} /\ 2 .. Len(queue) = {}
    BY DEF Init
  <2>2. NoSourceInv /\ CleanInv /\ TailQueued
    BY <2>1 DEF Init, NoSourceInv, CleanInv, CleanShowsBase, InPreview, TailQueued
  <2>3. session # NoIndex /\ session = base
    BY ValuesAssumption DEF Init, Trees
  <2>4. SessionAgrees
    BY <2>1, <2>3 DEF SessionAgrees, Agrees, Writing
  <2>5. QED BY <2>2, <2>4 DEF Init, AloneInv, ReloadCurrent, DiscardCurrent
<1>2. Inv /\ [Next]_vars => Inv' /\ (UNCHANGED vars \/ Kept)
  <2> SUFFICES ASSUME Inv, [Next]_vars
               PROVE  NoSourceInv' /\ (NoPreview => CleanInv') /\ AloneInv' /\ (UNCHANGED vars \/ Kept)
    BY NextIInv
  <2>1. CASE Next
    <3>1. NoSource /\ TypeOK /\ TailQueued /\ (NoPreview => CleanShowsBase) /\ ~External
      BY DEF Alone, IInv, AloneInv, CleanInv, External
    <3>2. NoSourceInv' /\ (NoPreview => CleanInv') /\ TailQueued'
      BY <2>1, <3>1, NoSourceStep, CleanStep, TailStep
    <3>3. CASE Reload
      BY <3>1, <3>2, <3>3, AloneReload DEF AloneInv
    <3>4. CASE Discarding
      BY <3>2, <3>4, AloneDiscarding DEF AloneInv
    <3>5. CASE ~Reload /\ ~Discarding
      BY <2>1, <3>1, <3>2, <3>5, AloneUser, AloneWriter DEF AloneInv, Next
    <3>6. QED BY <3>3, <3>4, <3>5
  <2>2. CASE UNCHANGED vars
    <3>1. UNCHANGED <<disk, base, session, queue, reload, discard, dirty, preview, doc, locked>>
      BY <2>2 DEF vars, files, canvas, synced, flags, tasks
    <3>2. NoSourceInv' /\ (NoPreview => CleanInv') /\ TailQueued'
      BY <3>1 DEF AloneInv, NoSourceInv, CleanInv, CleanShowsBase, InPreview, TailQueued
    <3>3. SessionAgrees' /\ ReloadCurrent' /\ DiscardCurrent'
      BY <3>1, SameAgrees DEF AloneInv, Writing, Task, ReloadCurrent, DiscardCurrent, Current
    <3>4. QED BY <2>2, <3>2, <3>3 DEF AloneInv
  <2>3. QED BY <2>1, <2>2
<1>3. QED BY <1>1, <1>2, PTL DEF Spec, SaveNotReverted

=============================================================================
