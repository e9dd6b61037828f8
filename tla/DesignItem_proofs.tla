--------------------------- MODULE DesignItem_proofs ---------------------------
(***************************************************************************)
(* Proofs about the design item of the editor: types, generations and the  *)
(* survival of unsaved edits, for every number of queued saves and every   *)
(* feature, and what the proofs about queues and seen contents rest on.    *)
(***************************************************************************)
EXTENDS DesignItem, FiniteSetTheorems, SequenceTheorems, TLAPS

\* There is always a generation nobody holds (advance_render_generation): Gens has
\* one element more than there are holders.
LEMMA NextGenFresh ==
    ASSUME TypeOK
    PROVE  NextGen \in Gens /\ NextGen \notin Held
<1> DEFINE last == IF reload # NoTask /\ reload.phase = "merging" THEN reload.gen ELSE gen
           size == MaxQueue + 3
           holder == [k \in 1 .. size |->
                        IF k <= Len(queue) THEN queue[k].gen
                        ELSE IF k = MaxQueue + 1 THEN failed
                        ELSE IF k = MaxQueue + 2 THEN last ELSE gen]
<1>1. size \in Nat /\ Len(queue) \in Nat /\ Len(queue) <= MaxQueue /\ MaxQueue \in Nat
  BY QueueAssumption DEF TypeOK
<1>2. \A h \in Held : \E k \in 1 .. size : holder[k] = h
  <2> TAKE h \in Held
  <2>1. CASE \E n \in 1 .. Len(queue) : h = queue[n].gen
    <3>1. PICK n \in 1 .. Len(queue) : h = queue[n].gen
      BY <2>1
    <3>2. n \in 1 .. size /\ n <= Len(queue)
      BY <1>1
    <3>3. QED BY <3>1, <3>2
  <2>2. CASE h = failed
    <3>1. MaxQueue + 1 \in 1 .. size /\ ~(MaxQueue + 1 <= Len(queue))
      BY <1>1
    <3>2. QED BY <3>1, <2>2
  <2>3. CASE h = gen
    <3>1. MaxQueue + 3 \in 1 .. size /\ ~(MaxQueue + 3 <= Len(queue))
          /\ MaxQueue + 3 # MaxQueue + 1 /\ MaxQueue + 3 # MaxQueue + 2
      BY <1>1
    <3>2. QED BY <3>1, <2>3
  <2>4. CASE reload # NoTask /\ reload.phase = "merging" /\ h = reload.gen
    <3>1. MaxQueue + 2 \in 1 .. size /\ ~(MaxQueue + 2 <= Len(queue))
          /\ MaxQueue + 2 # MaxQueue + 1
      BY <1>1
    <3>2. QED BY <3>1, <2>4
  <2>5. QED BY <2>1, <2>2, <2>3, <2>4 DEF Held
<1>3. \A k \in 1 .. size : holder[k] \in Held
  <2> SUFFICES ASSUME NEW k \in 1 .. size PROVE holder[k] \in Held
    OBVIOUS
  <2>1. k <= Len(queue) => k \in 1 .. Len(queue)
    BY <1>1
  <2>2. gen \in Held /\ failed \in Held /\ last \in Held
    BY DEF Held
  <2>3. k <= Len(queue) => queue[k].gen \in Held
    BY <2>1 DEF Held
  <2>4. QED BY <2>2, <2>3
<1> HIDE DEF holder
<1>4. holder \in Surjection(1 .. size, Held)
  BY <1>2, <1>3 DEF Surjection, holder
<1>5. IsFiniteSet(1 .. size) /\ Cardinality(1 .. size) = size
  BY <1>1, FS_Interval
<1>6. IsFiniteSet(Held) /\ Cardinality(Held) <= size
  BY <1>4, <1>5, FS_Surjection
<1>7. IsFiniteSet(Gens) /\ Cardinality(Gens) = size + 1
  BY <1>1, FS_Interval DEF Gens
<1>8. ~(Gens \subseteq Held)
  <2> SUFFICES ASSUME Gens \subseteq Held PROVE FALSE
    OBVIOUS
  <2>1. Cardinality(Gens) <= Cardinality(Held)
    BY <1>6, FS_Subset
  <2>2. Cardinality(Held) \in Nat
    BY <1>6, FS_CardinalityType
  <2>3. QED BY <1>1, <1>6, <1>7, <2>1, <2>2
<1>9. \E g \in Gens : g \notin Held
  BY <1>8
<1>10. QED BY <1>9 DEF NextGen

-----------------------------------------------------------------------------
(***************************************************************************)
(* Types of the helpers.                                                   *)
(***************************************************************************)

\* A full load returns a document, or an error, of its type (load_project_document).
LEMMA ReadAllType ==
    ASSUME TypeOK
    PROVE  ReadAll \in Reads
<1>1. CASE Unparsable(Artifacts)
  BY <1>1 DEF ReadAll, Reads
<1>2. CASE ~Unparsable(Artifacts)
  <2>1. disk \in Trees
    BY <1>2 DEF Unparsable, TypeOK, Disks, Trees
  <2>2. QED BY <1>2, <2>1 DEF ReadAll, Reads, ChangedReads, TypeOK
<1>3. QED BY <1>1, <1>2

\* So does a load of the changed artifacts (load_changed_project_document).
LEMMA ReadProjectType ==
    ASSUME TypeOK, NEW into \in Trees
    PROVE  ReadProject(into) \in Reads
<1>1. CASE session = NoIndex
  BY <1>1, ReadAllType DEF ReadProject
<1>2. CASE session # NoIndex
  <2> DEFINE changed == {a \in Artifacts : disk[a] # session[a]}
             spliced == [a \in Artifacts |-> IF a \in changed THEN disk[a] ELSE into[a]]
  <2>1. ~Unparsable(changed) => spliced \in Trees
    BY DEF Unparsable, TypeOK, Disks, Trees
  <2>2. disk \in Disks
    BY DEF TypeOK
  <2> HIDE DEF spliced
  <2>3. [result |-> "changed", index |-> disk, doc |-> spliced] \in Reads \/ Unparsable(changed)
    BY <2>1, <2>2 DEF Reads, ChangedReads
  <2>4. [result |-> "unchanged"] \in Reads /\ [result |-> "error"] \in Reads
    BY DEF Reads
  <2>5. ReadProject(into) = ReadChanged(session, into)
    BY <1>2 DEF ReadProject
  <2>6. ReadChanged(session, into) \in Reads
    BY <2>3, <2>4, ReadAllType DEF ReadChanged, spliced
  <2>7. QED BY <2>5, <2>6
<1>3. QED BY <1>1, <1>2

\* A load that found changes brings a document and the index of the files.
LEMMA ChangedRead ==
    ASSUME NEW read \in Reads, read.result = "changed"
    PROVE  read.doc \in Trees /\ read.index \in Disks
BY DEF Reads, ChangedReads

\* The handler of FigItemEvent::Edited leaves a Boolean in the view's timer.
LEMMA EditedType ==
    ASSUME Edited
    PROVE  armed' \in BOOLEAN
<1>1. armed' = AutosaveAllowed'
  BY DEF Edited
<1>2. AutosaveAllowed' \in BOOLEAN
  BY DEF AutosaveAllowed
<1>3. QED BY <1>1, <1>2

\* schedule_resync leaves a conflict, a pending flag and a task of their types.
LEMMA ResyncType ==
    ASSUME TypeOK, NEW d \in BOOLEAN, NEW p \in BOOLEAN,
           NEW slot \in ReloadTasks \cup {NoTask}, Resync(d, p, slot)
    PROVE  /\ reload' \in ReloadTasks \cup {NoTask}
           /\ pending' \in BOOLEAN /\ conflict' \in BOOLEAN
<1>1. [kind |-> IF d THEN "merge" ELSE "reload", phase |-> "debounce"] \in ReloadTasks
  BY DEF ReloadTasks
<1>2. CASE locked
  BY <1>2 DEF Resync, RaiseConflict
<1>3. CASE ~locked
  <2>1. Schedule(d, p, slot) /\ conflict' = conflict
    BY <1>3 DEF Resync
  <2>2. QED BY <1>1, <2>1 DEF Schedule, TypeOK
<1>4. QED BY <1>2, <1>3

\* Moving sync_epoch keeps the types of the tasks.
LEMMA SupersededType ==
    ASSUME TypeOK
    PROVE  /\ SupersededCheck \in Checks \cup {NoTask}
           /\ SupersededReload \in ReloadTasks \cup {NoTask}
           /\ SupersededDiscard \in DiscardTasks \cup {NoTask}
<1>1. SupersededCheck \in Checks \cup {NoTask}
  BY DEF SupersededCheck, Checks, TypeOK
<1>2. SupersededReload \in ReloadTasks \cup {NoTask}
  BY DEF SupersededReload, ReloadTasks, TypeOK
<1>3. SupersededDiscard \in DiscardTasks \cup {NoTask}
  BY DEF SupersededDiscard, DiscardTasks, TypeOK
<1>4. QED BY <1>1, <1>2, <1>3

\* apply_reloaded_document_with_session installs a document and its index.
LEMMA AdoptType ==
    ASSUME TypeOK, NEW read \in Reads, read.result = "changed", Adopt(read)
    PROVE  /\ doc' \in Trees /\ base' \in Trees /\ before' \in Trees
           /\ session' \in Indexes /\ gen' \in Gens /\ preview' = "none"
           /\ dirty' = FALSE /\ pending' = FALSE /\ conflict' = FALSE /\ error' = FALSE
BY ChangedRead, NextGenFresh DEF Adopt, ContinuedGen, Indexes

\* The head of a queue of saves is a save, and so is what comes behind it.
LEMMA TaskType ==
    ASSUME TypeOK, queue # <<>>
    PROVE  /\ Task \in Saves /\ Task = queue[1] /\ 1 \in 1 .. Len(queue)
           /\ Tail(queue) \in Seq(Saves) /\ Len(Tail(queue)) = Len(queue) - 1
           /\ Len(queue) \in Nat
           /\ \A n \in 1 .. Len(queue) - 1 : Tail(queue)[n] = queue[n + 1]
BY DEF TypeOK, Task

\* Dropping the lease leaves a queue of saves.
LEMMA ReleaseType ==
    ASSUME TypeOK, queue # <<>>, Release
    PROVE  queue' \in Seq(Saves) /\ Len(queue') <= MaxQueue
BY TaskType, QueueAssumption DEF TypeOK, Release

\* A running save that moves to its next phase leaves a queue of saves.
LEMMA BecomeType ==
    ASSUME TypeOK, queue # <<>>, NEW t \in Saves, Become(t)
    PROVE  /\ queue' \in Seq(Saves) /\ Len(queue') = Len(queue) /\ queue'[1] = t
           /\ \A n \in 2 .. Len(queue) : queue'[n] = queue[n]
<1>1. <<t>> \in Seq(Saves) /\ Len(<<t>>) = 1 /\ <<t>>[1] = t
  OBVIOUS
<1>2. queue' = <<t>> \o Tail(queue)
  BY DEF Become
<1>3. queue' \in Seq(Saves) /\ Len(queue') = 1 + Len(Tail(queue))
  BY <1>1, <1>2, TaskType
<1>4. \A n \in 1 .. Len(queue') : queue'[n] = IF n <= 1 THEN t ELSE Tail(queue)[n - 1]
  BY <1>1, <1>2, TaskType
<1>5. QED BY <1>3, <1>4, TaskType

-----------------------------------------------------------------------------
(***************************************************************************)
(* Every action keeps the types.                                           *)
(***************************************************************************)

\* Capturing a snapshot (save_inner) keeps the types.
LEMMA SaveType ==
    ASSUME TypeOK, NEW kind \in Kinds, Save(kind), armed' \in BOOLEAN
    PROVE  TypeOK'
<1> DEFINE t == [kind |-> kind, phase |-> "queued", gen |-> gen, doc |-> doc]
<1>1. t \in Saves
  BY DEF Saves, TypeOK
<1> HIDE DEF t
<1>2. queue' = Append(queue, t) /\ Len(queue) < MaxQueue
  BY DEF Save, t
<1>3. queue' \in Seq(Saves) /\ Len(queue') <= MaxQueue
  BY <1>1, <1>2, QueueAssumption DEF TypeOK
<1>4. QED BY <1>3 DEF Save, TypeOK, files, canvas, synced, flags

\* The user's operations keep the types.
LEMMA UserType ==
    ASSUME TypeOK, User
    PROVE  TypeOK'
<1> USE DEF files, canvas, synced, flags, tasks
<1>1. ASSUME NEW a \in Artifacts, NEW v \in Values, Apply(a, v)
      PROVE  TypeOK'
  <2>1. doc' \in Trees /\ gen' \in Gens
    BY <1>1, NextGenFresh DEF Apply, TypeOK, Trees
  <2>2. reload' \in ReloadTasks \cup {NoTask} /\ pending' \in BOOLEAN /\ conflict' \in BOOLEAN
    BY <1>1, ResyncType DEF Apply, TypeOK
  <2>3. armed' \in BOOLEAN
    BY <1>1, EditedType DEF Apply
  <2>4. QED BY <1>1, <2>1, <2>2, <2>3 DEF Apply, TypeOK
<1>2. ASSUME NEW a \in Artifacts, NEW v \in Values, Preview(a, v)
      PROVE  TypeOK'
  <2>1. doc' \in Trees /\ gen' \in Gens /\ before' \in Trees
    BY <1>2, NextGenFresh DEF Preview, TypeOK, Trees
  <2>2. armed' \in BOOLEAN
    BY <1>2, EditedType DEF Preview, TypeOK
  <2>3. QED BY <1>2, <2>1, <2>2 DEF Preview, TypeOK
<1>3. ASSUME NEW a \in Artifacts, NEW v \in Values, SaveSource(a, v)
      PROVE  TypeOK'
  <2> DEFINE t == [kind |-> "source", phase |-> "queued", gen |-> gen, at |-> a, value |-> v]
  <2>1. t \in Saves
    BY DEF Saves, TypeOK
  <2> HIDE DEF t
  <2>2. queue' = Append(queue, t) /\ Len(queue) < MaxQueue
    BY <1>3 DEF SaveSource, t
  <2>3. queue' \in Seq(Saves) /\ Len(queue') <= MaxQueue
    BY <2>1, <2>2, QueueAssumption DEF TypeOK
  <2>4. QED BY <1>3, <2>3 DEF SaveSource, TypeOK
<1>4. ASSUME NEW committed \in BOOLEAN, FinishPreview(committed)
      PROVE  TypeOK'
  <2>1. doc' \in Trees /\ gen' \in Gens /\ dirty' \in BOOLEAN /\ before' \in Trees
    BY <1>4, NextGenFresh DEF FinishPreview, TypeOK
  <2>2. reload' \in ReloadTasks \cup {NoTask} /\ pending' \in BOOLEAN /\ conflict' \in BOOLEAN
    BY <1>4, <2>1, ResyncType DEF FinishPreview, TypeOK
  <2>3. armed' \in BOOLEAN
    BY <1>4, EditedType DEF FinishPreview
  <2>4. QED BY <1>4, <2>1, <2>2, <2>3 DEF FinishPreview, TypeOK
<1>5. CASE Discard
  <2>1. [by |-> "user", phase |-> "started"] \in DiscardTasks
    BY DEF DiscardTasks
  <2>2. QED BY <1>5, <2>1 DEF Discard, StartDiscard, TypeOK
<1>7. CASE SaveExplicit
  BY <1>7, SaveType DEF SaveExplicit, TypeOK, Kinds
<1>8. CASE SaveAs
  <2> DEFINE t == [kind |-> "saveas", phase |-> "queued", gen |-> gen, doc |-> doc]
  <2>1. t \in Saves
    BY DEF Saves, TypeOK
  <2> HIDE DEF t
  <2>2. queue' = <<t>>
    BY <1>8 DEF SaveAs, t
  <2>3. queue' \in Seq(Saves) /\ Len(queue') <= MaxQueue
    BY <2>1, <2>2, QueueAssumption
  <2>4. QED BY <1>8, <2>3, SupersededType DEF SaveAs, TypeOK
<1>9. CASE SaveAsRefused
  <2>1. armed' \in BOOLEAN
    BY <1>9, EditedType DEF SaveAsRefused
  <2>2. QED BY <1>9, <2>1 DEF SaveAsRefused, TypeOK
<1>10. CASE SourceEdit
  BY <1>10 DEF SourceEdit, TypeOK
<1>11. CASE SourceRevert
  BY <1>11, ZenonT(40) DEF SourceRevert, TypeOK
<1>12. QED BY <1>1, <1>2, <1>3, <1>4, <1>5, <1>7, <1>8, <1>9, <1>10, <1>11 DEF User

\* Foreign writes, the watcher and the autosave timer keep the types.
LEMMA FilesType ==
    ASSUME TypeOK, External \/ Watcher \/ Autosave
    PROVE  TypeOK'
<1> USE DEF files, canvas, synced, flags, tasks
<1>1. ASSUME NEW a \in Artifacts, NEW v \in Values \cup {Broken}, ExternalEdit(a, v)
      PROVE  TypeOK'
  BY <1>1 DEF ExternalEdit, TypeOK, Disks
<1>2. ASSUME NEW paths \in SUBSET events, TakePaths(paths)
      PROVE  TypeOK'
  <2>1. check' \in Checks /\ events' \subseteq Artifacts
    BY <1>2 DEF TakePaths, TypeOK, Checks
  <2>2. QED BY <1>2, <2>1 DEF TakePaths, TypeOK
<1>3. CASE FinishCheck
  <2>1. events' \subseteq Artifacts
    BY <1>3 DEF FinishCheck, TypeOK, Checks
  <2>2. reload' \in ReloadTasks \cup {NoTask} /\ pending' \in BOOLEAN /\ conflict' \in BOOLEAN
    BY <1>3, ResyncType DEF FinishCheck, TypeOK, InPreview
  <2>3. QED BY <1>3, <2>1, <2>2 DEF FinishCheck, TypeOK
<1>4. CASE Autosave
  BY <1>4, SaveType DEF Autosave, TypeOK, Kinds
<1>5. QED BY <1>1, <1>2, <1>3, <1>4 DEF External, Watcher

\* The reload task keeps the types in each of its steps.
LEMMA ReloadType ==
    ASSUME TypeOK, Reload
    PROVE  TypeOK'
<1> USE DEF files, canvas, synced, flags, tasks, ItemUnchanged
<1>1. CASE ReloadStale
  <2>1. reload' \in ReloadTasks \cup {NoTask} /\ pending' \in BOOLEAN /\ conflict' \in BOOLEAN
    BY <1>1, ResyncType DEF ReloadStale, TypeOK, InPreview
  <2>2. QED BY <1>1, <2>1 DEF ReloadStale, TypeOK
<1>2. CASE ReloadDefer
  BY <1>2 DEF ReloadDefer, TypeOK
<1>3. CASE ReloadRead
  <2> DEFINE read == ReadProject(IF reload.kind = "merge" THEN base ELSE doc)
  <2>1. read \in Reads
    BY ReadProjectType DEF TypeOK
  <2>2. reload.kind \in {"merge", "reload"}
    BY <1>3 DEF ReloadRead, TypeOK, ReloadTasks
  <2> HIDE DEF read
  <2>3. [kind |-> reload.kind, phase |-> "loaded", read |-> read] \in ReloadTasks
    BY <2>1, <2>2 DEF ReloadTasks
  <2>4. QED BY <1>3, <2>3 DEF ReloadRead, TypeOK, read
<1>4. CASE ReloadUnchanged
  <2>1. armed' \in BOOLEAN
    BY <1>4, EditedType DEF ReloadUnchanged
  <2>2. error' \in BOOLEAN /\ conflict' \in BOOLEAN
    BY <1>4 DEF ReloadUnchanged, TypeOK
  <2>3. QED BY <1>4, <2>1, <2>2 DEF ReloadUnchanged, TypeOK
<1>5. CASE ReloadError
  <2>1. error' \in BOOLEAN
    BY <1>5 DEF ReloadError, TypeOK
  <2>2. QED BY <1>5, <2>1 DEF ReloadError, RaiseConflict, TypeOK
<1>6. reload # NoTask /\ reload.phase = "loaded" => reload.read \in Reads
  BY DEF TypeOK, ReloadTasks
<1>7. CASE FinishReload
  <2>1. CASE dirty \/ locked
    BY <1>7, <2>1 DEF FinishReload, RaiseConflict, TypeOK
  <2>2. CASE ~(dirty \/ locked)
    <3>1. Adopt(reload.read) /\ reload.read \in Reads /\ reload.read.result = "changed"
      BY <1>6, <1>7, <2>2 DEF FinishReload
    <3>2. QED BY <1>7, <2>2, <3>1, AdoptType, SupersededType DEF FinishReload, TypeOK
  <2>3. QED BY <2>1, <2>2
<1>8. CASE MergeCapture
  <2>1. reload.read \in ChangedReads
    BY <1>6, <1>8 DEF MergeCapture, Reads
  <2>2. [kind |-> "merge", phase |-> "merging", read |-> reload.read,
         ours |-> doc, gen |-> gen] \in ReloadTasks
    BY <2>1 DEF ReloadTasks, TypeOK
  <2>3. QED BY <1>8, <2>2 DEF MergeCapture, TypeOK
<1>9. CASE MergeRefused
  BY <1>9 DEF MergeRefused, RaiseConflict, TypeOK
<1>10. CASE MergeAgain
  <2>1. [kind |-> "merge", phase |-> "debounce"] \in ReloadTasks
    BY DEF ReloadTasks
  <2>2. QED BY <1>10, <2>1 DEF MergeAgain, Schedule, TypeOK
<1>11. Merging => reload.read \in ChangedReads /\ reload.ours \in Trees
  BY DEF TypeOK, ReloadTasks, Merging
<1>12. CASE MergeClean
  <2>1. Adopt(reload.read) /\ reload.read \in Reads /\ reload.read.result = "changed"
    BY <1>11, <1>12 DEF MergeClean, Reads, ChangedReads
  <2>2. QED BY <1>12, <2>1, AdoptType, SupersededType DEF MergeClean, TypeOK
<1>13. CASE MergeAdopt
  <2>1. reload.read.doc \in Trees /\ reload.read.index \in Disks /\ reload.ours \in Trees
    BY <1>11, <1>13 DEF MergeAdopt, ChangedReads
  <2>2. Merged(base, reload.ours, reload.read.doc) \in Trees
    BY <2>1 DEF Merged, Trees
  <2>3. armed' \in BOOLEAN
    BY <1>13, EditedType DEF MergeAdopt
  <2>4. doc' \in Trees /\ before' \in Trees /\ base' \in Trees /\ session' \in Indexes
    BY <1>13, <2>1, <2>2 DEF MergeAdopt, Indexes
  <2>5. QED BY <1>13, <2>3, <2>4, NextGenFresh, SupersededType DEF MergeAdopt, ContinuedGen, TypeOK
<1>14. QED BY <1>1, <1>2, <1>3, <1>4, <1>5, <1>7, <1>8, <1>9, <1>10, <1>12, <1>13 DEF Reload, FinishMerge

\* The end of reload_from_disk keeps the types.
LEMMA EndDiscardType ==
    ASSUME TypeOK, discard # NoTask, EndDiscard
    PROVE  /\ doc' \in Trees /\ base' \in Trees /\ before' \in Trees
           /\ session' \in Indexes /\ gen' \in Gens /\ preview' \in {"none", "clean", "dirty"}
           /\ dirty' \in BOOLEAN /\ pending' \in BOOLEAN /\ conflict' \in BOOLEAN
           /\ error' \in BOOLEAN /\ check' \in Checks \cup {NoTask}
           /\ reload' \in ReloadTasks \cup {NoTask}
<1>1. discard.phase = "loaded" => discard.read \in Reads
  BY DEF TypeOK, DiscardTasks
<1>2. CASE discard.phase = "loaded" /\ discard.read.result = "changed" /\ Adopt(discard.read)
           /\ check' = SupersededCheck /\ reload' = SupersededReload
  BY <1>1, <1>2, AdoptType, SupersededType
<1>3. CASE UNCHANGED <<canvas, base, session, dirty, conflict, pending, error, check, reload>>
  BY <1>3 DEF canvas, TypeOK
<1>4. CASE RaiseConflict /\ error' = TRUE
           /\ UNCHANGED <<canvas, base, session, dirty, check, reload>>
  BY <1>4 DEF canvas, RaiseConflict, TypeOK
<1>5. QED BY <1>2, <1>3, <1>4 DEF EndDiscard

\* The steps of reload_from_disk keep the types.
LEMMA DiscardingType ==
    ASSUME TypeOK, Discarding
    PROVE  TypeOK'
<1> USE DEF files, canvas, synced, flags, tasks
<1>1. CASE DiscardRead
  <2>1. discard.by \in {"user", "source"}
    BY <1>1 DEF DiscardRead, TypeOK, DiscardTasks
  <2>2. [by |-> discard.by, phase |-> "loaded", read |-> ReadAll] \in DiscardTasks
    BY <2>1, ReadAllType DEF DiscardTasks
  <2>3. QED BY <1>1, <2>2 DEF DiscardRead, TypeOK
<1>2. CASE FinishDiscard
  <2>1. discard # NoTask /\ EndDiscard
    BY <1>2 DEF FinishDiscard
  <2>2. discard' = NoTask /\ UNCHANGED <<files, own, locked, failed, queue, armed>>
    BY <1>2 DEF FinishDiscard
  <2>3. QED BY <2>1, <2>2, EndDiscardType DEF TypeOK
<1>3. QED BY <1>1, <1>2 DEF Discarding

\* What a running save of the canvas carries in each phase.
LEMMA SavingTask ==
    ASSUME TypeOK, Saving
    PROVE  /\ queue # <<>> /\ Task \in Saves /\ Task.kind \in Kinds
           /\ Task.gen \in Gens /\ Task.doc \in Trees
           /\ Task.phase = "prepared" => Task.index \in Indexes /\ Task.base \in Trees
           /\ Task.phase = "written" => Task.index \in Disks /\ Task.wrote \in Disks
           /\ Task.phase = "failed" => Task.index \in Indexes
<1>1. queue # <<>> /\ Task \in Saves /\ Task.kind \in {"auto", "explicit"}
  BY TaskType DEF Saving, Task
<1>2. QED BY <1>1 DEF Saves, Kinds

\* Only what the save changed enters own_write_hashes, and that is a document's.
WroteValues ==
    \A n \in 1 .. Len(queue) :
        queue[n].kind \in Kinds /\ queue[n].phase = "written" =>
            \A a \in Artifacts : queue[n].wrote[a] # queue[n].index[a] => queue[n].wrote[a] \in Values

\* The steps of the running save keep the types.
LEMMA WriterType ==
    ASSUME TypeOK, WroteValues, Writer
    PROVE  TypeOK'
<1> USE DEF files, canvas, synced, flags, tasks
<1>1. CASE SaveDropped
  <2>1. queue' \in Seq(Saves) /\ Len(queue') <= MaxQueue
    BY <1>1, ReleaseType DEF SaveDropped, Saving
  <2>2. QED BY <1>1, <2>1 DEF SaveDropped, TypeOK
<1>2. CASE PrepareSave
  <2> DEFINE t == [kind |-> Task.kind, gen |-> Task.gen, doc |-> Task.doc,
                   phase |-> "prepared", index |-> session, base |-> base]
  <2>1. t \in Saves
    BY <1>2, SavingTask DEF PrepareSave, Saves, TypeOK
  <2> HIDE DEF t
  <2>2. Become(t) /\ queue # <<>>
    BY <1>2 DEF PrepareSave, Saving, t
  <2>3. queue' \in Seq(Saves) /\ Len(queue') = Len(queue)
    BY <2>1, <2>2, BecomeType
  <2>4. QED BY <1>2, <2>3 DEF PrepareSave, TypeOK, Indexes
<1>3. CASE WriteSave
  <2> DEFINE t == [kind |-> Task.kind, gen |-> Task.gen, doc |-> Task.doc,
                   phase |-> "written", index |-> WriteIndex, wrote |-> disk']
  <2>1. disk' \in Disks
    BY <1>3, SavingTask DEF WriteSave, TypeOK, Trees, Disks
  <2>2. WriteIndex \in Disks
    BY <1>3, SavingTask DEF WriteSave, WriteIndex, Indexes, TypeOK
  <2>3. t \in Saves
    BY <1>3, <2>1, <2>2, SavingTask DEF WriteSave, Saves
  <2> HIDE DEF t
  <2>4. Become(t) /\ queue # <<>>
    BY <1>3 DEF WriteSave, Saving, t
  <2>5. queue' \in Seq(Saves) /\ Len(queue') = Len(queue)
    BY <2>3, <2>4, BecomeType
  <2>6. events' \subseteq Artifacts
    BY <1>3 DEF WriteSave, TypeOK
  <2>7. QED BY <1>3, <2>1, <2>5, <2>6 DEF WriteSave, TypeOK
<1>4. CASE WriteFails
  <2> DEFINE index == IF Task.index = NoIndex /\ Unparsable(Shared) THEN NoIndex ELSE WriteIndex
             t == [kind |-> Task.kind, gen |-> Task.gen, doc |-> Task.doc,
                   phase |-> "failed", index |-> index]
  <2>1. index \in Indexes
    BY <1>4, SavingTask DEF WriteFails, WriteIndex, Indexes, TypeOK
  <2> HIDE DEF index
  <2>2. t \in Saves
    BY <1>4, <2>1, SavingTask DEF WriteFails, Saves
  <2> HIDE DEF t
  <2>3. Become(t) /\ queue # <<>>
    BY <1>4 DEF WriteFails, Saving, t, index
  <2>4. queue' \in Seq(Saves) /\ Len(queue') = Len(queue)
    BY <2>2, <2>3, BecomeType
  <2>5. QED BY <1>4, <2>4 DEF WriteFails, TypeOK
<1>5. CASE FinishSave
  <2>1. Task.wrote \in Disks /\ Task.doc \in Trees /\ Task.index \in Disks /\ queue # <<>>
    BY <1>5, SavingTask DEF FinishSave
  <2>2. \A a \in Artifacts : Task.wrote[a] # Task.index[a] => Task.wrote[a] \in Values
    BY <1>5, <2>1, TaskType, SavingTask DEF FinishSave, WroteValues
  <2>3. own' \in [Artifacts -> Values \cup {Untracked}]
    BY <1>5, <2>2 DEF FinishSave, TypeOK
  <2>4. queue' \in Seq(Saves) /\ Len(queue') <= MaxQueue
    BY <1>5, <2>1, ReleaseType DEF FinishSave
  <2>5. dirty' \in BOOLEAN
    BY <1>5 DEF FinishSave
  <2>6. armed' \in BOOLEAN
    BY <1>5, EditedType DEF FinishSave, TypeOK
  <2>7. preview' \in {"none", "clean", "dirty"}
    BY <1>5 DEF FinishSave, TypeOK
  <2>8. base' \in Trees /\ session' \in Indexes /\ failed' \in Gens \cup {NoGen} /\ conflict' = FALSE
    BY <1>5, <2>1 DEF FinishSave, Indexes
  <2>9. /\ check' = SupersededCheck /\ reload' = SupersededReload /\ discard' = SupersededDiscard
        /\ UNCHANGED <<files, doc, gen, before, pending, error, locked>>
    BY <1>5 DEF FinishSave
  <2>10. QED BY <2>3, <2>4, <2>5, <2>6, <2>7, <2>8, <2>9, SupersededType DEF TypeOK
<1>6. CASE FinishFailedSave
  <2>1. Task.index \in Indexes /\ Task.gen \in Gens /\ queue # <<>>
    BY <1>6, SavingTask DEF FinishFailedSave, Indexes
  <2>2. queue' \in Seq(Saves) /\ Len(queue') <= MaxQueue
    BY <1>6, <2>1, ReleaseType DEF FinishFailedSave
  <2>3. reload' \in ReloadTasks \cup {NoTask} /\ pending' \in BOOLEAN /\ conflict' \in BOOLEAN
    BY <1>6, ResyncType DEF FinishFailedSave, TypeOK, InPreview
  <2>4. failed' \in Gens \cup {NoGen}
    BY <1>6, <2>1 DEF FinishFailedSave, TypeOK
  <2>5. QED BY <1>6, <2>1, <2>2, <2>3, <2>4 DEF FinishFailedSave, TypeOK
<1>7. CASE FinishSaveAs
  <2>1. Task \in Saves /\ Task.kind = "saveas" /\ queue # <<>>
    BY <1>7, TaskType DEF FinishSaveAs, ChangingDestination, Task
  <2>2. Task.doc \in Trees
    BY <2>1 DEF Saves, Kinds
  <2>3. queue' \in Seq(Saves) /\ Len(queue') <= MaxQueue
    BY <1>7, <2>1, ReleaseType DEF FinishSaveAs
  <2>4. disk' \in Disks /\ base' \in Trees /\ own' \in [Artifacts -> Values \cup {Untracked}]
    BY <1>7, <2>2 DEF FinishSaveAs, Disks, Trees
  <2>5. dirty' \in BOOLEAN
    BY <1>7 DEF FinishSaveAs
  <2>6. armed' \in BOOLEAN
    BY <1>7, EditedType DEF FinishSaveAs, TypeOK
  <2>7. /\ session' \in Indexes /\ failed' \in Gens \cup {NoGen} /\ conflict' = FALSE
        /\ preview' = "none" /\ before' = doc
        /\ check' = SupersededCheck /\ reload' = SupersededReload /\ discard' = SupersededDiscard
        /\ UNCHANGED <<events, doc, gen, pending, error, locked>>
    BY <1>7 DEF FinishSaveAs, Indexes
  <2>8. QED BY <2>3, <2>4, <2>5, <2>6, <2>7, SupersededType DEF TypeOK
<1>8. CASE SaveAsFails
  <2>1. queue' \in Seq(Saves) /\ Len(queue') <= MaxQueue
    BY <1>8, ReleaseType DEF SaveAsFails, ChangingDestination
  <2>2. armed' \in BOOLEAN
    BY <1>8, EditedType DEF SaveAsFails, TypeOK
  <2>3. QED BY <1>8, <2>1, <2>2 DEF SaveAsFails, TypeOK
<1>9. SourceTurn => Task.at \in Artifacts /\ Task.value \in Values /\ Task.gen \in Gens
  BY TaskType DEF SourceTurn, Saves, Kinds
<1>10. ASSUME NEW phase \in {"written", "adopting"}, SourceTurn, Become(SourceTask(phase))
       PROVE  queue' \in Seq(Saves) /\ Len(queue') <= MaxQueue
  <2>1. SourceTask(phase) \in Saves
    BY <1>9, <1>10 DEF SourceTask, Saves
  <2>2. QED BY <1>10, <2>1, BecomeType DEF SourceTurn, TypeOK
<1>11. CASE WriteSource
  <2>1. disk' \in Disks /\ own' \in [Artifacts -> Values \cup {Untracked}]
    BY <1>9, <1>11 DEF WriteSource, TypeOK, Disks
  <2>2. events' \subseteq Artifacts
    BY <1>9, <1>11 DEF WriteSource, TypeOK
  <2>3. queue' \in Seq(Saves) /\ Len(queue') <= MaxQueue
    BY <1>10, <1>11 DEF WriteSource
  <2>4. QED BY <1>11, <2>1, <2>2, <2>3 DEF WriteSource, TypeOK
<1>12. CASE SourceFails
  <2>1. queue' \in Seq(Saves) /\ Len(queue') <= MaxQueue
    BY <1>12, ReleaseType DEF SourceFails, SourceTurn
  <2>2. QED BY <1>12, <2>1 DEF SourceFails, TypeOK
<1>13. CASE AdoptSource
  <2>1. queue' \in Seq(Saves) /\ Len(queue') <= MaxQueue
    BY <1>10, <1>13 DEF AdoptSource
  <2>2. [by |-> "source", phase |-> "started"] \in DiscardTasks
    BY DEF DiscardTasks
  <2>3. QED BY <1>13, <2>1, <2>2 DEF AdoptSource, StartDiscard, TypeOK
<1>14. ASSUME NEW more \in BOOLEAN, FinishSource(more)
       PROVE  TypeOK'
  <2>1. queue' \in Seq(Saves) /\ Len(queue') <= MaxQueue
    BY <1>14, ReleaseType DEF FinishSource, SourceTurn
  <2>2. discard # NoTask /\ EndDiscard
    BY <1>14 DEF FinishSource
  <2>3. locked' \in BOOLEAN /\ discard' = NoTask /\ UNCHANGED <<files, own, failed, armed>>
    BY <1>14 DEF FinishSource
  <2>4. QED BY <2>1, <2>2, <2>3, EndDiscardType DEF TypeOK
<1>15. QED BY <1>1, <1>2, <1>3, <1>4, <1>5, <1>6, <1>7, <1>8, <1>11, <1>12, <1>13, <1>14 DEF Writer

-----------------------------------------------------------------------------
(***************************************************************************)
(* What a step does to the canvas, to the merge and to the queue.          *)
(***************************************************************************)

\* A step that changes the canvas takes a fresh generation.
LEMMA CanvasStep ==
    ASSUME Next
    PROVE  (gen' = gen /\ doc' = doc) \/ gen' = NextGen
<1> USE DEF files, canvas, synced, flags, tasks
<1>1. CASE User
  BY <1>1 DEF User, Apply, Preview, SaveSource, FinishPreview, Discard, SaveExplicit, Save,
              SaveAs, SaveAsRefused, SourceEdit, SourceRevert
<1>2. CASE External \/ Watcher \/ Autosave
  BY <1>2 DEF External, ExternalEdit, Watcher, TakePaths, FinishCheck, Autosave, Save
<1>3. CASE Reload
  BY <1>3 DEF Reload, FinishMerge, ReloadStale, ReloadDefer, ReloadRead, ReloadUnchanged, ReloadError,
              FinishReload, MergeCapture, MergeRefused, MergeClean, MergeAgain, MergeAdopt,
              Adopt, ContinuedGen, ItemUnchanged
<1>4. EndDiscard => (gen' = gen /\ doc' = doc) \/ gen' = NextGen
  BY DEF EndDiscard, Adopt, ContinuedGen
<1>5. CASE Discarding
  BY <1>4, <1>5 DEF Discarding, DiscardRead, FinishDiscard
<1>6. CASE Writer
  BY <1>4, <1>6 DEF Writer, SaveDropped, PrepareSave, WriteSave, WriteFails, FinishSave,
                    FinishFailedSave, FinishSaveAs, SaveAsFails, WriteSource, SourceFails,
                    AdoptSource, FinishSource
<1>7. QED BY <1>1, <1>2, <1>3, <1>5, <1>6 DEF Next

\* schedule_resync starts no merge: it starts with the debounce.
LEMMA ResyncNotMerging ==
    ASSUME NEW d, NEW p, NEW slot, Resync(d, p, slot) \/ Schedule(d, p, slot)
    PROVE  reload' = slot \/ reload'.phase = "debounce"
BY DEF Resync, Schedule

\* A task that was superseded is not merging.
LEMMA SupersededNotMerging ==
    SupersededReload = NoTask \/ SupersededReload.phase = "stale"
BY DEF SupersededReload

\* A merge that is running after a step ran before it, or has captured the canvas
\* and its generation in this step.
LEMMA MergeStep ==
    ASSUME Next, Merging'
    PROVE  reload' = reload \/ (reload'.ours = doc /\ reload'.gen = gen /\ UNCHANGED canvas)
<1> USE ResyncNotMerging, SupersededNotMerging DEF tasks, Merging
<1>1. CASE User
  <2>1. ASSUME NEW a \in Artifacts, NEW v \in Values, Apply(a, v)
        PROVE  reload' = reload \/ reload'.phase = "debounce"
    BY <2>1 DEF Apply
  <2>2. ASSUME NEW committed \in BOOLEAN, FinishPreview(committed)
        PROVE  reload' = reload \/ reload'.phase = "debounce"
    BY <2>2 DEF FinishPreview
  <2>3. QED
    BY <1>1, <2>1, <2>2 DEF User, Preview, SaveSource, Discard, StartDiscard, SaveExplicit,
                            Save, SaveAs, SaveAsRefused, SourceEdit, SourceRevert
<1>2. CASE External \/ Watcher \/ Autosave
  BY <1>2 DEF External, ExternalEdit, Watcher, TakePaths, FinishCheck, Autosave, Save
<1>3. CASE Reload
  <2>1. CASE MergeCapture
    BY <2>1 DEF MergeCapture, ItemUnchanged
  <2>2. CASE ReloadStale \/ MergeAgain
    BY <2>2 DEF ReloadStale, MergeAgain
  <2>3. CASE ReloadRead
    BY <2>3 DEF ReloadRead
  <2>4. CASE ReloadDefer \/ ReloadUnchanged \/ ReloadError \/ MergeRefused
    BY <2>4 DEF ReloadDefer, ReloadUnchanged, ReloadError, MergeRefused
  <2>5. CASE FinishReload \/ MergeClean \/ MergeAdopt
    BY <2>5 DEF FinishReload, MergeClean, MergeAdopt
  <2>6. QED BY <1>3, <2>1, <2>2, <2>3, <2>4, <2>5 DEF Reload, FinishMerge
<1>4. EndDiscard => reload' = reload
  BY DEF EndDiscard
<1>5. CASE Discarding
  BY <1>4, <1>5 DEF Discarding, DiscardRead, FinishDiscard
<1>6. CASE Writer
  BY <1>4, <1>6 DEF Writer, SaveDropped, PrepareSave, WriteSave, WriteFails, FinishSave,
                    FinishFailedSave, FinishSaveAs, SaveAsFails, WriteSource, SourceFails,
                    AdoptSource, StartDiscard, FinishSource
<1>7. QED BY <1>1, <1>2, <1>3, <1>5, <1>6 DEF Next

\* The ways a step moves the queue: not at all, a lease is dropped, a snapshot of
\* the canvas or a source is queued, the running task goes on with its snapshot.
IsSnapshot(t) ==
    /\ t.phase = "queued"
    /\ IF t.kind = "source" THEN locked ELSE t.gen = gen /\ t.doc = doc
    /\ t.kind = "saveas" => "saveas" \in Features
IsSuccessor(t) ==
    /\ t.kind = Task.kind
    /\ t.kind # "source" => t.gen = Task.gen /\ t.doc = Task.doc
    /\ t.kind \in Kinds /\ t.phase = "written" =>
         \A a \in Artifacts : t.wrote[a] # t.index[a] => t.wrote[a] \in Values
QueueMove ==
    \/ queue' = queue
    \/ queue # <<>> /\ Release
    \/ \E t \in Saves : IsSnapshot(t) /\ queue' = Append(queue, t)
    \/ queue # <<>> /\ \E t \in Saves : IsSuccessor(t) /\ Become(t)

\* Every step moves the queue in one of the four ways of QueueMove.
LEMMA QueueStep ==
    ASSUME TypeOK, Next
    PROVE  QueueMove
<1> USE DEF files, canvas, synced, flags, tasks
<1>1. ASSUME NEW kind \in Kinds, Save(kind) PROVE QueueMove
  <2> DEFINE t == [kind |-> kind, phase |-> "queued", gen |-> gen, doc |-> doc]
  <2>1. t \in Saves /\ IsSnapshot(t)
    BY DEF Saves, TypeOK, IsSnapshot, Kinds
  <2> HIDE DEF t
  <2>2. queue' = Append(queue, t)
    BY <1>1 DEF Save, t
  <2>3. QED BY <2>1, <2>2 DEF QueueMove
<1>2. CASE User
  <2>1. ASSUME NEW a \in Artifacts, NEW v \in Values, SaveSource(a, v) PROVE QueueMove
    <3> DEFINE t == [kind |-> "source", phase |-> "queued", gen |-> gen, at |-> a, value |-> v]
    <3>1. t \in Saves /\ IsSnapshot(t)
      BY <2>1 DEF Saves, TypeOK, IsSnapshot, SaveSource
    <3> HIDE DEF t
    <3>2. queue' = Append(queue, t)
      BY <2>1 DEF SaveSource, t
    <3>3. QED BY <3>1, <3>2 DEF QueueMove
  <2>2. CASE SaveAs
    <3> DEFINE t == [kind |-> "saveas", phase |-> "queued", gen |-> gen, doc |-> doc]
    <3>1. t \in Saves /\ IsSnapshot(t)
      BY <2>2 DEF Saves, TypeOK, IsSnapshot, SaveAs
    <3> HIDE DEF t
    <3>2. queue = <<>> /\ queue' = <<t>>
      BY <2>2 DEF SaveAs, Idle, t
    <3>3. queue' = Append(queue, t)
      BY <3>2
    <3>4. QED BY <3>1, <3>3 DEF QueueMove
  <2>3. CASE SaveExplicit
    BY <1>1, <2>3 DEF SaveExplicit, Kinds
  <2>4. ASSUME NEW a \in Artifacts, NEW v \in Values, Apply(a, v) \/ Preview(a, v)
        PROVE  queue' = queue
    BY <2>4 DEF Apply, Preview
  <2>5. ASSUME NEW committed \in BOOLEAN, FinishPreview(committed)
        PROVE  queue' = queue
    BY <2>5 DEF FinishPreview
  <2>6. CASE Discard \/ SaveAsRefused \/ SourceEdit \/ SourceRevert
    BY <2>6 DEF Discard, SaveAsRefused, SourceEdit, SourceRevert, QueueMove
  <2>7. QED BY <1>2, <2>1, <2>2, <2>3, <2>4, <2>5, <2>6 DEF User, QueueMove
<1>3. CASE External \/ Watcher
  BY <1>3 DEF External, ExternalEdit, Watcher, TakePaths, FinishCheck, QueueMove
<1>4. CASE Autosave
  BY <1>1, <1>4 DEF Autosave, Kinds, QueueMove
<1>5. CASE Reload
  <2>1. queue' = queue
    BY <1>5 DEF Reload, FinishMerge, ReloadStale, ReloadDefer, ReloadRead, ReloadUnchanged, ReloadError,
                FinishReload, MergeCapture, MergeRefused, MergeClean, MergeAgain, MergeAdopt
  <2>2. QED BY <2>1 DEF QueueMove
<1>6. CASE Discarding
  BY <1>6 DEF Discarding, DiscardRead, FinishDiscard, QueueMove
<1>7. CASE Writer
  <2>1. CASE SaveDropped \/ FinishSave \/ FinishFailedSave \/ FinishSaveAs \/ SaveAsFails
             \/ SourceFails \/ (\E more \in BOOLEAN : FinishSource(more))
    BY <2>1 DEF SaveDropped, FinishSave, FinishFailedSave, FinishSaveAs, SaveAsFails,
                SourceFails, FinishSource, Saving, ChangingDestination, SourceTurn, QueueMove
  <2>2. CASE PrepareSave
    <3> DEFINE t == [kind |-> Task.kind, gen |-> Task.gen, doc |-> Task.doc,
                     phase |-> "prepared", index |-> session, base |-> base]
    <3>1. t \in Saves
      BY <2>2, SavingTask DEF PrepareSave, Saves, TypeOK
    <3>2. IsSuccessor(t)
      BY DEF IsSuccessor
    <3> HIDE DEF t
    <3>3. queue # <<>> /\ Become(t)
      BY <2>2 DEF PrepareSave, Saving, t
    <3>4. QED BY <3>1, <3>2, <3>3 DEF QueueMove
  <2>3. CASE WriteSave
    <3> DEFINE t == [kind |-> Task.kind, gen |-> Task.gen, doc |-> Task.doc,
                     phase |-> "written", index |-> WriteIndex, wrote |-> disk']
    <3>1. Task.doc \in Trees /\ Task.kind \in Kinds /\ Task.gen \in Gens
      BY <2>3, SavingTask DEF WriteSave
    <3>2. disk = WriteIndex /\ disk \in Disks
      BY <2>3 DEF WriteSave, CanWrite, TypeOK
    <3>3. /\ disk' \in Disks
          /\ \A a \in Artifacts : disk'[a] # disk[a] => disk'[a] \in Values
      BY <2>3, <3>1, <3>2 DEF WriteSave, Trees, Disks
    <3>4. t \in Saves
      BY <3>1, <3>2, <3>3 DEF Saves
    <3>5. IsSuccessor(t)
      BY <3>2, <3>3 DEF IsSuccessor
    <3> HIDE DEF t
    <3>6. queue # <<>> /\ Become(t)
      BY <2>3 DEF WriteSave, Saving, t
    <3>7. QED BY <3>4, <3>5, <3>6 DEF QueueMove
  <2>4. CASE WriteFails
    <3> DEFINE index == IF Task.index = NoIndex /\ Unparsable(Shared) THEN NoIndex ELSE WriteIndex
               t == [kind |-> Task.kind, gen |-> Task.gen, doc |-> Task.doc,
                     phase |-> "failed", index |-> index]
    <3>1. index \in Indexes
      BY <2>4, SavingTask DEF WriteFails, WriteIndex, Indexes, TypeOK
    <3> HIDE DEF index
    <3>2. t \in Saves
      BY <2>4, <3>1, SavingTask DEF WriteFails, Saves
    <3>3. IsSuccessor(t)
      BY DEF IsSuccessor
    <3> HIDE DEF t
    <3>4. queue # <<>> /\ Become(t)
      BY <2>4 DEF WriteFails, Saving, t, index
    <3>5. QED BY <3>2, <3>3, <3>4 DEF QueueMove
  <2>5. ASSUME NEW phase \in {"written", "adopting"}, SourceTurn, Become(SourceTask(phase))
        PROVE  QueueMove
    <3>1. queue # <<>> /\ Task \in Saves /\ Task.kind = "source"
      BY <2>5, TaskType DEF SourceTurn
    <3>2. SourceTask(phase) \in Saves
      BY <3>1 DEF SourceTask, Saves, Kinds
    <3>3. IsSuccessor(SourceTask(phase))
      BY <3>1 DEF IsSuccessor, SourceTask, Kinds
    <3>4. QED BY <2>5, <3>1, <3>2, <3>3 DEF QueueMove
  <2>6. CASE WriteSource \/ AdoptSource
    BY <2>5, <2>6 DEF WriteSource, AdoptSource
  <2>7. QED BY <1>7, <2>1, <2>2, <2>3, <2>4, <2>6 DEF Writer
<1>8. QED BY <1>2, <1>3, <1>4, <1>5, <1>6, <1>7 DEF Next

\* Hence a save in the queue after a step was in it before, is the successor of the
\* one that ran, or is a snapshot of the canvas.
LEMMA QueueElements ==
    ASSUME TypeOK, QueueMove, NEW n \in 1 .. Len(queue')
    PROVE  \/ \E m \in 1 .. Len(queue) : queue'[n] = queue[m]
           \/ IsSnapshot(queue'[n])
           \/ queue # <<>> /\ IsSuccessor(queue'[n])
<1>1. CASE queue' = queue
  BY <1>1
<1>2. CASE queue # <<>> /\ Release
  <2>1. Len(queue') = Len(queue) - 1 /\ queue'[n] = queue[n + 1] /\ n + 1 \in 1 .. Len(queue)
    BY <1>2, TaskType DEF Release
  <2>2. QED BY <2>1
<1>3. ASSUME NEW t \in Saves, IsSnapshot(t), queue' = Append(queue, t)
      PROVE  (\E m \in 1 .. Len(queue) : queue'[n] = queue[m]) \/ queue'[n] = t
  <2>1. /\ Len(queue') = Len(queue) + 1 /\ queue'[Len(queue) + 1] = t /\ Len(queue) \in Nat
        /\ \A m \in 1 .. Len(queue) : queue'[m] = queue[m]
    BY <1>3 DEF TypeOK
  <2>2. n \in 1 .. Len(queue) \/ n = Len(queue) + 1
    BY <2>1
  <2>3. QED BY <2>1, <2>2
<1>4. ASSUME queue # <<>>, NEW t \in Saves, IsSuccessor(t), Become(t)
      PROVE  (\E m \in 1 .. Len(queue) : queue'[n] = queue[m]) \/ queue'[n] = t
  <2>1. /\ Len(queue') = Len(queue) /\ queue'[1] = t /\ Len(queue) \in Nat
        /\ \A m \in 2 .. Len(queue) : queue'[m] = queue[m]
    BY <1>4, BecomeType, TaskType
  <2>2. n = 1 \/ (n \in 2 .. Len(queue) /\ n \in 1 .. Len(queue))
    BY <2>1
  <2>3. QED BY <2>1, <2>2
<1>5. QED BY <1>1, <1>2, <1>3, <1>4 DEF QueueMove

-----------------------------------------------------------------------------
(***************************************************************************)
(* The inductive invariant of every instance.                              *)
(***************************************************************************)

\* The inductive invariant of every instance: the generations are names because a
\* change of the canvas takes a fresh one and a capture copies both.
IInv == TypeOK /\ WroteValues /\ GenerationNamesDocument

\* A freshly opened item satisfies the invariant.
LEMMA InitIInv == Init => IInv
<1> SUFFICES ASSUME Init PROVE IInv
  OBVIOUS
<1>1. TypeOK
  <2>1. disk \in Disks /\ own \in [Artifacts -> Values \cup {Untracked}] /\ session \in Indexes
    BY DEF Init, Trees, Disks, Indexes
  <2>2. 0 \in Gens /\ Len(queue) = 0 /\ queue \in Seq(Saves) /\ 0 <= MaxQueue
    BY QueueAssumption DEF Init, Gens
  <2>3. QED BY <2>1, <2>2 DEF Init, TypeOK
<1>2. WroteValues /\ GenerationNamesDocument
  <2>1. 1 .. Len(queue) = {} /\ ~Merging
    BY DEF Init, Merging
  <2>2. QED BY <2>1 DEF WroteValues, GenerationNamesDocument
<1>3. QED BY <1>1, <1>2 DEF IInv

\* Every step keeps the types.
LEMMA TypeStep ==
    ASSUME TypeOK, WroteValues, Next
    PROVE  TypeOK'
BY UserType, FilesType, ReloadType, DiscardingType, WriterType DEF Next

\* Every step keeps what finished writes have written documents.
LEMMA WroteValuesStep ==
    ASSUME TypeOK, WroteValues, Next
    PROVE  WroteValues'
<1> SUFFICES ASSUME NEW n \in 1 .. Len(queue'),
                    queue'[n].kind \in Kinds, queue'[n].phase = "written",
                    NEW a \in Artifacts, queue'[n].wrote[a] # queue'[n].index[a]
             PROVE  queue'[n].wrote[a] \in Values
  BY DEF WroteValues
<1>1. QueueMove
  BY QueueStep
<1>2. CASE \E m \in 1 .. Len(queue) : queue'[n] = queue[m]
  BY <1>2 DEF WroteValues
<1>3. CASE IsSnapshot(queue'[n])
  BY <1>3 DEF IsSnapshot
<1>4. CASE IsSuccessor(queue'[n])
  BY <1>4 DEF IsSuccessor
<1>5. QED BY <1>1, <1>2, <1>3, <1>4, QueueElements

\* Every step keeps generations names of documents.
LEMMA GenerationStep ==
    ASSUME TypeOK, GenerationNamesDocument, Next
    PROVE  GenerationNamesDocument'
<1>1. (gen' = gen /\ doc' = doc) \/ (gen' = NextGen /\ NextGen \notin Held)
  BY CanvasStep, NextGenFresh
<1>2. ASSUME NEW n \in 1 .. Len(queue'), queue'[n].kind # "source", queue'[n].gen = gen'
      PROVE  queue'[n].doc = doc'
  <2>1. \/ queue'[n].gen = gen /\ queue'[n].doc = doc
        \/ \E m \in 1 .. Len(queue) : /\ queue[m].kind # "source"
                                      /\ queue'[n].gen = queue[m].gen
                                      /\ queue'[n].doc = queue[m].doc
    <3>1. CASE \E m \in 1 .. Len(queue) : queue'[n] = queue[m]
      BY <1>2, <3>1
    <3>2. CASE IsSnapshot(queue'[n])
      BY <1>2, <3>2 DEF IsSnapshot
    <3>3. CASE queue # <<>> /\ IsSuccessor(queue'[n])
      BY <1>2, <3>3, TaskType DEF IsSuccessor
    <3>4. QED BY <3>1, <3>2, <3>3, QueueStep, QueueElements
  <2>2. queue'[n].gen \in Held
    BY <2>1 DEF Held
  <2>3. gen' = gen /\ doc' = doc
    BY <1>1, <1>2, <2>2
  <2>4. QED BY <1>2, <2>1, <2>3 DEF GenerationNamesDocument
<1>3. ASSUME Merging', reload'.gen = gen'
      PROVE  reload'.ours = doc'
  <2>1. CASE reload' = reload
    <3>1. Merging /\ reload.gen \in Held
      BY <1>3, <2>1 DEF Merging, Held
    <3>2. gen' = gen /\ doc' = doc
      BY <1>1, <1>3, <2>1, <3>1
    <3>3. QED BY <1>3, <2>1, <3>1, <3>2 DEF GenerationNamesDocument
  <2>2. CASE reload'.ours = doc /\ UNCHANGED canvas
    BY <2>2 DEF canvas
  <2>3. QED BY <1>3, <2>1, <2>2, MergeStep
<1>4. QED BY <1>2, <1>3 DEF GenerationNamesDocument

\* The invariant is inductive.
LEMMA NextIInv == IInv /\ [Next]_vars => IInv'
<1> SUFFICES ASSUME IInv, [Next]_vars PROVE IInv'
  OBVIOUS
<1>1. CASE Next
  BY <1>1, TypeStep, WroteValuesStep, GenerationStep DEF IInv
<1>2. CASE UNCHANGED vars
  BY <1>2 DEF vars, files, canvas, synced, flags, tasks, IInv, TypeOK, WroteValues,
              GenerationNamesDocument, Merging
<1>3. QED BY <1>1, <1>2

\* Every variable of FigItem keeps its type, with any queue and any features.
THEOREM TypeCorrect == Spec => []TypeOK
<1>1. IInv => TypeOK
  BY DEF IInv
<1>2. QED BY <1>1, InitIInv, NextIInv, PTL DEF Spec

\* save_inner and the merge may compare render generations instead of documents: a
\* snapshot or a merge input whose generation is still the canvas's is the canvas.
THEOREM GenerationsAreNames == Spec => []GenerationNamesDocument
<1>1. IInv => GenerationNamesDocument
  BY DEF IInv
<1>2. QED BY <1>1, InitIInv, NextIInv, PTL DEF Spec

\* A step of the reload task leaves unsaved edits where they are.
LEMMA AdoptionStep ==
    ASSUME IInv, Reload, dirty, NEW a \in Artifacts, doc[a] # base[a]
    PROVE  doc'[a] = doc[a]
<1> USE DEF canvas, ItemUnchanged
<1>1. CASE MergeAdopt
  <2>1. Merging /\ reload.gen = gen /\ reload.ours = doc
    BY <1>1 DEF MergeAdopt, IInv, GenerationNamesDocument
  <2>2. doc' = Merged(base, doc, reload.read.doc)
    BY <1>1, <2>1 DEF MergeAdopt
  <2>3. QED BY <2>2 DEF Merged
<1>2. CASE FinishReload \/ MergeClean
  BY <1>2 DEF FinishReload, MergeClean
<1>3. CASE ReloadStale \/ ReloadDefer \/ ReloadRead \/ ReloadUnchanged \/ ReloadError
           \/ MergeCapture \/ MergeRefused \/ MergeAgain
  BY <1>3 DEF ReloadStale, ReloadDefer, ReloadRead, ReloadUnchanged, ReloadError,
              MergeCapture, MergeRefused, MergeAgain
<1>4. QED BY <1>1, <1>2, <1>3 DEF Reload, FinishMerge

\* No reload and no merge replaces an unsaved edit (schedule_reload_with_full,
\* schedule_merge_with_full), in any instance: two merges, saves that fail, previews.
THEOREM EditsSurviveAdoption == Spec => AdoptionKeepsEdits
<1>1. IInv /\ [Next]_vars =>
        [Reload /\ dirty => \A a \in Artifacts : doc[a] # base[a] => doc'[a] = doc[a]]_vars
  BY AdoptionStep
<1>2. QED BY <1>1, InitIInv, NextIInv, PTL DEF Spec, AdoptionKeepsEdits

-----------------------------------------------------------------------------
(***************************************************************************)
(* The queue without sources.                                              *)
(***************************************************************************)

\* The source editor is not in use.
NoSource == "source" \notin Features

\* Without it nobody locks the canvas and no source is queued.
NoSourceInv == ~locked /\ \A n \in 1 .. Len(queue) : queue[n].kind # "source"

\* Without the source editor the canvas is never locked and no source is queued.
LEMMA NoSourceStep ==
    ASSUME TypeOK, NoSource, NoSourceInv, Next
    PROVE  NoSourceInv'
<1> USE DEF files, canvas, synced, flags, tasks
<1>1. ~locked /\ ~SourceTurn
  BY TaskType DEF NoSourceInv, SourceTurn
<1>2. ~locked'
  <2>1. CASE User
    <3>1. ASSUME NEW a \in Artifacts, NEW v \in Values, Apply(a, v) \/ Preview(a, v) \/ SaveSource(a, v)
          PROVE  ~locked'
      BY <1>1, <3>1 DEF Apply, Preview, SaveSource
    <3>2. ASSUME NEW committed \in BOOLEAN, FinishPreview(committed)
          PROVE  ~locked'
      BY <1>1, <3>2 DEF FinishPreview
    <3>3. CASE Discard \/ SaveExplicit \/ SaveAs \/ SaveAsRefused \/ SourceEdit \/ SourceRevert
      BY <1>1, <3>3 DEF Discard, SaveExplicit, Save, SaveAs, SaveAsRefused, SourceEdit, SourceRevert,
                        NoSource
    <3>4. QED BY <2>1, <3>1, <3>2, <3>3 DEF User
  <2>2. CASE External \/ Watcher \/ Autosave
    BY <1>1, <2>2 DEF External, ExternalEdit, Watcher, TakePaths, FinishCheck, Autosave, Save
  <2>3. CASE Reload
    BY <1>1, <2>3 DEF Reload, FinishMerge, ReloadStale, ReloadDefer, ReloadRead, ReloadUnchanged,
                ReloadError, FinishReload, MergeCapture, MergeRefused, MergeClean, MergeAgain, MergeAdopt,
                ItemUnchanged
  <2>4. CASE Discarding
    BY <1>1, <2>4 DEF Discarding, DiscardRead, FinishDiscard
  <2>5. CASE Writer
    BY <1>1, <2>5 DEF Writer, SaveDropped, PrepareSave, WriteSave, WriteFails, FinishSave,
           FinishFailedSave, FinishSaveAs, SaveAsFails, WriteSource, SourceFails, AdoptSource, FinishSource
  <2>6. QED BY <2>1, <2>2, <2>3, <2>4, <2>5 DEF Next
<1>3. ASSUME NEW n \in 1 .. Len(queue') PROVE queue'[n].kind # "source"
  <2>1. CASE \E m \in 1 .. Len(queue) : queue'[n] = queue[m]
    BY <2>1 DEF NoSourceInv
  <2>2. CASE IsSnapshot(queue'[n])
    BY <1>1, <2>2 DEF IsSnapshot
  <2>3. CASE queue # <<>> /\ IsSuccessor(queue'[n])
    BY <2>3, TaskType DEF NoSourceInv, IsSuccessor
  <2>4. QED BY <2>1, <2>2, <2>3, QueueStep, QueueElements
<1>4. QED BY <1>2, <1>3 DEF NoSourceInv

-----------------------------------------------------------------------------
(***************************************************************************)
(* Events, checks and reloads that a step keeps.                           *)
(***************************************************************************)

\* What is vouched for stays so in a step that keeps the files, the events and the
\* table of own writes.
LEMMA VouchedKept ==
    ASSUME IInv, UNCHANGED <<disk, events, own>>,
           check' = check \/ check' = SupersededCheck,
           NEW a \in Artifacts, Vouched(a)
    PROVE  Vouched(a)'
<1>1. CASE check # NoTask /\ a \in check.paths
  <2>1. SupersededCheck \in Checks /\ SupersededCheck.paths = check.paths
    BY <1>1 DEF SupersededCheck, IInv, TypeOK, Checks
  <2>2. check' # NoTask /\ check'.paths = check.paths
    BY <1>1, <2>1, TaskAssumption
  <2>3. QED BY <1>1, <2>2 DEF Vouched, HasEvent
<1>2. CASE a \in events \/ disk[a] = own[a]
  BY <1>2 DEF Vouched, HasEvent
<1>3. QED BY <1>1, <1>2 DEF Vouched, HasEvent

\* A watcher check stays sound in a step that keeps files, events and own writes.
LEMMA CheckKept ==
    ASSUME CheckVouched, UNCHANGED <<disk, events, own>>,
           check' = check \/ check' = SupersededCheck
    PROVE  CheckVouched'
<1>1. CASE check' = check
  BY <1>1 DEF CheckVouched
<1>2. CASE check' = SupersededCheck
  BY <1>2 DEF CheckVouched, SupersededCheck
<1>3. QED BY <1>1, <1>2

\* schedule_resync of an item no FNX buffer locks leaves a task or defers to the preview.
LEMMA ResyncTask ==
    ASSUME NEW d, NEW p, NEW slot, ~locked, Resync(d, p, slot)
    PROVE  /\ pending' = TRUE /\ conflict' = conflict
           /\ p => reload' = slot
           /\ ~p => reload' # NoTask /\ reload'.phase = "debounce"
<1> DEFINE t == [kind |-> IF d THEN "merge" ELSE "reload", phase |-> "debounce"]
<1>1. t # NoTask
  <2>1. t \in ReloadTasks
    BY DEF ReloadTasks
  <2>2. QED BY <2>1, TaskAssumption
<1>2. t.phase = "debounce"
  OBVIOUS
<1> HIDE DEF t
<1>3. pending' = TRUE /\ conflict' = conflict /\ reload' = (IF p THEN slot ELSE t)
  BY DEF Resync, Schedule, t
<1>4. QED BY <1>1, <1>2, <1>3
=============================================================================
