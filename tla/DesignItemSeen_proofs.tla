------------------------- MODULE DesignItemSeen_proofs -------------------------
(***************************************************************************)
(* Proof that a save replaces nothing the canvas has not seen, for any     *)
(* number of queued saves, with discards, previews, the source editor and  *)
(* failing writes.  Save As is left out: the copy starts without a session *)
(* and its first save is checked against nothing.                          *)
(***************************************************************************)
EXTENDS DesignItemSeen, DesignItemQueue_proofs

\* Save As is not in use, and none is queued.
NoSaveAs == "saveas" \notin Features
NoSaveAsInv == \A n \in 1 .. Len(queue) : queue[n].kind # "saveas"

\* The invariant: what SeenInv says, and that only the head of the queue runs.
SeenIInv == IInv /\ TailQueued /\ NoSaveAsInv /\ SeenInv

\* The three parts of SeenInv a step can disturb separately.
SessionSeen ==
    /\ session # NoIndex => IndexSeen(session)
    /\ ~Writing \/ Task.kind = "source" => session # NoIndex
TaskSeen ==
    Writing /\ Saving =>
        /\ Task.index # NoIndex /\ IndexSeen(Task.index)
        /\ Task.phase = "written" => \A a \in Artifacts : Task.wrote[a] \in seen[a] \cup {Task.doc[a]}
IsRead(t) == t # NoTask /\ t.phase \in {"loaded", "merging"} /\ t.read.result = "changed"
ReadsSeen ==
    /\ IsRead(reload) => NewOrSeen(reload.read)
    /\ IsRead(discard) /\ discard.phase = "loaded" => NewOrSeen(discard.read)

\* SeenInv is the three parts and that the merge base is seen.
LEMMA SeenParts ==
    SeenInv <=> /\ \A a \in Artifacts : base[a] \in seen[a]
                /\ SessionSeen /\ TaskSeen /\ ReadsSeen
BY DEF SeenInv, SessionSeen, TaskSeen, ReadsSeen, IsRead, Writing, Saving, Task

\* Without Save As no step queues one.
LEMMA NoSaveAsStep ==
    ASSUME TypeOK, NoSaveAs, NoSaveAsInv, Next
    PROVE  NoSaveAsInv'
<1>1. ASSUME NEW n \in 1 .. Len(queue') PROVE queue'[n].kind # "saveas"
  <2>1. CASE \E m \in 1 .. Len(queue) : queue'[n] = queue[m]
    BY <2>1 DEF NoSaveAsInv
  <2>2. CASE IsSnapshot(queue'[n])
    BY <2>2 DEF IsSnapshot, NoSaveAs
  <2>3. CASE queue # <<>> /\ IsSuccessor(queue'[n])
    BY <2>3, TaskType DEF NoSaveAsInv, IsSuccessor
  <2>4. QED BY <2>1, <2>2, <2>3, QueueStep, QueueElements
<1>2. QED BY <1>1 DEF NoSaveAsInv

\* The memory only grows, and has the new merge base.
Grows == \A a \in Artifacts : seen[a] \subseteq seen'[a] /\ base'[a] \in seen'[a]

LEMMA SeenGrows == SeenNext => Grows
BY DEF SeenNext, Grows

\* A step that keeps the session, the running save, and what was read.
LEMMA SessionKept ==
    ASSUME SessionSeen, Grows, session' = session,
           Writing' <=> Writing, Writing => Task' = Task
    PROVE  SessionSeen'
BY DEF SessionSeen, Grows, IndexSeen

LEMMA TaskKept ==
    ASSUME TaskSeen, Grows, Writing' <=> Writing, Writing => Task' = Task
    PROVE  TaskSeen'
<1>1. Writing => queue # <<>> /\ Task = Head(queue)
  BY DEF Writing, Task
<1>2. Writing' => queue' # <<>> /\ Task' = Head(queue')
  BY DEF Writing, Task
<1>3. Writing' => (Saving' <=> Saving)
  BY <1>1, <1>2 DEF Saving
<1>4. QED BY <1>3 DEF TaskSeen, Grows, IndexSeen

\* What a task of the disk has read stays read, or the task starts over.
NoNewRead(t, u) == IsRead(u) => IsRead(t) /\ u.read = t.read /\ (u.phase = "loaded" => t.phase = "loaded")

LEMMA ReadsKept ==
    ASSUME ReadsSeen, Grows, NoNewRead(reload, reload'), NoNewRead(discard, discard')
    PROVE  ReadsSeen'
BY DEF ReadsSeen, Grows, NoNewRead, NewOrSeen, IsRead

LEMMA NoReads ==
    /\ \A t : NoNewRead(t, t) /\ NoNewRead(t, NoTask)
    /\ \A t, u : u.phase \in {"debounce", "stale", "started"} => NoNewRead(t, u)
    /\ \A t : NoNewRead(t, SupersededReload) /\ NoNewRead(t, SupersededDiscard)
<1>1. \A t : NoNewRead(t, t) /\ NoNewRead(t, NoTask)
  BY DEF NoNewRead, IsRead
<1>2. \A t, u : u.phase \in {"debounce", "stale", "started"} => NoNewRead(t, u)
  BY DEF NoNewRead, IsRead
<1>3. QED BY <1>1, <1>2, SupersededUnread

\* schedule_resync reads nothing.
LEMMA ResyncReads ==
    ASSUME NEW d, NEW p, NEW slot, Resync(d, p, slot) \/ Schedule(d, p, slot),
           NoNewRead(reload, slot)
    PROVE  NoNewRead(reload, reload')
BY ResyncNotMerging, NoReads

-----------------------------------------------------------------------------
(***************************************************************************)
(* The steps.                                                              *)
(***************************************************************************)

\* Edits, events, checks and the captures of saves bring in no content.
LEMMA SeenUser ==
    ASSUME TypeOK, SeenInv, NoSaveAs, Grows, User \/ External \/ Watcher \/ Autosave
    PROVE  SessionSeen' /\ TaskSeen' /\ ReadsSeen'
<1> USE NoReads, ResyncReads DEF files, canvas, synced, flags, tasks
<1>1. SessionSeen /\ TaskSeen /\ ReadsSeen
  BY SeenParts
<1> DEFINE SameQueue == (Writing' <=> Writing) /\ (Writing => Task' = Task)
           Quiet == /\ session' = session /\ SameQueue
                    /\ NoNewRead(reload, reload') /\ NoNewRead(discard, discard')
<1>2. queue' = queue => SameQueue
  BY DEF Writing, Task
<1>3. ASSUME NEW kind \in Kinds, Save(kind) PROVE Quiet
  <2> DEFINE t == [kind |-> kind, phase |-> "queued", gen |-> gen, doc |-> doc]
  <2>1. t \in Saves /\ t.phase = "queued"
    BY DEF Saves, TypeOK
  <2> HIDE DEF t
  <2>2. queue' = Append(queue, t)
    BY <1>3 DEF Save, t
  <2>3. SameQueue
    BY <2>1, <2>2, QueuedBehind
  <2>4. QED BY <1>3, <2>3 DEF Save
<1>4. CASE User
  <2>1. ASSUME NEW a \in Artifacts, NEW v \in Values, SaveSource(a, v) PROVE Quiet
    <3> DEFINE t == [kind |-> "source", phase |-> "queued", gen |-> gen, at |-> a, value |-> v]
    <3>1. t \in Saves /\ t.phase = "queued"
      BY DEF Saves, TypeOK
    <3> HIDE DEF t
    <3>2. queue' = Append(queue, t)
      BY <2>1 DEF SaveSource, t
    <3>3. SameQueue
      BY <3>1, <3>2, QueuedBehind
    <3>4. QED BY <2>1, <3>3 DEF SaveSource
  <2>2. ASSUME NEW a \in Artifacts, NEW v \in Values, Apply(a, v) PROVE Quiet
    BY <1>2, <2>2 DEF Apply
  <2>3. ASSUME NEW a \in Artifacts, NEW v \in Values, Preview(a, v) PROVE Quiet
    BY <1>2, <2>3 DEF Preview
  <2>4. ASSUME NEW committed \in BOOLEAN, FinishPreview(committed) PROVE Quiet
    BY <1>2, <2>4 DEF FinishPreview
  <2>5. ASSUME Discard PROVE Quiet
    BY <1>2, <2>5 DEF Discard, StartDiscard
  <2>6. ASSUME SaveExplicit PROVE Quiet
    BY <1>3, <2>6 DEF SaveExplicit, Kinds
  <2>7. ASSUME SaveAsRefused \/ SourceEdit \/ SourceRevert PROVE Quiet
    BY <1>2, <2>7 DEF SaveAsRefused, SourceEdit, SourceRevert
  <2>8. ~SaveAs
    BY DEF SaveAs, NoSaveAs
  <2>9. Quiet
    BY <1>4, <2>1, <2>2, <2>3, <2>4, <2>5, <2>6, <2>7, <2>8 DEF User
  <2>10. QED BY <1>1, <2>9, SessionKept, TaskKept, ReadsKept
<1>5. CASE External \/ Watcher
  <2>1. Quiet
    BY <1>2, <1>5 DEF External, ExternalEdit, Watcher, TakePaths, FinishCheck
  <2>2. QED BY <1>1, <2>1, SessionKept, TaskKept, ReadsKept
<1>6. CASE Autosave
  <2>1. Quiet
    BY <1>2, <1>3, <1>6 DEF Autosave, Kinds
  <2>2. QED BY <1>1, <2>1, SessionKept, TaskKept, ReadsKept
<1>7. QED BY <1>4, <1>5, <1>6

\* A read of the project brings the index of files that are spliced into the document,
\* or that the session knew.
LEMMA ReadIsNewOrSeen ==
    ASSUME SessionSeen, NEW into, NEW read, read = ReadProject(into) \/ read = ReadAll,
           read.result = "changed"
    PROVE  NewOrSeen(read)
<1> DEFINE changed == {a \in Artifacts : disk[a] # session[a]}
           spliced == [a \in Artifacts |-> IF a \in changed THEN disk[a] ELSE into[a]]
<1>1. \A a \in Artifacts : a \in changed => spliced[a] = disk[a]
  OBVIOUS
<1>2. session # NoIndex => \A a \in Artifacts : a \notin changed => disk[a] \in seen[a]
  BY DEF SessionSeen, IndexSeen
<1> HIDE DEF changed, spliced
<1>3. CASE read = ReadAll
  BY <1>3 DEF ReadAll, NewOrSeen
<1>4. CASE read = ReadChanged(session, into) /\ session # NoIndex /\ read # ReadAll
  <2>1. read = [result |-> "changed", index |-> disk, doc |-> spliced]
    BY <1>4 DEF ReadChanged, changed, spliced
  <2>2. QED BY <1>1, <1>2, <1>4, <2>1 DEF NewOrSeen
<1>5. QED BY <1>3, <1>4 DEF ReadProject

\* A document that is adopted is the new base, and its index the session.
LEMMA AdoptionSeen ==
    ASSUME SessionSeen, Grows, NEW read, NewOrSeen(read), read.index \in Disks,
           base' = read.doc, session' = read.index
    PROVE  SessionSeen'
<1>1. session' # NoIndex
  BY ValuesAssumption DEF Disks
<1>2. QED BY <1>1 DEF SessionSeen, Grows, NewOrSeen, IndexSeen

\* A reload adopts what it has read.
LEMMA SeenReload ==
    ASSUME TypeOK, SeenInv, Grows, Reload
    PROVE  SessionSeen' /\ TaskSeen' /\ ReadsSeen'
<1> USE NoReads, ResyncReads DEF files, canvas, synced, flags, tasks, ItemUnchanged
<1>1. SessionSeen /\ TaskSeen /\ ReadsSeen
  BY SeenParts
<1>2. queue' = queue
  BY DEF Reload, FinishMerge, ReloadStale, ReloadDefer, ReloadRead, ReloadUnchanged, ReloadError,
         FinishReload, MergeCapture, MergeRefused, MergeClean, MergeAgain, MergeAdopt
<1>3. (Writing' <=> Writing) /\ (Writing => Task' = Task)
  BY <1>2 DEF Writing, Task
<1>4. TaskSeen'
  BY <1>1, <1>3, TaskKept
<1>5. CASE ReloadRead
  <2> DEFINE into == IF reload.kind = "merge" THEN base ELSE doc
             read == ReadProject(into)
  <2>1. read.result = "changed" => NewOrSeen(read)
    BY <1>1, ReadIsNewOrSeen
  <2> HIDE DEF into, read
  <2>2. UNCHANGED <<session, discard>> /\ reload'.read = read
    BY <1>5 DEF ReloadRead, into, read
  <2>3. ReadsSeen'
    BY <1>1, <2>1, <2>2 DEF ReadsSeen, IsRead, NewOrSeen, Grows
  <2>4. QED BY <1>1, <1>3, <1>4, <2>2, <2>3, SessionKept
<1>6. CASE session' = session /\ NoNewRead(reload, reload') /\ NoNewRead(discard, discard')
  BY <1>1, <1>3, <1>4, <1>6, SessionKept, ReadsKept
<1>7. ASSUME NEW read, read = reload.read, IsRead(reload), read.index \in Disks,
             base' = read.doc, session' = read.index, reload' = NoTask, discard' = SupersededDiscard
      PROVE  SessionSeen' /\ ReadsSeen'
  <2>1. NewOrSeen(read)
    BY <1>1, <1>7 DEF ReadsSeen
  <2>2. QED BY <1>1, <1>7, <2>1, AdoptionSeen, ReadsKept
<1>8. CASE ReloadStale \/ ReloadDefer \/ ReloadUnchanged \/ ReloadError \/ MergeRefused \/ MergeAgain
  BY <1>6, <1>8 DEF ReloadStale, ReloadDefer, ReloadUnchanged, ReloadError, MergeRefused, MergeAgain
<1>9. CASE MergeCapture
  BY <1>6, <1>9 DEF MergeCapture, NoNewRead, IsRead
<1>10. reload # NoTask /\ reload.phase \in {"loaded", "merging"} /\ reload.read.result = "changed" =>
         reload.read.index \in Disks
  BY DEF TypeOK, ReloadTasks, Reads, ChangedReads
<1>11. CASE FinishReload
  <2>1. CASE dirty \/ locked
    BY <1>6, <1>11, <2>1 DEF FinishReload
  <2>2. CASE ~(dirty \/ locked)
    BY <1>4, <1>7, <1>10, <1>11, <2>2 DEF FinishReload, Adopt, IsRead
  <2>3. QED BY <2>1, <2>2
<1>12. Merging => reload.read.result = "changed"
  BY DEF Merging, TypeOK, ReloadTasks, ChangedReads
<1>13. CASE MergeClean \/ MergeAdopt
  BY <1>4, <1>7, <1>10, <1>12, <1>13 DEF MergeClean, MergeAdopt, Adopt, IsRead, Merging
<1>14. QED BY <1>5, <1>8, <1>9, <1>11, <1>13 DEF Reload, FinishMerge

\* The end of a discard adopts what the discard has read, or nothing.
LEMMA SeenEndDiscard ==
    ASSUME TypeOK, SeenInv, Grows, discard # NoTask, EndDiscard, discard' = NoTask
    PROVE  /\ ReadsSeen' /\ (session' # NoIndex \/ session' = session)
           /\ session' # NoIndex => IndexSeen(session)'
<1> USE NoReads DEF canvas
<1>1. SessionSeen /\ ReadsSeen
  BY SeenParts
<1>2. CASE UNCHANGED <<session, reload>>
  BY <1>1, <1>2, ReadsKept DEF SessionSeen, IndexSeen, Grows
<1>3. CASE /\ discard.phase = "loaded" /\ discard.read.result = "changed"
           /\ Adopt(discard.read) /\ reload' = SupersededReload
  <2>1. NewOrSeen(discard.read) /\ discard.read.index \in Disks
    BY <1>1, <1>3 DEF ReadsSeen, IsRead, TypeOK, DiscardTasks, Reads, ChangedReads
  <2>2. base' = discard.read.doc /\ session' = discard.read.index
    BY <1>3 DEF Adopt
  <2>3. SessionSeen'
    BY <1>1, <2>1, <2>2, AdoptionSeen
  <2>4. QED BY <1>1, <1>3, <2>1, <2>2, <2>3, ReadsKept, ValuesAssumption DEF SessionSeen, Disks
<1>4. QED BY <1>2, <1>3 DEF EndDiscard

\* A discard reads the whole project.
LEMMA SeenDiscarding ==
    ASSUME TypeOK, SeenInv, Grows, Discarding
    PROVE  SessionSeen' /\ TaskSeen' /\ ReadsSeen'
<1> USE NoReads DEF files, canvas, synced, flags, tasks
<1>1. SessionSeen /\ TaskSeen /\ ReadsSeen
  BY SeenParts
<1>2. queue' = queue
  BY DEF Discarding, DiscardRead, FinishDiscard
<1>3. (Writing' <=> Writing) /\ (Writing => Task' = Task)
  BY <1>2 DEF Writing, Task
<1>4. TaskSeen'
  BY <1>1, <1>3, TaskKept
<1>5. CASE DiscardRead
  <2>1. UNCHANGED <<session, reload>> /\ discard'.read = ReadAll
    BY <1>5 DEF DiscardRead
  <2>2. ReadAll.result = "changed" => NewOrSeen(ReadAll)
    BY DEF ReadAll, NewOrSeen
  <2>3. ReadsSeen'
    BY <1>1, <2>1, <2>2 DEF ReadsSeen, IsRead, NewOrSeen, Grows
  <2>4. QED BY <1>1, <1>3, <1>4, <2>1, <2>3, SessionKept
<1>6. CASE FinishDiscard
  <2>1. /\ ReadsSeen' /\ (session' # NoIndex \/ session' = session)
        /\ session' # NoIndex => IndexSeen(session)'
    BY <1>6, SeenEndDiscard DEF FinishDiscard
  <2>2. SessionSeen'
    BY <1>1, <1>3, <2>1 DEF SessionSeen
  <2>3. QED BY <1>4, <2>1, <2>2
<1>7. QED BY <1>5, <1>6 DEF Discarding

\* The writer hands the index on: from the session to the save and back, or replaced by
\* what it has written from a snapshot that is the new base.
LEMMA SeenWriter ==
    ASSUME TypeOK, SeenInv, TailQueued, NoSaveAsInv, Grows, Writer
    PROVE  SessionSeen' /\ TaskSeen' /\ ReadsSeen'
<1> USE NoReads, ResyncReads DEF files, canvas, synced, flags, tasks
<1>1. /\ SessionSeen /\ TaskSeen /\ ReadsSeen /\ queue # <<>> /\ Task \in Saves
      /\ Writing <=> Task.phase # "queued"
  <2>1. queue # <<>>
    BY DEF Writer, SaveDropped, PrepareSave, WriteSave, WriteFails, FinishSave, FinishFailedSave,
           FinishSaveAs, SaveAsFails, WriteSource, SourceFails, AdoptSource, FinishSource,
           Saving, ChangingDestination, SourceTurn
  <2>2. QED BY <2>1, TaskType, SeenParts DEF Writing
<1>2. ~ChangingDestination
  <2>1. 1 \in 1 .. Len(queue) /\ Task = queue[1]
    BY <1>1, TaskType
  <2>2. QED BY <2>1 DEF ChangingDestination, NoSaveAsInv, Task
<1>3. Saving => Task.kind # "source"
  BY DEF Saving, Task
<1>4. ASSUME Release PROVE ~Writing' /\ TaskSeen'
  BY <1>1, <1>4, ReleasedRests DEF TaskSeen
<1>5. ASSUME UNCHANGED <<session, tasks>>, Release, session # NoIndex
      PROVE  SessionSeen' /\ TaskSeen' /\ ReadsSeen'
  BY <1>1, <1>4, <1>5, ReadsKept DEF SessionSeen, IndexSeen, Grows
<1>6. ASSUME NEW t, Become(t) PROVE queue' # <<>> /\ Task' = t
  BY <1>1, <1>6, BecomeRuns
<1>7. CASE SaveDropped
  BY <1>1, <1>5, <1>7 DEF SaveDropped, SessionSeen
<1>8. ASSUME NEW t, t.phase \in {"prepared", "written", "failed"}, Become(t), session' = NoIndex,
             t.kind \in {"auto", "explicit"}, t.index # NoIndex, IndexSeen(t.index), UNCHANGED tasks,
             t.phase = "written" => \A a \in Artifacts : t.wrote[a] \in seen[a] \cup {t.doc[a]}
      PROVE  SessionSeen' /\ TaskSeen' /\ ReadsSeen'
  <2>1. queue' # <<>> /\ Task' = t /\ Writing'
    BY <1>6, <1>8 DEF Writing
  <2>2. SessionSeen' /\ TaskSeen'
    BY <1>8, <2>1 DEF SessionSeen, TaskSeen, IndexSeen, Grows
  <2>3. QED BY <1>1, <1>8, <2>2, ReadsKept
<1>9. CASE PrepareSave
  <2> DEFINE t == [kind |-> Task.kind, gen |-> Task.gen, doc |-> Task.doc,
                   phase |-> "prepared", index |-> session, base |-> base]
  <2>1. Become(t) /\ session' = NoIndex /\ UNCHANGED tasks /\ Task.phase = "queued" /\ Saving
    BY <1>9 DEF PrepareSave
  <2>2. session # NoIndex /\ IndexSeen(session) /\ Task.kind \in {"auto", "explicit"}
    BY <1>1, <2>1 DEF SessionSeen, Saving, Task
  <2>3. t.phase = "prepared" /\ t.index = session /\ t.kind = Task.kind
    OBVIOUS
  <2> HIDE DEF t
  <2>4. QED BY <1>8, <2>1, <2>2, <2>3
<1>10. CASE ~Saving \/ Task.phase \notin {"prepared", "written", "failed"}
  <2>1. CASE SaveDropped \/ PrepareSave
    BY <1>7, <1>9, <2>1
  <2>2. SourceTurn \/ SaveDropped \/ PrepareSave
    BY <1>2, <1>10 DEF Writer, WriteSave, WriteFails, FinishSave, FinishFailedSave, FinishSaveAs,
           SaveAsFails, WriteSource, SourceFails, AdoptSource, FinishSource
  <2>3. ASSUME SourceTurn PROVE session # NoIndex /\ ~Saving
    BY <1>1, <2>3 DEF SessionSeen, SourceTurn, Saving, Task
  <2>4. ASSUME NEW phase \in {"written", "adopting"}, SourceTurn, Become(SourceTask(phase)), session' = session,
               NoNewRead(reload, reload'), NoNewRead(discard, discard')
        PROVE  SessionSeen' /\ TaskSeen' /\ ReadsSeen'
    <3>1. queue' # <<>> /\ Task' = SourceTask(phase) /\ SourceTask(phase).kind = "source"
      BY <1>6, <2>4 DEF SourceTask
    <3>2. ~Saving'
      BY <3>1 DEF Saving, Task
    <3>3. QED BY <1>1, <2>3, <2>4, <3>2, ReadsKept DEF SessionSeen, IndexSeen, Grows, TaskSeen
  <2>5. CASE SourceTurn
    <3>1. CASE WriteSource \/ AdoptSource
      BY <2>4, <2>5, <3>1 DEF WriteSource, AdoptSource, StartDiscard
    <3>2. CASE SourceFails
      BY <1>5, <2>3, <2>5, <3>2 DEF SourceFails
    <3>3. ASSUME NEW more \in BOOLEAN, FinishSource(more)
          PROVE  SessionSeen' /\ TaskSeen' /\ ReadsSeen'
      <4>1. /\ ReadsSeen' /\ (session' # NoIndex \/ session' = session)
            /\ session' # NoIndex => IndexSeen(session)'
        BY <3>3, SeenEndDiscard DEF FinishSource
      <4>2. Release
        BY <3>3 DEF FinishSource
      <4>3. QED BY <1>4, <2>3, <2>5, <4>1, <4>2 DEF SessionSeen
    <3>4. QED
      BY <1>2, <2>3, <2>5, <3>1, <3>2, <3>3
         DEF Writer, SaveDropped, PrepareSave, WriteSave, WriteFails, FinishSave, FinishFailedSave,
             FinishSaveAs, SaveAsFails
  <2>6. QED BY <2>1, <2>2, <2>5
<1>11. ASSUME Saving, Task.phase \in {"prepared", "written", "failed"}
       PROVE  /\ Task.index # NoIndex /\ IndexSeen(Task.index) /\ WriteIndex = Task.index
              /\ Task.kind \in {"auto", "explicit"}
  BY <1>1, <1>11 DEF TaskSeen, WriteIndex, Saving, Task
<1>12. CASE WriteSave
  <2> DEFINE t == [kind |-> Task.kind, gen |-> Task.gen, doc |-> Task.doc,
                   phase |-> "written", index |-> WriteIndex, wrote |-> disk']
  <2>1. Become(t) /\ UNCHANGED <<session, tasks>> /\ Saving /\ Task.phase = "prepared"
    BY <1>12 DEF WriteSave
  <2>2. /\ t.phase = "written" /\ t.index = WriteIndex /\ t.kind = Task.kind
        /\ t.wrote = disk' /\ t.doc = Task.doc
    OBVIOUS
  <2>3. \A a \in Artifacts : disk'[a] = Task.doc[a] \/ disk'[a] = WriteIndex[a]
    BY <1>12 DEF WriteSave, CanWrite
  <2> HIDE DEF t
  <2>4. \A a \in Artifacts : t.wrote[a] \in seen[a] \cup {t.doc[a]}
    BY <1>11, <2>1, <2>2, <2>3 DEF IndexSeen
  <2>5. queue' # <<>> /\ Task' = t /\ Writing'
    BY <1>6, <2>1, <2>2 DEF Writing
  <2>6. TaskSeen'
    BY <1>11, <2>1, <2>2, <2>4, <2>5 DEF TaskSeen, IndexSeen, Grows
  <2>7. SessionSeen'
    BY <1>1, <1>11, <2>1, <2>2, <2>5 DEF SessionSeen, IndexSeen, Grows
  <2>8. QED BY <1>1, <2>1, <2>6, <2>7, ReadsKept
<1>13. CASE WriteFails
  <2> DEFINE t == [kind |-> Task.kind, gen |-> Task.gen, doc |-> Task.doc, phase |-> "failed",
                   index |-> IF Task.index = NoIndex /\ Unparsable(Shared) THEN NoIndex ELSE WriteIndex]
  <2>1. Become(t) /\ UNCHANGED <<session, tasks>> /\ Saving /\ Task.phase = "prepared"
    BY <1>13 DEF WriteFails
  <2>2. t.phase = "failed" /\ t.index = Task.index /\ t.kind = Task.kind
    BY <1>11, <2>1
  <2> HIDE DEF t
  <2>3. queue' # <<>> /\ Task' = t /\ Writing'
    BY <1>6, <2>1, <2>2 DEF Writing
  <2>4. TaskSeen'
    BY <1>11, <2>1, <2>2, <2>3 DEF TaskSeen, IndexSeen, Grows
  <2>5. SessionSeen'
    BY <1>1, <1>11, <2>1, <2>2, <2>3 DEF SessionSeen, IndexSeen, Grows
  <2>6. QED BY <1>1, <2>1, <2>4, <2>5, ReadsKept
<1>14. CASE FinishSave
  <2>1. /\ Saving /\ Task.phase = "written" /\ session' = Task.wrote /\ base' = Task.doc /\ Release
        /\ reload' = SupersededReload /\ discard' = SupersededDiscard
    BY <1>14 DEF FinishSave
  <2>2. session' # NoIndex
    BY <2>1, SavingTask, ValuesAssumption DEF Disks
  <2>3. IndexSeen(session)'
    BY <1>1, <1>11, <2>1 DEF TaskSeen, Writing, IndexSeen, Grows
  <2>4. QED BY <1>1, <1>4, <2>1, <2>2, <2>3, ReadsKept DEF SessionSeen
<1>15. CASE FinishFailedSave
  <2>1. /\ Saving /\ Task.phase \in {"failed", "written"} /\ session' = Task.index /\ Release
        /\ NoNewRead(reload, reload') /\ discard' = discard
    BY <1>15 DEF FinishFailedSave
  <2>2. session' # NoIndex /\ IndexSeen(session)'
    BY <1>11, <2>1 DEF IndexSeen, Grows
  <2>3. QED BY <1>1, <1>4, <2>1, <2>2, ReadsKept DEF SessionSeen
<1>16. QED
  BY <1>2, <1>10, <1>12, <1>13, <1>14, <1>15
     DEF Writer, SaveDropped, PrepareSave, FinishSaveAs, SaveAsFails, WriteSource, SourceFails,
         AdoptSource, FinishSource, SourceTurn, Saving, Task

-----------------------------------------------------------------------------
\* A freshly opened item has seen what it shows.
LEMMA InitSeen == SeenInit => SeenIInv
<1> SUFFICES ASSUME SeenInit PROVE SeenIInv
  OBVIOUS
<1>1. IInv /\ queue = <<>> /\ session = base /\ reload = NoTask /\ discard = NoTask
      /\ seen = [a \in Artifacts |-> {base[a]}]
  BY InitIInv DEF SeenInit, Init
<1>2. 1 .. Len(queue) = {} /\ 2 .. Len(queue) = {}
  BY <1>1
<1>3. session # NoIndex
  BY <1>1, ValuesAssumption DEF IInv, TypeOK, Trees
<1>4. SeenInv
  BY <1>1, <1>3 DEF SeenInv, IndexSeen, Saving
<1>5. QED BY <1>1, <1>2, <1>4 DEF SeenIInv, TailQueued, NoSaveAsInv

\* The invariant is inductive.
LEMMA NextSeen ==
    ASSUME SeenIInv, NoSaveAs, [SeenNext]_seenVars
    PROVE  SeenIInv'
<1>1. CASE SeenNext
  <2>1. Next /\ Grows /\ IInv /\ TypeOK /\ SeenInv /\ TailQueued /\ NoSaveAsInv
    BY <1>1, SeenGrows DEF SeenNext, SeenIInv, IInv
  <2>2. IInv' /\ TailQueued' /\ NoSaveAsInv'
    BY <2>1, NextIInv, TailStep, NoSaveAsStep
  <2>3. SessionSeen' /\ TaskSeen' /\ ReadsSeen'
    BY <2>1, SeenUser, SeenReload, SeenDiscarding, SeenWriter DEF Next
  <2>4. SeenInv'
    BY <2>1, <2>3, SeenParts DEF Grows, SeenInv, SessionSeen, TaskSeen, ReadsSeen, IsRead, Writing,
                               Saving, Task
  <2>5. QED BY <2>2, <2>4 DEF SeenIInv
<1>2. CASE UNCHANGED seenVars
  <2>1. IInv'
    BY <1>2, NextIInv DEF SeenIInv, seenVars
  <2>2. TailQueued' /\ NoSaveAsInv' /\ SeenInv'
    BY <1>2 DEF SeenIInv, seenVars, vars, files, canvas, synced, flags, tasks, TailQueued, NoSaveAsInv,
                SeenInv, IndexSeen, NewOrSeen, Saving, Task
  <2>3. QED BY <2>1, <2>2 DEF SeenIInv
<1>3. QED BY <1>1, <1>2

\* However many saves are queued, and whatever the user discards, previews or writes in
\* the source editor meanwhile: a delayed save replaces a file only when it holds what the
\* canvas has shown (the index handed from workspace_session to the write and back).
THEOREM SavesReplaceSeen ==
    ASSUME NoSaveAs
    PROVE  SeenSpec => SaveReplacesSeen
<1> DEFINE Kept == WriteSave => \A a \in Artifacts : disk'[a] # disk[a] => disk[a] \in seen[a]
<1>1. SeenIInv => Kept
  <2> SUFFICES ASSUME SeenIInv, WriteSave, NEW a \in Artifacts PROVE disk[a] \in seen[a]
    OBVIOUS
  <2>1. Task.index # NoIndex /\ IndexSeen(Task.index) /\ disk = WriteIndex
    BY DEF SeenIInv, SeenInv, WriteSave, CanWrite
  <2>2. QED BY <2>1 DEF WriteIndex, IndexSeen
<1>2. QED BY <1>1, InitSeen, NextSeen, PTL DEF SeenSpec, SaveReplacesSeen

=============================================================================
