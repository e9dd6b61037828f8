------------------------- MODULE ArtifactSession_proofs -------------------------
(***************************************************************************)
(* Proofs about an open artifact.  Types hold for every host; that the     *)
(* working copy is the observed file set plus the user's changes, and what *)
(* follows from it, for a host that draws only on a canvas that shows the  *)
(* working copy (Disciplined).                                             *)
(***************************************************************************)
EXTENDS ArtifactSession, TLAPS

\* The side of a session that holds the user's work is the text buffer.
TextIsOurs == state = "DirtyText" \/ (state = "Conflict" /\ conflict.origin = "Text")

\* The session holds work of the user that parses.
HoldsWork == state \in {"DirtyCanvas", "DirtyText", "Conflict"} /\ Ours # Bad

\* Types, with what a conflict needs so that its resolution has them too.
TypeInv ==
    /\ TypeOK
    /\ state = "Clean" => seen \in Editions
    /\ state = "Conflict" => /\ Ours \in Editions
                             /\ conflict.theirs # Gone => /\ conflict.theirs = seen
                                                         /\ conflict.auto \in Editions
    /\ pc # "idle" => Working \in Editions

\* The canvas shows the working copy unless the buffer has moved on from it.
CanvasInv ==
    /\ state = "Clean" =>
         /\ base = seen
         /\ IF stale THEN mine = Untouched
            ELSE scene = base /\ \A k \in Keys : mine[k] \in Vals => scene[k] = mine[k]
    /\ state \in {"DirtyCanvas", "DirtyText", "Conflict"} /\ ~TextIsOurs => ~stale
    /\ TextIsOurs /\ ~stale => text = scene

\* A key the user did not change still has the value of the merge's ancestor,
\* also after he kept his side of a conflict (where it may differ from seen).
MineInv ==
    HoldsWork => \A k \in Keys : /\ mine[k] \in Vals => Ours[k] = mine[k]
                                 /\ mine[k] \notin Vals => Ours[k] = base[k]

\* An untouched key shows the observed file set, unless a conflict waits.
SeenInv ==
    state \in {"DirtyCanvas", "DirtyText"} /\ Ours # Bad =>
        \A k \in Keys : mine[k] = Free /\ seen \in Editions => Ours[k] = seen[k]

\* A conflict describes the file set observed when it arose.
ConflictInv ==
    state = "Conflict" =>
        /\ conflict.theirs = IF seen \in Editions THEN seen ELSE Gone
        /\ conflict.theirs # Gone => \A k \in Keys :
               conflict.auto[k] # conflict.theirs[k] => mine[k] # Free

\* A save about to write has checked the disk, and only a race has moved it since.
WriteInv == pc = "write" /\ ~raced => disk = seen

WorkInv == CanvasInv /\ MineInv /\ SeenInv /\ ConflictInv /\ WriteInv

IInv == TypeInv /\ WorkInv

-----------------------------------------------------------------------------
(***************************************************************************)
(* Types.                                                                  *)
(***************************************************************************)

\* A merge of editions is an edition (merge_artifact).
LEMMA MergeType ==
    ASSUME NEW b \in Editions, NEW o \in Editions, NEW t \in Editions
    PROVE  MergeArtifact(b, o, t) \in Editions
BY DEF MergeArtifact, Editions

\* A conflict arises over a working copy that parses.
LEMMA EnterConflictType ==
    ASSUME TypeInv, IsDirty, pc = "idle", Working # Bad, NEW h \in FileSets \cup {Zero},
           NEW theirs \in Editions \cup {Gone}, NEW auto \in Editions \cup {None},
           theirs # Gone => theirs = h /\ auto \in Editions,
           EnterConflict(theirs, auto, h), UNCHANGED <<disk, pc, raced>>,
           fileIndex' \in FileSets \cup {None}
    PROVE  TypeInv'
BY ArtifactAssumption
   DEF EnterConflict, Origin, TypeInv, TypeOK, Working, Ours, IsDirty, States, Sides

\* handle_disk_changed_dirty keeps the types when it does not merge.
LEMMA DiskChangedType ==
    ASSUME TypeInv, IsDirty, pc = "idle", NEW h \in FileSets \cup {Zero},
           DiskDeleted(h) \/ DiskCollides \/ BufferInvalid \/ DiskUnreadable,
           UNCHANGED <<disk, fileIndex, pc, raced>>
    PROVE  TypeInv'
<1> USE ArtifactAssumption
<1>1. fileIndex' \in FileSets \cup {None} /\ base \in Editions /\ disk \in FileSets
  BY DEF TypeInv, TypeOK
<1>2. CASE DiskDeleted(h)
  BY <1>1, <1>2, EnterConflictType DEF DiskDeleted
<1>3. CASE DiskCollides
  <2>1. Working \in Editions
    BY <1>3 DEF DiskCollides, Working, TypeInv, TypeOK, IsDirty
  <2>2. MergeArtifact(base, Working, disk) \in Editions
    BY <1>1, <1>3, <2>1, MergeType DEF DiskCollides
  <2>3. QED
    BY <1>1, <1>3, <2>2, EnterConflictType DEF DiskCollides, FileSets
<1>4. CASE BufferInvalid
  BY <1>4 DEF BufferInvalid, TypeInv, TypeOK, Working, Ours, IsDirty, States, session
<1>5. CASE DiskUnreadable
  BY <1>5 DEF DiskUnreadable, TypeInv, TypeOK, Working, Ours, IsDirty, States, session
<1>6. QED BY <1>2, <1>3, <1>4, <1>5

\* The merged working copy is installed as an edition, clean only where it is
\* what the disk holds (install_merged_working).
LEMMA DiskMergesType ==
    ASSUME TypeInv, IsDirty, DiskMerges, UNCHANGED <<disk, raced>>,
           fileIndex' \in FileSets \cup {None},
           pc' \in {"idle", "recheck"}, pc' = "recheck" => state' # "Clean"
    PROVE  TypeInv'
<1> USE ArtifactAssumption
<1>1. Working \in Editions /\ disk \in Editions /\ base \in Editions
  BY DEF DiskMerges, Working, TypeInv, TypeOK, IsDirty
<1> DEFINE merged == MergeArtifact(base, Working, disk)
<1>2. merged \in Editions
  BY <1>1, MergeType
<1>3. InstallMerged(merged, Origin) /\ seen' = disk /\ base' = disk /\ mine' = Carried
      /\ UNCHANGED conflict
  BY DEF DiskMerges
<1> HIDE DEF merged
<1>4. mine' \in [Keys -> Vals \cup {Free, Either}]
  BY <1>3 DEF Carried, TypeInv, TypeOK
<1>5. QED
  BY <1>1, <1>2, <1>3, <1>4
     DEF InstallMerged, Origin, DirtyOf, TypeInv, TypeOK, Working, Ours, IsDirty, States, FileSets

\* Every action keeps the types.
LEMMA TypeStep ==
    ASSUME TypeInv, Next
    PROVE  TypeInv'
<1> USE ArtifactAssumption
<1>1. CASE OpenArtifact
  BY <1>1 DEF OpenArtifact, Load, TypeInv, TypeOK, Working, Ours, IsDirty, Untouched, States, Sides, session, FileSets
<1>2. CASE CloseArtifact
  BY <1>2 DEF CloseArtifact, Drop, TypeInv, TypeOK, Working, Ours, IsDirty, Untouched, States, Sides, session, FileSets
<1>3. CASE BeginTextEdit
  BY <1>3 DEF BeginTextEdit, TypeInv, TypeOK, Working, Ours, IsDirty, Untouched, States, Sides, session, FileSets
<1>4. CASE SwitchToText
  BY <1>4 DEF SwitchToText, TypeInv, TypeOK, Working, Ours, IsDirty, Untouched, States, Sides, session, FileSets
<1>5. CASE \E k \in Keys, v \in Vals : CanvasEdit(k, v)
  BY <1>5 DEF CanvasEdit, Editions, TypeInv, TypeOK, Working, Ours, IsDirty, Untouched, States, Sides, session, FileSets
<1>6. CASE \E k \in Keys, v \in Vals : GuardEdit(k, v)
  BY <1>6 DEF GuardEdit, Editions, TypeInv, TypeOK, Working, Ours, IsDirty, Untouched, States, Sides, session, FileSets
<1>7. CASE \E t \in Editions \cup {Bad} : SetText(t)
  BY <1>7 DEF SetText, Editions, TypeInv, TypeOK, Working, Ours, IsDirty, Untouched, States, Sides, session, FileSets
<1>8. CASE CommitTextToScene
  BY <1>8 DEF CommitTextToScene, TypeInv, TypeOK, Working, Ours, IsDirty, Untouched, States, Sides, session, FileSets
<1>9. CASE CommitTextFails
  BY <1>9 DEF CommitTextFails, TypeInv, TypeOK, Working, Ours, IsDirty, Untouched, States, Sides, session, FileSets
<1>10. CASE SaveClean
  BY <1>10 DEF SaveClean, TypeInv, TypeOK, Working, Ours, IsDirty, Untouched, States, Sides, session, FileSets
<1>11. CASE SaveUnchanged
  BY <1>11 DEF SaveUnchanged, TypeInv, TypeOK, Working, Ours, IsDirty, Untouched, States, Sides, session, FileSets
<1>12. CASE SaveChecked
  BY <1>12 DEF SaveChecked, TypeInv, TypeOK, Working, Ours, IsDirty, Untouched, States, Sides, session, FileSets
<1>13. CASE SaveMerges
  <2>1. IsDirty /\ pc = "idle" /\ disk \in FileSets /\ UNCHANGED <<disk, raced>>
    BY <1>13 DEF SaveMerges, TypeInv, TypeOK
  <2>2. CASE (DiskDeleted(disk) \/ DiskCollides \/ DiskUnreadable) /\ UNCHANGED <<pc, fileIndex>>
    BY <2>1, <2>2, DiskChangedType
  <2>3. CASE /\ DiskMerges
             /\ IF state' = "Clean" THEN fileIndex' = seen' /\ UNCHANGED pc
                                    ELSE pc' = "recheck" /\ UNCHANGED fileIndex
    <3>1. seen' \in FileSets /\ fileIndex \in FileSets \cup {None}
      BY <2>1, <2>3 DEF DiskMerges, TypeInv, TypeOK
    <3>2. QED BY <2>1, <2>3, <3>1, DiskMergesType
  <2>4. QED BY <1>13, <2>2, <2>3 DEF SaveMerges
<1>14. CASE SaveRecheck
  BY <1>14 DEF SaveRecheck, TypeInv, TypeOK, Working, Ours, IsDirty, Untouched, States, Sides, session, FileSets
<1>15. CASE SaveWrite
  BY <1>15 DEF SaveWrite, TypeInv, TypeOK, Working, Ours, IsDirty, Untouched, States, Sides, session, FileSets
<1>16. CASE SaveWriteFails
  <2>1. pc = "write" /\ disk \in FileSets /\ Working \in Editions
    BY <1>16 DEF SaveWriteFails, TypeInv, TypeOK
  <2>2. disk' \in FileSets
    BY <1>16, <2>1 DEF SaveWriteFails, HalfWritten, FileSets
  <2>3. QED
    BY <1>16, <2>2 DEF SaveWriteFails, TypeInv, TypeOK, Working, Ours, IsDirty, Untouched, States, Sides, session
<1>17. CASE NotifyRemoved
  <2>1. pc = "idle" /\ UNCHANGED <<disk, pc, raced>> /\ Zero \in FileSets \cup {Zero}
    BY <1>17 DEF NotifyRemoved
  <2>2. CASE state \in {"Closed", "Clean"}
    BY <1>17, <2>2 DEF NotifyRemoved, Drop, TypeInv, TypeOK, Working, Ours, IsDirty, Untouched,
                       States, session
  <2>3. CASE IsDirty /\ (DiskDeleted(Zero) \/ DiskUnreadable) /\ UNCHANGED fileIndex
    BY <2>1, <2>3, DiskChangedType
  <2>4. QED BY <1>17, <2>2, <2>3 DEF NotifyRemoved
<1>18. CASE NotifyCreated
  BY <1>18 DEF NotifyCreated, TypeInv, TypeOK, Working, Ours, IsDirty, Untouched, States, Sides, session, FileSets
<1>19. CASE NotifyModified
  <2>1. pc = "idle" /\ UNCHANGED <<disk, pc, raced>> /\ disk \in FileSets
    BY <1>19 DEF NotifyModified, TypeInv, TypeOK
  <2>2. CASE state \in {"Closed", "Clean"}
    BY <1>19, <2>1, <2>2 DEF NotifyModified, Load, TypeInv, TypeOK, Working, Ours, IsDirty, Untouched,
                       States, session, FileSets
  <2>3. CASE /\ IsDirty /\ UNCHANGED fileIndex
             /\ DiskDeleted(disk) \/ DiskCollides \/ BufferInvalid \/ DiskUnreadable
    BY <2>1, <2>3, DiskChangedType
  <2>4. CASE IsDirty /\ DiskMerges /\ fileIndex' = disk
    BY <2>1, <2>4, DiskMergesType
  <2>5. QED BY <1>19, <2>2, <2>3, <2>4 DEF NotifyModified
<1>20. CASE KeepOurs
  BY <1>20 DEF KeepOurs, Settled, DirtyOf, TypeInv, TypeOK, Working, Ours, IsDirty, Untouched, States, Sides, session, FileSets
<1>21. CASE TakeTheirs
  BY <1>21 DEF TakeTheirs, Settled, TypeInv, TypeOK, Working, Ours, IsDirty, Untouched, States, Sides, session, FileSets
<1>22. CASE TakeDeletion
  BY <1>22 DEF TakeDeletion, Drop, TypeInv, TypeOK, Working, Ours, IsDirty, Untouched, States, Sides, session, FileSets
<1>23. CASE AcceptAuto
  BY <1>23 DEF AcceptAuto, InstallMerged, Settled, DirtyOf, Editions, TypeInv, TypeOK, Working, Ours, IsDirty, Untouched, States, Sides, session, FileSets
<1>24. CASE \E m \in Editions : Manual(m)
  BY <1>24, ZenonT(40) DEF Manual, Settled, Editions, TypeInv, TypeOK, Working, Ours, IsDirty, Untouched, States, Sides, session, FileSets
<1>25. CASE \E f \in FileSets : ExternalEdit(f)
  BY <1>25 DEF ExternalEdit, TypeInv, TypeOK, Working, Ours, IsDirty, Untouched, States, Sides, session, FileSets
<1>26. QED
  BY <1>1, <1>2, <1>3, <1>4, <1>5, <1>6, <1>7, <1>8, <1>9, <1>10, <1>11, <1>12, <1>13, <1>14, <1>15, <1>16, <1>17, <1>18, <1>19, <1>20, <1>21, <1>22, <1>23, <1>24, <1>25 DEF Next, FileSets

\* Every state of every host has its types.
THEOREM TypeCorrect == Spec => []TypeOK
<1>1. Init => TypeInv
  BY ArtifactAssumption DEF Init, TypeInv, TypeOK, Untouched, States, FileSets, IsDirty, Working, Ours
<1>2. TypeInv /\ [Next]_vars => TypeInv'
  <2>1. TypeInv /\ UNCHANGED vars => TypeInv'
    BY DEF vars, session, TypeInv, TypeOK, Working, Ours, IsDirty
  <2>2. QED BY <2>1, TypeStep
<1>3. QED BY <1>1, <1>2, PTL DEF Spec, TypeInv

-----------------------------------------------------------------------------
(***************************************************************************)
(* The working copy under a disciplined host.                              *)
(***************************************************************************)

\* A conflict that arises keeps the user's work and describes the disk: the offered
\* merge takes the other side wherever the user changed nothing.
LEMMA EnterConflictWork ==
    ASSUME IInv, IsDirty, pc = "idle", Working # Bad, NEW h, NEW theirs, NEW auto,
           \/ theirs = Gone /\ h \notin Editions
           \/ /\ theirs \in Editions /\ h = theirs /\ Working \in Editions
              /\ auto = MergeArtifact(base, Working, theirs),
           EnterConflict(theirs, auto, h), UNCHANGED <<disk, pc, raced>>
    PROVE  WorkInv'
BY ArtifactAssumption
   DEF EnterConflict, Origin, MergeArtifact, IInv, WorkInv, CanvasInv, MineInv, SeenInv, ConflictInv, WriteInv, TextIsOurs, HoldsWork,
         TypeInv, TypeOK, Working, Ours, IsDirty, Untouched, States, Sides, session, Editions

\* handle_disk_changed_dirty keeps the working copy when it does not merge.
LEMMA DiskChangedWork ==
    ASSUME IInv, IsDirty, pc = "idle", NEW h \in {disk, Zero},
           DiskDeleted(h) \/ DiskCollides \/ BufferInvalid \/ DiskUnreadable,
           UNCHANGED <<disk, fileIndex, pc, raced>>
    PROVE  WorkInv'
<1> USE ArtifactAssumption
<1>1. CASE DiskDeleted(h)
  <2>1. h \notin Editions
    BY <1>1 DEF DiskDeleted, FileSets
  <2>2. QED BY <1>1, <2>1, EnterConflictWork DEF DiskDeleted
<1>2. CASE DiskCollides
  <2>1. Working \in Editions
    BY <1>2 DEF DiskCollides, Working, IInv, TypeInv, TypeOK, IsDirty
  <2>2. QED
    BY <1>2, <2>1, EnterConflictWork DEF DiskCollides
<1>3. CASE BufferInvalid
  BY <1>3 DEF BufferInvalid, IInv, WorkInv, CanvasInv, MineInv, SeenInv, ConflictInv, WriteInv, TextIsOurs, HoldsWork,
         TypeInv, TypeOK, Working, Ours, IsDirty, Untouched, States, Sides, session, Editions
<1>4. CASE DiskUnreadable
  BY <1>4 DEF DiskUnreadable, IInv, WorkInv, CanvasInv, MineInv, SeenInv, ConflictInv, WriteInv, TextIsOurs, HoldsWork,
         TypeInv, TypeOK, Working, Ours, IsDirty, Untouched, States, Sides, session, Editions
<1>5. QED BY <1>1, <1>2, <1>3, <1>4

\* A merge leaves the disk's edition with the user's changes on top: a key he did
\* not change still had the ancestor's value, so it takes the disk's.
LEMMA DiskMergesWork ==
    ASSUME IInv, IsDirty, DiskMerges, pc' # "write"
    PROVE  WorkInv'
<1> USE ArtifactAssumption
<1>1. Working \in Editions /\ disk \in Editions /\ base \in Editions /\ Working = Ours /\ Ours # Bad
  BY DEF DiskMerges, Working, Ours, IInv, TypeInv, TypeOK, IsDirty
<1> DEFINE merged == MergeArtifact(base, Working, disk)
<1>2. merged \in Editions
  BY <1>1, MergeType
<1>3. InstallMerged(merged, Origin) /\ seen' = disk /\ base' = disk /\ mine' = Carried
      /\ UNCHANGED conflict
  BY DEF DiskMerges
<1>4. \A k \in Keys : /\ mine[k] \in Vals => Working[k] = mine[k]
                      /\ mine[k] \notin Vals => Working[k] = base[k]
  BY <1>1 DEF IInv, WorkInv, MineInv, HoldsWork, IsDirty
<1>5. \A k \in Keys : /\ mine'[k] \in Vals => merged[k] = mine'[k]
                      /\ mine'[k] \notin Vals => merged[k] = disk[k]
  BY <1>1, <1>3, <1>4 DEF Carried, MergeArtifact
<1> HIDE DEF merged
<1>6. /\ scene' = merged /\ ~stale'
      /\ \/ state' = "Clean" /\ merged = disk
         \/ state' = "DirtyCanvas"
         \/ state' = "DirtyText" /\ text' = merged
  BY <1>3 DEF InstallMerged, Origin, DirtyOf
<1>7. QED
  BY <1>2, <1>3, <1>5, <1>6 DEF WorkInv, CanvasInv, MineInv, SeenInv, ConflictInv, WriteInv, TextIsOurs,
     HoldsWork, Ours

\* Every action keeps the user's work.
LEMMA WorkStep ==
    ASSUME Disciplined, IInv, Next, TypeInv'
    PROVE  WorkInv'
<1> USE ArtifactAssumption
<1>1. CASE OpenArtifact
  BY <1>1 DEF OpenArtifact, Load, IInv, WorkInv, CanvasInv, MineInv, SeenInv, ConflictInv, WriteInv, TextIsOurs, HoldsWork,
     TypeInv, TypeOK, Working, Ours, IsDirty, Untouched, States, Sides, session, Editions
<1>2. CASE CloseArtifact
  BY <1>2 DEF CloseArtifact, Drop, IInv, WorkInv, CanvasInv, MineInv, SeenInv, ConflictInv, WriteInv, TextIsOurs, HoldsWork,
     TypeInv, TypeOK, Working, Ours, IsDirty, Untouched, States, Sides, session, Editions
<1>3. CASE BeginTextEdit
  BY <1>3 DEF BeginTextEdit, IInv, WorkInv, CanvasInv, MineInv, SeenInv, ConflictInv, WriteInv, TextIsOurs, HoldsWork,
     TypeInv, TypeOK, Working, Ours, IsDirty, Untouched, States, Sides, session, Editions
<1>4. CASE SwitchToText
  BY <1>4 DEF SwitchToText, IInv, WorkInv, CanvasInv, MineInv, SeenInv, ConflictInv, WriteInv, TextIsOurs, HoldsWork,
     TypeInv, TypeOK, Working, Ours, IsDirty, Untouched, States, Sides, session, Editions
<1>5. CASE \E k \in Keys, v \in Vals : CanvasEdit(k, v)
  BY <1>5 DEF CanvasEdit, IInv, WorkInv, CanvasInv, MineInv, SeenInv, ConflictInv, WriteInv, TextIsOurs, HoldsWork,
     TypeInv, TypeOK, Working, Ours, IsDirty, Untouched, States, Sides, session, Editions
<1>6. CASE \E k \in Keys, v \in Vals : GuardEdit(k, v)
  BY <1>6 DEF GuardEdit, IInv, WorkInv, CanvasInv, MineInv, SeenInv, ConflictInv, WriteInv, TextIsOurs, HoldsWork,
     TypeInv, TypeOK, Working, Ours, IsDirty, Untouched, States, Sides, session, Editions
<1>7. CASE \E t \in Editions \cup {Bad} : SetText(t)
  BY <1>7 DEF SetText, IInv, WorkInv, CanvasInv, MineInv, SeenInv, ConflictInv, WriteInv, TextIsOurs, HoldsWork,
     TypeInv, TypeOK, Working, Ours, IsDirty, Untouched, States, Sides, session, Editions
<1>8. CASE CommitTextToScene
  BY <1>8 DEF CommitTextToScene, IInv, WorkInv, CanvasInv, MineInv, SeenInv, ConflictInv, WriteInv, TextIsOurs, HoldsWork,
     TypeInv, TypeOK, Working, Ours, IsDirty, Untouched, States, Sides, session, Editions
<1>9. CASE CommitTextFails
  BY <1>9 DEF CommitTextFails, IInv, WorkInv, CanvasInv, MineInv, SeenInv, ConflictInv, WriteInv, TextIsOurs, HoldsWork,
     TypeInv, TypeOK, Working, Ours, IsDirty, Untouched, States, Sides, session, Editions
<1>10. CASE SaveClean
  BY <1>10 DEF SaveClean, IInv, WorkInv, CanvasInv, MineInv, SeenInv, ConflictInv, WriteInv, TextIsOurs, HoldsWork,
     TypeInv, TypeOK, Working, Ours, IsDirty, Untouched, States, Sides, session, Editions
<1>11. CASE SaveUnchanged
  BY <1>11 DEF SaveUnchanged, IInv, WorkInv, CanvasInv, MineInv, SeenInv, ConflictInv, WriteInv, TextIsOurs, HoldsWork,
     TypeInv, TypeOK, Working, Ours, IsDirty, Untouched, States, Sides, session, Editions
<1>12. CASE SaveChecked
  BY <1>12 DEF SaveChecked, IInv, WorkInv, CanvasInv, MineInv, SeenInv, ConflictInv, WriteInv, TextIsOurs, HoldsWork,
     TypeInv, TypeOK, Working, Ours, IsDirty, Untouched, States, Sides, session, Editions
<1>13. CASE SaveMerges
  <2>1. IsDirty /\ pc = "idle" /\ UNCHANGED <<disk, raced>>
    BY <1>13 DEF SaveMerges
  <2>2. CASE (DiskDeleted(disk) \/ DiskCollides \/ DiskUnreadable) /\ UNCHANGED <<pc, fileIndex>>
    BY <2>1, <2>2, DiskChangedWork
  <2>3. CASE DiskMerges /\ pc' \in {"idle", "recheck"}
    BY <2>1, <2>3, DiskMergesWork
  <2>4. QED BY <1>13, <2>2, <2>3 DEF SaveMerges
<1>14. CASE SaveRecheck
  BY <1>14 DEF SaveRecheck, IInv, WorkInv, CanvasInv, MineInv, SeenInv, ConflictInv, WriteInv, TextIsOurs, HoldsWork,
     TypeInv, TypeOK, Working, Ours, IsDirty, Untouched, States, Sides, session, Editions
<1>15. CASE SaveWrite
  BY <1>15 DEF SaveWrite, IInv, WorkInv, CanvasInv, MineInv, SeenInv, ConflictInv, WriteInv, TextIsOurs, HoldsWork,
     TypeInv, TypeOK, Working, Ours, IsDirty, Untouched, States, Sides, session, Editions
<1>16. CASE SaveWriteFails
  BY <1>16 DEF SaveWriteFails, IInv, WorkInv, CanvasInv, MineInv, SeenInv, ConflictInv, WriteInv, TextIsOurs, HoldsWork,
     TypeInv, TypeOK, Working, Ours, IsDirty, Untouched, States, Sides, session, Editions
<1>17. CASE NotifyRemoved
  <2>1. pc = "idle" /\ UNCHANGED <<disk, pc, raced>>
    BY <1>17 DEF NotifyRemoved
  <2>2. CASE state \in {"Closed", "Clean"}
    BY <1>17, <2>2 DEF NotifyRemoved, Drop, IInv, WorkInv, CanvasInv, MineInv, SeenInv, ConflictInv, WriteInv, TextIsOurs, HoldsWork,
         TypeInv, TypeOK, Working, Ours, IsDirty, Untouched, States, Sides, session, Editions
  <2>3. CASE IsDirty /\ (DiskDeleted(Zero) \/ DiskUnreadable) /\ UNCHANGED fileIndex
    BY <2>1, <2>3, DiskChangedWork
  <2>4. QED BY <1>17, <2>2, <2>3 DEF NotifyRemoved
<1>18. CASE NotifyCreated
  BY <1>18 DEF NotifyCreated, IInv, WorkInv, CanvasInv, MineInv, SeenInv, ConflictInv, WriteInv, TextIsOurs, HoldsWork,
     TypeInv, TypeOK, Working, Ours, IsDirty, Untouched, States, Sides, session, Editions
<1>19. CASE NotifyModified
  <2>1. pc = "idle" /\ UNCHANGED <<disk, pc, raced>>
    BY <1>19 DEF NotifyModified
  <2>2. CASE state \in {"Closed", "Clean"}
    BY <1>19, <2>2 DEF NotifyModified, Load, IInv, WorkInv, CanvasInv, MineInv, SeenInv, ConflictInv, WriteInv, TextIsOurs, HoldsWork,
         TypeInv, TypeOK, Working, Ours, IsDirty, Untouched, States, Sides, session, Editions
  <2>3. CASE /\ IsDirty /\ UNCHANGED fileIndex
             /\ DiskDeleted(disk) \/ DiskCollides \/ BufferInvalid \/ DiskUnreadable
    BY <2>1, <2>3, DiskChangedWork
  <2>4. CASE IsDirty /\ DiskMerges
    BY <2>1, <2>4, DiskMergesWork
  <2>5. QED BY <1>19, <2>2, <2>3, <2>4 DEF NotifyModified
<1>20. CASE KeepOurs
  BY <1>20 DEF KeepOurs, Settled, DirtyOf, IInv, WorkInv, CanvasInv, MineInv, SeenInv, ConflictInv, WriteInv, TextIsOurs, HoldsWork,
     TypeInv, TypeOK, Working, Ours, IsDirty, Untouched, States, Sides, session, Editions
<1>21. CASE TakeTheirs
  BY <1>21 DEF TakeTheirs, Settled, IInv, WorkInv, CanvasInv, MineInv, SeenInv, ConflictInv, WriteInv, TextIsOurs, HoldsWork,
     TypeInv, TypeOK, Working, Ours, IsDirty, Untouched, States, Sides, session, Editions
<1>22. CASE TakeDeletion
  BY <1>22 DEF TakeDeletion, Drop, IInv, WorkInv, CanvasInv, MineInv, SeenInv, ConflictInv, WriteInv, TextIsOurs, HoldsWork,
     TypeInv, TypeOK, Working, Ours, IsDirty, Untouched, States, Sides, session, Editions
<1>23. CASE AcceptAuto
  BY <1>23 DEF AcceptAuto, InstallMerged, Settled, DirtyOf, IInv, WorkInv, CanvasInv, MineInv, SeenInv, ConflictInv, WriteInv, TextIsOurs, HoldsWork,
     TypeInv, TypeOK, Working, Ours, IsDirty, Untouched, States, Sides, session, Editions
<1>24. CASE \E m \in Editions : Manual(m)
  BY <1>24 DEF Manual, Settled, IInv, WorkInv, CanvasInv, MineInv, SeenInv, ConflictInv, WriteInv, TextIsOurs, HoldsWork,
     TypeInv, TypeOK, Working, Ours, IsDirty, Untouched, States, Sides, session, Editions
<1>25. CASE \E f \in FileSets : ExternalEdit(f)
  <2>1. UNCHANGED <<state, session, pc, mine>> /\ raced' = (raced \/ pc = "write")
    BY <1>25 DEF ExternalEdit
  <2>2. WriteInv'
    BY <2>1 DEF WriteInv
  <2>3. CanvasInv' /\ MineInv' /\ SeenInv' /\ ConflictInv'
    BY <2>1 DEF IInv, WorkInv, CanvasInv, MineInv, SeenInv, ConflictInv, TextIsOurs, HoldsWork,
       Ours, session
  <2>4. QED BY <2>2, <2>3 DEF WorkInv
<1>26. QED
  BY <1>1, <1>2, <1>3, <1>4, <1>5, <1>6, <1>7, <1>8, <1>9, <1>10, <1>11, <1>12, <1>13, <1>14, <1>15, <1>16, <1>17, <1>18, <1>19, <1>20, <1>21, <1>22, <1>23, <1>24, <1>25 DEF Next, FileSets

\* The inductive invariant of a disciplined host's session.
LEMMA Inductive ==
    ASSUME Disciplined
    PROVE  Spec => []IInv
<1>1. Init => IInv
  BY ArtifactAssumption
     DEF Init, IInv, WorkInv, CanvasInv, MineInv, SeenInv, ConflictInv, WriteInv, TextIsOurs, HoldsWork,
         TypeInv, TypeOK, Untouched, States, FileSets, IsDirty, Working, Ours
<1>2. IInv /\ [Next]_vars => IInv'
  <2>1. IInv /\ UNCHANGED vars => IInv'
    BY DEF vars, session, IInv, WorkInv, CanvasInv, MineInv, SeenInv, ConflictInv, WriteInv, TextIsOurs,
           HoldsWork, TypeInv, TypeOK, Working, Ours, IsDirty
  <2>2. IInv /\ Next => IInv'
    BY TypeStep, WorkStep DEF IInv
  <2>3. QED BY <2>1, <2>2
<1>3. QED BY <1>1, <1>2, PTL DEF Spec

\* Through every sequence of edits, events, merges, failed saves and resolutions,
\* the working copy is the observed file set with the user's changes on top.
THEOREM NoChangeLost ==
    ASSUME Disciplined
    PROVE  Spec => []WorkingCopyIsDiskPlusMine
<1>1. IInv => WorkingCopyIsDiskPlusMine
  BY DEF IInv, WorkInv, MineInv, SeenInv, HoldsWork, WorkingCopyIsDiskPlusMine
<1>2. QED BY <1>1, Inductive, PTL

\* A waiting conflict holds both sides, and its offered merge takes from the user
\* only what he changed.
THEOREM ConflictsKeepBothSides ==
    ASSUME Disciplined
    PROVE  Spec => []ConflictKeepsBothSides
<1>1. IInv => ConflictKeepsBothSides
  BY ArtifactAssumption
     DEF IInv, TypeInv, WorkInv, MineInv, ConflictInv, HoldsWork, ConflictKeepsBothSides
<1>2. QED BY <1>1, Inductive, PTL

\* A clean canvas shows the ancestor of the next merge, and that is what the
\* session last saw on disk.
THEOREM CleanIsMerged ==
    ASSUME Disciplined
    PROVE  Spec => []CleanMeansMerged
<1>1. IInv => CleanMeansMerged
  BY DEF IInv, WorkInv, CanvasInv, CleanMeansMerged
<1>2. QED BY <1>1, Inductive, PTL

\* A save that nobody raced writes the user's changes and nothing else.
THEOREM SavesTouchOnlyMine ==
    ASSUME Disciplined
    PROVE  Spec => SaveTouchesOnlyMine
<1> DEFINE A == (SaveWrite /\ ~raced /\ disk \in Editions) =>
                    \A k \in Keys : /\ disk'[k] # disk[k] => mine[k] # Free
                                    /\ mine[k] \in Vals => disk'[k] = mine[k]
<1>1. IInv => A
  <2> SUFFICES ASSUME IInv, SaveWrite, ~raced, disk \in Editions, NEW k \in Keys
               PROVE  /\ disk'[k] # disk[k] => mine[k] # Free
                      /\ mine[k] \in Vals => disk'[k] = mine[k]
    OBVIOUS
  <2>1. disk = seen /\ disk' = Working /\ Working \in Editions /\ IsDirty
    BY DEF SaveWrite, IInv, WorkInv, WriteInv, TypeInv, TypeOK
  <2>2. Working = Ours /\ Ours # Bad /\ state \in {"DirtyCanvas", "DirtyText"}
    BY <2>1, ArtifactAssumption DEF Working, Ours, IsDirty
  <2>3. QED
    BY <2>1, <2>2 DEF IInv, WorkInv, MineInv, SeenInv, HoldsWork
<1>2. QED BY <1>1, Inductive, PTL DEF SaveTouchesOnlyMine
=============================================================================
