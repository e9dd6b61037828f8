------------------------ MODULE ProjectTransaction_proofs ------------------------
(***************************************************************************)
(* Proofs about the project writer, for any number of files and any        *)
(* contents.  IInv is inductive; its parts say, phase by phase, what the   *)
(* operation that holds the project lock already knows about the files:    *)
(* ReplayProgress for recovery, PlanInv and ExpectedInv for planning,      *)
(* JournalInv and TouchInv for a journal that may outlive its process.     *)
(***************************************************************************)
EXTENDS ProjectTransaction, TLAPS

\* The initial states satisfy the inductive invariant.
LEMMA InitIInv == Init => IInv
BY NAssumption, ContentsAssumption
   DEF Init, IInv, TypeOK, EditsSurvive, WedgedOnlyByEdit, ReplayProgress, JournalInv,
       PlanInv, TouchInv, ExpectedInv, Reading, Paths, FileState, Entry

-----------------------------------------------------------------------------
(***************************************************************************)
(* Recovery.                                                               *)
(***************************************************************************)

\* Leaving recovery with no journal on disk, and the files untouched by the
\* step, keeps the invariant wherever the operation goes next (AfterRecovery).
LEMMA AfterRecoveryIInv ==
    ASSUME IInv, AfterRecovery, pc \in {"recover", "clear"}, journal # "live",
           journal' = "none", staged' \subseteq staged,
           UNCHANGED <<disk, jold, jnew, ghosts>>
    PROVE  IInv'
<1> USE NAssumption, ContentsAssumption
    DEF IInv, TypeOK, EditsSurvive, WedgedOnlyByEdit, ReplayProgress, JournalInv, PlanInv,
        TouchInv, ExpectedInv, Pending, Settled, Reading, Paths, FileState, Entry,
        IsWrite, IsRemoval, ghosts, Goto
<1>1. CASE op = "open"
  <2>1. pc' = "read" /\ i' = 1 /\ UNCHANGED <<op, kind, target, expected, pold, known, result>>
    BY <1>1 DEF AfterRecovery
  <2>2. \A p \in Paths : pold[p] = Untracked
    BY <1>1
  <2>3. QED BY <1>1, <2>1, <2>2
<1>2. CASE op = "save"
  <2>1. pc' = "arguments" /\ i' = 1 /\ UNCHANGED <<op, kind, target, expected, pold, known, result>>
    BY <1>2 DEF AfterRecovery
  <2>2. \A p \in Paths : pold[p] = Untracked
    BY <1>2
  <2>3. QED BY <1>2, <2>1, <2>2
<1>3. CASE op = "commit"
  <2>1. known' = Accepted /\ Done("ok")
    BY <1>3 DEF AfterRecovery
  <2>2. QED BY <2>1 DEF Accepted, Done, Reset
<1>4. QED BY <1>1, <1>2, <1>3

\* A step of recovery preserves the invariant.
LEMMA RecoveryIInv == IInv /\ Recovery => IInv'
<1> SUFFICES ASSUME IInv, Recovery PROVE IInv'
  OBVIOUS
<1> USE NAssumption, ContentsAssumption
    DEF IInv, TypeOK, EditsSurvive, WedgedOnlyByEdit, ReplayProgress, JournalInv, PlanInv,
        TouchInv, ExpectedInv, Pending, Settled, Reading, Paths, FileState, Entry,
        IsWrite, IsRemoval
<1>1. CASE RecoverNoJournal
  BY <1>1, AfterRecoveryIInv DEF RecoverNoJournal, journalVars
<1>2. CASE RecoverPlanless
  BY <1>2, AfterRecoveryIInv DEF RecoverPlanless
<1>3. CASE RecoverJournal
  BY <1>3 DEF RecoverJournal, Goto, journalVars, ghosts
<1>4. CASE WriteSkip
  BY <1>4 DEF WriteSkip, ReplayUnchanged, journalVars, ghosts
<1>5. CASE WriteCheck
  BY <1>5 DEF WriteCheck, ReplayUnchanged, journalVars, ghosts
<1>6. CASE WriteFail
  \* the file is neither new nor old, so somebody touched it
  <2>1. i \in Paths /\ jnew[i] # Untracked /\ i \in touched
    BY <1>6 DEF WriteFail
  <2>2. WedgedOnlyByEdit'
    BY <1>6, <2>1 DEF WriteFail, journalVars, ghosts
  <2>3. QED BY <1>6, <2>2 DEF WriteFail, Done, Reset, journalVars, ghosts
<1>7. CASE Rename
  \* a file that was not raced still had its old content, so its change was pending
  <2>1. i \notin raced => shadow[i] = jnew[i]
    BY <1>7 DEF Rename
  <2>2. TypeOK'
    BY <1>7 DEF Rename, Forgive
  <2>3. EditsSurvive'
    BY <1>7, <2>1 DEF Rename, Forgive
  <2>4. ReplayProgress'
    BY <1>7, <2>1 DEF Rename, Forgive
  <2>5. JournalInv'
    BY <1>7 DEF Rename, Forgive
  <2>6. WedgedOnlyByEdit' /\ PlanInv' /\ TouchInv' /\ ExpectedInv'
    BY <1>7 DEF Rename, Forgive
  <2>7. QED BY <2>2, <2>3, <2>4, <2>5, <2>6
<1>8. CASE WritesDone
  BY <1>8 DEF WritesDone, Goto, ReplayUnchanged, journalVars, ghosts
<1>9. CASE RemoveSkip
  BY <1>9 DEF RemoveSkip, ReplayUnchanged, journalVars, ghosts
<1>10. CASE RemoveCheck
  BY <1>10 DEF RemoveCheck, ReplayUnchanged, journalVars, ghosts
<1>11. CASE RemoveFail
  <2>1. i \in Paths /\ jnew[i] # Untracked /\ i \in touched
    BY <1>11 DEF RemoveFail
  <2>2. WedgedOnlyByEdit'
    BY <1>11, <2>1 DEF RemoveFail, journalVars, ghosts
  <2>3. QED BY <1>11, <2>2 DEF RemoveFail, Done, Reset, journalVars, ghosts
<1>12. CASE Remove
  <2>1. i \notin raced => shadow[i] = Missing
    BY <1>12 DEF Remove
  <2>2. TypeOK'
    BY <1>12 DEF Remove, Forgive, journalVars
  <2>3. EditsSurvive'
    BY <1>12, <2>1 DEF Remove, Forgive, journalVars
  <2>4. ReplayProgress'
    BY <1>12, <2>1 DEF Remove, Forgive, journalVars
  <2>5. JournalInv'
    BY <1>12 DEF Remove, Forgive, journalVars
  <2>6. WedgedOnlyByEdit' /\ PlanInv' /\ TouchInv' /\ ExpectedInv'
    BY <1>12 DEF Remove, Forgive, journalVars
  <2>7. QED BY <2>2, <2>3, <2>4, <2>5, <2>6
<1>13. CASE RemovalsDone
  \* writes and removals have landed, and a path that is not planned is not pending
  <2>1. \A p \in Paths : Settled(p)
    BY <1>13 DEF RemovalsDone
  <2>2. QED BY <1>13, <2>1 DEF RemovalsDone, Goto, ReplayUnchanged, journalVars, ghosts
<1>14. ASSUME NEW q \in Paths, ClearStaged(q) PROVE IInv'
  \* every file is settled, so a planned one no longer has its old content
  <2>1. \A p \in Paths : jnew[p] # Untracked /\ p \notin raced => disk[p] # jold[p]
    BY <1>14 DEF ClearStaged
  <2>2. TypeOK' /\ EditsSurvive' /\ ReplayProgress'
    BY <1>14 DEF ClearStaged, local, ghosts
  <2>3. JournalInv'
    BY <1>14, <2>1 DEF ClearStaged, local, ghosts
  <2>4. TouchInv'
    BY <1>14, <2>1 DEF ClearStaged, local, ghosts
  <2>5. WedgedOnlyByEdit' /\ PlanInv' /\ ExpectedInv'
    BY <1>14 DEF ClearStaged, local, ghosts
  <2>6. QED BY <2>2, <2>3, <2>4, <2>5
<1>15. CASE ClearPlan
  BY <1>15 DEF ClearPlan, local
<1>16. CASE ClearDone
  BY <1>16, AfterRecoveryIInv DEF ClearDone
<1>17. QED
  BY <1>1, <1>2, <1>3, <1>4, <1>5, <1>6, <1>7, <1>8, <1>9, <1>10, <1>11, <1>12, <1>13,
     <1>14, <1>15, <1>16 DEF Recovery

-----------------------------------------------------------------------------
(***************************************************************************)
(* Reading, planning and committing.                                       *)
(***************************************************************************)

\* A step that reads the files or plans the save preserves the invariant.
LEMMA PlanningIInv == IInv /\ (ReadFile \/ ReadDone \/ Planning) => IInv'
<1> SUFFICES ASSUME IInv, ReadFile \/ ReadDone \/ Planning PROVE IInv'
  OBVIOUS
<1> USE NAssumption, ContentsAssumption
    DEF IInv, TypeOK, EditsSurvive, WedgedOnlyByEdit, ReplayProgress, JournalInv, PlanInv,
        TouchInv, ExpectedInv, Pending, Settled, Reading, Paths, FileState, Entry,
        IsWrite, IsRemoval
<1>1. CASE ReadFile
  BY <1>1 DEF ReadFile, journalVars, ghosts
<1>2. CASE ReadDone
  BY <1>2 DEF ReadDone, Done, Reset, journalVars, ghosts
<1>3. CASE Validate
  BY <1>3 DEF Validate, AsExpected, PlanUnchanged, journalVars, ghosts
<1>4. CASE ValidateFail
  BY <1>4 DEF ValidateFail, Refuse, Done, Reset, journalVars, ghosts
<1>5. CASE ValidateDone
  BY <1>5 DEF ValidateDone, Goto, PlanUnchanged, journalVars, ghosts
<1>6. CASE PlanWrite
  \* the path was not planned before, and what the plan records is on disk
  <2>1. TypeOK' /\ PlanInv'
    BY <1>6 DEF PlanWrite, PlanUnchanged, journalVars
  <2>2. EditsSurvive' /\ ReplayProgress' /\ JournalInv' /\ WedgedOnlyByEdit'
    BY <1>6 DEF PlanWrite, PlanUnchanged, journalVars
  <2>3. TouchInv' /\ ExpectedInv'
    BY <1>6 DEF PlanWrite, PlanUnchanged, journalVars
  <2>4. QED BY <2>1, <2>2, <2>3
<1>7. CASE PlanDone
  BY <1>7 DEF PlanDone, Goto, PlanUnchanged, journalVars, ghosts
<1>8. CASE ScanStale
  <2>1. TypeOK' /\ PlanInv'
    BY <1>8 DEF ScanStale, PlanUnchanged, journalVars
  <2>2. EditsSurvive' /\ ReplayProgress' /\ JournalInv' /\ WedgedOnlyByEdit'
    BY <1>8 DEF ScanStale, PlanUnchanged, journalVars
  <2>3. TouchInv' /\ ExpectedInv'
    BY <1>8 DEF ScanStale, PlanUnchanged, journalVars
  <2>4. QED BY <2>1, <2>2, <2>3
<1>9. CASE ScanFail
  BY <1>9 DEF ScanFail, Refuse, Done, Reset, journalVars, ghosts
<1>10. CASE ScanDone
  BY <1>10 DEF ScanDone, Goto, PlanUnchanged, journalVars, ghosts
<1>11. ASSUME NEW k \in Kinds, NEW t \in [Paths -> FileState], NEW tracked \in SUBSET Paths,
              TakeArguments(k, t, tracked)
       PROVE  IInv'
  <2>1. k \in {"unchecked", "checked", "artifacts"}
    BY KindsAssumption
  <2>2. pc' \in {"plan", "validate", "scan"} /\ i' = 1
    BY <1>11, <2>1 DEF TakeArguments, Goto
  <2>3. TypeOK'
    BY <1>11, <2>1, <2>2 DEF TakeArguments, journalVars, ghosts
  <2>4. PlanInv' /\ ExpectedInv'
    BY <1>11, <2>1, <2>2 DEF TakeArguments, journalVars, ghosts
  <2>5. EditsSurvive' /\ WedgedOnlyByEdit' /\ ReplayProgress' /\ JournalInv' /\ TouchInv'
    BY <1>11, <2>2 DEF TakeArguments, journalVars, ghosts
  <2>6. QED BY <2>3, <2>4, <2>5
<1>12. QED
  BY <1>1, <1>2, <1>3, <1>4, <1>5, <1>6, <1>7, <1>8, <1>9, <1>10, <1>11 DEF Planning

\* A step that changes a file or publishes the journal preserves the invariant.
LEMMA CommittingIInv == IInv /\ Committing => IInv'
<1> SUFFICES ASSUME IInv, Committing PROVE IInv'
  OBVIOUS
<1> USE NAssumption, ContentsAssumption
    DEF IInv, TypeOK, EditsSurvive, WedgedOnlyByEdit, ReplayProgress, JournalInv, PlanInv,
        TouchInv, ExpectedInv, Pending, Settled, Reading, Paths, FileState, Entry,
        IsWrite, IsRemoval
<1>1. CASE DecideNothing
  BY <1>1 DEF DecideNothing, Accepted, Done, Reset, journalVars, ghosts
<1>2. CASE SingleCheck
  BY <1>2 DEF SingleCheck, Changes, PlanUnchanged, journalVars, ghosts
<1>3. CASE SingleFail
  BY <1>3 DEF SingleFail, Refuse, Done, Reset, journalVars, ghosts
<1>4. CASE SingleWrite
  <2>1. TypeOK'
    <3>1. known' \in [Paths -> Entry] /\ result' \in {"ok", "error", "wedged", "crashed"}
      <4>1. CASE known' = Accepted /\ Done("ok")
        BY <4>1 DEF Accepted, Done
      <4>2. CASE known' = known /\ Done("error")
        BY <4>2 DEF Done
      <4>3. CASE known' = [p \in Paths |-> Untracked] /\ Done("crashed")
        BY <4>3 DEF Done
      <4>4. QED BY <1>4, <4>1, <4>2, <4>3 DEF SingleWrite
    <3>2. /\ Reset /\ UNCHANGED <<journalVars, raced, touched>> /\ pc = "single"
          /\ disk' = [disk EXCEPT ![i] = target[i]] /\ shadow' = [shadow EXCEPT ![i] = target[i]]
      BY <1>4 DEF SingleWrite, Done
    <3>3. QED BY <3>1, <3>2 DEF Reset, journalVars
  <2>2. EditsSurvive' /\ JournalInv'
    BY <1>4 DEF SingleWrite, Done, Reset, journalVars
  <2>3. WedgedOnlyByEdit' /\ ReplayProgress' /\ PlanInv' /\ TouchInv' /\ ExpectedInv'
    BY <1>4 DEF SingleWrite, Done, Reset, journalVars
  <2>4. QED BY <2>1, <2>2, <2>3
<1>5. CASE Publish
  \* with no journal before, every file is as the tree has it
  <2>1. \A p \in Paths : disk[p] = shadow[p]
    BY <1>5 DEF Publish
  <2>2. TypeOK'
    BY <1>5 DEF Publish, Changes, Goto
  <2>3. EditsSurvive'
    BY <1>5, <2>1 DEF Publish, Changes, Landing, Goto
  <2>4. JournalInv'
    BY <1>5, <2>1 DEF Publish, Changes, Landing, Goto
  <2>5. TouchInv'
    BY <1>5, <2>1 DEF Publish, Changes, Goto
  <2>6. WedgedOnlyByEdit' /\ ReplayProgress' /\ PlanInv' /\ ExpectedInv'
    BY <1>5 DEF Publish, Goto
  <2>7. QED BY <2>2, <2>3, <2>4, <2>5, <2>6
<1>6. QED BY <1>1, <1>2, <1>3, <1>4, <1>5 DEF Committing

-----------------------------------------------------------------------------
(***************************************************************************)
(* Calls, failures and external edits.                                     *)
(***************************************************************************)

\* An external edit of one file, at any point of any operation, preserves the
\* invariant: the tree follows the edit, and where the writer could not tell it
\* from its own work the path counts as raced.
LEMMA EditIInv == ASSUME NEW q \in Paths, NEW c \in FileState, IInv, Edit(q, c)
                  PROVE  IInv'
<1> USE NAssumption, ContentsAssumption
    DEF IInv, TypeOK, EditsSurvive, WedgedOnlyByEdit, ReplayProgress, JournalInv, PlanInv,
        TouchInv, ExpectedInv, Pending, Settled, Reading, Paths, FileState, Entry,
        IsWrite, IsRemoval
<1>1. TypeOK' /\ EditsSurvive'
  BY DEF Edit, journalVars, local
<1>2. ReplayProgress'
  BY DEF Edit, Race, journalVars, local
<1>3. JournalInv'
  BY DEF Edit, Race, journalVars, local
<1>4. TouchInv'
  BY DEF Edit, Race, journalVars, local
<1>5. WedgedOnlyByEdit' /\ PlanInv' /\ ExpectedInv'
  BY DEF Edit, journalVars, local
<1>6. QED BY <1>1, <1>2, <1>3, <1>4, <1>5

\* The invariant is inductive.
LEMMA NextIInv == IInv /\ [Next]_vars => IInv'
<1> SUFFICES ASSUME IInv, [Next]_vars PROVE IInv'
  OBVIOUS
<1> USE NAssumption, ContentsAssumption
    DEF IInv, TypeOK, EditsSurvive, WedgedOnlyByEdit, ReplayProgress, JournalInv, PlanInv,
        TouchInv, ExpectedInv, Pending, Settled, Reading, Paths, FileState, Entry,
        IsWrite, IsRemoval
<1>1. CASE StartOpen
  BY <1>1 DEF StartOpen, Goto, journalVars, ghosts
<1>2. CASE StartSave
  BY <1>2 DEF StartSave, Goto, journalVars, ghosts
<1>3. CASE Step
  BY <1>3, RecoveryIInv, PlanningIInv, CommittingIInv DEF Step
<1>4. CASE Crash
  BY <1>4 DEF Crash, Reset, journalVars, ghosts
<1>5. CASE IoFail
  BY <1>5 DEF IoFail, Done, Reset, journalVars, ghosts
<1>6. ASSUME NEW p \in Paths, NEW c \in FileState, Edit(p, c) PROVE IInv'
  BY <1>6, EditIInv
<1>7. CASE UNCHANGED vars
  BY <1>7 DEF vars, journalVars, local, ghosts
<1>8. QED BY <1>1, <1>2, <1>3, <1>4, <1>5, <1>6, <1>7 DEF Next

\* The inductive invariant holds in every reachable state.
THEOREM InductiveInvariant == Spec => []IInv
BY InitIInv, NextIInv, PTL DEF Spec

-----------------------------------------------------------------------------
(***************************************************************************)
(* The results.                                                            *)
(***************************************************************************)

\* Every variable keeps its type: no loop of the writer leaves its range, and
\* no digest map holds an entry that is not a file state.
THEOREM TypeCorrect == Spec => []TypeOK
BY InductiveInvariant, PTL DEF IInv

\* Saves are atomic across crashes and never eat an external edit
\* (apply_project_transaction, recover_project_transaction_locked).
THEOREM SavesAreAtomic == Spec => []EditsSurvive
BY InductiveInvariant, PTL DEF IInv

\* Every reader and every planner works on whole saves: it runs only while no
\* journal is on disk, and then every file is as the tree has it
\* (with_project_read_lock).
THEOREM ReadersSeeWholeSaves == Spec => []OpensSeeWholeSaves
<1>1. IInv => OpensSeeWholeSaves
  <2> SUFFICES ASSUME IInv, pc \in Reading PROVE journal = "none" /\ disk = shadow
    BY DEF OpensSeeWholeSaves, Reading
  <2>1. journal = "none"
    BY DEF IInv, JournalInv
  <2>2. \A p \in Paths : disk[p] = shadow[p]
    BY <2>1 DEF IInv, EditsSurvive, Pending
  <2>3. QED BY <2>1, <2>2 DEF IInv, TypeOK
<1>2. QED BY <1>1, InductiveInvariant, PTL

\* Crashes and I/O errors alone never leave a project that refuses to open
\* (recover_project_transaction_locked).
THEOREM CrashesDoNotWedge == Spec => []WedgedOnlyByEdit
BY InductiveInvariant, PTL DEF IInv

\* The commit of a save whose caller passed expected_disk replaces only content
\* the caller had reconciled, unless the file was touched after the save read it
\* (validate_expected_disk_content).
THEOREM SavesRespectExpectedDisk == Spec => CheckedSaveKeepsEdits
<1> DEFINE Keeps(p) == /\ pc \in {"decide", "single"} /\ pc' # pc /\ shadow'[p] # shadow[p]
                       /\ expected[p] # Untracked
                       => shadow[p] = expected[p] \/ p \in touched
<1>1. IInv /\ [Next]_vars => [\A p \in Paths : Keeps(p)]_vars
  <2> SUFFICES ASSUME IInv, Next, NEW p \in Paths,
                      pc \in {"decide", "single"}, pc' # pc, shadow'[p] # shadow[p],
                      expected[p] # Untracked, p \notin touched
               PROVE  shadow[p] = expected[p]
    OBVIOUS
  <2>1. disk[p] = shadow[p]
    BY DEF IInv, JournalInv, Reading, EditsSurvive, Pending
  \* only a commit step changes the tree here, and only at a planned path
  <2>2. pold[p] # Untracked
    <3>1. SingleWrite \/ Publish
      BY DEF Next, Step, StartOpen, StartSave, Recovery, RecoverNoJournal, RecoverPlanless,
             RecoverJournal, WriteSkip, WriteCheck, WriteFail, Rename, WritesDone, RemoveSkip,
             RemoveCheck, RemoveFail, Remove, RemovalsDone, ClearStaged, ClearPlan, ClearDone,
             ReadFile, ReadDone, Planning, TakeArguments, Validate, ValidateFail, ValidateDone, PlanWrite,
             PlanDone, ScanStale, ScanFail, ScanDone, Committing, DecideNothing, SingleCheck,
             SingleFail, Refuse, Crash, IoFail, Edit, ghosts, local
    <3>2. CASE SingleWrite
      BY <3>2 DEF SingleWrite, IInv, PlanInv, TypeOK
    <3>3. CASE Publish
      BY <3>3 DEF Publish, Landing, Changes
    <3>4. QED BY <3>1, <3>2, <3>3
  <2>3. pold[p] = expected[p] /\ disk[p] = pold[p]
    BY <2>2 DEF IInv, ExpectedInv, TouchInv, Reading
  <2>4. QED BY <2>1, <2>3
<1>2. QED BY <1>1, InductiveInvariant, PTL DEF Spec, CheckedSaveKeepsEdits

-----------------------------------------------------------------------------
(***************************************************************************)
(* The writer implements AtomicProject.                                    *)
(***************************************************************************)

\* Which operation the phases after the recovery belong to, and that an open has
\* read every file before i.
OperationInv ==
    /\ pc = "read" => op = "open" /\ \A p \in Paths : p < i => known[p] # Untracked
    /\ pc \in Reading \ {"read"} => op = "save"

\* Every step keeps OperationInv.
LEMMA NextOperationInv ==
    ASSUME IInv, OperationInv, [Next]_vars
    PROVE  OperationInv'
<1> USE NAssumption, ContentsAssumption DEF OperationInv, Reading
<1>1. CASE ReadFile
  BY <1>1 DEF ReadFile, IInv, TypeOK, Paths, FileState
<1>2. CASE RecoverNoJournal \/ RecoverPlanless \/ ClearDone
  <2>1. AfterRecovery
    BY <1>2 DEF RecoverNoJournal, RecoverPlanless, ClearDone
  <2>2. QED BY <2>1 DEF AfterRecovery, Goto, Done, Reset, Paths
<1>3. CASE ReadDone \/ WriteFail \/ RemoveFail \/ ValidateFail \/ ScanFail \/ DecideNothing
           \/ SingleFail \/ SingleWrite \/ Crash \/ IoFail
  <2>1. pc' = "idle"
    BY <1>3 DEF ReadDone, WriteFail, RemoveFail, ValidateFail, ScanFail, DecideNothing,
                SingleFail, SingleWrite, Crash, IoFail, Refuse, Done, Reset
  <2>2. QED BY <2>1
<1>4. CASE RecoverJournal \/ WriteSkip \/ WriteCheck \/ Rename \/ WritesDone \/ RemoveSkip
           \/ RemoveCheck \/ Remove \/ RemovalsDone \/ ClearPlan \/ \E p \in Paths : ClearStaged(p)
  BY <1>4 DEF RecoverJournal, WriteSkip, WriteCheck, Rename, WritesDone, RemoveSkip, RemoveCheck,
              Remove, RemovalsDone, ClearPlan, ClearStaged, Goto, local
<1>5. CASE StartOpen \/ StartSave \/ Publish
  BY <1>5 DEF StartOpen, StartSave, Publish, Goto
<1>6. CASE Validate \/ ValidateDone \/ PlanWrite \/ PlanDone \/ ScanStale \/ ScanDone \/ SingleCheck
  <2>1. op' = op /\ pc \in Reading \ {"read"}
    BY <1>6 DEF Validate, ValidateDone, PlanWrite, PlanDone, ScanStale, ScanDone, SingleCheck,
                PlanUnchanged
  <2>2. CASE ScanDone
    <3>1. kind \in {"unchecked", "checked", "artifacts"}
      BY DEF IInv, TypeOK
    <3>2. pc' \in {"decide", "revalidate", "plan"}
      BY <2>2, <3>1 DEF ScanDone, Goto
    <3>3. QED BY <2>1, <3>2
  <2>3. CASE ~ScanDone
    <3>1. pc' # "read"
      BY <1>6, <2>3 DEF Validate, ValidateDone, PlanWrite, PlanDone, ScanStale, SingleCheck, Goto
    <3>2. QED BY <2>1, <3>1
  <2>4. QED BY <2>2, <2>3
<1>7. ASSUME NEW k \in Kinds, NEW t \in [Paths -> FileState], NEW tracked \in SUBSET Paths,
             TakeArguments(k, t, tracked)
      PROVE  OperationInv'
  <2>1. pc' \in {"plan", "validate", "scan"} /\ op' = op /\ pc = "arguments"
    BY <1>7, KindsAssumption DEF TakeArguments, Goto
  <2>2. QED BY <2>1
<1>8. CASE UNCHANGED vars \/ \E p \in Paths, c \in FileState : Edit(p, c)
  BY <1>8 DEF vars, local, Edit
<1>9. QED
  BY <1>1, <1>2, <1>3, <1>4, <1>5, <1>6, <1>7, <1>8
     DEF Next, Step, Recovery, Planning, Committing

\* The two mappings, once per kind of state, so that no later step opens them.
LEMMA Mapping ==
    /\ pc = "idle" => PhaseSeen = "idle"
    /\ pc # "idle" /\ op = "commit" => PhaseSeen = "saved"
    /\ pc # "idle" /\ op # "commit" => PhaseSeen = op
    /\ pc # "read" => ViewSeen = Atomic!None
BY DEF PhaseSeen, ViewSeen, Atomic!None

\* The same of the next state.
LEMMA MappingNext ==
    /\ pc' = "idle" => PhaseSeen' = "idle"
    /\ pc' # "idle" /\ op' = "commit" => PhaseSeen' = "saved"
    /\ pc' # "idle" /\ op' # "commit" => PhaseSeen' = op'
    /\ pc' # "read" => ViewSeen' = Atomic!None
BY DEF PhaseSeen, ViewSeen, Atomic!None

\* Without a live journal nothing is left to redo.
LEMMA NothingToRedo == IInv /\ journal # "live" => jnew = Atomic!None
BY DEF IInv, TypeOK, JournalInv, Atomic!None

\* A step that changes neither the tree, the plan, the operation nor the result,
\* and neither starts nor ends a read or the operation, is invisible.
LEMMA Invisible ==
    ASSUME UNCHANGED <<shadow, jnew, op, result>>, pc # "idle", pc' # "idle",
           pc # "read", pc' # "read"
    PROVE  UNCHANGED Atomic!vars
BY Mapping, MappingNext DEF Atomic!vars, PhaseSeen

\* An operation that ends without changing the tree or the journal failed.
LEMMA Failure ==
    ASSUME NEW how \in {"error", "wedged", "crashed"}, pc # "idle", pc' = "idle", result' = how,
           UNCHANGED <<shadow, jnew>>, how = "wedged" => jnew # Atomic!None,
           TypeOK
    PROVE  Atomic!Next
<1>1. PhaseSeen # "idle" /\ PhaseSeen' = "idle" /\ ViewSeen' = Atomic!None
  BY MappingNext DEF PhaseSeen, TypeOK
<1>2. Atomic!Fail(how)
  BY <1>1 DEF Atomic!Fail
<1>3. QED BY <1>2 DEF Atomic!Next

\* A step of the recovery is one step of the atomic project, or none.
LEMMA RecoveryRefines ==
    ASSUME IInv, OperationInv, Recovery
    PROVE  Atomic!Next \/ UNCHANGED Atomic!vars
<1> USE DEF journalVars, ghosts
<1>1. TypeOK
  BY DEF IInv
<1>2. CASE RecoverJournal \/ WriteSkip \/ WriteCheck \/ WritesDone \/ RemoveSkip \/ RemoveCheck
           \/ RemovalsDone \/ \E p \in Paths : ClearStaged(p)
  <2>1. UNCHANGED <<shadow, jnew, op, result>> /\ pc \notin {"idle", "read"}
        /\ pc' \notin {"idle", "read"}
    BY <1>2 DEF RecoverJournal, WriteSkip, WriteCheck, WritesDone, RemoveSkip, RemoveCheck,
                RemovalsDone, ClearStaged, Goto, ReplayUnchanged, local
  <2>2. QED BY <2>1, Invisible
<1>3. CASE RecoverNoJournal \/ RecoverPlanless \/ ClearDone
  <2>1. /\ AfterRecovery /\ journal # "live" /\ pc \in {"recover", "clear"}
        /\ UNCHANGED <<shadow, jnew>>
    BY <1>3 DEF RecoverNoJournal, RecoverPlanless, ClearDone
  <2>2. CASE op = "commit"
    <3>1. pc' = "idle" /\ result' = "ok"
      BY <2>1, <2>2 DEF AfterRecovery, Done, Reset
    <3>2. PhaseSeen = "saved" /\ PhaseSeen' = "idle" /\ ViewSeen' = Atomic!None
      BY <2>1, <2>2, <3>1, Mapping, MappingNext
    <3>3. Atomic!Return
      BY <2>1, <3>1, <3>2, NothingToRedo DEF Atomic!Return
    <3>4. QED BY <3>3 DEF Atomic!Next
  <2>3. CASE op # "commit"
    <3>1. UNCHANGED <<op, result>> /\ pc' \in {"read", "arguments"} /\ i' = 1
      BY <2>1, <2>3 DEF AfterRecovery, Goto
    <3>2. ViewSeen = Atomic!None /\ PhaseSeen' = PhaseSeen
      BY <2>1, <2>3, <3>1, Mapping, MappingNext
    <3>3. ViewSeen' = Atomic!None
      BY <3>1 DEF ViewSeen, Atomic!None, Paths
    <3>4. QED BY <2>1, <3>1, <3>2, <3>3 DEF Atomic!vars
  <2>4. QED BY <2>2, <2>3
<1>4. CASE WriteFail \/ RemoveFail
  <2>1. /\ pc # "idle" /\ pc' = "idle" /\ result' = "wedged" /\ UNCHANGED <<shadow, jnew>>
        /\ i \in Paths /\ (IsWrite(i) \/ IsRemoval(i))
    BY <1>1, <1>4 DEF WriteFail, RemoveFail, Done, Reset, TypeOK, Paths
  <2>2. jnew[i] # Untracked
    BY <2>1, ContentsAssumption DEF IsWrite, IsRemoval
  <2>3. jnew # Atomic!None
    BY <2>1, <2>2 DEF Atomic!None
  <2>4. QED BY <1>1, <2>1, <2>3, Failure
<1>5. CASE Rename \/ Remove
  <2>1. /\ Forgive(i, jnew[i]) /\ i \in Paths /\ jnew[i] # Untracked
        /\ UNCHANGED <<jnew, op, result>>
        /\ pc \notin {"idle", "read"} /\ pc' \notin {"idle", "read"}
    BY <1>5, ContentsAssumption
       DEF Rename, Remove, IInv, ReplayProgress, IsWrite, IsRemoval
  <2>2. PhaseSeen # "idle" /\ UNCHANGED <<PhaseSeen, ViewSeen>>
    BY <1>1, <2>1, Mapping, MappingNext DEF TypeOK
  <2>3. CASE i \in raced
    <3>1. Atomic!Redo(i)
      BY <2>1, <2>2, <2>3 DEF Atomic!Redo, Forgive
    <3>2. QED BY <2>1, <3>1 DEF Atomic!Next
  <2>4. CASE i \notin raced
    BY <2>1, <2>2, <2>4 DEF Forgive, Atomic!vars
  <2>5. QED BY <2>3, <2>4
<1>6. CASE ClearPlan
  <2>1. UNCHANGED <<shadow, op, pc, result>> /\ pc = "clear" /\ jnew' = Atomic!None
    BY <1>6 DEF ClearPlan, local, Atomic!None
  <2>2. PhaseSeen # "idle" /\ UNCHANGED <<PhaseSeen, ViewSeen>>
    BY <1>1, <2>1, Mapping, MappingNext DEF TypeOK
  <2>3. Atomic!Settle
    BY <2>1, <2>2 DEF Atomic!Settle
  <2>4. QED BY <2>3 DEF Atomic!Next
<1>7. QED BY <1>2, <1>3, <1>4, <1>5, <1>6 DEF Recovery

\* So is a step that reads or plans.
LEMMA PlanningRefines ==
    ASSUME IInv, OperationInv, ReadFile \/ ReadDone \/ Planning
    PROVE  Atomic!Next \/ UNCHANGED Atomic!vars
<1> USE DEF journalVars, ghosts
<1>1. TypeOK
  BY DEF IInv
<1>2. CASE pc = "read" /\ (ReadFile \/ ReadDone)
  <2>1. journal = "none" /\ op = "open" /\ \A p \in Paths : disk[p] = shadow[p]
    BY <1>2 DEF IInv, JournalInv, EditsSurvive, Pending, Reading, OperationInv
  <2>2. PhaseSeen = "open" /\ jnew = Atomic!None
    BY <1>2, <2>1, Mapping, NothingToRedo
  <2>3. CASE ReadFile
    <3>1. i \in Paths /\ i' = i + 1 /\ pc' = pc /\ UNCHANGED <<shadow, jnew, op, result>>
          /\ known' = [known EXCEPT ![i] = disk[i]]
      BY <1>1, <2>3 DEF ReadFile, TypeOK, Paths
    <3>2. ViewSeen' = [ViewSeen EXCEPT ![i] = shadow[i]]
      <4>1. i \in Nat /\ \A p \in Paths : p \in Nat /\ (p < i + 1 <=> p < i \/ p = i)
        BY <3>1, NAssumption DEF Paths
      <4>2. \A p \in Paths : known'[p] = IF p = i THEN shadow[i] ELSE known[p]
        BY <1>1, <2>1, <3>1 DEF TypeOK
      <4>3. ViewSeen' = [p \in Paths |-> IF p < i + 1 THEN known'[p] ELSE Untracked]
        BY <1>2, <3>1 DEF ViewSeen
      <4>4. ViewSeen = [p \in Paths |-> IF p < i THEN known[p] ELSE Untracked]
        BY <1>2 DEF ViewSeen
      <4>5. \A p \in Paths : ViewSeen'[p] = IF p = i THEN shadow[i] ELSE ViewSeen[p]
        BY <4>1, <4>2, <4>3, <4>4
      <4>6. QED BY <3>1, <4>3, <4>4, <4>5
    <3>3. PhaseSeen' = PhaseSeen
      BY <3>1 DEF PhaseSeen
    <3>4. Atomic!Read(i)
      BY <2>2, <3>1, <3>2, <3>3 DEF Atomic!Read
    <3>5. QED BY <3>1, <3>4 DEF Atomic!Next
  <2>4. CASE ReadDone
    <3>1. i = N + 1 /\ pc' = "idle" /\ result' = "ok" /\ UNCHANGED <<shadow, jnew>>
      BY <2>4 DEF ReadDone, Done, Reset
    <3>2. \A p \in Paths : ViewSeen[p] # Untracked
      BY <1>2, <3>1, NAssumption DEF ViewSeen, OperationInv, Paths
    <3>3. Atomic!Return
      BY <2>2, <3>1, <3>2, MappingNext DEF Atomic!Return
    <3>4. QED BY <3>3 DEF Atomic!Next
  <2>5. QED BY <1>2, <2>3, <2>4
<1>3. CASE ValidateFail \/ ScanFail
  <2>1. pc # "idle" /\ pc' = "idle" /\ result' = "error" /\ UNCHANGED <<shadow, jnew>>
    BY <1>3 DEF ValidateFail, ScanFail, Refuse, Done, Reset
  <2>2. QED BY <1>1, <2>1, Failure
<1>4. CASE Validate \/ ValidateDone \/ PlanWrite \/ PlanDone \/ ScanStale
  <2>1. UNCHANGED <<shadow, jnew, op, result>> /\ pc \notin {"idle", "read"}
        /\ pc' \notin {"idle", "read"}
    BY <1>4 DEF Validate, ValidateDone, PlanWrite, PlanDone, ScanStale, PlanUnchanged, Goto
  <2>2. QED BY <2>1, Invisible
<1>5. CASE ScanDone
  <2>1. pc' \in {"decide", "revalidate", "plan"}
    BY <1>1, <1>5 DEF ScanDone, Goto, TypeOK
  <2>2. UNCHANGED <<shadow, jnew, op, result>> /\ pc \notin {"idle", "read"}
    BY <1>5 DEF ScanDone, PlanUnchanged
  <2>3. QED BY <2>1, <2>2, Invisible
<1>6. ASSUME NEW k \in Kinds, NEW t \in [Paths -> FileState], NEW tracked \in SUBSET Paths,
             TakeArguments(k, t, tracked)
      PROVE  UNCHANGED Atomic!vars
  <2>1. pc' \in {"plan", "validate", "scan"}
    BY <1>6, KindsAssumption DEF TakeArguments, Goto
  <2>2. UNCHANGED <<shadow, jnew, op, result>> /\ pc \notin {"idle", "read"}
    BY <1>6 DEF TakeArguments
  <2>3. QED BY <2>1, <2>2, Invisible
<1>7. QED BY <1>2, <1>3, <1>4, <1>5, <1>6 DEF Planning, ReadFile, ReadDone

\* So is a step that commits: several files change in one step of the project.
LEMMA CommittingRefines ==
    ASSUME IInv, OperationInv, Committing
    PROVE  Atomic!Next \/ UNCHANGED Atomic!vars
<1> USE DEF journalVars, ghosts
<1>1. TypeOK /\ pc \in {"decide", "single"}
  BY DEF IInv, Committing, DecideNothing, SingleCheck, SingleFail, SingleWrite, Publish
<1>2. journal = "none" /\ op = "save" /\ \A p \in Paths : disk[p] = shadow[p]
  BY <1>1 DEF IInv, JournalInv, EditsSurvive, Pending, Reading, OperationInv
<1>3. PhaseSeen = "save" /\ ViewSeen = Atomic!None /\ jnew = Atomic!None
  BY <1>1, <1>2, Mapping, NothingToRedo
<1>4. CASE DecideNothing
  <2>1. pc' = "idle" /\ result' = "ok" /\ UNCHANGED <<shadow, jnew>>
    BY <1>4 DEF DecideNothing, Done, Reset
  <2>2. Atomic!Return
    BY <1>3, <2>1, MappingNext DEF Atomic!Return
  <2>3. QED BY <2>2 DEF Atomic!Next
<1>5. CASE SingleCheck
  <2>1. UNCHANGED <<shadow, jnew, op, result>> /\ pc' \notin {"idle", "read"}
    BY <1>5 DEF SingleCheck, PlanUnchanged
  <2>2. QED BY <1>1, <2>1, Invisible
<1>6. CASE SingleFail
  <2>1. pc' = "idle" /\ result' = "error" /\ UNCHANGED <<shadow, jnew>>
    BY <1>6 DEF SingleFail, Refuse, Done, Reset
  <2>2. QED BY <1>1, <2>1, Failure
<1>7. CASE SingleWrite
  <2>1. /\ i \in Paths /\ target[i] \in FileState
        /\ shadow' = [shadow EXCEPT ![i] = target[i]]
        /\ pc' = "idle" /\ result' \in {"ok", "error", "crashed"} /\ jnew' = jnew
    BY <1>1, <1>7 DEF SingleWrite, Done, Reset, IInv, PlanInv, TypeOK
  <2>2. Atomic!SaveFile(i, target[i], result')
    BY <1>3, <2>1, MappingNext DEF Atomic!SaveFile
  <2>3. QED BY <2>1, <2>2 DEF Atomic!Next
<1>8. CASE Publish
  <2> DEFINE new == [p \in Paths |-> IF p \in Changes THEN target[p] ELSE Untracked]
             edited == Changes \ Landing
  <2>1. /\ jnew' = new /\ pc' = "recover" /\ op' = "commit" /\ result' = result
        /\ shadow' = [p \in Paths |-> IF p \in Landing THEN target[p] ELSE shadow[p]]
    BY <1>8 DEF Publish, Goto
  <2>2. /\ new \in [Paths -> FileState \cup {Untracked}] /\ edited \in SUBSET Paths
        /\ \A p \in Paths : new[p] # Untracked /\ p \notin edited <=> p \in Landing
        /\ \A p \in Landing : new[p] = target[p]
    BY <1>1, ContentsAssumption DEF Changes, Landing, TypeOK, FileState
  <2>3. PhaseSeen' = "saved" /\ ViewSeen' = ViewSeen
    BY <1>3, <2>1, MappingNext
  <2> HIDE DEF new, edited
  <2>4. shadow' = [p \in Paths |-> IF new[p] # Untracked /\ p \notin edited
                                   THEN new[p] ELSE shadow[p]]
    BY <2>1, <2>2
  <2>5. Atomic!SaveFiles(new, edited)
    BY <1>3, <2>1, <2>3, <2>4 DEF Atomic!SaveFiles
  <2>6. QED BY <2>2, <2>5 DEF Atomic!Next
<1>9. QED BY <1>4, <1>5, <1>6, <1>7, <1>8 DEF Committing

\* The writer implements AtomicProject: for any number of files and any contents,
\* crashes, I/O errors and edits by other programs at any point, a save changes the
\* project in one step and an open reads whole saves (apply_project_transaction,
\* recover_project_transaction_locked, with_project_read_lock).
THEOREM WriterImplementsAtomicProject == Spec => ImplementsAtomicProject
<1>1. Init => OperationInv /\ Atomic!Init
  BY ContentsAssumption
     DEF Init, OperationInv, Reading, Atomic!Init, Atomic!None, PhaseSeen, ViewSeen
<1>2. IInv /\ OperationInv /\ [Next]_vars => [Atomic!Next]_(Atomic!vars)
  <2> SUFFICES ASSUME IInv, OperationInv, [Next]_vars
               PROVE  Atomic!Next \/ UNCHANGED Atomic!vars
    OBVIOUS
  <2> USE DEF journalVars, ghosts
  <2>1. CASE StartOpen
    <3>1. pc = "idle" /\ pc' = "recover" /\ op' = "open" /\ result' = "ok"
          /\ UNCHANGED <<shadow, jnew>>
      BY <2>1 DEF StartOpen, Goto
    <3>2. Atomic!Start("open")
      BY <3>1, Mapping, MappingNext DEF Atomic!Start
    <3>3. QED BY <3>2 DEF Atomic!Next
  <2>2. CASE StartSave
    <3>1. pc = "idle" /\ pc' = "recover" /\ op' = "save" /\ result' = "ok"
          /\ UNCHANGED <<shadow, jnew>>
      BY <2>2 DEF StartSave, Goto
    <3>2. Atomic!Start("save")
      BY <3>1, Mapping, MappingNext DEF Atomic!Start
    <3>3. QED BY <3>2 DEF Atomic!Next
  <2>3. CASE Step
    BY <2>3, RecoveryRefines, PlanningRefines, CommittingRefines DEF Step
  <2>4. CASE Crash \/ IoFail
    <3>1. pc # "idle" /\ pc' = "idle" /\ result' \in {"error", "crashed"} /\ UNCHANGED <<shadow, jnew>>
      BY <2>4 DEF Crash, IoFail, Done, Reset
    <3>2. QED BY <3>1, Failure DEF IInv
  <2>5. ASSUME NEW p \in Paths, NEW c \in FileState, Edit(p, c) PROVE Atomic!Next
    <3>1. UNCHANGED <<jnew, PhaseSeen, ViewSeen, result>> /\ shadow' = [shadow EXCEPT ![p] = c]
      BY <2>5 DEF Edit, local, PhaseSeen, ViewSeen
    <3>2. Atomic!Edit(p, c)
      BY <3>1 DEF Atomic!Edit
    <3>3. QED BY <3>2 DEF Atomic!Next
  <2>6. CASE UNCHANGED vars
    BY <2>6 DEF vars, local, Atomic!vars, PhaseSeen, ViewSeen
  <2>7. QED BY <2>1, <2>2, <2>3, <2>4, <2>5, <2>6 DEF Next
<1>3. IInv /\ OperationInv /\ [Next]_vars => OperationInv'
  BY NextOperationInv
<1>4. QED BY <1>1, <1>2, <1>3, InductiveInvariant, PTL
          DEF Spec, ImplementsAtomicProject, Atomic!Spec
=============================================================================
