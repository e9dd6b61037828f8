--------------------------- MODULE ProjectTransaction ---------------------------
(***************************************************************************)
(* The project writer of fanta-format (crates/fanta-format/src/project/    *)
(* write.rs): how one save changes the files of a project, how a change of *)
(* several files is made atomic with the .fanta-transaction journal, and   *)
(* how the next open finishes a save that a crash interrupted.             *)
(*                                                                         *)
(* Every operation holds the project's in-process mutex from its first     *)
(* disk access to its last, so at most one operation is in progress: pc    *)
(* says how far it is, "idle" means that the mutex is free.  External      *)
(* editors take no lock and may change any file between any two steps.     *)
(*                                                                         *)
(* Paths are the managed project files in the order of the writer's sorted *)
(* maps.  A file's content stands for its bytes and for their digest.      *)
(* Symlinks and case-aliased directories, which the writer removes or      *)
(* renames before it plans, and unmanaged files are left out.              *)
(***************************************************************************)
EXTENDS Naturals, FiniteSets

CONSTANTS
    N,          \* the number of managed project files
    Contents,   \* the contents a file can have
    Missing,    \* the state of a file that does not exist
    Untracked,  \* no entry for the path in a map
    Kinds       \* the writer's entry points in use

ASSUME NAssumption == N \in Nat \ {0}
ASSUME ContentsAssumption == /\ Missing \notin Contents
                             /\ Untracked \notin Contents \cup {Missing}
ASSUME KindsAssumption == Kinds \subseteq {"unchecked", "checked", "artifacts"}

Paths == 1 .. N
FileState == Contents \cup {Missing}
Entry == FileState \cup {Untracked}

VARIABLES
    disk,     \* the managed files
    journal,  \* .fanta-transaction: "none", "live" (with plan.json), "planless"
    jold,     \* plan.json: the content each planned path must still have ...
    jnew,     \* ... and the one it gets (Missing: a removal, Untracked: not planned)
    staged,   \* the paths whose new content is still under staged/
    pc,       \* how far the operation that holds the project lock is
    i,        \* the path its current loop is at
    op,       \* "open", "save", or "commit" for a save whose journal is published
    kind,     \* which of the writer's entry points the save came through
    target,   \* the projection being saved (Missing: the path is not projected)
    expected, \* expected_disk: what the caller last reconciled with
    pold,     \* the changes planned so far (Untracked: the path is unchanged)
    known,    \* what the session has read or written, lost with the process
    result    \* how the last operation ended

VARIABLES
    shadow,   \* ghost: the tree after all commits and external edits, in order
    raced,    \* ghost: paths with an edit the writer cannot see or tell apart
    touched   \* ghost: planned paths edited from outside since the plan read them

local == <<pc, i, op, kind, target, expected, pold>>
journalVars == <<journal, jold, jnew, staged>>
ghosts == <<shadow, raced, touched>>
vars == <<disk, journalVars, local, known, result, ghosts>>

-----------------------------------------------------------------------------

Init ==
    /\ disk \in [Paths -> FileState]
    /\ journal = "none"
    /\ jold = [p \in Paths |-> Untracked]
    /\ jnew = [p \in Paths |-> Untracked]
    /\ staged = {}
    /\ pc = "idle" /\ i = 1 /\ op = "open" /\ kind = "unchecked"
    /\ target = [p \in Paths |-> Missing]
    /\ expected = [p \in Paths |-> Untracked]
    /\ pold = [p \in Paths |-> Untracked]
    /\ known = [p \in Paths |-> Untracked]
    /\ result = "ok"
    /\ shadow = disk /\ raced = {} /\ touched = {}

(***************************************************************************)
(* Control-flow helpers.  Goto starts a loop over the paths; Done drops    *)
(* the lock and returns to the caller, forgetting the operation's locals.  *)
(***************************************************************************)
Goto(phase) == pc' = phase /\ i' = 1

Reset ==
    /\ pc' = "idle" /\ i' = 1 /\ op' = "open" /\ kind' = "unchecked"
    /\ target' = [p \in Paths |-> Missing]
    /\ expected' = [p \in Paths |-> Untracked]
    /\ pold' = [p \in Paths |-> Untracked]

Done(r) == Reset /\ result' = r

\* What a finished save leaves in the session: the projection it wrote.
Accepted == [p \in Paths |-> IF kind = "artifacts" /\ target[p] = Missing
                             THEN known[p] ELSE target[p]]

-----------------------------------------------------------------------------
(***************************************************************************)
(* Entry points: opening or reading a project, and saving it.              *)
(***************************************************************************)
StartOpen ==
    /\ pc = "idle"
    /\ Goto("recover") /\ op' = "open" /\ result' = "ok"
    /\ UNCHANGED <<disk, journalVars, kind, target, expected, pold, known, ghosts>>

\* The call's arguments are first looked at after the recovery: see TakeArguments.
StartSave ==
    /\ pc = "idle"
    /\ Goto("recover") /\ op' = "save" /\ result' = "ok"
    /\ UNCHANGED <<disk, journalVars, kind, target, expected, pold, known, ghosts>>

-----------------------------------------------------------------------------
(***************************************************************************)
(* recover_project_transaction_locked, run first by every operation and    *)
(* last by the save that published the journal.                            *)
(***************************************************************************)
AfterRecovery ==
    \/ /\ op = "open"
       /\ Goto("read")
       /\ UNCHANGED <<op, kind, target, expected, pold, known, result>>
    \/ /\ op = "save"
       /\ Goto("arguments")
       /\ UNCHANGED <<op, kind, target, expected, pold, known, result>>
    \/ /\ op = "commit"
       /\ known' = Accepted
       /\ Done("ok")

\* Fault: the operation goes ahead although a journal is there.
FaultyRecoverNoJournal ==
    /\ pc = "recover"
    /\ AfterRecovery
    /\ UNCHANGED <<disk, journalVars, ghosts>>

RecoverNoJournal ==
    /\ pc = "recover" /\ journal = "none"
    /\ AfterRecovery
    /\ UNCHANGED <<disk, journalVars, ghosts>>

\* A directory without plan.json was being removed: finish removing it.
RecoverPlanless ==
    /\ pc = "recover" /\ journal = "planless"
    /\ journal' = "none" /\ staged' = {}
    /\ AfterRecovery
    /\ UNCHANGED <<disk, jold, jnew, ghosts>>

RecoverJournal ==
    /\ pc = "recover" /\ journal = "live"
    /\ Goto("writes")
    /\ UNCHANGED <<disk, journalVars, op, kind, target, expected, pold, known,
                   result, ghosts>>

IsWrite(p) == jnew[p] \in Contents
IsRemoval(p) == jnew[p] = Missing

ReplayUnchanged ==
    UNCHANGED <<journalVars, op, kind, target, expected, pold, known, result, ghosts>>

WriteSkip ==
    /\ pc = "writes" /\ i <= N
    /\ IsWrite(i) => disk[i] = jnew[i]
    /\ i' = i + 1
    /\ UNCHANGED <<disk, pc>> /\ ReplayUnchanged

\* Fault: the file's old hash is not compared.
FaultyWriteCheck ==
    /\ pc = "writes" /\ i <= N /\ IsWrite(i) /\ disk[i] # jnew[i] /\ i \in staged
    /\ pc' = "rename"
    /\ UNCHANGED <<disk, i>> /\ ReplayUnchanged

WriteCheck ==
    /\ pc = "writes" /\ i <= N /\ IsWrite(i)
    /\ disk[i] # jnew[i] /\ disk[i] = jold[i] /\ i \in staged
    /\ pc' = "rename"
    /\ UNCHANGED <<disk, i>> /\ ReplayUnchanged

\* Fault: a file that already has its new content is taken for a changed one.
FaultyWriteFail ==
    /\ pc = "writes" /\ i <= N /\ IsWrite(i)
    /\ disk[i] # jold[i] \/ i \notin staged
    /\ Done("wedged")
    /\ UNCHANGED <<disk, journalVars, known, ghosts>>

\* "changed during transaction recovery; manual reconciliation is required"
WriteFail ==
    /\ pc = "writes" /\ i <= N /\ IsWrite(i) /\ disk[i] # jnew[i]
    /\ disk[i] # jold[i] \/ i \notin staged
    /\ Done("wedged")
    /\ UNCHANGED <<disk, journalVars, known, ghosts>>

\* ghost: a change that replaces a raced edit is the one the tree follows.
Forgive(p, c) ==
    /\ shadow' = IF p \in raced THEN [shadow EXCEPT ![p] = c] ELSE shadow
    /\ raced' = raced \ {p}
    /\ UNCHANGED touched

\* Fault: the loop skips the file after a renamed one.
FaultyRename ==
    /\ pc = "rename"
    /\ disk' = [disk EXCEPT ![i] = jnew[i]]
    /\ staged' = staged \ {i}
    /\ pc' = "writes" /\ i' = i + 2
    /\ Forgive(i, jnew[i])
    /\ UNCHANGED <<journal, jold, jnew, op, kind, target, expected, pold, known, result>>

Rename ==
    /\ pc = "rename"
    /\ disk' = [disk EXCEPT ![i] = jnew[i]]
    /\ staged' = staged \ {i}
    /\ pc' = "writes" /\ i' = i + 1
    /\ Forgive(i, jnew[i])
    /\ UNCHANGED <<journal, jold, jnew, op, kind, target, expected, pold, known, result>>

WritesDone ==
    /\ pc = "writes" /\ i = N + 1
    /\ Goto("removals")
    /\ UNCHANGED disk /\ ReplayUnchanged

RemoveSkip ==
    /\ pc = "removals" /\ i <= N
    /\ IsRemoval(i) => disk[i] = Missing
    /\ i' = i + 1
    /\ UNCHANGED <<disk, pc>> /\ ReplayUnchanged

RemoveCheck ==
    /\ pc = "removals" /\ i <= N /\ IsRemoval(i)
    /\ disk[i] # Missing /\ disk[i] = jold[i]
    /\ pc' = "remove"
    /\ UNCHANGED <<disk, i>> /\ ReplayUnchanged

RemoveFail ==
    /\ pc = "removals" /\ i <= N /\ IsRemoval(i)
    /\ disk[i] # Missing /\ disk[i] # jold[i]
    /\ Done("wedged")
    /\ UNCHANGED <<disk, journalVars, known, ghosts>>

Remove ==
    /\ pc = "remove"
    /\ disk' = [disk EXCEPT ![i] = Missing]
    /\ pc' = "removals" /\ i' = i + 1
    /\ Forgive(i, Missing)
    /\ UNCHANGED <<journalVars, op, kind, target, expected, pold, known, result>>

\* Fault: a replayed journal is left in place.
FaultyRemovalsDone ==
    /\ pc = "removals" /\ i = N + 1
    /\ Done("ok")
    /\ UNCHANGED <<disk, journalVars, known, ghosts>>

RemovalsDone ==
    /\ pc = "removals" /\ i = N + 1
    /\ Goto("clear")
    /\ UNCHANGED disk /\ ReplayUnchanged

\* remove_dir_all deletes the journal's files one by one, in no fixed order.
ClearStaged(p) ==
    /\ pc = "clear" /\ p \in staged
    /\ staged' = staged \ {p}
    /\ UNCHANGED <<disk, journal, jold, jnew, local, known, result, ghosts>>

ClearPlan ==
    /\ pc = "clear" /\ journal = "live"
    /\ journal' = "planless"
    /\ jold' = [p \in Paths |-> Untracked]
    /\ jnew' = [p \in Paths |-> Untracked]
    /\ raced' = {} /\ touched' = {}
    /\ UNCHANGED <<disk, staged, local, known, result, shadow>>

ClearDone ==
    /\ pc = "clear" /\ journal = "planless" /\ staged = {}
    /\ journal' = "none"
    /\ AfterRecovery
    /\ UNCHANGED <<disk, jold, jnew, staged, ghosts>>

-----------------------------------------------------------------------------
\* A reader takes the files one by one under the lock.
ReadFile ==
    /\ pc = "read" /\ i <= N
    /\ known' = [known EXCEPT ![i] = disk[i]]
    /\ i' = i + 1
    /\ UNCHANGED <<disk, journalVars, pc, op, kind, target, expected, pold, result, ghosts>>

ReadDone ==
    /\ pc = "read" /\ i = N + 1
    /\ Done("ok")
    /\ UNCHANGED <<disk, journalVars, known, ghosts>>

-----------------------------------------------------------------------------
(***************************************************************************)
(* write_project_tree_cached_impl and write_project_artifacts_checked      *)
(* between the recovery and the first change of a file: they only read.    *)
(***************************************************************************)
PlanUnchanged ==
    UNCHANGED <<disk, journalVars, op, kind, target, expected, known, result>>

\* The entry point, the projection and the reconciled paths of this save.  The
\* incremental writer projects only files it has reconciled.
TakeArguments(k, t, tracked) ==
    /\ pc = "arguments"
    /\ tracked \subseteq {p \in Paths : known[p] # Untracked}
    /\ k = "unchecked" => tracked = {}
    /\ k = "artifacts" => \A p \in Paths : t[p] # Missing => p \in tracked
    /\ kind' = k /\ target' = t
    /\ expected' = [p \in Paths |-> IF p \in tracked THEN known[p] ELSE Untracked]
    /\ Goto(CASE k = "unchecked" -> "plan"
              [] k = "checked"   -> "validate"
              [] k = "artifacts" -> "scan")
    /\ UNCHANGED <<disk, journalVars, op, pold, known, result, ghosts>>

\* "changed while saving the project; retry after reconciling the external edit"
Refuse == Done("error") /\ UNCHANGED <<disk, journalVars, known, ghosts>>

\* Fault: expected_disk is ignored.
FaultyAsExpected(p) == p \in Paths

AsExpected(p) == expected[p] = Untracked \/ disk[p] = expected[p]

\* validate_expected_disk_content, before and after planning.
Validate ==
    /\ pc \in {"validate", "revalidate"} /\ i <= N /\ AsExpected(i)
    /\ i' = i + 1
    /\ UNCHANGED <<pc, pold, ghosts>> /\ PlanUnchanged

ValidateFail ==
    /\ pc \in {"validate", "revalidate"} /\ i <= N /\ ~AsExpected(i)
    /\ Refuse

ValidateDone ==
    /\ pc \in {"validate", "revalidate"} /\ i = N + 1
    /\ Goto(IF pc = "validate" THEN "plan" ELSE "decide")
    /\ UNCHANGED <<pold, ghosts>> /\ PlanUnchanged

\* plan_write: a projected file whose bytes already match is not rewritten.
PlanWrite ==
    /\ pc = "plan" /\ i <= N
    /\ pold' = [pold EXCEPT ![i] = IF target[i] = Missing \/ disk[i] = target[i]
                                   THEN @ ELSE disk[i]]
    /\ touched' = IF target[i] = Missing THEN touched ELSE touched \ {i}
    /\ i' = i + 1
    /\ UNCHANGED <<pc, shadow, raced>> /\ PlanUnchanged

PlanDone ==
    /\ pc = "plan" /\ i = N + 1
    /\ Goto(IF kind = "artifacts" THEN "revalidate" ELSE "scan")
    /\ UNCHANGED <<pold, ghosts>> /\ PlanUnchanged

\* A file on disk that this save neither projects nor has reconciled.
ScanObstacle(p) ==
    /\ disk[p] # Missing
    /\ CASE kind = "unchecked" -> FALSE
         [] kind = "checked"   -> target[p] = Missing /\ expected[p] = Untracked
         [] kind = "artifacts" -> expected[p] = Untracked

\* stale_managed_files: a managed file that is not projected is removed.
ScanStale ==
    /\ pc = "scan" /\ i <= N /\ ~ScanObstacle(i)
    /\ LET stale == kind # "artifacts" /\ target[i] = Missing
       IN /\ pold' = IF stale /\ disk[i] # Missing
                     THEN [pold EXCEPT ![i] = disk[i]] ELSE pold
          /\ touched' = IF stale THEN touched \ {i} ELSE touched
    /\ i' = i + 1
    /\ UNCHANGED <<pc, shadow, raced>> /\ PlanUnchanged

ScanFail ==
    /\ pc = "scan" /\ i <= N /\ ScanObstacle(i)
    /\ Refuse

ScanDone ==
    /\ pc = "scan" /\ i = N + 1
    /\ Goto(CASE kind = "unchecked" -> "decide"
              [] kind = "checked"   -> "revalidate"
              [] kind = "artifacts" -> "plan")
    /\ UNCHANGED <<pold, ghosts>> /\ PlanUnchanged

Changes == {p \in Paths : pold[p] # Untracked}

DecideNothing ==
    /\ pc = "decide" /\ Changes = {}
    /\ known' = Accepted
    /\ Done("ok")
    /\ UNCHANGED <<disk, journalVars, ghosts>>

-----------------------------------------------------------------------------
(***************************************************************************)
(* Changing the files.  shadow changes where the save takes effect: at the *)
(* write of a single file, and for several files at the rename that        *)
(* publishes the journal.                                                  *)
(***************************************************************************)

\* apply_single_change: the check ...
SingleCheck ==
    /\ pc = "decide"
    /\ \E p \in Changes :
         /\ Changes = {p} /\ disk[p] = pold[p]
         /\ pc' = "single" /\ i' = p
    /\ UNCHANGED <<pold, ghosts>> /\ PlanUnchanged

SingleFail ==
    /\ pc = "decide"
    /\ \E p \in Changes : Changes = {p} /\ disk[p] # pold[p]
    /\ Refuse

\* ... and the rename or removal.  What follows it may still fail (syncing the folders,
\* pruning empty ones): then the change has landed, and the caller does not know.
SingleWrite ==
    /\ pc = "single"
    /\ disk' = [disk EXCEPT ![i] = target[i]]
    /\ shadow' = [shadow EXCEPT ![i] = target[i]]
    /\ \/ known' = Accepted /\ Done("ok")
       \/ known' = known /\ Done("error")
       \/ known' = [p \in Paths |-> Untracked] /\ Done("crashed")
    /\ UNCHANGED <<journalVars, raced, touched>>

\* Where the file still has its planned content, the save takes effect.
Landing == {p \in Changes : disk[p] = pold[p]}

\* apply_project_transaction: stage, then rename onto .fanta-transaction.  From
\* here on the plan is the journal's, and expected_disk is not looked at again.
Publish ==
    /\ pc = "decide" /\ \E p, q \in Changes : p # q
    /\ journal' = "live"
    /\ jold' = pold
    /\ jnew' = [p \in Paths |-> IF p \in Changes THEN target[p] ELSE Untracked]
    /\ staged' = {p \in Changes : target[p] # Missing}
    /\ shadow' = [p \in Paths |-> IF p \in Landing THEN target[p] ELSE shadow[p]]
    /\ op' = "commit" /\ Goto("recover")
    /\ pold' = [p \in Paths |-> Untracked]
    /\ expected' = [p \in Paths |-> Untracked]
    /\ UNCHANGED <<disk, kind, target, known, result, raced, touched>>

-----------------------------------------------------------------------------
(***************************************************************************)
(* The environment: the process dies, a file-system call fails, or another *)
(* program writes a file.                                                  *)
(***************************************************************************)
Crash ==
    /\ pc # "idle"
    /\ Reset
    /\ known' = [p \in Paths |-> Untracked]
    /\ result' = "crashed"
    /\ UNCHANGED <<disk, journalVars, ghosts>>

\* Any file-system call may fail: the operation returns the error where it stands.
IoFail ==
    /\ pc # "idle"
    /\ Done("error")
    /\ UNCHANGED <<disk, journalVars, known, ghosts>>

\* An edit the writer cannot tell from its own work: it lands between a check
\* and the change that follows, or restores the bytes a live journal replaces.
Race(p, c) ==
    \/ pc \in {"rename", "remove"} /\ i = p
    \/ journal = "live" /\ jnew[p] # Untracked /\ c = jold[p]

Edit(p, c) ==
    /\ disk[p] # c
    /\ disk' = [disk EXCEPT ![p] = c]
    /\ shadow' = [shadow EXCEPT ![p] = c]
    /\ raced' = IF Race(p, c) THEN raced \cup {p} ELSE raced \ {p}
    /\ touched' = IF pold[p] # Untracked \/ jnew[p] # Untracked
                  THEN touched \cup {p} ELSE touched
    /\ UNCHANGED <<journalVars, local, known, result>>

-----------------------------------------------------------------------------
Recovery ==
    \/ RecoverNoJournal \/ RecoverPlanless \/ RecoverJournal
    \/ WriteSkip \/ WriteCheck \/ WriteFail \/ Rename \/ WritesDone
    \/ RemoveSkip \/ RemoveCheck \/ RemoveFail \/ Remove \/ RemovalsDone
    \/ \E p \in Paths : ClearStaged(p)
    \/ ClearPlan \/ ClearDone

Planning ==
    \/ \E k \in Kinds, t \in [Paths -> FileState], tracked \in SUBSET Paths :
         TakeArguments(k, t, tracked)
    \/ Validate \/ ValidateFail \/ ValidateDone
    \/ PlanWrite \/ PlanDone \/ ScanStale \/ ScanFail \/ ScanDone

Committing == DecideNothing \/ SingleCheck \/ SingleFail \/ SingleWrite \/ Publish

\* The steps of the operation that holds the lock.
Step == Recovery \/ ReadFile \/ ReadDone \/ Planning \/ Committing

Next ==
    \/ StartOpen
    \/ StartSave
    \/ Step
    \/ Crash
    \/ IoFail
    \/ \E p \in Paths, c \in FileState : Edit(p, c)

Spec == Init /\ [][Next]_vars

-----------------------------------------------------------------------------
(***************************************************************************)
(* Properties                                                              *)
(***************************************************************************)

\* Every variable has its type.
TypeOK ==
    /\ disk \in [Paths -> FileState] /\ shadow \in [Paths -> FileState]
    /\ journal \in {"none", "live", "planless"}
    /\ jold \in [Paths -> Entry] /\ jnew \in [Paths -> Entry]
    /\ staged \subseteq Paths
    /\ pc \in {"idle", "recover", "writes", "rename", "removals", "remove", "clear",
              "read", "arguments", "validate", "plan", "scan", "revalidate", "decide", "single"}
    /\ i \in 1 .. N + 1
    /\ op \in {"open", "save", "commit"} /\ kind \in {"unchecked", "checked", "artifacts"}
    /\ target \in [Paths -> FileState]
    /\ expected \in [Paths -> Entry] /\ pold \in [Paths -> Entry]
    /\ known \in [Paths -> Entry]
    /\ result \in {"ok", "error", "wedged", "crashed"}
    /\ raced \subseteq Paths /\ touched \subseteq Paths

\* The published journal still holds the change of p.
Pending(p) ==
    /\ journal = "live"
    /\ disk[p] = jold[p] /\ shadow[p] = jnew[p]
    /\ IsWrite(p) => p \in staged

\* Saves are atomic across crashes and never eat an external edit: at every
\* moment each file holds what the last commit or external edit gave it, or the
\* journal on disk still holds the committed change (apply_project_transaction
\* and recover_project_transaction_locked).
EditsSurvive == \A p \in Paths : disk[p] = shadow[p] \/ Pending(p)

\* The phases in which an operation only reads the tree, or changes one file.
Reading == {"read", "arguments", "validate", "plan", "scan", "revalidate", "decide", "single"}

\* Whoever reads the tree under the project lock, to open the project or to plan
\* the next save, sees whole saves only (with_project_read_lock recovers first).
OpensSeeWholeSaves == pc \in Reading => journal = "none" /\ disk = shadow

\* A crash alone never makes a project unopenable: recovery asks for manual
\* reconciliation only when some file of the journal was edited from outside
\* after the interrupted save had read it.
WedgedOnlyByEdit ==
    result = "wedged" => \E p \in Paths : jnew[p] # Untracked /\ p \in touched

\* A delayed save never replaces an edit made since the session last reconciled
\* the file (expected_disk), unless the edit came after the save had read it.
CheckedSaveKeepsEdits ==
    [][\A p \in Paths :
          /\ pc \in {"decide", "single"} /\ pc' # pc /\ shadow'[p] # shadow[p]
          /\ expected[p] # Untracked
          => shadow[p] = expected[p] \/ p \in touched]_vars

-----------------------------------------------------------------------------
(***************************************************************************)
(* The writer implements an atomic project.  Its tree is shadow; what is   *)
(* left of the journal is the plan; an open has read the files before i.   *)
(***************************************************************************)
PhaseSeen == IF pc = "idle" THEN "idle" ELSE IF op = "commit" THEN "saved" ELSE op
ViewSeen == [p \in Paths |-> IF pc = "read" /\ p < i THEN known[p] ELSE Untracked]

Atomic == INSTANCE AtomicProject
          WITH tree <- shadow, redo <- jnew, phase <- PhaseSeen, view <- ViewSeen

\* Planning and staging, the journal, its replay after a crash and the removal of
\* its directory are invisible: every step of the writer is one step of an atomic
\* project or none (write_project_tree_cached_impl, with_project_read_lock).
ImplementsAtomicProject == Atomic!Spec

-----------------------------------------------------------------------------
(***************************************************************************)
(* The inductive invariant behind the safety properties.                   *)
(***************************************************************************)

Settled(p) == disk[p] = shadow[p]

\* What is known at each point of a replay: the part of the plan before the loop
\* has landed, and the file about to be replaced had its old content when checked.
ReplayProgress ==
    /\ pc \in {"writes", "rename"} =>
         /\ journal = "live"
         /\ \A p \in Paths : p < i /\ IsWrite(p) => Settled(p)
    /\ pc = "rename" => i \in Paths /\ IsWrite(i) /\ (disk[i] = jold[i] \/ i \in raced)
    /\ pc \in {"removals", "remove"} =>
         /\ journal = "live"
         /\ \A p \in Paths : IsWrite(p) \/ (p < i /\ IsRemoval(p)) => Settled(p)
    /\ pc = "remove" => i \in Paths /\ IsRemoval(i) /\ (disk[i] = jold[i] \/ i \in raced)
    /\ pc = "clear" => journal # "none" /\ \A p \in Paths : Settled(p)

\* The journal holds real changes, and a file that still has the old content
\* nobody put back is one whose change is still to come.
JournalInv ==
    /\ journal # "live" => raced = {} /\ \A p \in Paths : jnew[p] = Untracked
    /\ pc \in Reading => journal = "none"
    /\ \A p \in Paths : jnew[p] # Untracked =>
         /\ jold[p] # jnew[p]
         /\ disk[p] = jold[p] /\ p \notin raced => Pending(p)

\* The plan of the operation in progress holds real changes, each path is planned
\* once, and nothing is planned while the lock is free or before planning starts.
PlanInv ==
    /\ pc \notin {"plan", "scan", "revalidate", "decide", "single"}
       => \A p \in Paths : pold[p] = Untracked
    /\ pc = "plan" => \A p \in Paths : i <= p \/ target[p] = Missing => pold[p] = Untracked
    /\ pc = "scan" => \A p \in Paths :
         kind = "artifacts" \/ (i <= p /\ target[p] = Missing) => pold[p] = Untracked
    /\ \A p \in Paths : pold[p] # Untracked => pold[p] # target[p]
    /\ pc = "single" => i \in Paths /\ pold[i] # Untracked

\* A file nobody touched is as the plan, or as the journal and its replay, says.
TouchInv ==
    /\ pc \in Reading => \A p \in Paths :
         pold[p] # Untracked /\ p \notin touched => disk[p] = pold[p]
    /\ \A p \in Paths : jnew[p] # Untracked /\ p \notin touched =>
         disk[p] = jnew[p] \/ (disk[p] = jold[p] /\ (IsWrite(p) => p \in staged))
    /\ raced \subseteq touched
    /\ result # "ok" => pc = "idle"

\* expected_disk held for the planned files the second validation has passed.
ExpectedInv ==
    /\ kind = "unchecked" => \A p \in Paths : expected[p] = Untracked
    /\ pc \in {"revalidate", "decide", "single"} => \A p \in Paths :
         (pc = "revalidate" => p < i) /\ Untracked \notin {expected[p], pold[p]} =>
             pold[p] = expected[p] \/ p \in touched

IInv ==
    /\ TypeOK /\ EditsSurvive /\ WedgedOnlyByEdit
    /\ ReplayProgress /\ JournalInv /\ PlanInv /\ TouchInv /\ ExpectedInv

-----------------------------------------------------------------------------
\* An interrupted save is completed: a published journal disappears if the
\* project is opened again, failures stop, and nobody edits the journal's files.
JournalCleared ==
    (journal = "live" /\ touched = {}) ~> (journal = "none" \/ touched # {})

\* The scheduler runs the operation that holds the lock, somebody opens the
\* project again after a crash, and crashes and I/O errors stop.
FairSpec ==
    /\ Spec
    /\ WF_vars(Step)
    /\ WF_vars(StartOpen)
    /\ <>[][~Crash /\ ~IoFail]_vars
=============================================================================
