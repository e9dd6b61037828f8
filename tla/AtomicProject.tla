----------------------------- MODULE AtomicProject -----------------------------
(***************************************************************************)
(* What the project writer promises its callers (with_project_read_lock,   *)
(* write_project_tree, write_project_artifacts_checked): the managed files *)
(* are one tree.  A save changes it in one step, whatever crashes in       *)
(* between, and whoever opens the project reads the tree and nothing else. *)
(* One thing is left of the journal: until the change of several files has *)
(* settled, it may win a race with another program's edit of the same      *)
(* files, and of no others.                                                *)
(***************************************************************************)
EXTENDS Naturals

CONSTANTS
    Paths,      \* the managed files
    FileState,  \* their contents, and the state of a file that does not exist
    Untracked   \* no entry

VARIABLES
    tree,    \* the project
    redo,    \* the change of several files that has not settled yet
    phase,   \* "idle", "open", "save" (nothing changed yet) or "saved"
    view,    \* what the open in progress has read
    result   \* how the last operation ended

vars == <<tree, redo, phase, view, result>>

None == [p \in Paths |-> Untracked]

Init ==
    /\ tree \in [Paths -> FileState] /\ redo = None
    /\ phase = "idle" /\ view = None /\ result = "ok"

Start(operation) ==
    /\ phase = "idle" /\ phase' = operation /\ result' = "ok"
    /\ UNCHANGED <<tree, redo, view>>

\* An open reads the tree between two saves.
Read(p) ==
    /\ phase = "open" /\ redo = None
    /\ view' = [view EXCEPT ![p] = tree[p]]
    /\ UNCHANGED <<tree, redo, phase, result>>

\* An operation returns "ok": an open that has read everything, a save that had
\* nothing to do, or one whose change has settled.
Return ==
    /\ phase # "idle" /\ redo = None
    /\ phase = "open" => \A p \in Paths : view[p] # Untracked
    /\ phase' = "idle" /\ view' = None /\ result' = "ok"
    /\ UNCHANGED <<tree, redo>>

\* A save of one file, which may take effect and still end with a failure.
SaveFile(p, c, how) ==
    /\ phase = "save" /\ redo = None
    /\ tree' = [tree EXCEPT ![p] = c]
    /\ phase' = "idle" /\ result' = how
    /\ UNCHANGED <<redo, view>>

\* A save of several files, except those somebody edits at the same time.
SaveFiles(new, edited) ==
    /\ phase = "save" /\ redo = None
    /\ tree' = [p \in Paths |-> IF new[p] # Untracked /\ p \notin edited THEN new[p] ELSE tree[p]]
    /\ redo' = new
    /\ phase' = "saved"
    /\ UNCHANGED <<view, result>>

\* The unsettled change wins a race for one of its files.
Redo(p) ==
    /\ phase # "idle" /\ redo[p] # Untracked
    /\ tree' = [tree EXCEPT ![p] = redo[p]]
    /\ UNCHANGED <<redo, phase, view, result>>

Settle ==
    /\ phase # "idle" /\ redo' = None
    /\ UNCHANGED <<tree, phase, view, result>>

\* The operation fails, or its process dies: the tree is as it is.  Only an
\* unsettled change can ask for a manual reconciliation.
Fail(how) ==
    /\ phase # "idle"
    /\ how = "wedged" => redo # None
    /\ phase' = "idle" /\ view' = None /\ result' = how
    /\ UNCHANGED <<tree, redo>>

\* Another program writes a file.
Edit(p, c) ==
    /\ tree' = [tree EXCEPT ![p] = c]
    /\ UNCHANGED <<redo, phase, view, result>>

Next ==
    \/ Start("open") \/ Start("save") \/ Return \/ Settle
    \/ \E p \in Paths : Read(p) \/ Redo(p)
    \/ \E p \in Paths, c \in FileState :
         Edit(p, c) \/ \E how \in {"ok", "error", "crashed"} : SaveFile(p, c, how)
    \/ \E new \in [Paths -> FileState \cup {Untracked}], edited \in SUBSET Paths :
         SaveFiles(new, edited)
    \/ \E how \in {"error", "wedged", "crashed"} : Fail(how)

Spec == Init /\ [][Next]_vars
=============================================================================
