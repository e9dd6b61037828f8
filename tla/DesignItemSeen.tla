----------------------------- MODULE DesignItemSeen -----------------------------
(***************************************************************************)
(* The design item with a memory of every content its canvas has ever      *)
(* reconciled with.  A save may replace a file although it holds something *)
(* else than the merge base, when the index it is checked against is       *)
(* older; this memory tells what such a save can destroy.                  *)
(***************************************************************************)
EXTENDS DesignItem

VARIABLE seen   \* the contents merge_base has had, per artifact

seenVars == <<vars, seen>>

SeenInit == Init /\ seen = [a \in Artifacts |-> {base[a]}]
SeenNext == Next /\ seen' = [a \in Artifacts |-> seen[a] \cup {base'[a]}]
SeenSpec == SeenInit /\ [][SeenNext]_seenVars

\* However many saves are queued, whatever they failed on and whatever was adopted
\* or discarded meanwhile: a file that a delayed save replaces holds something the
\* canvas has shown and saved or reloaded, so an edit of another program that the item
\* never took in is not replaced (the digests checked before a canvas patch is
\* committed, and the session that save_inner puts back when it ends).
SaveReplacesSeen ==
    [][WriteSave => \A a \in Artifacts : disk'[a] # disk[a] => disk[a] \in seen[a]]_seenVars

\* Why: an index is made of such contents, the one of the session, the one a save has
\* taken with it and the one that comes with a finished read.
IndexSeen(index) == \A a \in Artifacts : index[a] \in seen[a]
NewOrSeen(read) == \A a \in Artifacts : read.index[a] \in seen[a] \cup {read.doc[a]}
SeenInv ==
    /\ \A a \in Artifacts : base[a] \in seen[a]
    /\ session # NoIndex => IndexSeen(session)
    /\ Saving /\ Task.phase # "queued" => Task.index # NoIndex /\ IndexSeen(Task.index)
    /\ queue = <<>> \/ Task.phase = "queued" \/ Task.kind = "source" => session # NoIndex
    /\ Saving /\ Task.phase = "written" =>
         \A a \in Artifacts : Task.wrote[a] \in seen[a] \cup {Task.doc[a]}
    /\ reload # NoTask /\ reload.phase \in {"loaded", "merging"} /\ reload.read.result = "changed" =>
         NewOrSeen(reload.read)
    /\ discard # NoTask /\ discard.phase = "loaded" /\ discard.read.result = "changed" =>
         NewOrSeen(discard.read)
=============================================================================
