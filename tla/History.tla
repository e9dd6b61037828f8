-------------------------------- MODULE History --------------------------------
(***************************************************************************)
(* The undo/redo history of a document (crates/fanta-doc/src/history.rs)   *)
(* as operators on a document value d, a record with                       *)
(*   scene  : the nodes' values, Absent for a node that does not exist     *)
(*   undo, redo : sequences of transactions, the next one last             *)
(*   open   : the transaction being assembled, or Closed                   *)
(*   edited : edit_generation differs from the one the layout state saw    *)
(*   out    : the JournalEvents emitted and not yet drained                *)
(* A transaction is its sequence of operations; its label is left out.  An *)
(* operation records the value it found and the value it sets: creating is *)
(* old = Absent, deleting is new = Absent.  Operation::apply and revert    *)
(* fail on a node that is missing or in the way; where the history replays *)
(* its own operations that return is left out, because each of them finds  *)
(* its node exactly as it left it (DesignSession!LinearTimeline).          *)
(***************************************************************************)
EXTENDS Naturals, Sequences, SequencesExt

CONSTANTS
    Nodes,     \* node ids
    Vals,      \* the values of an existing node
    Absent,    \* the node does not exist
    Closed,    \* no transaction is open
    MaxDepth   \* max_depth: the soft cap on undo depth

Scenes == [Nodes -> Vals \cup {Absent}]
Op == [node : Nodes, old : Vals \cup {Absent}, new : Vals \cup {Absent}]

ASSUME HistoryAssumption ==
    Absent \notin Vals /\ MaxDepth \in Nat \ {0} /\ Closed \notin Seq(Op)

\* The operations an edit of scene s can consist of.
OpsAt(s) == {o \in Op : o.old = s[o.node] /\ o.new # o.old}

\* Operations applied in order, and reverted in reverse order: a node ends with the
\* value of the last operation on it, and goes back to what the first one found.
Touching(ops, n) == {k \in DOMAIN ops : ops[k].node = n}
Applied(s, ops) ==
    [n \in Nodes |-> IF Touching(ops, n) = {} THEN s[n] ELSE ops[Max(Touching(ops, n))].new]
Reverted(s, ops) ==
    [n \in Nodes |-> IF Touching(ops, n) = {} THEN s[n] ELSE ops[Min(Touching(ops, n))].old]

\* Operation::apply succeeds for each of them: it finds the value it records.
Runs(s, ops) == \A k \in DOMAIN ops : Applied(s, SubSeq(ops, 1, k - 1))[ops[k].node] = ops[k].old

IsOpen(d) == d.open # Closed
OpenOps(d) == IF IsOpen(d) THEN d.open ELSE <<>>
Emit(kind, tx) == [kind |-> kind, ops |-> tx]

\* Fault: the stack is never trimmed.
FaultyPushUndo(stack, tx) == Append(stack, tx)

\* The oldest transactions drop off the bottom of the stack.
PushUndo(stack, tx) ==
    LET pushed == Append(stack, tx)
    IN SubSeq(pushed, 1 + Len(pushed) - (IF Len(pushed) > MaxDepth THEN MaxDepth
                                         ELSE Len(pushed)), Len(pushed))

\* Fault: a new step leaves the undone ones to redo.
FaultyRecorded(d, tx) ==
    [d EXCEPT !.undo = PushUndo(@, tx), !.out = Append(@, Emit("commit", tx))]

Recorded(d, tx) ==
    [d EXCEPT !.undo = PushUndo(@, tx), !.redo = <<>>, !.out = Append(@, Emit("commit", tx))]

\* An empty transaction is silently discarded.
Commit(d) ==
    LET closed == [d EXCEPT !.open = Closed]
    IN IF OpenOps(d) = <<>> THEN closed ELSE Recorded(closed, d.open)

Begin(d) == [Commit(d) EXCEPT !.open = <<>>]

RollbackOpenTo(d, len) ==
    LET ops == OpenOps(d)
    IN IF Len(ops) <= len THEN d
       ELSE [d EXCEPT !.scene = Reverted(@, SubSeq(ops, len + 1, Len(ops))),
                      !.open = SubSeq(ops, 1, len), !.edited = TRUE]

AbortWith(d) == [RollbackOpenTo(d, 0) EXCEPT !.open = Closed]

\* Only the second branch clears the redo stack.
Apply(d, o) ==
    LET changed == [d EXCEPT !.scene = Applied(@, <<o>>), !.edited = TRUE]
    IN IF IsOpen(d) THEN [changed EXCEPT !.open = Append(@, o)] ELSE Recorded(changed, <<o>>)

\* The same for the operations of one call, in an open transaction.
ApplyAll(d, ops) ==
    IF ops = <<>> THEN d
    ELSE [d EXCEPT !.scene = Applied(@, ops), !.edited = TRUE, !.open = @ \o ops]

ApplyTransaction(d, tx) ==
    LET c == Commit(d)
    IN Recorded([c EXCEPT !.scene = Applied(@, tx), !.edited = TRUE], tx)

\* apply_derived_operations: computed geometry joins the transaction it follows.
MayDerive(d) == IF IsOpen(d) THEN d.open # <<>> ELSE d.undo # <<>> /\ d.redo = <<>>

ApplyDerived(d, ops) ==
    LET changed == [d EXCEPT !.scene = Applied(@, ops), !.edited = TRUE]
        last == Len(d.undo)
        amended == d.undo[last] \o ops
    IN IF IsOpen(d) THEN [changed EXCEPT !.open = @ \o ops]
       ELSE [changed EXCEPT !.undo[last] = amended, !.out = Append(@, Emit("amend", amended))]

\* An open transaction is committed, and is then the one that is undone.
Undo(d) ==
    LET c == Commit(d)
        tx == Last(c.undo)
    IN IF c.undo = <<>> THEN c
       ELSE [c EXCEPT !.scene = Reverted(@, tx), !.edited = TRUE, !.undo = Front(@),
                      !.redo = Append(@, tx), !.out = Append(@, Emit("undo", tx))]

\* redo leaves an open transaction alone: its callers have to close it.
Redo(d) ==
    LET tx == Last(d.redo)
    IN IF d.redo = <<>> THEN d
       ELSE [d EXCEPT !.scene = Applied(@, tx), !.edited = TRUE, !.redo = Front(@),
                      !.undo = PushUndo(@, tx), !.out = Append(@, Emit("redo", tx))]
=============================================================================
