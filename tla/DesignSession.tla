----------------------------- MODULE DesignSession -----------------------------
(***************************************************************************)
(* One design open for editing without the app: the DesignSession of       *)
(* crates/fanta-api over the HeadlessDocument of crates/fanta-headless     *)
(* over the History of crates/fanta-doc, with the three things that follow *)
(* its edits from outside: the headless journal, a recorded session        *)
(* (fanta-doc journal.rs and replay.rs) and an event subscriber.           *)
(*                                                                         *)
(* Calls come one at a time and each is one action, with the layout solve  *)
(* and the draining of journal events that end it.  The layout solver is   *)
(* any choice of new values for existing nodes, made only when the scene   *)
(* differs from the one it last solved.  Node values stand for everything  *)
(* else an operation may change (variables, components, pages).            *)
(***************************************************************************)
EXTENDS History

CONSTANTS
    Subscribed,    \* whether somebody follows the session's events
    Recording,     \* whether the session is recorded for replay
    ProjectEdits,  \* whether the headless project's own steps are taken too
    MaxBatch,      \* operations in one call
    MaxOps         \* operations in the pending step

ASSUME SessionAssumption == MaxBatch \in Nat

VARIABLES
    doc,           \* the document and its history
    layoutScene,   \* LayoutState: the scene the layout was last solved for
    transactions,  \* the headless journal: the newest transactions ...
    base,          \* ... and the scene that the older ones make of the opened design
    session,       \* the recorded session: its last step, and what replaying the
                   \* steps before it gives
    pending,       \* the subscriber's coalesced events
    seen           \* ghost: the scene at the subscriber's last poll

logs == <<transactions, base, session>>
vars == <<doc, layoutScene, logs, pending, seen>>

NoEvents == [n \in Nodes |-> "none"]

\* A session can be opened on any design; its layout counts as solved.
Fresh(s) == [scene |-> s, undo |-> <<>>, redo |-> <<>>, open |-> Closed,
             edited |-> FALSE, out |-> <<>>]
NoStep == Emit("none", <<>>)

Init ==
    /\ base \in Scenes /\ seen = base
    /\ doc = Fresh(base) /\ layoutScene = base
    /\ transactions = <<>>
    /\ session = [before |-> Fresh(base), last |-> NoStep]
    /\ pending = NoEvents

-----------------------------------------------------------------------------
\* The operations of one call, each built on the scene the ones before it left.
Batches(s) == {ops \in SeqOf({o \in Op : o.new # o.old}, MaxBatch) : Runs(s, ops)}

\* What a layout solve may do: nothing unless the scene changed, and then give
\* nodes that exist other values.
Solutions(s) ==
    IF s = layoutScene THEN {<<>>}
    ELSE {<<>>} \cup {<<o>> : o \in {o \in OpsAt(s) : Absent \notin {o.old, o.new}}}

\* catch_up: the layout state now describes this document.
CatchUp(d) == [d EXCEPT !.edited = FALSE]

\* layout::settle.  Geometry solved right after an edit joins its transaction;
\* where there is none to join, the solve is an error and nothing catches up.
Settled(d, ops) ==
    IF ops = <<>> THEN CatchUp(d)
    ELSE IF ~d.edited THEN [d EXCEPT !.scene = Applied(@, ops)]
    ELSE IF MayDerive(d) THEN CatchUp(ApplyDerived(d, ops))
    ELSE d

\* Fault: amendments are not taken over into the journal.
FaultyDrained(log, e) ==
    CASE e.kind \in {"commit", "redo"} -> Append(log, e.ops)
      [] e.kind = "amend" -> log
      [] e.kind = "undo" -> IF log = <<>> THEN log ELSE Front(log)

\* drain_journal: the headless journal holds the transactions now in effect.
Drained(log, e) ==
    CASE e.kind \in {"commit", "redo"} -> Append(log, e.ops)
      [] e.kind = "amend" -> IF log = <<>> THEN <<e.ops>> ELSE [log EXCEPT ![Len(log)] = e.ops]
      [] e.kind = "undo" -> IF log = <<>> THEN log ELSE Front(log)

Drain(log, events) ==
    LET after[k \in 0 .. Len(events)] ==
            IF k = 0 THEN log ELSE Drained(after[k - 1], events[k])
    IN after[Len(events)]

\* Undo never reaches below its MaxDepth newest transactions.
Old(log) == SubSeq(log, 1, Len(log) - MaxDepth)
Recent(log) == SubSeq(log, 1 + Len(Old(log)), Len(log))

\* replay_ops, for one step of a recorded session.
Replay(d, step) ==
    CASE step.kind = "none" -> d
      [] step.kind = "undo" -> Undo(d)
      [] step.kind = "redo" -> Redo(d)
      [] step.kind = "commit" -> ApplyTransaction(d, step.ops)

\* Fault: an amendment is recorded as a step of its own.
FaultyRecordStep(s, e) ==
    [before |-> [Replay(s.before, s.last) EXCEPT !.out = <<>>, !.edited = FALSE],
     last |-> IF e.kind = "amend" THEN Emit("commit", e.ops) ELSE e]

\* JournalEvent::record: an amendment replaces the commit it extends; one that
\* extends nothing is refused.
RecordStep(s, e) ==
    IF e.kind # "amend"
    THEN [before |-> [Replay(s.before, s.last) EXCEPT !.out = <<>>, !.edited = FALSE], last |-> e]
    ELSE IF s.last.kind = "commit" /\ IsPrefix(s.last.ops, e.ops)
         THEN [s EXCEPT !.last.ops = e.ops]
         ELSE s

Record(s, events) ==
    LET after[k \in 0 .. Len(events)] ==
            IF k = 0 THEN s ELSE RecordStep(after[k - 1], events[k])
    IN after[Len(events)]

\* The end of a call: the document is d, and the emitted events are drained.
Finish(d) ==
    /\ doc' = [d EXCEPT !.out = <<>>]
    /\ layoutScene' = IF d.edited THEN layoutScene ELSE d.scene
    /\ LET log == Drain(transactions, d.out)
       IN /\ transactions' = Recent(log)
          /\ base' = Applied(base, FlattenSeq(Old(log)))
    /\ session' = IF Recording THEN Record(session, d.out) ELSE session

Room == Len(OpenOps(doc)) < MaxOps

-----------------------------------------------------------------------------
(***************************************************************************)
(* Events (fanta-api events.rs).                                           *)
(***************************************************************************)
Forward(o) == [node |-> o.node, kind |-> IF o.old = Absent THEN "created"
                                         ELSE IF o.new = Absent THEN "destroyed"
                                         ELSE "updated"]
Backward(o) == Forward([o EXCEPT !.old = o.new, !.new = o.old])

\* node_events, for operations that were applied, and for ones undone in reverse.
EventsOf(ops) == [k \in DOMAIN ops |-> Forward(ops[k])]
UndoEventsOf(ops) == [k \in DOMAIN ops |-> Backward(Reverse(ops)[k])]

\* Fault: a node created and destroyed between two polls is reported.
FaultyCoalesce(old, new) ==
    CASE old = "none" -> new
      [] old = "created" -> IF new = "destroyed" THEN "destroyed" ELSE "created"
      [] old = "destroyed" -> IF new = "created" THEN "updated" ELSE "destroyed"
      [] old = "updated" -> IF new = "destroyed" THEN "destroyed" ELSE "updated"

\* Subscription::push: one event per node and poll.
Coalesce(old, new) ==
    CASE old = "none" -> new
      [] old = "created" -> IF new = "destroyed" THEN "none" ELSE "created"
      [] old = "destroyed" -> IF new = "created" THEN "updated" ELSE "destroyed"
      [] old = "updated" -> IF new = "destroyed" THEN "destroyed" ELSE "updated"

Push(p, e) == [p EXCEPT ![e.node] = Coalesce(@, e.kind)]
PushAll(p, events) ==
    LET after[k \in 0 .. Len(events)] ==
            IF k = 0 THEN p ELSE Push(after[k - 1], events[k])
    IN after[Len(events)]
Report(events) == pending' = IF Subscribed THEN PushAll(pending, events) ELSE pending

-----------------------------------------------------------------------------
(***************************************************************************)
(* The calls of a DesignSession.                                           *)
(***************************************************************************)
OpenPendingStep(d) == IF IsOpen(d) THEN d ELSE Begin(d)

\* edit and edit_with_design_op
Edit(ops, geometry) ==
    /\ ops # <<>>
    /\ LET start == OpenPendingStep(doc)
           d == Settled(ApplyAll(start, ops), geometry)
       IN /\ Finish(d)
          /\ Report(EventsOf(SubSeq(d.open, Len(start.open) + 1, Len(d.open))))
    /\ UNCHANGED seen

\* The operation after ops fails: only this call's operations are rolled back,
\* and neither the layout nor the journal is looked at.
EditFails(ops) ==
    /\ LET start == OpenPendingStep(doc)
       IN doc' = RollbackOpenTo(ApplyAll(start, ops), Len(start.open))
    /\ UNCHANGED <<layoutScene, logs, pending, seen>>

\* fill_template fails after one of its edits went through: the edit's events
\* stay recorded, its operations are rolled back.
FillTemplateFails(o, geometry) ==
    /\ Absent \notin {o.old, o.new}
    /\ LET start == OpenPendingStep(doc)
           d == Settled(Apply(start, o), geometry)
       IN /\ Finish(CatchUp(RollbackOpenTo(d, Len(start.open))))
          /\ Report(EventsOf(<<o>> \o geometry))
    /\ UNCHANGED seen

\* add_undo_step: also without a pending step the layout settles and the journal is drained
AddUndoStep(geometry) ==
    /\ Finish(Settled(Commit(doc), geometry))
    /\ UNCHANGED <<pending, seen>>

UndoCall ==
    /\ LET undone == IF OpenOps(doc) # <<>> THEN doc.open
                     ELSE IF doc.undo # <<>> THEN Last(doc.undo) ELSE <<>>
       IN Report(UndoEventsOf(undone))
    /\ Finish(CatchUp(Undo(doc)))
    /\ UNCHANGED seen

\* Pending edits branched the history: there is nothing to redo after them.
RedoCall ==
    /\ OpenOps(doc) = <<>>
    /\ LET d == IF IsOpen(doc) THEN AbortWith(doc) ELSE doc
       IN /\ Report(EventsOf(IF d.redo = <<>> THEN <<>> ELSE Last(d.redo)))
          /\ Finish(CatchUp(Redo(d)))
    /\ UNCHANGED seen

PollEvents ==
    /\ Subscribed
    /\ pending' = NoEvents
    /\ seen' = doc.scene
    /\ UNCHANGED <<doc, layoutScene, logs>>

-----------------------------------------------------------------------------
(***************************************************************************)
(* The HeadlessDocument's own steps, which a project's owner may take      *)
(* between the session's calls.  They report no events.                    *)
(***************************************************************************)

\* transaction, and apply_design_ops when it commits
BatchCommits(ops, geometry) ==
    /\ ProjectEdits /\ ops # <<>>
    /\ Finish(Settled(Commit(ApplyAll(Begin(doc), ops)), geometry))
    /\ UNCHANGED <<pending, seen>>

\* apply_design_ops when an operation fails or the batch is only checked
BatchRollsBack(ops, geometry) ==
    /\ ProjectEdits
    /\ Finish(Settled(AbortWith(ApplyAll(Begin(doc), ops)), geometry))
    /\ UNCHANGED <<pending, seen>>

\* transaction fails: it returns before the layout settles
TransactionFails(ops) ==
    /\ ProjectEdits
    /\ doc' = AbortWith(ApplyAll(Begin(doc), ops))
    /\ UNCHANGED <<layoutScene, logs, pending, seen>>

-----------------------------------------------------------------------------
Next ==
    \/ /\ Room
       /\ \E ops \in Batches(doc.scene) :
            \/ \E geometry \in Solutions(Applied(doc.scene, ops)) :
                 Edit(ops, geometry) \/ BatchCommits(ops, geometry)
            \/ EditFails(ops)
            \/ \E geometry \in Solutions(doc.scene) : BatchRollsBack(ops, geometry)
            \/ TransactionFails(ops)
    \/ /\ Room
       /\ \E o \in OpsAt(doc.scene) : \E geometry \in Solutions(Applied(doc.scene, <<o>>)) :
            FillTemplateFails(o, geometry)
    \/ \E geometry \in Solutions(doc.scene) : AddUndoStep(geometry)
    \/ UndoCall
    \/ RedoCall
    \/ PollEvents

Spec == Init /\ [][Next]_vars

-----------------------------------------------------------------------------
(***************************************************************************)
(* Properties                                                              *)
(***************************************************************************)

\* Every variable has its type, no step on the stacks is empty, and the undo
\* stack never grows beyond max_depth.
TypeOK ==
    /\ doc.scene \in Scenes /\ layoutScene \in Scenes /\ seen \in Scenes /\ base \in Scenes
    /\ doc.undo \in Seq(Seq(Op) \ {<<>>}) /\ Len(doc.undo) <= MaxDepth
    /\ doc.redo \in Seq(Seq(Op) \ {<<>>}) /\ Len(doc.redo) <= MaxDepth
    /\ doc.open \in Seq(Op) \cup {Closed}
    /\ doc.edited \in BOOLEAN
    /\ transactions \in Seq(Seq(Op))
    /\ pending \in [Nodes -> {"none", "created", "updated", "destroyed"}]

Past == FlattenSeq(doc.undo) \o OpenOps(doc)
Future == FlattenSeq(Reverse(doc.redo))

\* The undo and redo stacks are one timeline through the scene: walking back
\* every operation finds the value it set, walking forward from the last closed
\* step every undone operation finds the value it replaced, so undo and redo
\* restore whole states and their operations cannot fail (History::undo, redo).
LinearTimeline ==
    /\ \A k \in DOMAIN Past :
         Reverted(doc.scene, SubSeq(Past, k + 1, Len(Past)))[Past[k].node] = Past[k].new
    /\ LET start == Reverted(doc.scene, OpenOps(doc))
       IN \A k \in DOMAIN Future :
            Applied(start, SubSeq(Future, 1, k - 1))[Future[k].node] = Future[k].old

\* The headless journal, applied to the design as it was opened, reproduces the
\* live design up to its pending step, through undo, redo, rolled-back calls and
\* geometry that joined a step after it was committed (drain_journal).
JournalReplays ==
    LET journal == FlattenSeq(Drain(transactions, doc.out))
    IN Applied(base, journal \o OpenOps(doc)) = doc.scene

\* A recorded session replayed on a fresh document (replay_ops) ends with the
\* live design and with the same undo and redo steps.
SessionReplays == Recording =>
    LET now == Record(session, doc.out)
        replayed == Replay(now.before, now.last)
    IN /\ Applied(replayed.scene, OpenOps(doc)) = doc.scene
       /\ replayed.undo = doc.undo /\ replayed.redo = doc.redo

\* A subscriber that saw the design at its last poll can tell from the pending
\* events which nodes came, went or may have changed since, whatever was
\* undone, redone or rolled back in between (Subscription::push).
EventsTellTheTruth ==
    \A n \in Nodes :
        CASE pending[n] = "none"      -> doc.scene[n] = seen[n]
          [] pending[n] = "created"   -> seen[n] = Absent /\ doc.scene[n] # Absent
          [] pending[n] = "destroyed" -> seen[n] # Absent /\ doc.scene[n] = Absent
          [] pending[n] = "updated"   -> seen[n] # Absent /\ doc.scene[n] # Absent

\* "Either way the redo stack is cleared because the timeline branched" (the
\* comment of History::apply): after an edit there is nothing to redo.
ApplyClearsRedo ==
    [][OpenOps(doc)' # <<>> /\ Len(OpenOps(doc)') > Len(OpenOps(doc)) => doc'.redo = <<>>]_vars
=============================================================================
