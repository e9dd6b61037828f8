--------------------- MODULE DesignSessionFollowers_proofs ---------------------
(***************************************************************************)
(* Who follows a design session from outside learns what it did: the       *)
(* recorded session replays it, and the subscriber's events tell the       *)
(* truth, for every scene, batch, undo depth and sequence of calls.        *)
(***************************************************************************)
EXTENDS DesignSession_proofs

-----------------------------------------------------------------------------
(***************************************************************************)
(* The recorded session.  Replaying it gives the closed part of the        *)
(* document: its stacks, and the scene before the pending step.            *)
(***************************************************************************)
SessionType == [before : DocType,
                last : [kind : {"none", "commit", "undo", "redo"}, ops : Transactions]]

Clean(r) == [r EXCEPT !.out = <<>>, !.edited = FALSE]

\* Replaying session s gives the stacks of document d and scene g.
Traced(d, s, g) ==
    /\ s \in SessionType /\ s.before.open = Closed
    /\ Replay(s.before, s.last) \in DocType /\ Replay(s.before, s.last).open = Closed
    /\ Replay(s.before, s.last).scene = g
    /\ Replay(s.before, s.last).undo = d.undo /\ Replay(s.before, s.last).redo = d.redo

\* The same for recorded session s and the events of d it has not taken over yet.
Follows(d, s, t, b) == Traced(d, Record(s, d.out), Ground(b, Drain(t, d.out)))

\* A step of a replay starts from a document without events.
LEMMA CleanFields ==
    ASSUME NEW r \in DocType
    PROVE  /\ Clean(r) \in DocType /\ Clean(r).scene = r.scene /\ Clean(r).open = r.open
           /\ Clean(r).undo = r.undo /\ Clean(r).redo = r.redo
<1>1. <<>> \in Seq(Event)
  BY EmptySeq
<1>2. QED BY <1>1 DEF Clean, DocType

\* A whole transaction applied to a closed document.
LEMMA TransactionFields ==
    ASSUME NEW d \in DocType, d.open = Closed, NEW tx \in Tx
    PROVE  LET s == ApplyTransaction(d, tx)
           IN  /\ s \in DocType /\ s.scene = Applied(d.scene, tx) /\ s.open = Closed
               /\ s.undo = PushUndo(d.undo, tx) /\ s.redo = <<>>
<1> DEFINE c == Commit(d)
           x == Applied(d.scene, tx)
           m == [c EXCEPT !.scene = x, !.edited = TRUE]
           u == PushUndo(d.undo, tx)
           o == Append(c.out, Emit("commit", tx))
           s == [m EXCEPT !.undo = u, !.redo = <<>>, !.out = o]
<1>1. OpenOps(d) = <<>>
  BY OpenType
<1>2. c \in DocType /\ c.scene = d.scene /\ c.open = Closed /\ c.undo = d.undo
  BY <1>1, CommitFields
<1>3. x \in Scenes
  BY SceneType DEF DocType, Tx, Transactions
<1>4. u \in Seq(Tx)
  BY PushType DEF DocType
<1>5. o \in Seq(Event)
  <2>1. c.out \in Seq(Event) /\ Emit("commit", tx) \in Event
    BY <1>2, EmitType DEF DocType
  <2>2. QED BY <2>1, AppendProperties
<1>6. <<>> \in Seq(Tx)
  BY EmptySeq
<1> HIDE DEF c, x, u, o
<1>7. m \in DocType /\ m.scene = x /\ m.open = Closed /\ m.undo = d.undo /\ m.out = c.out
  BY <1>2, <1>3 DEF DocType
<1>8. ApplyTransaction(d, tx) = Recorded(m, tx)
  BY <1>2 DEF ApplyTransaction, c, x
<1> HIDE DEF m
<1>9. Recorded(m, tx) = s
  BY <1>7 DEF Recorded, u, o
<1>10. /\ s \in DocType /\ s.scene = m.scene /\ s.open = m.open
       /\ s.undo = u /\ s.redo = <<>>
  BY <1>4, <1>5, <1>6, <1>7 DEF DocType
<1> HIDE DEF s
<1>11. QED BY <1>7, <1>8, <1>9, <1>10 DEF x, u

\* A new step of the session is replayed from what the ones before it gave.
LEMMA NewStep ==
    ASSUME NEW d, NEW s, NEW g, Traced(d, s, g), NEW e \in Event, e.kind # "amend"
    PROVE  LET r == Clean(Replay(s.before, s.last))
               n == RecordStep(s, e)
           IN  /\ n \in SessionType /\ n.before = r /\ n.last = e
               /\ r \in DocType /\ r.open = Closed /\ r.scene = g
               /\ r.undo = d.undo /\ r.redo = d.redo
<1> DEFINE p == Replay(s.before, s.last)
           r == Clean(p)
<1>1. /\ p \in DocType /\ p.open = Closed /\ p.scene = g /\ p.undo = d.undo /\ p.redo = d.redo
  BY DEF Traced
<1>2. RecordStep(s, e) = [before |-> r, last |-> e]
  BY DEF RecordStep, Clean
<1> HIDE DEF p
<1>3. r \in DocType /\ r.scene = p.scene /\ r.open = p.open /\ r.undo = p.undo /\ r.redo = p.redo
  BY <1>1, CleanFields
<1> HIDE DEF r
<1>4. [before |-> r, last |-> e] \in SessionType
  <2>1. e \in [kind : {"none", "commit", "undo", "redo"}, ops : Transactions]
    BY DEF Event, Tx
  <2>2. QED BY <1>3, <2>1 DEF SessionType
<1>5. QED BY <1>1, <1>2, <1>3, <1>4 DEF r, p

\* The session recorded when one more event was emitted.
LEMMA SessionEmitted ==
    ASSUME NEW d \in DocType, NEW s, NEW e \in Event, NEW out, out = Append(d.out, e)
    PROVE  Record(s, out) = RecordStep(Record(s, d.out), e)
<1>1. d.out \in Seq(Event)
  BY DEF DocType
<1>2. QED BY <1>1, RecordSteps

\* Only the stacks and the events count.
LEMMA TraceSame ==
    ASSUME NEW d, NEW s, NEW t, NEW b, Follows(d, s, t, b), NEW e,
           e.undo = d.undo, e.redo = d.redo, e.out = d.out
    PROVE  Follows(e, s, t, b)
<1> DEFINE n == Record(s, d.out)
           g == Ground(b, Drain(t, d.out))
<1>1. n = Record(s, e.out) /\ g = Ground(b, Drain(t, e.out)) /\ Traced(d, n, g)
  BY DEF Follows
<1> HIDE DEF n, g
<1>2. Traced(e, n, g)
  BY <1>1 DEF Traced
<1>3. QED BY <1>1, <1>2 DEF Follows

\* The scene of a closed document is the one its journal gives.
LEMMA ClosedScene ==
    ASSUME NEW d, NEW t, NEW b \in Scenes, Timeline(d, t, b), OpenOps(d) = <<>>
    PROVE  d.scene = Ground(b, Drain(t, d.out))
<1>1. Ground(b, Drain(t, d.out)) \in Scenes
      /\ d.scene = Applied(Ground(b, Drain(t, d.out)), <<>>)
  BY TimelineParts
<1>2. QED BY <1>1, NoOps

\* A commit is recorded as a step.
LEMMA TraceCommit ==
    ASSUME NEW d, NEW s, NEW t, NEW b \in Scenes, Timeline(d, t, b), Follows(d, s, t, b)
    PROVE  /\ Follows(Commit(d), s, t, b)
           /\ OpenOps(d) # <<>> => Record(s, Commit(d).out).last = Emit("commit", d.open)
<1> DEFINE c == Commit(d)
           e == Emit("commit", d.open)
           old == Record(s, d.out)
           new == Record(s, c.out)
           g == Ground(b, Drain(t, d.out))
           h == Ground(b, Drain(t, c.out))
           r == Clean(Replay(old.before, old.last))
<1>1. d \in DocType /\ d.scene = Applied(g, OpenOps(d))
  BY TimelineParts
<1>2. /\ c \in DocType /\ c.scene = d.scene /\ c.open = Closed
      /\ OpenOps(d) = <<>> => c.undo = d.undo /\ c.redo = d.redo /\ c.out = d.out
      /\ OpenOps(d) # <<>> => /\ c.undo = PushUndo(d.undo, d.open) /\ c.redo = <<>>
                              /\ c.out = Append(d.out, e)
  BY <1>1, CommitFields
<1>3. c.scene = h
  <2>1. Timeline(c, t, b)
    BY CommitKeeps
  <2>2. OpenOps(c) = <<>>
    BY <1>2, OpenType
  <2> HIDE DEF c
  <2>3. QED BY <2>1, <2>2, ClosedScene
<1>4. Traced(d, old, g)
  BY DEF Follows
<1> HIDE DEF c, g, h
<1>5. CASE OpenOps(d) = <<>>
  <2>1. c.undo = d.undo /\ c.redo = d.redo /\ c.out = d.out
    BY <1>2, <1>5
  <2>2. Follows(c, s, t, b)
    BY <2>1, TraceSame
  <2>3. QED BY <1>5, <2>2 DEF c
<1>6. CASE OpenOps(d) # <<>>
  <2>1. d.open \in Tx /\ OpenOps(d) = d.open
    BY <1>1, <1>6, OpenType
  <2>2. e \in Event /\ e.kind = "commit" /\ e.ops = d.open
    BY <2>1, EmitType
  <2>3. new = RecordStep(old, e)
    BY <1>1, <1>2, <1>6, <2>2, SessionEmitted
  <2> HIDE DEF e, old
  <2>4. /\ RecordStep(old, e) \in SessionType /\ RecordStep(old, e).before = r
        /\ RecordStep(old, e).last = e /\ r \in DocType /\ r.open = Closed
        /\ r.scene = g /\ r.undo = d.undo /\ r.redo = d.redo
    BY <1>4, <2>2, NewStep
  <2> HIDE DEF r, new
  <2>5. Replay(new.before, new.last) = ApplyTransaction(r, d.open)
    BY <2>2, <2>3, <2>4 DEF Replay
  <2> DEFINE a == ApplyTransaction(r, d.open)
  <2>6. /\ a \in DocType /\ a.scene = Applied(r.scene, d.open) /\ a.open = Closed
        /\ a.undo = PushUndo(r.undo, d.open) /\ a.redo = <<>>
    BY <2>1, <2>4, TransactionFields
  <2> HIDE DEF a
  <2>7. a.scene = h
    BY <1>1, <1>2, <1>3, <2>1, <2>4, <2>6
  <2>8. a.undo = c.undo /\ a.redo = c.redo
    BY <1>2, <1>6, <2>4, <2>6
  <2>9. Traced(c, new, h)
    BY <2>3, <2>4, <2>5, <2>6, <2>7, <2>8 DEF Traced, a
  <2>10. QED BY <2>3, <2>4, <2>9 DEF Follows, new, h, c, e
<1>7. QED BY <1>5, <1>6

\* An undo is replayed as one.
LEMMA TraceUndo ==
    ASSUME NEW d, NEW s, NEW t, NEW b \in Scenes, Timeline(d, t, b), Follows(d, s, t, b)
    PROVE  Follows(Undo(d), s, t, b)
<1> DEFINE c == Commit(d)
           u == Undo(d)
<1>1. Timeline(c, t, b) /\ Follows(c, s, t, b) /\ c \in DocType /\ c.open = Closed
  BY CommitKeeps, CommitFields, TraceCommit, TimelineParts
<1>2. Timeline(u, t, b) /\ u.open = Closed /\ (c.undo = <<>> => u = c)
  BY UndoKeeps
<1>3. CASE c.undo = <<>>
  BY <1>1, <1>2, <1>3
<1>4. CASE c.undo # <<>>
  <2> DEFINE tx == Last(c.undo)
             e == Emit("undo", tx)
             old == Record(s, c.out)
             new == Record(s, u.out)
             g == Ground(b, Drain(t, c.out))
             h == Ground(b, Drain(t, u.out))
             r == Clean(Replay(old.before, old.last))
  <2>1. /\ tx \in Tx /\ u.scene = Reverted(c.scene, tx)
        /\ u.undo = Front(c.undo) /\ u.redo = Append(c.redo, tx) /\ u.out = Append(c.out, e)
    BY <1>1, <1>4, UndoFields DEF Undo
  <2>2. u \in DocType
    BY <1>2, TimelineParts
  <2> HIDE DEF u
  <2>3. u.scene = h /\ c.scene = g
    <3>1. OpenOps(c) = <<>> /\ OpenOps(u) = <<>>
      BY <1>1, <1>2, <2>2, OpenType
    <3> HIDE DEF c
    <3>2. QED BY <1>1, <1>2, <3>1, ClosedScene
  <2>4. Traced(c, old, g)
    BY <1>1 DEF Follows
  <2> HIDE DEF c, g, h
  <2>5. e \in Event /\ e.kind = "undo"
    BY <2>1, EmitType
  <2>6. new = RecordStep(old, e)
    BY <1>1, <2>1, <2>5, SessionEmitted
  <2> HIDE DEF e, old
  <2>7. /\ RecordStep(old, e) \in SessionType /\ RecordStep(old, e).before = r
        /\ RecordStep(old, e).last = e /\ r \in DocType /\ r.open = Closed
        /\ r.scene = g /\ r.undo = c.undo /\ r.redo = c.redo
    BY <2>4, <2>5, NewStep
  <2> HIDE DEF r, new
  <2>8. Replay(new.before, new.last) = Undo(r)
    BY <2>5, <2>6, <2>7 DEF Replay
  <2> DEFINE q == Commit(r)
             a == Undo(r)
  <2>9. /\ q \in DocType /\ q.scene = g /\ q.open = Closed /\ q.undo = c.undo /\ q.redo = c.redo
    BY <2>7, OpenType, CommitFields
  <2>10. /\ a \in DocType /\ a.scene = Reverted(q.scene, tx) /\ a.open = q.open
         /\ a.undo = Front(q.undo) /\ a.redo = Append(q.redo, tx)
    BY <1>4, <2>9, UndoFields DEF Undo
  <2> HIDE DEF a, q, tx
  <2>11. Traced(u, new, h)
    BY <2>1, <2>3, <2>6, <2>7, <2>8, <2>9, <2>10 DEF Traced, a
  <2>12. QED BY <2>11 DEF Follows, new, h, u
<1>5. QED BY <1>3, <1>4

\* A redo is replayed as one.
LEMMA TraceRedo ==
    ASSUME NEW d, NEW s, NEW t, NEW b \in Scenes, Timeline(d, t, b), Follows(d, s, t, b),
           d.open = Closed
    PROVE  Follows(Redo(d), s, t, b)
<1> DEFINE u == Redo(d)
<1>1. d \in DocType
  BY TimelineParts
<1>2. OpenOps(d) = <<>>
  BY <1>1, OpenType
<1>3. CASE d.redo = <<>>
  BY <1>3 DEF Redo
<1>4. CASE d.redo # <<>>
  <2> DEFINE tx == Last(d.redo)
             e == Emit("redo", tx)
             old == Record(s, d.out)
             new == Record(s, u.out)
             g == Ground(b, Drain(t, d.out))
             h == Ground(b, Drain(t, u.out))
             r == Clean(Replay(old.before, old.last))
             a == Redo(r)
  <2>1. /\ tx \in Tx /\ u \in DocType /\ u.scene = Applied(d.scene, tx) /\ u.open = Closed
        /\ u.undo = PushUndo(d.undo, tx) /\ u.redo = Front(d.redo) /\ u.out = Append(d.out, e)
    BY <1>1, <1>4, RedoFields
  <2>2. Timeline(u, t, b)
    BY <1>2, RedoKeeps
  <2> HIDE DEF u
  <2>3. u.scene = h /\ d.scene = g
    <3>1. OpenOps(u) = <<>>
      BY <2>1, OpenType
    <3>2. QED BY <1>2, <2>2, <3>1, ClosedScene
  <2>4. Traced(d, old, g)
    BY DEF Follows
  <2> HIDE DEF g, h
  <2>5. e \in Event /\ e.kind = "redo"
    BY <2>1, EmitType
  <2>6. new = RecordStep(old, e)
    BY <1>1, <2>1, <2>5, SessionEmitted
  <2> HIDE DEF e, old
  <2>7. /\ RecordStep(old, e) \in SessionType /\ RecordStep(old, e).before = r
        /\ RecordStep(old, e).last = e /\ r \in DocType /\ r.open = Closed
        /\ r.scene = g /\ r.undo = d.undo /\ r.redo = d.redo
    BY <2>4, <2>5, NewStep
  <2> HIDE DEF r, new
  <2>8. Replay(new.before, new.last) = a
    BY <2>5, <2>6, <2>7 DEF Replay
  <2>9. /\ a \in DocType /\ a.scene = Applied(r.scene, tx) /\ a.open = r.open
        /\ a.undo = PushUndo(r.undo, tx) /\ a.redo = Front(r.redo)
    BY <1>4, <2>7, RedoFields
  <2> HIDE DEF a, tx
  <2>10. Traced(u, new, h)
    BY <2>1, <2>3, <2>6, <2>7, <2>8, <2>9 DEF Traced
  <2>11. QED BY <2>10 DEF Follows, new, h, u
<1>5. QED BY <1>3, <1>4

\* Geometry that joins the transaction committed last is recorded as a part of it.
LEMMA TraceAmend ==
    ASSUME NEW d, NEW s, NEW t, NEW b \in Scenes, Timeline(d, t, b), Follows(d, s, t, b),
           d.open = Closed, d.undo # <<>>, d.redo = <<>>,
           Record(s, d.out).last = Emit("commit", Last(d.undo)),
           NEW ops \in Transactions, Runs(d.scene, ops)
    PROVE  Follows(ApplyDerived(d, ops), s, t, b)
<1> DEFINE u == ApplyDerived(d, ops)
           l == Last(d.undo)
           tx == l \o ops
           e == Emit("amend", tx)
           old == Record(s, d.out)
           new == Record(s, u.out)
           g == Ground(b, Drain(t, d.out))
           h == Ground(b, Drain(t, u.out))
           p == old.before
           r == Replay(p, old.last)
           a == ApplyTransaction(p, tx)
<1>1. d \in DocType
  BY TimelineParts
<1>2. /\ tx \in Tx /\ l \in Tx /\ u \in DocType /\ u.scene = Applied(d.scene, ops)
      /\ u.open = Closed /\ u.undo = Append(Front(d.undo), tx) /\ u.redo = d.redo
      /\ u.out = Append(d.out, e)
  BY <1>1, AmendFields
<1>3. Timeline(u, t, b)
  BY AmendKeeps
<1> HIDE DEF u
<1>4. u.scene = h /\ d.scene = g
  <2>1. OpenOps(u) = <<>> /\ OpenOps(d) = <<>>
    BY <1>1, <1>2, OpenType
  <2>2. QED BY <1>3, <2>1, ClosedScene
<1>5. Traced(d, old, g) /\ old.last = Emit("commit", l)
  BY DEF Follows
<1> HIDE DEF g, h
<1>6. e \in Event /\ e.kind = "amend" /\ e.ops = tx
  BY <1>2, EmitType
<1>7. new = RecordStep(old, e)
  BY <1>1, <1>2, <1>6, SessionEmitted
<1>8. IsPrefix(l, tx)
  <2>1. l \in Seq(Op) /\ ops \in Seq(Op) /\ Len(l) \in Nat /\ Len(ops) \in Nat
    BY <1>2, LenProperties DEF Tx, Transactions
  <2> HIDE DEF l
  <2>2. Len(tx) = Len(l) + Len(ops) /\ SubSeq(tx, 1, Len(l)) = l
    BY <2>1, ConcatProperties, CutConcat
  <2>3. SubSeq(l, 1, Len(l)) = l
    BY <2>1, SubSeqFull
  <2>4. Len(l) <= Len(tx)
    BY <2>1, <2>2
  <2>5. QED BY <2>2, <2>3, <2>4 DEF IsPrefix
<1> HIDE DEF e, old, tx, l
<1>9. old.last.kind = "commit" /\ old.last.ops = l /\ old \in SessionType
      /\ p \in DocType /\ p.open = Closed
  BY <1>5 DEF Emit, Traced, SessionType
<1>10. new = [old EXCEPT !.last.ops = tx]
  BY <1>6, <1>7, <1>8, <1>9 DEF RecordStep
<1>11. new \in SessionType /\ new.before = p /\ new.last.kind = "commit" /\ new.last.ops = tx
  BY <1>2, <1>9, <1>10 DEF SessionType, Tx
<1> HIDE DEF new
<1>12. Replay(new.before, new.last) = a /\ r = ApplyTransaction(p, l)
  BY <1>9, <1>11 DEF Replay
<1> HIDE DEF p, r
<1>13. /\ a \in DocType /\ a.scene = Applied(p.scene, tx) /\ a.open = Closed
       /\ a.undo = PushUndo(p.undo, tx) /\ a.redo = <<>>
  BY <1>2, <1>9, TransactionFields
<1>14. r.scene = Applied(p.scene, l) /\ r.undo = PushUndo(p.undo, l)
  BY <1>2, <1>9, <1>12, TransactionFields
<1>15. r.scene = g /\ r.undo = d.undo
  BY <1>5 DEF Traced, r, p
<1> HIDE DEF a
<1>16. a.scene = h
  <2>1. p.scene \in Scenes /\ l \in Seq(Op) /\ ops \in Seq(Op)
    BY <1>2, <1>9 DEF DocType, Tx, Transactions
  <2>2. Applied(p.scene, l \o ops) = Applied(Applied(p.scene, l), ops)
    BY <2>1, SceneConcat
  <2>3. QED BY <1>2, <1>4, <1>13, <1>14, <1>15, <2>2 DEF tx
<1>17. a.undo = u.undo
  <2>1. p.undo \in Seq(Tx)
    BY <1>9 DEF DocType
  <2>2. Append(Front(PushUndo(p.undo, l)), tx) = PushUndo(p.undo, tx)
    BY <1>2, <2>1, PushType
  <2>3. QED BY <1>2, <1>13, <1>14, <1>15, <2>2
<1>18. Traced(u, new, h)
  BY <1>2, <1>9, <1>11, <1>12, <1>13, <1>16, <1>17 DEF Traced
<1>19. QED BY <1>18 DEF Follows, new, h, u

-----------------------------------------------------------------------------
(***************************************************************************)
(* Every call keeps the recorded session true to the document.             *)
(***************************************************************************)
SessionInv == Recording => Follows(doc, session, transactions, base)

\* A recording starts with the design as it was opened.
LEMMA InitSession == Init => SessionInv
<1> SUFFICES ASSUME Init PROVE Follows(doc, session, transactions, base)
  BY DEF SessionInv
<1> DEFINE f == Fresh(base)
<1>1. /\ base \in Scenes /\ doc = f /\ transactions = <<>>
      /\ session = [before |-> f, last |-> NoStep]
  BY DEF Init
<1>2. <<>> \in Seq(Tx) /\ <<>> \in Seq(Event) /\ <<>> \in Transactions
  BY EmptySeq DEF Transactions
<1>3. f \in DocType /\ f.scene = base /\ f.open = Closed /\ f.out = <<>>
  BY <1>1, <1>2 DEF Fresh, DocType
<1> HIDE DEF f
<1>4. session \in SessionType /\ session.before = f /\ session.last.kind = "none"
  BY <1>1, <1>2, <1>3 DEF SessionType, NoStep, Emit
<1>5. Replay(session.before, session.last) = f
  BY <1>4 DEF Replay
<1>6. Ground(base, Drain(transactions, doc.out)) = base
  BY <1>1, <1>3, DrainNothing, NoOps
<1>7. Record(session, doc.out) = session
  BY <1>1, <1>3, RecordNothing
<1>8. Traced(doc, session, base)
  BY <1>1, <1>3, <1>4, <1>5 DEF Traced
<1>9. QED BY <1>6, <1>7, <1>8 DEF Follows

\* Taking over the events.
LEMMA FinishFollows ==
    ASSUME Inv, Recording, NEW d, Timeline(d, transactions, base), ~d.edited, Finish(d),
           Follows(d, session, transactions, base)
    PROVE  Follows(doc, session, transactions, base)'
<1> DEFINE n == Record(session, d.out)
           g == Ground(base, Drain(transactions, d.out))
<1>1. doc' = [d EXCEPT !.out = <<>>] /\ Ground(base', transactions') = g
  BY FinishKeeps DEF Inv
<1>2. session' = n
  BY DEF Finish
<1>3. d \in DocType
  BY TimelineParts DEF Inv, TypeInv
<1>4. doc'.out = <<>> /\ doc'.undo = d.undo /\ doc'.redo = d.redo
  BY <1>1, <1>3 DEF DocType
<1>5. Traced(d, n, g)
  BY DEF Follows
<1> HIDE DEF n, g
<1>6. Traced(doc', n, g)
  BY <1>4, <1>5 DEF Traced
<1>7. Record(session', doc'.out) = n
  BY <1>2, <1>4, RecordNothing
<1>8. Drain(transactions', doc'.out) = transactions'
  BY <1>4, DrainNothing
<1>9. Traced(doc', Record(session', doc'.out), Ground(base', Drain(transactions', doc'.out)))
  BY <1>1, <1>6, <1>7, <1>8
<1>10. QED BY <1>9 DEF Follows

\* Events that are not taken over yet.
LEMMA LaterFollows ==
    ASSUME NEW d, Follows(d, session, transactions, base), doc' = d, UNCHANGED logs
    PROVE  Follows(doc, session, transactions, base)'
<1>1. session' = session /\ transactions' = transactions /\ base' = base
  BY DEF logs
<1>2. Follows(doc', session', transactions', base')
  BY <1>1
<1>3. QED BY <1>2 DEF Follows

\* A committed batch is recorded with the geometry solved after it.
LEMMA BatchFollows ==
    ASSUME Inv, Follows(doc, session, transactions, base), NEW ops \in Batches(doc.scene), ops # <<>>,
           NEW geometry \in Solutions(Applied(doc.scene, ops))
    PROVE  Follows(Settled(Commit(ApplyAll(Begin(doc), ops)), geometry), session, transactions, base)
<1> DEFINE k == Commit(doc)
           a == ApplyAll(Begin(doc), ops)
           c == Commit(a)
           d == Settled(c, geometry)
<1>1. base \in Scenes /\ Timeline(doc, transactions, base)
  BY DEF Inv, TypeInv
<1>2. Follows(k, session, transactions, base)
  BY <1>1, TraceCommit
<1>3. /\ Timeline(c, transactions, base) /\ c \in DocType /\ c.open = Closed
      /\ Timeline(a, transactions, base) /\ a \in DocType
      /\ a.open = ops /\ OpenOps(a) = ops
      /\ a.undo = k.undo /\ a.redo = k.redo /\ a.out = k.out
      /\ c.undo # <<>> /\ c.redo = <<>> /\ c.edited
      /\ geometry \in Transactions /\ Runs(c.scene, geometry)
  BY BatchEnds
<1> HIDE DEF k, a
<1>4. Follows(a, session, transactions, base)
  BY <1>2, <1>3, TraceSame
<1>5. /\ Follows(c, session, transactions, base)
      /\ Record(session, c.out).last = Emit("commit", ops)
  BY <1>1, <1>3, <1>4, TraceCommit
<1>6. Last(c.undo) = ops
  <2>1. c.undo = PushUndo(a.undo, ops)
    BY <1>3, CommitFields
  <2>2. a.undo \in Seq(Tx) /\ ops \in Tx
    BY <1>3, OpenType DEF DocType
  <2>3. QED BY <2>1, <2>2, PushType
<1> HIDE DEF c
<1>7. CASE geometry = <<>>
  <2>1. d = CatchUp(c)
    BY <1>7 DEF Settled
  <2>2. d.undo = c.undo /\ d.redo = c.redo /\ d.out = c.out
    BY <1>1, <1>3, <2>1, CatchUpKeeps
  <2> HIDE DEF d
  <2>3. Follows(d, session, transactions, base)
    BY <1>5, <2>2, TraceSame
  <2>4. QED BY <2>3 DEF d, c, a
<1>8. CASE geometry # <<>>
  <2> DEFINE u == ApplyDerived(c, geometry)
  <2>1. MayDerive(c)
    BY <1>3 DEF MayDerive, IsOpen
  <2>2. d = CatchUp(u)
    BY <1>3, <1>8, <2>1 DEF Settled
  <2>3. Follows(u, session, transactions, base)
    BY <1>1, <1>3, <1>5, <1>6, TraceAmend
  <2>4. Timeline(u, transactions, base)
    BY <1>1, <1>3, AmendKeeps
  <2> HIDE DEF u, d
  <2>5. d.undo = u.undo /\ d.redo = u.redo /\ d.out = u.out
    BY <1>1, <2>2, <2>4, CatchUpKeeps
  <2>6. Follows(d, session, transactions, base)
    BY <2>3, <2>5, TraceSame
  <2>7. QED BY <2>6 DEF d, c, a
<1>9. QED BY <1>7, <1>8

\* Every step keeps the recorded session true to the document.
LEMMA NextSession == Inv /\ SessionInv /\ [Next]_vars => SessionInv'
<1> SUFFICES ASSUME Inv, SessionInv, [Next]_vars, Recording
             PROVE  Follows(doc, session, transactions, base)'
  BY DEF SessionInv
<1> DEFINE F(d) == Follows(d, session, transactions, base)
           Goal == F(doc)'
<1>a. F(doc) /\ base \in Scenes /\ Timeline(doc, transactions, base) /\ doc.scene \in Scenes
      /\ doc.scene = layoutScene
  BY DEF SessionInv, Inv, TypeInv
<1>b. F(Commit(doc))
  BY <1>a, TraceCommit
<1> HIDE DEF F
<1>c. ASSUME NEW d, Timeline(d, transactions, base), ~d.edited, Finish(d), F(d)
      PROVE  Goal
  BY <1>c, FinishFollows DEF F
<1>d. ASSUME NEW d, F(d), doc' = d, UNCHANGED logs
      PROVE  Goal
  BY <1>d, LaterFollows DEF F
<1>e. ASSUME NEW d, NEW e, F(d), e.undo = d.undo, e.redo = d.redo, e.out = d.out
      PROVE  F(e)
  BY <1>e, TraceSame DEF F
<1>1. ASSUME NEW ops \in Batches(doc.scene), NEW geometry \in Solutions(Applied(doc.scene, ops)),
             Edit(ops, geometry)
      PROVE  Goal
  <2> DEFINE d == Settled(ApplyAll(OpenPendingStep(doc), ops), geometry)
  <2>1. ops # <<>> /\ Finish(d)
    BY <1>1 DEF Edit
  <2>2. /\ Timeline(d, transactions, base) /\ ~d.edited
        /\ d.undo = doc.undo /\ d.redo = doc.redo /\ d.out = doc.out
    BY <2>1, EditEnds
  <2> HIDE DEF d, Goal
  <2>3. F(d)
    BY <1>a, <1>e, <2>2
  <2>4. QED BY <1>c, <2>1, <2>2, <2>3
<1>2. ASSUME NEW ops \in Batches(doc.scene), NEW geometry \in Solutions(Applied(doc.scene, ops)),
             BatchCommits(ops, geometry)
      PROVE  Goal
  <2> DEFINE d == Settled(Commit(ApplyAll(Begin(doc), ops)), geometry)
  <2>1. ops # <<>> /\ Finish(d)
    BY <1>2 DEF BatchCommits
  <2>2. Timeline(d, transactions, base) /\ ~d.edited
    BY <2>1, BatchEnds
  <2>3. F(d)
    BY <1>a, <2>1, BatchFollows DEF F
  <2> HIDE DEF d, Goal
  <2>4. QED BY <1>c, <2>1, <2>2, <2>3
<1>3. ASSUME NEW ops \in Batches(doc.scene), EditFails(ops)
      PROVE  Goal
  <2> DEFINE start == OpenPendingStep(doc)
             d == RollbackOpenTo(ApplyAll(start, ops), Len(start.open))
  <2>1. doc' = d /\ UNCHANGED logs
    BY <1>3 DEF EditFails
  <2>2. d.undo = doc.undo /\ d.redo = doc.redo /\ d.out = doc.out
    BY EditFailsEnds
  <2> HIDE DEF d, Goal
  <2>3. F(d)
    BY <1>a, <1>e, <2>2
  <2>4. QED BY <1>d, <2>1, <2>3
<1>4. ASSUME NEW ops \in Batches(doc.scene), NEW geometry \in Solutions(doc.scene),
             BatchRollsBack(ops, geometry)
      PROVE  Goal
  <2> DEFINE a == AbortWith(ApplyAll(Begin(doc), ops))
             d == CatchUp(a)
  <2>1. geometry = <<>>
    BY <1>a, SolutionType
  <2>2. Finish(d)
    BY <1>4, <2>1 DEF BatchRollsBack, Settled
  <2>3. /\ Timeline(a, transactions, base)
        /\ a.undo = Commit(doc).undo /\ a.redo = Commit(doc).redo /\ a.out = Commit(doc).out
    BY BatchFailsEnds
  <2> HIDE DEF a
  <2>4. /\ Timeline(d, transactions, base) /\ ~d.edited
        /\ d.undo = a.undo /\ d.redo = a.redo /\ d.out = a.out
    BY <1>a, <2>3, CatchUpKeeps
  <2> HIDE DEF d, Goal
  <2>5. F(d)
    BY <1>b, <1>e, <2>3, <2>4
  <2>6. QED BY <1>c, <2>2, <2>4, <2>5
<1>5. ASSUME NEW ops \in Batches(doc.scene), TransactionFails(ops)
      PROVE  Goal
  <2> DEFINE d == AbortWith(ApplyAll(Begin(doc), ops))
  <2>1. doc' = d /\ UNCHANGED logs
    BY <1>5 DEF TransactionFails
  <2>2. d.undo = Commit(doc).undo /\ d.redo = Commit(doc).redo /\ d.out = Commit(doc).out
    BY BatchFailsEnds
  <2> HIDE DEF d, Goal
  <2>3. F(d)
    BY <1>b, <1>e, <2>2
  <2>4. QED BY <1>d, <2>1, <2>3
<1>6. ASSUME NEW o \in OpsAt(doc.scene), NEW geometry \in Solutions(Applied(doc.scene, <<o>>)),
             FillTemplateFails(o, geometry)
      PROVE  Goal
  <2> DEFINE start == OpenPendingStep(doc)
             d == CatchUp(RollbackOpenTo(Settled(Apply(start, o), geometry), Len(start.open)))
  <2>1. Finish(d)
    BY <1>6 DEF FillTemplateFails
  <2>2. /\ Timeline(d, transactions, base) /\ ~d.edited
        /\ d.undo = doc.undo /\ d.redo = doc.redo /\ d.out = doc.out
    BY FillFailsEnds
  <2> HIDE DEF d, Goal
  <2>3. F(d)
    BY <1>a, <1>e, <2>2
  <2>4. QED BY <1>c, <2>1, <2>2, <2>3
<1>7. ASSUME NEW geometry \in Solutions(doc.scene), AddUndoStep(geometry)
      PROVE  Goal
  <2> DEFINE d == Settled(Commit(doc), geometry)
  <2>1. Finish(d)
    BY <1>7 DEF AddUndoStep
  <2>2. /\ Timeline(d, transactions, base) /\ ~d.edited
        /\ d.undo = Commit(doc).undo /\ d.redo = Commit(doc).redo /\ d.out = Commit(doc).out
    BY AddUndoStepEnds
  <2> HIDE DEF d, Goal
  <2>3. F(d)
    BY <1>b, <1>e, <2>2
  <2>4. QED BY <1>c, <2>1, <2>2, <2>3
<1>8. ASSUME UndoCall
      PROVE  Goal
  <2> DEFINE u == Undo(doc)
             d == CatchUp(u)
  <2>1. Finish(d)
    BY <1>8 DEF UndoCall
  <2>2. Timeline(u, transactions, base) /\ F(u)
    BY <1>a, UndoKeeps, TraceUndo DEF F
  <2> HIDE DEF u
  <2>3. /\ Timeline(d, transactions, base) /\ ~d.edited
        /\ d.undo = u.undo /\ d.redo = u.redo /\ d.out = u.out
    BY <1>a, <2>2, CatchUpKeeps
  <2> HIDE DEF d, Goal
  <2>4. F(d)
    BY <1>e, <2>2, <2>3
  <2>5. QED BY <1>c, <2>1, <2>3, <2>4
<1>9. ASSUME RedoCall
      PROVE  Goal
  <2> DEFINE c == IF IsOpen(doc) THEN AbortWith(doc) ELSE doc
             u == Redo(c)
             d == CatchUp(u)
  <2>1. OpenOps(doc) = <<>> /\ Finish(d)
    BY <1>9 DEF RedoCall
  <2>2. /\ Timeline(c, transactions, base) /\ c.open = Closed /\ OpenOps(c) = <<>>
        /\ c.undo = doc.undo /\ c.redo = doc.redo /\ c.out = doc.out
    BY <2>1, RedoStarts
  <2> HIDE DEF c
  <2>3. F(c)
    BY <1>a, <1>e, <2>2
  <2>4. Timeline(u, transactions, base) /\ F(u)
    BY <1>a, <2>2, <2>3, RedoKeeps, TraceRedo DEF F
  <2> HIDE DEF u
  <2>5. /\ Timeline(d, transactions, base) /\ ~d.edited
        /\ d.undo = u.undo /\ d.redo = u.redo /\ d.out = u.out
    BY <1>a, <2>4, CatchUpKeeps
  <2> HIDE DEF d, Goal
  <2>6. F(d)
    BY <1>e, <2>4, <2>5
  <2>7. QED BY <1>c, <2>1, <2>5, <2>6
<1>10. ASSUME PollEvents \/ UNCHANGED vars
       PROVE  Goal
  <2>1. doc' = doc /\ UNCHANGED logs
    BY <1>10 DEF PollEvents, vars
  <2> HIDE DEF Goal
  <2>2. QED BY <1>a, <1>d, <2>1
<1>11. Goal
  <2> HIDE DEF Goal
  <2>1. QED
    BY <1>1, <1>2, <1>3, <1>4, <1>5, <1>6, <1>7, <1>8, <1>9, <1>10 DEF Next
<1>12. QED BY <1>11 DEF F

\* A recorded session replayed on a fresh document (replay_ops) ends with the live design and with
\* the same undo and redo steps, whatever was amended, undone, redone, rolled back or left pending.
THEOREM RecordingReplays == Spec => []SessionReplays
<1>1. Inv /\ SessionInv => SessionReplays
  <2> SUFFICES ASSUME Inv, SessionInv, Recording
               PROVE  LET now == Record(session, doc.out)
                          replayed == Replay(now.before, now.last)
                      IN /\ Applied(replayed.scene, OpenOps(doc)) = doc.scene
                         /\ replayed.undo = doc.undo /\ replayed.redo = doc.redo
    BY DEF SessionReplays
  <2> DEFINE g == Ground(base, Drain(transactions, doc.out))
  <2>1. Traced(doc, Record(session, doc.out), g)
    BY DEF SessionInv, Follows
  <2>2. doc.scene = Applied(g, OpenOps(doc))
    BY TimelineParts DEF Inv, TypeInv
  <2> HIDE DEF g
  <2>3. QED BY <2>1, <2>2 DEF Traced
<1>2. Inv /\ SessionInv /\ [Next]_vars => Inv' /\ SessionInv'
  BY NextInv, NextSession
<1>3. Init => Inv /\ SessionInv
  BY InitInv, InitSession
<1>4. QED BY <1>1, <1>2, <1>3, PTL DEF Spec

-----------------------------------------------------------------------------
(***************************************************************************)
(* The subscriber's events, operation by operation.                        *)
(***************************************************************************)

\* What event k says of a node that was a at the last poll and is b now.
Tells(k, a, b) ==
    CASE k = "none"      -> b = a
      [] k = "created"   -> a = Absent /\ b # Absent
      [] k = "destroyed" -> a # Absent /\ b = Absent
      [] k = "updated"   -> a # Absent /\ b # Absent

\* Pending events p tell what scene s is, to who saw scene z.
Truth(p, z, s) == \A n \in Nodes : Tells(p[n], z[n], s[n])

\* The event for a node that goes from a to b.
ChangeKind(a, b) == IF a = Absent THEN "created" ELSE IF b = Absent THEN "destroyed" ELSE "updated"

\* An operation that changes its node.
Changes == {o \in Op : o.new # o.old}

\* Coalescing keeps telling the truth about one node.
LEMMA CoalesceTells ==
    ASSUME NEW k \in Kinds, NEW a, NEW b, NEW c, Tells(k, a, b)
    PROVE  /\ b # c => Tells(Coalesce(k, ChangeKind(b, c)), a, c)
           /\ b # Absent => Tells(Coalesce(k, "updated"), a, b)
<1>1. CASE k = "none"
  BY <1>1 DEF Tells, Coalesce, ChangeKind
<1>2. CASE k = "created"
  BY <1>2 DEF Tells, Coalesce, ChangeKind
<1>3. CASE k = "destroyed"
  BY <1>3 DEF Tells, Coalesce, ChangeKind
<1>4. CASE k = "updated"
  BY <1>4 DEF Tells, Coalesce, ChangeKind
<1>5. QED BY <1>1, <1>2, <1>3, <1>4 DEF Kinds

\* One event for the one node that changed.
LEMMA PushTells ==
    ASSUME NEW p \in [Nodes -> Kinds], NEW e \in NodeEvent, NEW z, NEW s, NEW t, Truth(p, z, s),
           s[e.node] # t[e.node], e.kind = ChangeKind(s[e.node], t[e.node]),
           \A n \in Nodes : n # e.node => s[n] = t[n]
    PROVE  Truth(Push(p, e), z, t)
<1>1. e.node \in Nodes
  BY DEF NodeEvent
<1>2. Tells(Coalesce(p[e.node], e.kind), z[e.node], t[e.node])
  BY <1>1, CoalesceTells DEF Truth
<1>3. ASSUME NEW n \in Nodes PROVE Tells(Push(p, e)[n], z[n], t[n])
  <2>1. CASE n = e.node
    BY <1>1, <1>2, <2>1 DEF Push
  <2>2. CASE n # e.node
    <3>1. Push(p, e)[n] = p[n] /\ t[n] = s[n]
      BY <2>2 DEF Push
    <3>2. QED BY <3>1 DEF Truth
  <2>3. QED BY <2>1, <2>2
<1>4. QED BY <1>3 DEF Truth

\* An update of a node that exists may be reported though nothing changed.
LEMMA UpdateTells ==
    ASSUME NEW p \in [Nodes -> Kinds], NEW e \in NodeEvent, NEW z, NEW s, Truth(p, z, s),
           e.kind = "updated", s[e.node] # Absent
    PROVE  Truth(Push(p, e), z, s)
<1>1. e.node \in Nodes
  BY DEF NodeEvent
<1>2. Tells(Coalesce(p[e.node], "updated"), z[e.node], s[e.node])
  BY <1>1, CoalesceTells DEF Truth
<1>3. ASSUME NEW n \in Nodes PROVE Tells(Push(p, e)[n], z[n], s[n])
  <2>1. CASE n = e.node
    BY <1>1, <1>2, <2>1 DEF Push
  <2>2. CASE n # e.node
    <3>1. Push(p, e)[n] = p[n]
      BY <2>2 DEF Push
    <3>2. QED BY <3>1 DEF Truth
  <2>3. QED BY <2>1, <2>2
<1>4. QED BY <1>3 DEF Truth

\* Any number of them.
LEMMA UpdatesTell ==
    ASSUME NEW p \in [Nodes -> Kinds], NEW ev \in Seq(NodeEvent), NEW z, NEW s, Truth(p, z, s),
           \A k \in 1 .. Len(ev) : ev[k].kind = "updated" /\ s[ev[k].node] # Absent
    PROVE  Truth(PushAll(p, ev), z, s)
<1> DEFINE n == Len(ev)
<1>1. n \in Nat
  BY LenProperties
<1>2. PICK f : PushAll(p, ev) = f[n] /\ f[0] = p
               /\ \A k \in 1 .. n : f[k] = Push(f[k - 1], ev[k])
  BY PushAllLast
<1>3. \A k \in 1 .. n : ev[k] \in NodeEvent
  BY ElementOfSeq
<1>4. \A k \in 1 .. n : ev[k].kind = "updated" /\ s[ev[k].node] # Absent
  OBVIOUS
<1> HIDE DEF n
<1> DEFINE T == {k \in 0 .. n : f[k] \in [Nodes -> Kinds] /\ Truth(f[k], z, s)}
<1>5. 0 \in T
  BY <1>1, <1>2
<1>6. ASSUME NEW k \in 1 .. n, k - 1 \in T PROVE k \in T
  <2>1. f[k - 1] \in [Nodes -> Kinds] /\ Truth(f[k - 1], z, s) /\ ev[k] \in NodeEvent
        /\ f[k] = Push(f[k - 1], ev[k]) /\ ev[k].kind = "updated" /\ s[ev[k].node] # Absent
    BY <1>2, <1>3, <1>4, <1>6
  <2>2. f[k] \in [Nodes -> Kinds]
    <3>1. Push(f[k - 1], ev[k]) \in [Nodes -> Kinds]
      BY <2>1, PushTyped, Zenon
    <3>2. QED BY <2>1, <3>1, Zenon
  <2>3. Truth(Push(f[k - 1], ev[k]), z, s)
    BY <2>1, UpdateTells
  <2>4. QED BY <1>1, <2>1, <2>2, <2>3
<1> HIDE DEF T
<1>7. \A k \in 0 .. n : k \in T
  BY <1>1, <1>5, <1>6, Induct
<1>8. n \in T
  BY <1>1, <1>7
<1>9. QED BY <1>2, <1>8 DEF T

\* The scenes before and after one of the operations that run from s.
LEMMA StepScenes ==
    ASSUME NEW s \in Scenes, NEW ops \in Seq(Op), Runs(s, ops), NEW k \in 1 .. Len(ops)
    PROVE  LET x == Applied(s, SubSeq(ops, 1, k - 1))
               y == Applied(s, SubSeq(ops, 1, k))
           IN  /\ x[ops[k].node] = ops[k].old /\ y[ops[k].node] = ops[k].new
               /\ \A n \in Nodes : n # ops[k].node => x[n] = y[n]
<1> DEFINE x == Applied(s, SubSeq(ops, 1, k - 1))
           y == Applied(s, SubSeq(ops, 1, k))
           j == k - 1
<1>1. Len(ops) \in Nat /\ DOMAIN ops = 1 .. Len(ops) /\ ops[k] \in Op /\ ops[k].node \in Nodes
  <2>1. ops[k] \in Op
    BY ElementOfSeq
  <2>2. QED BY <2>1, LenProperties DEF Op
<1>2. k \in 0 .. Len(ops) /\ j \in 0 .. Len(ops) /\ k \in 1 .. k
  BY <1>1
<1>3. x[ops[k].node] = ops[k].old
  BY <1>1 DEF Runs
<1>4. y[ops[k].node] = ops[k].new
  <2>1. Spares(ops, k + 1, k, ops[k].node)
    BY DEF Spares
  <2>2. QED BY <1>1, <1>2, <2>1, PrefixAt
<1>5. ASSUME NEW n \in Nodes, n # ops[k].node PROVE x[n] = y[n]
  <2>1. ASSUME NEW i \in Int, Spares(ops, i, j, n) PROVE Spares(ops, i, k, n)
    BY <1>5, <2>1 DEF Spares
  <2>2. CASE Spares(ops, 1, j, n)
    <3>1. Spares(ops, 1, k, n)
      BY <2>1, <2>2
    <3>2. x[n] = s[n]
      BY <1>2, <2>2, PrefixAt
    <3>3. y[n] = s[n]
      BY <1>2, <3>1, PrefixAt
    <3>4. QED BY <3>2, <3>3
  <2>3. CASE ~Spares(ops, 1, j, n)
    <3>1. PICK m \in 1 .. j : ops[m].node = n /\ Spares(ops, m + 1, j, n)
      BY <1>2, <2>3, LastTouch
    <3>2. Spares(ops, m + 1, k, n) /\ m \in 1 .. k
      BY <2>1, <3>1
    <3>3. x[n] = ops[m].new
      BY <1>2, <3>1, PrefixAt
    <3>4. y[n] = ops[m].new
      BY <1>2, <3>1, <3>2, PrefixAt
    <3>5. QED BY <3>3, <3>4
  <2>4. QED BY <2>2, <2>3
<1>6. QED BY <1>3, <1>4, <1>5

\* The events of operations that are applied, and of ones that are undone, tell the truth.
LEMMA OperationsTell ==
    ASSUME NEW p \in [Nodes -> Kinds], NEW z, NEW s \in Scenes, NEW ops \in Seq(Changes), Runs(s, ops)
    PROVE  /\ Truth(p, z, s) => Truth(PushAll(p, EventsOf(ops)), z, Applied(s, ops))
           /\ Truth(p, z, Applied(s, ops)) => Truth(PushAll(p, UndoEventsOf(ops)), z, s)
<1> DEFINE n == Len(ops)
           C(k) == Applied(s, SubSeq(ops, 1, k))
           ev == EventsOf(ops)
           uv == UndoEventsOf(ops)
<1>1. ops \in Seq(Op) /\ ops \in Transactions /\ n \in Nat /\ \A k \in 1 .. n : ops[k] \in Changes
  <2>1. Changes \subseteq Op
    BY DEF Changes
  <2>2. QED BY <2>1, SeqMonotonic, LenProperties, ElementOfSeq DEF Transactions
<1>2. C(0) = s /\ C(n) = Applied(s, ops)
  <2>1. SubSeq(ops, 1, 0) = <<>> /\ SubSeq(ops, 1, n) = ops
    BY <1>1, SubSeqEmpty, SubSeqFull
  <2>2. QED BY <2>1, NoOps
<1>3. ASSUME NEW k \in 1 .. n
      PROVE  /\ C(k - 1)[ops[k].node] = ops[k].old /\ C(k)[ops[k].node] = ops[k].new
             /\ \A m \in Nodes : m # ops[k].node => C(k - 1)[m] = C(k)[m]
  BY <1>1, StepScenes
<1>4. /\ ev \in Seq(NodeEvent) /\ Len(ev) = n /\ uv \in Seq(NodeEvent) /\ Len(uv) = n
      /\ \A k \in 1 .. n : ev[k] = Forward(ops[k]) /\ uv[k] = Backward(ops[n - k + 1])
      /\ \A k \in 1 .. n : ev[k] \in NodeEvent /\ uv[k] \in NodeEvent
  <2>1. /\ ev \in Seq(NodeEvent) /\ Len(ev) = n /\ uv \in Seq(NodeEvent) /\ Len(uv) = n
        /\ \A k \in 1 .. n : ev[k] = Forward(ops[k]) /\ uv[k] = Backward(ops[n - k + 1])
    BY <1>1, EventsType
  <2> HIDE DEF ev, uv
  <2>2. QED BY <2>1, ElementOfSeq
<1>5. \A o \in Changes : /\ Forward(o).node = o.node /\ Forward(o).kind = ChangeKind(o.old, o.new)
                         /\ Backward(o).node = o.node /\ Backward(o).kind = ChangeKind(o.new, o.old)
                         /\ o.old # o.new
  BY DEF Forward, Backward, ChangeKind, Changes, Op
<1> HIDE DEF ev, uv, C, n
<1>6. ASSUME Truth(p, z, s) PROVE Truth(PushAll(p, ev), z, Applied(s, ops))
  <2>1. PICK f : PushAll(p, ev) = f[n] /\ f[0] = p
                 /\ \A k \in 1 .. n : f[k] = Push(f[k - 1], ev[k])
    <3>1. ev \in Seq(NodeEvent) /\ Len(ev) = n
      BY <1>4
    <3>2. PICK f : PushAll(p, ev) = f[Len(ev)] /\ f[0] = p
                   /\ \A k \in 1 .. Len(ev) : f[k] = Push(f[k - 1], ev[k])
      BY <3>1, PushAllLast
    <3>3. QED BY <3>1, <3>2
  <2> DEFINE T == {k \in 0 .. n : f[k] \in [Nodes -> Kinds] /\ Truth(f[k], z, C(k))}
  <2>2. 0 \in T
    BY <1>1, <1>2, <1>6, <2>1
  <2>3. ASSUME NEW k \in 1 .. n, k - 1 \in T PROVE k \in T
    <3> DEFINE o == ops[k]
               e == ev[k]
    <3>1. f[k - 1] \in [Nodes -> Kinds] /\ Truth(f[k - 1], z, C(k - 1)) /\ e \in NodeEvent
          /\ f[k] = Push(f[k - 1], e)
      BY <1>4, <2>1, <2>3
    <3>2. e.node = o.node /\ e.kind = ChangeKind(o.old, o.new) /\ o.old # o.new
      BY <1>1, <1>4, <1>5
    <3>3. f[k] \in [Nodes -> Kinds]
      BY <3>1, PushTyped
    <3>4. Truth(Push(f[k - 1], e), z, C(k))
      <4>1. /\ C(k - 1)[e.node] # C(k)[e.node] /\ e.kind = ChangeKind(C(k - 1)[e.node], C(k)[e.node])
            /\ \A m \in Nodes : m # e.node => C(k - 1)[m] = C(k)[m]
        BY <1>3, <3>2
      <4> HIDE DEF e
      <4>2. QED BY <3>1, <4>1, PushTells
    <3>5. QED BY <1>1, <3>1, <3>3, <3>4
  <2> HIDE DEF T
  <2>4. \A k \in 0 .. n : k \in T
    BY <1>1, <2>2, <2>3, Induct
  <2>5. n \in T
    BY <1>1, <2>4
  <2>6. QED BY <1>2, <2>1, <2>5 DEF T
<1>7. ASSUME Truth(p, z, Applied(s, ops)) PROVE Truth(PushAll(p, uv), z, s)
  <2>1. PICK f : PushAll(p, uv) = f[n] /\ f[0] = p
                 /\ \A k \in 1 .. n : f[k] = Push(f[k - 1], uv[k])
    <3>1. uv \in Seq(NodeEvent) /\ Len(uv) = n
      BY <1>4
    <3>2. PICK f : PushAll(p, uv) = f[Len(uv)] /\ f[0] = p
                   /\ \A k \in 1 .. Len(uv) : f[k] = Push(f[k - 1], uv[k])
      BY <3>1, PushAllLast
    <3>3. QED BY <3>1, <3>2
  <2> DEFINE T == {k \in 0 .. n : f[k] \in [Nodes -> Kinds] /\ Truth(f[k], z, C(n - k))}
  <2>2. 0 \in T
    <3>1. n - 0 = n
      BY <1>1
    <3>2. QED BY <1>1, <1>2, <1>7, <2>1, <3>1
  <2>3. ASSUME NEW k \in 1 .. n, k - 1 \in T PROVE k \in T
    <3> DEFINE j == n - k + 1
               o == ops[j]
               e == uv[k]
    <3>1. j \in 1 .. n /\ n - (k - 1) = j /\ n - k = j - 1
      BY <1>1
    <3>2. f[k - 1] \in [Nodes -> Kinds] /\ Truth(f[k - 1], z, C(j)) /\ e \in NodeEvent
          /\ f[k] = Push(f[k - 1], e)
      <4>1. f[k - 1] \in [Nodes -> Kinds] /\ Truth(f[k - 1], z, C(n - (k - 1)))
        BY <2>3
      <4>2. QED BY <1>4, <2>1, <3>1, <4>1
    <3>3. e.node = o.node /\ e.kind = ChangeKind(o.new, o.old) /\ o.old # o.new
      <4>1. e = Backward(o) /\ o \in Changes
        BY <1>1, <1>4, <3>1
      <4>2. QED BY <1>5, <4>1
    <3>4. f[k] \in [Nodes -> Kinds]
      BY <3>2, PushTyped
    <3> HIDE DEF j
    <3>5. Truth(Push(f[k - 1], e), z, C(j - 1))
      <4>1. /\ C(j)[e.node] # C(j - 1)[e.node] /\ e.kind = ChangeKind(C(j)[e.node], C(j - 1)[e.node])
            /\ \A m \in Nodes : m # e.node => C(j)[m] = C(j - 1)[m]
        BY <1>3, <3>1, <3>3
      <4> HIDE DEF e
      <4>2. QED BY <3>2, <4>1, PushTells
    <3>6. Truth(f[k], z, C(n - k))
      BY <3>1, <3>2, <3>5
    <3>7. QED BY <1>1, <3>4, <3>6
  <2> HIDE DEF T
  <2>4. \A k \in 0 .. n : k \in T
    BY <1>1, <2>2, <2>3, Induct
  <2>5. n \in T /\ n - n = 0
    BY <1>1, <2>4
  <2>6. f[n] \in [Nodes -> Kinds] /\ Truth(f[n], z, C(n - n))
    BY <2>5 DEF T
  <2>7. QED BY <1>2, <2>1, <2>5, <2>6
<1>8. QED BY <1>6, <1>7 DEF ev, uv

-----------------------------------------------------------------------------
(***************************************************************************)
(* Every call keeps the events true.  An operation that changes nothing    *)
(* would be reported as a creation, so none is on the stacks.              *)
(***************************************************************************)
Proper(d) ==
    /\ d.undo \in Seq(Seq(Changes)) /\ d.redo \in Seq(Seq(Changes))
    /\ OpenOps(d) \in Seq(Changes)

EventInv == Proper(doc) /\ Truth(pending, seen, doc.scene)

\* Calls and the layout make operations that change their node.
LEMMA CallsChange ==
    ASSUME NEW s
    PROVE  /\ \A ops \in Batches(s) : ops \in Seq(Changes)
           /\ \A o \in OpsAt(s) : <<o>> \in Seq(Changes)
           /\ \A ops \in Solutions(s) : ops \in Seq(Changes)
<1>1. ASSUME NEW ops \in Batches(s) PROVE ops \in Seq(Changes)
  <2>1. ops \in SeqOf(Changes, MaxBatch)
    BY DEF Batches, Changes
  <2>2. PICK m \in 0 .. MaxBatch : ops \in [1 .. m -> Changes]
    BY <2>1 DEF SeqOf
  <2>3. m \in Nat
    BY <2>2, SessionAssumption
  <2>4. QED BY <2>2, <2>3, SeqDef
<1>2. ASSUME NEW o \in OpsAt(s) PROVE <<o>> \in Seq(Changes)
  <2>1. o \in Changes
    BY DEF OpsAt, Changes
  <2>2. QED BY <2>1
<1>3. ASSUME NEW ops \in Solutions(s) PROVE ops \in Seq(Changes)
  <2>1. ops = <<>> \/ \E o \in OpsAt(s) : ops = <<o>>
    BY DEF Solutions
  <2>2. QED BY <1>2, <2>1, EmptySeq
<1>4. QED BY <1>1, <1>2, <1>3

\* A push keeps the steps proper.
LEMMA ProperPush ==
    ASSUME NEW u \in Seq(Seq(Changes)), NEW tx \in Seq(Changes)
    PROVE  PushUndo(u, tx) \in Seq(Seq(Changes))
<1>1. Kept(u) \in Seq(Seq(Changes)) /\ PushUndo(u, tx) = Append(Kept(u), tx)
  BY PushKeeps
<1>2. QED BY <1>1, AppendProperties

\* So does a commit.
LEMMA ProperCommit ==
    ASSUME NEW d \in DocType, Proper(d)
    PROVE  Proper(Commit(d))
<1> DEFINE c == Commit(d)
<1>1. /\ c \in DocType /\ c.open = Closed
      /\ OpenOps(d) = <<>> => c.undo = d.undo /\ c.redo = d.redo
      /\ OpenOps(d) # <<>> => c.undo = PushUndo(d.undo, d.open) /\ c.redo = <<>>
  BY CommitFields
<1> HIDE DEF c
<1>2. OpenOps(c) \in Seq(Changes)
  <2>1. OpenOps(c) = <<>>
    BY <1>1, OpenType
  <2>2. QED BY <2>1, EmptySeq
<1>3. CASE OpenOps(d) = <<>>
  BY <1>1, <1>2, <1>3 DEF Proper, c
<1>4. CASE OpenOps(d) # <<>>
  <2>1. d.open \in Seq(Changes) /\ d.undo \in Seq(Seq(Changes))
    BY <1>4, OpenType DEF Proper
  <2>2. c.undo \in Seq(Seq(Changes))
    BY <1>1, <1>4, <2>1, ProperPush
  <2>3. c.redo \in Seq(Seq(Changes))
    BY <1>1, <1>4, EmptySeq
  <2>4. QED BY <1>2, <2>2, <2>3 DEF Proper, c
<1>5. QED BY <1>3, <1>4

\* So does an undo.
LEMMA ProperUndo ==
    ASSUME NEW d \in DocType, Proper(d), Undo(d).open = Closed
    PROVE  /\ Proper(Undo(d))
           /\ Commit(d).undo # <<>> => Last(Commit(d).undo) \in Seq(Changes)
<1> DEFINE c == Commit(d)
           u == Undo(d)
           tx == Last(c.undo)
<1>1. c \in DocType /\ Proper(c)
  BY CommitFields, ProperCommit
<1>2. CASE c.undo = <<>>
  BY <1>1, <1>2 DEF Undo
<1>3. CASE c.undo # <<>>
  <2>1. u \in DocType /\ u.undo = Front(c.undo) /\ u.redo = Append(c.redo, tx)
    BY <1>1, <1>3, UndoFields DEF Undo
  <2> HIDE DEF c, u
  <2>2. Front(c.undo) \in Seq(Seq(Changes)) /\ tx \in Seq(Changes)
    BY <1>1, <1>3, StackTop DEF Proper
  <2> HIDE DEF tx
  <2>3. Append(c.redo, tx) \in Seq(Seq(Changes))
    BY <1>1, <2>2, AppendProperties DEF Proper
  <2>4. OpenOps(u) \in Seq(Changes)
    <3>1. OpenOps(u) = <<>>
      BY <2>1, OpenType DEF u
    <3>2. QED BY <3>1, EmptySeq
  <2>5. QED BY <2>1, <2>2, <2>3, <2>4 DEF Proper, u, c, tx
<1>4. QED BY <1>2, <1>3

\* So does a redo.
LEMMA ProperRedo ==
    ASSUME NEW d \in DocType, Proper(d), d.open = Closed
    PROVE  /\ Proper(Redo(d))
           /\ d.redo # <<>> => Last(d.redo) \in Seq(Changes)
<1> DEFINE u == Redo(d)
           tx == Last(d.redo)
<1>1. CASE d.redo = <<>>
  BY <1>1 DEF Redo
<1>2. CASE d.redo # <<>>
  <2>1. u \in DocType /\ u.open = Closed /\ u.undo = PushUndo(d.undo, tx) /\ u.redo = Front(d.redo)
    BY <1>2, RedoFields
  <2> HIDE DEF u
  <2>2. Front(d.redo) \in Seq(Seq(Changes)) /\ tx \in Seq(Changes)
    BY <1>2, StackTop DEF Proper
  <2> HIDE DEF tx
  <2>3. PushUndo(d.undo, tx) \in Seq(Seq(Changes))
    BY <2>2, ProperPush DEF Proper
  <2>4. OpenOps(u) \in Seq(Changes)
    <3>1. OpenOps(u) = <<>>
      BY <2>1, OpenType
    <3>2. QED BY <3>1, EmptySeq
  <2>5. QED BY <2>1, <2>2, <2>3, <2>4 DEF Proper, u, tx
<1>3. QED BY <1>1, <1>2

\* The end of a call.
LEMMA FinishEvents ==
    ASSUME Inv, NEW d, Timeline(d, transactions, base), ~d.edited, Finish(d), Proper(d),
           Truth(pending', seen', d.scene)
    PROVE  EventInv'
<1>1. doc' = [d EXCEPT !.out = <<>>]
  BY DEF Finish
<1>2. d \in DocType
  BY TimelineParts DEF Inv, TypeInv
<1>3. doc'.undo = d.undo /\ doc'.redo = d.redo /\ doc'.open = d.open /\ doc'.scene = d.scene
  BY <1>1, <1>2 DEF DocType
<1>4. Proper(doc')
  BY <1>3 DEF Proper, OpenOps, IsOpen
<1>5. Truth(pending', seen', doc'.scene)
  BY <1>3
<1>6. QED BY <1>4, <1>5 DEF EventInv, Proper, Truth, OpenOps, IsOpen

\* A design that was just opened is the one the subscriber saw.
LEMMA InitEvents == Init => EventInv
<1> SUFFICES ASSUME Init PROVE EventInv
  OBVIOUS
<1>1. /\ doc.scene = seen /\ doc.undo = <<>> /\ doc.redo = <<>> /\ doc.open = Closed
      /\ pending = NoEvents
  BY DEF Init, Fresh
<1>2. Proper(doc)
  BY <1>1, EmptySeq DEF Proper, OpenOps, IsOpen
<1>3. Truth(pending, seen, doc.scene)
  BY <1>1 DEF Truth, Tells, NoEvents
<1>4. QED BY <1>2, <1>3 DEF EventInv

\* edit reports what it and the layout did.
LEMMA EditTells ==
    ASSUME Inv, EventInv, Subscribed,
           NEW ops \in Batches(doc.scene), NEW geometry \in Solutions(Applied(doc.scene, ops)),
           Edit(ops, geometry)
    PROVE  EventInv'
<1> DEFINE start == OpenPendingStep(doc)
           d == Settled(ApplyAll(start, ops), geometry)
           all == ops \o geometry
           new == SubSeq(d.open, Len(start.open) + 1, Len(d.open))
<1>1. ops # <<>> /\ Finish(d) /\ Report(EventsOf(new)) /\ seen' = seen
  BY DEF Edit
<1>2. /\ Timeline(d, transactions, base) /\ ~d.edited
      /\ start.open = OpenOps(doc) /\ start.open \in Transactions
      /\ all \in Transactions /\ Runs(doc.scene, all) /\ d.scene = Applied(doc.scene, all)
      /\ d.open = start.open \o all /\ d.open \in Transactions
      /\ d.undo = doc.undo /\ d.redo = doc.redo
  BY <1>1, EditEnds
<1>3. all \in Seq(Changes)
  <2>1. ops \in Seq(Changes) /\ geometry \in Seq(Changes)
    BY CallsChange
  <2>2. QED BY <2>1, ConcatProperties
<1> HIDE DEF d, start, all
<1>4. new = all
  <2> DEFINE so == start.open
  <2>1. so \in Seq(Op) /\ all \in Seq(Op) /\ d.open = so \o all
    BY <1>2 DEF Transactions
  <2> HIDE DEF so
  <2>2. SubSeq(so \o all, Len(so) + 1, Len(so \o all)) = all
    BY <2>1, CutConcat
  <2>3. QED BY <2>1, <2>2 DEF so
<1>5. Truth(pending', seen', d.scene)
  <2>1. pending \in [Nodes -> Kinds] /\ doc.scene \in Scenes /\ Truth(pending, seen, doc.scene)
    BY DEF Inv, TypeInv, EventInv
  <2>2. Truth(PushAll(pending, EventsOf(all)), seen, Applied(doc.scene, all))
    BY <1>2, <1>3, <2>1, OperationsTell
  <2>3. QED BY <1>1, <1>2, <1>4, <2>2 DEF Report
<1>6. Proper(d)
  <2>1. OpenOps(d) = d.open /\ OpenOps(doc) \in Seq(Changes)
    BY <1>2, OpenIsOpen DEF EventInv, Proper
  <2>2. OpenOps(d) = OpenOps(doc) \o all
    BY <1>2, <2>1
  <2>3. OpenOps(d) \in Seq(Changes)
    BY <1>3, <2>1, <2>2, ConcatProperties
  <2>4. QED BY <1>2, <2>3 DEF EventInv, Proper
<1>7. QED BY <1>1, <1>2, <1>5, <1>6, FinishEvents

\* fill_template that fails reports updates of nodes that exist.
LEMMA FillTells ==
    ASSUME Inv, EventInv, Subscribed, NEW o \in OpsAt(doc.scene),
           NEW geometry \in Solutions(Applied(doc.scene, <<o>>)), FillTemplateFails(o, geometry)
    PROVE  EventInv'
<1> DEFINE start == OpenPendingStep(doc)
           d == CatchUp(RollbackOpenTo(Settled(Apply(start, o), geometry), Len(start.open)))
           s == doc.scene
           one == <<o>>
           all == one \o geometry
           ev == EventsOf(all)
<1>1. /\ o.old # Absent /\ o.new # Absent /\ Finish(d) /\ Report(ev) /\ seen' = seen
  BY DEF FillTemplateFails
<1>2. /\ Timeline(d, transactions, base) /\ ~d.edited /\ d.scene = s
      /\ d.open = OpenOps(doc) /\ d.open \in Transactions /\ d.undo = doc.undo /\ d.redo = doc.redo
  BY FillFailsEnds
<1> HIDE DEF d
<1>3. pending \in [Nodes -> Kinds] /\ s \in Scenes /\ Truth(pending, seen, s)
  BY DEF Inv, TypeInv, EventInv
<1>4. o \in Op /\ o.old = s[o.node] /\ one \in Transactions /\ Runs(s, one)
  BY <1>3, OneRuns DEF OpsAt
<1>5. geometry \in Transactions /\ all \in Transactions /\ Applied(s, one) \in Scenes
  BY <1>3, <1>4, SolvedRuns
<1> DEFINE Plain(x) == x.old # Absent /\ x.new # Absent /\ s[x.node] # Absent
<1>6. ASSUME NEW g \in OpsAt(Applied(s, one)), g.old # Absent, g.new # Absent
      PROVE  Plain(g)
  <2>1. g \in Op /\ g.node \in Nodes /\ g.old = Applied(s, one)[g.node]
    BY DEF OpsAt, Op
  <2>2. one \in Seq(Op) /\ Len(one) = 1 /\ one[1] = o /\ 1 \in 1 .. Len(one)
    BY <1>4
  <2> HIDE DEF one
  <2>3. SubSeq(one, 1, 1 - 1) = <<>> /\ SubSeq(one, 1, 1) = one
    <3>1. SubSeq(one, 1, Len(one)) = one
      BY <2>2, SubSeqFull
    <3>2. QED BY <2>2, <3>1, SubSeqEmpty
  <2>4. \A n \in Nodes : n # one[1].node =>
          Applied(s, SubSeq(one, 1, 1 - 1))[n] = Applied(s, SubSeq(one, 1, 1))[n]
    BY <1>3, <1>4, <2>2, StepScenes
  <2>5. g.node # o.node => s[g.node] = Applied(s, one)[g.node]
    BY <1>3, <2>1, <2>2, <2>3, <2>4, NoOps, ZenonT(40)
  <2>6. QED BY <1>1, <1>4, <1>6, <2>1, <2>5
<1>7. \A k \in 1 .. Len(all) : Plain(all[k])
  <2>1. Plain(o)
    BY <1>1, <1>4
  <2>2. CASE geometry = <<>>
    <3>1. all = one
      BY <1>4, <2>2, JoinType
    <3>2. QED BY <2>1, <3>1
  <2>3. CASE geometry # <<>>
    <3>1. PICK g \in OpsAt(Applied(s, one)) : geometry = <<g>> /\ g.old # Absent /\ g.new # Absent
      BY <1>5, <2>3, SolutionType
    <3>2. Plain(g)
      BY <1>6, <3>1
    <3>3. Len(all) = 2 /\ all[1] = o /\ all[2] = g
      BY <3>1
    <3> HIDE DEF Plain, all
    <3>4. QED BY <2>1, <3>2, <3>3
  <2>4. QED BY <2>2, <2>3
<1>8. /\ ev \in Seq(NodeEvent) /\ Len(ev) = Len(all)
      /\ \A k \in 1 .. Len(all) : ev[k] = Forward(all[k])
  BY <1>5, EventsType
<1> HIDE DEF ev, all
<1>9. \A k \in 1 .. Len(ev) : ev[k].kind = "updated" /\ s[ev[k].node] # Absent
  <2>1. ASSUME NEW k \in 1 .. Len(all)
        PROVE  ev[k].kind = "updated" /\ s[ev[k].node] # Absent
    <3> DEFINE x == all[k]
    <3>1. Plain(x) /\ ev[k] = Forward(x)
      BY <1>7, <1>8
    <3> HIDE DEF x
    <3>2. QED BY <3>1 DEF Forward
  <2>2. QED BY <1>8, <2>1
<1>10. Truth(PushAll(pending, ev), seen, s)
  BY <1>3, <1>8, <1>9, UpdatesTell
<1>11. Truth(pending', seen', d.scene)
  BY <1>1, <1>2, <1>10 DEF Report
<1>12. Proper(d)
  BY <1>2, OpenIsOpen DEF EventInv, Proper
<1>13. QED BY <1>1, <1>2, <1>11, <1>12, FinishEvents

\* undo reports the operations it takes back, latest first.
LEMMA UndoTells ==
    ASSUME Inv, EventInv, Subscribed, UndoCall
    PROVE  EventInv'
<1> DEFINE undone == IF OpenOps(doc) # <<>> THEN doc.open
                     ELSE IF doc.undo # <<>> THEN Last(doc.undo) ELSE <<>>
           c == Commit(doc)
           u == Undo(doc)
           d == CatchUp(u)
<1>1. Report(UndoEventsOf(undone)) /\ Finish(d) /\ seen' = seen
  BY DEF UndoCall
<1>2. /\ base \in Scenes /\ Timeline(doc, transactions, base) /\ doc \in DocType
      /\ doc.scene \in Scenes /\ pending \in [Nodes -> Kinds]
      /\ Truth(pending, seen, doc.scene) /\ Proper(doc)
  BY TimelineParts DEF Inv, TypeInv, EventInv
<1>3. /\ Timeline(u, transactions, base) /\ u.open = Closed
      /\ c.undo # <<>> => Runs(u.scene, Last(c.undo)) /\ doc.scene = Applied(u.scene, Last(c.undo))
      /\ c.undo = <<>> => u = c
  BY <1>2, UndoKeeps
<1>4. Proper(u) /\ (c.undo # <<>> => Last(c.undo) \in Seq(Changes))
  BY <1>2, <1>3, ProperUndo
<1>5. /\ c.scene = doc.scene
      /\ OpenOps(doc) = <<>> => c.undo = doc.undo
      /\ OpenOps(doc) # <<>> => c.undo # <<>> /\ Last(c.undo) = doc.open
  <2>1. doc.undo \in Seq(Tx) /\ (OpenOps(doc) # <<>> => doc.open \in Tx)
    BY <1>2, OpenType DEF DocType
  <2>2. /\ c.scene = doc.scene /\ (OpenOps(doc) = <<>> => c.undo = doc.undo)
        /\ OpenOps(doc) # <<>> => c.undo = PushUndo(doc.undo, doc.open)
    BY <1>2, CommitFields
  <2> HIDE DEF c
  <2>3. ASSUME OpenOps(doc) # <<>> PROVE c.undo # <<>> /\ Last(c.undo) = doc.open
    <3>1. PushUndo(doc.undo, doc.open) # <<>> /\ Last(PushUndo(doc.undo, doc.open)) = doc.open
      BY <2>1, <2>3, PushType
    <3>2. QED BY <2>2, <2>3, <3>1
  <2>4. QED BY <2>2, <2>3
<1>6. u \in DocType /\ u.scene \in Scenes
  BY <1>2, <1>3, TimelineParts DEF DocType
<1> HIDE DEF c, u
<1>7. undone \in Seq(Changes) /\ Runs(u.scene, undone) /\ doc.scene = Applied(u.scene, undone)
  <2>1. CASE c.undo # <<>>
    <3>1. undone = Last(c.undo)
      BY <1>5, <2>1
    <3>2. QED BY <1>3, <1>4, <2>1, <3>1
  <2>2. CASE c.undo = <<>>
    <3>1. undone = <<>> /\ u.scene = doc.scene
      BY <1>3, <1>5, <2>2
    <3>2. QED BY <1>2, <3>1, NoOps, EmptySeq
  <2>3. QED BY <2>1, <2>2
<1> HIDE DEF undone
<1>8. Truth(pending', seen', u.scene)
  <2>1. Truth(PushAll(pending, UndoEventsOf(undone)), seen, u.scene)
    BY <1>2, <1>6, <1>7, OperationsTell
  <2>2. QED BY <1>1, <2>1 DEF Report
<1>9. /\ Timeline(d, transactions, base) /\ ~d.edited /\ d.scene = u.scene /\ d.open = u.open
      /\ d.undo = u.undo /\ d.redo = u.redo
  BY <1>2, <1>3, CatchUpKeeps
<1> HIDE DEF d
<1>10. Proper(d)
  BY <1>4, <1>9 DEF Proper, OpenOps, IsOpen
<1>11. QED BY <1>1, <1>8, <1>9, <1>10, FinishEvents

\* redo reports the operations it applies again.
LEMMA RedoTells ==
    ASSUME Inv, EventInv, Subscribed, RedoCall
    PROVE  EventInv'
<1> DEFINE c == IF IsOpen(doc) THEN AbortWith(doc) ELSE doc
           redone == IF c.redo = <<>> THEN <<>> ELSE Last(c.redo)
           u == Redo(c)
           d == CatchUp(u)
<1>1. OpenOps(doc) = <<>> /\ Report(EventsOf(redone)) /\ Finish(d) /\ seen' = seen
  BY DEF RedoCall
<1>2. /\ base \in Scenes /\ doc.scene \in Scenes /\ pending \in [Nodes -> Kinds]
      /\ Truth(pending, seen, doc.scene) /\ Proper(doc)
  BY DEF Inv, TypeInv, EventInv
<1>3. /\ Timeline(c, transactions, base) /\ c \in DocType /\ c.open = Closed
      /\ OpenOps(c) = <<>> /\ c.scene = doc.scene /\ c.undo = doc.undo /\ c.redo = doc.redo
  BY <1>1, RedoStarts
<1> HIDE DEF c
<1>4. Proper(c)
  BY <1>1, <1>2, <1>3 DEF Proper
<1>5. Timeline(u, transactions, base) /\ (c.redo # <<>> => Runs(c.scene, Last(c.redo)))
  BY <1>2, <1>3, RedoKeeps
<1>6. Proper(u) /\ (c.redo # <<>> => Last(c.redo) \in Seq(Changes))
  BY <1>3, <1>4, ProperRedo
<1>7. u.scene = Applied(doc.scene, redone)
  <2>1. CASE c.redo = <<>>
    BY <1>2, <1>3, <2>1, NoOps DEF Redo
  <2>2. CASE c.redo # <<>>
    BY <1>3, <2>2, RedoFields
  <2>3. QED BY <2>1, <2>2
<1>8. redone \in Seq(Changes) /\ Runs(doc.scene, redone)
  BY <1>2, <1>3, <1>5, <1>6, NoOps, EmptySeq
<1> HIDE DEF u, redone
<1>9. Truth(pending', seen', u.scene)
  <2>1. Truth(PushAll(pending, EventsOf(redone)), seen, Applied(doc.scene, redone))
    BY <1>2, <1>8, OperationsTell
  <2>2. QED BY <1>1, <1>7, <2>1 DEF Report
<1>10. /\ Timeline(d, transactions, base) /\ ~d.edited /\ d.scene = u.scene /\ d.open = u.open
       /\ d.undo = u.undo /\ d.redo = u.redo
  BY <1>2, <1>5, CatchUpKeeps
<1> HIDE DEF d
<1>11. Proper(d)
  BY <1>6, <1>10 DEF Proper, OpenOps, IsOpen
<1>12. QED BY <1>1, <1>9, <1>10, <1>11, FinishEvents

\* Every step of a session that nobody edits behind its back keeps the events true.
LEMMA NextEvents ==
    ASSUME Subscribed, ~ProjectEdits
    PROVE  Inv /\ EventInv /\ [Next]_vars => EventInv'
<1> SUFFICES ASSUME Inv, EventInv, [Next]_vars PROVE EventInv'
  OBVIOUS
<1>a. /\ Proper(doc) /\ Truth(pending, seen, doc.scene) /\ doc \in DocType
      /\ base \in Scenes /\ Timeline(doc, transactions, base)
  BY TimelineParts DEF Inv, TypeInv, EventInv
<1>1. ASSUME NEW ops \in Batches(doc.scene), NEW geometry \in Solutions(Applied(doc.scene, ops)),
             Edit(ops, geometry)
      PROVE  EventInv'
  BY <1>1, EditTells
<1>2. ASSUME NEW ops \in Batches(doc.scene), EditFails(ops)
      PROVE  EventInv'
  <2> DEFINE start == OpenPendingStep(doc)
             d == RollbackOpenTo(ApplyAll(start, ops), Len(start.open))
  <2>1. doc' = d /\ pending' = pending /\ seen' = seen
    BY <1>2 DEF EditFails
  <2>2. /\ d.scene = doc.scene /\ d.open = OpenOps(doc) /\ d.open \in Transactions
        /\ d.undo = doc.undo /\ d.redo = doc.redo
    BY EditFailsEnds
  <2> HIDE DEF d
  <2>3. OpenOps(d) = OpenOps(doc)
    BY <2>2, OpenIsOpen
  <2>4. Proper(doc') /\ Truth(pending', seen', doc'.scene)
    BY <1>a, <2>1, <2>2, <2>3 DEF Proper
  <2>5. QED BY <2>4 DEF EventInv, Proper, Truth, OpenOps, IsOpen
<1>3. ASSUME NEW o \in OpsAt(doc.scene), NEW geometry \in Solutions(Applied(doc.scene, <<o>>)),
             FillTemplateFails(o, geometry)
      PROVE  EventInv'
  BY <1>3, FillTells
<1>4. ASSUME NEW geometry \in Solutions(doc.scene), AddUndoStep(geometry)
      PROVE  EventInv'
  <2> DEFINE c == Commit(doc)
             d == Settled(c, geometry)
  <2>1. Finish(d) /\ pending' = pending /\ seen' = seen
    BY <1>4 DEF AddUndoStep
  <2>2. /\ Timeline(d, transactions, base) /\ ~d.edited /\ d.scene = doc.scene /\ d.open = Closed
        /\ d.undo = c.undo /\ d.redo = c.redo
    BY AddUndoStepEnds
  <2>3. Proper(c)
    BY <1>a, ProperCommit
  <2> HIDE DEF d, c
  <2>4. OpenOps(d) \in Seq(Changes)
    BY <2>2, EmptySeq DEF OpenOps, IsOpen
  <2>5. Proper(d)
    BY <2>2, <2>3, <2>4 DEF Proper
  <2>6. Truth(pending', seen', d.scene)
    BY <1>a, <2>1, <2>2
  <2>7. QED BY <2>1, <2>2, <2>5, <2>6, FinishEvents
<1>5. ASSUME UndoCall PROVE EventInv'
  BY <1>5, UndoTells
<1>6. ASSUME RedoCall PROVE EventInv'
  BY <1>6, RedoTells
<1>7. ASSUME PollEvents PROVE EventInv'
  <2>1. doc' = doc /\ pending' = NoEvents /\ seen' = doc.scene
    BY <1>7 DEF PollEvents
  <2>2. Proper(doc') /\ Truth(pending', seen', doc'.scene)
    BY <1>a, <2>1 DEF Truth, Tells, NoEvents
  <2>3. QED BY <2>2 DEF EventInv, Proper, Truth, OpenOps, IsOpen
<1>8. ASSUME UNCHANGED vars PROVE EventInv'
  <2>1. doc' = doc /\ pending' = pending /\ seen' = seen
    BY <1>8 DEF vars
  <2>2. Proper(doc') /\ Truth(pending', seen', doc'.scene)
    BY <1>a, <2>1
  <2>3. QED BY <2>2 DEF EventInv, Proper, Truth, OpenOps, IsOpen
<1>9. \A ops, geometry : /\ ~BatchCommits(ops, geometry) /\ ~BatchRollsBack(ops, geometry)
                         /\ ~TransactionFails(ops)
  BY DEF BatchCommits, BatchRollsBack, TransactionFails
<1>10. QED BY <1>1, <1>2, <1>3, <1>4, <1>5, <1>6, <1>7, <1>8, <1>9 DEF Next

\* A subscriber can tell from the pending events which nodes came, went or may have changed since
\* its last poll (Subscription::push), whatever was edited, undone, redone or rolled back in
\* between, as long as nobody edits the document behind the session's back.
THEOREM EventsAreTrue ==
    ASSUME Subscribed, ~ProjectEdits
    PROVE  Spec => []EventsTellTheTruth
<1>1. EventInv => EventsTellTheTruth
  BY DEF EventInv, Truth, Tells, EventsTellTheTruth
<1>2. Inv /\ EventInv /\ [Next]_vars => Inv' /\ EventInv'
  BY NextInv, NextEvents
<1>3. Init => Inv /\ EventInv
  BY InitInv, InitEvents
<1>4. QED BY <1>1, <1>2, <1>3, PTL DEF Spec
=============================================================================
