------------------------- MODULE DesignSession_proofs -------------------------
(***************************************************************************)
(* The timeline of a design session, for every scene, batch, undo depth    *)
(* and sequence of calls.                                                  *)
(***************************************************************************)
EXTENDS DesignSession, History_proofs

-----------------------------------------------------------------------------
(***************************************************************************)
(* Events taken over one by one.                                           *)
(***************************************************************************)

\* The function Drain is defined by: its value at k is the state after k events.
IsDrain(f, p, ev, m) ==
    f = [k \in 0 .. m |-> IF k = 0 THEN p ELSE Drained(f[k - 1], ev[k])]

\* That function exists.
LEMMA DrainExists ==
    ASSUME NEW n \in Nat, NEW p, NEW ev
    PROVE  \E f : IsDrain(f, p, ev, n)
<1> DEFINE T == {m \in 0 .. n : \E f : IsDrain(f, p, ev, m)}
<1>1. 0 \in T
  <2> DEFINE f == [k \in 0 .. 0 |-> p]
  <2>1. IsDrain(f, p, ev, 0)
    BY DEF IsDrain
  <2> HIDE DEF f
  <2>2. QED BY <2>1
<1>2. ASSUME NEW k \in 1 .. n, k - 1 \in T PROVE k \in T
  <2>1. PICK f : IsDrain(f, p, ev, k - 1)
    BY <1>2
  <2>2. \A i \in 0 .. k - 1 : f[i] = IF i = 0 THEN p ELSE Drained(f[i - 1], ev[i])
    BY <2>1 DEF IsDrain
  <2> DEFINE h == [i \in 0 .. k |-> IF i = k THEN Drained(f[i - 1], ev[i]) ELSE f[i]]
  <2>3. \A i \in 0 .. k : h[i] = IF i = k THEN Drained(f[i - 1], ev[i]) ELSE f[i]
    OBVIOUS
  <2>4. h = [i \in 0 .. k |-> h[i]]
    OBVIOUS
  <2> HIDE DEF h
  <2>5. ASSUME NEW i \in 0 .. k PROVE h[i] = IF i = 0 THEN p ELSE Drained(h[i - 1], ev[i])
    <3>1. i # 0 => i - 1 \in 0 .. k /\ i - 1 # k /\ h[i - 1] = f[i - 1]
      BY <2>3
    <3>2. i # k => i \in 0 .. k - 1
      OBVIOUS
    <3>3. i = k => i # 0
      OBVIOUS
    <3>4. QED BY <2>2, <2>3, <3>1, <3>2, <3>3
  <2>6. IsDrain(h, p, ev, k)
    BY <2>4, <2>5 DEF IsDrain
  <2>7. QED BY <2>6
<1> HIDE DEF T
<1>3. n \in T
  BY <1>1, <1>2, Induct
<1>4. QED BY <1>3 DEF T

\* Drain is its last value.
LEMMA DrainLast ==
    ASSUME NEW S, NEW p, NEW ev \in Seq(S)
    PROVE  \E f : Drain(p, ev) = f[Len(ev)] /\ f[0] = p
                  /\ \A k \in 1 .. Len(ev) : f[k] = Drained(f[k - 1], ev[k])
<1> DEFINE c == CHOOSE f : IsDrain(f, p, ev, Len(ev))
<1>1. Len(ev) \in Nat
  BY LenProperties
<1>2. IsDrain(c, p, ev, Len(ev))
  BY <1>1, DrainExists
<1>3. Drain(p, ev) = c[Len(ev)]
  BY <1>1 DEF Drain, IsDrain
<1> HIDE DEF c
<1>4. \A k \in 0 .. Len(ev) : c[k] = IF k = 0 THEN p ELSE Drained(c[k - 1], ev[k])
  BY <1>2 DEF IsDrain
<1>5. c[0] = p /\ \A k \in 1 .. Len(ev) : c[k] = Drained(c[k - 1], ev[k])
  BY <1>1, <1>4
<1>6. QED BY <1>3, <1>5

\* No events change nothing.
LEMMA DrainNothing ==
    ASSUME NEW p
    PROVE  Drain(p, <<>>) = p
<1> DEFINE z == <<>>
<1>1. z \in Seq({})
  BY EmptySeq
<1>2. Len(z) = 0
  BY EmptySeq
<1> HIDE DEF z
<1>3. PICK f : Drain(p, z) = f[Len(z)] /\ f[0] = p
               /\ \A k \in 1 .. Len(z) : f[k] = Drained(f[k - 1], z[k])
  BY <1>1, DrainLast
<1>4. Drain(p, z) = p
  BY <1>2, <1>3
<1>5. QED BY <1>4 DEF z

\* One more event makes one more step.
LEMMA DrainSteps ==
    ASSUME NEW S, NEW p, NEW ev \in Seq(S), NEW e \in S
    PROVE  Drain(p, Append(ev, e)) = Drained(Drain(p, ev), e)
<1> DEFINE n == Len(ev)
           ew == Append(ev, e)
<1>1. n \in Nat /\ ew \in Seq(S) /\ Len(ew) = n + 1 /\ ew[n + 1] = e
      /\ \A i \in 1 .. n : ew[i] = ev[i]
  BY AppendProperties, LenProperties
<1>2. PICK f : Drain(p, ev) = f[n] /\ f[0] = p
               /\ \A k \in 1 .. n : f[k] = Drained(f[k - 1], ev[k])
  BY DrainLast
<1> HIDE DEF ew
<1>3. PICK h : Drain(p, ew) = h[Len(ew)] /\ h[0] = p
               /\ \A k \in 1 .. Len(ew) : h[k] = Drained(h[k - 1], ew[k])
  BY <1>1, DrainLast
<1> HIDE DEF n
<1>4. \A k \in 1 .. n : k \in 1 .. Len(ew)
  BY <1>1
<1>5. \A k \in 0 .. n : f[k] = h[k]
  <2> DEFINE T == {k \in 0 .. n : f[k] = h[k]}
  <2>1. 0 \in T
    BY <1>1, <1>2, <1>3
  <2>2. ASSUME NEW k \in 1 .. n, k - 1 \in T PROVE k \in T
    BY <1>1, <1>2, <1>3, <1>4, <2>2
  <2> HIDE DEF T
  <2>3. \A k \in 0 .. n : k \in T
    BY <1>1, <2>1, <2>2, Induct
  <2>4. QED BY <2>3 DEF T
<1>6. h[n + 1] = Drained(h[n], e)
  <2>1. n + 1 \in 1 .. Len(ew) /\ (n + 1) - 1 = n
    BY <1>1
  <2>2. h[n + 1] = Drained(h[(n + 1) - 1], ew[n + 1])
    BY <1>3, <2>1
  <2>3. QED BY <1>1, <2>1, <2>2
<1>7. h[n] = f[n]
  BY <1>1, <1>5
<1>8. QED BY <1>1, <1>2, <1>3, <1>6, <1>7 DEF ew

\* The function Record is defined by: its value at k is the state after k events.
IsRecord(f, p, ev, m) ==
    f = [k \in 0 .. m |-> IF k = 0 THEN p ELSE RecordStep(f[k - 1], ev[k])]

\* That function exists.
LEMMA RecordExists ==
    ASSUME NEW n \in Nat, NEW p, NEW ev
    PROVE  \E f : IsRecord(f, p, ev, n)
<1> DEFINE T == {m \in 0 .. n : \E f : IsRecord(f, p, ev, m)}
<1>1. 0 \in T
  <2> DEFINE f == [k \in 0 .. 0 |-> p]
  <2>1. IsRecord(f, p, ev, 0)
    BY DEF IsRecord
  <2> HIDE DEF f
  <2>2. QED BY <2>1
<1>2. ASSUME NEW k \in 1 .. n, k - 1 \in T PROVE k \in T
  <2>1. PICK f : IsRecord(f, p, ev, k - 1)
    BY <1>2
  <2>2. \A i \in 0 .. k - 1 : f[i] = IF i = 0 THEN p ELSE RecordStep(f[i - 1], ev[i])
    BY <2>1 DEF IsRecord
  <2> DEFINE h == [i \in 0 .. k |-> IF i = k THEN RecordStep(f[i - 1], ev[i]) ELSE f[i]]
  <2>3. \A i \in 0 .. k : h[i] = IF i = k THEN RecordStep(f[i - 1], ev[i]) ELSE f[i]
    OBVIOUS
  <2>4. h = [i \in 0 .. k |-> h[i]]
    OBVIOUS
  <2> HIDE DEF h
  <2>5. ASSUME NEW i \in 0 .. k PROVE h[i] = IF i = 0 THEN p ELSE RecordStep(h[i - 1], ev[i])
    <3>1. i # 0 => i - 1 \in 0 .. k /\ i - 1 # k /\ h[i - 1] = f[i - 1]
      BY <2>3
    <3>2. i # k => i \in 0 .. k - 1
      OBVIOUS
    <3>3. i = k => i # 0
      OBVIOUS
    <3>4. QED BY <2>2, <2>3, <3>1, <3>2, <3>3
  <2>6. IsRecord(h, p, ev, k)
    BY <2>4, <2>5 DEF IsRecord
  <2>7. QED BY <2>6
<1> HIDE DEF T
<1>3. n \in T
  BY <1>1, <1>2, Induct
<1>4. QED BY <1>3 DEF T

\* Record is its last value.
LEMMA RecordLast ==
    ASSUME NEW S, NEW p, NEW ev \in Seq(S)
    PROVE  \E f : Record(p, ev) = f[Len(ev)] /\ f[0] = p
                  /\ \A k \in 1 .. Len(ev) : f[k] = RecordStep(f[k - 1], ev[k])
<1> DEFINE c == CHOOSE f : IsRecord(f, p, ev, Len(ev))
<1>1. Len(ev) \in Nat
  BY LenProperties
<1>2. IsRecord(c, p, ev, Len(ev))
  BY <1>1, RecordExists
<1>3. Record(p, ev) = c[Len(ev)]
  BY <1>1 DEF Record, IsRecord
<1> HIDE DEF c
<1>4. \A k \in 0 .. Len(ev) : c[k] = IF k = 0 THEN p ELSE RecordStep(c[k - 1], ev[k])
  BY <1>2 DEF IsRecord
<1>5. c[0] = p /\ \A k \in 1 .. Len(ev) : c[k] = RecordStep(c[k - 1], ev[k])
  BY <1>1, <1>4
<1>6. QED BY <1>3, <1>5

\* No events change nothing.
LEMMA RecordNothing ==
    ASSUME NEW p
    PROVE  Record(p, <<>>) = p
<1> DEFINE z == <<>>
<1>1. z \in Seq({})
  BY EmptySeq
<1>2. Len(z) = 0
  BY EmptySeq
<1> HIDE DEF z
<1>3. PICK f : Record(p, z) = f[Len(z)] /\ f[0] = p
               /\ \A k \in 1 .. Len(z) : f[k] = RecordStep(f[k - 1], z[k])
  BY <1>1, RecordLast
<1>4. Record(p, z) = p
  BY <1>2, <1>3
<1>5. QED BY <1>4 DEF z

\* One more event makes one more step.
LEMMA RecordSteps ==
    ASSUME NEW S, NEW p, NEW ev \in Seq(S), NEW e \in S
    PROVE  Record(p, Append(ev, e)) = RecordStep(Record(p, ev), e)
<1> DEFINE n == Len(ev)
           ew == Append(ev, e)
<1>1. n \in Nat /\ ew \in Seq(S) /\ Len(ew) = n + 1 /\ ew[n + 1] = e
      /\ \A i \in 1 .. n : ew[i] = ev[i]
  BY AppendProperties, LenProperties
<1>2. PICK f : Record(p, ev) = f[n] /\ f[0] = p
               /\ \A k \in 1 .. n : f[k] = RecordStep(f[k - 1], ev[k])
  BY RecordLast
<1> HIDE DEF ew
<1>3. PICK h : Record(p, ew) = h[Len(ew)] /\ h[0] = p
               /\ \A k \in 1 .. Len(ew) : h[k] = RecordStep(h[k - 1], ew[k])
  BY <1>1, RecordLast
<1> HIDE DEF n
<1>4. \A k \in 1 .. n : k \in 1 .. Len(ew)
  BY <1>1
<1>5. \A k \in 0 .. n : f[k] = h[k]
  <2> DEFINE T == {k \in 0 .. n : f[k] = h[k]}
  <2>1. 0 \in T
    BY <1>1, <1>2, <1>3
  <2>2. ASSUME NEW k \in 1 .. n, k - 1 \in T PROVE k \in T
    BY <1>1, <1>2, <1>3, <1>4, <2>2
  <2> HIDE DEF T
  <2>3. \A k \in 0 .. n : k \in T
    BY <1>1, <2>1, <2>2, Induct
  <2>4. QED BY <2>3 DEF T
<1>6. h[n + 1] = RecordStep(h[n], e)
  <2>1. n + 1 \in 1 .. Len(ew) /\ (n + 1) - 1 = n
    BY <1>1
  <2>2. h[n + 1] = RecordStep(h[(n + 1) - 1], ew[n + 1])
    BY <1>3, <2>1
  <2>3. QED BY <1>1, <2>1, <2>2
<1>7. h[n] = f[n]
  BY <1>1, <1>5
<1>8. QED BY <1>1, <1>2, <1>3, <1>6, <1>7 DEF ew

\* The function PushAll is defined by: its value at k is the state after k events.
IsPushAll(f, p, ev, m) ==
    f = [k \in 0 .. m |-> IF k = 0 THEN p ELSE Push(f[k - 1], ev[k])]

\* That function exists.
LEMMA PushAllExists ==
    ASSUME NEW n \in Nat, NEW p, NEW ev
    PROVE  \E f : IsPushAll(f, p, ev, n)
<1> DEFINE T == {m \in 0 .. n : \E f : IsPushAll(f, p, ev, m)}
<1>1. 0 \in T
  <2> DEFINE f == [k \in 0 .. 0 |-> p]
  <2>1. IsPushAll(f, p, ev, 0)
    BY DEF IsPushAll
  <2> HIDE DEF f
  <2>2. QED BY <2>1
<1>2. ASSUME NEW k \in 1 .. n, k - 1 \in T PROVE k \in T
  <2>1. PICK f : IsPushAll(f, p, ev, k - 1)
    BY <1>2
  <2>2. \A i \in 0 .. k - 1 : f[i] = IF i = 0 THEN p ELSE Push(f[i - 1], ev[i])
    BY <2>1 DEF IsPushAll
  <2> DEFINE h == [i \in 0 .. k |-> IF i = k THEN Push(f[i - 1], ev[i]) ELSE f[i]]
  <2>3. \A i \in 0 .. k : h[i] = IF i = k THEN Push(f[i - 1], ev[i]) ELSE f[i]
    OBVIOUS
  <2>4. h = [i \in 0 .. k |-> h[i]]
    OBVIOUS
  <2> HIDE DEF h
  <2>5. ASSUME NEW i \in 0 .. k PROVE h[i] = IF i = 0 THEN p ELSE Push(h[i - 1], ev[i])
    <3>1. i # 0 => i - 1 \in 0 .. k /\ i - 1 # k /\ h[i - 1] = f[i - 1]
      BY <2>3
    <3>2. i # k => i \in 0 .. k - 1
      OBVIOUS
    <3>3. i = k => i # 0
      OBVIOUS
    <3>4. QED BY <2>2, <2>3, <3>1, <3>2, <3>3
  <2>6. IsPushAll(h, p, ev, k)
    BY <2>4, <2>5 DEF IsPushAll
  <2>7. QED BY <2>6
<1> HIDE DEF T
<1>3. n \in T
  BY <1>1, <1>2, Induct
<1>4. QED BY <1>3 DEF T

\* PushAll is its last value.
LEMMA PushAllLast ==
    ASSUME NEW S, NEW p, NEW ev \in Seq(S)
    PROVE  \E f : PushAll(p, ev) = f[Len(ev)] /\ f[0] = p
                  /\ \A k \in 1 .. Len(ev) : f[k] = Push(f[k - 1], ev[k])
<1> DEFINE c == CHOOSE f : IsPushAll(f, p, ev, Len(ev))
<1>1. Len(ev) \in Nat
  BY LenProperties
<1>2. IsPushAll(c, p, ev, Len(ev))
  BY <1>1, PushAllExists
<1>3. PushAll(p, ev) = c[Len(ev)]
  BY <1>1 DEF PushAll, IsPushAll
<1> HIDE DEF c
<1>4. \A k \in 0 .. Len(ev) : c[k] = IF k = 0 THEN p ELSE Push(c[k - 1], ev[k])
  BY <1>2 DEF IsPushAll
<1>5. c[0] = p /\ \A k \in 1 .. Len(ev) : c[k] = Push(c[k - 1], ev[k])
  BY <1>1, <1>4
<1>6. QED BY <1>3, <1>5

\* No events change nothing.
LEMMA PushAllNothing ==
    ASSUME NEW p
    PROVE  PushAll(p, <<>>) = p
<1> DEFINE z == <<>>
<1>1. z \in Seq({})
  BY EmptySeq
<1>2. Len(z) = 0
  BY EmptySeq
<1> HIDE DEF z
<1>3. PICK f : PushAll(p, z) = f[Len(z)] /\ f[0] = p
               /\ \A k \in 1 .. Len(z) : f[k] = Push(f[k - 1], z[k])
  BY <1>1, PushAllLast
<1>4. PushAll(p, z) = p
  BY <1>2, <1>3
<1>5. QED BY <1>4 DEF z

\* One more event makes one more step.
LEMMA PushAllSteps ==
    ASSUME NEW S, NEW p, NEW ev \in Seq(S), NEW e \in S
    PROVE  PushAll(p, Append(ev, e)) = Push(PushAll(p, ev), e)
<1> DEFINE n == Len(ev)
           ew == Append(ev, e)
<1>1. n \in Nat /\ ew \in Seq(S) /\ Len(ew) = n + 1 /\ ew[n + 1] = e
      /\ \A i \in 1 .. n : ew[i] = ev[i]
  BY AppendProperties, LenProperties
<1>2. PICK f : PushAll(p, ev) = f[n] /\ f[0] = p
               /\ \A k \in 1 .. n : f[k] = Push(f[k - 1], ev[k])
  BY PushAllLast
<1> HIDE DEF ew
<1>3. PICK h : PushAll(p, ew) = h[Len(ew)] /\ h[0] = p
               /\ \A k \in 1 .. Len(ew) : h[k] = Push(h[k - 1], ew[k])
  BY <1>1, PushAllLast
<1> HIDE DEF n
<1>4. \A k \in 1 .. n : k \in 1 .. Len(ew)
  BY <1>1
<1>5. \A k \in 0 .. n : f[k] = h[k]
  <2> DEFINE T == {k \in 0 .. n : f[k] = h[k]}
  <2>1. 0 \in T
    BY <1>1, <1>2, <1>3
  <2>2. ASSUME NEW k \in 1 .. n, k - 1 \in T PROVE k \in T
    BY <1>1, <1>2, <1>3, <1>4, <2>2
  <2> HIDE DEF T
  <2>3. \A k \in 0 .. n : k \in T
    BY <1>1, <2>1, <2>2, Induct
  <2>4. QED BY <2>3 DEF T
<1>6. h[n + 1] = Push(h[n], e)
  <2>1. n + 1 \in 1 .. Len(ew) /\ (n + 1) - 1 = n
    BY <1>1
  <2>2. h[n + 1] = Push(h[(n + 1) - 1], ew[n + 1])
    BY <1>3, <2>1
  <2>3. QED BY <1>1, <2>1, <2>2
<1>7. h[n] = f[n]
  BY <1>1, <1>5
<1>8. QED BY <1>1, <1>2, <1>3, <1>6, <1>7 DEF ew

-----------------------------------------------------------------------------
(***************************************************************************)
(* The journal as a log of the transactions in effect.                     *)
(***************************************************************************)

\* The scene that the transactions of a log make of scene b.
Ground(b, log) == Applied(b, FlattenSeq(log))

\* The operations of a log run from scene b.
Valid(b, log) == Runs(b, FlattenSeq(log))

\* The undo stack holds the newest transactions of the log.
Suffix(log, undo) == \E pre \in Seq(Transactions) : log = pre \o undo

\* Logs are of transactions, and what they make of a scene is a scene.
LEMMA GroundType ==
    ASSUME NEW b \in Scenes, NEW log \in Seq(Transactions)
    PROVE  FlattenSeq(log) \in Seq(Op) /\ Ground(b, log) \in Scenes
BY FlatType, SceneType DEF Transactions, Ground

\* A log with another one after it.
LEMMA LogConcat ==
    ASSUME NEW b \in Scenes, NEW l \in Seq(Transactions), NEW m \in Seq(Transactions)
    PROVE  /\ l \o m \in Seq(Transactions)
           /\ Ground(b, l \o m) = Ground(Ground(b, l), m)
           /\ Valid(b, l \o m) <=> Valid(b, l) /\ Valid(Ground(b, l), m)
<1> DEFINE fl == FlattenSeq(l)
           fm == FlattenSeq(m)
<1>1. fl \in Seq(Op) /\ fm \in Seq(Op)
  BY GroundType
<1>2. FlattenSeq(l \o m) = fl \o fm
  BY FlatConcat
<1>3. l \o m \in Seq(Transactions)
  BY ConcatProperties
<1> HIDE DEF fl, fm
<1>4. Applied(b, fl \o fm) = Applied(Applied(b, fl), fm)
  BY <1>1, SceneConcat
<1>5. Runs(b, fl \o fm) <=> Runs(b, fl) /\ Runs(Applied(b, fl), fm)
  BY <1>1, RunsConcat
<1>6. QED BY <1>2, <1>3, <1>4, <1>5, Zenon DEF Ground, Valid, fl, fm

\* One transaction after a log.
LEMMA LogPush ==
    ASSUME NEW b \in Scenes, NEW log \in Seq(Transactions), NEW tx \in Transactions
    PROVE  /\ Append(log, tx) \in Seq(Transactions)
           /\ Ground(b, Append(log, tx)) = Applied(Ground(b, log), tx)
           /\ Valid(b, Append(log, tx)) <=> Valid(b, log) /\ Runs(Ground(b, log), tx)
<1> DEFINE one == <<tx>>
<1>1. one \in Seq(Transactions)
  OBVIOUS
<1>2. FlattenSeq(one) = tx
  BY FlatOne
<1>3. Append(log, tx) = log \o one
  BY AppendIsConcat
<1> HIDE DEF one
<1>4. /\ log \o one \in Seq(Transactions)
      /\ Ground(b, log \o one) = Ground(Ground(b, log), one)
      /\ Valid(b, log \o one) <=> Valid(b, log) /\ Valid(Ground(b, log), one)
  BY <1>1, LogConcat
<1>5. Ground(Ground(b, log), one) = Applied(Ground(b, log), tx)
      /\ (Valid(Ground(b, log), one) <=> Runs(Ground(b, log), tx))
  BY <1>2 DEF Ground, Valid
<1>6. QED BY <1>3, <1>4, <1>5, Zenon

\* Operations that join the last transaction.
LEMMA LogAmend ==
    ASSUME NEW b \in Scenes, NEW log \in Seq(Transactions), NEW tx \in Transactions,
           NEW ops \in Transactions
    PROVE  /\ Append(log, tx \o ops) \in Seq(Transactions)
           /\ Ground(b, Append(log, tx \o ops)) = Applied(Ground(b, Append(log, tx)), ops)
           /\ Valid(b, Append(log, tx \o ops))
                <=> Valid(b, Append(log, tx)) /\ Runs(Ground(b, Append(log, tx)), ops)
<1> DEFINE g == Ground(b, log)
           to == tx \o ops
<1>1. g \in Scenes /\ tx \in Seq(Op) /\ ops \in Seq(Op) /\ to \in Transactions
  BY GroundType, JoinType DEF Transactions
<1>2. Applied(g, to) = Applied(Applied(g, tx), ops)
      /\ (Runs(g, to) <=> Runs(g, tx) /\ Runs(Applied(g, tx), ops))
  <2> HIDE DEF g
  <2>1. QED BY <1>1, SceneConcat, RunsConcat
<1> HIDE DEF g, to
<1>3. /\ Append(log, to) \in Seq(Transactions) /\ Ground(b, Append(log, to)) = Applied(g, to)
      /\ Valid(b, Append(log, to)) <=> Valid(b, log) /\ Runs(g, to)
  BY <1>1, LogPush DEF g
<1>4. /\ Ground(b, Append(log, tx)) = Applied(g, tx)
      /\ Valid(b, Append(log, tx)) <=> Valid(b, log) /\ Runs(g, tx)
  BY LogPush DEF g
<1>5. QED BY <1>2, <1>3, <1>4, Zenon DEF to

\* Logs can be joined in any grouping.
LEMMA LogJoined ==
    ASSUME NEW x \in Seq(Transactions), NEW y \in Seq(Transactions), NEW z \in Seq(Transactions)
    PROVE  (x \o y) \o z = x \o (y \o z)
BY ConcatAssociative

\* A transaction that is pushed on the stack and on the log.
LEMMA SuffixPush ==
    ASSUME NEW log \in Seq(Transactions), NEW undo \in Seq(Transactions), Suffix(log, undo),
           NEW tx \in Transactions
    PROVE  Suffix(Append(log, tx), PushUndo(undo, tx))
<1>1. PICK pre \in Seq(Transactions) : log = pre \o undo
  BY DEF Suffix
<1> DEFINE cut == Dropped(undo)
           kept == Kept(undo)
           all == pre \o cut
<1>2. cut \in Seq(Transactions) /\ kept \in Seq(Transactions) /\ undo = cut \o kept
      /\ PushUndo(undo, tx) = Append(kept, tx)
  BY PushKeeps
<1> HIDE DEF cut, kept
<1>3. all \in Seq(Transactions)
  BY <1>2, ConcatProperties
<1>4. all \o kept = pre \o (cut \o kept)
  BY <1>2, LogJoined, ZenonT(40)
<1> HIDE DEF all
<1>5. all \o Append(kept, tx) = Append(all \o kept, tx)
  BY <1>2, <1>3, AppendConcat
<1>6. Append(log, tx) = all \o PushUndo(undo, tx)
  BY <1>1, <1>2, <1>4, <1>5, Zenon
<1>7. QED BY <1>3, <1>6 DEF Suffix

\* The top of a stack is the top of the log; it can be popped from both and replaced on both.
LEMMA SuffixTop ==
    ASSUME NEW log \in Seq(Transactions), NEW undo \in Seq(Transactions), Suffix(log, undo),
           undo # <<>>
    PROVE  /\ log # <<>> /\ Last(log) = Last(undo) /\ Suffix(Front(log), Front(undo))
           /\ Front(log) \in Seq(Transactions) /\ Last(log) \in Transactions
           /\ log = Append(Front(log), Last(log))
           /\ \A tx \in Transactions : Suffix(Append(Front(log), tx), Append(Front(undo), tx))
<1>1. PICK pre \in Seq(Transactions) : log = pre \o undo
  BY DEF Suffix
<1>2. log # <<>> /\ Front(log) = pre \o Front(undo) /\ Last(log) = Last(undo)
  BY <1>1, TopConcat
<1>3. Front(undo) \in Seq(Transactions)
  BY StackTop
<1>4. Suffix(Front(log), Front(undo))
  BY <1>2 DEF Suffix
<1>5. ASSUME NEW tx \in Transactions PROVE Suffix(Append(Front(log), tx), Append(Front(undo), tx))
  <2> DEFINE r == Front(undo)
  <2>1. r \in Seq(Transactions)
    BY <1>3
  <2> HIDE DEF r
  <2>2. pre \o Append(r, tx) = Append(pre \o r, tx)
    BY <2>1, AppendConcat
  <2>3. Append(Front(log), tx) = pre \o Append(Front(undo), tx)
    BY <1>2, <2>2, Zenon DEF r
  <2>4. QED BY <2>3 DEF Suffix
<1>6. Front(log) \in Seq(Transactions) /\ Last(log) \in Transactions
      /\ log = Append(Front(log), Last(log))
  BY <1>2, StackTop
<1>7. QED BY <1>2, <1>4, <1>5, <1>6

\* The journal's newest transactions hold the whole undo stack.
LEMMA SuffixRecent ==
    ASSUME NEW log \in Seq(Transactions), NEW undo \in Seq(Transactions), Suffix(log, undo),
           Len(undo) <= MaxDepth
    PROVE  /\ Old(log) \in Seq(Transactions) /\ Recent(log) \in Seq(Transactions)
           /\ log = Old(log) \o Recent(log) /\ Suffix(Recent(log), undo)
<1> DEFINE n == Len(log)
           m == IF n > MaxDepth THEN n - MaxDepth ELSE 0
           old == SubSeq(log, 1, m)
           new == SubSeq(log, m + 1, n)
<1>1. n \in Nat /\ MaxDepth \in Nat \ {0} /\ \A i \in 1 .. n : log[i] \in Transactions
  BY HistoryAssumption, LenProperties, ElementOfSeq
<1>2. m \in 0 .. n /\ (m = n - MaxDepth \/ (m = 0 /\ n - MaxDepth < 1))
  <2> HIDE DEF n
  <2>1. CASE n > MaxDepth
    <3>1. m = n - MaxDepth
      BY <2>1
    <3>2. n - MaxDepth \in 0 .. n
      BY <1>1, <2>1
    <3> HIDE DEF m
    <3>3. QED BY <3>1, <3>2
  <2>2. CASE ~(n > MaxDepth)
    <3>1. m = 0 /\ n - MaxDepth < 1
      BY <1>1, <2>2
    <3>2. QED BY <1>1, <3>1
  <2>3. QED BY <2>1, <2>2
<1> HIDE DEF m
<1>3. old \in Seq(Transactions) /\ Len(old) = m
  <2>1. m \in Int /\ 1 \in Int /\ m \in Nat /\ \A i \in 1 .. m : log[i] \in Transactions
    BY <1>1, <1>2
  <2>2. Len(old) = IF 1 <= m THEN m - 1 + 1 ELSE 0
    BY <2>1, SubSeqProperties
  <2>3. old \in Seq(Transactions)
    BY <2>1, SubSeqProperties
  <2> HIDE DEF old
  <2>4. QED BY <2>1, <2>2, <2>3
<1>4. new \in Seq(Transactions)
  <2> DEFINE lo == m + 1
  <2>1. lo \in Int /\ n \in Int /\ \A i \in lo .. n : log[i] \in Transactions
    BY <1>1, <1>2
  <2> HIDE DEF n, lo
  <2>2. SubSeq(log, lo, n) \in Seq(Transactions)
    BY <2>1, SubSeqProperties
  <2>3. QED BY <2>2 DEF lo
<1>5. Old(log) = old
  <2>1. CASE m = n - MaxDepth
    BY <2>1 DEF Old
  <2>2. CASE m = 0 /\ n - MaxDepth < 1
    <3>1. SubSeq(log, 1, n - MaxDepth) = <<>> /\ SubSeq(log, 1, 0) = <<>>
      <4>1. n - MaxDepth \in Int /\ 1 \in Int /\ 0 \in Int
        BY <1>1
      <4> HIDE DEF n
      <4>2. QED BY <2>2, <4>1, SubSeqEmpty
    <3>2. QED BY <2>2, <3>1 DEF Old
  <2>3. QED BY <1>2, <2>1, <2>2
<1>6. Recent(log) = new
  <2>1. 1 + m = m + 1
    BY <1>1, <1>2
  <2> HIDE DEF old, n
  <2>2. QED BY <1>3, <1>5, <2>1 DEF Recent, n
<1>7. log = old \o new
  <2>1. 1 \in 1 .. n + 1 /\ m \in 1 - 1 .. n /\ n \in m .. n
    BY <1>1, <1>2
  <2>2. old \o new = SubSeq(log, 1, n)
    BY <2>1, ConcatAdjacentSubSeq
  <2>3. QED BY <2>2, SubSeqFull
<1>8. Suffix(new, undo)
  <2>1. PICK pre \in Seq(Transactions) : log = pre \o undo
    BY DEF Suffix
  <2> DEFINE p == Len(pre)
             q == SubSeq(pre, m + 1, p)
  <2>2. p \in Nat /\ n = p + Len(undo) /\ Len(undo) \in Nat
    BY <2>1, ConcatProperties, LenProperties
  <2>3. m \in 0 .. p
    BY <1>1, <1>2, <2>2
  <2>4. pre = SubSeq(pre, 1, m) \o q
    <3>1. 1 \in 1 .. p + 1 /\ m \in 1 - 1 .. p /\ p \in m .. p
      BY <2>2, <2>3
    <3>2. SubSeq(pre, 1, m) \o q = SubSeq(pre, 1, p)
      BY <3>1, ConcatAdjacentSubSeq
    <3>3. QED BY <3>2, SubSeqFull
  <2>5. SubSeq(log, 1, m) = SubSeq(pre, 1, m)
    BY <2>1, <2>3, PrefixConcat
  <2>6. q \in Seq(Transactions)
    <3> DEFINE lo == m + 1
    <3>1. lo \in Int /\ p \in Int /\ \A i \in lo .. p : pre[i] \in Transactions
      BY <2>2, <2>3, ElementOfSeq
    <3> HIDE DEF p, lo
    <3>2. SubSeq(pre, lo, p) \in Seq(Transactions)
      BY <3>1, SubSeqProperties
    <3>3. QED BY <3>2 DEF lo
  <2> HIDE DEF q, old, new, p
  <2>7. old = SubSeq(pre, 1, m)
    BY <2>5 DEF old
  <2>8. log = (old \o q) \o undo
    BY <2>1, <2>4, <2>7
  <2>9. (old \o q) \o undo = old \o (q \o undo) /\ q \o undo \in Seq(Transactions)
    <3>1. q \o undo \in Seq(Transactions)
      BY <2>6, ConcatProperties
    <3>2. QED BY <1>3, <2>6, <3>1, LogJoined, ZenonT(40)
  <2>10. old \o new = old \o (q \o undo)
    BY <1>7, <2>8, <2>9, Zenon
  <2>11. new = q \o undo
    BY <1>3, <1>4, <2>9, <2>10, ConcatSimplifications
  <2>12. QED BY <2>6, <2>11 DEF Suffix
<1> HIDE DEF old, new
<1>9. QED BY <1>3, <1>4, <1>5, <1>6, <1>7, <1>8, Zenon

-----------------------------------------------------------------------------
(***************************************************************************)
(* Documents.                                                              *)
(***************************************************************************)
Tx == Transactions \ {<<>>}
Event == [kind : {"commit", "redo", "amend", "undo"}, ops : Tx]
DocType == [scene : Scenes, undo : Seq(Tx), redo : Seq(Tx), open : Transactions \cup {Closed},
            edited : BOOLEAN, out : Seq(Event)]

\* The history of document d is linear, relative to a log of the transactions in effect: they lead
\* from scene b to the last closed step, the pending operations lead on from there to the
\* scene, and so would the undone steps.
Linear(d, log, b) ==
    /\ d \in DocType /\ log \in Seq(Transactions)
    /\ Len(d.undo) + Len(d.redo) <= MaxDepth
    /\ Suffix(log, d.undo)
    /\ Valid(b, log)
    /\ Runs(Ground(b, log), OpenOps(d)) /\ d.scene = Applied(Ground(b, log), OpenOps(d))
    /\ Valid(Ground(b, log), Reverse(d.redo))

\* The same for the journal t and the events it has not taken over yet.
Timeline(d, t, b) == Linear(d, Drain(t, d.out), b)

\* No operations do nothing.
LEMMA NoOps ==
    ASSUME NEW s \in Scenes
    PROVE  /\ <<>> \in Seq(Op) /\ Applied(s, <<>>) = s /\ Reverted(s, <<>>) = s /\ Runs(s, <<>>)
           /\ Valid(s, <<>>) /\ Ground(s, <<>>) = s
<1> DEFINE z == <<>>
<1>1. z \in Seq(Op) /\ DOMAIN z = {}
  BY EmptySeq
<1> HIDE DEF z
<1>2. \A n \in Nodes : Touching(z, n) = {}
  BY <1>1 DEF Touching
<1>3. Applied(s, z) = s /\ Reverted(s, z) = s
  <2>1. \A n \in Nodes : Applied(s, z)[n] = s[n] /\ Reverted(s, z)[n] = s[n]
    BY <1>2 DEF Applied, Reverted
  <2>2. QED BY <1>1, <2>1, SceneType, SceneEqual
<1>4. Runs(s, z)
  BY <1>1 DEF Runs
<1>5. QED BY <1>1, <1>3, <1>4, FlatEmpty DEF z, Valid, Ground

\* Steps on the stacks are transactions.
LEMMA StackType ==
    ASSUME NEW u \in Seq(Tx)
    PROVE  u \in Seq(Transactions) /\ Len(u) \in Nat
<1>1. Tx \subseteq Transactions
  BY DEF Tx
<1>2. QED BY <1>1, SeqMonotonic, LenProperties

\* What the undo stack is after a push.
LEMMA PushType ==
    ASSUME NEW u \in Seq(Tx), NEW tx \in Tx
    PROVE  /\ PushUndo(u, tx) \in Seq(Tx) /\ PushUndo(u, tx) # <<>> /\ Last(PushUndo(u, tx)) = tx
           /\ Len(PushUndo(u, tx)) <= MaxDepth
           /\ Len(u) < MaxDepth => PushUndo(u, tx) = Append(u, tx)
           /\ \A y \in Tx : Append(Front(PushUndo(u, tx)), y) = PushUndo(u, y)
<1> DEFINE k == Kept(u)
<1>1. k \in Seq(Tx) /\ Len(k) < MaxDepth /\ (Len(u) < MaxDepth => k = u)
      /\ \A y \in Tx : PushUndo(u, y) = Append(k, y)
  BY PushKeeps
<1> HIDE DEF k
<1>2. Append(k, tx) \in Seq(Tx) /\ Append(k, tx) # <<>> /\ Front(Append(k, tx)) = k
      /\ Last(Append(k, tx)) = tx
  BY <1>1, TopAppend
<1>3. Len(Append(k, tx)) <= MaxDepth
  <2>1. Len(Append(k, tx)) = Len(k) + 1 /\ Len(k) \in Nat /\ MaxDepth \in Nat
    BY <1>1, AppendProperties, LenProperties, HistoryAssumption
  <2>2. QED BY <1>1, <2>1
<1>4. QED BY <1>1, <1>2, <1>3

\* Events carry transactions.
LEMMA EmitType ==
    ASSUME NEW kind \in {"commit", "redo", "amend", "undo"}, NEW tx \in Tx
    PROVE  /\ Emit(kind, tx) \in Event /\ Emit(kind, tx).kind = kind /\ Emit(kind, tx).ops = tx
BY DEF Emit, Event

\* The pending operations are a transaction.
LEMMA OpenType ==
    ASSUME NEW d \in DocType
    PROVE  /\ OpenOps(d) \in Transactions /\ OpenOps(d) \in Seq(Op)
           /\ OpenOps(d) # <<>> => OpenOps(d) = d.open /\ d.open \in Tx
           /\ d.open = Closed => OpenOps(d) = <<>>
           /\ d.open # Closed => OpenOps(d) = d.open
<1>1. <<>> \in Transactions
  BY EmptySeq DEF Transactions
<1>2. d.open \in Transactions \cup {Closed}
  BY DEF DocType
<1>3. OpenOps(d) \in Transactions
  BY <1>1, <1>2 DEF OpenOps, IsOpen
<1>4. QED BY <1>2, <1>3 DEF OpenOps, IsOpen, Tx, Transactions

\* What a commit leaves of a document.
LEMMA CommitFields ==
    ASSUME NEW d \in DocType
    PROVE  /\ Commit(d) \in DocType /\ Commit(d).scene = d.scene /\ Commit(d).open = Closed
           /\ Commit(d).edited = d.edited
           /\ OpenOps(d) = <<>> => Commit(d).undo = d.undo /\ Commit(d).redo = d.redo
                                   /\ Commit(d).out = d.out
           /\ OpenOps(d) # <<>> =>
                /\ Commit(d).undo = PushUndo(d.undo, d.open) /\ Commit(d).redo = <<>>
                /\ Commit(d).out = Append(d.out, Emit("commit", d.open))
<1> DEFINE c == [d EXCEPT !.open = Closed]
<1>1. c \in DocType /\ c.scene = d.scene /\ c.open = Closed /\ c.edited = d.edited
      /\ c.undo = d.undo /\ c.redo = d.redo /\ c.out = d.out
  BY DEF DocType
<1>2. CASE OpenOps(d) = <<>>
  <2>1. Commit(d) = c
    BY <1>2 DEF Commit
  <2>2. QED BY <1>1, <1>2, <2>1
<1>3. CASE OpenOps(d) # <<>>
  <2>1. Commit(d) = Recorded(c, d.open)
    BY <1>3 DEF Commit
  <2>2. d.open \in Tx
    BY <1>3, OpenType
  <2> DEFINE u == PushUndo(d.undo, d.open)
             o == Append(d.out, Emit("commit", d.open))
  <2>3. u \in Seq(Tx)
    BY <2>2, PushType DEF DocType
  <2>4. o \in Seq(Event)
    <3>1. d.out \in Seq(Event) /\ Emit("commit", d.open) \in Event
      BY <2>2, EmitType DEF DocType
    <3>2. QED BY <3>1, AppendProperties
  <2>5. <<>> \in Seq(Tx)
    BY EmptySeq
  <2> HIDE DEF c
  <2>6. Recorded(c, d.open) = [c EXCEPT !.undo = u, !.redo = <<>>, !.out = o]
    BY <1>1 DEF Recorded
  <2> HIDE DEF u, o
  <2>7. /\ [c EXCEPT !.undo = u, !.redo = <<>>, !.out = o] \in DocType
        /\ [c EXCEPT !.undo = u, !.redo = <<>>, !.out = o].scene = c.scene
        /\ [c EXCEPT !.undo = u, !.redo = <<>>, !.out = o].open = c.open
        /\ [c EXCEPT !.undo = u, !.redo = <<>>, !.out = o].edited = c.edited
        /\ [c EXCEPT !.undo = u, !.redo = <<>>, !.out = o].undo = u
        /\ [c EXCEPT !.undo = u, !.redo = <<>>, !.out = o].redo = <<>>
        /\ [c EXCEPT !.undo = u, !.redo = <<>>, !.out = o].out = o
    BY <1>1, <2>3, <2>4, <2>5 DEF DocType
  <2>8. QED BY <1>1, <1>3, <2>1, <2>6, <2>7 DEF u, o
<1>4. QED BY <1>2, <1>3

\* The log after one more event.
LEMMA DrainedLog ==
    ASSUME NEW log \in Seq(Transactions), NEW e \in Event
    PROVE  /\ e.kind \in {"commit", "redo"} => Drained(log, e) = Append(log, e.ops)
           /\ e.kind = "amend" /\ log # <<>> => Drained(log, e) = Append(Front(log), e.ops)
           /\ e.kind = "undo" /\ log # <<>> => Drained(log, e) = Front(log)
<1>1. e.ops \in Transactions
  BY DEF Event, Tx
<1>2. log # <<>> => [log EXCEPT ![Len(log)] = e.ops] = Append(Front(log), e.ops)
  BY <1>1, TopReplaced
<1>3. ASSUME e.kind = "amend", log # <<>> PROVE Drained(log, e) = Append(Front(log), e.ops)
  <2>1. Drained(log, e) = [log EXCEPT ![Len(log)] = e.ops]
    BY <1>3 DEF Drained
  <2>2. QED BY <1>2, <1>3, <2>1
<1>4. QED BY <1>3 DEF Drained

\* The log of a document that has emitted one more event.
LEMMA LogEmitted ==
    ASSUME NEW d \in DocType, NEW t, NEW e \in Event, NEW out, out = Append(d.out, e)
    PROVE  Drain(t, out) = Drained(Drain(t, d.out), e)
<1>1. d.out \in Seq(Event)
  BY DEF DocType
<1>2. QED BY <1>1, DrainSteps

\* A commit keeps the history linear.
LEMMA CommitKeeps ==
    ASSUME NEW d, NEW t, NEW b \in Scenes, Timeline(d, t, b)
    PROVE  Timeline(Commit(d), t, b)
<1> DEFINE c == Commit(d)
           log == Drain(t, d.out)
           g == Ground(b, log)
<1>1. d \in DocType /\ log \in Seq(Transactions) /\ Linear(d, log, b)
  BY DEF Timeline, Linear
<1>2. g \in Scenes
  BY <1>1, GroundType
<1>3. /\ c \in DocType /\ c.scene = d.scene /\ c.open = Closed
      /\ OpenOps(d) = <<>> => c.undo = d.undo /\ c.redo = d.redo /\ c.out = d.out
      /\ OpenOps(d) # <<>> => /\ c.undo = PushUndo(d.undo, d.open) /\ c.redo = <<>>
                              /\ c.out = Append(d.out, Emit("commit", d.open))
  BY <1>1, CommitFields
<1> HIDE DEF c, log
<1>4. OpenOps(c) = <<>>
  BY <1>3, OpenType
<1>5. CASE OpenOps(d) = <<>>
  <2>1. Linear(c, log, b)
    BY <1>1, <1>3, <1>4, <1>5 DEF Linear
  <2>2. QED BY <1>3, <1>5, <2>1 DEF Timeline, log, c
<1>6. CASE OpenOps(d) # <<>>
  <2> DEFINE e == Emit("commit", d.open)
             new == Append(log, d.open)
  <2>1. d.open = OpenOps(d) /\ d.open \in Tx /\ d.open \in Transactions
    BY <1>1, <1>6, OpenType DEF Tx
  <2>2. e \in Event /\ e.kind = "commit" /\ e.ops = d.open
    BY <2>1, EmitType
  <2> HIDE DEF e
  <2>3. Drain(t, c.out) = new
    <3>1. c.out = Append(d.out, e)
      BY <1>3, <1>6 DEF e
    <3>2. Drain(t, c.out) = Drained(log, e)
      BY <1>1, <2>2, <3>1, LogEmitted DEF log
    <3>3. QED BY <1>1, <2>2, <3>2, DrainedLog
  <2>4. new \in Seq(Transactions) /\ Ground(b, new) = Applied(g, d.open) /\ Valid(b, new)
    <3>1. Valid(b, log) /\ Runs(g, d.open)
      BY <1>1, <2>1 DEF Linear
    <3>2. QED BY <1>1, <2>1, <3>1, LogPush
  <2>5. Ground(b, new) = c.scene /\ c.scene \in Scenes
    <3>1. d.scene = Applied(g, d.open)
      BY <1>1, <2>1 DEF Linear
    <3>2. QED BY <1>3, <2>4, <3>1 DEF DocType
  <2>6. Suffix(new, c.undo) /\ Len(c.undo) <= MaxDepth /\ Len(c.undo) \in Nat
    <3>1. d.undo \in Seq(Tx) /\ Suffix(log, d.undo)
      BY <1>1 DEF Linear, DocType
    <3>2. d.undo \in Seq(Transactions)
      BY <3>1, StackType
    <3>3. Suffix(new, PushUndo(d.undo, d.open))
      BY <1>1, <2>1, <3>1, <3>2, SuffixPush
    <3>4. Len(PushUndo(d.undo, d.open)) <= MaxDepth /\ PushUndo(d.undo, d.open) \in Seq(Tx)
      BY <2>1, <3>1, PushType
    <3>5. QED BY <1>3, <1>6, <3>3, <3>4, StackType
  <2> HIDE DEF new
  <2>7. Len(c.undo) + Len(c.redo) <= MaxDepth
    <3>1. Len(c.redo) = 0
      BY <1>3, <1>6, EmptySeq
    <3>2. MaxDepth \in Nat
      BY HistoryAssumption
    <3>3. QED BY <2>6, <3>1, <3>2
  <2>8. Reverse(c.redo) = <<>>
    BY <1>3, <1>6, EmptySeq DEF Reverse
  <2>9. Linear(c, new, b)
    BY <1>3, <1>4, <2>4, <2>5, <2>6, <2>7, <2>8, NoOps DEF Linear
  <2>10. QED BY <2>3, <2>9 DEF Timeline, c
<1>7. QED BY <1>5, <1>6

\* A document with the same steps whose pending operations lead to its scene.
LEMMA SamePast ==
    ASSUME NEW d, NEW t, NEW b, Timeline(d, t, b), NEW e \in DocType,
           e.undo = d.undo, e.redo = d.redo, e.out = d.out,
           Runs(Ground(b, Drain(t, d.out)), OpenOps(e)),
           e.scene = Applied(Ground(b, Drain(t, d.out)), OpenOps(e))
    PROVE  Timeline(e, t, b)
<1> DEFINE log == Drain(t, d.out)
<1>1. Linear(d, log, b)
  BY DEF Timeline
<1> HIDE DEF log
<1>2. Linear(e, log, b)
  BY <1>1 DEF Linear, log
<1>3. QED BY <1>2 DEF Timeline, log

\* A document's pending operations run from its last closed step.
LEMMA TimelineParts ==
    ASSUME NEW d, NEW t, NEW b \in Scenes, Timeline(d, t, b)
    PROVE  /\ d \in DocType /\ Drain(t, d.out) \in Seq(Transactions)
           /\ Ground(b, Drain(t, d.out)) \in Scenes
           /\ Runs(Ground(b, Drain(t, d.out)), OpenOps(d))
           /\ d.scene = Applied(Ground(b, Drain(t, d.out)), OpenOps(d))
BY GroundType DEF Timeline, Linear

\* An open transaction is told from none.
LEMMA OpenIsOpen ==
    ASSUME NEW d, d.open \in Transactions
    PROVE  IsOpen(d) /\ OpenOps(d) = d.open
BY HistoryAssumption DEF IsOpen, OpenOps, Transactions

\* The pending step, opened where there is none.
LEMMA OpenKeeps ==
    ASSUME NEW d, NEW t, NEW b \in Scenes, Timeline(d, t, b)
    PROVE  LET s == OpenPendingStep(d)
           IN  /\ Timeline(s, t, b) /\ s \in DocType /\ s.open \in Transactions /\ s.open = OpenOps(d)
               /\ s.scene = d.scene /\ s.edited = d.edited
               /\ s.undo = d.undo /\ s.redo = d.redo /\ s.out = d.out
<1>1. d \in DocType
  BY TimelineParts
<1>2. CASE IsOpen(d)
  <2>1. OpenPendingStep(d) = d
    BY <1>2 DEF OpenPendingStep
  <2>2. OpenOps(d) = d.open /\ d.open \in Transactions
    BY <1>1, <1>2, OpenType DEF IsOpen
  <2>3. QED BY <1>1, <2>1, <2>2
<1>3. CASE ~IsOpen(d)
  <2> DEFINE c == Commit(d)
             s == [c EXCEPT !.open = <<>>]
  <2>1. OpenPendingStep(d) = s
    BY <1>3 DEF OpenPendingStep, Begin
  <2>2. OpenOps(d) = <<>>
    BY <1>3 DEF OpenOps
  <2>3. /\ c \in DocType /\ c.scene = d.scene /\ c.edited = d.edited
        /\ c.undo = d.undo /\ c.redo = d.redo /\ c.out = d.out
    BY <1>1, <2>2, CommitFields
  <2>4. <<>> \in Transactions
    BY EmptySeq DEF Transactions
  <2> HIDE DEF c
  <2>5. /\ s \in DocType /\ s.open = <<>> /\ s.scene = c.scene /\ s.edited = c.edited
        /\ s.undo = c.undo /\ s.redo = c.redo /\ s.out = c.out
    BY <2>3, <2>4 DEF DocType
  <2> HIDE DEF s
  <2>6. OpenOps(s) = <<>>
    BY <2>4, <2>5, OpenIsOpen
  <2>7. Timeline(s, t, b)
    BY <2>2, <2>3, <2>5, <2>6, SamePast, TimelineParts
  <2>8. QED BY <2>1, <2>2, <2>3, <2>4, <2>5, <2>7
<1>4. QED BY <1>2, <1>3

\* begin commits what is pending and opens the next step.
LEMMA BeginKeeps ==
    ASSUME NEW d, NEW t, NEW b \in Scenes, Timeline(d, t, b)
    PROVE  LET s == Begin(d)
           IN  /\ Timeline(s, t, b) /\ s \in DocType /\ s.open = <<>> /\ s.open \in Transactions
               /\ s.scene = d.scene /\ s.edited = d.edited
               /\ s.undo = Commit(d).undo /\ s.redo = Commit(d).redo /\ s.out = Commit(d).out
<1> DEFINE c == Commit(d)
           s == [c EXCEPT !.open = <<>>]
<1>1. d \in DocType
  BY TimelineParts
<1>2. c \in DocType /\ c.scene = d.scene /\ c.edited = d.edited /\ c.open = Closed
  BY <1>1, CommitFields
<1>3. Timeline(c, t, b)
  BY CommitKeeps
<1>4. <<>> \in Transactions
  BY EmptySeq DEF Transactions
<1>5. Begin(d) = s
  BY DEF Begin
<1> HIDE DEF c
<1>6. /\ s \in DocType /\ s.open = <<>> /\ s.scene = c.scene /\ s.edited = c.edited
      /\ s.undo = c.undo /\ s.redo = c.redo /\ s.out = c.out
  BY <1>2, <1>4 DEF DocType
<1> HIDE DEF s
<1>7. OpenOps(s) = <<>> /\ OpenOps(c) = <<>>
  BY <1>2, <1>4, <1>6, OpenIsOpen, OpenType
<1>8. Timeline(s, t, b)
  BY <1>3, <1>6, <1>7, SamePast, TimelineParts
<1>9. QED BY <1>2, <1>4, <1>5, <1>6, <1>8 DEF c

\* Operations applied in the open transaction.
LEMMA ApplyAllKeeps ==
    ASSUME NEW d, NEW t, NEW b \in Scenes, Timeline(d, t, b), d.open \in Transactions,
           NEW ops \in Transactions, Runs(d.scene, ops)
    PROVE  LET s == ApplyAll(d, ops)
           IN  /\ Timeline(s, t, b) /\ s \in DocType /\ s.open = d.open \o ops
               /\ s.open \in Transactions
               /\ s.scene = Applied(d.scene, ops) /\ (ops # <<>> => s.edited)
               /\ s.undo = d.undo /\ s.redo = d.redo /\ s.out = d.out
<1> DEFINE g == Ground(b, Drain(t, d.out))
           o == d.open
           to == d.open \o ops
           s == [d EXCEPT !.scene = Applied(@, ops), !.edited = TRUE, !.open = @ \o ops]
<1>1. /\ d \in DocType /\ g \in Scenes /\ o = OpenOps(d) /\ Runs(g, o)
      /\ d.scene = Applied(g, o) /\ o \in Seq(Op) /\ ops \in Seq(Op)
  BY TimelineParts, OpenIsOpen DEF Transactions
<1>2. to \in Transactions /\ o \o <<>> = o
  BY JoinType
<1>3. CASE ops = <<>>
  <2>1. ApplyAll(d, ops) = d
    BY <1>3 DEF ApplyAll
  <2>2. Applied(d.scene, ops) = d.scene
    BY <1>1, <1>3, NoOps DEF DocType
  <2>3. QED BY <1>1, <1>2, <1>3, <2>1, <2>2
<1>4. CASE ops # <<>>
  <2>1. ApplyAll(d, ops) = s
    BY <1>4 DEF ApplyAll
  <2>2. Applied(d.scene, ops) \in Scenes
    BY <1>1, SceneType DEF DocType
  <2>3. /\ s \in DocType /\ s.scene = Applied(d.scene, ops) /\ s.edited /\ s.open = to
        /\ s.undo = d.undo /\ s.redo = d.redo /\ s.out = d.out
    BY <1>1, <1>2, <2>2 DEF DocType
  <2> HIDE DEF s
  <2>4. OpenOps(s) = to
    BY <1>2, <2>3, OpenIsOpen
  <2> HIDE DEF g, o
  <2>5. Runs(g, o \o ops) /\ Applied(g, o \o ops) = Applied(Applied(g, o), ops)
    BY <1>1, RunsConcat, SceneConcat
  <2>6. Timeline(s, t, b)
    <3>1. Runs(g, OpenOps(s)) /\ s.scene = Applied(g, OpenOps(s))
      BY <1>1, <2>3, <2>4, <2>5 DEF o
    <3>2. QED BY <2>3, <3>1, SamePast DEF g
  <2>7. QED BY <1>2, <2>1, <2>3, <2>6
<1>5. QED BY <1>3, <1>4

\* Rolling back the operations of one call leaves the ones before it.
LEMMA RollbackKeeps ==
    ASSUME NEW d, NEW t, NEW b \in Scenes, Timeline(d, t, b),
           NEW a \in Transactions, NEW ops \in Transactions, d.open = a \o ops
    PROVE  LET s == RollbackOpenTo(d, Len(a))
           IN  /\ Timeline(s, t, b) /\ s \in DocType /\ s.open = a
               /\ s.scene = Applied(Ground(b, Drain(t, d.out)), a)
               /\ s.undo = d.undo /\ s.redo = d.redo /\ s.out = d.out
<1> DEFINE g == Ground(b, Drain(t, d.out))
           s == [d EXCEPT !.scene = Reverted(@, ops), !.open = a, !.edited = TRUE]
<1>1. /\ d \in DocType /\ g \in Scenes /\ Runs(g, OpenOps(d)) /\ d.scene = Applied(g, OpenOps(d))
  BY TimelineParts
<1>2. d.open \in Transactions /\ a \o <<>> = a /\ a \in Seq(Op) /\ ops \in Seq(Op)
  BY JoinType DEF Transactions
<1>3. OpenOps(d) = a \o ops
  BY <1>2, OpenIsOpen
<1>4. /\ SubSeq(OpenOps(d), 1, Len(a)) = a
      /\ SubSeq(OpenOps(d), Len(a) + 1, Len(OpenOps(d))) = ops
      /\ Len(OpenOps(d)) <= Len(a) <=> ops = <<>>
  BY <1>2, <1>3, CutConcat
<1>5. CASE ops = <<>>
  <2>1. RollbackOpenTo(d, Len(a)) = d
    BY <1>4, <1>5 DEF RollbackOpenTo
  <2>2. QED BY <1>1, <1>2, <1>3, <1>5, <2>1
<1>6. CASE ops # <<>>
  <2>1. RollbackOpenTo(d, Len(a)) = s
    BY <1>4, <1>6 DEF RollbackOpenTo
  <2> HIDE DEF g
  <2>2. Runs(g, a) /\ Runs(Applied(g, a), ops) /\ d.scene = Applied(Applied(g, a), ops)
        /\ Applied(g, a) \in Scenes
    BY <1>1, <1>2, <1>3, RunsConcat, SceneConcat, SceneType
  <2>3. Reverted(d.scene, ops) = Applied(g, a)
    BY <1>2, <2>2, RevertUndoes
  <2>4. /\ s \in DocType /\ s.scene = Applied(g, a) /\ s.open = a
        /\ s.undo = d.undo /\ s.redo = d.redo /\ s.out = d.out
    BY <1>1, <2>2, <2>3 DEF DocType
  <2> HIDE DEF s
  <2>5. OpenOps(s) = a
    BY <2>4, OpenIsOpen
  <2>6. Timeline(s, t, b)
    BY <2>2, <2>4, <2>5, SamePast DEF g
  <2>7. QED BY <2>1, <2>4, <2>6 DEF g
<1>7. QED BY <1>5, <1>6

\* Aborting leaves the last closed step.
LEMMA AbortKeeps ==
    ASSUME NEW d, NEW t, NEW b \in Scenes, Timeline(d, t, b), d.open \in Transactions
    PROVE  LET s == AbortWith(d)
           IN  /\ Timeline(s, t, b) /\ s \in DocType /\ s.open = Closed
               /\ s.scene = Ground(b, Drain(t, d.out))
               /\ s.undo = d.undo /\ s.redo = d.redo /\ s.out = d.out
<1> DEFINE g == Ground(b, Drain(t, d.out))
           z == <<>>
           r == RollbackOpenTo(d, 0)
           s == [r EXCEPT !.open = Closed]
<1>1. z \in Transactions /\ Len(z) = 0 /\ z \o d.open = d.open
  BY EmptySeq, JoinType DEF Transactions
<1> HIDE DEF z
<1>2. g \in Scenes
  BY TimelineParts
<1>3. /\ Timeline(r, t, b) /\ r \in DocType /\ r.open = z /\ r.scene = Applied(g, z)
      /\ r.undo = d.undo /\ r.redo = d.redo /\ r.out = d.out
  BY <1>1, RollbackKeeps, SMTT(40)
<1>4. Applied(g, z) = g /\ Runs(g, z)
  BY <1>2, NoOps DEF z
<1>5. AbortWith(d) = s
  BY DEF AbortWith
<1> HIDE DEF r
<1>6. /\ s \in DocType /\ s.open = Closed /\ s.scene = r.scene
      /\ s.undo = r.undo /\ s.redo = r.redo /\ s.out = r.out
  BY <1>3 DEF DocType
<1> HIDE DEF s
<1>7. OpenOps(s) = z
  BY <1>6, OpenType DEF z
<1>8. Timeline(s, t, b)
  BY <1>3, <1>4, <1>6, <1>7, SamePast
<1>9. QED BY <1>3, <1>4, <1>5, <1>6, <1>8

\* A solved layout is all that catching up changes.
LEMMA CatchUpKeeps ==
    ASSUME NEW d, NEW t, NEW b \in Scenes, Timeline(d, t, b)
    PROVE  LET s == CatchUp(d)
           IN  /\ Timeline(s, t, b) /\ s \in DocType /\ ~s.edited /\ s.scene = d.scene
               /\ s.open = d.open /\ s.undo = d.undo /\ s.redo = d.redo /\ s.out = d.out
<1> DEFINE s == CatchUp(d)
<1>1. d \in DocType
  BY TimelineParts
<1>2. /\ s \in DocType /\ ~s.edited /\ s.scene = d.scene
      /\ s.open = d.open /\ s.undo = d.undo /\ s.redo = d.redo /\ s.out = d.out
  BY <1>1 DEF DocType, CatchUp
<1> HIDE DEF s
<1>3. OpenOps(s) = OpenOps(d)
  BY <1>2 DEF OpenOps, IsOpen
<1>4. Timeline(s, t, b)
  BY <1>2, <1>3, SamePast, TimelineParts
<1>5. QED BY <1>2, <1>4 DEF s

\* Geometry that joins the pending step.
LEMMA DerivedJoinsOpen ==
    ASSUME NEW d, d \in DocType, d.open \in Transactions, NEW ops \in Transactions, ops # <<>>
    PROVE  ApplyDerived(d, ops) = ApplyAll(d, ops)
<1>1. IsOpen(d)
  BY OpenIsOpen
<1>2. QED BY <1>1 DEF ApplyDerived, ApplyAll, DocType

\* Geometry that joins the step just committed.
LEMMA AmendFields ==
    ASSUME NEW d \in DocType, d.open = Closed, d.undo # <<>>, NEW ops \in Transactions
    PROVE  LET s == ApplyDerived(d, ops)
               tx == Last(d.undo) \o ops
           IN  /\ tx \in Tx /\ Last(d.undo) \in Tx
               /\ s \in DocType /\ s.scene = Applied(d.scene, ops) /\ s.open = Closed /\ s.edited
               /\ s.undo = Append(Front(d.undo), tx) /\ s.redo = d.redo
               /\ s.out = Append(d.out, Emit("amend", tx))
<1> DEFINE n == Len(d.undo)
           tx == Last(d.undo) \o ops
           u == [d.undo EXCEPT ![n] = tx]
           o == Append(d.out, Emit("amend", tx))
           v == Append(Front(d.undo), tx)
           c == Applied(d.scene, ops)
           s == [d EXCEPT !.scene = c, !.edited = TRUE, !.undo = u, !.out = o]
<1>1. d.undo \in Seq(Tx) /\ d.out \in Seq(Event) /\ d.scene \in Scenes
  BY DEF DocType
<1>2. Last(d.undo) \in Tx /\ Front(d.undo) \in Seq(Tx)
  BY <1>1, StackTop
<1>3. tx \in Tx
  <2>1. Last(d.undo) \in Transactions /\ Last(d.undo) # <<>>
    BY <1>2 DEF Tx
  <2> DEFINE l == Last(d.undo)
  <2> HIDE DEF l
  <2>2. l \o ops \in Transactions
    BY <2>1, JoinType DEF l
  <2>3. l \o ops # <<>>
    <3>1. l \in Seq(Op) /\ ops \in Seq(Op) /\ l # <<>>
      BY <2>1 DEF Transactions, l
    <3>2. QED BY <3>1, ConcatSimplifications
  <2>4. QED BY <2>2, <2>3 DEF Tx, l
<1>4. c \in Scenes
  BY <1>1, SceneType DEF Transactions
<1> HIDE DEF tx
<1>5. u = v /\ v \in Seq(Tx)
  <2> DEFINE w == d.undo
  <2>1. w \in Seq(Tx) /\ w # <<>> /\ Front(w) \in Seq(Tx)
    BY <1>1, <1>2
  <2> HIDE DEF w
  <2>2. [w EXCEPT ![Len(w)] = tx] = Append(Front(w), tx)
    BY <1>3, <2>1, TopReplaced
  <2>3. Append(Front(w), tx) \in Seq(Tx)
    BY <1>3, <2>1, AppendProperties
  <2>4. QED BY <2>2, <2>3 DEF w
<1>6. o \in Seq(Event)
  <2>1. Emit("amend", tx) \in Event
    BY <1>3, EmitType
  <2>2. QED BY <1>1, <2>1, AppendProperties
<1>7. ApplyDerived(d, ops) = s
  <2>1. ~IsOpen(d)
    BY DEF IsOpen
  <2>2. tx = d.undo[n] \o ops
    BY DEF tx, Last
  <2> HIDE DEF o, c
  <2>3. ApplyDerived(d, ops) = [[d EXCEPT !.scene = c, !.edited = TRUE]
                                  EXCEPT !.undo[n] = tx, !.out = o]
    BY <2>1, <2>2 DEF ApplyDerived, o, c, DocType
  <2>4. QED BY <2>3 DEF DocType
<1> HIDE DEF u, v, o, c
<1>8. /\ s \in DocType /\ s.scene = c /\ s.open = Closed /\ s.edited
      /\ s.undo = u /\ s.redo = d.redo /\ s.out = o
  BY <1>4, <1>5, <1>6 DEF DocType
<1>9. QED BY <1>2, <1>3, <1>5, <1>7, <1>8 DEF tx, v, o, c

\* It keeps the history linear where nothing was undone.
LEMMA AmendKeeps ==
    ASSUME NEW d, NEW t, NEW b \in Scenes, Timeline(d, t, b), d.open = Closed, d.undo # <<>>,
           d.redo = <<>>, NEW ops \in Transactions, Runs(d.scene, ops)
    PROVE  Timeline(ApplyDerived(d, ops), t, b)
<1> DEFINE s == ApplyDerived(d, ops)
           log == Drain(t, d.out)
           f == Front(log)
           tx == Last(d.undo)
           e == Emit("amend", tx \o ops)
           new == Append(f, tx \o ops)
           g == Ground(b, log)
<1>1. /\ d \in DocType /\ log \in Seq(Transactions) /\ g \in Scenes
      /\ Runs(g, OpenOps(d)) /\ d.scene = Applied(g, OpenOps(d))
  BY TimelineParts
<1>2. OpenOps(d) = <<>>
  BY <1>1, OpenType
<1>3. d.scene = g
  BY <1>1, <1>2, NoOps
<1>4. /\ tx \o ops \in Tx /\ tx \in Tx
      /\ s \in DocType /\ s.scene = Applied(d.scene, ops) /\ s.open = Closed
      /\ s.undo = Append(Front(d.undo), tx \o ops) /\ s.redo = d.redo
      /\ s.out = Append(d.out, Emit("amend", tx \o ops))
  BY <1>1, AmendFields
<1>5. Linear(d, log, b)
  BY DEF Timeline
<1>6. d.undo \in Seq(Tx) /\ d.undo \in Seq(Transactions) /\ Suffix(log, d.undo)
  BY <1>1, <1>5, StackType DEF Linear, DocType
<1> HIDE DEF log
<1>7. /\ log # <<>> /\ Last(log) = tx /\ f \in Seq(Transactions) /\ log = Append(f, tx)
      /\ \A x \in Transactions : Suffix(Append(f, x), Append(Front(d.undo), x))
  BY <1>1, <1>6, SuffixTop
<1>8. tx \in Transactions /\ tx \o ops \in Transactions
  BY <1>4 DEF Tx
<1> HIDE DEF f, tx, s, g
<1>9. /\ new \in Seq(Transactions) /\ Ground(b, new) = Applied(Ground(b, log), ops)
      /\ Valid(b, new) <=> Valid(b, log) /\ Runs(Ground(b, log), ops)
  BY <1>7, <1>8, LogAmend
<1>10. Valid(b, new) /\ Ground(b, new) = s.scene
  BY <1>3, <1>4, <1>5, <1>9 DEF Linear, g
<1>11. Drain(t, s.out) = new
  <2>1. e \in Event /\ e.kind = "amend" /\ e.ops = tx \o ops
    BY <1>4, EmitType
  <2> HIDE DEF e
  <2>2. s.out = Append(d.out, e)
    BY <1>4 DEF e
  <2>3. Drain(t, s.out) = Drained(log, e)
    BY <1>1, <2>1, <2>2, LogEmitted DEF log
  <2>4. QED BY <1>1, <1>7, <2>1, <2>3, DrainedLog DEF f
<1>12. Suffix(new, s.undo)
  BY <1>4, <1>7, <1>8
<1>13. Len(s.undo) + Len(s.redo) <= MaxDepth
  <2>1. Front(d.undo) \in Seq(Tx) /\ Len(Front(d.undo)) = Len(d.undo) - 1 /\ Len(d.undo) \in Nat
    BY <1>6, StackTop, StackType
  <2>2. Len(s.undo) = Len(Front(d.undo)) + 1
    BY <1>4, <2>1, AppendProperties
  <2>3. Len(s.undo) = Len(d.undo)
    BY <2>1, <2>2
  <2>4. QED BY <1>4, <1>5, <2>3 DEF Linear
<1>14. OpenOps(s) = <<>>
  BY <1>4, OpenType
<1>15. Reverse(s.redo) = <<>>
  BY <1>4, EmptySeq DEF Reverse
<1> HIDE DEF new
<1>16. s.scene \in Scenes
  BY <1>4 DEF DocType
<1>17. Linear(s, new, b)
  BY <1>4, <1>9, <1>10, <1>12, <1>13, <1>14, <1>15, <1>16, NoOps DEF Linear
<1>18. QED BY <1>11, <1>17 DEF Timeline, s

\* The end of a call that may take geometry over.
LEMMA SettledKeeps ==
    ASSUME NEW d, NEW t, NEW b \in Scenes, Timeline(d, t, b),
           NEW ops \in Transactions, Runs(d.scene, ops), ops = <<>> \/ (d.edited /\ MayDerive(d))
    PROVE  LET s == Settled(d, ops)
           IN  /\ Timeline(s, t, b) /\ s \in DocType /\ ~s.edited /\ s.scene = Applied(d.scene, ops)
               /\ d.open \in Transactions =>
                    s.open = d.open \o ops /\ s.undo = d.undo /\ s.redo = d.redo /\ s.out = d.out
               /\ d.open = Closed => s.open = Closed
<1>1. d \in DocType
  BY TimelineParts
<1>2. CASE ops = <<>>
  <2>1. Settled(d, ops) = CatchUp(d)
    BY <1>2 DEF Settled
  <2>2. Applied(d.scene, ops) = d.scene
    BY <1>1, <1>2, NoOps DEF DocType
  <2>3. d.open \in Transactions => d.open \o ops = d.open
    BY <1>2, JoinType
  <2>4. /\ Timeline(CatchUp(d), t, b) /\ CatchUp(d) \in DocType /\ ~CatchUp(d).edited
        /\ CatchUp(d).scene = d.scene /\ CatchUp(d).open = d.open
        /\ CatchUp(d).undo = d.undo /\ CatchUp(d).redo = d.redo /\ CatchUp(d).out = d.out
    BY CatchUpKeeps
  <2>5. QED BY <2>1, <2>2, <2>3, <2>4
<1>3. CASE ops # <<>> /\ d.open \in Transactions
  <2> DEFINE a == ApplyAll(d, ops)
  <2>1. /\ Timeline(a, t, b) /\ a.open = d.open \o ops /\ a.scene = Applied(d.scene, ops)
        /\ a.undo = d.undo /\ a.redo = d.redo /\ a.out = d.out
    BY <1>3, ApplyAllKeeps
  <2>2. Settled(d, ops) = CatchUp(a)
    BY <1>1, <1>3, DerivedJoinsOpen DEF Settled
  <2>3. d.open # Closed
    BY <1>3, HistoryAssumption DEF Transactions
  <2> HIDE DEF a
  <2>4. /\ Timeline(CatchUp(a), t, b) /\ CatchUp(a) \in DocType /\ ~CatchUp(a).edited
        /\ CatchUp(a).scene = a.scene /\ CatchUp(a).open = a.open
        /\ CatchUp(a).undo = a.undo /\ CatchUp(a).redo = a.redo /\ CatchUp(a).out = a.out
    BY <2>1, CatchUpKeeps
  <2>5. QED BY <1>3, <2>1, <2>2, <2>3, <2>4
<1>4. CASE ops # <<>> /\ d.open = Closed
  <2> DEFINE a == ApplyDerived(d, ops)
  <2>1. d.undo # <<>> /\ d.redo = <<>>
    BY <1>4 DEF MayDerive, IsOpen
  <2>2. Timeline(a, t, b)
    BY <1>4, <2>1, AmendKeeps
  <2>3. a.scene = Applied(d.scene, ops) /\ a.open = Closed
    BY <1>1, <1>4, <2>1, AmendFields
  <2>4. Settled(d, ops) = CatchUp(a)
    BY <1>4 DEF Settled
  <2>5. d.open \notin Transactions
    BY <1>4, HistoryAssumption DEF Transactions
  <2> HIDE DEF a
  <2>6. /\ Timeline(CatchUp(a), t, b) /\ CatchUp(a) \in DocType /\ ~CatchUp(a).edited
        /\ CatchUp(a).scene = a.scene /\ CatchUp(a).open = a.open
        /\ CatchUp(a).undo = a.undo /\ CatchUp(a).redo = a.redo /\ CatchUp(a).out = a.out
    BY <2>2, CatchUpKeeps
  <2>7. QED BY <1>4, <2>2, <2>3, <2>4, <2>5, <2>6
<1>5. d.open \in Transactions \/ d.open = Closed
  BY <1>1 DEF DocType
<1>6. QED BY <1>2, <1>3, <1>4, <1>5

\* What undoing the last step leaves of a document without a pending one.
LEMMA UndoFields ==
    ASSUME NEW c \in DocType, c.undo # <<>>
    PROVE  LET tx == Last(c.undo)
               s == [c EXCEPT !.scene = Reverted(@, tx), !.edited = TRUE, !.undo = Front(@),
                              !.redo = Append(@, tx), !.out = Append(@, Emit("undo", tx))]
           IN  /\ tx \in Tx /\ s \in DocType /\ s.scene = Reverted(c.scene, tx) /\ s.open = c.open
               /\ s.undo = Front(c.undo) /\ s.redo = Append(c.redo, tx)
               /\ s.out = Append(c.out, Emit("undo", tx))
<1> DEFINE tx == Last(c.undo)
           f == Front(c.undo)
           r == Append(c.redo, tx)
           o == Append(c.out, Emit("undo", tx))
           v == Reverted(c.scene, tx)
<1>1. c.undo \in Seq(Tx) /\ c.redo \in Seq(Tx) /\ c.out \in Seq(Event) /\ c.scene \in Scenes
  BY DEF DocType
<1>2. tx \in Tx /\ f \in Seq(Tx)
  BY <1>1, StackTop
<1> HIDE DEF tx
<1>3. r \in Seq(Tx)
  BY <1>1, <1>2, AppendProperties
<1>4. o \in Seq(Event)
  <2>1. Emit("undo", tx) \in Event
    BY <1>2, EmitType
  <2>2. QED BY <1>1, <2>1, AppendProperties
<1>5. v \in Scenes
  BY <1>1, <1>2, SceneType DEF Tx, Transactions
<1> HIDE DEF f, r, o, v
<1>6. [c EXCEPT !.scene = v, !.edited = TRUE, !.undo = f, !.redo = r, !.out = o] \in DocType
  BY <1>2, <1>3, <1>4, <1>5 DEF DocType
<1>7. QED BY <1>2, <1>6 DEF DocType, tx, f, r, o, v

\* Undo keeps the history linear.
LEMMA UndoKeeps ==
    ASSUME NEW d, NEW t, NEW b \in Scenes, Timeline(d, t, b)
    PROVE  /\ Timeline(Undo(d), t, b) /\ Undo(d).open = Closed
           /\ Commit(d).undo # <<>> =>
                /\ Runs(Undo(d).scene, Last(Commit(d).undo))
                /\ d.scene = Applied(Undo(d).scene, Last(Commit(d).undo))
           /\ Commit(d).undo = <<>> => Undo(d) = Commit(d)
<1> DEFINE c == Commit(d)
           tx == Last(c.undo)
           s == [c EXCEPT !.scene = Reverted(@, tx), !.edited = TRUE, !.undo = Front(@),
                          !.redo = Append(@, tx), !.out = Append(@, Emit("undo", tx))]
<1>1. Timeline(c, t, b) /\ c \in DocType /\ c.open = Closed /\ c.scene = d.scene
  BY CommitKeeps, CommitFields, TimelineParts
<1>2. Undo(d) = IF c.undo = <<>> THEN c ELSE s
  BY DEF Undo
<1> HIDE DEF c
<1>3. CASE c.undo = <<>>
  BY <1>1, <1>2, <1>3 DEF c
<1>4. CASE c.undo # <<>>
  <2> DEFINE log == Drain(t, c.out)
             f == Front(log)
             g == Ground(b, log)
             h == Ground(b, f)
             e == Emit("undo", tx)
  <2>1. /\ tx \in Tx /\ s \in DocType /\ s.scene = Reverted(c.scene, tx) /\ s.open = c.open
        /\ s.undo = Front(c.undo) /\ s.redo = Append(c.redo, tx)
        /\ s.out = Append(c.out, Emit("undo", tx))
    BY <1>1, <1>4, UndoFields
  <2>2. log \in Seq(Transactions) /\ g \in Scenes /\ c.scene = Applied(g, OpenOps(c))
    BY <1>1, TimelineParts
  <2>3. c.scene = g
    BY <1>1, <2>2, OpenType, NoOps
  <2>4. Linear(c, log, b)
    BY <1>1 DEF Timeline
  <2>5. c.undo \in Seq(Tx) /\ c.undo \in Seq(Transactions) /\ Suffix(log, c.undo)
        /\ c.redo \in Seq(Tx) /\ c.redo \in Seq(Transactions)
    BY <1>1, <2>4, StackType DEF Linear, DocType
  <2> HIDE DEF log
  <2>6. /\ log # <<>> /\ Last(log) = tx /\ f \in Seq(Transactions) /\ log = Append(f, tx)
        /\ Suffix(f, Front(c.undo))
    BY <1>4, <2>2, <2>5, SuffixTop
  <2>7. tx \in Transactions /\ tx \in Seq(Op) /\ h \in Scenes
    BY <2>1, <2>6, GroundType DEF Tx, Transactions
  <2> HIDE DEF f, tx, s, g, h
  <2>8. Valid(b, f) /\ Runs(h, tx) /\ g = Applied(h, tx)
    <3>1. Valid(b, log)
      BY <2>4 DEF Linear
    <3>2. /\ Ground(b, Append(f, tx)) = Applied(h, tx)
          /\ Valid(b, Append(f, tx)) <=> Valid(b, f) /\ Runs(h, tx)
      BY <2>6, <2>7, LogPush DEF h
    <3>3. QED BY <2>6, <3>1, <3>2 DEF g
  <2>9. s.scene = h
    BY <2>1, <2>3, <2>7, <2>8, RevertUndoes
  <2>10. Drain(t, s.out) = f
    <3>1. e \in Event /\ e.kind = "undo"
      BY <2>1, EmitType
    <3> HIDE DEF e
    <3>2. s.out = Append(c.out, e)
      BY <2>1 DEF e
    <3>3. Drain(t, s.out) = Drained(log, e)
      BY <1>1, <3>1, <3>2, LogEmitted DEF log
    <3>4. QED BY <2>2, <2>6, <3>1, <3>3, DrainedLog DEF f
  <2>11. Len(s.undo) + Len(s.redo) <= MaxDepth
    <3> DEFINE u == Len(c.undo)
               r == Len(c.redo)
    <3>1. Len(Front(c.undo)) = u - 1
      BY <1>4, <2>5, StackTop
    <3>2. Len(Append(c.redo, tx)) = r + 1
      BY <2>1, <2>5, AppendProperties
    <3>3. u \in Nat /\ r \in Nat /\ MaxDepth \in Nat
      BY <2>5, StackType, HistoryAssumption
    <3>4. u + r <= MaxDepth
      BY <2>4 DEF Linear
    <3>5. Len(s.undo) = u - 1 /\ Len(s.redo) = r + 1
      BY <2>1, <3>1, <3>2
    <3> HIDE DEF u, r
    <3>6. (u - 1) + (r + 1) <= MaxDepth
      BY <3>3, <3>4
    <3>7. QED BY <3>5, <3>6
  <2>12. OpenOps(s) = <<>>
    BY <1>1, <2>1, OpenType
  <2>13. Valid(h, Reverse(s.redo))
    <3> DEFINE r == Reverse(c.redo)
               one == <<tx>>
    <3>1. Reverse(s.redo) = one \o r /\ r \in Seq(Transactions)
      BY <2>1, <2>5, <2>7, ReverseAppend
    <3>2. one \in Seq(Transactions) /\ FlattenSeq(one) = tx
      BY <2>7, FlatOne
    <3> HIDE DEF one, r
    <3>3. Valid(h, one \o r) <=> Valid(h, one) /\ Valid(Ground(h, one), r)
      BY <2>7, <3>1, <3>2, LogConcat
    <3>4. Valid(h, one) /\ Ground(h, one) = g
      BY <2>8, <3>2 DEF Valid, Ground
    <3>5. Valid(g, r)
      BY <2>4 DEF Linear, g, r
    <3>6. QED BY <3>1, <3>3, <3>4, <3>5
  <2>14. Linear(s, f, b)
    BY <2>1, <2>6, <2>7, <2>8, <2>9, <2>11, <2>12, <2>13, NoOps DEF Linear, h
  <2>15. Timeline(s, t, b)
    BY <2>10, <2>14 DEF Timeline
  <2>16. QED BY <1>1, <1>2, <1>4, <2>1, <2>3, <2>8, <2>9, <2>15 DEF tx, c
<1>5. QED BY <1>3, <1>4

\* What redoing a step makes of a document.
LEMMA RedoFields ==
    ASSUME NEW d \in DocType, d.redo # <<>>
    PROVE  LET tx == Last(d.redo)
               s == Redo(d)
           IN  /\ tx \in Tx /\ s \in DocType /\ s.scene = Applied(d.scene, tx) /\ s.open = d.open
               /\ s.undo = PushUndo(d.undo, tx) /\ s.redo = Front(d.redo)
               /\ s.out = Append(d.out, Emit("redo", tx))
<1> DEFINE tx == Last(d.redo)
           u == PushUndo(d.undo, tx)
           r == Front(d.redo)
           o == Append(d.out, Emit("redo", tx))
           v == Applied(d.scene, tx)
<1>1. d.undo \in Seq(Tx) /\ d.redo \in Seq(Tx) /\ d.out \in Seq(Event) /\ d.scene \in Scenes
  BY DEF DocType
<1>2. tx \in Tx /\ r \in Seq(Tx)
  BY <1>1, StackTop
<1> HIDE DEF tx
<1>3. u \in Seq(Tx)
  BY <1>1, <1>2, PushType
<1>4. o \in Seq(Event)
  <2>1. Emit("redo", tx) \in Event
    BY <1>2, EmitType
  <2>2. QED BY <1>1, <2>1, AppendProperties
<1>5. v \in Scenes
  BY <1>1, <1>2, SceneType DEF Tx, Transactions
<1>6. Redo(d) = [d EXCEPT !.scene = v, !.edited = TRUE, !.redo = r, !.undo = u, !.out = o]
  BY DEF Redo, tx, DocType
<1> HIDE DEF u, r, o, v
<1>7. [d EXCEPT !.scene = v, !.edited = TRUE, !.redo = r, !.undo = u, !.out = o] \in DocType
  BY <1>2, <1>3, <1>4, <1>5 DEF DocType
<1>8. QED BY <1>2, <1>6, <1>7 DEF DocType, tx, u, r, o, v

\* Redo keeps the history linear when no step is pending.
LEMMA RedoKeeps ==
    ASSUME NEW d, NEW t, NEW b \in Scenes, Timeline(d, t, b), OpenOps(d) = <<>>, d.open = Closed
    PROVE  Timeline(Redo(d), t, b) /\ (d.redo # <<>> => Runs(d.scene, Last(d.redo)))
<1>1. d \in DocType
  BY TimelineParts
<1>2. CASE d.redo = <<>>
  BY <1>2 DEF Redo
<1>3. CASE d.redo # <<>>
  <2> DEFINE tx == Last(d.redo)
             s == Redo(d)
             log == Drain(t, d.out)
             g == Ground(b, log)
             new == Append(log, tx)
             e == Emit("redo", tx)
             r == Reverse(Front(d.redo))
  <2>1. /\ tx \in Tx /\ s \in DocType /\ s.scene = Applied(d.scene, tx) /\ s.open = d.open
        /\ s.undo = PushUndo(d.undo, tx) /\ s.redo = Front(d.redo)
        /\ s.out = Append(d.out, Emit("redo", tx))
    BY <1>1, <1>3, RedoFields
  <2>2. log \in Seq(Transactions) /\ g \in Scenes /\ d.scene = Applied(g, OpenOps(d))
    BY TimelineParts
  <2>3. d.scene = g
    BY <2>2, NoOps
  <2>4. Linear(d, log, b)
    BY DEF Timeline
  <2>5. d.undo \in Seq(Tx) /\ d.undo \in Seq(Transactions) /\ Suffix(log, d.undo)
        /\ d.redo \in Seq(Tx) /\ d.redo \in Seq(Transactions)
    BY <1>1, <2>4, StackType DEF Linear, DocType
  <2>6. tx \in Transactions /\ tx \in Seq(Op)
    BY <2>1 DEF Tx, Transactions
  <2>7. Front(d.redo) \in Seq(Transactions) /\ d.redo = Append(Front(d.redo), tx)
        /\ Len(Front(d.redo)) = Len(d.redo) - 1
    BY <1>3, <2>5, StackTop
  <2> HIDE DEF log, g, tx, s
  <2>8. Runs(g, tx) /\ Valid(Applied(g, tx), r)
    <3> DEFINE one == <<tx>>
    <3>1. Reverse(d.redo) = one \o r /\ r \in Seq(Transactions)
      <4> DEFINE q == Front(d.redo)
      <4> HIDE DEF q
      <4>1. q \in Seq(Transactions) /\ d.redo = Append(q, tx)
        BY <2>7 DEF q
      <4>2. Reverse(Append(q, tx)) = <<tx>> \o Reverse(q) /\ Reverse(q) \in Seq(Transactions)
        BY <2>6, <4>1, ReverseAppend
      <4>3. QED BY <4>1, <4>2 DEF q
    <3>2. one \in Seq(Transactions) /\ FlattenSeq(one) = tx
      BY <2>6, FlatOne
    <3> HIDE DEF one, r
    <3>3. Valid(g, one \o r) <=> Valid(g, one) /\ Valid(Ground(g, one), r)
      BY <2>2, <3>1, <3>2, LogConcat
    <3>4. Valid(g, one \o r)
      BY <2>4, <3>1 DEF Linear, g
    <3>5. QED BY <3>2, <3>3, <3>4 DEF Valid, Ground
  <2>9. new \in Seq(Transactions) /\ Ground(b, new) = Applied(g, tx) /\ Valid(b, new)
    <3>1. Valid(b, log)
      BY <2>4 DEF Linear
    <3>2. QED BY <2>2, <2>6, <2>8, <3>1, LogPush DEF g
  <2>10. Drain(t, s.out) = new
    <3>1. e \in Event /\ e.kind = "redo" /\ e.ops = tx
      BY <2>1, EmitType
    <3> HIDE DEF e
    <3>2. s.out = Append(d.out, e)
      BY <2>1 DEF e
    <3>3. Drain(t, s.out) = Drained(log, e)
      BY <1>1, <3>1, <3>2, LogEmitted DEF log
    <3>4. QED BY <2>2, <3>1, <3>3, DrainedLog
  <2>11. Suffix(new, s.undo)
    BY <2>1, <2>2, <2>5, <2>6, SuffixPush
  <2>12. Len(s.undo) + Len(s.redo) <= MaxDepth
    <3> DEFINE m == Len(d.undo)
               n == Len(d.redo)
    <3>1. m \in Nat /\ n \in Nat /\ MaxDepth \in Nat /\ n # 0
      BY <1>3, <2>5, StackType, EmptySeq, HistoryAssumption
    <3>2. m + n <= MaxDepth
      BY <2>4 DEF Linear
    <3>3. m < MaxDepth /\ (m + 1) + (n - 1) <= MaxDepth
      <4> HIDE DEF m, n
      <4>1. QED BY <3>1, <3>2
    <3>4. s.undo = Append(d.undo, tx)
      BY <2>1, <2>5, <3>3, PushType
    <3>5. Len(s.undo) = m + 1
      BY <2>1, <2>5, <3>4, AppendProperties
    <3>6. Len(s.redo) = n - 1
      BY <2>1, <2>7
    <3> HIDE DEF m, n
    <3>7. QED BY <3>3, <3>5, <3>6
  <2>13. OpenOps(s) = <<>>
    BY <2>1, OpenType
  <2> HIDE DEF new
  <2>14. s.scene = Ground(b, new) /\ s.scene \in Scenes
    BY <2>1, <2>3, <2>9 DEF DocType
  <2>15. Valid(Ground(b, new), Reverse(s.redo))
    BY <2>1, <2>8, <2>9
  <2>16. Linear(s, new, b)
    BY <2>1, <2>9, <2>11, <2>12, <2>13, <2>14, <2>15, NoOps DEF Linear
  <2>17. QED BY <2>3, <2>8, <2>10, <2>16 DEF Timeline, s, tx
<1>4. QED BY <1>2, <1>3

-----------------------------------------------------------------------------
(***************************************************************************)
(* The inductive invariant.  The journal and the events it has yet to take *)
(* over explain the document, and the layout is solved between calls.      *)
(***************************************************************************)
Kinds == {"none", "created", "updated", "destroyed"}
NodeEvent == [node : Nodes, kind : Kinds \ {"none"}]

TypeInv ==
    /\ base \in Scenes /\ layoutScene \in Scenes /\ seen \in Scenes
    /\ transactions \in Seq(Transactions)
    /\ pending \in [Nodes -> Kinds]

Inv ==
    /\ TypeInv
    /\ Timeline(doc, transactions, base)
    /\ doc.scene = layoutScene

\* The operations of a call, and of a layout solve, run from the scene they are built on.
LEMMA BatchType ==
    ASSUME NEW s, NEW ops \in Batches(s)
    PROVE  ops \in Transactions /\ Runs(s, ops)
<1>1. Runs(s, ops) /\ ops \in SeqOf({o \in Op : o.new # o.old}, MaxBatch)
  BY DEF Batches
<1>2. PICK m \in 0 .. MaxBatch : ops \in [1 .. m -> {o \in Op : o.new # o.old}]
  BY <1>1 DEF SeqOf
<1>3. m \in Nat /\ ops \in [1 .. m -> Op]
  BY <1>2, SessionAssumption
<1>4. ops \in Seq(Op)
  BY <1>3, SeqDef
<1>5. QED BY <1>1, <1>4 DEF Transactions

\* One operation that finds its node as it says runs.
LEMMA OneRuns ==
    ASSUME NEW s \in Scenes, NEW o \in OpsAt(s)
    PROVE  <<o>> \in Transactions /\ Runs(s, <<o>>) /\ <<o>> # <<>> /\ o \in Op
<1>1. o \in Op /\ o.old = s[o.node]
  BY DEF OpsAt
<1> DEFINE ops == <<o>>
<1>2. ops \in Seq(Op) /\ DOMAIN ops = 1 .. 1 /\ ops[1] = o
  BY <1>1
<1>3. ops # <<>>
  OBVIOUS
<1> HIDE DEF ops
<1>4. SubSeq(ops, 1, 1 - 1) = <<>>
  BY SubSeqEmpty
<1>5. Applied(s, <<>>) = s
  BY NoOps
<1>6. Runs(s, ops)
  <2>1. Applied(s, SubSeq(ops, 1, 1 - 1))[ops[1].node] = ops[1].old
    BY <1>1, <1>2, <1>4, <1>5
  <2>2. \A k \in DOMAIN ops : k = 1
    BY <1>2
  <2>3. QED BY <2>1, <2>2 DEF Runs
<1>7. QED BY <1>1, <1>2, <1>3, <1>6 DEF ops, Transactions

\* The layout gives existing nodes other values, and none when it is solved.
LEMMA SolutionType ==
    ASSUME NEW s \in Scenes, NEW ops \in Solutions(s)
    PROVE  /\ ops \in Transactions /\ Runs(s, ops)
           /\ s = layoutScene => ops = <<>>
           /\ ops = <<>> \/ \E o \in OpsAt(s) : ops = <<o>> /\ o.old # Absent /\ o.new # Absent
<1>1. ops = <<>> \/ (s # layoutScene /\ \E o \in OpsAt(s) : ops = <<o>> /\ o.old # Absent /\ o.new # Absent)
  BY DEF Solutions
<1>2. CASE ops = <<>>
  BY <1>2, NoOps DEF Transactions
<1>3. CASE ops # <<>>
  BY <1>1, <1>3, OneRuns
<1>4. QED BY <1>2, <1>3

\* The operations of an edit and the geometry solved after it run one after the other.
LEMMA SolvedRuns ==
    ASSUME NEW s \in Scenes, NEW ops \in Transactions, Runs(s, ops),
           NEW geometry \in Solutions(Applied(s, ops))
    PROVE  /\ geometry \in Transactions /\ Runs(Applied(s, ops), geometry)
           /\ Applied(s, ops) \in Scenes /\ ops \o geometry \in Transactions
           /\ Runs(s, ops \o geometry)
           /\ Applied(s, ops \o geometry) = Applied(Applied(s, ops), geometry)
<1>1. ops \in Seq(Op) /\ Applied(s, ops) \in Scenes
  BY SceneType DEF Transactions
<1>2. geometry \in Transactions /\ Runs(Applied(s, ops), geometry)
  BY <1>1, SolutionType
<1>3. geometry \in Seq(Op)
  BY <1>2 DEF Transactions
<1>4. ops \o geometry \in Transactions
  BY <1>2, JoinType
<1>5. QED BY <1>1, <1>2, <1>3, <1>4, RunsConcat, SceneConcat

\* Taking over the events, and moving the oldest transactions into the base.
LEMMA FinishKeeps ==
    ASSUME TypeInv, NEW d, Timeline(d, transactions, base), ~d.edited, Finish(d)
    PROVE  /\ Timeline(doc, transactions, base)' /\ (doc.scene = layoutScene)'
           /\ base' \in Scenes /\ layoutScene' \in Scenes /\ transactions' \in Seq(Transactions)
           /\ doc' = [d EXCEPT !.out = <<>>]
           /\ Ground(base', transactions') = Ground(base, Drain(transactions, d.out))
<1> DEFINE log == Drain(transactions, d.out)
           new == [d EXCEPT !.out = <<>>]
           old == Old(log)
           rec == Recent(log)
           g == Ground(base, old)
<1>1. d \in DocType /\ log \in Seq(Transactions) /\ Linear(d, log, base) /\ base \in Scenes
  BY DEF Timeline, Linear, TypeInv
<1>2. doc' = new /\ transactions' = rec /\ base' = g /\ layoutScene' = d.scene
  BY DEF Finish, Ground
<1>3. <<>> \in Seq(Event)
  BY EmptySeq
<1>4. /\ new \in DocType /\ new.scene = d.scene /\ new.open = d.open /\ new.undo = d.undo
      /\ new.redo = d.redo /\ new.out = <<>> /\ new.edited = d.edited
  BY <1>1, <1>3 DEF DocType
<1>5. d.undo \in Seq(Tx) /\ d.undo \in Seq(Transactions) /\ d.redo \in Seq(Tx)
      /\ Len(d.undo) \in Nat /\ Len(d.redo) \in Nat /\ d.scene \in Scenes
  BY <1>1, StackType DEF DocType
<1> HIDE DEF log, new
<1>6. Len(d.undo) <= MaxDepth
  <2> DEFINE m == Len(d.undo)
             n == Len(d.redo)
  <2>1. m + n <= MaxDepth /\ m \in Nat /\ n \in Nat /\ MaxDepth \in Nat
    BY <1>1, <1>5, HistoryAssumption DEF Linear
  <2> HIDE DEF m, n
  <2>2. m <= MaxDepth
    BY <2>1
  <2>3. QED BY <2>2 DEF m
<1>7. /\ old \in Seq(Transactions) /\ rec \in Seq(Transactions)
      /\ log = old \o rec /\ Suffix(rec, d.undo)
  <2>1. Suffix(log, d.undo)
    BY <1>1 DEF Linear
  <2>2. QED BY <1>1, <1>5, <1>6, <2>1, SuffixRecent
<1> HIDE DEF old, rec, g
<1>8. g \in Scenes /\ Ground(base, log) = Ground(g, rec)
      /\ (Valid(base, log) <=> Valid(base, old) /\ Valid(g, rec))
  BY <1>1, <1>7, GroundType, LogConcat DEF g
<1>9. OpenOps(new) = OpenOps(d)
  BY <1>4 DEF OpenOps, IsOpen
<1>10. Linear(new, rec, g)
  BY <1>1, <1>4, <1>7, <1>8, <1>9 DEF Linear
<1>11. Drain(rec, new.out) = rec
  BY <1>4, DrainNothing
<1>12. Timeline(new, rec, g)
  BY <1>10, <1>11 DEF Timeline
<1>13. QED BY <1>2, <1>4, <1>5, <1>7, <1>8, <1>12 DEF new, rec, log, Timeline

-----------------------------------------------------------------------------
(***************************************************************************)
(* The document each call ends with.                                       *)
(***************************************************************************)

\* edit: the operations and the geometry join the pending step.
LEMMA EditEnds ==
    ASSUME Inv, NEW ops \in Batches(doc.scene), ops # <<>>,
           NEW geometry \in Solutions(Applied(doc.scene, ops))
    PROVE  LET start == OpenPendingStep(doc)
               d == Settled(ApplyAll(start, ops), geometry)
               all == ops \o geometry
           IN  /\ Timeline(d, transactions, base) /\ ~d.edited
               /\ start.open = OpenOps(doc) /\ start.open \in Transactions
               /\ all \in Transactions /\ Runs(doc.scene, all) /\ d.scene = Applied(doc.scene, all)
               /\ d.open = start.open \o all /\ d.open \in Transactions
               /\ d.undo = doc.undo /\ d.redo = doc.redo /\ d.out = doc.out
<1> DEFINE start == OpenPendingStep(doc)
           a == ApplyAll(start, ops)
           d == Settled(a, geometry)
           all == ops \o geometry
<1>1. base \in Scenes /\ Timeline(doc, transactions, base) /\ doc.scene \in Scenes
  BY TimelineParts DEF Inv, TypeInv, DocType
<1>2. /\ Timeline(start, transactions, base) /\ start \in DocType /\ start.open \in Transactions
      /\ start.open = OpenOps(doc) /\ start.scene = doc.scene
      /\ start.undo = doc.undo /\ start.redo = doc.redo /\ start.out = doc.out
  BY <1>1, OpenKeeps
<1>3. ops \in Transactions /\ Runs(doc.scene, ops)
  BY BatchType
<1>4. /\ geometry \in Transactions /\ Runs(Applied(doc.scene, ops), geometry)
      /\ all \in Transactions /\ Runs(doc.scene, all)
      /\ Applied(doc.scene, all) = Applied(Applied(doc.scene, ops), geometry)
  BY <1>1, <1>3, SolvedRuns
<1> HIDE DEF start
<1>5. /\ Timeline(a, transactions, base) /\ a \in DocType /\ a.open = start.open \o ops
      /\ a.open \in Transactions /\ a.scene = Applied(start.scene, ops) /\ a.edited
      /\ a.undo = start.undo /\ a.redo = start.redo /\ a.out = start.out
  BY <1>1, <1>2, <1>3, ApplyAllKeeps, ZenonT(40)
<1> HIDE DEF a
<1>6. MayDerive(a)
  <2>1. IsOpen(a)
    BY <1>5, OpenIsOpen
  <2>2. a.open # <<>>
    <3> DEFINE so == start.open
    <3>1. so \in Seq(Op) /\ ops \in Seq(Op)
      BY <1>2, <1>3 DEF Transactions
    <3> HIDE DEF so
    <3>2. so \o ops # <<>>
      BY <3>1, ConcatSimplifications
    <3>3. QED BY <1>5, <3>2 DEF so
  <2>3. QED BY <2>1, <2>2 DEF MayDerive
<1>7. /\ Timeline(d, transactions, base) /\ ~d.edited /\ d.scene = Applied(a.scene, geometry)
      /\ d.open = a.open \o geometry /\ d.undo = a.undo /\ d.redo = a.redo /\ d.out = a.out
  <2>1. Runs(a.scene, geometry)
    BY <1>2, <1>4, <1>5
  <2>2. base \in Scenes /\ Timeline(a, transactions, base) /\ geometry \in Transactions
        /\ a.edited /\ a.open \in Transactions
    BY <1>1, <1>4, <1>5
  <2>3. QED BY <1>6, <2>1, <2>2, SettledKeeps
<1> HIDE DEF d
<1>8. d.open = start.open \o all /\ d.open \in Transactions
  <2> DEFINE so == start.open
  <2>1. so \in Transactions
    BY <1>2
  <2> HIDE DEF so
  <2>2. (so \o ops) \o geometry = so \o (ops \o geometry)
    BY <1>3, <1>4, <2>1, Joined, Zenon
  <2>3. d.open = so \o all
    BY <1>5, <1>7, <2>2 DEF so
  <2>4. QED BY <1>4, <2>1, <2>3, JoinType DEF so
<1>9. d.scene = Applied(doc.scene, all)
  BY <1>2, <1>4, <1>5, <1>7
<1>10. QED BY <1>2, <1>4, <1>5, <1>7, <1>8, <1>9 DEF start, a, d

\* edit fails: the pending step is what it was.
LEMMA EditFailsEnds ==
    ASSUME Inv, NEW ops \in Batches(doc.scene)
    PROVE  LET start == OpenPendingStep(doc)
               d == RollbackOpenTo(ApplyAll(start, ops), Len(start.open))
           IN  /\ Timeline(d, transactions, base) /\ d \in DocType /\ d.scene = doc.scene
               /\ d.open = OpenOps(doc) /\ d.open \in Transactions
               /\ d.undo = doc.undo /\ d.redo = doc.redo /\ d.out = doc.out
<1> DEFINE start == OpenPendingStep(doc)
           a == ApplyAll(start, ops)
           d == RollbackOpenTo(a, Len(start.open))
<1>1. base \in Scenes /\ Timeline(doc, transactions, base)
  BY DEF Inv, TypeInv
<1>2. /\ Timeline(start, transactions, base) /\ start \in DocType /\ start.open \in Transactions
      /\ start.open = OpenOps(doc) /\ start.scene = doc.scene
      /\ start.undo = doc.undo /\ start.redo = doc.redo /\ start.out = doc.out
  BY <1>1, OpenKeeps
<1>3. ops \in Transactions /\ Runs(doc.scene, ops)
  BY BatchType
<1> HIDE DEF start
<1>4. /\ Timeline(a, transactions, base) /\ a.open = start.open \o ops
      /\ a.undo = start.undo /\ a.redo = start.redo /\ a.out = start.out
  BY <1>1, <1>2, <1>3, ApplyAllKeeps
<1> HIDE DEF a
<1>5. /\ Timeline(d, transactions, base) /\ d \in DocType /\ d.open = start.open
      /\ d.scene = Applied(Ground(base, Drain(transactions, a.out)), start.open)
      /\ d.undo = a.undo /\ d.redo = a.redo /\ d.out = a.out
  BY <1>1, <1>2, <1>3, <1>4, RollbackKeeps, ZenonT(40)
<1>6. start.scene = Applied(Ground(base, Drain(transactions, start.out)), start.open)
  BY <1>1, <1>2, TimelineParts, OpenIsOpen
<1> HIDE DEF d
<1>7. QED BY <1>2, <1>4, <1>5, <1>6 DEF d, a, start

\* fill_template fails: its operations are rolled back, the geometry with them.
LEMMA FillFailsEnds ==
    ASSUME Inv, NEW o \in OpsAt(doc.scene), NEW geometry \in Solutions(Applied(doc.scene, <<o>>))
    PROVE  LET start == OpenPendingStep(doc)
               d == CatchUp(RollbackOpenTo(Settled(Apply(start, o), geometry), Len(start.open)))
           IN  /\ Timeline(d, transactions, base) /\ ~d.edited /\ d.scene = doc.scene
               /\ d.open = OpenOps(doc) /\ d.open \in Transactions
               /\ d.undo = doc.undo /\ d.redo = doc.redo /\ d.out = doc.out
<1> DEFINE start == OpenPendingStep(doc)
           ops == <<o>>
           a == ApplyAll(start, ops)
           s == Settled(a, geometry)
           all == ops \o geometry
           r == RollbackOpenTo(s, Len(start.open))
           d == CatchUp(r)
<1>1. base \in Scenes /\ Timeline(doc, transactions, base) /\ doc.scene \in Scenes
  BY TimelineParts DEF Inv, TypeInv, DocType
<1>2. /\ Timeline(start, transactions, base) /\ start \in DocType /\ start.open \in Transactions
      /\ start.open = OpenOps(doc) /\ start.scene = doc.scene
      /\ start.undo = doc.undo /\ start.redo = doc.redo /\ start.out = doc.out
  BY <1>1, OpenKeeps
<1>3. ops \in Transactions /\ Runs(doc.scene, ops) /\ ops # <<>> /\ o \in Op
  BY <1>1, OneRuns
<1> HIDE DEF start
<1>4. Apply(start, o) = a
  <2>1. IsOpen(start)
    BY <1>2, OpenIsOpen
  <2>2. Append(start.open, o) = start.open \o <<o>>
    BY <1>2, <1>3, AppendIsConcat DEF Transactions
  <2>3. QED BY <1>2, <1>3, <2>1, <2>2 DEF Apply, ApplyAll, DocType
<1>5. /\ geometry \in Transactions /\ Runs(Applied(doc.scene, ops), geometry)
      /\ all \in Transactions
  BY <1>1, <1>3, SolvedRuns
<1> HIDE DEF ops
<1>6. /\ Timeline(a, transactions, base) /\ a.open = start.open \o ops
      /\ a.open \in Transactions /\ a.scene = Applied(start.scene, ops) /\ a.edited
      /\ a.undo = start.undo /\ a.redo = start.redo /\ a.out = start.out
  BY <1>1, <1>2, <1>3, ApplyAllKeeps, ZenonT(40)
<1> HIDE DEF a
<1>7. MayDerive(a)
  <2>1. IsOpen(a)
    BY <1>6, OpenIsOpen
  <2>2. a.open # <<>>
    <3> DEFINE so == start.open
    <3>1. so \in Seq(Op) /\ ops \in Seq(Op)
      BY <1>2, <1>3 DEF Transactions
    <3> HIDE DEF so
    <3>2. so \o ops # <<>>
      BY <1>3, <3>1, ConcatSimplifications
    <3>3. QED BY <1>6, <3>2 DEF so
  <2>3. QED BY <2>1, <2>2 DEF MayDerive
<1>8. /\ Timeline(s, transactions, base)
      /\ s.open = a.open \o geometry /\ s.undo = a.undo /\ s.redo = a.redo /\ s.out = a.out
  <2>1. Runs(a.scene, geometry)
    BY <1>2, <1>5, <1>6
  <2>2. base \in Scenes /\ Timeline(a, transactions, base) /\ geometry \in Transactions
        /\ a.edited /\ a.open \in Transactions
    BY <1>1, <1>5, <1>6
  <2>3. QED BY <1>7, <2>1, <2>2, SettledKeeps
<1> HIDE DEF s
<1>9. s.open = start.open \o all
  <2> DEFINE so == start.open
  <2>1. so \in Transactions
    BY <1>2
  <2> HIDE DEF so
  <2>2. (so \o ops) \o geometry = so \o (ops \o geometry)
    BY <1>3, <1>5, <2>1, Joined, Zenon
  <2>3. QED BY <1>6, <1>8, <2>2 DEF so
<1> HIDE DEF all
<1>10. /\ Timeline(r, transactions, base) /\ r \in DocType /\ r.open = start.open
       /\ r.scene = Applied(Ground(base, Drain(transactions, s.out)), start.open)
       /\ r.undo = s.undo /\ r.redo = s.redo /\ r.out = s.out
  <2>1. base \in Scenes /\ Timeline(s, transactions, base)
        /\ start.open \in Transactions /\ all \in Transactions /\ s.open = start.open \o all
    BY <1>1, <1>2, <1>5, <1>8, <1>9
  <2>2. QED BY <2>1, RollbackKeeps
<1>11. start.scene = Applied(Ground(base, Drain(transactions, start.out)), start.open)
  BY <1>1, <1>2, TimelineParts, OpenIsOpen
<1> HIDE DEF r
<1>12. /\ Timeline(d, transactions, base) /\ ~d.edited /\ d.scene = r.scene
       /\ d.open = r.open /\ d.undo = r.undo /\ d.redo = r.redo /\ d.out = r.out
  BY <1>1, <1>10, CatchUpKeeps
<1> HIDE DEF d
<1>13. d = CatchUp(RollbackOpenTo(Settled(Apply(start, o), geometry), Len(start.open)))
  BY <1>4 DEF d, r, s
<1>14. QED BY <1>2, <1>6, <1>8, <1>10, <1>11, <1>12, <1>13 DEF start

\* add_undo_step: the layout is solved, and the pending step is committed.
LEMMA AddUndoStepEnds ==
    ASSUME Inv, NEW geometry \in Solutions(doc.scene)
    PROVE  LET d == Settled(Commit(doc), geometry)
           IN  /\ d = CatchUp(Commit(doc)) /\ Timeline(d, transactions, base) /\ ~d.edited
               /\ d.scene = doc.scene /\ d.open = Closed
               /\ d.undo = Commit(doc).undo /\ d.redo = Commit(doc).redo /\ d.out = Commit(doc).out
<1> DEFINE c == Commit(doc)
           d == CatchUp(c)
<1>1. base \in Scenes /\ Timeline(doc, transactions, base) /\ doc.scene = layoutScene
      /\ doc \in DocType /\ doc.scene \in Scenes
  BY TimelineParts DEF Inv, TypeInv, DocType
<1>2. geometry = <<>>
  BY <1>1, SolutionType
<1>3. Settled(c, geometry) = d
  BY <1>2 DEF Settled
<1>4. Timeline(c, transactions, base) /\ c.scene = doc.scene /\ c.open = Closed
  BY <1>1, CommitKeeps, CommitFields
<1> HIDE DEF c
<1>5. /\ Timeline(d, transactions, base) /\ ~d.edited /\ d.scene = c.scene
      /\ d.open = c.open /\ d.undo = c.undo /\ d.redo = c.redo /\ d.out = c.out
  BY <1>1, <1>4, CatchUpKeeps
<1> HIDE DEF d
<1>6. QED BY <1>3, <1>4, <1>5 DEF c, d

\* transaction and apply_design_ops: the batch is one step of its own.
LEMMA BatchEnds ==
    ASSUME Inv, NEW ops \in Batches(doc.scene), ops # <<>>,
           NEW geometry \in Solutions(Applied(doc.scene, ops))
    PROVE  LET a == ApplyAll(Begin(doc), ops)
               c == Commit(a)
               d == Settled(c, geometry)
           IN  /\ Timeline(d, transactions, base) /\ ~d.edited /\ d.open = Closed
               /\ Timeline(c, transactions, base) /\ c \in DocType /\ c.open = Closed
               /\ Timeline(a, transactions, base)
               /\ a \in DocType /\ a.open = ops /\ OpenOps(a) = ops
               /\ a.scene = Applied(doc.scene, ops) /\ c.scene = a.scene
               /\ a.undo = Commit(doc).undo /\ a.redo = Commit(doc).redo /\ a.out = Commit(doc).out
               /\ c.undo # <<>> /\ c.redo = <<>> /\ c.edited
               /\ geometry \in Transactions /\ Runs(c.scene, geometry)
<1> DEFINE s == Begin(doc)
           a == ApplyAll(s, ops)
           c == Commit(a)
           d == Settled(c, geometry)
<1>1. base \in Scenes /\ Timeline(doc, transactions, base) /\ doc.scene \in Scenes
  BY TimelineParts DEF Inv, TypeInv, DocType
<1>2. /\ Timeline(s, transactions, base) /\ s \in DocType /\ s.open = <<>>
      /\ s.open \in Transactions /\ s.scene = doc.scene
      /\ s.undo = Commit(doc).undo /\ s.redo = Commit(doc).redo /\ s.out = Commit(doc).out
  BY <1>1, BeginKeeps
<1>3. ops \in Transactions /\ Runs(doc.scene, ops)
  BY BatchType
<1>4. geometry \in Transactions /\ Runs(Applied(doc.scene, ops), geometry)
  BY <1>1, <1>3, SolvedRuns
<1> HIDE DEF s
<1>5. /\ Timeline(a, transactions, base) /\ a \in DocType /\ a.open = s.open \o ops
      /\ a.open \in Transactions /\ a.scene = Applied(s.scene, ops) /\ a.edited
      /\ a.undo = s.undo /\ a.redo = s.redo /\ a.out = s.out
  BY <1>1, <1>2, <1>3, ApplyAllKeeps, ZenonT(40)
<1>6. a.open = ops /\ OpenOps(a) = ops
  <2>1. <<>> \o ops = ops
    BY <1>3, JoinType
  <2>2. a.open = ops
    BY <1>2, <1>5, <2>1
  <2>3. QED BY <1>5, <2>2, OpenIsOpen
<1> HIDE DEF a
<1>7. /\ c \in DocType /\ c.scene = a.scene /\ c.open = Closed /\ c.edited
      /\ c.undo = PushUndo(a.undo, a.open) /\ c.redo = <<>>
  BY <1>5, <1>6, CommitFields
<1>8. c.undo # <<>>
  <2>1. a.undo \in Seq(Tx) /\ a.open \in Tx
    BY <1>5, <1>6, OpenType DEF DocType
  <2>2. QED BY <1>7, <2>1, PushType
<1>9. Timeline(c, transactions, base)
  BY <1>1, <1>5, CommitKeeps
<1> HIDE DEF c
<1>10. MayDerive(c)
  BY <1>7, <1>8 DEF MayDerive, IsOpen
<1>11. Runs(c.scene, geometry)
  BY <1>2, <1>4, <1>5, <1>7
<1>12. Timeline(d, transactions, base) /\ ~d.edited /\ d.open = Closed
  BY <1>1, <1>4, <1>7, <1>9, <1>10, <1>11, SettledKeeps
<1>13. QED BY <1>2, <1>4, <1>5, <1>6, <1>7, <1>8, <1>9, <1>11, <1>12 DEF s, a, c, d

\* A batch that is not kept leaves the document with what was pending committed.
LEMMA BatchFailsEnds ==
    ASSUME Inv, NEW ops \in Batches(doc.scene)
    PROVE  LET d == AbortWith(ApplyAll(Begin(doc), ops))
           IN  /\ Timeline(d, transactions, base) /\ d \in DocType /\ d.scene = doc.scene
               /\ d.open = Closed
               /\ d.undo = Commit(doc).undo /\ d.redo = Commit(doc).redo /\ d.out = Commit(doc).out
<1> DEFINE s == Begin(doc)
           a == ApplyAll(s, ops)
           d == AbortWith(a)
<1>1. base \in Scenes /\ Timeline(doc, transactions, base)
  BY DEF Inv, TypeInv
<1>2. /\ Timeline(s, transactions, base) /\ s \in DocType /\ s.open = <<>>
      /\ s.open \in Transactions /\ s.scene = doc.scene
      /\ s.undo = Commit(doc).undo /\ s.redo = Commit(doc).redo /\ s.out = Commit(doc).out
  BY <1>1, BeginKeeps
<1>3. ops \in Transactions /\ Runs(doc.scene, ops)
  BY BatchType
<1> HIDE DEF s
<1>4. /\ Timeline(a, transactions, base) /\ a.open \in Transactions
      /\ a.undo = s.undo /\ a.redo = s.redo /\ a.out = s.out
  BY <1>1, <1>2, <1>3, ApplyAllKeeps
<1> HIDE DEF a
<1>5. /\ Timeline(d, transactions, base) /\ d \in DocType /\ d.open = Closed
      /\ d.scene = Ground(base, Drain(transactions, a.out))
      /\ d.undo = a.undo /\ d.redo = a.redo /\ d.out = a.out
  BY <1>1, <1>4, AbortKeeps
<1>6. s.scene = Ground(base, Drain(transactions, s.out))
  BY <1>1, <1>2, TimelineParts, OpenIsOpen, NoOps
<1> HIDE DEF d
<1>7. QED BY <1>2, <1>4, <1>5, <1>6 DEF d, a, s

-----------------------------------------------------------------------------
(***************************************************************************)
(* The subscriber's events have their type.                                *)
(***************************************************************************)

\* Pushing one event onto typed pending events.
LEMMA PushTyped ==
    ASSUME NEW p \in [Nodes -> Kinds], NEW e \in NodeEvent
    PROVE  Push(p, e) \in [Nodes -> Kinds]
<1>1. e.node \in Nodes /\ e.kind \in Kinds /\ p[e.node] \in Kinds
  BY DEF NodeEvent
<1>2. Coalesce(p[e.node], e.kind) \in Kinds
  BY <1>1 DEF Coalesce, Kinds
<1>3. QED BY <1>2 DEF Push

\* Pushing any number of them.
LEMMA PushAllTyped ==
    ASSUME NEW p \in [Nodes -> Kinds], NEW ev \in Seq(NodeEvent)
    PROVE  PushAll(p, ev) \in [Nodes -> Kinds]
<1> DEFINE n == Len(ev)
<1>1. n \in Nat
  BY LenProperties
<1>2. PICK f : PushAll(p, ev) = f[n] /\ f[0] = p
               /\ \A k \in 1 .. n : f[k] = Push(f[k - 1], ev[k])
  BY PushAllLast
<1>3. \A k \in 1 .. n : ev[k] \in NodeEvent
  BY ElementOfSeq
<1> HIDE DEF n
<1> DEFINE T == {k \in 0 .. n : f[k] \in [Nodes -> Kinds]}
<1>4. 0 \in T
  BY <1>1, <1>2
<1>5. ASSUME NEW k \in 1 .. n, k - 1 \in T PROVE k \in T
  <2>1. f[k - 1] \in [Nodes -> Kinds] /\ ev[k] \in NodeEvent /\ f[k] = Push(f[k - 1], ev[k])
    BY <1>2, <1>3, <1>5
  <2>2. f[k] \in [Nodes -> Kinds]
    BY <2>1, PushTyped
  <2>3. QED BY <1>1, <2>2
<1> HIDE DEF T
<1>6. \A k \in 0 .. n : k \in T
  BY <1>1, <1>4, <1>5, Induct
<1>7. n \in T
  BY <1>1, <1>6
<1>8. QED BY <1>2, <1>7 DEF T

\* What an operation is reported as, in both directions.
LEMMA EventType ==
    ASSUME NEW o \in Op
    PROVE  Forward(o) \in NodeEvent /\ Backward(o) \in NodeEvent
<1>1. Forward(o) \in NodeEvent
  BY DEF Forward, NodeEvent, Op, Kinds
<1> DEFINE b == [o EXCEPT !.old = o.new, !.new = o.old]
<1>2. b.node \in Nodes
  BY DEF Op
<1> HIDE DEF b
<1>3. Forward(b) \in NodeEvent
  BY <1>2 DEF Forward, NodeEvent, Kinds
<1>4. QED BY <1>1, <1>3 DEF Backward, b

\* The events of operations are a sequence of events, in order.
LEMMA EventsType ==
    ASSUME NEW ops \in Transactions
    PROVE  /\ EventsOf(ops) \in Seq(NodeEvent) /\ Len(EventsOf(ops)) = Len(ops)
           /\ UndoEventsOf(ops) \in Seq(NodeEvent) /\ Len(UndoEventsOf(ops)) = Len(ops)
           /\ \A k \in 1 .. Len(ops) : /\ EventsOf(ops)[k] = Forward(ops[k])
                                       /\ UndoEventsOf(ops)[k] = Backward(ops[Len(ops) - k + 1])
<1> DEFINE n == Len(ops)
<1>1. ops \in Seq(Op) /\ n \in Nat /\ DOMAIN ops = 1 .. n /\ \A k \in 1 .. n : ops[k] \in Op
  BY LenProperties, ElementOfSeq DEF Transactions
<1>2. \A k \in 1 .. n : Reverse(ops)[k] = ops[n - k + 1]
  BY <1>1, LenProperties DEF Reverse
<1> HIDE DEF n
<1> DEFINE F(k) == Forward(ops[k])
           B(k) == Backward(ops[n - k + 1])
           ev == [k \in 1 .. n |-> F(k)]
           uv == [k \in 1 .. n |-> B(k)]
<1>3. \A k \in 1 .. n : F(k) \in NodeEvent /\ B(k) \in NodeEvent
  <2>1. ASSUME NEW k \in 1 .. n PROVE F(k) \in NodeEvent /\ B(k) \in NodeEvent
    <3>1. n - k + 1 \in 1 .. n
      BY <1>1
    <3>2. ops[k] \in Op /\ ops[n - k + 1] \in Op
      BY <1>1, <3>1
    <3>3. QED BY <3>2, EventType
  <2>2. QED BY <2>1
<1>4. EventsOf(ops) = ev
  BY <1>1 DEF EventsOf
<1>5. UndoEventsOf(ops) = uv
  <2>1. \A k \in 1 .. n : Backward(Reverse(ops)[k]) = B(k)
    BY <1>2
  <2>2. UndoEventsOf(ops) = [k \in 1 .. n |-> Backward(Reverse(ops)[k])]
    BY <1>1 DEF UndoEventsOf
  <2> HIDE DEF B
  <2>3. QED BY <2>1, <2>2
<1>6. \A k \in 1 .. n : ev[k] = F(k) /\ uv[k] = B(k)
  OBVIOUS
<1> HIDE DEF F, B
<1>7. ev \in [1 .. n -> NodeEvent] /\ uv \in [1 .. n -> NodeEvent]
  BY <1>3
<1> HIDE DEF ev, uv
<1>8. ev \in Seq(NodeEvent) /\ Len(ev) = n /\ uv \in Seq(NodeEvent) /\ Len(uv) = n
  BY <1>1, <1>7, SeqDef, LenProperties
<1>9. QED BY <1>4, <1>5, <1>6, <1>8 DEF n, F, B

\* A report keeps the pending events typed.
LEMMA ReportTyped ==
    ASSUME TypeInv, NEW ev \in Seq(NodeEvent), Report(ev)
    PROVE  pending' \in [Nodes -> Kinds]
BY PushAllTyped DEF Report, TypeInv

-----------------------------------------------------------------------------
(***************************************************************************)
(* The invariant is inductive.                                             *)
(***************************************************************************)

\* A design that was just opened has no history.
LEMMA InitInv == Init => Inv
<1> SUFFICES ASSUME Init PROVE Inv
  OBVIOUS
<1> DEFINE d == Fresh(base)
<1>1. /\ base \in Scenes /\ doc = d /\ layoutScene = base /\ seen = base
      /\ transactions = <<>> /\ pending = NoEvents
  BY DEF Init
<1>2. /\ <<>> \in Seq(Tx) /\ <<>> \in Seq(Event) /\ <<>> \in Seq(Transactions)
      /\ <<>> \in Seq(Op) /\ <<>> \in Seq({})
  BY EmptySeq
<1>3. /\ d \in DocType /\ d.scene = base /\ d.undo = <<>> /\ d.redo = <<>>
      /\ d.open = Closed /\ d.out = <<>>
  BY <1>1, <1>2 DEF Fresh, DocType
<1>4. OpenOps(d) = <<>>
  BY <1>3 DEF OpenOps, IsOpen
<1> HIDE DEF d
<1>5. Len(d.undo) + Len(d.redo) <= MaxDepth
  <2>1. Len(d.undo) = 0 /\ Len(d.redo) = 0
    BY <1>3, EmptySeq
  <2>2. QED BY <2>1, HistoryAssumption
<1>6. Suffix(<<>>, d.undo)
  <2>1. <<>> \o <<>> = <<>>
    BY <1>2, JoinType DEF Transactions
  <2>2. QED BY <1>2, <1>3, <2>1 DEF Suffix
<1>7. Reverse(d.redo) = <<>>
  <2>1. d.redo \in Seq(Tx) /\ Len(d.redo) = 0
    BY <1>2, <1>3, EmptySeq
  <2>2. Reverse(d.redo) \in Seq(Tx) /\ Len(Reverse(d.redo)) = 0
    BY <2>1, EmptySeq DEF Reverse
  <2>3. QED BY <2>2, EmptySeq
<1>8. /\ Applied(base, <<>>) = base /\ Runs(base, <<>>) /\ Valid(base, <<>>)
      /\ Ground(base, <<>>) = base
  BY <1>1, NoOps
<1>9. Linear(d, <<>>, base)
  BY <1>2, <1>3, <1>4, <1>5, <1>6, <1>7, <1>8 DEF Linear
<1>10. Drain(<<>>, d.out) = <<>>
  BY <1>3, DrainNothing
<1>11. Timeline(d, <<>>, base)
  BY <1>9, <1>10 DEF Timeline
<1>12. pending \in [Nodes -> Kinds]
  BY <1>1 DEF NoEvents, Kinds
<1>13. QED BY <1>1, <1>2, <1>3, <1>11, <1>12 DEF Inv, TypeInv

\* Between calls the layout is solved: a call that ends with what it drained keeps the invariant.
LEMMA FinishInv ==
    ASSUME Inv, NEW d, Timeline(d, transactions, base), ~d.edited, Finish(d),
           pending' \in [Nodes -> Kinds], UNCHANGED seen
    PROVE  Inv'
<1>1. TypeInv
  BY DEF Inv
<1>2. /\ Timeline(doc, transactions, base)' /\ (doc.scene = layoutScene)'
      /\ base' \in Scenes /\ layoutScene' \in Scenes /\ transactions' \in Seq(Transactions)
  BY <1>1, FinishKeeps
<1>3. QED BY <1>1, <1>2 DEF Inv, TypeInv

\* A call that drains nothing keeps it when it leaves the scene alone.
LEMMA SameSceneInv ==
    ASSUME Inv, NEW d, Timeline(d, transactions, base), d.scene = doc.scene, doc' = d,
           UNCHANGED <<layoutScene, logs, pending, seen>>
    PROVE  Inv'
<1>1. /\ layoutScene' = layoutScene /\ transactions' = transactions /\ base' = base
      /\ pending' = pending /\ seen' = seen
  BY DEF logs
<1>2. Timeline(doc', transactions', base')
  BY <1>1
<1>3. QED BY <1>1, <1>2 DEF Inv, TypeInv, Timeline

\* edit keeps it.
LEMMA EditInv ==
    ASSUME Inv, NEW ops \in Batches(doc.scene), NEW geometry \in Solutions(Applied(doc.scene, ops)),
           Edit(ops, geometry)
    PROVE  Inv'
<1> DEFINE start == OpenPendingStep(doc)
           d == Settled(ApplyAll(start, ops), geometry)
           new == SubSeq(d.open, Len(start.open) + 1, Len(d.open))
<1>1. ops # <<>> /\ Finish(d) /\ Report(EventsOf(new)) /\ UNCHANGED seen
  BY DEF Edit
<1>2. Timeline(d, transactions, base) /\ ~d.edited /\ d.open \in Transactions
      /\ start.open \in Transactions
  BY <1>1, EditEnds
<1> HIDE DEF d, start
<1>3. EventsOf(new) \in Seq(NodeEvent)
  <2> DEFINE x == d.open
             lo == Len(start.open) + 1
             hi == Len(x)
  <2>1. x \in Seq(Op) /\ lo \in Nat \ {0} /\ hi \in Nat
    BY <1>2, LenProperties DEF Transactions
  <2>2. \A i \in lo .. hi : x[i] \in Op
    BY <2>1, ElementOfSeq
  <2> HIDE DEF x, lo, hi
  <2>3. SubSeq(x, lo, hi) \in Seq(Op)
    BY <2>1, <2>2, SubSeqProperties
  <2>4. QED BY <2>3, EventsType DEF x, lo, hi, Transactions
<1>4. pending' \in [Nodes -> Kinds]
  BY <1>1, <1>3, ReportTyped DEF Inv
<1>5. QED BY <1>1, <1>2, <1>4, FinishInv

\* fill_template that fails keeps it.
LEMMA FillFailsInv ==
    ASSUME Inv, NEW o \in OpsAt(doc.scene), NEW geometry \in Solutions(Applied(doc.scene, <<o>>)),
           FillTemplateFails(o, geometry)
    PROVE  Inv'
<1> DEFINE start == OpenPendingStep(doc)
           s == Settled(Apply(start, o), geometry)
           d == CatchUp(RollbackOpenTo(s, Len(start.open)))
<1>1. Finish(d) /\ Report(EventsOf(<<o>> \o geometry)) /\ UNCHANGED seen
  BY DEF FillTemplateFails
<1>2. Timeline(d, transactions, base) /\ ~d.edited
  BY FillFailsEnds
<1> HIDE DEF d
<1>3. doc.scene \in Scenes
  BY DEF Inv, TypeInv
<1>4. <<o>> \o geometry \in Transactions
  <2>1. <<o>> \in Transactions /\ Runs(doc.scene, <<o>>)
    BY <1>3, OneRuns
  <2>2. QED BY <1>3, <2>1, SolvedRuns
<1>5. pending' \in [Nodes -> Kinds]
  BY <1>1, <1>4, EventsType, ReportTyped DEF Inv
<1>6. QED BY <1>1, <1>2, <1>5, FinishInv

\* undo keeps it.
LEMMA UndoInv ==
    ASSUME Inv, UndoCall
    PROVE  Inv'
<1> DEFINE undone == IF OpenOps(doc) # <<>> THEN doc.open
                     ELSE IF doc.undo # <<>> THEN Last(doc.undo) ELSE <<>>
           d == CatchUp(Undo(doc))
<1>1. Report(UndoEventsOf(undone)) /\ Finish(d) /\ UNCHANGED seen
  BY DEF UndoCall
<1>2. base \in Scenes /\ Timeline(doc, transactions, base) /\ doc \in DocType
  BY TimelineParts DEF Inv, TypeInv
<1>3. Timeline(Undo(doc), transactions, base)
  BY <1>2, UndoKeeps
<1>4. Timeline(d, transactions, base) /\ ~d.edited
  BY <1>2, <1>3, CatchUpKeeps
<1> HIDE DEF d
<1>5. undone \in Transactions
  <2>1. CASE OpenOps(doc) # <<>>
    BY <1>2, <2>1, OpenType DEF Tx
  <2>2. CASE OpenOps(doc) = <<>> /\ doc.undo # <<>>
    <3>1. doc.undo \in Seq(Tx)
      BY <1>2 DEF DocType
    <3>2. Last(doc.undo) \in Tx
      BY <2>2, <3>1, StackTop
    <3>3. QED BY <2>2, <3>2 DEF Tx
  <2>3. CASE OpenOps(doc) = <<>> /\ doc.undo = <<>>
    BY <2>3, EmptySeq DEF Transactions
  <2>4. QED BY <2>1, <2>2, <2>3
<1> HIDE DEF undone
<1>6. pending' \in [Nodes -> Kinds]
  BY <1>1, <1>5, EventsType, ReportTyped DEF Inv
<1>7. QED BY <1>1, <1>4, <1>6, FinishInv

\* The document that redo starts from: an empty pending step is closed.
LEMMA RedoStarts ==
    ASSUME Inv, OpenOps(doc) = <<>>
    PROVE  LET d == IF IsOpen(doc) THEN AbortWith(doc) ELSE doc
           IN  /\ Timeline(d, transactions, base) /\ d \in DocType /\ d.open = Closed
               /\ OpenOps(d) = <<>> /\ d.scene = doc.scene
               /\ d.undo = doc.undo /\ d.redo = doc.redo /\ d.out = doc.out
<1>1. base \in Scenes /\ Timeline(doc, transactions, base) /\ doc \in DocType
      /\ doc.scene \in Scenes
  BY TimelineParts DEF Inv, TypeInv, DocType
<1>2. CASE IsOpen(doc)
  <2> DEFINE d == AbortWith(doc)
  <2>1. doc.open \in Transactions /\ doc.open = <<>>
    BY <1>1, <1>2 DEF OpenOps, IsOpen, DocType
  <2>2. /\ Timeline(d, transactions, base) /\ d \in DocType /\ d.open = Closed
        /\ d.scene = Ground(base, Drain(transactions, doc.out))
        /\ d.undo = doc.undo /\ d.redo = doc.redo /\ d.out = doc.out
    BY <1>1, <2>1, AbortKeeps
  <2>3. /\ Ground(base, Drain(transactions, doc.out)) \in Scenes
        /\ doc.scene = Applied(Ground(base, Drain(transactions, doc.out)), <<>>)
    BY <1>1, TimelineParts
  <2>4. doc.scene = Ground(base, Drain(transactions, doc.out))
    BY <2>3, NoOps
  <2> HIDE DEF d
  <2>5. OpenOps(d) = <<>>
    BY <2>2 DEF OpenOps, IsOpen
  <2>6. QED BY <1>2, <2>2, <2>4, <2>5 DEF d
<1>3. CASE ~IsOpen(doc)
  BY <1>1, <1>3 DEF IsOpen
<1>4. QED BY <1>2, <1>3

\* redo keeps it.
LEMMA RedoInv ==
    ASSUME Inv, RedoCall
    PROVE  Inv'
<1> DEFINE c == IF IsOpen(doc) THEN AbortWith(doc) ELSE doc
           redone == IF c.redo = <<>> THEN <<>> ELSE Last(c.redo)
           d == CatchUp(Redo(c))
<1>1. OpenOps(doc) = <<>> /\ Report(EventsOf(redone)) /\ Finish(d) /\ UNCHANGED seen
  BY DEF RedoCall
<1>2. base \in Scenes
  BY DEF Inv, TypeInv
<1>3. Timeline(c, transactions, base) /\ c \in DocType /\ c.open = Closed /\ OpenOps(c) = <<>>
  BY <1>1, RedoStarts
<1> HIDE DEF c
<1>4. Timeline(Redo(c), transactions, base)
  BY <1>2, <1>3, RedoKeeps
<1>5. Timeline(d, transactions, base) /\ ~d.edited
  BY <1>2, <1>4, CatchUpKeeps
<1> HIDE DEF d
<1>6. redone \in Transactions
  <2>1. c.redo \in Seq(Tx)
    BY <1>3 DEF DocType
  <2>2. c.redo # <<>> => Last(c.redo) \in Tx
    BY <2>1, StackTop
  <2>3. <<>> \in Transactions
    BY EmptySeq DEF Transactions
  <2>4. QED BY <2>2, <2>3 DEF Tx
<1> HIDE DEF redone
<1>7. pending' \in [Nodes -> Kinds]
  BY <1>1, <1>6, EventsType, ReportTyped DEF Inv
<1>8. QED BY <1>1, <1>5, <1>7, FinishInv

\* A batch that is rolled back keeps it: the layout has nothing to solve.
LEMMA BatchRollsBackInv ==
    ASSUME Inv, NEW ops \in Batches(doc.scene), NEW geometry \in Solutions(doc.scene),
           BatchRollsBack(ops, geometry)
    PROVE  Inv'
<1> DEFINE a == AbortWith(ApplyAll(Begin(doc), ops))
           d == CatchUp(a)
<1>1. doc.scene = layoutScene /\ doc.scene \in Scenes /\ base \in Scenes
  BY DEF Inv, TypeInv
<1>2. geometry = <<>>
  BY <1>1, SolutionType
<1>3. Finish(d) /\ UNCHANGED <<pending, seen>>
  BY <1>2 DEF BatchRollsBack, Settled
<1>4. Timeline(a, transactions, base)
  BY BatchFailsEnds
<1> HIDE DEF a
<1>5. Timeline(d, transactions, base) /\ ~d.edited
  BY <1>1, <1>4, CatchUpKeeps
<1> HIDE DEF d
<1>6. pending' \in [Nodes -> Kinds]
  BY <1>3 DEF Inv, TypeInv
<1>7. QED BY <1>3, <1>5, <1>6, FinishInv

\* Every step of the session keeps the invariant.
LEMMA NextInv == Inv /\ [Next]_vars => Inv'
<1> SUFFICES ASSUME Inv, [Next]_vars PROVE Inv'
  OBVIOUS
<1>1. ASSUME NEW ops \in Batches(doc.scene), NEW geometry \in Solutions(Applied(doc.scene, ops)),
             Edit(ops, geometry)
      PROVE  Inv'
  BY <1>1, EditInv
<1>2. ASSUME NEW ops \in Batches(doc.scene), NEW geometry \in Solutions(Applied(doc.scene, ops)),
             BatchCommits(ops, geometry)
      PROVE  Inv'
  <2> DEFINE d == Settled(Commit(ApplyAll(Begin(doc), ops)), geometry)
  <2>1. ops # <<>> /\ Finish(d) /\ UNCHANGED <<pending, seen>>
    BY <1>2 DEF BatchCommits
  <2>2. Timeline(d, transactions, base) /\ ~d.edited
    BY <2>1, BatchEnds
  <2> HIDE DEF d
  <2>3. pending' \in [Nodes -> Kinds]
    BY <2>1 DEF Inv, TypeInv
  <2>4. QED BY <2>1, <2>2, <2>3, FinishInv
<1>3. ASSUME NEW ops \in Batches(doc.scene), EditFails(ops)
      PROVE  Inv'
  <2> DEFINE start == OpenPendingStep(doc)
             d == RollbackOpenTo(ApplyAll(start, ops), Len(start.open))
  <2>1. doc' = d /\ UNCHANGED <<layoutScene, logs, pending, seen>>
    BY <1>3 DEF EditFails
  <2>2. Timeline(d, transactions, base) /\ d.scene = doc.scene
    BY EditFailsEnds
  <2> HIDE DEF d
  <2>3. QED BY <2>1, <2>2, SameSceneInv
<1>4. ASSUME NEW ops \in Batches(doc.scene), NEW geometry \in Solutions(doc.scene),
             BatchRollsBack(ops, geometry)
      PROVE  Inv'
  BY <1>4, BatchRollsBackInv
<1>5. ASSUME NEW ops \in Batches(doc.scene), TransactionFails(ops)
      PROVE  Inv'
  <2> DEFINE d == AbortWith(ApplyAll(Begin(doc), ops))
  <2>1. doc' = d /\ UNCHANGED <<layoutScene, logs, pending, seen>>
    BY <1>5 DEF TransactionFails
  <2>2. Timeline(d, transactions, base) /\ d.scene = doc.scene
    BY BatchFailsEnds
  <2> HIDE DEF d
  <2>3. QED BY <2>1, <2>2, SameSceneInv
<1>6. ASSUME NEW o \in OpsAt(doc.scene), NEW geometry \in Solutions(Applied(doc.scene, <<o>>)),
             FillTemplateFails(o, geometry)
      PROVE  Inv'
  BY <1>6, FillFailsInv
<1>7. ASSUME NEW geometry \in Solutions(doc.scene), AddUndoStep(geometry)
      PROVE  Inv'
  <2> DEFINE d == Settled(Commit(doc), geometry)
  <2>1. Finish(d) /\ UNCHANGED <<pending, seen>>
    BY <1>7 DEF AddUndoStep
  <2>2. Timeline(d, transactions, base) /\ ~d.edited
    BY AddUndoStepEnds
  <2> HIDE DEF d
  <2>3. pending' \in [Nodes -> Kinds]
    BY <2>1 DEF Inv, TypeInv
  <2>4. QED BY <2>1, <2>2, <2>3, FinishInv
<1>8. ASSUME UndoCall
      PROVE  Inv'
  BY <1>8, UndoInv
<1>9. ASSUME RedoCall
      PROVE  Inv'
  BY <1>9, RedoInv
<1>10. ASSUME PollEvents
       PROVE  Inv'
  <2>1. /\ doc' = doc /\ layoutScene' = layoutScene /\ transactions' = transactions
        /\ base' = base /\ pending' = NoEvents /\ seen' = doc.scene
    BY <1>10 DEF PollEvents, logs
  <2>2. pending' \in [Nodes -> Kinds]
    BY <2>1 DEF NoEvents, Kinds
  <2>3. QED BY <2>1, <2>2 DEF Inv, TypeInv, Timeline
<1>11. ASSUME UNCHANGED vars
       PROVE  Inv'
  <2>1. /\ doc' = doc /\ layoutScene' = layoutScene /\ transactions' = transactions
        /\ base' = base /\ pending' = pending /\ seen' = seen
    BY <1>11 DEF vars, logs
  <2>2. QED BY <2>1 DEF Inv, TypeInv, Timeline
<1>12. QED
  BY <1>1, <1>2, <1>3, <1>4, <1>5, <1>6, <1>7, <1>8, <1>9, <1>10, <1>11 DEF Next

\* The journal explains the document in every reachable state.
THEOREM Invariant == Spec => []Inv
<1>1. QED BY InitInv, NextInv, PTL DEF Spec

-----------------------------------------------------------------------------
(***************************************************************************)
(* What the invariant says of the session.                                 *)
(***************************************************************************)

\* Every variable has its type, no step on the stacks is empty and the undo and redo stacks stay
\* within max_depth, whatever is edited, undone, redone, rolled back or solved.
THEOREM TypeCorrect == Spec => []TypeOK
<1>1. Inv => TypeOK
  <2> SUFFICES ASSUME Inv PROVE TypeOK
    OBVIOUS
  <2>1. base \in Scenes /\ Timeline(doc, transactions, base) /\ TypeInv /\ doc \in DocType
    BY TimelineParts DEF Inv, TypeInv
  <2>2. Len(doc.undo) <= MaxDepth /\ Len(doc.redo) <= MaxDepth
    <3> DEFINE m == Len(doc.undo)
               n == Len(doc.redo)
    <3>1. m + n <= MaxDepth /\ m \in Nat /\ n \in Nat /\ MaxDepth \in Nat
      BY <2>1, StackType, HistoryAssumption DEF Timeline, Linear, DocType
    <3> HIDE DEF m, n
    <3>2. m <= MaxDepth /\ n <= MaxDepth
      BY <3>1
    <3>3. QED BY <3>2 DEF m, n
  <2>3. /\ doc.scene \in Scenes /\ doc.undo \in Seq(Tx) /\ doc.redo \in Seq(Tx)
        /\ doc.open \in Transactions \cup {Closed} /\ doc.edited \in BOOLEAN
    BY <2>1 DEF DocType
  <2>4. QED BY <2>1, <2>2, <2>3 DEF TypeOK, TypeInv, Tx, Transactions, Kinds
<1>2. QED BY <1>1, Invariant, PTL

\* The journal, applied to the design as it was opened, is the live design up to its pending step
\* (drain_journal), through undo, redo, rolled-back calls and amended geometry.
THEOREM JournalIsFaithful == Spec => []JournalReplays
<1>1. Inv => JournalReplays
  <2> SUFFICES ASSUME Inv PROVE JournalReplays
    OBVIOUS
  <2> DEFINE log == Drain(transactions, doc.out)
             j == FlattenSeq(log)
             o == OpenOps(doc)
  <2>1. /\ base \in Scenes /\ doc \in DocType /\ log \in Seq(Transactions)
        /\ doc.scene = Applied(Ground(base, log), o)
    BY TimelineParts DEF Inv, TypeInv
  <2>2. j \in Seq(Op) /\ o \in Seq(Op)
    BY <2>1, FlatType, OpenType DEF Transactions
  <2> HIDE DEF log, j, o
  <2>3. Applied(base, j \o o) = Applied(Applied(base, j), o)
    BY <2>1, <2>2, SceneConcat
  <2>4. Applied(base, j \o o) = doc.scene
    BY <2>1, <2>3 DEF Ground, j
  <2>5. QED BY <2>4 DEF JournalReplays, log, j, o
<1>2. QED BY <1>1, Invariant, PTL

\* Undo and redo walk one timeline: every operation on the undo stack finds the value it set when
\* it is taken back, every undone one the value it replaced, so neither can fail (History::undo, redo).
THEOREM TimelineIsLinear == Spec => []LinearTimeline
<1>1. Inv => LinearTimeline
  <2> SUFFICES ASSUME Inv PROVE LinearTimeline
    OBVIOUS
  <2> DEFINE log == Drain(transactions, doc.out)
             g == Ground(base, log)
             o == OpenOps(doc)
             u == FlattenSeq(doc.undo)
             r == Reverse(doc.redo)
  <2>1. /\ base \in Scenes /\ doc \in DocType /\ log \in Seq(Transactions) /\ g \in Scenes
        /\ Runs(g, o) /\ doc.scene = Applied(g, o)
    BY TimelineParts DEF Inv, TypeInv
  <2>2. Suffix(log, doc.undo) /\ Valid(base, log) /\ Valid(g, r)
    BY DEF Inv, Timeline, Linear
  <2>3. doc.undo \in Seq(Transactions) /\ doc.redo \in Seq(Transactions)
        /\ doc.scene \in Scenes /\ o \in Seq(Op)
    BY <2>1, StackType, OpenType DEF DocType
  <2>4. u \in Seq(Op)
    BY <2>3, FlatType DEF Transactions
  <2>5. PICK pre \in Seq(Transactions) : log = pre \o doc.undo
    BY <2>2 DEF Suffix
  <2> DEFINE s == Ground(base, pre)
  <2> HIDE DEF log, o, g, r
  <2>6. s \in Scenes /\ Runs(s, u) /\ g = Applied(s, u)
    BY <2>1, <2>2, <2>3, <2>5, GroundType, LogConcat DEF Ground, Valid, g
  <2> HIDE DEF s, u
  <2>7. /\ Runs(s, u \o o) /\ Applied(s, u \o o) = doc.scene /\ u \o o \in Seq(Op)
    <3>1. Runs(s, u \o o)
      BY <2>1, <2>3, <2>4, <2>6, RunsConcat
    <3>2. Applied(s, u \o o) = Applied(g, o)
      BY <2>3, <2>4, <2>6, SceneConcat
    <3>3. QED BY <2>1, <2>3, <2>4, <3>1, <3>2, ConcatProperties
  <2>8. Past = u \o o
    BY DEF Past, u, o
  <2>9. \A k \in DOMAIN Past :
          Reverted(doc.scene, SubSeq(Past, k + 1, Len(Past)))[Past[k].node] = Past[k].new
    <3> DEFINE p == Past
    <3>1. p \in Seq(Op) /\ Runs(s, p) /\ Applied(s, p) = doc.scene
      BY <2>7, <2>8
    <3> HIDE DEF p
    <3>2. DOMAIN p = 1 .. Len(p)
      BY <3>1, LenProperties
    <3>3. \A k \in DOMAIN p : Reverted(doc.scene, SubSeq(p, k + 1, Len(p)))[p[k].node] = p[k].new
      BY <2>6, <3>1, <3>2, WalkBack
    <3>4. QED BY <3>3 DEF p
  <2>10. Reverted(doc.scene, o) = g
    BY <2>1, <2>3, RevertUndoes
  <2>11. Runs(g, Future)
    BY <2>2 DEF Future, Valid, r
  <2>12. \A k \in DOMAIN Future : Applied(g, SubSeq(Future, 1, k - 1))[Future[k].node] = Future[k].old
    BY <2>11 DEF Runs
  <2>13. QED BY <2>9, <2>10, <2>12 DEF LinearTimeline, o
<1>2. QED BY <1>1, Invariant, PTL
=============================================================================
