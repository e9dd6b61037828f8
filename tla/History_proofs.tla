----------------------------- MODULE History_proofs -----------------------------
(***************************************************************************)
(* What applying, reverting and stacking operations does to a scene, for   *)
(* sequences of any length.                                                *)
(***************************************************************************)
EXTENDS History, SequenceTheorems, WellFoundedInduction, TLAPS

-----------------------------------------------------------------------------
(***************************************************************************)
(* First and last elements.                                                *)
(***************************************************************************)

\* A nonempty set of naturals has a least element.
LEMMA LeastExists ==
    ASSUME NEW T \in SUBSET Nat, T # {}
    PROVE  Min(T) \in T /\ \A y \in T : Min(T) <= y
<1>1. \E x \in T : \A y \in T : ~(<<y, x>> \in OpToRel(<, Nat))
  BY NatLessThanWellFounded, WFMin
<1>2. PICK x \in T : \A y \in T : ~(<<y, x>> \in OpToRel(<, Nat))
  BY <1>1
<1>3. \A y \in T : x <= y
  <2> SUFFICES ASSUME NEW y \in T, y < x PROVE FALSE
    OBVIOUS
  <2>1. <<y, x>> \in Nat \X Nat
    OBVIOUS
  <2>2. <<y, x>> \in OpToRel(<, Nat)
    BY <2>1 DEF OpToRel
  <2>3. QED BY <1>2, <2>2
<1>4. QED BY <1>3 DEF Min

\* A nonempty set of naturals with a bound has a greatest element.
LEMMA GreatestExists ==
    ASSUME NEW n \in Nat, NEW T \in SUBSET (0 .. n), T # {}
    PROVE  Max(T) \in T /\ \A y \in T : y <= Max(T)
<1> DEFINE U == {n - x : x \in T}
<1>1. U \in SUBSET Nat /\ U # {}
  <2>1. \A x \in T : n - x \in Nat
    OBVIOUS
  <2>2. U \subseteq Nat
    BY <2>1
  <2>3. PICK x \in T : TRUE
    OBVIOUS
  <2>4. n - x \in U
    BY <2>3
  <2>5. QED BY <2>2, <2>4
<1>2. PICK u \in U : \A y \in U : u <= y
  BY <1>1, LeastExists
<1>3. PICK x \in T : u = n - x
  BY <1>2
<1>4. ASSUME NEW y \in T PROVE x >= y
  <2>1. n - y \in U
    OBVIOUS
  <2>2. u <= n - y
    BY <1>2, <2>1
  <2> HIDE DEF U
  <2>3. x \in Int /\ y \in Int
    OBVIOUS
  <2>4. QED BY <1>3, <2>2, <2>3
<1>5. QED BY <1>3, <1>4 DEF Max

-----------------------------------------------------------------------------
(***************************************************************************)
(* Scenes.                                                                 *)
(***************************************************************************)

\* The operations of ops from i to j leave node n alone.
Spares(ops, i, j, n) == \A k \in 1 .. Len(ops) : i <= k /\ k <= j => ops[k].node # n

\* The last operation on a node decides its value, the first one what it goes back to.
LEMMA Touched ==
    ASSUME NEW s, NEW ops \in Seq(Op), NEW n \in Nodes, NEW k \in 1 .. Len(ops), ops[k].node = n
    PROVE  /\ Spares(ops, k + 1, Len(ops), n) => Applied(s, ops)[n] = ops[k].new
           /\ Spares(ops, 1, k - 1, n) => Reverted(s, ops)[n] = ops[k].old
<1> DEFINE T == Touching(ops, n)
<1>1. /\ Len(ops) \in Nat /\ DOMAIN ops = 1 .. Len(ops)
  BY LenProperties
<1>2. k \in T /\ T \in SUBSET (0 .. Len(ops)) /\ T \in SUBSET Nat
      /\ \A j \in T : j \in 1 .. Len(ops) /\ ops[j].node = n
  BY <1>1 DEF Touching
<1> HIDE DEF T
<1>3. Max(T) \in T /\ \A y \in T : y <= Max(T)
  BY <1>1, <1>2, GreatestExists
<1>4. Min(T) \in T /\ \A y \in T : Min(T) <= y
  BY <1>2, LeastExists
<1>5. Spares(ops, k + 1, Len(ops), n) => Max(T) = k
  <2> SUFFICES ASSUME Spares(ops, k + 1, Len(ops), n), Max(T) # k PROVE FALSE
    OBVIOUS
  <2>1. k <= Max(T) /\ Max(T) \in 1 .. Len(ops) /\ ops[Max(T)].node = n
    BY <1>2, <1>3
  <2>2. QED BY <1>1, <2>1 DEF Spares
<1>6. Spares(ops, 1, k - 1, n) => Min(T) = k
  <2> SUFFICES ASSUME Spares(ops, 1, k - 1, n), Min(T) # k PROVE FALSE
    OBVIOUS
  <2>1. Min(T) <= k /\ Min(T) \in 1 .. Len(ops) /\ ops[Min(T)].node = n
    BY <1>2, <1>4
  <2>2. QED BY <1>1, <2>1 DEF Spares
<1>7. T # {}
  BY <1>2
<1>8. Applied(s, ops)[n] = ops[Max(T)].new /\ Reverted(s, ops)[n] = ops[Min(T)].old
  BY <1>7 DEF Applied, Reverted, T
<1>9. QED BY <1>5, <1>6, <1>8

\* A node no operation names keeps its value.
LEMMA Untouched ==
    ASSUME NEW s, NEW ops \in Seq(Op), NEW n \in Nodes, Spares(ops, 1, Len(ops), n)
    PROVE  Applied(s, ops)[n] = s[n] /\ Reverted(s, ops)[n] = s[n]
<1>1. Touching(ops, n) = {}
  BY LenProperties DEF Touching, Spares
<1>2. QED BY <1>1 DEF Applied, Reverted

\* A node that is named up to some place has a last operation up to there.
LEMMA LastTouch ==
    ASSUME NEW ops \in Seq(Op), NEW n \in Nodes, NEW j \in 0 .. Len(ops), ~Spares(ops, 1, j, n)
    PROVE  \E k \in 1 .. j : ops[k].node = n /\ Spares(ops, k + 1, j, n)
<1> DEFINE T == {k \in 1 .. j : ops[k].node = n}
<1>1. Len(ops) \in Nat
  BY LenProperties
<1>2. j \in Nat /\ T \in SUBSET (0 .. j) /\ T # {}
  BY <1>1 DEF Spares
<1>3. Max(T) \in T /\ \A y \in T : y <= Max(T)
  <2> HIDE DEF T
  <2>1. QED BY <1>2, GreatestExists
<1> DEFINE k == Max(T)
<1>4. k \in 1 .. j /\ ops[k].node = n
  BY <1>3
<1>5. Spares(ops, k + 1, j, n)
  <2> SUFFICES ASSUME NEW i \in 1 .. Len(ops), k + 1 <= i, i <= j, ops[i].node = n PROVE FALSE
    BY DEF Spares
  <2>1. i \in T
    BY <1>1
  <2>2. i <= k
    BY <1>3, <2>1
  <2> HIDE DEF k, T
  <2>3. QED BY <1>1, <1>4, <2>2
<1>6. QED BY <1>4, <1>5

\* The same from a place on, for the first one.
LEMMA FirstTouch ==
    ASSUME NEW ops \in Seq(Op), NEW n \in Nodes, NEW j \in Nat \ {0}, ~Spares(ops, j, Len(ops), n)
    PROVE  \E k \in 1 .. Len(ops) : j <= k /\ ops[k].node = n /\ Spares(ops, j, k - 1, n)
<1> DEFINE T == {k \in 1 .. Len(ops) : j <= k /\ ops[k].node = n}
<1>1. Len(ops) \in Nat
  BY LenProperties
<1>2. T \in SUBSET Nat /\ T # {}
  BY <1>1 DEF Spares
<1>3. Min(T) \in T /\ \A y \in T : Min(T) <= y
  BY <1>2, LeastExists
<1> DEFINE k == Min(T)
<1>4. k \in 1 .. Len(ops) /\ j <= k /\ ops[k].node = n
  BY <1>3
<1>5. Spares(ops, j, k - 1, n)
  <2> SUFFICES ASSUME NEW i \in 1 .. Len(ops), j <= i, i <= k - 1, ops[i].node = n PROVE FALSE
    BY DEF Spares
  <2>1. i \in T
    OBVIOUS
  <2>2. k <= i
    BY <1>3, <2>1
  <2> HIDE DEF k, T
  <2>3. QED BY <1>1, <1>4, <2>2
<1>6. QED BY <1>4, <1>5

\* Applying and reverting operations gives scenes.
LEMMA SceneType ==
    ASSUME NEW s \in Scenes, NEW ops \in Seq(Op)
    PROVE  Applied(s, ops) \in Scenes /\ Reverted(s, ops) \in Scenes
<1>1. Len(ops) \in Nat
  BY LenProperties
<1>2. ASSUME NEW n \in Nodes
      PROVE  Applied(s, ops)[n] \in Vals \cup {Absent} /\ Reverted(s, ops)[n] \in Vals \cup {Absent}
  <2>1. CASE Spares(ops, 1, Len(ops), n)
    BY <2>1, Untouched DEF Scenes
  <2>2. CASE ~Spares(ops, 1, Len(ops), n)
    <3>1. PICK k \in 1 .. Len(ops) : ops[k].node = n /\ Spares(ops, k + 1, Len(ops), n)
      BY <1>1, <2>2, LastTouch
    <3>2. PICK j \in 1 .. Len(ops) : ops[j].node = n /\ Spares(ops, 1, j - 1, n)
      BY <1>1, <2>2, FirstTouch
    <3>3. Applied(s, ops)[n] = ops[k].new /\ Reverted(s, ops)[n] = ops[j].old
      BY <3>1, <3>2, Touched
    <3>4. ops[k] \in Op /\ ops[j] \in Op
      BY ElementOfSeq
    <3>5. QED BY <3>3, <3>4 DEF Op
  <2>3. QED BY <2>1, <2>2
<1>3. /\ Applied(s, ops) = [n \in Nodes |-> Applied(s, ops)[n]]
      /\ Reverted(s, ops) = [n \in Nodes |-> Reverted(s, ops)[n]]
  BY DEF Applied, Reverted
<1>4. QED BY <1>2, <1>3 DEF Scenes

\* Two scenes that agree on every node are the same.
LEMMA SceneEqual ==
    ASSUME NEW s \in Scenes, NEW t \in Scenes, \A n \in Nodes : s[n] = t[n]
    PROVE  s = t
BY DEF Scenes

\* A concatenation leaves a node alone where both of its parts do.
LEMMA SparesConcat ==
    ASSUME NEW a \in Seq(Op), NEW b \in Seq(Op), NEW n, NEW i \in Int, NEW j \in Int,
           Spares(a, i, j, n), Spares(b, i - Len(a), j - Len(a), n)
    PROVE  Spares(a \o b, i, j, n)
<1>1. Len(a) \in Nat /\ Len(b) \in Nat /\ Len(a \o b) = Len(a) + Len(b)
  BY ConcatProperties, LenProperties
<1> SUFFICES ASSUME NEW k \in 1 .. Len(a) + Len(b), i <= k, k <= j
             PROVE  (a \o b)[k].node # n
  BY <1>1 DEF Spares
<1>2. CASE k <= Len(a)
  <2>1. k \in 1 .. Len(a) /\ (a \o b)[k] = a[k]
    BY <1>1, <1>2, ConcatProperties
  <2>2. QED BY <2>1 DEF Spares
<1>3. CASE k > Len(a)
  <2>1. k - Len(a) \in 1 .. Len(b) /\ (a \o b)[k] = b[k - Len(a)]
    BY <1>1, <1>3, ConcatProperties
  <2>2. i - Len(a) <= k - Len(a) /\ k - Len(a) <= j - Len(a)
    BY <1>1
  <2>3. QED BY <2>1, <2>2 DEF Spares
<1>4. QED BY <1>1, <1>2, <1>3

\* A part of a range, and a range beyond the end.
LEMMA SparesPart ==
    ASSUME NEW a \in Seq(Op), NEW n, NEW i \in Int, NEW j \in Int
    PROVE  /\ \A l \in Int, m \in Int : Spares(a, l, m, n) /\ l <= i /\ j <= m => Spares(a, i, j, n)
           /\ Spares(a, 1, Len(a), n) => Spares(a, i, j, n)
           /\ i > Len(a) \/ j < 1 => Spares(a, i, j, n)
<1>1. Len(a) \in Nat
  BY LenProperties
<1>2. QED BY <1>1 DEF Spares

\* Applying or reverting a concatenation is applying or reverting its parts.
LEMMA SceneConcat ==
    ASSUME NEW s \in Scenes, NEW a \in Seq(Op), NEW b \in Seq(Op)
    PROVE  /\ Applied(s, a \o b) = Applied(Applied(s, a), b)
           /\ Reverted(s, a \o b) = Reverted(Reverted(s, b), a)
<1> DEFINE ab == a \o b
<1>1. /\ Len(a) \in Nat /\ Len(b) \in Nat
      /\ ab \in Seq(Op) /\ Len(ab) = Len(a) + Len(b)
      /\ \A k \in 1 .. Len(a) : ab[k] = a[k]
      /\ \A k \in 1 .. Len(b) : ab[Len(a) + k] = b[k]
  BY ConcatProperties, LenProperties
<1>2. ab \in Seq(Op)
  BY <1>1
<1>3. ASSUME NEW n \in Nodes, NEW i \in Int, NEW j \in Int,
             Spares(a, i, j, n), Spares(b, i - Len(a), j - Len(a), n)
      PROVE  Spares(ab, i, j, n)
  BY <1>3, SparesConcat
<1> HIDE DEF ab
<1>4. ASSUME NEW n \in Nodes PROVE Applied(s, ab)[n] = Applied(Applied(s, a), b)[n]
  <2>1. CASE ~Spares(b, 1, Len(b), n)
    <3>1. PICK k \in 1 .. Len(b) : b[k].node = n /\ Spares(b, k + 1, Len(b), n)
      <4>1. Len(b) \in 0 .. Len(b)
        BY <1>1
      <4>2. QED BY <2>1, <4>1, LastTouch
    <3>2. Len(a) + k \in 1 .. Len(ab) /\ ab[Len(a) + k] = b[k]
      BY <1>1
    <3>3. Spares(ab, Len(a) + k + 1, Len(ab), n)
      <4>1. Spares(a, Len(a) + k + 1, Len(ab), n)
        BY <1>1, SparesPart
      <4>2. Len(a) + k + 1 - Len(a) = k + 1 /\ Len(ab) - Len(a) = Len(b)
            /\ Len(a) + k + 1 \in Int /\ Len(ab) \in Int
        BY <1>1
      <4>3. QED BY <1>3, <3>1, <4>1, <4>2, SMTT(40)
    <3>4. Applied(s, ab)[n] = b[k].new
      BY <1>2, <3>1, <3>2, <3>3, Touched
    <3>5. QED BY <3>1, <3>4, Touched
  <2>2. CASE Spares(b, 1, Len(b), n) /\ ~Spares(a, 1, Len(a), n)
    <3>1. PICK k \in 1 .. Len(a) : a[k].node = n /\ Spares(a, k + 1, Len(a), n)
      <4>1. Len(a) \in 0 .. Len(a)
        BY <1>1
      <4>2. QED BY <2>2, <4>1, LastTouch
    <3>2. k \in 1 .. Len(ab) /\ ab[k] = a[k]
      BY <1>1
    <3>3. Spares(ab, k + 1, Len(ab), n)
      <4>1. Spares(a, k + 1, Len(ab), n)
        BY <1>1, <3>1 DEF Spares
      <4>2. Spares(b, k + 1 - Len(a), Len(ab) - Len(a), n)
        BY <1>1, <2>2, SparesPart
      <4>3. QED BY <1>1, <1>3, <4>1, <4>2
    <3>4. Applied(s, a)[n] = a[k].new /\ Applied(s, ab)[n] = a[k].new
      BY <1>2, <3>1, <3>2, <3>3, Touched
    <3>5. QED BY <2>2, <3>4, Untouched
  <2>3. CASE Spares(b, 1, Len(b), n) /\ Spares(a, 1, Len(a), n)
    <3>1. Spares(ab, 1, Len(ab), n)
      <4>1. Spares(a, 1, Len(ab), n) /\ Spares(b, 1 - Len(a), Len(ab) - Len(a), n)
        BY <1>1, <2>3, SparesPart
      <4>2. QED BY <1>1, <1>3, <4>1
    <3>2. QED BY <1>2, <2>3, <3>1, Untouched
  <2>4. QED BY <2>1, <2>2, <2>3
<1>5. ASSUME NEW n \in Nodes PROVE Reverted(s, ab)[n] = Reverted(Reverted(s, b), a)[n]
  <2>1. CASE ~Spares(a, 1, Len(a), n)
    <3>1. PICK k \in 1 .. Len(a) : a[k].node = n /\ Spares(a, 1, k - 1, n)
      BY <2>1, FirstTouch
    <3>2. k \in 1 .. Len(ab) /\ ab[k] = a[k]
      BY <1>1
    <3>3. Spares(ab, 1, k - 1, n)
      <4>1. Spares(b, 1 - Len(a), k - 1 - Len(a), n)
        BY <1>1, SparesPart
      <4>2. QED BY <1>1, <1>3, <3>1, <4>1
    <3>4. Reverted(s, ab)[n] = a[k].old
      BY <1>2, <3>1, <3>2, <3>3, Touched
    <3>5. QED BY <3>1, <3>4, Touched
  <2>2. CASE Spares(a, 1, Len(a), n) /\ ~Spares(b, 1, Len(b), n)
    <3>1. PICK k \in 1 .. Len(b) : b[k].node = n /\ Spares(b, 1, k - 1, n)
      BY <2>2, FirstTouch
    <3>2. Len(a) + k \in 1 .. Len(ab) /\ ab[Len(a) + k] = b[k]
      BY <1>1
    <3>3. Spares(ab, 1, Len(a) + k - 1, n)
      <4>1. Spares(a, 1, Len(a) + k - 1, n)
        BY <1>1, <2>2, SparesPart
      <4>2. Spares(b, 1 - Len(a), Len(a) + k - 1 - Len(a), n)
        <5>1. Len(a) + k - 1 - Len(a) = k - 1
          BY <1>1
        <5>2. Spares(b, 1 - Len(a), k - 1, n)
          BY <1>1, <3>1 DEF Spares
        <5>3. QED BY <5>1, <5>2
      <4>3. QED BY <1>1, <1>3, <4>1, <4>2
    <3>4. Reverted(s, b)[n] = b[k].old /\ Reverted(s, ab)[n] = b[k].old
      BY <1>2, <3>1, <3>2, <3>3, Touched
    <3>5. QED BY <2>2, <3>4, Untouched
  <2>3. CASE Spares(b, 1, Len(b), n) /\ Spares(a, 1, Len(a), n)
    <3>1. Spares(ab, 1, Len(ab), n)
      <4>1. Spares(a, 1, Len(ab), n) /\ Spares(b, 1 - Len(a), Len(ab) - Len(a), n)
        BY <1>1, <2>3, SparesPart
      <4>2. QED BY <1>1, <1>3, <4>1
    <3>2. QED BY <1>2, <2>3, <3>1, Untouched
  <2>4. QED BY <2>1, <2>2, <2>3
<1>6. Applied(s, ab) \in Scenes /\ Applied(Applied(s, a), b) \in Scenes
      /\ Reverted(s, ab) \in Scenes /\ Reverted(Reverted(s, b), a) \in Scenes
  BY <1>1, SceneType
<1>7. QED BY <1>4, <1>5, <1>6, SceneEqual DEF ab

\* What the first j operations, or the ones after them, do to a node.
LEMMA PrefixAt ==
    ASSUME NEW s \in Scenes, NEW ops \in Seq(Op), NEW n \in Nodes, NEW j \in 0 .. Len(ops)
    PROVE  /\ SubSeq(ops, 1, j) \in Seq(Op) /\ SubSeq(ops, j + 1, Len(ops)) \in Seq(Op)
           /\ Spares(ops, 1, j, n) => Applied(s, SubSeq(ops, 1, j))[n] = s[n]
           /\ \A k \in 1 .. j : ops[k].node = n /\ Spares(ops, k + 1, j, n)
                => Applied(s, SubSeq(ops, 1, j))[n] = ops[k].new
           /\ Spares(ops, j + 1, Len(ops), n) => Reverted(s, SubSeq(ops, j + 1, Len(ops)))[n] = s[n]
           /\ \A k \in j + 1 .. Len(ops) : ops[k].node = n /\ Spares(ops, j + 1, k - 1, n)
                => Reverted(s, SubSeq(ops, j + 1, Len(ops)))[n] = ops[k].old
<1> DEFINE p == SubSeq(ops, 1, j)
           q == SubSeq(ops, j + 1, Len(ops))
<1>1. Len(ops) \in Nat /\ j \in Nat /\ j <= Len(ops) /\ \A i \in 1 .. Len(ops) : ops[i] \in Op
  BY LenProperties, ElementOfSeq
<1>2. p \in Seq(Op) /\ Len(p) = j /\ \A i \in 1 .. j : p[i] = ops[i]
  <2>1. \A i \in 1 .. j : ops[i] \in Op
    BY <1>1
  <2>2. QED BY <1>1, <2>1, SubSeqProperties
<1>3. q \in Seq(Op) /\ Len(q) = Len(ops) - j /\ \A i \in 1 .. Len(ops) - j : q[i] = ops[j + i]
  <2>1. \A i \in j + 1 .. Len(ops) : ops[i] \in Op
    BY <1>1
  <2>2. QED BY <1>1, <2>1, SubSeqProperties
<1> HIDE DEF p, q
<1>4. Spares(ops, 1, j, n) => Applied(s, p)[n] = s[n]
  <2>1. Spares(ops, 1, j, n) => Spares(p, 1, Len(p), n)
    BY <1>1, <1>2 DEF Spares
  <2>2. QED BY <1>2, <2>1, Untouched
<1>5. ASSUME NEW k \in 1 .. j, ops[k].node = n, Spares(ops, k + 1, j, n)
      PROVE  Applied(s, p)[n] = ops[k].new
  <2>1. Spares(p, k + 1, Len(p), n)
    BY <1>1, <1>2, <1>5 DEF Spares
  <2>2. k \in 1 .. Len(p) /\ p[k] = ops[k]
    BY <1>2
  <2>3. QED BY <1>2, <1>5, <2>1, <2>2, Touched
<1>6. Spares(ops, j + 1, Len(ops), n) => Reverted(s, q)[n] = s[n]
  <2>1. Spares(ops, j + 1, Len(ops), n) => Spares(q, 1, Len(q), n)
    BY <1>1, <1>3 DEF Spares
  <2>2. QED BY <1>3, <2>1, Untouched
<1>7. ASSUME NEW k \in j + 1 .. Len(ops), ops[k].node = n, Spares(ops, j + 1, k - 1, n)
      PROVE  Reverted(s, q)[n] = ops[k].old
  <2>1. k - j \in 1 .. Len(q) /\ q[k - j] = ops[k]
    BY <1>1, <1>3
  <2>2. Spares(q, 1, k - j - 1, n)
    BY <1>1, <1>3, <1>7 DEF Spares
  <2>3. QED BY <1>3, <1>7, <2>1, <2>2, Touched
<1>8. QED BY <1>2, <1>3, <1>4, <1>5, <1>6, <1>7 DEF p, q

-----------------------------------------------------------------------------
(***************************************************************************)
(* Operations that find what they recorded.                                *)
(***************************************************************************)

\* The first operations of a concatenation are those of its first part, then of its
\* second.
LEMMA PrefixConcat ==
    ASSUME NEW S, NEW a \in Seq(S), NEW b \in Seq(S)
    PROVE  /\ \A j \in 0 .. Len(a) : SubSeq(a \o b, 1, j) = SubSeq(a, 1, j)
           /\ \A j \in 0 .. Len(b) : SubSeq(a \o b, 1, Len(a) + j) = a \o SubSeq(b, 1, j)
<1> DEFINE ab == a \o b
<1>1. /\ Len(a) \in Nat /\ Len(b) \in Nat /\ ab \in Seq(S) /\ Len(ab) = Len(a) + Len(b)
      /\ \A k \in 1 .. Len(a) : ab[k] = a[k] /\ a[k] \in S
      /\ \A k \in 1 .. Len(b) : ab[Len(a) + k] = b[k] /\ b[k] \in S
  BY ConcatProperties, LenProperties, ElementOfSeq
<1>2. \A k \in 1 .. Len(ab) : ab[k] \in S
  BY <1>1, ElementOfSeq
<1> HIDE DEF ab
<1>3. ASSUME NEW j \in 0 .. Len(a) PROVE SubSeq(ab, 1, j) = SubSeq(a, 1, j)
  <2>1. j \in Int /\ 1 \in Int /\ \A i \in 1 .. j : ab[i] = a[i] /\ ab[i] \in S /\ a[i] \in S
    BY <1>1
  <2>2. /\ SubSeq(ab, 1, j) \in Seq(S) /\ Len(SubSeq(ab, 1, j)) = j
        /\ \A i \in 1 .. j : SubSeq(ab, 1, j)[i] = ab[i]
    BY <1>1, <2>1, SubSeqProperties
  <2>3. /\ SubSeq(a, 1, j) \in Seq(S) /\ Len(SubSeq(a, 1, j)) = j
        /\ \A i \in 1 .. j : SubSeq(a, 1, j)[i] = a[i]
    BY <1>1, <2>1, SubSeqProperties
  <2>4. QED BY <2>1, <2>2, <2>3, SeqEqual
<1>4. ASSUME NEW j \in 0 .. Len(b) PROVE SubSeq(ab, 1, Len(a) + j) = a \o SubSeq(b, 1, j)
  <2> DEFINE q == SubSeq(b, 1, j)
             m == Len(a) + j
  <2>1. /\ q \in Seq(S) /\ Len(q) = j /\ \A i \in 1 .. j : q[i] = b[i]
    <3>1. j \in Int /\ \A i \in 1 .. j : b[i] \in S
      BY <1>1
    <3>2. QED BY <1>1, <3>1, SubSeqProperties
  <2> HIDE DEF q
  <2>2. /\ a \o q \in Seq(S) /\ Len(a \o q) = m
        /\ \A i \in 1 .. m : (a \o q)[i] = IF i <= Len(a) THEN a[i] ELSE q[i - Len(a)]
    BY <2>1, ConcatProperties
  <2>3. m \in Nat /\ m <= Len(ab) /\ j \in Nat
    BY <1>1
  <2>4. /\ SubSeq(ab, 1, m) \in Seq(S) /\ Len(SubSeq(ab, 1, m)) = m
        /\ \A i \in 1 .. m : SubSeq(ab, 1, m)[i] = ab[i]
    <3>1. \A i \in 1 .. m : ab[i] \in S
      BY <1>1, <1>2, <2>3
    <3> HIDE DEF m
    <3>2. QED BY <2>3, <3>1, SubSeqProperties
  <2>5. ASSUME NEW i \in 1 .. m PROVE SubSeq(ab, 1, m)[i] = (a \o q)[i]
    <3>1. CASE i <= Len(a)
      BY <1>1, <2>2, <2>4, <3>1
    <3>2. CASE i > Len(a)
      <4>1. i - Len(a) \in 1 .. j /\ i = Len(a) + (i - Len(a))
        BY <1>1, <2>3, <3>2
      <4>2. ab[i] = b[i - Len(a)] /\ q[i - Len(a)] = b[i - Len(a)]
        BY <1>1, <2>1, <4>1
      <4>3. ~(i <= Len(a))
        BY <1>1, <3>2
      <4>4. QED BY <2>2, <2>4, <4>2, <4>3
    <3>3. i <= Len(a) \/ i > Len(a)
      BY <1>1, <2>3
    <3>4. QED BY <3>1, <3>2, <3>3, Zenon
  <2> HIDE DEF m
  <2>6. SubSeq(ab, 1, m) = a \o q
    BY <2>2, <2>4, <2>5, SeqEqual
  <2>7. QED BY <2>6 DEF q, m
<1>5. QED BY <1>3, <1>4 DEF ab

\* Cutting a concatenation where it was joined gives its parts.
LEMMA CutConcat ==
    ASSUME NEW S, NEW a \in Seq(S), NEW b \in Seq(S)
    PROVE  /\ SubSeq(a \o b, 1, Len(a)) = a
           /\ SubSeq(a \o b, Len(a) + 1, Len(a \o b)) = b
           /\ Len(a \o b) <= Len(a) <=> b = <<>>
<1> DEFINE ab == a \o b
           n == Len(a)
           m == Len(ab)
<1>1. n \in Nat /\ Len(b) \in Nat /\ ab \in Seq(S) /\ m = n + Len(b)
  BY ConcatProperties, LenProperties
<1>2. SubSeq(ab, 1, n) = a
  <2>1. n \in 0 .. n
    BY <1>1
  <2>2. SubSeq(ab, 1, n) = SubSeq(a, 1, n)
    BY <2>1, PrefixConcat
  <2>3. QED BY <2>2, SubSeqFull
<1>3. SubSeq(ab, 1, n) \o SubSeq(ab, n + 1, m) = ab
  <2> HIDE DEF ab
  <2>1. 1 \in 1 .. m + 1 /\ n \in 1 - 1 .. m /\ m \in n .. m
    BY <1>1
  <2>2. SubSeq(ab, 1, n) \o SubSeq(ab, n + 1, m) = SubSeq(ab, 1, m)
    BY <1>1, <2>1, ConcatAdjacentSubSeq
  <2>3. QED BY <1>1, <2>2, SubSeqFull
<1> DEFINE q == SubSeq(ab, n + 1, m)
<1>4. q \in Seq(S)
  <2> DEFINE lo == n + 1
  <2>1. lo \in Int /\ m \in Int /\ \A i \in lo .. m : ab[i] \in S
    BY <1>1, ElementOfSeq
  <2> HIDE DEF ab, lo, m
  <2>2. SubSeq(ab, lo, m) \in Seq(S)
    BY <2>1, SubSeqProperties
  <2>3. QED BY <2>2 DEF lo
<1> HIDE DEF q
<1>5. a \o q = a \o b
  BY <1>2, <1>3 DEF q
<1>6. q = b
  BY <1>4, <1>5, ConcatSimplifications
<1>7. m <= n <=> b = <<>>
  <2>1. Len(b) = 0 <=> b = <<>>
    BY EmptySeq
  <2>2. m <= n <=> Len(b) = 0
    <3> HIDE DEF m, n
    <3>1. QED BY <1>1
  <2>3. QED BY <2>1, <2>2
<1>8. QED BY <1>2, <1>6, <1>7 DEF q

\* Operations run one after the other when the first run and the others run from where
\* they end.
LEMMA RunsConcat ==
    ASSUME NEW s \in Scenes, NEW a \in Seq(Op), NEW b \in Seq(Op)
    PROVE  Runs(s, a \o b) <=> Runs(s, a) /\ Runs(Applied(s, a), b)
<1> DEFINE ab == a \o b
           At(k) == Applied(s, SubSeq(ab, 1, k - 1))[ab[k].node] = ab[k].old
<1>1. /\ Len(a) \in Nat /\ Len(b) \in Nat /\ ab \in Seq(Op) /\ Len(ab) = Len(a) + Len(b)
      /\ \A k \in 1 .. Len(a) : ab[k] = a[k]
      /\ \A k \in 1 .. Len(b) : ab[Len(a) + k] = b[k]
  BY ConcatProperties, LenProperties
<1>2. DOMAIN a = 1 .. Len(a) /\ DOMAIN b = 1 .. Len(b) /\ DOMAIN ab = 1 .. Len(ab)
  BY <1>1, LenProperties
<1>3. ASSUME NEW k \in 1 .. Len(a)
      PROVE  At(k) <=> Applied(s, SubSeq(a, 1, k - 1))[a[k].node] = a[k].old
  <2>1. k - 1 \in 0 .. Len(a)
    BY <1>1
  <2>2. SubSeq(ab, 1, k - 1) = SubSeq(a, 1, k - 1)
    BY <2>1, PrefixConcat
  <2>3. QED BY <1>1, <2>2
<1>4. ASSUME NEW k \in 1 .. Len(b)
      PROVE  At(Len(a) + k) <=> Applied(Applied(s, a), SubSeq(b, 1, k - 1))[b[k].node] = b[k].old
  <2>1. k - 1 \in 0 .. Len(b) /\ Len(a) + k - 1 = Len(a) + (k - 1)
    BY <1>1
  <2>2. SubSeq(ab, 1, Len(a) + k - 1) = a \o SubSeq(b, 1, k - 1)
    BY <2>1, PrefixConcat
  <2>3. SubSeq(b, 1, k - 1) \in Seq(Op)
    <3>1. k - 1 \in Int /\ \A i \in 1 .. k - 1 : b[i] \in Op
      BY <1>1, ElementOfSeq
    <3>2. QED BY <3>1, SubSeqProperties
  <2>4. Applied(s, SubSeq(ab, 1, Len(a) + k - 1)) = Applied(Applied(s, a), SubSeq(b, 1, k - 1))
    <3> DEFINE q == SubSeq(b, 1, k - 1)
    <3> HIDE DEF q
    <3>1. Applied(s, a \o q) = Applied(Applied(s, a), q)
      BY <2>3, SceneConcat DEF q
    <3>2. QED BY <2>2, <3>1, Zenon DEF q
  <2>5. QED BY <1>1, <2>4
<1> HIDE DEF At
<1>5. (\A k \in 1 .. Len(ab) : At(k)) <=>
        (\A k \in 1 .. Len(a) : At(k)) /\ (\A k \in 1 .. Len(b) : At(Len(a) + k))
  <2>1. \A k \in 1 .. Len(a) : k \in 1 .. Len(ab)
    BY <1>1
  <2>2. \A k \in 1 .. Len(b) : Len(a) + k \in 1 .. Len(ab)
    BY <1>1
  <2>3. ASSUME NEW k \in 1 .. Len(ab)
        PROVE  k \in 1 .. Len(a) \/ \E j \in 1 .. Len(b) : k = Len(a) + j
    <3>1. CASE k <= Len(a)
      BY <1>1, <3>1
    <3>2. CASE k > Len(a)
      <4>1. k - Len(a) \in 1 .. Len(b) /\ k = Len(a) + (k - Len(a))
        BY <1>1, <3>2
      <4>2. QED BY <4>1
    <3>3. QED BY <1>1, <3>1, <3>2
  <2>4. QED BY <2>1, <2>2, <2>3
<1>6. Runs(s, ab) <=> \A k \in 1 .. Len(ab) : At(k)
  BY <1>2 DEF Runs, At
<1>7. Runs(s, a) <=> \A k \in 1 .. Len(a) : At(k)
  BY <1>2, <1>3 DEF Runs
<1>8. Runs(Applied(s, a), b) <=> \A k \in 1 .. Len(b) : At(Len(a) + k)
  BY <1>2, <1>4 DEF Runs
<1>9. QED BY <1>5, <1>6, <1>7, <1>8

\* Operations that ran are taken back by reverting them: the scene is the one before.
LEMMA RevertUndoes ==
    ASSUME NEW s \in Scenes, NEW ops \in Seq(Op), Runs(s, ops)
    PROVE  Reverted(Applied(s, ops), ops) = s
<1>1. Len(ops) \in Nat /\ DOMAIN ops = 1 .. Len(ops)
  BY LenProperties
<1>2. ASSUME NEW n \in Nodes PROVE Reverted(Applied(s, ops), ops)[n] = s[n]
  <2>1. CASE Spares(ops, 1, Len(ops), n)
    BY <2>1, Untouched
  <2>2. CASE ~Spares(ops, 1, Len(ops), n)
    <3>1. PICK k \in 1 .. Len(ops) : ops[k].node = n /\ Spares(ops, 1, k - 1, n)
      BY <2>2, FirstTouch
    <3>2. Reverted(Applied(s, ops), ops)[n] = ops[k].old
      BY <3>1, Touched
    <3>3. k - 1 \in 0 .. Len(ops)
      BY <1>1
    <3>4. Applied(s, SubSeq(ops, 1, k - 1))[n] = s[n]
      BY <3>1, <3>3, PrefixAt
    <3>5. Applied(s, SubSeq(ops, 1, k - 1))[n] = ops[k].old
      BY <1>1, <3>1 DEF Runs
    <3>6. QED BY <3>2, <3>4, <3>5
  <2>3. QED BY <2>1, <2>2
<1>3. Reverted(Applied(s, ops), ops) \in Scenes
  BY SceneType
<1>4. QED BY <1>2, <1>3, SceneEqual

\* Walking back over them, each one finds the value it set.
LEMMA WalkBack ==
    ASSUME NEW s \in Scenes, NEW ops \in Seq(Op), Runs(s, ops), NEW k \in 1 .. Len(ops)
    PROVE  Reverted(Applied(s, ops), SubSeq(ops, k + 1, Len(ops)))[ops[k].node] = ops[k].new
<1> DEFINE n == ops[k].node
           t == Applied(s, ops)
<1>1. Len(ops) \in Nat /\ DOMAIN ops = 1 .. Len(ops) /\ k \in 0 .. Len(ops) /\ k + 1 \in Nat \ {0}
  BY LenProperties
<1>2. n \in Nodes /\ t \in Scenes
  <2>1. ops[k] \in Op
    BY ElementOfSeq
  <2>2. QED BY <2>1, SceneType DEF Op
<1> HIDE DEF t
<1>3. CASE Spares(ops, k + 1, Len(ops), n)
  <2>1. t[n] = ops[k].new
    BY <1>2, <1>3, Touched DEF t
  <2>2. Reverted(t, SubSeq(ops, k + 1, Len(ops)))[n] = t[n]
    BY <1>1, <1>2, <1>3, PrefixAt
  <2>3. QED BY <2>1, <2>2 DEF t
<1>4. CASE ~Spares(ops, k + 1, Len(ops), n)
  <2>1. PICK j \in 1 .. Len(ops) : k + 1 <= j /\ ops[j].node = n /\ Spares(ops, k + 1, j - 1, n)
    BY <1>1, <1>2, <1>4, FirstTouch
  <2>2. j \in k + 1 .. Len(ops) /\ j - 1 \in 0 .. Len(ops) /\ k \in 1 .. j - 1
    BY <1>1, <2>1
  <2>3. Reverted(t, SubSeq(ops, k + 1, Len(ops)))[n] = ops[j].old
    BY <1>1, <1>2, <2>1, <2>2, PrefixAt
  <2>4. Applied(s, SubSeq(ops, 1, j - 1))[n] = ops[k].new
    BY <1>2, <2>1, <2>2, PrefixAt
  <2>5. Applied(s, SubSeq(ops, 1, j - 1))[n] = ops[j].old
    BY <1>1, <2>1 DEF Runs
  <2>6. QED BY <2>3, <2>4, <2>5 DEF t
<1>5. QED BY <1>3, <1>4

-----------------------------------------------------------------------------
(***************************************************************************)
(* Induction up to a bound, and what a recursive function computes.        *)
(***************************************************************************)

\* A set that has 0 and with every number below n the next one has them all.
LEMMA Induct ==
    ASSUME NEW n \in Nat, NEW T, 0 \in T, \A k \in 1 .. n : k - 1 \in T => k \in T
    PROVE  \A k \in 0 .. n : k \in T
<1> DEFINE U == {k \in 0 .. n : k \notin T}
<1> SUFFICES ASSUME U # {} PROVE FALSE
  OBVIOUS
<1>1. U \in SUBSET Nat
  OBVIOUS
<1>2. PICK m \in U : \A y \in U : m <= y
  BY <1>1, LeastExists
<1>3. m \in 1 .. n /\ m - 1 \in 0 .. n /\ m \notin T
  BY <1>2
<1>4. m - 1 \in U
  BY <1>3
<1>5. m <= m - 1
  BY <1>2, <1>4
<1> HIDE DEF U
<1>6. QED BY <1>3, <1>5

-----------------------------------------------------------------------------
(***************************************************************************)
(* Stacks of transactions as one sequence of operations.                   *)
(***************************************************************************)
Transactions == Seq(Op)

\* Transactions can be joined in any grouping.
LEMMA Joined ==
    ASSUME NEW x \in Transactions, NEW y \in Transactions, NEW z \in Transactions
    PROVE  (x \o y) \o z = x \o (y \o z)
BY ConcatAssociative DEF Transactions

\* Transactions that are joined are one, and empty ones do not count.
LEMMA JoinType ==
    ASSUME NEW x \in Transactions, NEW y \in Transactions
    PROVE  x \o y \in Transactions /\ x \o <<>> = x /\ <<>> \o x = x
BY ConcatProperties, ConcatEmptySeq DEF Transactions

\* The function FlattenSeq is defined by: its value at i is the first i transactions in a row.
IsFlat(f, ss, m) ==
    f = [i \in 1 .. m |-> IF i = 1 THEN ss[i] ELSE f[i - 1] \o ss[i]]

\* That function exists, for any sequence.
LEMMA FlatExists ==
    ASSUME NEW n \in Nat, NEW ss
    PROVE  \E f : IsFlat(f, ss, n)
<1> DEFINE T == {m \in 0 .. n : \E f : IsFlat(f, ss, m)}
<1>1. 0 \in T
  <2> DEFINE f == [i \in 1 .. 0 |-> ss[i]]
  <2>1. IsFlat(f, ss, 0)
    BY DEF IsFlat
  <2> HIDE DEF f
  <2>2. QED BY <2>1
<1>2. ASSUME NEW k \in 1 .. n, k - 1 \in T PROVE k \in T
  <2>1. PICK f : IsFlat(f, ss, k - 1)
    BY <1>2
  <2>2. \A i \in 1 .. k - 1 : f[i] = IF i = 1 THEN ss[i] ELSE f[i - 1] \o ss[i]
    BY <2>1 DEF IsFlat
  <2> DEFINE h == [i \in 1 .. k |-> IF i = k THEN (IF i = 1 THEN ss[i] ELSE f[i - 1] \o ss[i])
                                    ELSE f[i]]
  <2>3. \A i \in 1 .. k : h[i] = IF i = k THEN (IF i = 1 THEN ss[i] ELSE f[i - 1] \o ss[i])
                                 ELSE f[i]
    OBVIOUS
  <2>4. h = [i \in 1 .. k |-> h[i]]
    OBVIOUS
  <2> HIDE DEF h
  <2>5. ASSUME NEW i \in 1 .. k PROVE h[i] = IF i = 1 THEN ss[i] ELSE h[i - 1] \o ss[i]
    <3>1. i # 1 => i - 1 \in 1 .. k /\ i - 1 # k /\ h[i - 1] = f[i - 1]
      BY <2>3
    <3>2. i # k => i \in 1 .. k - 1
      OBVIOUS
    <3>3. QED BY <2>2, <2>3, <3>1, <3>2
  <2>6. IsFlat(h, ss, k)
    BY <2>4, <2>5 DEF IsFlat
  <2>7. QED BY <2>6
<1> HIDE DEF T
<1>3. n \in T
  BY <1>1, <1>2, Induct
<1>4. QED BY <1>3 DEF T

\* It only depends on the transactions that it flattens.
LEMMA FlatSame ==
    ASSUME NEW m \in Nat, NEW ss, NEW tt, NEW f, NEW h, IsFlat(f, ss, m), IsFlat(h, tt, m),
           \A i \in 1 .. m : ss[i] = tt[i]
    PROVE  \A i \in 1 .. m : f[i] = h[i]
<1> DEFINE T == {i \in 0 .. m : i = 0 \/ f[i] = h[i]}
<1>1. \A i \in 1 .. m : /\ f[i] = IF i = 1 THEN ss[i] ELSE f[i - 1] \o ss[i]
                        /\ h[i] = IF i = 1 THEN tt[i] ELSE h[i - 1] \o tt[i]
  BY DEF IsFlat
<1>2. 0 \in T
  OBVIOUS
<1>3. ASSUME NEW k \in 1 .. m, k - 1 \in T PROVE k \in T
  <2>1. CASE k = 1
    BY <1>1, <2>1
  <2>2. CASE k # 1
    <3>1. f[k - 1] = h[k - 1]
      BY <1>3, <2>2
    <3>2. QED BY <1>1, <2>2, <3>1
  <2>3. QED BY <2>1, <2>2
<1> HIDE DEF T
<1>4. \A k \in 0 .. m : k \in T
  BY <1>2, <1>3, Induct
<1>5. QED BY <1>4 DEF T

\* FlattenSeq is its last value.
LEMMA FlatLast ==
    ASSUME NEW S, NEW ss \in Seq(S), ss # <<>>
    PROVE  \E f : IsFlat(f, ss, Len(ss)) /\ FlattenSeq(ss) = f[Len(ss)]
<1> DEFINE c == CHOOSE f : IsFlat(f, ss, Len(ss))
<1>1. Len(ss) \in Nat /\ Len(ss) # 0
  BY EmptySeq, LenProperties
<1>2. IsFlat(c, ss, Len(ss))
  BY <1>1, FlatExists
<1>3. FlattenSeq(ss) = c[Len(ss)]
  BY <1>1 DEF FlattenSeq, IsFlat
<1> HIDE DEF c
<1>4. QED BY <1>2, <1>3

\* No transactions are no operations.
LEMMA FlatEmpty == FlattenSeq(<<>>) = <<>>
BY EmptySeq DEF FlattenSeq

\* Flattened transactions are operations.
LEMMA FlatType ==
    ASSUME NEW ss \in Seq(Transactions)
    PROVE  FlattenSeq(ss) \in Transactions
<1>1. CASE ss = <<>>
  BY <1>1, FlatEmpty, EmptySeq DEF Transactions
<1>2. CASE ss # <<>>
  <2>1. PICK f : IsFlat(f, ss, Len(ss)) /\ FlattenSeq(ss) = f[Len(ss)]
    BY <1>2, FlatLast
  <2> DEFINE n == Len(ss)
             T == {i \in 0 .. n : i = 0 \/ f[i] \in Transactions}
  <2>2. n \in Nat /\ n # 0 /\ \A i \in 1 .. n : ss[i] \in Transactions
    BY <1>2, EmptySeq, LenProperties, ElementOfSeq
  <2>3. \A i \in 1 .. n : f[i] = IF i = 1 THEN ss[i] ELSE f[i - 1] \o ss[i]
    BY <2>1 DEF IsFlat
  <2> HIDE DEF n
  <2>4. 0 \in T
    BY <2>2
  <2>5. ASSUME NEW k \in 1 .. n, k - 1 \in T PROVE k \in T
    <3>1. CASE k = 1
      BY <2>2, <2>3, <3>1
    <3>2. CASE k # 1
      <4>1. f[k - 1] \in Transactions /\ ss[k] \in Transactions
        BY <2>2, <2>5, <3>2
      <4>2. f[k - 1] \o ss[k] \in Transactions
        BY <4>1, ConcatProperties DEF Transactions
      <4>3. QED BY <2>2, <2>3, <3>2, <4>2
    <3>3. QED BY <3>1, <3>2
  <2> HIDE DEF T
  <2>6. \A k \in 0 .. n : k \in T
    BY <2>2, <2>4, <2>5, Induct
  <2>7. f[n] \in Transactions
    <3>1. n \in T
      BY <2>2, <2>6
    <3>2. QED BY <2>2, <3>1 DEF T
  <2>8. QED BY <2>1, <2>7 DEF n
<1>3. QED BY <1>1, <1>2

\* A transaction on top comes last.
LEMMA FlatAppend ==
    ASSUME NEW ss \in Seq(Transactions), NEW t \in Transactions
    PROVE  FlattenSeq(Append(ss, t)) = FlattenSeq(ss) \o t
<1> DEFINE tt == Append(ss, t)
           n == Len(ss)
<1>1. n \in Nat /\ tt \in Seq(Transactions) /\ tt # <<>> /\ Len(tt) = n + 1 /\ tt[n + 1] = t
      /\ \A i \in 1 .. n : tt[i] = ss[i]
  BY AppendProperties, LenProperties
<1> HIDE DEF tt
<1>2. PICK h : IsFlat(h, tt, Len(tt)) /\ FlattenSeq(tt) = h[Len(tt)]
  BY <1>1, FlatLast
<1>3. \A i \in 1 .. n + 1 : h[i] = IF i = 1 THEN tt[i] ELSE h[i - 1] \o tt[i]
  BY <1>1, <1>2 DEF IsFlat
<1>4. CASE ss = <<>>
  <2>1. n = 0
    BY <1>4, EmptySeq
  <2>2. FlattenSeq(tt) = t
    BY <1>1, <1>2, <1>3, <2>1
  <2>3. <<>> \o t = t
    BY ConcatEmptySeq DEF Transactions
  <2>4. QED BY <1>4, <2>2, <2>3, FlatEmpty DEF tt
<1>5. CASE ss # <<>>
  <2>1. n # 0
    BY <1>5, EmptySeq
  <2>2. PICK f : IsFlat(f, ss, n) /\ FlattenSeq(ss) = f[n]
    BY <1>5, FlatLast
  <2> DEFINE e == [i \in 1 .. n |-> h[i]]
  <2>3. IsFlat(e, ss, n)
    <3>1. ASSUME NEW i \in 1 .. n PROVE e[i] = IF i = 1 THEN ss[i] ELSE e[i - 1] \o ss[i]
      <4>1. h[i] = IF i = 1 THEN ss[i] ELSE h[i - 1] \o ss[i]
        BY <1>1, <1>3
      <4>2. i # 1 => i - 1 \in 1 .. n
        BY <1>1
      <4>3. QED BY <4>1, <4>2
    <3>2. QED BY <3>1 DEF IsFlat
  <2>4. e[n] = h[n]
    BY <1>1, <2>1
  <2> HIDE DEF e
  <2>5. f[n] = e[n]
    <3>1. \A i \in 1 .. n : f[i] = e[i]
      <4> HIDE DEF n
      <4>1. QED BY <1>1, <2>2, <2>3, FlatSame
    <3>2. QED BY <1>1, <2>1, <3>1
  <2>6. h[n + 1] = h[n] \o t
    <3>1. \A i \in 1 .. n : h[i + 1] = h[i] \o tt[i + 1]
      <4> SUFFICES ASSUME NEW i \in 1 .. n PROVE h[i + 1] = h[i] \o tt[i + 1]
        OBVIOUS
      <4>1. i + 1 \in 1 .. n + 1 /\ i + 1 # 1 /\ (i + 1) - 1 = i
        BY <1>1
      <4>2. QED BY <1>3, <4>1
    <3>2. n \in 1 .. n
      BY <1>1, <2>1
    <3>3. QED BY <1>1, <3>1, <3>2
  <2>7. QED BY <1>1, <1>2, <2>2, <2>4, <2>5, <2>6 DEF tt
<1>6. QED BY <1>4, <1>5

\* Flattening a concatenation concatenates what its parts flatten to.
LEMMA FlatConcat ==
    ASSUME NEW a \in Seq(Transactions), NEW b \in Seq(Transactions)
    PROVE  FlattenSeq(a \o b) = FlattenSeq(a) \o FlattenSeq(b)
<1> DEFINE n == Len(b)
           P(k) == SubSeq(b, 1, k)
           T == {k \in 0 .. n : FlattenSeq(a \o P(k)) = FlattenSeq(a) \o FlattenSeq(P(k))}
<1>1. n \in Nat /\ P(n) = b /\ P(0) = <<>> /\ FlattenSeq(a) \in Transactions
      /\ \A i \in 1 .. n : b[i] \in Transactions
  BY SubSeqFull, SubSeqEmpty, LenProperties, ElementOfSeq, FlatType
<1>2. 0 \in T
  <2>1. a \o P(0) = a
    BY <1>1, ConcatEmptySeq
  <2>2. FlattenSeq(a) \o <<>> = FlattenSeq(a)
    BY <1>1, ConcatEmptySeq DEF Transactions
  <2>3. FlattenSeq(a \o P(0)) = FlattenSeq(a) \o FlattenSeq(P(0))
    BY <1>1, <2>1, <2>2, FlatEmpty, Zenon
  <2>4. 0 \in 0 .. n
    BY <1>1
  <2>5. QED BY <2>3, <2>4
<1>3. ASSUME NEW k \in 1 .. n, k - 1 \in T PROVE k \in T
  <2> DEFINE p == P(k - 1)
  <2>1. p \in Seq(Transactions) /\ b[k] \in Transactions
    <3>1. k - 1 \in Int /\ 1 \in Int /\ \A i \in 1 .. k - 1 : b[i] \in Transactions
      BY <1>1
    <3>2. QED BY <1>1, <3>1, SubSeqProperties
  <2>2. P(k) = p \o <<b[k]>>
    <3>1. 1 \in 1 .. Len(b) /\ k \in 1 .. Len(b)
      BY <1>1
    <3>2. QED BY <3>1, SubSeqRecursiveSecond
  <2>3. P(k) = Append(p, b[k])
    BY <2>1, <2>2, AppendIsConcat
  <2>4. a \o P(k) = Append(a \o p, b[k]) /\ a \o p \in Seq(Transactions)
    <3> HIDE DEF p
    <3>1. a \o p \in Seq(Transactions) /\ <<b[k]>> \in Seq(Transactions)
      BY <2>1, ConcatProperties
    <3>2. Append(a \o p, b[k]) = (a \o p) \o <<b[k]>>
      BY <2>1, <3>1, AppendIsConcat
    <3>3. (a \o p) \o <<b[k]>> = a \o (p \o <<b[k]>>)
      BY <2>1, <3>1, ConcatAssociative, SMTT(40)
    <3>4. QED BY <2>2, <3>1, <3>2, <3>3
  <2>5. FlattenSeq(a \o p) = FlattenSeq(a) \o FlattenSeq(p) /\ FlattenSeq(p) \in Transactions
    BY <1>3, <2>1, FlatType
  <2> HIDE DEF p, P
  <2>6. FlattenSeq(P(k)) = FlattenSeq(p) \o b[k]
    BY <2>1, <2>3, FlatAppend
  <2>7. FlattenSeq(a \o P(k)) = (FlattenSeq(a) \o FlattenSeq(p)) \o b[k]
    BY <2>1, <2>4, <2>5, FlatAppend
  <2>8. (FlattenSeq(a) \o FlattenSeq(p)) \o b[k] = FlattenSeq(a) \o (FlattenSeq(p) \o b[k])
    <3>1. FlattenSeq(a) \in Transactions /\ FlattenSeq(p) \in Transactions /\ b[k] \in Transactions
      BY <1>1, <2>1, <2>5
    <3> HIDE DEF T, n
    <3>2. QED BY <3>1, Joined, Zenon
  <2>9. k \in 0 .. n
    BY <1>1
  <2>10. QED BY <2>6, <2>7, <2>8, <2>9
<1> HIDE DEF T
<1>4. \A k \in 0 .. n : k \in T
  <2> HIDE DEF n
  <2>1. QED BY <1>1, <1>2, <1>3, Induct
<1>5. n \in T
  BY <1>1, <1>4
<1>6. QED BY <1>1, <1>5 DEF T

\* One transaction.
LEMMA FlatOne ==
    ASSUME NEW t \in Transactions
    PROVE  FlattenSeq(<<t>>) = t
<1>1. <<>> \in Seq(Transactions) /\ Append(<<>>, t) = <<t>>
  BY EmptySeq
<1>2. <<>> \o t = t
  BY ConcatEmptySeq DEF Transactions
<1>3. QED BY <1>1, <1>2, FlatAppend, FlatEmpty

-----------------------------------------------------------------------------
(***************************************************************************)
(* Stacks: the next element is the last one.                               *)
(***************************************************************************)

\* A nonempty stack is its front with its last element on top.
LEMMA StackTop ==
    ASSUME NEW S, NEW ss \in Seq(S), ss # <<>>
    PROVE  /\ Front(ss) \in Seq(S) /\ Last(ss) \in S /\ Len(Front(ss)) = Len(ss) - 1
           /\ ss = Append(Front(ss), Last(ss))
<1>1. Len(ss) \in Nat \ {0}
  BY EmptySeq
<1>2. PICK r \in Seq(S), x \in S : ss = Append(r, x)
  BY SequenceEmptyOrAppend
<1>3. /\ Len(ss) = Len(r) + 1 /\ Len(r) \in Nat /\ ss[Len(r) + 1] = x
      /\ \A i \in 1 .. Len(r) : ss[i] = r[i] /\ r[i] \in S
  BY <1>2, AppendProperties, LenProperties, ElementOfSeq
<1>4. Last(ss) = x
  BY <1>3 DEF Last
<1>5. Front(ss) = r
  <2>1. Len(ss) - 1 = Len(r) /\ Len(r) \in Int /\ 1 \in Int /\ \A i \in 1 .. Len(r) : ss[i] \in S
    BY <1>3
  <2>2. Front(ss) = SubSeq(ss, 1, Len(r))
    BY <2>1 DEF Front
  <2>3. /\ Front(ss) \in Seq(S) /\ Len(Front(ss)) = Len(r)
        /\ \A i \in 1 .. Len(r) : Front(ss)[i] = ss[i]
    BY <1>3, <2>1, <2>2, SubSeqProperties
  <2>4. QED BY <1>3, <2>3, SeqEqual
<1>6. QED BY <1>2, <1>3, <1>4, <1>5

\* Front and last of what was just put on a stack.
LEMMA TopAppend ==
    ASSUME NEW S, NEW r \in Seq(S), NEW x \in S
    PROVE  /\ Append(r, x) \in Seq(S) /\ Append(r, x) # <<>>
           /\ Front(Append(r, x)) = r /\ Last(Append(r, x)) = x
<1> DEFINE ss == Append(r, x)
<1>1. ss \in Seq(S) /\ ss # <<>>
  BY AppendProperties
<1> HIDE DEF ss
<1>2. ss = Append(Front(ss), Last(ss)) /\ Front(ss) \in Seq(S) /\ Last(ss) \in S
  BY <1>1, StackTop
<1>3. Append(r, x) = Append(Front(ss), Last(ss))
  BY <1>2 DEF ss
<1>4. r = Front(ss) /\ x = Last(ss)
  BY <1>2, <1>3, AppendInjective
<1>5. QED BY <1>1, <1>4 DEF ss

\* Putting an element on the upper of two stacks puts it on both.
LEMMA AppendConcat ==
    ASSUME NEW S, NEW a \in Seq(S), NEW r \in Seq(S), NEW x \in S
    PROVE  a \o Append(r, x) = Append(a \o r, x)
<1>1. <<x>> \in Seq(S) /\ a \o r \in Seq(S)
  BY ConcatProperties
<1>2. Append(r, x) = r \o <<x>> /\ Append(a \o r, x) = (a \o r) \o <<x>>
  BY <1>1, AppendIsConcat
<1>3. (a \o r) \o <<x>> = a \o (r \o <<x>>)
  <2>1. \A y \in Seq(S) : (a \o r) \o y = a \o (r \o y)
    BY ConcatAssociative
  <2>2. QED BY <1>1, <2>1, Zenon
<1>4. QED BY <1>2, <1>3

\* The top of two stacks is the top of the upper one.
LEMMA TopConcat ==
    ASSUME NEW S, NEW a \in Seq(S), NEW b \in Seq(S), b # <<>>
    PROVE  /\ a \o b \in Seq(S) /\ a \o b # <<>>
           /\ Front(a \o b) = a \o Front(b) /\ Last(a \o b) = Last(b)
<1>1. Front(b) \in Seq(S) /\ Last(b) \in S /\ b = Append(Front(b), Last(b))
  BY StackTop
<1> DEFINE f == Front(b)
           l == Last(b)
           af == a \o f
<1> HIDE DEF f, l
<1>2. f \in Seq(S) /\ l \in S /\ b = Append(f, l)
  BY <1>1 DEF f, l
<1>3. a \o b = Append(af, l)
  BY <1>2, AppendConcat
<1>4. af \in Seq(S)
  BY <1>2, ConcatProperties
<1> HIDE DEF af
<1>5. Append(af, l) \in Seq(S) /\ Append(af, l) # <<>>
      /\ Front(Append(af, l)) = af /\ Last(Append(af, l)) = l
  BY <1>2, <1>4, TopAppend
<1>6. QED BY <1>3, <1>5, Zenon DEF f, l, af

\* Replacing the top of a stack.
LEMMA TopReplaced ==
    ASSUME NEW S, NEW ss \in Seq(S), ss # <<>>, NEW x \in S
    PROVE  [ss EXCEPT ![Len(ss)] = x] = Append(Front(ss), x)
<1> DEFINE n == Len(ss)
           e == [ss EXCEPT ![n] = x]
           r == Front(ss)
<1>1. n \in Nat \ {0} /\ n \in 1 .. n
  BY EmptySeq
<1>2. e \in Seq(S) /\ Len(e) = n /\ \A j \in 1 .. n : e[j] = IF j = n THEN x ELSE ss[j]
  BY <1>1, ExceptSeq
<1>3. r \in Seq(S) /\ Len(r) = n - 1 /\ ss = Append(r, Last(ss)) /\ Last(ss) \in S
  BY StackTop
<1>4. \A i \in 1 .. n - 1 : ss[i] = r[i]
  <2> HIDE DEF r
  <2>1. \A i \in 1 .. Len(r) : Append(r, Last(ss))[i] = r[i]
    BY <1>3, AppendProperties
  <2>2. QED BY <1>3, <2>1
<1> DEFINE t == Append(r, x)
<1>5. t \in Seq(S) /\ Len(t) = n /\ t[n] = x /\ \A i \in 1 .. n - 1 : t[i] = r[i]
  <2> HIDE DEF r
  <2>1. t \in Seq(S) /\ Len(t) = Len(r) + 1 /\ t[Len(r) + 1] = x /\ \A i \in 1 .. Len(r) : t[i] = r[i]
    BY <1>3, AppendProperties
  <2>2. Len(r) + 1 = n
    BY <1>1, <1>3
  <2>3. QED BY <1>3, <2>1, <2>2
<1> HIDE DEF t, e, r
<1>6. \A j \in 1 .. n : e[j] = t[j]
  <2> SUFFICES ASSUME NEW j \in 1 .. n PROVE e[j] = t[j]
    OBVIOUS
  <2>1. j = n \/ j \in 1 .. n - 1
    BY <1>1
  <2>2. QED BY <1>1, <1>2, <1>4, <1>5, <2>1
<1>7. e = t
  BY <1>2, <1>5, <1>6, SeqEqual
<1>8. QED BY <1>7 DEF e, t, r

\* A reversed stack starts with its top.
LEMMA ReverseAppend ==
    ASSUME NEW S, NEW r \in Seq(S), NEW x \in S
    PROVE  Reverse(Append(r, x)) = <<x>> \o Reverse(r) /\ Reverse(r) \in Seq(S)
<1> DEFINE ss == Append(r, x)
           n == Len(r)
<1>1. n \in Nat /\ Len(ss) = n + 1 /\ ss[n + 1] = x
      /\ \A i \in 1 .. n : ss[i] = r[i] /\ r[i] \in S
  BY AppendProperties, LenProperties, ElementOfSeq
<1> HIDE DEF ss
<1>2. Reverse(r) \in Seq(S) /\ Len(Reverse(r)) = n /\ \A i \in 1 .. n : Reverse(r)[i] = r[n - i + 1]
  <2>1. \A i \in 1 .. n : n - i + 1 \in 1 .. n
    BY <1>1
  <2>2. Reverse(r) \in [1 .. n -> S] /\ \A i \in 1 .. n : Reverse(r)[i] = r[n - i + 1]
    BY <1>1, <2>1 DEF Reverse
  <2>3. Reverse(r) \in Seq(S)
    BY <1>1, <2>2, SeqDef
  <2>4. DOMAIN Reverse(r) = 1 .. n /\ DOMAIN Reverse(r) = 1 .. Len(Reverse(r)) /\ Len(Reverse(r)) \in Nat
    BY <2>2, <2>3, LenProperties
  <2>5. Len(Reverse(r)) = n
    BY <1>1, <2>4
  <2>6. QED BY <2>2, <2>3, <2>5
<1>3. /\ Reverse(ss) \in Seq(S) /\ Len(Reverse(ss)) = n + 1
      /\ \A i \in 1 .. n + 1 : Reverse(ss)[i] = ss[n + 1 - i + 1]
  <2>1. \A i \in 1 .. n + 1 : n + 1 - i + 1 \in 1 .. n + 1 /\ ss[i] \in S
    <3>1. \A i \in 1 .. n + 1 : i \in 1 .. n \/ i = n + 1
      BY <1>1
    <3>2. QED BY <1>1, <3>1
  <2>2. Reverse(ss) \in [1 .. n + 1 -> S] /\ \A i \in 1 .. n + 1 : Reverse(ss)[i] = ss[n + 1 - i + 1]
    BY <1>1, <2>1 DEF Reverse
  <2>3. Reverse(ss) \in Seq(S)
    <3>1. n + 1 \in Nat
      BY <1>1
    <3>2. QED BY <2>2, <3>1, SeqDef
  <2>4. DOMAIN Reverse(ss) = 1 .. n + 1 /\ DOMAIN Reverse(ss) = 1 .. Len(Reverse(ss))
        /\ Len(Reverse(ss)) \in Nat
    BY <2>2, <2>3, LenProperties
  <2>5. Len(Reverse(ss)) = n + 1
    BY <1>1, <2>4
  <2>6. QED BY <2>2, <2>3, <2>5
<1> DEFINE t == <<x>> \o Reverse(r)
<1>4. /\ t \in Seq(S) /\ Len(t) = n + 1
      /\ t[1] = x /\ \A i \in 1 .. n + 1 : ~(i <= 1) => t[i] = Reverse(r)[i - 1]
  <2> DEFINE q == Reverse(r)
             o == <<x>>
  <2>1. o \in Seq(S) /\ Len(o) = 1 /\ o[1] = x /\ q \in Seq(S) /\ Len(q) = n
    BY <1>2
  <2> HIDE DEF o, q
  <2>2. /\ o \o q \in Seq(S) /\ Len(o \o q) = Len(o) + Len(q)
        /\ \A i \in 1 .. Len(o) + Len(q) : (o \o q)[i] = IF i <= Len(o) THEN o[i] ELSE q[i - Len(o)]
    <3>1. o \in Seq(S) /\ q \in Seq(S)
      BY <2>1
    <3>2. QED BY <3>1, ConcatProperties
  <2>3. Len(o) + Len(q) = n + 1 /\ 1 \in 1 .. n + 1 /\ n + 1 \in Nat
    BY <1>1, <2>1
  <2>4. (o \o q)[1] = x
    BY <2>1, <2>2, <2>3
  <2>5. \A i \in 1 .. n + 1 : ~(i <= 1) => (o \o q)[i] = q[i - 1]
    BY <2>1, <2>2, <2>3
  <2>6. QED BY <2>2, <2>3, <2>4, <2>5 DEF o, q
<1> HIDE DEF t
<1>5. \A i \in 1 .. n + 1 : Reverse(ss)[i] = t[i]
  <2> SUFFICES ASSUME NEW i \in 1 .. n + 1 PROVE Reverse(ss)[i] = t[i]
    OBVIOUS
  <2>1. CASE i = 1
    BY <1>1, <1>3, <1>4, <2>1
  <2>2. CASE i # 1
    <3>1. i - 1 \in 1 .. n /\ n + 1 - i + 1 = n - (i - 1) + 1 /\ n - (i - 1) + 1 \in 1 .. n /\ ~(i <= 1)
      BY <1>1, <2>2
    <3>2. Reverse(ss)[i] = r[n - (i - 1) + 1]
      BY <1>1, <1>3, <3>1
    <3>3. t[i] = Reverse(r)[i - 1]
      BY <1>4, <3>1
    <3>4. QED BY <1>2, <3>1, <3>2, <3>3
  <2>3. QED BY <2>1, <2>2
<1>6. Reverse(ss) = t
  BY <1>3, <1>4, <1>5, SeqEqual
<1>7. QED BY <1>2, <1>6 DEF ss, t

\* How many transactions drop off a stack when one more is pushed, and the ones kept.
Excess(ss) == Len(ss) + 1 - (IF Len(ss) + 1 > MaxDepth THEN MaxDepth ELSE Len(ss) + 1)
Dropped(ss) == SubSeq(ss, 1, Excess(ss))
Kept(ss) == SubSeq(ss, Excess(ss) + 1, Len(ss))

\* Pushing puts a transaction on the newest of the ones there: fewer than max_depth
\* of them, and all of them where there is room.
LEMMA PushKeeps ==
    ASSUME NEW S, NEW ss \in Seq(S)
    PROVE  /\ Dropped(ss) \in Seq(S) /\ Kept(ss) \in Seq(S) /\ ss = Dropped(ss) \o Kept(ss)
           /\ Len(Kept(ss)) < MaxDepth
           /\ Len(ss) < MaxDepth => Kept(ss) = ss
           /\ \A y \in S : PushUndo(ss, y) = Append(Kept(ss), y)
<1> DEFINE n == Len(ss)
           m == Excess(ss)
           pre == Dropped(ss)
           kept == Kept(ss)
<1>1. n \in Nat /\ MaxDepth \in Nat \ {0} /\ \A i \in 1 .. n : ss[i] \in S
  BY HistoryAssumption, LenProperties, ElementOfSeq
<1>2. m \in 0 .. n /\ n - m < MaxDepth /\ (n < MaxDepth => m = 0)
  BY <1>1 DEF Excess
<1> HIDE DEF m
<1>3. pre \in Seq(S)
  <2>1. m \in Int /\ \A i \in 1 .. m : ss[i] \in S
    BY <1>1, <1>2
  <2>2. QED BY <2>1, SubSeqProperties DEF Dropped, m
<1>4. kept \in Seq(S) /\ Len(kept) = n - m /\ \A i \in 1 .. n - m : kept[i] = ss[m + i]
  <2>1. m + 1 \in Int /\ n \in Int /\ \A i \in m + 1 .. n : ss[i] \in S
    BY <1>1, <1>2
  <2>2. /\ kept \in Seq(S) /\ Len(kept) = IF m + 1 <= n THEN n - (m + 1) + 1 ELSE 0
        /\ \A i \in 1 .. n - (m + 1) + 1 : kept[i] = ss[(m + 1) + i - 1]
    <3> HIDE DEF n
    <3>1. kept = SubSeq(ss, m + 1, n)
      BY DEF Kept, m, n
    <3> HIDE DEF kept
    <3>2. QED BY <2>1, <3>1, SubSeqProperties
  <2> HIDE DEF kept, n
  <2>3. n - (m + 1) + 1 = n - m /\ \A i \in 1 .. n - m : (m + 1) + i - 1 = m + i
    BY <1>1, <1>2
  <2>4. Len(kept) = n - m
    BY <1>1, <1>2, <2>2
  <2>5. QED BY <2>2, <2>3, <2>4
<1>5. ss = pre \o kept
  <2>1. m \in 0 .. n /\ 1 \in 1 .. n + 1 /\ m \in 1 - 1 .. n /\ n \in m .. n
    BY <1>1, <1>2
  <2>2. pre \o kept = SubSeq(ss, 1, n)
    BY <2>1, ConcatAdjacentSubSeq DEF Dropped, Kept, m
  <2>3. QED BY <2>2, SubSeqFull
<1>6. n < MaxDepth => kept = ss
  <2> SUFFICES ASSUME n < MaxDepth PROVE kept = ss
    OBVIOUS
  <2>1. m = 0
    BY <1>2
  <2>2. kept = SubSeq(ss, 1, n)
    BY <2>1 DEF Kept, m
  <2>3. QED BY <2>2, SubSeqFull
<1>7. ASSUME NEW y \in S PROVE PushUndo(ss, y) = Append(kept, y)
  <2> DEFINE p == Append(ss, y)
             r == SubSeq(p, m + 1, n + 1)
             a == Append(kept, y)
  <2>1. p \in Seq(S) /\ Len(p) = n + 1 /\ p[n + 1] = y /\ \A i \in 1 .. n : p[i] = ss[i]
    BY AppendProperties
  <2>2. a \in Seq(S) /\ Len(a) = n - m + 1 /\ a[n - m + 1] = y
        /\ \A i \in 1 .. n - m : a[i] = ss[m + i]
    <3> HIDE DEF kept
    <3>1. a \in Seq(S) /\ Len(a) = Len(kept) + 1 /\ a[Len(kept) + 1] = y
          /\ \A i \in 1 .. Len(kept) : a[i] = kept[i]
      BY <1>4, AppendProperties
    <3>2. QED BY <1>4, <3>1
  <2>3. PushUndo(ss, y) = r
    <3>1. PushUndo(ss, y) = SubSeq(p, 1 + Len(p) - (IF Len(p) > MaxDepth THEN MaxDepth ELSE Len(p)), Len(p))
      BY DEF PushUndo
    <3>2. 1 + Len(p) - (IF Len(p) > MaxDepth THEN MaxDepth ELSE Len(p)) = m + 1
      <4> HIDE DEF p, n
      <4>1. QED BY <1>1, <2>1 DEF m, Excess, n
    <3> HIDE DEF p, n
    <3>3. QED BY <2>1, <3>1, <3>2
  <2> HIDE DEF p, a, kept, n, pre
  <2>4. r \in Seq(S) /\ Len(r) = n - m + 1 /\ \A i \in 1 .. n - m + 1 : r[i] = p[m + i]
    <3>1. m + 1 \in Int /\ n + 1 \in Int /\ m + 1 <= n + 1
      BY <1>1, <1>2
    <3>2. \A i \in m + 1 .. n + 1 : p[i] \in S
      <4>1. \A i \in m + 1 .. n + 1 : i \in 1 .. Len(p)
        BY <1>1, <1>2, <2>1
      <4>2. QED BY <2>1, <4>1, ElementOfSeq
    <3> DEFINE lo == m + 1
               hi == n + 1
    <3>3. lo \in Int /\ hi \in Int /\ \A i \in lo .. hi : p[i] \in S
      BY <3>1, <3>2
    <3>4. lo <= hi /\ hi - lo + 1 = n - m + 1 /\ \A i \in 1 .. n - m + 1 : lo + i - 1 = m + i
      BY <1>1, <1>2
    <3>5. r = SubSeq(p, lo, hi)
      OBVIOUS
    <3> HIDE DEF lo, hi, r
    <3>6. /\ SubSeq(p, lo, hi) \in Seq(S)
          /\ Len(SubSeq(p, lo, hi)) = IF lo <= hi THEN hi - lo + 1 ELSE 0
          /\ \A i \in 1 .. hi - lo + 1 : SubSeq(p, lo, hi)[i] = p[lo + i - 1]
      BY <3>3, SubSeqProperties
    <3>7. /\ r \in Seq(S) /\ Len(r) = IF lo <= hi THEN hi - lo + 1 ELSE 0
          /\ \A i \in 1 .. hi - lo + 1 : r[i] = p[lo + i - 1]
      BY <3>5, <3>6, Zenon
    <3>8. QED BY <3>4, <3>7
  <2> HIDE DEF r
  <2>5. \A i \in 1 .. n - m + 1 : r[i] = a[i]
    <3> SUFFICES ASSUME NEW i \in 1 .. n - m + 1 PROVE r[i] = a[i]
      OBVIOUS
    <3>1. CASE i = n - m + 1
      <4>1. m + i = n + 1
        BY <1>1, <1>2, <3>1
      <4>2. QED BY <2>1, <2>2, <2>4, <3>1, <4>1
    <3>2. CASE i # n - m + 1
      <4>1. i \in 1 .. n - m /\ m + i \in 1 .. n
        BY <1>1, <1>2, <3>2
      <4>2. QED BY <2>1, <2>2, <2>4, <4>1
    <3>3. QED BY <3>1, <3>2
  <2>6. r = a
    BY <2>2, <2>4, <2>5, SeqEqual
  <2>7. QED BY <2>3, <2>6 DEF a
<1>8. Len(kept) < MaxDepth
  BY <1>2, <1>4
<1> HIDE DEF pre, kept
<1>9. QED BY <1>3, <1>4, <1>5, <1>6, <1>7, <1>8, Zenon DEF pre, kept
=============================================================================
