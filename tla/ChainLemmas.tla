---------------------------- MODULE ChainLemmas ----------------------------
(***************************************************************************)
(* Lemmas about sequences.  First the chains of the hash tables of linqd   *)
(* and s2s and its lists, in which each object occurs once.  Then queues   *)
(* and streams of packets: what is in them, which of their packets has a   *)
(* number, what they say of a user, and the bags of packets in no queue.   *)
(***************************************************************************)
EXTENDS Integers, FiniteSets, SequencesExt, Lists, SequenceTheorems,
        FiniteSetTheorems, WellFoundedInduction, TLAPS

\* Chain h holds the objects of S, a set of elements of B, each once.
Chain(B, h, S) == h \in Seq(B) /\ IsInjective(h) /\ ToSet(h) = S

LEMMA MinExists ==
  ASSUME NEW S \in SUBSET Nat, S # {}
  PROVE  Min(S) \in S /\ \A y \in S : Min(S) <= y
<1> DEFINE R == OpToRel(<, Nat)
<1>1. IsWellFoundedOn(R, Nat)
  BY NatLessThanWellFounded
<1>2. PICK x \in S : \A y \in S : <<y, x>> \notin R
  <2> HIDE DEF R
  <2> QED
    BY <1>1, WFMin
<1>3. \A y \in S : x <= y
  <2> SUFFICES ASSUME NEW y \in S, ~(x <= y)
               PROVE  FALSE
    OBVIOUS
  <2>1. y \in Nat /\ x \in Nat /\ y < x
    OBVIOUS
  <2>2. <<y, x>> \in R
    BY <2>1 DEF OpToRel
  <2> QED
    BY <1>2, <2>2
<1> QED
  BY <1>3 DEF Min

LEMMA RemoveAtSeq ==
  ASSUME NEW S, NEW s \in Seq(S), NEW i \in 1 .. Len(s)
  PROVE  /\ RemoveAt(s, i) \in Seq(S)
         /\ Len(RemoveAt(s, i)) = Len(s) - 1
         /\ \A k \in 1 .. Len(s) - 1 : RemoveAt(s, i)[k] = IF k < i THEN s[k] ELSE s[k + 1]
<1> DEFINE a == SubSeq(s, 1, i - 1)
           b == SubSeq(s, i + 1, Len(s))
<1>1. a \in Seq(S) /\ Len(a) = i - 1 /\ \A k \in 1 .. i - 1 : a[k] = s[k]
  OBVIOUS
<1>2. b \in Seq(S) /\ Len(b) = Len(s) - i /\ \A k \in 1 .. Len(s) - i : b[k] = s[i + k]
  OBVIOUS
<1>3. RemoveAt(s, i) = a \o b
  BY DEF RemoveAt
<1>4. Len(s) \in Nat
  OBVIOUS
<1> HIDE DEF a, b
<1>5. /\ a \o b \in Seq(S) /\ Len(a \o b) = Len(a) + Len(b)
      /\ \A k \in 1 .. Len(a) + Len(b) :
           (a \o b)[k] = IF k <= Len(a) THEN a[k] ELSE b[k - Len(a)]
  BY <1>1, <1>2, ConcatProperties
<1>6. Len(a) + Len(b) = Len(s) - 1
  BY <1>1, <1>2, <1>4
<1>7. ASSUME NEW k \in 1 .. Len(s) - 1, k < i
      PROVE  (a \o b)[k] = s[k]
  <2>1. k <= Len(a) /\ k \in 1 .. i - 1
    BY <1>1, <1>7
  <2> QED
    BY <1>1, <1>5, <1>6, <2>1
<1>8. ASSUME NEW k \in 1 .. Len(s) - 1, ~(k < i)
      PROVE  (a \o b)[k] = s[k + 1]
  <2>1. k - Len(a) \in 1 .. Len(s) - i /\ ~(k <= Len(a))
    BY <1>1, <1>4, <1>8
  <2>2. b[k - Len(a)] = s[i + (k - Len(a))] /\ i + (k - Len(a)) = k + 1
    BY <1>1, <1>2, <2>1
  <2> QED
    BY <1>5, <1>6, <2>1, <2>2
<1> QED
  BY <1>3, <1>5, <1>6, <1>7, <1>8

\* An object that is put in front.
LEMMA PutChain ==
  ASSUME NEW B, NEW h, NEW S, NEW s \in B, Chain(B, h, S), s \notin S
  PROVE  Chain(B, <<s>> \o h, S \cup {s})
<1> DEFINE g == <<s>> \o h
<1>1. h \in Seq(B) /\ DOMAIN h = 1 .. Len(h) /\ Len(h) \in Nat
  BY DEF Chain
<1>2. <<s>> \in Seq(B) /\ Len(<<s>>) = 1 /\ <<s>>[1] = s
  OBVIOUS
<1>3. /\ g \in Seq(B) /\ Len(g) = 1 + Len(h)
      /\ \A k \in 1 .. 1 + Len(h) : g[k] = IF k <= 1 THEN <<s>>[k] ELSE h[k - 1]
  BY <1>1, <1>2, ConcatProperties
<1>4. DOMAIN g = 1 .. 1 + Len(h)
  BY <1>3
<1>5. g[1] = s /\ \A k \in 2 .. 1 + Len(h) : g[k] = h[k - 1] /\ k - 1 \in DOMAIN h
  BY <1>1, <1>2, <1>3
<1> HIDE DEF g
<1>6. \A k \in DOMAIN h : h[k] # s /\ h[k] \in S
  BY DEF Chain, ToSet
<1>7. ASSUME NEW j \in DOMAIN g, NEW k \in DOMAIN g, g[j] = g[k]
      PROVE  j = k
  <2>1. CASE j = 1 /\ k # 1
    <3>1. k \in 2 .. 1 + Len(h)
      BY <1>1, <1>4, <2>1
    <3> QED
      BY <1>5, <1>6, <1>7, <2>1, <3>1
  <2>2. CASE j # 1 /\ k = 1
    <3>1. j \in 2 .. 1 + Len(h)
      BY <1>1, <1>4, <2>2
    <3> QED
      BY <1>5, <1>6, <1>7, <2>2, <3>1
  <2>3. CASE j # 1 /\ k # 1
    <3>1. j \in 2 .. 1 + Len(h) /\ k \in 2 .. 1 + Len(h)
      BY <1>1, <1>4, <2>3
    <3>2. h[j - 1] = h[k - 1] /\ j - 1 \in DOMAIN h /\ k - 1 \in DOMAIN h
      BY <1>5, <1>7, <3>1
    <3>3. j - 1 = k - 1
      BY <3>2 DEF Chain, IsInjective
    <3> QED
      BY <1>4, <3>3
  <2> QED
    BY <2>1, <2>2, <2>3
<1>8. ToSet(g) = S \cup {s}
  <2>1. ASSUME NEW t \in ToSet(g)
        PROVE  t \in S \cup {s}
    <3>1. PICK k \in DOMAIN g : t = g[k]
      BY <2>1 DEF ToSet
    <3>2. CASE k = 1
      BY <1>5, <3>1, <3>2
    <3>3. CASE k # 1
      <4>1. k \in 2 .. 1 + Len(h)
        BY <1>1, <1>4, <3>3
      <4> QED
        BY <1>5, <1>6, <3>1, <4>1
    <3> QED
      BY <3>2, <3>3
  <2>2. ASSUME NEW t \in S
        PROVE  t \in ToSet(g)
    <3>1. PICK k \in DOMAIN h : t = h[k]
      BY <2>2 DEF Chain, ToSet
    <3>2. k + 1 \in 2 .. 1 + Len(h) /\ k + 1 \in DOMAIN g /\ (k + 1) - 1 = k
      BY <1>1, <1>4, <3>1
    <3>3. g[k + 1] = t
      BY <1>5, <3>1, <3>2
    <3> QED
      BY <3>2, <3>3 DEF ToSet
  <2>3. s \in ToSet(g)
    <3>1. 1 \in DOMAIN g
      BY <1>1, <1>4
    <3> QED
      BY <1>5, <3>1 DEF ToSet
  <2> QED
    BY <2>1, <2>2, <2>3
<1> QED
  BY <1>3, <1>7, <1>8 DEF Chain, IsInjective, g

\* An object that is removed, if it is there.
LEMMA RemoveChain ==
  ASSUME NEW B, NEW h, NEW S, NEW s \in B, Chain(B, h, S)
  PROVE  Chain(B, RemoveFirst(h, s), S \ {s})
<1>1. h \in Seq(B) /\ DOMAIN h = 1 .. Len(h) /\ Len(h) \in Nat
  BY DEF Chain
<1>2. CASE ~ \E i \in 1 .. Len(h) : h[i] = s
  <2>1. RemoveFirst(h, s) = h
    BY <1>2 DEF RemoveFirst
  <2>2. s \notin S
    BY <1>1, <1>2 DEF Chain, ToSet
  <2> QED
    BY <2>1, <2>2 DEF Chain
<1>3. ASSUME NEW i \in 1 .. Len(h), h[i] = s
      PROVE  Chain(B, RemoveFirst(h, s), S \ {s})
  <2> DEFINE I == {k \in 1 .. Len(h) : h[k] = s}
             g == RemoveFirst(h, s)
  <2>1. SelectInSeq(h, LAMBDA v : v = s) = IF I # {} THEN Min(I) ELSE 0
    BY DEF SelectInSeq
  <2>2. I = {i}
    BY <1>1, <1>3 DEF Chain, IsInjective
  <2>3. Min(I) = i
    <3>1. {i} \in SUBSET Nat /\ {i} # {}
      OBVIOUS
    <3>2. Min({i}) \in {i}
      BY <3>1, MinExists
    <3> QED
      BY <2>2, <3>2
  <2>4. g = RemoveAt(h, i)
    BY <1>3, <2>1, <2>2, <2>3 DEF RemoveFirst
  <2>5. /\ g \in Seq(B) /\ Len(g) = Len(h) - 1
        /\ \A k \in 1 .. Len(h) - 1 : g[k] = IF k < i THEN h[k] ELSE h[k + 1]
    BY <1>1, <2>4, RemoveAtSeq
  <2> HIDE DEF g, I
  <2>6. DOMAIN g = 1 .. Len(h) - 1
    BY <2>5
  <2> DEFINE at(k) == IF k < i THEN k ELSE k + 1
  <2>7. \A k \in DOMAIN g : g[k] = h[at(k)] /\ at(k) \in DOMAIN h /\ at(k) # i
    BY <1>1, <2>5, <2>6
  <2>8. ASSUME NEW j \in DOMAIN g, NEW k \in DOMAIN g, g[j] = g[k]
        PROVE  j = k
    <3>1. at(j) = at(k)
      BY <2>7, <2>8 DEF Chain, IsInjective
    <3> QED
      BY <1>1, <2>6, <3>1
  <2>9. ASSUME NEW t \in ToSet(g)
        PROVE  t \in S \ {s}
    <3>1. PICK k \in DOMAIN g : t = g[k]
      BY <2>9 DEF ToSet
    <3>2. t = h[at(k)] /\ at(k) \in DOMAIN h /\ at(k) # i
      BY <2>7, <3>1
    <3> HIDE DEF at
    <3>3. t # s
      BY <1>1, <1>3, <3>2 DEF Chain, IsInjective
    <3> QED
      BY <3>2, <3>3 DEF Chain, ToSet
  <2>10. ASSUME NEW t \in S \ {s}
         PROVE  t \in ToSet(g)
    <3>1. PICK k \in DOMAIN h : t = h[k]
      BY <2>10 DEF Chain, ToSet
    <3>2. k # i
      BY <1>3, <2>10, <3>1
    <3> DEFINE j == IF k < i THEN k ELSE k - 1
    <3>3. j \in DOMAIN g /\ at(j) = k
      BY <1>1, <2>6, <3>1, <3>2
    <3>4. g[j] = t
      BY <2>7, <3>1, <3>3
    <3> QED
      BY <3>3, <3>4 DEF ToSet
  <2> QED
    BY <2>5, <2>8, <2>9, <2>10 DEF Chain, IsInjective, g
<1> QED
  BY <1>2, <1>3

-----------------------------------------------------------------------------
(***************************************************************************)
(* What removing items from a list leaves.                                 *)
(***************************************************************************)

\* w is what a list s keeps when the items of T leave it: h gives the place in s
\* of each item of w.
Kept(w, s, T, h) ==
  /\ h \in [1 .. Len(w) -> 1 .. Len(s)]
  /\ \A i \in 1 .. Len(w) : w[i] = s[h[i]] /\ w[i] \notin T
  /\ \A i, j \in 1 .. Len(w) : i < j => h[i] < h[j]
  /\ \A k \in 1 .. Len(s) : s[k] \notin T => \E i \in 1 .. Len(w) : h[i] = k

LEMMA WithoutKeeps ==
  ASSUME NEW S, NEW s \in Seq(S), NEW T
  PROVE  /\ Without(s, T) \in Seq(S)
         /\ \E h : Kept(Without(s, T), s, T, h)
<1> DEFINE left == {i \in DOMAIN s : s[i] \notin T}
           Before(i) == {k \in left : k < i}
           c == Cardinality(left)
           h == [j \in 1 .. c |-> CHOOSE i \in left : Cardinality(Before(i)) = j - 1]
           rank == [i \in left |-> Cardinality(Before(i)) + 1]
           w == Without(s, T)
<1>1. Len(s) \in Nat /\ DOMAIN s = 1 .. Len(s) /\ \A i \in 1 .. Len(s) : s[i] \in S
  OBVIOUS
<1>2. w = [j \in 1 .. c |-> s[h[j]]]
  BY DEF Without
<1>3. IsFiniteSet(left) /\ c \in Nat
  <2>1. IsFiniteSet(1 .. Len(s)) /\ left \in SUBSET (1 .. Len(s))
    BY <1>1, FS_Interval
  <2> QED
    BY <2>1, FS_Subset, FS_CardinalityType
<1>4. \A i \in left : IsFiniteSet(Before(i)) /\ Cardinality(Before(i)) \in Nat
  <2> SUFFICES ASSUME NEW i \in left
               PROVE  IsFiniteSet(Before(i)) /\ Cardinality(Before(i)) \in Nat
    OBVIOUS
  <2>1. Before(i) \in SUBSET left
    OBVIOUS
  <2> QED
    BY <1>3, <2>1, FS_Subset, FS_CardinalityType
<1>5. ASSUME NEW i \in left
      PROVE  Cardinality(Before(i)) < c
  <2>1. Before(i) \in SUBSET left /\ i \notin Before(i)
    BY <1>1
  <2>2. Cardinality(Before(i)) <= c /\ (c = Cardinality(Before(i)) => left = Before(i))
    BY <1>3, <2>1, FS_Subset
  <2> HIDE DEF left, Before, c
  <2> QED
    BY <1>3, <1>4, <1>5, <2>1, <2>2
<1>6. ASSUME NEW i \in left, NEW k \in left, i < k
      PROVE  Cardinality(Before(i)) < Cardinality(Before(k))
  <2>1. Before(i) \in SUBSET Before(k) /\ i \in Before(k) /\ i \notin Before(i)
    BY <1>1, <1>6
  <2>2. /\ Cardinality(Before(i)) <= Cardinality(Before(k))
        /\ Cardinality(Before(k)) = Cardinality(Before(i)) => Before(k) = Before(i)
    BY <1>4, <2>1, FS_Subset
  <2> HIDE DEF left, Before
  <2> QED
    BY <1>4, <1>6, <2>1, <2>2
<1>7. left \in SUBSET (1 .. Len(s)) /\ \A k \in 1 .. Len(s) : s[k] \notin T => k \in left
  BY <1>1
<1>8. \A i \in left : s[i] \notin T /\ i \in Int
  BY <1>1
<1> HIDE DEF left, Before, c
<1>9. rank \in Injection(left, 1 .. c)
  <2>1. rank \in [left -> 1 .. c]
    BY <1>3, <1>4, <1>5
  <2>2. ASSUME NEW i \in left, NEW k \in left, rank[i] = rank[k]
        PROVE  i = k
    <3>1. Cardinality(Before(i)) = Cardinality(Before(k))
      BY <1>4, <2>2
    <3>2. i \in Int /\ k \in Int
      BY <1>1, <1>7
    <3> QED
      BY <1>4, <1>6, <3>1, <3>2
  <2> QED
    BY <2>1, <2>2 DEF Injection, IsInjective
<1>10. rank \in Surjection(left, 1 .. c)
  <2>1. IsFiniteSet(1 .. c) /\ Cardinality(1 .. c) = c
    BY <1>3, FS_Interval
  <2> QED
    BY <1>9, <2>1, FS_Injection DEF c
<1>11. ASSUME NEW j \in 1 .. c
       PROVE  h[j] \in left /\ Cardinality(Before(h[j])) = j - 1
  <2>1. PICK i \in left : rank[i] = j
    BY <1>10 DEF Surjection
  <2>2. Cardinality(Before(i)) = j - 1
    BY <1>4, <2>1
  <2> QED
    BY <2>2
<1>12. \A i \in left : \E j \in 1 .. c : h[j] = i
  <2> SUFFICES ASSUME NEW i \in left
               PROVE  \E j \in 1 .. c : h[j] = i
    OBVIOUS
  <2>1. rank[i] \in 1 .. c /\ Cardinality(Before(i)) = rank[i] - 1
    BY <1>3, <1>4, <1>5
  <2>2. h[rank[i]] \in left /\ Cardinality(Before(h[rank[i]])) = rank[i] - 1
    BY <1>11, <2>1
  <2> HIDE DEF h, rank
  <2>3. i \in Int /\ h[rank[i]] \in Int
    BY <1>8, <2>2
  <2>4. h[rank[i]] = i
    BY <1>4, <1>6, <2>1, <2>2, <2>3
  <2> QED
    BY <2>1, <2>4
<1>13. h \in [1 .. c -> left]
  BY <1>11
<1>14. ASSUME NEW i \in 1 .. c, NEW j \in 1 .. c, i < j
       PROVE  h[i] < h[j]
  <2>1. /\ h[i] \in left /\ h[j] \in left
        /\ Cardinality(Before(h[i])) = i - 1 /\ Cardinality(Before(h[j])) = j - 1
    BY <1>11
  <2> HIDE DEF h
  <2>2. h[i] \in Int /\ h[j] \in Int
    BY <1>8, <2>1
  <2>3. h[i] # h[j] /\ ~(h[j] < h[i])
    BY <1>3, <1>6, <1>14, <2>1
  <2> QED
    BY <2>2, <2>3
<1> HIDE DEF h, w
<1>15. w \in Seq(S) /\ Len(w) = c
  <2>1. \A j \in 1 .. c : s[h[j]] \in S
    BY <1>1, <1>7, <1>13
  <2>2. w \in [1 .. c -> S]
    BY <1>2, <2>1
  <2> QED
    BY <1>3, <2>2
<1>16. Kept(w, s, T, h)
  <2>1. h \in [1 .. Len(w) -> 1 .. Len(s)]
    BY <1>7, <1>13, <1>15
  <2>2. \A i \in 1 .. Len(w) : w[i] = s[h[i]] /\ w[i] \notin T
    BY <1>2, <1>8, <1>13, <1>15
  <2>3. \A k \in 1 .. Len(s) : s[k] \notin T => \E i \in 1 .. Len(w) : h[i] = k
    BY <1>7, <1>12, <1>15
  <2> QED
    BY <1>14, <1>15, <2>1, <2>2, <2>3 DEF Kept
<1> QED
  BY <1>15, <1>16 DEF w

LEMMA WithoutChain ==
  ASSUME NEW B, NEW s, NEW S, NEW T, Chain(B, s, S)
  PROVE  Chain(B, Without(s, T), S \ T)
<1> DEFINE w == Without(s, T)
<1>1. s \in Seq(B) /\ DOMAIN s = 1 .. Len(s) /\ IsInjective(s) /\ ToSet(s) = S
  BY DEF Chain
<1>2. w \in Seq(B) /\ DOMAIN w = 1 .. Len(w) /\ Len(w) \in Nat
  BY <1>1, WithoutKeeps
<1>3. PICK h : Kept(w, s, T, h)
  BY <1>1, WithoutKeeps
<1> HIDE DEF w
<1>4. /\ \A i \in 1 .. Len(w) : h[i] \in 1 .. Len(s) /\ w[i] = s[h[i]] /\ w[i] \notin T
      /\ \A i, j \in 1 .. Len(w) : i < j => h[i] < h[j]
      /\ \A k \in 1 .. Len(s) : s[k] \notin T => \E i \in 1 .. Len(w) : h[i] = k
  BY <1>3 DEF Kept
<1>5. IsInjective(w)
  <2> SUFFICES ASSUME NEW i \in 1 .. Len(w), NEW j \in 1 .. Len(w), w[i] = w[j]
               PROVE  i = j
    BY <1>2 DEF IsInjective
  <2>1. h[i] = h[j]
    BY <1>1, <1>4 DEF IsInjective
  <2>2. h[i] \in 1 .. Len(s) /\ h[j] \in 1 .. Len(s)
    BY <1>4
  <2>3. ~(i < j) /\ ~(j < i)
    BY <1>4, <2>1, <2>2
  <2> QED
    BY <2>3
<1>6. \A t \in ToSet(w) : t \in S \ T
  BY <1>1, <1>2, <1>4 DEF ToSet
<1>7. ASSUME NEW t \in S \ T
      PROVE  t \in ToSet(w)
  <2>1. PICK k \in 1 .. Len(s) : s[k] = t
    BY <1>1 DEF ToSet
  <2>2. PICK i \in 1 .. Len(w) : h[i] = k
    BY <1>4, <2>1
  <2> QED
    BY <1>2, <1>4, <2>1, <2>2 DEF ToSet
<1> QED
  BY <1>2, <1>5, <1>6, <1>7 DEF Chain, w

\* An object that is put at the end.
LEMMA AppendChain ==
  ASSUME NEW B, NEW s, NEW S, NEW e \in B, Chain(B, s, S), e \notin S
  PROVE  Chain(B, Append(s, e), S \cup {e})
<1>1. s \in Seq(B) /\ DOMAIN s = 1 .. Len(s) /\ Len(s) \in Nat
      /\ IsInjective(s) /\ ToSet(s) = S
  BY DEF Chain
<1> DEFINE w == Append(s, e)
<1>2. /\ w \in Seq(B) /\ DOMAIN w = 1 .. Len(s) + 1
      /\ \A i \in 1 .. Len(s) : w[i] = s[i]
      /\ w[Len(s) + 1] = e
  BY <1>1
<1> HIDE DEF w
<1>3. \A i \in 1 .. Len(s) : s[i] \in S /\ s[i] # e
  BY <1>1 DEF ToSet
<1>4. IsInjective(w)
  <2> SUFFICES ASSUME NEW i \in 1 .. Len(s) + 1, NEW j \in 1 .. Len(s) + 1, w[i] = w[j]
               PROVE  i = j
    BY <1>2 DEF IsInjective
  <2>1. CASE i \in 1 .. Len(s) /\ j \in 1 .. Len(s)
    BY <1>1, <1>2, <2>1 DEF IsInjective
  <2>2. CASE i = Len(s) + 1 \/ j = Len(s) + 1
    BY <1>1, <1>2, <1>3, <2>2
  <2> QED
    BY <1>1, <2>1, <2>2
<1>5. \A t \in ToSet(w) : t \in S \cup {e}
  BY <1>1, <1>2, <1>3 DEF ToSet
<1>6. ASSUME NEW t \in S \cup {e}
      PROVE  t \in ToSet(w)
  <2>1. CASE t = e
    BY <1>1, <1>2, <2>1 DEF ToSet
  <2>2. CASE t \in S
    <3>1. PICK k \in 1 .. Len(s) : s[k] = t
      BY <1>1, <2>2 DEF ToSet
    <3> QED
      BY <1>1, <1>2, <3>1 DEF ToSet
  <2> QED
    BY <2>1, <2>2
<1> QED
  BY <1>2, <1>4, <1>5, <1>6 DEF Chain, w

-----------------------------------------------------------------------------
\* A function on 0 .. n may be defined by what it is at 0 and by one step.
Recurs(g, n, A, s, T) ==
  /\ g \in [0 .. n -> A] /\ g[0] = s
  /\ \A i \in 1 .. n : g[i] = T[<<g[i - 1], i>>]

LEMMA Recursion ==
  ASSUME NEW n \in Nat, NEW A, NEW s \in A, NEW T \in [A \X (1 .. n) -> A]
  PROVE  \E g : Recurs(g, n, A, s, T)
<1> DEFINE Good(m, g) == Recurs(g, m, A, s, T)
           D == {m \in 0 .. n : ~\E g : Good(m, g)}
<1>1. D = {}
  <2> SUFFICES ASSUME D # {}
               PROVE  FALSE
    OBVIOUS
  <2>1. D \in SUBSET Nat
    OBVIOUS
  <2>2. PICK m \in D : \A i \in D : m <= i
    BY <2>1, MinExists
  <2>3. m \in 0 .. n /\ ~\E g : Good(m, g)
    BY <2>2
  <2> HIDE DEF D
  <2>4. CASE m = 0
    <3> DEFINE g == [i \in 0 .. 0 |-> s]
    <3>1. Good(0, g)
      BY DEF Recurs
    <3> QED
      BY <2>3, <2>4, <3>1, Zenon
  <2>5. CASE m # 0
    <3>1. m - 1 \in 0 .. n /\ ~(m <= m - 1) /\ m \in 1 .. n
      BY <2>3, <2>5
    <3>2. PICK g : Good(m - 1, g)
      BY <2>2, <3>1 DEF D
    <3> DEFINE f == [i \in 0 .. m |-> IF i = m THEN T[<<g[m - 1], m>>] ELSE g[i]]
    <3>3. /\ f[m] = T[<<g[m - 1], m>>]
          /\ \A i \in 0 .. m - 1 : f[i] = g[i]
          /\ f = [i \in 0 .. m |-> f[i]]
      BY <3>1
    <3>4. \A i \in 0 .. m - 1 : g[i] \in A
      BY <3>2 DEF Recurs
    <3>5. T[<<g[m - 1], m>>] \in A
      BY <3>1, <3>4
    <3> HIDE DEF f
    <3>6. \A i \in 0 .. m : f[i] \in A
      <4> SUFFICES ASSUME NEW i \in 0 .. m
                   PROVE  f[i] \in A
        OBVIOUS
      <4>1. i = m \/ i \in 0 .. m - 1
        BY <3>1
      <4> QED
        BY <3>3, <3>4, <3>5, <4>1
    <3>7. f[0] = s
      <4>1. 0 \in 0 .. m - 1
        BY <3>1
      <4>2. f[0] = g[0]
        BY <3>3, <4>1
      <4> QED
        BY <3>2, <4>2 DEF Recurs
    <3>8. ASSUME NEW i \in 1 .. m
          PROVE  f[i] = T[<<f[i - 1], i>>]
      <4>1. i - 1 \in 0 .. m - 1
        BY <3>1
      <4>2. f[i - 1] = g[i - 1]
        BY <3>3, <4>1
      <4>3. CASE i = m
        BY <3>3, <4>2, <4>3
      <4>4. CASE i # m
        <5>1. i \in 1 .. m - 1 /\ i \in 0 .. m - 1
          BY <3>1, <4>4
        <5> QED
          BY <3>2, <3>3, <4>2, <5>1 DEF Recurs
      <4> QED
        BY <4>3, <4>4
    <3>9. f \in [0 .. m -> A]
      BY <3>3, <3>6
    <3>10. Good(m, f)
      BY <3>7, <3>8, <3>9 DEF Recurs
    <3> QED
      BY <2>3, <3>10, Zenon
  <2> QED
    BY <2>4, <2>5
<1>2. n \in 0 .. n
  OBVIOUS
<1>3. PICK g : Good(n, g)
  BY <1>1, <1>2
<1> QED
  BY <1>3

-----------------------------------------------------------------------------
(***************************************************************************)
(* Sequences, and the packets that Among takes from one.                   *)
(***************************************************************************)

\* Two sequences joined: length, elements and what stands where.
LEMMA JoinedSeq ==
  ASSUME NEW S, NEW s \in Seq(S), NEW t \in Seq(S)
  PROVE  /\ s \o t \in Seq(S) /\ ToSet(s \o t) = ToSet(s) \cup ToSet(t)
         /\ Len(s \o t) = Len(s) + Len(t) /\ Len(s) \in Nat /\ Len(t) \in Nat
         /\ DOMAIN (s \o t) = 1 .. Len(s) + Len(t)
         /\ \A k \in 1 .. Len(s) : (s \o t)[k] = s[k]
         /\ \A k \in 1 .. Len(t) : (s \o t)[Len(s) + k] = t[k]
<1>1. /\ s \o t \in Seq(S) /\ Len(s \o t) = Len(s) + Len(t)
      /\ \A k \in 1 .. Len(s) + Len(t) :
           (s \o t)[k] = IF k <= Len(s) THEN s[k] ELSE t[k - Len(s)]
  BY ConcatProperties
<1>2. /\ Len(s) \in Nat /\ Len(t) \in Nat /\ DOMAIN s = 1 .. Len(s) /\ DOMAIN t = 1 .. Len(t)
      /\ DOMAIN (s \o t) = 1 .. Len(s \o t)
  BY <1>1
<1> DEFINE j == s \o t
<1> HIDE DEF j
<1>3. \A k \in 1 .. Len(s) : j[k] = s[k]
  BY <1>1, <1>2 DEF j
<1>4. \A k \in 1 .. Len(t) : j[Len(s) + k] = t[k]
  <2> SUFFICES ASSUME NEW k \in 1 .. Len(t)
               PROVE  j[Len(s) + k] = t[k]
    OBVIOUS
  <2>1. Len(s) + k \in 1 .. Len(s) + Len(t) /\ ~(Len(s) + k <= Len(s)) /\ Len(s) + k - Len(s) = k
    BY <1>2
  <2> QED
    BY <1>1, <2>1 DEF j
<1>5. ToSet(j) = ToSet(s) \cup ToSet(t)
  <2>1. ASSUME NEW x \in ToSet(j)
        PROVE  x \in ToSet(s) \cup ToSet(t)
    <3>1. PICK k \in 1 .. Len(s) + Len(t) : x = j[k]
      BY <1>1, <1>2 DEF ToSet, j
    <3>2. CASE k <= Len(s)
      <4>1. k \in 1 .. Len(s)
        BY <1>2, <3>2
      <4> QED
        BY <1>2, <1>3, <3>1, <4>1 DEF ToSet
    <3>3. CASE ~(k <= Len(s))
      <4>1. k - Len(s) \in 1 .. Len(t) /\ Len(s) + (k - Len(s)) = k
        BY <1>2, <3>3
      <4> QED
        BY <1>2, <1>4, <3>1, <4>1 DEF ToSet
    <3> QED
      BY <3>2, <3>3
  <2>2. ASSUME NEW x \in ToSet(s)
        PROVE  x \in ToSet(j)
    <3>1. PICK k \in 1 .. Len(s) : x = s[k]
      BY <1>2 DEF ToSet
    <3>2. k \in DOMAIN j
      BY <1>1, <1>2 DEF j
    <3> QED
      BY <1>3, <3>1, <3>2 DEF ToSet
  <2>3. ASSUME NEW x \in ToSet(t)
        PROVE  x \in ToSet(j)
    <3>1. PICK k \in 1 .. Len(t) : x = t[k]
      BY <1>2 DEF ToSet
    <3>2. Len(s) + k \in DOMAIN j
      BY <1>1, <1>2 DEF j
    <3> QED
      BY <1>4, <3>1, <3>2 DEF ToSet
  <2> QED
    BY <2>1, <2>2, <2>3
<1> QED
  BY <1>1, <1>2, <1>3, <1>4, <1>5 DEF j

\* A queue without its first event: length, elements and what stands where.
LEMMA TailSeq ==
  ASSUME NEW S, NEW s \in Seq(S), s # <<>>
  PROVE  /\ Head(s) \in S /\ Head(s) = s[1] /\ Tail(s) \in Seq(S)
         /\ Len(s) \in Nat \ {0} /\ Len(Tail(s)) = Len(s) - 1
         /\ DOMAIN Tail(s) = 1 .. Len(s) - 1
         /\ \A k \in 1 .. Len(s) - 1 : Tail(s)[k] = s[k + 1]
         /\ ToSet(s) = {Head(s)} \cup ToSet(Tail(s))
<1>1. /\ Head(s) \in S /\ Head(s) = s[1] /\ Tail(s) \in Seq(S)
      /\ Len(s) \in Nat \ {0} /\ Len(Tail(s)) = Len(s) - 1
      /\ DOMAIN Tail(s) = 1 .. Len(s) - 1 /\ DOMAIN s = 1 .. Len(s)
      /\ \A k \in 1 .. Len(s) - 1 : Tail(s)[k] = s[k + 1]
  OBVIOUS
<1>2. ToSet(Tail(s)) \subseteq ToSet(s)
  <2> SUFFICES ASSUME NEW k \in 1 .. Len(s) - 1
               PROVE  Tail(s)[k] \in ToSet(s)
    BY <1>1 DEF ToSet
  <2>1. k + 1 \in 1 .. Len(s)
    BY <1>1
  <2> QED
    BY <1>1, <2>1 DEF ToSet
<1>3. Head(s) \in ToSet(s)
  <2>1. 1 \in 1 .. Len(s)
    BY <1>1
  <2> QED
    BY <1>1, <2>1 DEF ToSet
<1>4. ASSUME NEW x \in ToSet(s), x # Head(s)
      PROVE  x \in ToSet(Tail(s))
  <2>1. PICK k \in 1 .. Len(s) : x = s[k]
    BY <1>1 DEF ToSet
  <2>2. k # 1
    BY <1>1, <1>4, <2>1
  <2>3. k - 1 \in 1 .. Len(s) - 1 /\ (k - 1) + 1 = k
    BY <1>1, <2>2
  <2>4. Tail(s)[k - 1] = x
    BY <1>1, <2>1, <2>3
  <2> QED
    BY <1>1, <2>3, <2>4 DEF ToSet
<1> QED
  BY <1>1, <1>2, <1>3, <1>4

\* An empty sequence has no elements.
LEMMA EmptySet == ToSet(<<>>) = {} /\ \A S : <<>> \in Seq(S)
BY DEF ToSet

\* A sequence of one element.
LEMMA OneSet == \A S : \A x \in S : <<x>> \in Seq(S) /\ ToSet(<<x>>) = {x} /\ Len(<<x>>) = 1
BY DEF ToSet

\* The elements of a sequence are of its type, and there are none only if it is
\* empty.
LEMMA ElementsSeq ==
  ASSUME NEW S, NEW s \in Seq(S)
  PROVE  ToSet(s) \subseteq S /\ s \in Seq(ToSet(s)) /\ (s = <<>> <=> ToSet(s) = {})
<1>1. Len(s) \in Nat /\ DOMAIN s = 1 .. Len(s) /\ s \in [1 .. Len(s) -> S]
  OBVIOUS
<1>2. ToSet(s) \subseteq S
  BY <1>1 DEF ToSet
<1>3. \A k \in 1 .. Len(s) : s[k] \in ToSet(s)
  BY <1>1 DEF ToSet
<1>4. s \in Seq(ToSet(s))
  <2> HIDE DEF ToSet
  <2> DEFINE R == ToSet(s)
  <2> HIDE DEF R
  <2>1. s \in [1 .. Len(s) -> R]
    BY <1>1, <1>3 DEF R
  <2>2. s \in Seq(R)
    BY <1>1, <2>1
  <2> QED
    BY <2>2 DEF R
<1>5. s = <<>> <=> ToSet(s) = {}
  <2>1. CASE Len(s) = 0
    BY <2>1, EmptySet
  <2>2. CASE Len(s) # 0
    <3>1. 1 \in 1 .. Len(s)
      BY <1>1, <2>2
    <3> QED
      BY <1>3, <2>2, <3>1
  <2> QED
    BY <2>1, <2>2
<1> QED
  BY <1>2, <1>4, <1>5

\* An event appended to a queue: length, elements and what stands where.
LEMMA AppendSeq ==
  ASSUME NEW S, NEW s \in Seq(S), NEW x \in S
  PROVE  /\ Append(s, x) \in Seq(S) /\ ToSet(Append(s, x)) = ToSet(s) \cup {x}
         /\ Len(Append(s, x)) = Len(s) + 1 /\ Len(s) \in Nat
         /\ DOMAIN s = 1 .. Len(s) /\ DOMAIN Append(s, x) = 1 .. Len(s) + 1
         /\ \A k \in 1 .. Len(s) : Append(s, x)[k] = s[k]
         /\ Append(s, x)[Len(s) + 1] = x
<1>1. /\ Append(s, x) \in Seq(S) /\ Len(Append(s, x)) = Len(s) + 1 /\ Len(s) \in Nat
      /\ DOMAIN s = 1 .. Len(s) /\ DOMAIN Append(s, x) = 1 .. Len(s) + 1
      /\ \A k \in 1 .. Len(s) : Append(s, x)[k] = s[k]
      /\ Append(s, x)[Len(s) + 1] = x
  OBVIOUS
<1> DEFINE a == Append(s, x)
<1> HIDE DEF a
<1>2. /\ Len(s) \in Nat /\ DOMAIN s = 1 .. Len(s) /\ DOMAIN a = 1 .. Len(s) + 1
      /\ (\A k \in 1 .. Len(s) : a[k] = s[k]) /\ a[Len(s) + 1] = x
  BY <1>1 DEF a
<1>3. ToSet(a) = ToSet(s) \cup {x}
  <2>1. ASSUME NEW y \in ToSet(a)
        PROVE  y \in ToSet(s) \cup {x}
    <3>1. PICK k \in 1 .. Len(s) + 1 : y = a[k]
      BY <1>2 DEF ToSet
    <3>2. k \in 1 .. Len(s) \/ k = Len(s) + 1
      BY <1>2
    <3> QED
      BY <1>2, <3>1, <3>2 DEF ToSet
  <2>2. ASSUME NEW y \in ToSet(s)
        PROVE  y \in ToSet(a)
    <3>1. PICK k \in 1 .. Len(s) : y = s[k]
      BY <1>2 DEF ToSet
    <3>2. k \in 1 .. Len(s) + 1
      BY <1>2
    <3> QED
      BY <1>2, <3>1, <3>2 DEF ToSet
  <2>3. x \in ToSet(a)
    <3>1. Len(s) + 1 \in 1 .. Len(s) + 1
      BY <1>2
    <3> QED
      BY <1>2, <3>1 DEF ToSet
  <2> QED
    BY <2>1, <2>2, <2>3
<1> QED
  BY <1>1, <1>3 DEF a

\* The elements of sequences joined.
LEMMA FlatSet ==
  ASSUME NEW S, NEW ss \in Seq(Seq(S))
  PROVE  /\ FlattenSeq(ss) \in Seq(S)
         /\ ToSet(FlattenSeq(ss)) = UNION {ToSet(ss[k]) : k \in 1 .. Len(ss)}
<1> DEFINE n == Len(ss)
           Step(g) == [i \in 1 .. Len(ss) |-> IF i = 1 THEN ss[i] ELSE g[i - 1] \o ss[i]]
           p == CHOOSE g : g = Step(g)
           T == [x \in Seq(S) \X (1 .. n) |-> IF x[2] = 1 THEN ss[1] ELSE x[1] \o ss[x[2]]]
<1>1. n \in Nat /\ \A k \in 1 .. n : ss[k] \in Seq(S)
  OBVIOUS
<1>2. CASE n = 0
  <2>1. ss = <<>>
    BY <1>2
  <2>2. FlattenSeq(ss) = <<>>
    BY <1>2, <2>1 DEF FlattenSeq
  <2>3. {ToSet(ss[k]) : k \in 1 .. Len(ss)} = {}
    BY <1>2
  <2> QED
    BY <2>2, <2>3, EmptySet
<1>3. CASE n # 0
  <2>1. \E g : g = Step(g)
    <3>1. T \in [Seq(S) \X (1 .. n) -> Seq(S)]
      <4> SUFFICES ASSUME NEW q \in Seq(S), NEW k \in 1 .. n
                   PROVE  (IF k = 1 THEN ss[1] ELSE q \o ss[k]) \in Seq(S)
        OBVIOUS
      <4>1. ss[k] \in Seq(S)
        BY <1>1
      <4>2. q \o ss[k] \in Seq(S)
        BY <4>1, JoinedSeq
      <4> QED
        BY <4>1, <4>2
    <3>2. \A q \in Seq(S), k \in 1 .. n :
            T[<<q, k>>] = IF k = 1 THEN ss[k] ELSE q \o ss[k]
      OBVIOUS
    <3>3. <<>> \in Seq(S)
      OBVIOUS
    <3> HIDE DEF T, n
    <3>4. PICK g : Recurs(g, n, Seq(S), <<>>, T)
      BY <1>1, <3>1, <3>3, Recursion
    <3>5. g \in [0 .. n -> Seq(S)] /\ \A k \in 1 .. n : g[k] = T[<<g[k - 1], k>>]
      BY <3>4 DEF Recurs
    <3>6. ASSUME NEW k \in 1 .. n
          PROVE  g[k] = IF k = 1 THEN ss[k] ELSE g[k - 1] \o ss[k]
      <4>1. k - 1 \in 0 .. n
        BY <1>1
      <4>2. g[k - 1] \in Seq(S)
        BY <3>5, <4>1
      <4> QED
        BY <3>2, <3>5, <4>2
    <3> DEFINE h == [k \in 1 .. n |-> g[k]]
    <3>7. ASSUME NEW k \in 1 .. n
          PROVE  g[k] = IF k = 1 THEN ss[k] ELSE h[k - 1] \o ss[k]
      <4>1. CASE k = 1
        BY <3>6, <4>1
      <4>2. CASE k # 1
        <5>1. k - 1 \in 1 .. n
          BY <1>1, <4>2
        <5> QED
          BY <3>6, <4>2, <5>1
      <4> QED
        BY <4>1, <4>2
    <3>8. h = [k \in 1 .. n |-> IF k = 1 THEN ss[k] ELSE h[k - 1] \o ss[k]]
      BY <3>7, Zenon
    <3>9. h = Step(h)
      <4> HIDE DEF h
      <4> QED
        BY <3>8 DEF n
    <3> QED
      BY <3>9
  <2>2. p = Step(p)
    <3> HIDE DEF Step
    <3> QED
      BY <2>1
  <2>3. FlattenSeq(ss) = p[n]
    BY <1>3 DEF FlattenSeq
  <2> HIDE DEF p
  <2>4. \A k \in 1 .. n : p[k] = IF k = 1 THEN ss[k] ELSE p[k - 1] \o ss[k]
    BY <1>1, <2>2
  <2> DEFINE Upto(k) == UNION {ToSet(ss[j]) : j \in 1 .. k}
             Good(k) == p[k] \in Seq(S) /\ ToSet(p[k]) = Upto(k)
             D == {k \in 1 .. n : ~Good(k)}
  <2> HIDE DEF n, T, Step
  <2>5. D = {}
    <3> SUFFICES ASSUME D # {}
                 PROVE  FALSE
      OBVIOUS
    <3>1. D \in SUBSET Nat
      BY <1>1
    <3>2. PICK k \in D : \A i \in D : k <= i
      BY <3>1, MinExists
    <3>3. k \in 1 .. n /\ ~Good(k)
      BY <3>2
    <3>4. k # 1
      <4>1. \A j : j \in 1 .. 1 <=> j = 1
        OBVIOUS
      <4>2. Upto(1) = ToSet(ss[1])
        BY <4>1
      <4>3. CASE k = 1
        <5>1. p[1] = ss[1] /\ p[1] \in Seq(S)
          BY <1>1, <2>4, <3>3, <4>3
        <5> QED
          BY <3>3, <4>2, <4>3, <5>1
      <4> QED
        BY <4>3
    <3>5. k - 1 \in 1 .. n /\ ~(k <= k - 1)
      BY <1>1, <3>3, <3>4
    <3>6. Good(k - 1)
      BY <3>2, <3>5
    <3>7. Upto(k) = Upto(k - 1) \cup ToSet(ss[k])
      <4>1. \A j : j \in 1 .. k <=> j \in 1 .. k - 1 \/ j = k
        BY <1>1, <3>3, <3>5
      <4> QED
        BY <4>1
    <3> DEFINE q == p[k - 1]
               t == ss[k]
    <3>8. p[k] = q \o t /\ q \in Seq(S) /\ t \in Seq(S)
      BY <1>1, <2>4, <3>3, <3>4, <3>6
    <3>9. ToSet(q) = Upto(k - 1) /\ Upto(k) = Upto(k - 1) \cup ToSet(t)
      BY <3>6, <3>7
    <3> HIDE DEF q, t, Upto
    <3>10. q \o t \in Seq(S) /\ ToSet(q \o t) = ToSet(q) \cup ToSet(t)
      BY <3>8, JoinedSeq
    <3> QED
      BY <3>3, <3>8, <3>9, <3>10
  <2>6. n \in 1 .. n
    BY <1>1, <1>3
  <2>7. Good(n)
    BY <2>5, <2>6
  <2> QED
    BY <2>3, <2>7 DEF n
<1> QED
  BY <1>2, <1>3

\* The elements of a finite set, in some order.
LEMMA ListOfSet ==
  ASSUME NEW S, IsFiniteSet(S)
  PROVE  SetToSeq(S) \in Seq(S) /\ ToSet(SetToSeq(S)) = S
<1> DEFINE n == Cardinality(S)
           f == SetToSeq(S)
<1>1. n \in Nat
  BY FS_CardinalityType
<1>2. \E g \in [1 .. n -> S] : IsInjective(g)
  <2>1. IsFiniteSet(1 .. n) /\ Cardinality(1 .. n) = n
    BY <1>1, FS_Interval
  <2>2. ExistsBijection(1 .. n, S)
    BY <2>1, FS_SameCardinalityBij
  <2> QED
    BY <2>2 DEF ExistsBijection, Bijection, Injection, IsInjective
<1>3. f \in [1 .. n -> S] /\ IsInjective(f)
  BY <1>2 DEF SetToSeq
<1> HIDE DEF f
<1>4. f \in Injection(1 .. n, S)
  BY <1>3 DEF Injection, IsInjective
<1>5. f \in Surjection(1 .. n, S)
  <2>1. Cardinality(1 .. n) = n
    BY <1>1, FS_Interval
  <2> QED
    BY <1>4, <2>1, FS_Injection
<1>6. f \in Seq(S)
  BY <1>1, <1>3
<1>7. DOMAIN f = 1 .. n
  BY <1>3
<1>8. ToSet(f) \subseteq S
  BY <1>3 DEF ToSet
<1>9. S \subseteq ToSet(f)
  BY <1>5, <1>7 DEF Surjection, ToSet
<1> QED
  BY <1>6, <1>8, <1>9 DEF f

\* One packet for each member of a set.
LEMMA EachOf ==
  ASSUME NEW S, IsFiniteSet(S), NEW B, NEW f \in [S -> B], NEW q,
         q = [k \in DOMAIN SetToSeq(S) |-> f[SetToSeq(S)[k]]]
  PROVE  q \in Seq(B) /\ ToSet(q) = {f[c] : c \in S}
<1> DEFINE told == SetToSeq(S)
<1>1. told \in Seq(S) /\ ToSet(told) = S
  BY ListOfSet
<1>2. q = [k \in DOMAIN told |-> f[told[k]]]
  OBVIOUS
<1> HIDE DEF told
<1>3. /\ DOMAIN told = 1 .. Len(told) /\ Len(told) \in Nat
      /\ \A k \in DOMAIN told : told[k] \in S
      /\ \A c \in S : \E k \in DOMAIN told : told[k] = c
  BY <1>1 DEF ToSet
<1>4. q \in [1 .. Len(told) -> B]
  BY <1>2, <1>3
<1>5. q \in Seq(B)
  BY <1>3, <1>4
<1>6. DOMAIN q = DOMAIN told /\ \A k \in DOMAIN told : q[k] = f[told[k]]
  BY <1>2
<1> HIDE <1>2
<1>7. ToSet(q) = {f[c] : c \in S}
  <2>1. \A k \in DOMAIN q : q[k] \in {f[c] : c \in S}
    BY <1>3, <1>6
  <2>2. \A c \in S : \E k \in DOMAIN q : q[k] = f[c]
    BY <1>3, <1>6
  <2> QED
    BY <2>1, <2>2 DEF ToSet
<1> QED
  BY <1>5, <1>7

\* What Among has kept after each packet.
Keeps(p, out, C) ==
  /\ p[0] = <<>>
  /\ \A k \in 1 .. Len(out) :
       p[k] = IF out[k] \in C THEN Append(p[k - 1], out[k]) ELSE p[k - 1]

\* Among goes through the packets one by one.
LEMMA AmongSteps ==
  ASSUME NEW S, NEW out \in Seq(S), NEW C
  PROVE  \E p : Keeps(p, out, C) /\ Among(out, C) = p[Len(out)]
<1> DEFINE n == Len(out)
           Step(g) == [k \in 0 .. Len(out) |->
                         IF k = 0 THEN <<>>
                         ELSE IF out[k] \in C THEN Append(g[k - 1], out[k]) ELSE g[k - 1]]
           p == CHOOSE g : g = Step(g)
           T == [x \in Seq(S) \X (1 .. n) |->
                   IF out[x[2]] \in C THEN Append(x[1], out[x[2]]) ELSE x[1]]
<1>1. n \in Nat /\ \A k \in 1 .. n : out[k] \in S
  OBVIOUS
<1>2. \E g : g = Step(g)
  <2>1. T \in [Seq(S) \X (1 .. n) -> Seq(S)]
    BY <1>1
  <2>2. \A q \in Seq(S), k \in 1 .. n :
          T[<<q, k>>] = IF out[k] \in C THEN Append(q, out[k]) ELSE q
    OBVIOUS
  <2>3. <<>> \in Seq(S)
    OBVIOUS
  <2> HIDE DEF T, n
  <2>4. PICK g : Recurs(g, n, Seq(S), <<>>, T)
    BY <1>1, <2>1, <2>3, Recursion
  <2>5. g \in [0 .. n -> Seq(S)] /\ g[0] = <<>> /\ \A k \in 1 .. n : g[k] = T[<<g[k - 1], k>>]
    BY <2>4 DEF Recurs
  <2>6. ASSUME NEW k \in 0 .. n
        PROVE  g[k] = IF k = 0 THEN <<>>
                      ELSE IF out[k] \in C THEN Append(g[k - 1], out[k]) ELSE g[k - 1]
    <3>1. CASE k = 0
      BY <2>5, <3>1
    <3>2. CASE k # 0
      <4>1. k \in 1 .. n /\ k - 1 \in 0 .. n
        BY <1>1, <3>2
      <4>2. g[k - 1] \in Seq(S)
        BY <2>5, <4>1
      <4> QED
        BY <2>2, <2>5, <3>2, <4>1, <4>2
    <3> QED
      BY <3>1, <3>2
  <2>7. g = [k \in 0 .. n |-> g[k]]
    BY <2>5
  <2>8. g = Step(g)
    <3>1. [k \in 0 .. n |-> g[k]] =
            [k \in 0 .. n |-> IF k = 0 THEN <<>>
                      ELSE IF out[k] \in C THEN Append(g[k - 1], out[k]) ELSE g[k - 1]]
      BY <2>6, Zenon
    <3> QED
      BY <2>7, <3>1 DEF n
  <2> QED
    BY <2>8
<1>3. p = Step(p)
  <2> HIDE DEF Step
  <2> QED
    BY <1>2
<1>4. Among(out, C) = p[n]
  BY DEF Among
<1> HIDE DEF p
<1>5. p[0] = <<>>
  BY <1>1, <1>3
<1>6. ASSUME NEW k \in 1 .. n
      PROVE  p[k] = IF out[k] \in C THEN Append(p[k - 1], out[k]) ELSE p[k - 1]
  <2>1. k \in 0 .. n /\ k # 0
    BY <1>1
  <2>2. Step(p)[k] = IF out[k] \in C THEN Append(p[k - 1], out[k]) ELSE p[k - 1]
    BY <2>1
  <2> HIDE DEF Step
  <2> QED
    BY <1>3, <2>2
<1> QED
  BY <1>4, <1>5, <1>6 DEF Keeps

\* The packets that Among keeps.
LEMMA AmongSeq ==
  ASSUME NEW S, NEW out \in Seq(S), NEW C
  PROVE  Among(out, C) \in Seq(S) /\ ToSet(Among(out, C)) = ToSet(out) \cap C
<1>4. PICK p : Keeps(p, out, C) /\ Among(out, C) = p[Len(out)]
  BY AmongSteps
<1> DEFINE n == Len(out)
<1>1. n \in Nat /\ \A k \in 1 .. n : out[k] \in S
  OBVIOUS
<1>5. p[0] = <<>>
  BY <1>4 DEF Keeps
<1>6. ASSUME NEW k \in 1 .. n
      PROVE  p[k] = IF out[k] \in C THEN Append(p[k - 1], out[k]) ELSE p[k - 1]
  BY <1>4 DEF Keeps
<1> DEFINE Upto(k) == {out[j] : j \in 1 .. k}
           Good(k) == p[k] \in Seq(S) /\ ToSet(p[k]) = Upto(k) \cap C
           D == {k \in 0 .. n : ~Good(k)}
<1> HIDE DEF n
<1>7. D = {}
  <2> SUFFICES ASSUME D # {}
               PROVE  FALSE
    OBVIOUS
  <2>1. D \in SUBSET Nat
    BY <1>1
  <2>2. PICK k \in D : \A i \in D : k <= i
    BY <2>1, MinExists
  <2>3. k \in 0 .. n /\ ~Good(k)
    BY <2>2
  <2>4. k # 0
    <3>1. Upto(0) = {}
      OBVIOUS
    <3>2. Good(0)
      BY <1>5, <3>1, EmptySet
    <3> QED
      BY <2>3, <3>2
  <2>5. k - 1 \in 0 .. n /\ ~(k <= k - 1) /\ k \in 1 .. n
    BY <1>1, <2>3, <2>4
  <2>6. Good(k - 1)
    BY <2>2, <2>5
  <2>7. Upto(k) = Upto(k - 1) \cup {out[k]}
    <3>1. \A j : j \in 1 .. k <=> j \in 1 .. k - 1 \/ j = k
      BY <1>1, <2>5
    <3> QED
      BY <3>1
  <2>8. CASE out[k] \in C
    <3> DEFINE q == p[k - 1]
               e == out[k]
    <3>1. p[k] = Append(q, e) /\ q \in Seq(S) /\ e \in S
      BY <1>1, <1>6, <2>5, <2>6, <2>8
    <3>2. Upto(k) = Upto(k - 1) \cup {e} /\ e \in C
      BY <2>7, <2>8
    <3>3. ToSet(q) = Upto(k - 1) \cap C
      BY <2>6
    <3> HIDE DEF q, e, Upto
    <3>4. Append(q, e) = q \o <<e>> /\ <<e>> \in Seq(S) /\ ToSet(<<e>>) = {e}
      BY <3>1, OneSet
    <3>5. q \o <<e>> \in Seq(S) /\ ToSet(q \o <<e>>) = ToSet(q) \cup {e}
      <4> DEFINE t == <<e>>
      <4>1. t \in Seq(S) /\ ToSet(t) = {e}
        BY <3>4
      <4> HIDE DEF t
      <4>2. q \o t \in Seq(S) /\ ToSet(q \o t) = ToSet(q) \cup ToSet(t)
        BY <3>1, <4>1, JoinedSeq
      <4> QED
        BY <4>1, <4>2 DEF t
    <3> QED
      BY <2>3, <3>1, <3>2, <3>3, <3>4, <3>5
  <2>9. CASE out[k] \notin C
    <3>1. p[k] = p[k - 1]
      BY <1>6, <2>5, <2>9
    <3>2. Upto(k) \cap C = Upto(k - 1) \cap C
      BY <2>7, <2>9
    <3> HIDE DEF Upto
    <3> QED
      BY <2>3, <2>6, <3>1, <3>2
  <2> QED
    BY <2>8, <2>9
<1>8. n \in 0 .. n
  BY <1>1
<1>9. Good(n)
  BY <1>7, <1>8
<1>10. Upto(n) = ToSet(out)
  BY <1>1 DEF ToSet, n
<1> QED
  BY <1>4, <1>9, <1>10 DEF n

-----------------------------------------------------------------------------
(***************************************************************************)
(* Packets with a number.                                                  *)
(***************************************************************************)

\* A packet numbered m is in q; there is one of that number only.
HasId(q, m) == \E k \in 1 .. Len(q) : q[k].id = m
OnceId(q, m) == \A j, k \in 1 .. Len(q) : q[j].id = m /\ q[k].id = m => j = k

\* The empty sequence has none.
LEMMA OnceEmpty == \A m : ~HasId(<<>>, m) /\ OnceId(<<>>, m)
BY DEF HasId, OnceId

\* One packet more at the end.
LEMMA OnceAppend ==
  ASSUME NEW S, NEW q \in Seq(S), NEW x \in S, NEW m
  PROVE  /\ HasId(Append(q, x), m) <=> HasId(q, m) \/ x.id = m
         /\ OnceId(q, m) /\ (x.id = m => ~HasId(q, m)) => OnceId(Append(q, x), m)
<1> DEFINE a == Append(q, x)
           n == Len(q)
<1>1. /\ n \in Nat /\ Len(a) = n + 1 /\ a[n + 1] = x
      /\ \A k \in 1 .. n : a[k] = q[k]
  OBVIOUS
<1> HIDE DEF a, n
<1>2. \A k : k \in 1 .. n + 1 <=> k \in 1 .. n \/ k = n + 1
  BY <1>1
<1>3. HasId(q, m) <=> \E k \in 1 .. n : q[k].id = m
  BY DEF HasId, n
<1>4. HasId(a, m) <=> \E k \in 1 .. n + 1 : a[k].id = m
  BY <1>1 DEF HasId
<1>5. HasId(a, m) <=> HasId(q, m) \/ x.id = m
  BY <1>1, <1>2, <1>3, <1>4
<1>6. ASSUME OnceId(q, m), x.id = m => ~HasId(q, m)
      PROVE  OnceId(a, m)
  <2> SUFFICES ASSUME NEW j \in 1 .. n + 1, NEW k \in 1 .. n + 1, a[j].id = m, a[k].id = m
               PROVE  j = k
    BY <1>1 DEF OnceId
  <2>1. CASE j \in 1 .. n /\ k \in 1 .. n
    BY <1>1, <1>6, <2>1 DEF OnceId, n
  <2>2. CASE j \in 1 .. n /\ k = n + 1
    BY <1>1, <1>3, <1>6, <2>2
  <2>3. CASE j = n + 1 /\ k \in 1 .. n
    BY <1>1, <1>3, <1>6, <2>3
  <2> QED
    BY <1>2, <2>1, <2>2, <2>3
<1> QED
  BY <1>5, <1>6 DEF a

\* A sequence of one packet.
LEMMA OnceOne == \A x, m : OnceId(<<x>>, m)
BY DEF OnceId

\* The packets themselves.
LEMMA OnceSet ==
  ASSUME NEW S, NEW q \in Seq(S), NEW m
  PROVE  /\ HasId(q, m) <=> \E p \in ToSet(q) : p.id = m
         /\ OnceId(q, m) => \A a, b \in ToSet(q) : a.id = m /\ b.id = m => a = b
<1>1. DOMAIN q = 1 .. Len(q)
  OBVIOUS
<1>2. \A p : p \in ToSet(q) <=> \E k \in 1 .. Len(q) : p = q[k]
  BY <1>1 DEF ToSet
<1> QED
  BY <1>2 DEF HasId, OnceId

\* Two sequences joined.
LEMMA OnceJoin ==
  ASSUME NEW S, NEW q \in Seq(S), NEW t \in Seq(S), NEW m
  PROVE  /\ HasId(q \o t, m) <=> HasId(q, m) \/ HasId(t, m)
         /\ OnceId(q, m) /\ OnceId(t, m) /\ ~(HasId(q, m) /\ HasId(t, m)) => OnceId(q \o t, m)
<1> DEFINE a == q \o t
           n == Len(q)
<1>1. /\ a \in Seq(S) /\ ToSet(a) = ToSet(q) \cup ToSet(t)
      /\ Len(a) = n + Len(t) /\ n \in Nat /\ Len(t) \in Nat
      /\ \A k \in 1 .. n : a[k] = q[k]
      /\ \A k \in 1 .. Len(t) : a[n + k] = t[k]
  BY JoinedSeq
<1> HIDE DEF a
<1>2. HasId(a, m) <=> HasId(q, m) \/ HasId(t, m)
  BY <1>1, OnceSet
<1>3. ASSUME OnceId(q, m), OnceId(t, m), ~(HasId(q, m) /\ HasId(t, m))
      PROVE  OnceId(a, m)
  <2> SUFFICES ASSUME NEW j \in 1 .. Len(a), NEW k \in 1 .. Len(a), a[j].id = m, a[k].id = m
               PROVE  j = k
    BY DEF OnceId
  <2> HIDE DEF n
  <2>1. \A l \in 1 .. Len(a) : l \in 1 .. n \/ (l - n \in 1 .. Len(t) /\ n + (l - n) = l)
    BY <1>1
  <2>2. \A l \in 1 .. Len(a) : l \in 1 .. n /\ a[l].id = m => q[l].id = m /\ HasId(q, m)
    BY <1>1 DEF HasId, n
  <2>3. \A l \in 1 .. Len(a) : l - n \in 1 .. Len(t) /\ n + (l - n) = l /\ a[l].id = m =>
                                 t[l - n].id = m /\ HasId(t, m)
    <3> SUFFICES ASSUME NEW l \in 1 .. Len(a), l - n \in 1 .. Len(t), n + (l - n) = l, a[l].id = m
                 PROVE  t[l - n].id = m /\ HasId(t, m)
      OBVIOUS
    <3>1. a[l] = t[l - n]
      BY <1>1
    <3> QED
      BY <3>1 DEF HasId
  <2>4. CASE j \in 1 .. n /\ k \in 1 .. n
    BY <1>3, <2>2, <2>4 DEF OnceId, n
  <2>5. CASE j \notin 1 .. n /\ k \notin 1 .. n
    <3>1. j - n = k - n
      BY <1>3, <2>1, <2>3, <2>5 DEF OnceId
    <3> QED
      BY <1>1, <3>1
  <2> QED
    BY <1>3, <2>1, <2>2, <2>3, <2>4, <2>5
<1> QED
  BY <1>2, <1>3 DEF a

\* A queue without its first event.
LEMMA OnceTail ==
  ASSUME NEW S, NEW q \in Seq(S), q # <<>>, NEW m
  PROVE  /\ HasId(q, m) <=> Head(q).id = m \/ HasId(Tail(q), m)
         /\ OnceId(q, m) => OnceId(Tail(q), m)
         /\ OnceId(q, m) /\ Head(q).id = m => ~HasId(Tail(q), m)
<1> DEFINE t == Tail(q)
<1>1. /\ Head(q) = q[1] /\ t \in Seq(S) /\ Len(q) \in Nat \ {0} /\ Len(t) = Len(q) - 1
      /\ \A k \in 1 .. Len(q) - 1 : t[k] = q[k + 1]
      /\ ToSet(q) = {Head(q)} \cup ToSet(t)
  BY TailSeq
<1> HIDE DEF t
<1>2. HasId(q, m) <=> Head(q).id = m \/ HasId(t, m)
  BY <1>1, OnceSet
<1>3. \A k \in 1 .. Len(t) : k + 1 \in 1 .. Len(q) /\ k + 1 # 1 /\ t[k] = q[k + 1]
  BY <1>1
<1>4. OnceId(q, m) => OnceId(t, m)
  <2> SUFFICES ASSUME OnceId(q, m), NEW j \in 1 .. Len(t), NEW k \in 1 .. Len(t),
                      t[j].id = m, t[k].id = m
               PROVE  j = k
    BY DEF OnceId
  <2>1. j + 1 = k + 1
    BY <1>3 DEF OnceId
  <2> QED
    BY <1>1, <2>1
<1>5. OnceId(q, m) /\ Head(q).id = m => ~HasId(t, m)
  <2>1. 1 \in 1 .. Len(q)
    BY <1>1
  <2> QED
    BY <1>1, <1>3, <2>1 DEF OnceId, HasId
<1> QED
  BY <1>2, <1>4, <1>5 DEF t

\* Among keeps at most one packet numbered m if there is at most one.
LEMMA AmongOnce ==
  ASSUME NEW S, NEW out \in Seq(S), NEW C, NEW m, OnceId(out, m)
  PROVE  OnceId(Among(out, C), m)
<1>1. PICK p : Keeps(p, out, C) /\ Among(out, C) = p[Len(out)]
  BY AmongSteps
<1> DEFINE n == Len(out)
           Upto(k) == \E j \in 1 .. k : out[j].id = m
           Good(k) == p[k] \in Seq(S) /\ OnceId(p[k], m) /\ (HasId(p[k], m) => Upto(k))
           D == {k \in 0 .. n : ~Good(k)}
<1>2. n \in Nat /\ \A k \in 1 .. n : out[k] \in S
  OBVIOUS
<1>3. p[0] = <<>> /\ \A k \in 1 .. n :
        p[k] = IF out[k] \in C THEN Append(p[k - 1], out[k]) ELSE p[k - 1]
  BY <1>1 DEF Keeps
<1>4. \A j, k \in 1 .. n : out[j].id = m /\ out[k].id = m => j = k
  BY DEF OnceId
<1> HIDE DEF n
<1>5. D = {}
  <2> SUFFICES ASSUME D # {}
               PROVE  FALSE
    OBVIOUS
  <2>1. D \in SUBSET Nat
    BY <1>2
  <2>2. PICK k \in D : \A i \in D : k <= i
    BY <2>1, MinExists
  <2>3. k \in 0 .. n /\ ~Good(k)
    BY <2>2
  <2>4. k # 0
    <3>1. Good(0)
      BY <1>3, OnceEmpty, EmptySet
    <3> QED
      BY <2>3, <3>1
  <2>5. k - 1 \in 0 .. n /\ ~(k <= k - 1) /\ k \in 1 .. n
    BY <1>2, <2>3, <2>4
  <2>6. Good(k - 1)
    BY <2>2, <2>5
  <2> DEFINE q == p[k - 1]
             x == out[k]
  <2>7. Upto(k) <=> Upto(k - 1) \/ x.id = m
    <3>1. \A j : j \in 1 .. k <=> j \in 1 .. k - 1 \/ j = k
      BY <1>2, <2>5
    <3> QED
      BY <3>1
  <2>8. x.id = m => ~Upto(k - 1)
    <3>1. \A j \in 1 .. k - 1 : j \in 1 .. n /\ j # k
      BY <1>2, <2>5
    <3> QED
      BY <1>4, <2>5, <3>1
  <2>9. q \in Seq(S) /\ x \in S /\ OnceId(q, m) /\ (HasId(q, m) => Upto(k - 1))
    BY <1>2, <2>5, <2>6
  <2>10. p[k] = IF x \in C THEN Append(q, x) ELSE q
    BY <1>3, <2>5
  <2> HIDE DEF q, x, Upto
  <2>11. CASE x \in C
    <3>1. p[k] = Append(q, x)
      BY <2>10, <2>11
    <3>2. Append(q, x) \in Seq(S)
      BY <2>9
    <3>3. /\ HasId(Append(q, x), m) <=> HasId(q, m) \/ x.id = m
          /\ OnceId(q, m) /\ (x.id = m => ~HasId(q, m)) => OnceId(Append(q, x), m)
      BY <2>9, OnceAppend
    <3> QED
      BY <2>3, <2>7, <2>8, <2>9, <3>1, <3>2, <3>3
  <2>12. CASE x \notin C
    BY <2>3, <2>7, <2>9, <2>10, <2>12
  <2> QED
    BY <2>11, <2>12
<1>6. n \in 0 .. n
  BY <1>2
<1>7. Good(n)
  BY <1>5, <1>6
<1> QED
  BY <1>1, <1>7 DEF n

-----------------------------------------------------------------------------
(***************************************************************************)
(* Bags, and the entries of a name.                                        *)
(***************************************************************************)

\* How often x is in bag B.
NumberOf(x, B) == IF x \in DOMAIN B THEN B[x] ELSE 0

\* A has what B has, and one more of each element of S.
BagMore(A, B, S) ==
  /\ IsABag(A) /\ DOMAIN A = DOMAIN B \cup S
  /\ \A x : NumberOf(x, A) = NumberOf(x, B) + (IF x \in S THEN 1 ELSE 0)

\* A has what B has, and one x less.
BagLess(A, B, x) ==
  /\ IsABag(A) /\ DOMAIN A \subseteq DOMAIN B /\ DOMAIN B \subseteq DOMAIN A \cup {x}
  /\ x \in DOMAIN B => NumberOf(x, A) + 1 = NumberOf(x, B)
  /\ \A e : e # x => NumberOf(e, A) = NumberOf(e, B)

\* Events added to those without a session.
LEMMA BagWith ==
  ASSUME NEW B, IsABag(B), NEW S, NEW A, A = B (+) SetToBag(S)
  PROVE  BagMore(A, B, S)
<1>1. \A e \in DOMAIN B : B[e] \in Nat /\ B[e] > 0
  BY DEF IsABag
<1>2. DOMAIN SetToBag(S) = S /\ \A e \in S : SetToBag(S)[e] = 1
  BY DEF SetToBag
<1>3. A = [e \in DOMAIN B \cup S |-> (IF e \in DOMAIN B THEN B[e] ELSE 0)
                                    + (IF e \in S THEN SetToBag(S)[e] ELSE 0)]
  BY <1>2 DEF (+)
<1>4. DOMAIN A = DOMAIN B \cup S
  BY <1>3
<1>5. ASSUME NEW e \in DOMAIN B \cup S
      PROVE  /\ A[e] \in Nat /\ A[e] > 0
             /\ A[e] = (IF e \in DOMAIN B THEN B[e] ELSE 0) + (IF e \in S THEN 1 ELSE 0)
  <2>1. A[e] = (IF e \in DOMAIN B THEN B[e] ELSE 0) + (IF e \in S THEN 1 ELSE 0)
    BY <1>2, <1>3
  <2> QED
    BY <1>1, <2>1
<1>6. A = [e \in DOMAIN B \cup S |-> A[e]]
  BY <1>3
<1>7. IsABag(A)
  BY <1>4, <1>5, <1>6 DEF IsABag
<1>8. \A x : NumberOf(x, A) = NumberOf(x, B) + (IF x \in S THEN 1 ELSE 0)
  BY <1>1, <1>4, <1>5 DEF NumberOf
<1> QED
  BY <1>4, <1>7, <1>8 DEF BagMore

\* An event without a session is taken: others of its kind may remain.
LEMMA BagWithout ==
  ASSUME NEW B, IsABag(B), NEW x, NEW A, A = B (-) SetToBag({x})
  PROVE  BagLess(A, B, x)
<1> DEFINE C == [e \in DOMAIN B |-> IF e = x THEN B[e] - 1 ELSE B[e]]
           D == {d \in DOMAIN C : C[d] > 0}
<1>1. \A e \in DOMAIN B : B[e] \in Nat /\ B[e] > 0
  BY DEF IsABag
<1>2. DOMAIN SetToBag({x}) = {x} /\ SetToBag({x})[x] = 1
  BY DEF SetToBag
<1>3. [e \in DOMAIN B |-> IF e \in DOMAIN SetToBag({x}) THEN B[e] - SetToBag({x})[e]
                                                        ELSE B[e]] = C
  BY <1>2
<1>4. A = [e \in D |-> C[e]]
  BY <1>3 DEF (-)
<1>5. DOMAIN C = DOMAIN B /\ \A e \in DOMAIN B : C[e] = IF e = x THEN B[e] - 1 ELSE B[e]
  OBVIOUS
<1>6. \A e \in D : C[e] \in Nat /\ C[e] > 0
  <2> HIDE DEF C
  <2> QED
    BY <1>1, <1>5
<1>7. DOMAIN B \subseteq D \cup {x} /\ D \subseteq DOMAIN B
  <2> HIDE DEF C
  <2> QED
    BY <1>1, <1>5
<1>10. \A e : e \in D <=> e \in DOMAIN B /\ C[e] > 0
  BY <1>5
<1> HIDE DEF C, D
<1>8. DOMAIN A = D /\ \A e \in D : A[e] = C[e]
  BY <1>4
<1>9. IsABag(A)
  BY <1>4, <1>6, <1>8 DEF IsABag
<1>11. x \in DOMAIN B => NumberOf(x, A) + 1 = NumberOf(x, B)
  BY <1>1, <1>5, <1>8, <1>10 DEF NumberOf
<1>12. \A e : e # x => NumberOf(e, A) = NumberOf(e, B)
  BY <1>1, <1>5, <1>8, <1>10 DEF NumberOf
<1> QED
  BY <1>7, <1>8, <1>9, <1>11, <1>12 DEF BagLess

\* Sets that correspond one to one have the same cardinality.
LEMMA OneToOne ==
  ASSUME NEW A, NEW B, IsFiniteSet(A), NEW f \in [A -> B],
         \A x, y \in A : f[x] = f[y] => x = y,
         \A y \in B : \E x \in A : f[x] = y
  PROVE  IsFiniteSet(B) /\ Cardinality(B) = Cardinality(A)
<1>1. f \in Injection(A, B)
  BY DEF Injection, IsInjective
<1>2. f \in Surjection(A, B)
  BY DEF Surjection
<1>3. ExistsBijection(A, B)
  BY <1>1, <1>2 DEF ExistsBijection, Bijection
<1> QED
  BY <1>3, FS_Bijection

NamedIn(q, u) == {k \in 1 .. Len(q) : q[k].name = u}

\* The entries of one name are finitely many.
LEMMA NamedFinite ==
  ASSUME NEW R, NEW q \in Seq(R), NEW u
  PROVE  IsFiniteSet(NamedIn(q, u)) /\ Cardinality(NamedIn(q, u)) \in Nat
<1>1. Len(q) \in Nat
  OBVIOUS
<1>2. IsFiniteSet(1 .. Len(q))
  BY <1>1, FS_Interval
<1>3. NamedIn(q, u) \subseteq 1 .. Len(q)
  BY DEF NamedIn
<1>4. IsFiniteSet(NamedIn(q, u))
  BY <1>2, <1>3, FS_Subset
<1> QED
  BY <1>4, FS_CardinalityType

\* One more session of a name.
LEMMA NamedAppend ==
  ASSUME NEW R, NEW q \in Seq(R), NEW r \in R, NEW u
  PROVE  /\ Append(q, r) \in Seq(R)
         /\ Cardinality(NamedIn(Append(q, r), u)) =
              Cardinality(NamedIn(q, u)) + (IF r.name = u THEN 1 ELSE 0)
<1> DEFINE t == Append(q, r)
           n == Len(q) + 1
<1>1. /\ t \in Seq(R) /\ Len(t) = n /\ Len(q) \in Nat /\ t[n] = r
      /\ \A k \in 1 .. Len(q) : t[k] = q[k]
  BY AppendSeq
<1> HIDE DEF t
<1>2. IsFiniteSet(NamedIn(q, u)) /\ Cardinality(NamedIn(q, u)) \in Nat
  BY NamedFinite
<1>3. n \notin NamedIn(q, u) /\ \A k : k \in 1 .. n <=> k \in 1 .. Len(q) \/ k = n
  BY <1>1 DEF NamedIn
<1>4. CASE r.name = u
  <2>1. NamedIn(t, u) = NamedIn(q, u) \cup {n}
    BY <1>1, <1>3, <1>4 DEF NamedIn
  <2> HIDE DEF n
  <2>2. Cardinality(NamedIn(q, u) \cup {n}) = Cardinality(NamedIn(q, u)) + 1
    BY <1>2, <1>3, FS_AddElement
  <2> QED
    BY <1>1, <1>4, <2>1, <2>2 DEF t
<1>5. CASE r.name # u
  <2>1. NamedIn(t, u) = NamedIn(q, u)
    BY <1>1, <1>3, <1>5 DEF NamedIn
  <2> QED
    BY <1>1, <1>2, <1>5, <2>1 DEF t
<1> QED
  BY <1>4, <1>5

\* One session of a name less.
LEMMA NamedRemoved ==
  ASSUME NEW R, NEW q \in Seq(R), NEW i \in 1 .. Len(q), NEW u
  PROVE  /\ RemoveAt(q, i) \in Seq(R)
         /\ Cardinality(NamedIn(RemoveAt(q, i), u)) =
              Cardinality(NamedIn(q, u)) - (IF q[i].name = u THEN 1 ELSE 0)
<1> DEFINE t == RemoveAt(q, i)
<1>1. /\ t \in Seq(R) /\ Len(t) = Len(q) - 1 /\ Len(q) \in Nat
      /\ \A k \in 1 .. Len(q) - 1 : t[k] = IF k < i THEN q[k] ELSE q[k + 1]
  <2> DEFINE S == R
  <2>1. q \in Seq(S) /\ Len(q) \in Nat
    OBVIOUS
  <2> HIDE DEF S
  <2>2. /\ RemoveAt(q, i) \in Seq(S) /\ Len(RemoveAt(q, i)) = Len(q) - 1
        /\ \A k \in 1 .. Len(q) - 1 : RemoveAt(q, i)[k] = IF k < i THEN q[k] ELSE q[k + 1]
    BY <2>1, RemoveAtSeq
  <2> QED
    BY <2>1, <2>2 DEF S
<1> HIDE DEF t
<1> DEFINE A == NamedIn(t, u)
           B == NamedIn(q, u) \ {i}
           f == [k \in A |-> IF k < i THEN k ELSE k + 1]
<1>2. ASSUME NEW k \in A
      PROVE  f[k] \in B
  <2>1. k \in 1 .. Len(q) - 1 /\ t[k].name = u
    BY <1>1 DEF NamedIn
  <2>2. f[k] \in 1 .. Len(q) /\ f[k] # i /\ q[f[k]] = t[k]
    BY <1>1, <2>1
  <2> QED
    BY <2>1, <2>2 DEF NamedIn
<1>3. f \in [A -> B]
  BY <1>2
<1>4. \A x, y \in A : f[x] = f[y] => x = y
  <2>1. \A x \in A : x \in Int
    BY <1>1 DEF NamedIn
  <2> QED
    BY <2>1
<1>5. ASSUME NEW y \in B
      PROVE  \E x \in A : f[x] = y
  <2>1. y \in 1 .. Len(q) /\ y # i /\ q[y].name = u
    BY DEF NamedIn
  <2>2. CASE y < i
    <3>1. y \in 1 .. Len(q) - 1 /\ t[y] = q[y]
      BY <1>1, <2>1, <2>2
    <3>2. y \in A /\ f[y] = y
      BY <1>1, <2>1, <2>2, <3>1 DEF NamedIn
    <3> QED
      BY <3>2
  <2>3. CASE y > i
    <3>1. y - 1 \in 1 .. Len(q) - 1 /\ ~(y - 1 < i) /\ (y - 1) + 1 = y
      BY <1>1, <2>1, <2>3
    <3>2. t[y - 1] = q[y]
      BY <1>1, <3>1
    <3>3. y - 1 \in A /\ f[y - 1] = y
      BY <1>1, <2>1, <3>1, <3>2 DEF NamedIn
    <3> QED
      BY <3>3
  <2> QED
    BY <1>1, <2>1, <2>2, <2>3
<1> HIDE DEF f
<1>6. /\ IsFiniteSet(A) /\ Cardinality(A) \in Nat
      /\ IsFiniteSet(NamedIn(q, u)) /\ Cardinality(NamedIn(q, u)) \in Nat
  BY <1>1, NamedFinite
<1>7. Cardinality(B) = Cardinality(A)
  <2> HIDE DEF A, B
  <2> QED
    BY <1>3, <1>4, <1>5, <1>6, OneToOne
<1>8. Cardinality(B) = Cardinality(NamedIn(q, u)) - (IF q[i].name = u THEN 1 ELSE 0)
  <2>1. i \in NamedIn(q, u) <=> q[i].name = u
    BY DEF NamedIn
  <2>2. CASE q[i].name = u
    <3> DEFINE N == NamedIn(q, u)
    <3>1. i \in N /\ IsFiniteSet(N)
      BY <1>6, <2>1, <2>2
    <3> HIDE DEF N
    <3>2. Cardinality(N \ {i}) = Cardinality(N) - 1
      BY <3>1, FS_RemoveElement
    <3> QED
      BY <2>2, <3>2 DEF N
  <2>3. CASE q[i].name # u
    <3> DEFINE c == Cardinality(NamedIn(q, u))
    <3>1. B = NamedIn(q, u) /\ c \in Nat
      BY <1>6, <2>1, <2>3
    <3>2. Cardinality(B) = c
      BY <3>1
    <3> HIDE DEF c, B
    <3>3. Cardinality(B) = c - (IF q[i].name = u THEN 1 ELSE 0)
      BY <2>3, <3>1, <3>2
    <3> QED
      BY <3>3 DEF c
  <2> QED
    BY <2>2, <2>3
<1> QED
  BY <1>1, <1>7, <1>8 DEF t, A

-----------------------------------------------------------------------------
(***************************************************************************)
(* What the notices and the reports of a sequence come to.                 *)
(***************************************************************************)

Notices == {"CMD_SRV_USER_ONLINE", "CMD_SRV_USER_OFFLINE", "CMD_SRV_USER_STATUS"}
IsNotice(p, c) == p.cmd \in Notices /\ p.from = c

\* A client that shows v of c and then reads q shows x: from some place in q on,
\* that is what it shows.
Says(q, c, v, x) ==
  \E k \in 0 .. Len(q) :
    /\ k = 0 => v = x
    /\ k > 0 => IsNotice(q[k], c) /\ q[k].arg = x
    /\ \A l \in 1 .. Len(q) : l > k /\ IsNotice(q[l], c) => q[l].arg = x

\* Notices that say the same as before, or other packets.
LEMMA SaysJoin ==
  ASSUME NEW S, NEW q \in Seq(S), NEW h \in Seq(S), NEW c, NEW v, NEW x, Says(q, c, v, x),
         \A p \in ToSet(h) : IsNotice(p, c) => p.arg = x
  PROVE  Says(q \o h, c, v, x)
<1> DEFINE j == q \o h
<1>1. /\ Len(j) = Len(q) + Len(h) /\ Len(q) \in Nat /\ Len(h) \in Nat
      /\ \A k \in 1 .. Len(q) : j[k] = q[k]
      /\ \A k \in 1 .. Len(h) : j[Len(q) + k] = h[k]
  BY JoinedSeq
<1> HIDE DEF j
<1>2. PICK k \in 0 .. Len(q) :
         /\ k = 0 => v = x
         /\ k > 0 => IsNotice(q[k], c) /\ q[k].arg = x
         /\ \A l \in 1 .. Len(q) : l > k /\ IsNotice(q[l], c) => q[l].arg = x
  BY DEF Says
<1>3. k \in 0 .. Len(j) /\ (k = 0 => v = x)
  BY <1>1, <1>2
<1>4. k > 0 => IsNotice(j[k], c) /\ j[k].arg = x
  <2> SUFFICES ASSUME k > 0 PROVE IsNotice(j[k], c) /\ j[k].arg = x
    OBVIOUS
  <2>1. k \in 1 .. Len(q)
    BY <1>1
  <2>2. j[k] = q[k]
    BY <1>1, <2>1
  <2> QED
    BY <1>2, <2>2
<1>5. ASSUME NEW l \in 1 .. Len(j), l > k, IsNotice(j[l], c)
      PROVE  j[l].arg = x
  <2>1. CASE l <= Len(q)
    <3>1. l \in 1 .. Len(q)
      BY <1>1, <2>1
    <3>2. j[l] = q[l]
      BY <1>1, <3>1
    <3> QED
      BY <1>2, <1>5, <3>1, <3>2
  <2>2. CASE ~(l <= Len(q))
    <3>1. l - Len(q) \in 1 .. Len(h) /\ Len(q) + (l - Len(q)) = l
      BY <1>1, <2>2
    <3>2. j[l] = h[l - Len(q)]
      BY <1>1, <3>1
    <3>3. j[l] \in ToSet(h)
      BY <1>1, <3>1, <3>2 DEF ToSet
    <3> QED
      BY <1>5, <3>3
  <2> QED
    BY <2>1, <2>2
<1>6. Says(j, c, v, x)
  BY <1>3, <1>4, <1>5 DEF Says
<1> QED
  BY <1>6 DEF j

\* A new notice, and no other that says something else.
LEMMA SaysNew ==
  ASSUME NEW S, NEW q \in Seq(S), NEW h \in Seq(S), NEW c, NEW v, NEW x,
         \A p \in ToSet(h) : IsNotice(p, c) => p.arg = x,
         \E p \in ToSet(h) : IsNotice(p, c)
  PROVE  Says(q \o h, c, v, x)
<1> DEFINE j == q \o h
<1>1. /\ Len(j) = Len(q) + Len(h) /\ Len(q) \in Nat /\ Len(h) \in Nat
      /\ \A k \in 1 .. Len(h) : j[Len(q) + k] = h[k]
  BY JoinedSeq
<1> HIDE DEF j
<1>2. PICK i \in 1 .. Len(h) : IsNotice(h[i], c)
  BY <1>1 DEF ToSet
<1>3. \A l \in 1 .. Len(h) : IsNotice(h[l], c) => h[l].arg = x
  BY <1>1 DEF ToSet
<1> DEFINE k == Len(q) + i
<1>4. k \in 0 .. Len(j) /\ k # 0
  BY <1>1
<1>5. IsNotice(j[k], c) /\ j[k].arg = x
  BY <1>1, <1>2, <1>3
<1>6. ASSUME NEW l \in 1 .. Len(j), l > k, IsNotice(j[l], c)
      PROVE  j[l].arg = x
  <2>1. l - Len(q) \in 1 .. Len(h) /\ Len(q) + (l - Len(q)) = l
    BY <1>1, <1>6
  <2>2. j[l] = h[l - Len(q)]
    BY <1>1, <2>1
  <2> QED
    BY <1>3, <1>6, <2>1, <2>2
<1> HIDE DEF k
<1>7. Says(j, c, v, x)
  BY <1>4, <1>5, <1>6 DEF Says
<1> QED
  BY <1>7 DEF j

\* The client reads the first packet, and shows what it says if it is a notice.
LEMMA SaysTail ==
  ASSUME NEW S, NEW q \in Seq(S), q # <<>>, NEW c, NEW v, NEW x, Says(q, c, v, x), NEW w,
         w = IF IsNotice(Head(q), c) THEN Head(q).arg ELSE v
  PROVE  Says(Tail(q), c, w, x)
<1> DEFINE t == Tail(q)
<1>1. /\ Head(q) = q[1] /\ Len(q) \in Nat \ {0} /\ Len(t) = Len(q) - 1
      /\ \A k \in 1 .. Len(q) - 1 : t[k] = q[k + 1]
  BY TailSeq
<1> HIDE DEF t
<1>2. PICK k \in 0 .. Len(q) :
         /\ k = 0 => v = x
         /\ k > 0 => IsNotice(q[k], c) /\ q[k].arg = x
         /\ \A l \in 1 .. Len(q) : l > k /\ IsNotice(q[l], c) => q[l].arg = x
  BY DEF Says
<1>3. \A l \in 1 .. Len(t) : l + 1 > k /\ IsNotice(t[l], c) => t[l].arg = x
  <2> SUFFICES ASSUME NEW l \in 1 .. Len(t), l + 1 > k, IsNotice(t[l], c) PROVE t[l].arg = x
    OBVIOUS
  <2>1. l \in 1 .. Len(q) - 1 /\ l + 1 \in 1 .. Len(q)
    BY <1>1
  <2>2. t[l] = q[l + 1]
    BY <1>1, <2>1
  <2> QED
    BY <1>2, <2>1, <2>2
<1>4. CASE k <= 1
  <2>1. w = x
    <3>1. CASE k = 0
      <4>1. 1 \in 1 .. Len(q) /\ 1 > k
        BY <1>1, <3>1
      <4> QED
        BY <1>1, <1>2, <3>1, <4>1
    <3>2. CASE k = 1
      BY <1>1, <1>2, <3>2
    <3> QED
      BY <1>4, <3>1, <3>2
  <2>2. 0 \in 0 .. Len(t)
    BY <1>1
  <2>3. \A l \in 1 .. Len(t) : l > 0 /\ IsNotice(t[l], c) => t[l].arg = x
    BY <1>1, <1>3, <1>4
  <2>4. Says(t, c, w, x)
    BY <2>1, <2>2, <2>3 DEF Says
  <2> QED
    BY <2>4 DEF t
<1>5. CASE k > 1
  <2>1. k - 1 \in 1 .. Len(q) - 1 /\ (k - 1) + 1 = k /\ k - 1 # 0 /\ k - 1 \in 0 .. Len(t)
    BY <1>1, <1>5
  <2>2. t[k - 1] = q[k]
    BY <1>1, <2>1
  <2>3. IsNotice(t[k - 1], c) /\ t[k - 1].arg = x
    BY <1>2, <1>5, <2>2
  <2>4. \A l \in 1 .. Len(t) : l > k - 1 /\ IsNotice(t[l], c) => t[l].arg = x
    BY <1>1, <1>3
  <2>5. Says(t, c, w, x)
    BY <2>1, <2>3, <2>4 DEF Says
  <2> QED
    BY <2>5 DEF t
<1> QED
  BY <1>4, <1>5

\* No notice is on its way: the client shows what it will show.
LEMMA SaysNone ==
  ASSUME NEW q, NEW c, NEW v, NEW x, Len(q) \in Nat, \A k \in 1 .. Len(q) : ~IsNotice(q[k], c)
  PROVE  Says(q, c, v, x) <=> v = x
<1>1. ASSUME Says(q, c, v, x) PROVE v = x
  <2>1. PICK k \in 0 .. Len(q) : (k = 0 => v = x) /\ (k > 0 => IsNotice(q[k], c))
    BY <1>1 DEF Says
  <2>2. k = 0
    <3>1. k # 0 => k \in 1 .. Len(q) /\ k > 0
      OBVIOUS
    <3> QED
      BY <2>1, <3>1
  <2> QED
    BY <2>1, <2>2
<1>2. ASSUME v = x PROVE Says(q, c, v, x)
  <2>1. 0 \in 0 .. Len(q)
    OBVIOUS
  <2> QED
    BY <1>2, <2>1 DEF Says
<1> QED
  BY <1>1, <1>2

\* An event that is no notice of c at the end of a queue changes nothing of what the
\* queue says of c.
LEMMA SaysAppend ==
  ASSUME NEW S, NEW q \in Seq(S), NEW z \in S, NEW c, NEW v, NEW x, Says(q, c, v, x),
         ~IsNotice(z, c)
  PROVE  Says(Append(q, z), c, v, x)
<1>1. <<z>> \in Seq(S) /\ ToSet(<<z>>) = {z}
  BY OneSet
<1>2. \A p \in ToSet(<<z>>) : IsNotice(p, c) => p.arg = x
  BY <1>1
<1>3. Says(q \o <<z>>, c, v, x)
  BY <1>1, <1>2, SaysJoin
<1>4. Append(q, z) = q \o <<z>>
  OBVIOUS
<1> QED
  BY <1>3, <1>4

Change(e, u) == IF e.from # u THEN 0 ELSE
                  IF e.ev = "SM_ADD_SESSION" THEN 1 ELSE
                    IF e.ev = "SM_REMOVE_SESSION" THEN -1 ELSE 0

\* The reports and packets of q turn a sessions of u into b, one by one.
Tally(q, u, a, b) ==
  \E n \in [0 .. Len(q) -> Nat] :
    /\ n[0] = a /\ n[Len(q)] = b
    /\ \A k \in 1 .. Len(q) : n[k] = n[k - 1] + Change(q[k], u)

\* What a report changes; a packet changes nothing.
LEMMA ChangeInt == \A e, u : Change(e, u) \in Int /\ (e.ev = "EV_S_IN" => Change(e, u) = 0)
  BY DEF Change

\* One more report, which changes the number by d.
LEMMA TallyGrows ==
  ASSUME NEW S, NEW q \in Seq(S), NEW t \in Seq(S), NEW u, NEW a, NEW b \in Nat, Tally(q, u, a, b),
         NEW d \in Int, b + d \in Nat,
         t # <<>> => Change(t[1], u) = d, t = <<>> => d = 0,
         \A k \in 2 .. Len(t) : Change(t[k], u) = 0
  PROVE  Tally(q \o t, u, a, b + d)
<1>1. PICK n \in [0 .. Len(q) -> Nat] :
        /\ n[0] = a /\ n[Len(q)] = b
        /\ \A k \in 1 .. Len(q) : n[k] = n[k - 1] + Change(q[k], u)
  BY DEF Tally
<1>2. /\ Len(q \o t) = Len(q) + Len(t) /\ Len(q) \in Nat /\ Len(t) \in Nat
      /\ \A k \in 1 .. Len(q) : (q \o t)[k] = q[k]
      /\ \A k \in 1 .. Len(t) : (q \o t)[Len(q) + k] = t[k]
  BY JoinedSeq
<1> DEFINE p == q \o t
           m == [k \in 0 .. Len(p) |-> IF k <= Len(q) THEN n[k] ELSE b + d]
<1>3. m \in [0 .. Len(p) -> Nat]
  BY <1>1, <1>2
<1>4. m[0] = a
  BY <1>1, <1>2
<1>5. m[Len(p)] = b + d
  <2>1. CASE t = <<>>
    BY <1>1, <1>2, <2>1
  <2>2. CASE t # <<>>
    <3>1. Len(t) > 0
      BY <1>2, <2>2
    <3> QED
      BY <1>1, <1>2, <3>1
  <2> QED
    BY <2>1, <2>2
<1>6. ASSUME NEW k \in 1 .. Len(p)
      PROVE  m[k] = m[k - 1] + Change(p[k], u)
  <2>1. CASE k <= Len(q)
    <3>1. k \in 1 .. Len(q) /\ k - 1 <= Len(q) /\ k - 1 \in 0 .. Len(p) /\ k \in 0 .. Len(p)
      BY <1>2, <1>6, <2>1
    <3>2. m[k] = n[k] /\ m[k - 1] = n[k - 1] /\ p[k] = q[k]
      BY <1>2, <2>1, <3>1
    <3> QED
      BY <1>1, <3>1, <3>2
  <2>2. CASE k = Len(q) + 1
    <3>1. 1 \in 1 .. Len(t) /\ k - 1 = Len(q) /\ k \in 0 .. Len(p) /\ k - 1 \in 0 .. Len(p) /\ ~(k <= Len(q))
      BY <1>2, <1>6, <2>2
    <3>2. m[k] = b + d /\ m[k - 1] = b /\ p[k] = t[1]
      BY <1>1, <1>2, <2>2, <3>1
    <3>3. t # <<>>
      BY <3>1
    <3> QED
      BY <3>2, <3>3
  <2>3. CASE k > Len(q) + 1
    <3> DEFINE j == k - Len(q)
    <3>1. j \in 2 .. Len(t) /\ Len(q) + j = k /\ ~(k - 1 <= Len(q)) /\ ~(k <= Len(q)) /\ k - 1 \in 0 .. Len(p)
          /\ k \in 0 .. Len(p)
      <4>1. Len(p) = Len(q) + Len(t) /\ Len(q) \in Nat /\ Len(t) \in Nat
        BY <1>2
      <4>2. k \in 1 .. Len(p) /\ k > Len(q) + 1
        BY <1>6, <2>3
      <4> HIDE DEF p
      <4> QED
        BY <4>1, <4>2
    <3>2. m[k] = b + d /\ m[k - 1] = b + d
      BY <3>1
    <3>3. p[k] = t[j]
      BY <1>2, <3>1
    <3> QED
      BY <3>1, <3>2, <3>3
  <2> QED
    BY <1>2, <1>6, <2>1, <2>2, <2>3
<1> HIDE DEF m
<1> QED
  BY <1>3, <1>4, <1>5, <1>6 DEF Tally

\* The first report is read.
LEMMA TallyShrinks ==
  ASSUME NEW S, NEW q \in Seq(S), q # <<>>, NEW u, NEW a, NEW b, Tally(q, u, a, b)
  PROVE  a + Change(Head(q), u) \in Nat /\ Tally(Tail(q), u, a + Change(Head(q), u), b)
<1>1. PICK n \in [0 .. Len(q) -> Nat] :
        /\ n[0] = a /\ n[Len(q)] = b
        /\ \A k \in 1 .. Len(q) : n[k] = n[k - 1] + Change(q[k], u)
  BY DEF Tally
<1>2. /\ Head(q) = q[1] /\ Len(q) \in Nat \ {0} /\ Len(Tail(q)) = Len(q) - 1
      /\ \A k \in 1 .. Len(q) - 1 : Tail(q)[k] = q[k + 1]
  BY TailSeq
<1> DEFINE p == Tail(q)
           m == [k \in 0 .. Len(p) |-> n[k + 1]]
<1>3. m \in [0 .. Len(p) -> Nat]
  BY <1>1, <1>2
<1>4. n[1] = a + Change(Head(q), u) /\ n[1] \in Nat /\ m[0] = n[1]
  BY <1>1, <1>2
<1>5. m[Len(p)] = b
  BY <1>1, <1>2
<1>6. ASSUME NEW k \in 1 .. Len(p)
      PROVE  m[k] = m[k - 1] + Change(p[k], u)
  <2>1. k + 1 \in 1 .. Len(q) /\ k \in 1 .. Len(q) - 1 /\ k - 1 \in 0 .. Len(p) /\ k \in 0 .. Len(p)
    BY <1>2, <1>6
  <2>2. m[k] = n[k + 1] /\ m[k - 1] = n[k - 1 + 1] /\ k - 1 + 1 = k /\ (k + 1) - 1 = k
    BY <2>1
  <2>3. n[k + 1] = n[(k + 1) - 1] + Change(q[k + 1], u)
    BY <1>1, <2>1
  <2>4. p[k] = q[k + 1]
    BY <1>2, <2>1
  <2> QED
    BY <2>2, <2>3, <2>4
<1> HIDE DEF m
<1> QED
  BY <1>3, <1>4, <1>5, <1>6 DEF Tally
=============================================================================
