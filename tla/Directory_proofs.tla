-------------------------- MODULE Directory_proofs --------------------------
(***************************************************************************)
(* Proofs that linqd's directory of who is online is the one of c2s as     *)
(* soon as it has read what is under way, and that packets go astray only  *)
(* where an address has changed hands, for any number of users, addresses  *)
(* and logins, and every size of the stream between the two; then, about   *)
(* the connections beneath, that a TCPStream does not forget its data and  *)
(* hands it on in whole packets, and that the two ends of a file transfer  *)
(* tell their users what is so.                                            *)
(***************************************************************************)
EXTENDS Directory, Stream, Transfer, ChainLemmas

-----------------------------------------------------------------------------
(***************************************************************************)
(* What linqd makes of the packets in the stream.  There is no induction   *)
(* over data here: a least place where a claim fails leads to the places   *)
(* before it.                                                              *)
(***************************************************************************)

\* g are the hashes that linqd has one after the other as it reads the packets
\* of q, the first one being h.
Reads(g, h, q) ==
  g = [i \in 0 .. Len(q) |-> IF i = 0 THEN h ELSE Applied(g[i - 1], q[i])]

LEMMA ReadsSteps ==
  ASSUME NEW g, NEW h, NEW q, Len(q) \in Nat, Reads(g, h, q)
  PROVE  /\ g[0] = h
         /\ \A i \in 1 .. Len(q) : g[i] = Applied(g[i - 1], q[i])
         /\ g = [i \in 0 .. Len(q) |-> g[i]]
<1> DEFINE f == [i \in 0 .. Len(q) |-> IF i = 0 THEN h ELSE Applied(g[i - 1], q[i])]
<1>1. g = f
  BY DEF Reads
<1>2. f[0] = h /\ \A i \in 1 .. Len(q) : f[i] = Applied(g[i - 1], q[i])
  OBVIOUS
<1>3. f = [i \in 0 .. Len(q) |-> f[i]]
  OBVIOUS
<1> HIDE DEF f
<1> QED
  BY <1>1, <1>2, <1>3

LEMMA StepsRead ==
  ASSUME NEW g, NEW h, NEW q, Len(q) \in Nat,
         g = [i \in 0 .. Len(q) |-> g[i]], g[0] = h,
         \A i \in 1 .. Len(q) : g[i] = Applied(g[i - 1], q[i])
  PROVE  Reads(g, h, q)
<1> DEFINE f == [i \in 0 .. Len(q) |-> IF i = 0 THEN h ELSE Applied(g[i - 1], q[i])]
<1>1. \A i \in 0 .. Len(q) : f[i] = g[i]
  <2> SUFFICES ASSUME NEW i \in 0 .. Len(q)
               PROVE  f[i] = g[i]
    OBVIOUS
  <2>1. CASE i = 0
    BY <2>1
  <2>2. CASE i # 0
    <3>1. i \in 1 .. Len(q)
      BY <2>2
    <3> QED
      BY <2>2, <3>1
  <2> QED
    BY <2>1, <2>2
<1>2. f = [i \in 0 .. Len(q) |-> f[i]]
  OBVIOUS
<1>3. [i \in 0 .. Len(q) |-> f[i]] = [i \in 0 .. Len(q) |-> g[i]]
  BY <1>1, Zenon
<1>4. f = g
  BY <1>2, <1>3
<1> QED
  BY <1>4 DEF Reads

LEMMA ReadsOnce ==
  ASSUME NEW f, NEW g, NEW h, NEW q, Len(q) \in Nat, Reads(f, h, q), Reads(g, h, q)
  PROVE  f = g
<1>1. /\ f[0] = h /\ g[0] = h
      /\ \A i \in 1 .. Len(q) : f[i] = Applied(f[i - 1], q[i]) /\ g[i] = Applied(g[i - 1], q[i])
      /\ f = [i \in 0 .. Len(q) |-> f[i]] /\ g = [i \in 0 .. Len(q) |-> g[i]]
  BY ReadsSteps
<1> DEFINE D == {i \in 0 .. Len(q) : f[i] # g[i]}
<1>2. D = {}
  <2> SUFFICES ASSUME D # {}
               PROVE  FALSE
    OBVIOUS
  <2>1. D \in SUBSET Nat
    OBVIOUS
  <2>2. PICK n \in D : \A i \in D : n <= i
    BY <2>1, MinExists
  <2>3. n # 0 /\ n \in 1 .. Len(q) /\ n - 1 \in 0 .. Len(q)
    BY <1>1
  <2>4. n - 1 \notin D
    BY <2>2, <2>3
  <2>5. f[n - 1] = g[n - 1]
    BY <2>3, <2>4
  <2>6. f[n] = g[n]
    BY <1>1, <2>3, <2>5
  <2> QED
    BY <2>6
<1>3. \A i \in 0 .. Len(q) : f[i] = g[i]
  BY <1>2
<1>4. [i \in 0 .. Len(q) |-> f[i]] = [i \in 0 .. Len(q) |-> g[i]]
  BY <1>3, Zenon
<1> QED
  BY <1>1, <1>4

LEMMA AfterReads ==
  ASSUME NEW g, NEW h, NEW q, Len(q) \in Nat, Reads(g, h, q)
  PROVE  After(h, q) = g[Len(q)]
<1> DEFINE f == CHOOSE f : Reads(f, h, q)
<1>1. \A k : Reads(k, h, q) => k = g
  BY ReadsOnce
<1>2. f = g
  BY <1>1, Zenon
<1>3. After(h, q) = f[Len(q)]
  BY DEF After, Reads
<1> QED
  BY <1>2, <1>3

\* The hashes with those of one more packet.
LEMMA ReadsMore ==
  ASSUME NEW g, NEW h, NEW q, NEW p, NEW m, Len(q) \in Nat, Reads(g, h, q),
         Len(p) = Len(q) + 1, \A i \in 1 .. Len(q) : p[i] = q[i], p[Len(p)] = m
  PROVE  \E f : Reads(f, h, p) /\ f[Len(p)] = Applied(g[Len(q)], m)
<1> DEFINE f == [i \in 0 .. Len(p) |-> IF i = Len(p) THEN Applied(g[Len(q)], m) ELSE g[i]]
<1>1. /\ g[0] = h
      /\ \A i \in 1 .. Len(q) : g[i] = Applied(g[i - 1], q[i])
  BY ReadsSteps
<1>2. /\ f = [i \in 0 .. Len(p) |-> f[i]]
      /\ f[Len(p)] = Applied(g[Len(q)], m)
      /\ \A i \in 0 .. Len(q) : f[i] = g[i]
  OBVIOUS
<1> HIDE DEF f
<1>3. f[0] = h
  BY <1>1, <1>2
<1>4. ASSUME NEW i \in 1 .. Len(p)
      PROVE  f[i] = Applied(f[i - 1], p[i])
  <2>1. CASE i = Len(p)
    <3>1. i - 1 = Len(q) /\ i - 1 \in 0 .. Len(q)
      BY <2>1
    <3> QED
      BY <1>2, <2>1, <3>1
  <2>2. CASE i # Len(p)
    <3>1. i \in 1 .. Len(q) /\ i \in 0 .. Len(q) /\ i - 1 \in 0 .. Len(q)
      BY <2>2
    <3> QED
      BY <1>1, <1>2, <3>1
  <2> QED
    BY <2>1, <2>2
<1>5. Reads(f, h, p)
  BY <1>2, <1>3, <1>4, StepsRead
<1> QED
  BY <1>2, <1>5

LEMMA ReadsExist ==
  ASSUME NEW M, NEW h, NEW q \in Seq(M)
  PROVE  \E g : Reads(g, h, q)
<1>1. Len(q) \in Nat
  OBVIOUS
<1> DEFINE UpTo(n) == SubSeq(q, 1, n)
           D == {n \in 0 .. Len(q) : ~\E g : Reads(g, h, UpTo(n))}
<1>2. ASSUME NEW n \in 0 .. Len(q)
      PROVE  Len(UpTo(n)) = n /\ \A i \in 1 .. n : UpTo(n)[i] = q[i]
  BY <1>1
<1>3. D = {}
  <2> SUFFICES ASSUME D # {}
               PROVE  FALSE
    OBVIOUS
  <2>1. D \in SUBSET Nat
    BY <1>1
  <2>2. PICK n \in D : \A i \in D : n <= i
    BY <2>1, MinExists
  <2>3. n \in 0 .. Len(q) /\ ~\E g : Reads(g, h, UpTo(n))
    BY <2>2
  <2> HIDE DEF D
  <2>4. CASE n = 0
    <3> DEFINE g == [i \in 0 .. 0 |-> h]
    <3>1. Len(UpTo(n)) = 0
      BY <1>2, <2>3, <2>4
    <3>2. g = [i \in 0 .. 0 |-> g[i]] /\ g[0] = h
      OBVIOUS
    <3> HIDE DEF g, UpTo
    <3>3. Len(UpTo(n)) \in Nat /\ g = [i \in 0 .. Len(UpTo(n)) |-> g[i]]
      BY <3>1, <3>2
    <3>4. \A i \in 1 .. Len(UpTo(n)) : FALSE
      BY <3>1
    <3>5. Reads(g, h, UpTo(n))
      BY <3>2, <3>3, <3>4, StepsRead
    <3> QED
      BY <2>3, <3>5
  <2>5. CASE n # 0
    <3>1. n - 1 \in 0 .. Len(q) /\ ~(n <= n - 1)
      BY <1>1, <2>3, <2>5
    <3>2. n - 1 \notin D
      BY <2>2, <3>1
    <3>3. PICK g : Reads(g, h, UpTo(n - 1))
      BY <3>1, <3>2 DEF D
    <3>4. /\ Len(UpTo(n - 1)) = n - 1 /\ Len(UpTo(n)) = n
          /\ \A i \in 1 .. n - 1 : UpTo(n)[i] = UpTo(n - 1)[i]
      BY <1>2, <2>3, <3>1
    <3>5. n - 1 \in Nat /\ n = (n - 1) + 1
      BY <2>3, <3>1
    <3> HIDE DEF UpTo
    <3>6. \E f : Reads(f, h, UpTo(n))
      BY <3>3, <3>4, <3>5, ReadsMore
    <3> QED
      BY <2>3, <3>6
  <2> QED
    BY <2>4, <2>5
<1>4. Len(q) \in 0 .. Len(q) /\ UpTo(Len(q)) = q
  BY <1>1
<1> QED
  BY <1>3, <1>4

LEMMA AfterNone ==
  ASSUME NEW h
  PROVE  After(h, <<>>) = h
<1> DEFINE q == <<>>
<1>1. Len(q) = 0 /\ q \in Seq({})
  OBVIOUS
<1> HIDE DEF q
<1>2. PICK g : Reads(g, h, q)
  BY <1>1, ReadsExist
<1>3. g[0] = h /\ After(h, q) = g[0]
  BY <1>1, <1>2, ReadsSteps, AfterReads
<1> QED
  BY <1>3 DEF q

LEMMA AfterAppend ==
  ASSUME NEW M, NEW h, NEW q \in Seq(M), NEW m \in M
  PROVE  After(h, Append(q, m)) = Applied(After(h, q), m)
<1> DEFINE p == Append(q, m)
<1>1. /\ Len(q) \in Nat /\ Len(p) = Len(q) + 1
      /\ \A i \in 1 .. Len(q) : p[i] = q[i]
      /\ p[Len(p)] = m
  OBVIOUS
<1> HIDE DEF p
<1>2. PICK g : Reads(g, h, q)
  BY ReadsExist
<1>3. PICK f : Reads(f, h, p) /\ f[Len(p)] = Applied(g[Len(q)], m)
  BY <1>1, <1>2, ReadsMore
<1>4. After(h, q) = g[Len(q)] /\ After(h, p) = f[Len(p)]
  BY <1>1, <1>2, <1>3, AfterReads
<1> QED
  BY <1>3, <1>4 DEF p

LEMMA AfterTail ==
  ASSUME NEW M, NEW h, NEW q \in Seq(M), q # <<>>
  PROVE  After(Applied(h, Head(q)), Tail(q)) = After(h, q)
<1> DEFINE p == Tail(q)
           k == Applied(h, Head(q))
<1>1. /\ Len(q) \in Nat /\ Len(p) = Len(q) - 1 /\ Len(p) \in Nat
      /\ \A i \in 1 .. Len(p) : p[i] = q[i + 1]
      /\ Head(q) = q[1]
  OBVIOUS
<1> HIDE DEF p
<1>2. PICK g : Reads(g, h, q)
  BY ReadsExist
<1>3. /\ g[0] = h
      /\ \A i \in 1 .. Len(q) : g[i] = Applied(g[i - 1], q[i])
  BY <1>1, <1>2, ReadsSteps
<1> DEFINE f == [i \in 0 .. Len(p) |-> g[i + 1]]
<1>4. f = [i \in 0 .. Len(p) |-> f[i]] /\ \A i \in 0 .. Len(p) : f[i] = g[i + 1]
  OBVIOUS
<1> HIDE DEF f
<1>5. f[0] = k
  <2>1. 0 \in 0 .. Len(p) /\ 1 \in 1 .. Len(q)
    BY <1>1
  <2>2. f[0] = g[1] /\ g[1] = Applied(g[0], q[1])
    BY <1>3, <1>4, <2>1
  <2> QED
    BY <1>1, <1>3, <2>2
<1>6. ASSUME NEW i \in 1 .. Len(p)
      PROVE  f[i] = Applied(f[i - 1], p[i])
  <2>1. i \in 0 .. Len(p) /\ i - 1 \in 0 .. Len(p) /\ i + 1 \in 1 .. Len(q)
        /\ (i + 1) - 1 = i /\ (i - 1) + 1 = i
    BY <1>1
  <2>2. f[i] = g[i + 1] /\ f[i - 1] = g[i] /\ p[i] = q[i + 1]
    BY <1>1, <1>4, <2>1
  <2>3. g[i + 1] = Applied(g[i], q[i + 1])
    BY <1>3, <2>1
  <2> QED
    BY <2>2, <2>3
<1>7. Reads(f, k, p)
  BY <1>1, <1>4, <1>5, <1>6, StepsRead
<1>8. After(k, p) = f[Len(p)] /\ After(h, q) = g[Len(q)]
  BY <1>1, <1>2, <1>7, AfterReads
<1>9. f[Len(p)] = g[Len(q)]
  BY <1>1, <1>4
<1> QED
  BY <1>8, <1>9 DEF p

-----------------------------------------------------------------------------
(***************************************************************************)
(* Entries of a hash.                                                      *)
(***************************************************************************)

LEMMA SameSize ==
  ASSUME NEW A, NEW B, IsFiniteSet(A), NEW f \in [A -> B],
         \A x, y \in A : f[x] = f[y] => x = y,
         \A y \in B : \E x \in A : f[x] = y
  PROVE  IsFiniteSet(B) /\ Cardinality(B) = Cardinality(A)
<1>1. f \in Injection(A, B)
  BY DEF Injection, IsInjective
<1>2. f \in Surjection(A, B)
  BY DEF Surjection
<1>3. ExistsBijection(A, B)
  BY <1>1, <1>2 DEF ExistsBijection, Bijection
<1> QED
  BY <1>3, FS_Bijection

Places(s, u) == {i \in DOMAIN s : s[i].user = u}

LEMMA PlacesFinite ==
  ASSUME NEW s \in Seq(Entry), NEW u
  PROVE  /\ IsFiniteSet(Places(s, u)) /\ Count(s, u) = Cardinality(Places(s, u))
         /\ Count(s, u) \in Nat
         /\ Count(s, u) = 0 <=> \A e \in Entries(s) : e.user # u
<1>1. Len(s) \in Nat /\ DOMAIN s = 1 .. Len(s)
  OBVIOUS
<1>2. IsFiniteSet(1 .. Len(s)) /\ Places(s, u) \in SUBSET (1 .. Len(s))
  BY <1>1, FS_Interval DEF Places
<1>3. IsFiniteSet(Places(s, u)) /\ Cardinality(Places(s, u)) \in Nat
  BY <1>2, FS_Subset, FS_CardinalityType
<1>4. Count(s, u) = Cardinality(Places(s, u))
  BY DEF Count, Places
<1>5. Cardinality(Places(s, u)) = 0 <=> Places(s, u) = {}
  BY <1>3, FS_EmptySet
<1>6. Places(s, u) = {} <=> \A e \in Entries(s) : e.user # u
  BY DEF Places, Entries
<1> QED
  BY <1>3, <1>4, <1>5, <1>6

LEMMA PutCounts ==
  ASSUME NEW s \in Seq(Entry), NEW m, m.user \in Users, m.addr \in Addrs
  PROVE  /\ Put(s, m) \in Seq(Entry)
         /\ Entries(Put(s, m)) = Entries(s) \cup {[user |-> m.user, addr |-> m.addr]}
         /\ \A u : Count(Put(s, m), u) = Count(s, u) + (IF u = m.user THEN 1 ELSE 0)
<1> DEFINE e == [user |-> m.user, addr |-> m.addr]
           t == Put(s, m)
<1>1. e \in Entry /\ e.user = m.user
  BY Zenon DEF Entry
<1> HIDE DEF e
<1>2. <<e>> \in Seq(Entry) /\ Len(<<e>>) = 1 /\ <<e>>[1] = e
  BY <1>1
<1>3. Len(s) \in Nat /\ DOMAIN s = 1 .. Len(s)
  OBVIOUS
<1>4. t = <<e>> \o s
  BY DEF Put, e
<1> HIDE DEF t
<1>5. /\ t \in Seq(Entry) /\ Len(t) = Len(s) + 1 /\ DOMAIN t = 1 .. Len(s) + 1
      /\ t[1] = e /\ \A i \in 1 .. Len(s) : t[i + 1] = s[i]
  BY <1>2, <1>3, <1>4
<1>6. Entries(t) = Entries(s) \cup {e}
  <2>1. ASSUME NEW x \in Entries(t)
        PROVE  x \in Entries(s) \cup {e}
    <3>1. PICK i \in 1 .. Len(s) + 1 : x = t[i]
      BY <1>5 DEF Entries
    <3>2. CASE i = 1
      BY <1>5, <3>1, <3>2
    <3>3. CASE i # 1
      <4>1. i - 1 \in 1 .. Len(s) /\ (i - 1) + 1 = i
        BY <1>3, <3>3
      <4> QED
        BY <1>3, <1>5, <3>1, <4>1 DEF Entries
    <3> QED
      BY <3>2, <3>3
  <2>2. ASSUME NEW x \in Entries(s)
        PROVE  x \in Entries(t)
    <3>1. PICK i \in 1 .. Len(s) : x = s[i]
      BY <1>3 DEF Entries
    <3>2. i + 1 \in DOMAIN t /\ t[i + 1] = x
      BY <1>3, <1>5, <3>1
    <3> QED
      BY <3>2 DEF Entries
  <2>3. e \in Entries(t)
    <3>1. 1 \in DOMAIN t
      BY <1>3, <1>5
    <3> QED
      BY <1>5, <3>1 DEF Entries
  <2> QED
    BY <2>1, <2>2, <2>3
<1>7. ASSUME NEW u
      PROVE  Count(t, u) = Count(s, u) + (IF u = m.user THEN 1 ELSE 0)
  <2> DEFINE A == Places(s, u)
             B == {i \in Places(t, u) : i # 1}
             f == [i \in A |-> i + 1]
  <2>1. f \in [A -> B]
    BY <1>3, <1>5 DEF Places
  <2>2. \A x, y \in A : f[x] = f[y] => x = y
    BY <1>3 DEF Places
  <2>3. ASSUME NEW y \in B
        PROVE  \E x \in A : f[x] = y
    <3>1. y \in 1 .. Len(s) + 1 /\ y # 1 /\ t[y].user = u
      BY <1>5 DEF Places
    <3>2. y - 1 \in 1 .. Len(s) /\ (y - 1) + 1 = y
      BY <1>3, <3>1
    <3>3. y - 1 \in A
      BY <1>3, <1>5, <3>1, <3>2 DEF Places
    <3> QED
      BY <3>2, <3>3
  <2> HIDE DEF f
  <2>4. /\ IsFiniteSet(A) /\ Count(s, u) = Cardinality(A) /\ Cardinality(A) \in Nat
        /\ Count(t, u) = Cardinality(Places(t, u))
    BY <1>5, PlacesFinite
  <2>5. IsFiniteSet(B) /\ Cardinality(B) = Cardinality(A)
    <3> HIDE DEF A, B
    <3> QED
      BY <2>1, <2>2, <2>3, <2>4, SameSize
  <2>6. CASE u = m.user
    <3>1. Places(t, u) = B \cup {1} /\ 1 \notin B
      BY <1>1, <1>3, <1>5, <2>6 DEF Places
    <3>2. Cardinality(B \cup {1}) = Cardinality(B) + 1
      <4> HIDE DEF B
      <4> QED
        BY <2>5, <3>1, FS_AddElement
    <3> HIDE DEF A, B
    <3> QED
      BY <2>4, <2>5, <2>6, <3>1, <3>2
  <2>7. CASE u # m.user
    <3>1. Places(t, u) = B
      BY <1>1, <1>5, <2>7 DEF Places
    <3> HIDE DEF A, B
    <3> QED
      BY <2>4, <2>5, <2>7, <3>1
  <2> QED
    BY <2>6, <2>7
<1> QED
  BY <1>5, <1>6, <1>7 DEF t, e

\* The first entry of a name goes, if there is one.
LEMMA RemoveTakesFirst ==
  ASSUME NEW s \in Seq(Entry), NEW u
  PROVE  /\ Count(s, u) = 0 => RemoveByName(s, u) = s
         /\ Count(s, u) # 0 =>
              \E i \in 1 .. Len(s) : s[i].user = u /\ RemoveByName(s, u) = RemoveAt(s, i)
<1>1. Len(s) \in Nat /\ DOMAIN s = 1 .. Len(s)
  OBVIOUS
<1> DEFINE I == {i \in 1 .. Len(s) : s[i].user = u}
<1>2. I = {} <=> Count(s, u) = 0
  BY <1>1, PlacesFinite DEF Entries
<1>3. RemoveByName(s, u) = IF I # {} THEN RemoveAt(s, Min(I)) ELSE s
  BY DEF RemoveByName, RemoveFirstMatch, SelectInSeq
<1>4. CASE I = {}
  BY <1>2, <1>3, <1>4
<1>5. CASE I # {}
  <2>1. I \in SUBSET Nat
    OBVIOUS
  <2>2. Min(I) \in I
    BY <1>5, <2>1, MinExists
  <2> QED
    BY <1>2, <1>3, <1>5, <2>2
<1> QED
  BY <1>4, <1>5

LEMMA RemoveCounts ==
  ASSUME NEW s \in Seq(Entry), NEW u, Count(s, u) # 0
  PROVE  /\ RemoveByName(s, u) \in Seq(Entry)
         /\ Entries(RemoveByName(s, u)) \subseteq Entries(s)
         /\ \A e \in Entries(s) : e.user # u => e \in Entries(RemoveByName(s, u))
         /\ \A v : Count(RemoveByName(s, u), v) = Count(s, v) - (IF v = u THEN 1 ELSE 0)
<1>1. PICK i \in 1 .. Len(s) : s[i].user = u /\ RemoveByName(s, u) = RemoveAt(s, i)
  BY RemoveTakesFirst
<1> DEFINE t == RemoveAt(s, i)
<1>2. Len(s) \in Nat /\ DOMAIN s = 1 .. Len(s)
  OBVIOUS
<1>3. /\ t \in Seq(Entry) /\ Len(t) = Len(s) - 1 /\ DOMAIN t = 1 .. Len(s) - 1
      /\ \A k \in 1 .. Len(s) - 1 : t[k] = IF k < i THEN s[k] ELSE s[k + 1]
  BY RemoveAtSeq
<1> HIDE DEF t
<1>4. Entries(t) \subseteq Entries(s)
  <2> SUFFICES ASSUME NEW k \in 1 .. Len(s) - 1
               PROVE  t[k] \in Entries(s)
    BY <1>3 DEF Entries
  <2>1. k \in DOMAIN s /\ k + 1 \in DOMAIN s
    BY <1>2
  <2> QED
    BY <1>3, <2>1 DEF Entries
<1>5. ASSUME NEW e \in Entries(s), e.user # u
      PROVE  e \in Entries(t)
  <2>1. PICK k \in 1 .. Len(s) : e = s[k]
    BY <1>2 DEF Entries
  <2>2. k # i
    BY <1>1, <1>5, <2>1
  <2>3. CASE k < i
    <3>1. k \in 1 .. Len(s) - 1
      BY <1>2, <2>3
    <3> QED
      BY <1>3, <2>1, <2>3, <3>1 DEF Entries
  <2>4. CASE k > i
    <3>1. k - 1 \in 1 .. Len(s) - 1 /\ ~(k - 1 < i) /\ (k - 1) + 1 = k
      BY <1>2, <2>4
    <3> QED
      BY <1>3, <2>1, <3>1 DEF Entries
  <2> QED
    BY <1>2, <2>2, <2>3, <2>4
<1>6. ASSUME NEW v
      PROVE  Count(t, v) = Count(s, v) - (IF v = u THEN 1 ELSE 0)
  <2> DEFINE A == Places(t, v)
             B == Places(s, v) \ {i}
             f == [k \in A |-> IF k < i THEN k ELSE k + 1]
  <2>1. ASSUME NEW k \in A
        PROVE  f[k] \in B
    <3>1. k \in 1 .. Len(s) - 1 /\ t[k].user = v
      BY <1>3 DEF Places
    <3>2. f[k] \in 1 .. Len(s) /\ f[k] # i /\ s[f[k]] = t[k]
      BY <1>2, <1>3, <3>1
    <3> QED
      BY <1>2, <3>1, <3>2 DEF Places
  <2>2. f \in [A -> B]
    BY <2>1
  <2>3. \A x, y \in A : f[x] = f[y] => x = y
    <3>1. \A x \in A : x \in Int
      BY <1>2, <1>3 DEF Places
    <3> QED
      BY <3>1
  <2>4. ASSUME NEW y \in B
        PROVE  \E x \in A : f[x] = y
    <3>1. y \in 1 .. Len(s) /\ y # i /\ s[y].user = v
      BY <1>2 DEF Places
    <3>2. CASE y < i
      <4>1. y \in 1 .. Len(s) - 1 /\ t[y] = s[y]
        BY <1>2, <1>3, <3>1, <3>2
      <4>2. y \in A /\ f[y] = y
        BY <1>3, <3>1, <3>2, <4>1 DEF Places
      <4> QED
        BY <4>2
    <3>3. CASE y > i
      <4>1. y - 1 \in 1 .. Len(s) - 1 /\ ~(y - 1 < i) /\ (y - 1) + 1 = y
        BY <1>2, <3>1, <3>3
      <4>2. t[y - 1] = s[y]
        BY <1>3, <4>1
      <4>3. y - 1 \in A /\ f[y - 1] = y
        BY <1>3, <3>1, <4>1, <4>2 DEF Places
      <4> QED
        BY <4>3
    <3> QED
      BY <1>2, <3>1, <3>2, <3>3
  <2> HIDE DEF f
  <2>5. /\ IsFiniteSet(A) /\ Count(t, v) = Cardinality(A) /\ Cardinality(A) \in Nat
        /\ Count(s, v) = Cardinality(Places(s, v)) /\ IsFiniteSet(Places(s, v))
        /\ Count(s, v) \in Nat
    BY <1>3, PlacesFinite
  <2>6. Cardinality(B) = Cardinality(A)
    <3> HIDE DEF A, B
    <3> QED
      BY <2>2, <2>3, <2>4, <2>5, SameSize
  <2>7. Cardinality(B) = IF i \in Places(s, v) THEN Count(s, v) - 1 ELSE Count(s, v)
    BY <2>5, FS_RemoveElement
  <2>8. i \in Places(s, v) <=> v = u
    BY <1>1, <1>2 DEF Places
  <2> QED
    BY <2>5, <2>6, <2>7, <2>8
<1> QED
  BY <1>1, <1>3, <1>4, <1>5, <1>6 DEF t

-----------------------------------------------------------------------------
(***************************************************************************)
(* The two directories agree.                                              *)
(***************************************************************************)

Homes(o, u) == {a \in DOMAIN o : o[a] = u}
Listed(o) == {[user |-> o[a], addr |-> a] : a \in DOMAIN o}

\* Hash h is that of the sessions o; once says that no user was ever at two
\* addresses.
Agree(h, o, once) ==
  /\ h \in Seq(Entry)
  /\ \A u \in Users : Count(h, u) = Cardinality(Homes(o, u))
  /\ once => Entries(h) = Listed(o) /\ \A a, b \in DOMAIN o : o[a] = o[b] => a = b

Typed ==
  /\ DOMAIN online \subseteq Addrs /\ IsFiniteSet(DOMAIN online)
  /\ online \in [DOMAIN online -> Users]
  /\ toLinqd \in Seq(Message) /\ Len(toLinqd) <= Capacity
  /\ hash \in Seq(Entry)
  /\ toC2s \in Seq(Entry) /\ Len(toC2s) <= MaxReplies
  /\ logins \in 0 .. MaxLogins
  /\ {twice, overflowed, reused, misrouted} \subseteq BOOLEAN
  /\ owners \in [Addrs -> SUBSET Users]

AgreeInv == Typed /\ (~overflowed => Agree(Coming, online, ~twice))

LEMMA HomesFinite ==
  ASSUME NEW o, IsFiniteSet(DOMAIN o), NEW u
  PROVE  IsFiniteSet(Homes(o, u)) /\ Cardinality(Homes(o, u)) \in Nat
<1>1. Homes(o, u) \in SUBSET DOMAIN o
  BY DEF Homes
<1> QED
  BY <1>1, FS_Subset, FS_CardinalityType

\* A session begins.
LEMMA AgreeBegins ==
  ASSUME NEW h, NEW o, NEW once \in BOOLEAN, NEW a \in Addrs, NEW u \in Users, NEW m,
         Agree(h, o, once), IsFiniteSet(DOMAIN o), a \notin DOMAIN o,
         m.user = u, m.addr = a, once => \A b \in DOMAIN o : o[b] # u
  PROVE  Agree(Put(h, m), [b \in DOMAIN o \cup {a} |-> IF b = a THEN u ELSE o[b]], once)
<1> DEFINE p == [b \in DOMAIN o \cup {a} |-> IF b = a THEN u ELSE o[b]]
<1>1. /\ DOMAIN p = DOMAIN o \cup {a} /\ p[a] = u
      /\ \A b \in DOMAIN o : p[b] = o[b]
  OBVIOUS
<1> HIDE DEF p
<1>2. /\ h \in Seq(Entry)
      /\ \A v \in Users : Count(h, v) = Cardinality(Homes(o, v))
      /\ once => Entries(h) = Listed(o) /\ \A b, c \in DOMAIN o : o[b] = o[c] => b = c
  BY DEF Agree
<1>3. /\ Put(h, m) \in Seq(Entry)
      /\ Entries(Put(h, m)) = Entries(h) \cup {[user |-> u, addr |-> a]}
      /\ \A v : Count(Put(h, m), v) = Count(h, v) + (IF v = u THEN 1 ELSE 0)
  BY <1>2, PutCounts
<1>4. ASSUME NEW v \in Users
      PROVE  Count(Put(h, m), v) = Cardinality(Homes(p, v))
  <2>1. IsFiniteSet(Homes(o, v)) /\ Cardinality(Homes(o, v)) \in Nat
    BY HomesFinite
  <2>2. CASE v = u
    <3>1. Homes(p, v) = Homes(o, v) \cup {a} /\ a \notin Homes(o, v)
      BY <1>1, <2>2 DEF Homes
    <3>2. Cardinality(Homes(o, v) \cup {a}) = Cardinality(Homes(o, v)) + 1
      BY <2>1, <3>1, FS_AddElement
    <3> QED
      BY <1>2, <1>3, <2>2, <3>1, <3>2
  <2>3. CASE v # u
    <3>1. Homes(p, v) = Homes(o, v)
      BY <1>1, <2>3 DEF Homes
    <3> QED
      BY <1>2, <1>3, <2>1, <2>3, <3>1
  <2> QED
    BY <2>2, <2>3
<1>5. Listed(p) = Listed(o) \cup {[user |-> u, addr |-> a]}
  BY <1>1 DEF Listed
<1>6. once => \A b, c \in DOMAIN p : p[b] = p[c] => b = c
  BY <1>1, <1>2
<1> QED
  BY <1>2, <1>3, <1>4, <1>5, <1>6 DEF Agree, p

\* A session ends: linqd removes the entry that it finds first, which is the right
\* one if there is only one.
LEMMA AgreeEnds ==
  ASSUME NEW h, NEW o, NEW once \in BOOLEAN, NEW a \in DOMAIN o,
         Agree(h, o, once), IsFiniteSet(DOMAIN o), o \in [DOMAIN o -> Users]
  PROVE  Agree(RemoveByName(h, o[a]), Restrict(o, DOMAIN o \ {a}), once)
<1> DEFINE p == Restrict(o, DOMAIN o \ {a})
           u == o[a]
           r == RemoveByName(h, u)
<1>1. /\ DOMAIN p = DOMAIN o \ {a}
      /\ \A b \in DOMAIN p : p[b] = o[b]
  BY DEF Restrict
<1> HIDE DEF p
<1>2. /\ h \in Seq(Entry)
      /\ \A v \in Users : Count(h, v) = Cardinality(Homes(o, v))
      /\ once => Entries(h) = Listed(o) /\ \A b, c \in DOMAIN o : o[b] = o[c] => b = c
  BY DEF Agree
<1>3. u \in Users /\ a \in Homes(o, u)
  BY DEF Homes
<1> HIDE DEF u
<1>4. /\ \A v : IsFiniteSet(Homes(o, v)) /\ Cardinality(Homes(o, v)) \in Nat
  BY HomesFinite
<1>5. Cardinality(Homes(o, u)) # 0
  BY <1>3, <1>4, FS_EmptySet
<1>6. /\ r \in Seq(Entry)
      /\ Entries(r) \subseteq Entries(h)
      /\ \A e \in Entries(h) : e.user # u => e \in Entries(r)
      /\ \A v : Count(r, v) = Count(h, v) - (IF v = u THEN 1 ELSE 0)
  BY <1>2, <1>3, <1>5, RemoveCounts
<1> HIDE DEF r
<1>7. Cardinality(Homes(p, u)) = Cardinality(Homes(o, u)) - 1
  <2>1. Homes(p, u) = Homes(o, u) \ {a}
    BY <1>1 DEF Homes
  <2>2. Cardinality(Homes(o, u) \ {a}) = Cardinality(Homes(o, u)) - 1
    BY <1>3, <1>4, FS_RemoveElement
  <2> QED
    BY <2>1, <2>2
<1>8. ASSUME NEW v \in Users
      PROVE  Count(r, v) = Cardinality(Homes(p, v))
  <2>1. CASE v = u
    BY <1>2, <1>6, <1>7, <2>1
  <2>2. CASE v # u
    <3>1. Homes(p, v) = Homes(o, v)
      BY <1>1, <2>2 DEF Homes, u
    <3> QED
      BY <1>2, <1>4, <1>6, <2>2, <3>1
  <2> QED
    BY <2>1, <2>2
<1>9. ASSUME once
      PROVE  Entries(r) = Listed(p)
  <2>1. Homes(p, u) = {}
    BY <1>1, <1>2, <1>3, <1>9 DEF Homes
  <2>2. Count(r, u) = 0
    BY <1>3, <1>8, <2>1, FS_EmptySet
  <2>3. \A e \in Entries(r) : e.user # u
    BY <1>6, <2>2, PlacesFinite
  <2>4. Entries(r) = {e \in Entries(h) : e.user # u}
    BY <1>6, <2>3
  <2>5. Entries(h) = Listed(o)
    BY <1>2, <1>9
  <2>6. ASSUME NEW e \in Listed(o), e.user # u
        PROVE  e \in Listed(p)
    <3>1. PICK b \in DOMAIN o : e = [user |-> o[b], addr |-> b]
      BY DEF Listed
    <3>2. b \in DOMAIN p /\ p[b] = o[b]
      BY <1>1, <2>6, <3>1 DEF u
    <3> QED
      BY <3>1, <3>2 DEF Listed
  <2>7. ASSUME NEW e \in Listed(p)
        PROVE  e \in Listed(o) /\ e.user # u
    <3>1. PICK b \in DOMAIN p : e = [user |-> p[b], addr |-> b]
      BY DEF Listed
    <3>2. b \in DOMAIN o /\ p[b] = o[b] /\ b # a
      BY <1>1, <3>1
    <3>3. o[b] # u
      BY <1>2, <1>9, <3>2 DEF u
    <3> QED
      BY <3>1, <3>2, <3>3 DEF Listed
  <2> QED
    BY <2>4, <2>5, <2>6, <2>7
<1>10. once => \A b, c \in DOMAIN p : p[b] = p[c] => b = c
  BY <1>1, <1>2
<1> QED
  BY <1>6, <1>8, <1>9, <1>10 DEF Agree, p, r, u

LEMMA MessageForms ==
  ASSUME NEW m \in Message
  PROVE  \/ m.cmd = "C2S_ADD_SESSION" /\ m.user \in Users /\ m.addr \in Addrs
         \/ m.cmd \in {"C2S_REMOVE_SESSION", "C2S_DELIVER"} /\ m.user \in Users
BY DEF Message

\* What linqd does with a packet keeps a hash a hash.
LEMMA AppliedTyped ==
  ASSUME NEW h \in Seq(Entry), NEW m \in Message
  PROVE  /\ Applied(h, m) \in Seq(Entry)
         /\ \A e \in Entries(Applied(h, m)) :
              \/ e \in Entries(h)
              \/ m.cmd = "C2S_ADD_SESSION" /\ e = [user |-> m.user, addr |-> m.addr]
<1>1. CASE m.cmd = "C2S_ADD_SESSION"
  <2>1. Applied(h, m) = Put(h, m) /\ m.user \in Users /\ m.addr \in Addrs
    BY <1>1, MessageForms DEF Applied
  <2> QED
    BY <1>1, <2>1, PutCounts
<1>2. CASE m.cmd = "C2S_REMOVE_SESSION"
  <2>1. Applied(h, m) = RemoveByName(h, m.user)
    BY <1>2 DEF Applied
  <2>2. CASE Count(h, m.user) = 0
    BY <2>1, <2>2, RemoveTakesFirst
  <2>3. CASE Count(h, m.user) # 0
    BY <2>1, <2>3, RemoveCounts
  <2> QED
    BY <2>2, <2>3
<1>3. CASE m.cmd \notin {"C2S_ADD_SESSION", "C2S_REMOVE_SESSION"}
  BY <1>3 DEF Applied
<1> QED
  BY <1>1, <1>2, <1>3

\* A packet that is sent is handled after those before it, unless it is dropped.
LEMMA SendPacketAgrees ==
  ASSUME NEW m \in Message, SendPacket(m), toLinqd \in Seq(Message), hash' = hash,
         Len(toLinqd) <= Capacity, overflowed \in BOOLEAN
  PROVE  /\ toLinqd' \in Seq(Message) /\ Len(toLinqd') <= Capacity /\ overflowed' \in BOOLEAN
         /\ \A i \in DOMAIN toLinqd' :
              toLinqd'[i] = m \/ \E j \in DOMAIN toLinqd : toLinqd'[i] = toLinqd[j]
         /\ ~overflowed' => ~overflowed /\ Coming' = Applied(Coming, m)
<1>1. CASE Len(toLinqd) < Capacity
  <2>1. toLinqd' = Append(toLinqd, m) /\ overflowed' = overflowed
    BY <1>1 DEF SendPacket
  <2>2. /\ toLinqd' \in Seq(Message) /\ Len(toLinqd') = Len(toLinqd) + 1
        /\ DOMAIN toLinqd' = 1 .. Len(toLinqd) + 1 /\ Len(toLinqd) \in Nat
        /\ DOMAIN toLinqd = 1 .. Len(toLinqd)
        /\ toLinqd'[Len(toLinqd) + 1] = m
        /\ \A i \in 1 .. Len(toLinqd) : toLinqd'[i] = toLinqd[i]
    BY <2>1
  <2>3. Len(toLinqd') <= Capacity
    BY <1>1, <2>2, DirectoryAssumption
  <2>4. Coming' = Applied(Coming, m)
    BY <2>1, AfterAppend DEF Coming
  <2>5. ASSUME NEW i \in DOMAIN toLinqd'
        PROVE  toLinqd'[i] = m \/ \E j \in DOMAIN toLinqd : toLinqd'[i] = toLinqd[j]
    <3>1. i = Len(toLinqd) + 1 \/ i \in 1 .. Len(toLinqd)
      BY <2>2
    <3> QED
      BY <2>2, <3>1
  <2> QED
    BY <2>1, <2>2, <2>3, <2>4, <2>5
<1>2. CASE ~(Len(toLinqd) < Capacity)
  BY <1>2 DEF SendPacket
<1> QED
  BY <1>1, <1>2

LEMMA AgreeInit == Init => AgreeInv
<1> SUFFICES ASSUME Init
             PROVE  AgreeInv
  OBVIOUS
<1>1. DOMAIN online = {} /\ IsFiniteSet(DOMAIN online)
  BY FS_EmptySet DEF Init
<1>2. Typed
  <2>1. online \in [DOMAIN online -> Users]
    BY <1>1 DEF Init
  <2>2. toLinqd \in Seq(Message) /\ hash \in Seq(Entry) /\ toC2s \in Seq(Entry)
        /\ Len(toLinqd) <= Capacity /\ Len(toC2s) <= MaxReplies
    BY DirectoryAssumption DEF Init
  <2>3. logins \in 0 .. MaxLogins
    BY DirectoryAssumption DEF Init
  <2>4. owners \in [Addrs -> SUBSET Users]
    BY DEF Init
  <2>5. {twice, overflowed, reused, misrouted} \subseteq BOOLEAN
    BY DEF Init
  <2> QED
    BY <1>1, <2>1, <2>2, <2>3, <2>4, <2>5 DEF Typed
<1>3. hash = <<>> /\ Coming = hash
  BY AfterNone DEF Init, Coming
<1>4. Entries(hash) = {} /\ Listed(online) = {} /\ \A u : Homes(online, u) = {}
  BY <1>1, <1>3 DEF Entries, Listed, Homes
<1>5. \A u : Count(hash, u) = 0
  BY <1>2, <1>4, PlacesFinite DEF Typed
<1>6. \A u : Cardinality(Homes(online, u)) = 0
  BY <1>4, FS_EmptySet
<1>7. Agree(Coming, online, ~twice)
  BY <1>1, <1>2, <1>3, <1>4, <1>5, <1>6 DEF Agree, Typed
<1> QED
  BY <1>2, <1>7 DEF AgreeInv

LEMMA AgreeLogin ==
  ASSUME AgreeInv, NEW a \in Addrs, NEW u \in Users, Login(a, u)
  PROVE  AgreeInv'
<1> DEFINE m == [cmd |-> "C2S_ADD_SESSION", user |-> u, addr |-> a]
<1>1. /\ a \notin DOMAIN online /\ logins < MaxLogins /\ logins' = logins + 1
      /\ online' = [b \in DOMAIN online \cup {a} |-> IF b = a THEN u ELSE online[b]]
      /\ SendPacket(m) /\ twice' = (twice \/ u \in Range(online))
      /\ reused' = (reused \/ owners[a] \ {u} # {})
      /\ owners' = [owners EXCEPT ![a] = @ \cup {u}]
      /\ UNCHANGED <<hash, toC2s, misrouted>>
  BY DEF Login
<1>2. m \in Message
  BY Zenon DEF Message
<1>3. m.user = u /\ m.addr = a /\ m.cmd = "C2S_ADD_SESSION"
  OBVIOUS
<1> HIDE DEF m
<1>4. Typed /\ (~overflowed => Agree(Coming, online, ~twice))
  BY DEF AgreeInv
<1>5. /\ toLinqd' \in Seq(Message) /\ Len(toLinqd') <= Capacity /\ overflowed' \in BOOLEAN
      /\ ~overflowed' => ~overflowed /\ Coming' = Applied(Coming, m)
  BY <1>1, <1>2, <1>4, SendPacketAgrees DEF Typed
<1>6. /\ DOMAIN online' = DOMAIN online \cup {a} /\ IsFiniteSet(DOMAIN online')
      /\ online' \in [DOMAIN online' -> Users]
  <2>1. DOMAIN online' = DOMAIN online \cup {a}
    BY <1>1
  <2>2. IsFiniteSet(DOMAIN online \cup {a})
    BY <1>4, FS_AddElement DEF Typed
  <2>3. online' \in [DOMAIN online' -> Users]
    BY <1>1, <1>4, <2>1 DEF Typed
  <2> QED
    BY <2>1, <2>2, <2>3
<1>7. logins' \in 0 .. MaxLogins
  BY <1>1, <1>4, DirectoryAssumption DEF Typed
<1>8. Typed'
  BY <1>1, <1>4, <1>5, <1>6, <1>7 DEF Typed
<1>9. ASSUME ~overflowed'
      PROVE  Agree(Coming', online', ~twice')
  <2>1. Agree(Coming, online, ~twice)
    BY <1>4, <1>5, <1>9
  <2>2. ~twice' => ~twice /\ \A b \in DOMAIN online : online[b] # u
    BY <1>1 DEF Range
  <2>3. Agree(Coming, online, ~twice')
    BY <2>1, <2>2 DEF Agree
  <2>4. (~twice') \in BOOLEAN
    OBVIOUS
  <2>5. Coming' = Put(Coming, m)
    BY <1>3, <1>5, <1>9 DEF Applied
  <2>6. Agree(Put(Coming, m),
              [b \in DOMAIN online \cup {a} |-> IF b = a THEN u ELSE online[b]], ~twice')
    <3> DEFINE once == ~twice'
    <3>1. once \in BOOLEAN /\ Agree(Coming, online, once)
          /\ (once => \A b \in DOMAIN online : online[b] # u)
      BY <2>2, <2>3, <2>4
    <3>2. IsFiniteSet(DOMAIN online) /\ a \notin DOMAIN online
      BY <1>1, <1>4 DEF Typed
    <3> HIDE DEF once
    <3>3. Agree(Put(Coming, m),
                [b \in DOMAIN online \cup {a} |-> IF b = a THEN u ELSE online[b]], once)
      BY <1>3, <3>1, <3>2, AgreeBegins
    <3> QED
      BY <3>3 DEF once
  <2> QED
    BY <1>1, <2>5, <2>6
<1> QED
  BY <1>8, <1>9 DEF AgreeInv

LEMMA AgreeEnd ==
  ASSUME AgreeInv, NEW a \in Addrs, End(a)
  PROVE  AgreeInv'
<1> DEFINE m == [cmd |-> "C2S_REMOVE_SESSION", user |-> online[a]]
<1>1. /\ a \in DOMAIN online
      /\ online' = Restrict(online, DOMAIN online \ {a})
      /\ SendPacket(m)
      /\ UNCHANGED <<hash, toC2s, logins, twice, reused, misrouted, owners>>
  BY DEF End
<1>2. Typed /\ (~overflowed => Agree(Coming, online, ~twice))
  BY DEF AgreeInv
<1>3. online[a] \in Users
  BY <1>1, <1>2 DEF Typed
<1>4. m \in Message
  BY <1>3, Zenon DEF Message
<1>5. m.user = online[a] /\ m.cmd = "C2S_REMOVE_SESSION"
  OBVIOUS
<1> HIDE DEF m
<1>6. /\ toLinqd' \in Seq(Message) /\ Len(toLinqd') <= Capacity /\ overflowed' \in BOOLEAN
      /\ ~overflowed' => ~overflowed /\ Coming' = Applied(Coming, m)
  BY <1>1, <1>2, <1>4, SendPacketAgrees DEF Typed
<1>7. /\ DOMAIN online' = DOMAIN online \ {a} /\ IsFiniteSet(DOMAIN online')
      /\ online' \in [DOMAIN online' -> Users]
  <2>1. DOMAIN online' = DOMAIN online \ {a}
    BY <1>1 DEF Restrict
  <2>2. IsFiniteSet(DOMAIN online \ {a})
    BY <1>2, FS_RemoveElement DEF Typed
  <2>3. online' \in [DOMAIN online' -> Users]
    BY <1>1, <1>2, <2>1 DEF Typed, Restrict
  <2> QED
    BY <2>1, <2>2, <2>3
<1>8. Typed'
  BY <1>1, <1>2, <1>6, <1>7 DEF Typed
<1>9. ASSUME ~overflowed'
      PROVE  Agree(Coming', online', ~twice')
  <2>1. Agree(Coming, online, ~twice)
    BY <1>2, <1>6, <1>9
  <2>2. Coming' = RemoveByName(Coming, online[a])
    BY <1>5, <1>6, <1>9 DEF Applied
  <2>3. (~twice) \in BOOLEAN
    OBVIOUS
  <2>4. Agree(RemoveByName(Coming, online[a]), Restrict(online, DOMAIN online \ {a}), ~twice)
    BY <1>1, <1>2, <2>1, <2>3, AgreeEnds DEF Typed
  <2> QED
    BY <1>1, <2>2, <2>4
<1> QED
  BY <1>8, <1>9 DEF AgreeInv

LEMMA AgreeForward ==
  ASSUME AgreeInv, NEW a \in Addrs, Forward(a)
  PROVE  AgreeInv'
<1> DEFINE m == [cmd |-> "C2S_DELIVER", user |-> online[a]]
<1>1. /\ a \in DOMAIN online /\ SendPacket(m)
      /\ UNCHANGED <<c2sVars, hash, toC2s, misrouted>>
  BY DEF Forward
<1>2. Typed /\ (~overflowed => Agree(Coming, online, ~twice))
  BY DEF AgreeInv
<1>3. online[a] \in Users
  BY <1>1, <1>2 DEF Typed
<1>4. m \in Message
  BY <1>3, Zenon DEF Message
<1>5. m.cmd = "C2S_DELIVER"
  OBVIOUS
<1> HIDE DEF m
<1>6. /\ toLinqd' \in Seq(Message) /\ Len(toLinqd') <= Capacity /\ overflowed' \in BOOLEAN
      /\ ~overflowed' => ~overflowed /\ Coming' = Applied(Coming, m)
  BY <1>1, <1>2, <1>4, SendPacketAgrees DEF Typed
<1>7. Typed'
  BY <1>1, <1>2, <1>6 DEF Typed, c2sVars
<1>8. Applied(Coming, m) = Coming
  BY <1>5 DEF Applied
<1> QED
  BY <1>1, <1>2, <1>6, <1>7, <1>8 DEF AgreeInv, c2sVars

LEMMA AgreeOnC2sPacket ==
  ASSUME AgreeInv, OnC2sPacket
  PROVE  AgreeInv'
<1>1. /\ toLinqd # <<>> /\ toLinqd' = Tail(toLinqd)
      /\ hash' = Applied(hash, Head(toLinqd))
      /\ UNCHANGED <<c2sVars, toC2s, overflowed, misrouted>>
  BY DEF OnC2sPacket
<1>2. Typed /\ (~overflowed => Agree(Coming, online, ~twice))
  BY DEF AgreeInv
<1>3. /\ toLinqd \in Seq(Message) /\ Head(toLinqd) \in Message
      /\ toLinqd' \in Seq(Message) /\ Len(toLinqd') <= Capacity
  BY <1>1, <1>2, DirectoryAssumption DEF Typed
<1>4. hash' \in Seq(Entry)
  BY <1>1, <1>2, <1>3, AppliedTyped DEF Typed
<1>5. Typed'
  BY <1>1, <1>2, <1>3, <1>4 DEF Typed, c2sVars
<1>6. Coming' = Coming
  BY <1>1, <1>3, AfterTail DEF Coming
<1> QED
  BY <1>1, <1>2, <1>5, <1>6 DEF AgreeInv, c2sVars

LEMMA AgreeRoute ==
  ASSUME AgreeInv, Route
  PROVE  AgreeInv'
<1>1. /\ toC2s # <<>> /\ toC2s' = Tail(toC2s)
      /\ misrouted' \in BOOLEAN
      /\ UNCHANGED <<c2sVars, toLinqd, hash, overflowed>>
  <2>1. Typed
    BY DEF AgreeInv
  <2> QED
    BY <2>1 DEF Route, Typed
<1>2. Typed /\ (~overflowed => Agree(Coming, online, ~twice))
  BY DEF AgreeInv
<1>3. toC2s' \in Seq(Entry) /\ Len(toC2s') <= MaxReplies
  BY <1>1, <1>2, DirectoryAssumption DEF Typed
<1>4. Typed'
  BY <1>1, <1>2, <1>3 DEF Typed, c2sVars
<1>5. Coming' = Coming
  BY <1>1 DEF Coming
<1> QED
  BY <1>1, <1>2, <1>4, <1>5 DEF AgreeInv, c2sVars

\* The packet that a module sends carries the address of an entry.
LEMMA DeliverAppends ==
  ASSUME Typed, NEW u, Deliver(u)
  PROVE  /\ \E e \in Entries(hash) : e \in Entry /\ toC2s' = Append(toC2s, e)
         /\ Len(toC2s) < MaxReplies
         /\ UNCHANGED <<c2sVars, toLinqd, hash, overflowed, misrouted>>
<1> DEFINE I == {i \in 1 .. Len(hash) : hash[i].user = u}
<1>1. hash \in Seq(Entry) /\ DOMAIN hash = 1 .. Len(hash)
  BY DEF Typed
<1>2. SelectInSeq(hash, LAMBDA e : e.user = u) = IF I # {} THEN Min(I) ELSE 0
  BY DEF SelectInSeq
<1>3. I # {} => Min(I) \in I
  <2>1. I \in SUBSET Nat
    OBVIOUS
  <2> QED
    BY <2>1, MinExists
<1>4. /\ I # {}
      /\ toC2s' = Append(toC2s, hash[Min(I)])
      /\ Len(toC2s) < MaxReplies
      /\ UNCHANGED <<c2sVars, toLinqd, hash, overflowed, misrouted>>
  BY <1>2 DEF Deliver
<1> DEFINE k == Min(I)
<1>5. k \in 1 .. Len(hash)
  BY <1>3, <1>4
<1>6. toC2s' = Append(toC2s, hash[k])
  BY <1>4
<1> HIDE DEF k
<1>7. hash[k] \in Entries(hash) /\ hash[k] \in Entry
  BY <1>1, <1>5 DEF Entries
<1> QED
  BY <1>4, <1>6, <1>7

LEMMA AgreeDeliver ==
  ASSUME AgreeInv, NEW u \in Users, Deliver(u)
  PROVE  AgreeInv'
<1>1. Typed /\ (~overflowed => Agree(Coming, online, ~twice))
  BY DEF AgreeInv
<1>2. /\ \E e \in Entries(hash) : e \in Entry /\ toC2s' = Append(toC2s, e)
      /\ Len(toC2s) < MaxReplies
      /\ UNCHANGED <<c2sVars, toLinqd, hash, overflowed, misrouted>>
  BY <1>1, DeliverAppends
<1>3. toC2s' \in Seq(Entry) /\ Len(toC2s') <= MaxReplies
  BY <1>1, <1>2, DirectoryAssumption DEF Typed
<1>4. Typed'
  BY <1>1, <1>2, <1>3 DEF Typed, c2sVars
<1>5. Coming' = Coming
  BY <1>2 DEF Coming
<1> QED
  BY <1>1, <1>2, <1>4, <1>5 DEF AgreeInv, c2sVars

LEMMA AgreeNext == AgreeInv /\ [Next]_vars => AgreeInv'
<1> SUFFICES ASSUME AgreeInv, [Next]_vars
             PROVE  AgreeInv'
  OBVIOUS
<1>1. CASE \E a \in Addrs : \E u \in Users : Login(a, u)
  BY <1>1, AgreeLogin
<1>2. CASE \E a \in Addrs : End(a)
  BY <1>2, AgreeEnd
<1>3. CASE \E a \in Addrs : Forward(a)
  BY <1>3, AgreeForward
<1>4. CASE Route
  BY <1>4, AgreeRoute
<1>5. CASE OnC2sPacket
  BY <1>5, AgreeOnC2sPacket
<1>6. CASE \E u \in Users : Deliver(u)
  BY <1>6, AgreeDeliver
<1>7. CASE UNCHANGED vars
  <2>1. Coming' = Coming
    BY <1>7 DEF vars, Coming
  <2>2. Typed'
    BY <1>7 DEF vars, c2sVars, AgreeInv, Typed
  <2> QED
    BY <1>7, <2>1, <2>2 DEF vars, c2sVars, AgreeInv
<1> QED
  BY <1>1, <1>2, <1>3, <1>4, <1>5, <1>6, <1>7 DEF Next

LEMMA AgreeImplies == AgreeInv => DirectoriesAgree
<1> SUFFICES ASSUME AgreeInv
             PROVE  DirectoriesAgree
  OBVIOUS
<1>1. Typed /\ (~overflowed => Agree(Coming, online, ~twice))
  BY DEF AgreeInv
<1>2. TypeOK
  <2>1. online \in UNION {[A -> Users] : A \in SUBSET Addrs}
    BY <1>1 DEF Typed
  <2> QED
    BY <1>1, <2>1 DEF Typed, TypeOK
<1>3. ~overflowed => \A u \in Users :
        Count(Coming, u) = Cardinality({a \in DOMAIN online : online[a] = u})
  BY <1>1 DEF Agree, Homes
<1>4. ~overflowed /\ ~twice =>
        Entries(Coming) = {[user |-> online[a], addr |-> a] : a \in DOMAIN online}
  BY <1>1 DEF Agree, Listed
<1> QED
  BY <1>2, <1>3, <1>4 DEF DirectoriesAgree

\* Once linqd has read what is on its way, it knows as many sessions of each user
\* as c2s has, and, if nobody is logged in twice, the same addresses
\* (RealServer::addSession and removeSession, SessionHash::put and remove),
\* unless a packet was dropped, for any number of users and addresses.
THEOREM LinqdKnowsWhoIsOnline == Spec => []DirectoriesAgree
<1>1. Init => AgreeInv
  BY AgreeInit
<1>2. AgreeInv /\ [Next]_vars => AgreeInv'
  BY AgreeNext
<1>3. AgreeInv => DirectoriesAgree
  BY AgreeImplies
<1> QED
  BY <1>1, <1>2, <1>3, PTL DEF Spec

-----------------------------------------------------------------------------
(***************************************************************************)
(* Packets find the user they are meant for.                               *)
(***************************************************************************)

Owned(e) == e.user \in owners[e.addr]

\* Wherever a user is said to be at an address, in the table, in the hash, in the
\* streams, that user has been there; and if nobody came after another, there
\* was only one.
OwnInv ==
  /\ \A e \in Entries(hash) : Owned(e)
  /\ \A e \in Entries(toC2s) : Owned(e)
  /\ \A i \in DOMAIN toLinqd : toLinqd[i].cmd = "C2S_ADD_SESSION" => Owned(toLinqd[i])
  /\ \A a \in DOMAIN online : online[a] \in owners[a]
  /\ ~reused => \A a \in Addrs : \A u, v \in owners[a] : u = v
  /\ NoMisrouting

LEMMA OwnInit == Init => OwnInv
<1> SUFFICES ASSUME Init
             PROVE  OwnInv
  OBVIOUS
<1>1. Entries(hash) = {} /\ Entries(toC2s) = {}
  BY DEF Init, Entries
<1>2. DOMAIN toLinqd = {} /\ DOMAIN online = {}
  BY DEF Init
<1>3. \A a \in Addrs : owners[a] = {}
  BY DEF Init
<1>4. NoMisrouting
  BY DEF Init, NoMisrouting
<1> QED
  BY <1>1, <1>2, <1>3, <1>4 DEF OwnInv

LEMMA EntriesTyped ==
  ASSUME NEW s \in Seq(Entry), NEW e \in Entries(s)
  PROVE  e \in Entry /\ e.user \in Users /\ e.addr \in Addrs
<1>1. e \in Entry
  BY DEF Entries
<1> QED
  BY <1>1 DEF Entry

LEMMA OwnLogin ==
  ASSUME Typed, OwnInv, NEW a \in Addrs, NEW u \in Users, Login(a, u)
  PROVE  OwnInv'
<1> DEFINE m == [cmd |-> "C2S_ADD_SESSION", user |-> u, addr |-> a]
<1>1. /\ online' = [b \in DOMAIN online \cup {a} |-> IF b = a THEN u ELSE online[b]]
      /\ SendPacket(m)
      /\ reused' = (reused \/ owners[a] \ {u} # {})
      /\ owners' = [owners EXCEPT ![a] = @ \cup {u}]
      /\ UNCHANGED <<hash, toC2s, misrouted>>
  BY DEF Login
<1>2. m \in Message
  BY Zenon DEF Message
<1>3. m.user = u /\ m.addr = a
  OBVIOUS
<1> HIDE DEF m
<1>4. \A i \in DOMAIN toLinqd' :
        toLinqd'[i] = m \/ \E j \in DOMAIN toLinqd : toLinqd'[i] = toLinqd[j]
  BY <1>1, <1>2, SendPacketAgrees DEF Typed
<1>5. /\ \A b \in Addrs : owners[b] \subseteq owners'[b]
      /\ \A b \in Addrs : b # a => owners'[b] = owners[b]
      /\ owners'[a] = owners[a] \cup {u}
  BY <1>1 DEF Typed
<1>6. \A e \in Entries(hash') : Owned(e)'
  BY <1>1, <1>5, EntriesTyped DEF OwnInv, Typed, Owned
<1>7. \A e \in Entries(toC2s') : Owned(e)'
  BY <1>1, <1>5, EntriesTyped DEF OwnInv, Typed, Owned
<1>8. ASSUME NEW i \in DOMAIN toLinqd', toLinqd'[i].cmd = "C2S_ADD_SESSION"
      PROVE  toLinqd'[i].user \in owners'[toLinqd'[i].addr]
  <2>1. CASE toLinqd'[i] = m
    BY <1>3, <1>5, <2>1
  <2>2. CASE \E j \in DOMAIN toLinqd : toLinqd'[i] = toLinqd[j]
    <3>1. PICK j \in DOMAIN toLinqd : toLinqd'[i] = toLinqd[j]
      BY <2>2
    <3>2. toLinqd[j] \in Message
      BY DEF Typed
    <3>3. toLinqd[j].addr \in Addrs
      BY <1>8, <3>1, <3>2, MessageForms
    <3>4. toLinqd[j].user \in owners[toLinqd[j].addr]
      BY <1>8, <3>1 DEF OwnInv, Owned
    <3> QED
      BY <1>5, <3>1, <3>3, <3>4
  <2> QED
    BY <1>4, <2>1, <2>2
<1>9. \A b \in DOMAIN online' : online'[b] \in owners'[b]
  <2> SUFFICES ASSUME NEW b \in DOMAIN online'
               PROVE  online'[b] \in owners'[b]
    OBVIOUS
  <2>1. CASE b = a
    BY <1>1, <1>5, <2>1
  <2>2. CASE b # a
    <3>1. b \in DOMAIN online /\ online'[b] = online[b] /\ b \in Addrs
      BY <1>1, <2>2 DEF Typed
    <3> QED
      BY <1>5, <3>1 DEF OwnInv
  <2> QED
    BY <2>1, <2>2
<1>10. ASSUME ~reused', NEW b \in Addrs, NEW v \in owners'[b], NEW w \in owners'[b]
       PROVE  v = w
  <2>1. ~reused /\ \A x \in owners[a] : x = u
    BY <1>1, <1>10
  <2>2. CASE b = a
    <3>1. owners'[b] = owners[a] \cup {u}
      BY <1>5, <2>2
    <3> QED
      BY <1>10, <2>1, <3>1
  <2>3. CASE b # a
    BY <1>5, <1>10, <2>1, <2>3 DEF OwnInv
  <2> QED
    BY <2>2, <2>3
<1>11. NoMisrouting'
  BY <1>1 DEF OwnInv, NoMisrouting
<1> QED
  BY <1>6, <1>7, <1>8, <1>9, <1>10, <1>11 DEF OwnInv, Owned

\* A packet that is no announcement, sent by c2s while a session ends or goes on.
LEMMA OwnSends ==
  ASSUME Typed, OwnInv, NEW m \in Message, m.cmd # "C2S_ADD_SESSION", SendPacket(m),
         \A a \in DOMAIN online' : a \in DOMAIN online /\ online'[a] = online[a],
         UNCHANGED <<hash, toC2s, owners, reused, misrouted>>
  PROVE  OwnInv'
<1>1. \A i \in DOMAIN toLinqd' :
        toLinqd'[i] = m \/ \E j \in DOMAIN toLinqd : toLinqd'[i] = toLinqd[j]
  BY SendPacketAgrees DEF Typed
<1>2. \A i \in DOMAIN toLinqd' :
        toLinqd'[i].cmd = "C2S_ADD_SESSION" => toLinqd'[i].user \in owners[toLinqd'[i].addr]
  BY <1>1 DEF OwnInv, Owned
<1>3. \A a \in DOMAIN online' : online'[a] \in owners[a]
  BY DEF OwnInv
<1>4. NoMisrouting'
  BY DEF OwnInv, NoMisrouting
<1> QED
  BY <1>2, <1>3, <1>4 DEF OwnInv, Owned

LEMMA OwnEnd ==
  ASSUME Typed, OwnInv, NEW a \in Addrs, End(a)
  PROVE  OwnInv'
<1> DEFINE m == [cmd |-> "C2S_REMOVE_SESSION", user |-> online[a]]
<1>1. /\ a \in DOMAIN online /\ online' = Restrict(online, DOMAIN online \ {a})
      /\ SendPacket(m) /\ UNCHANGED <<hash, toC2s, owners, reused, misrouted>>
  BY DEF End
<1>2. online[a] \in Users
  BY <1>1 DEF Typed
<1>3. m \in Message
  BY <1>2, Zenon DEF Message
<1>4. m.cmd # "C2S_ADD_SESSION"
  OBVIOUS
<1> HIDE DEF m
<1>5. \A b \in DOMAIN online' : b \in DOMAIN online /\ online'[b] = online[b]
  BY <1>1 DEF Restrict
<1> QED
  BY <1>1, <1>3, <1>4, <1>5, OwnSends

LEMMA OwnForward ==
  ASSUME Typed, OwnInv, NEW a \in Addrs, Forward(a)
  PROVE  OwnInv'
<1> DEFINE m == [cmd |-> "C2S_DELIVER", user |-> online[a]]
<1>1. /\ a \in DOMAIN online /\ online' = online
      /\ SendPacket(m) /\ UNCHANGED <<hash, toC2s, owners, reused, misrouted>>
  BY DEF Forward, c2sVars
<1>2. online[a] \in Users
  BY <1>1 DEF Typed
<1>3. m \in Message
  BY <1>2, Zenon DEF Message
<1>4. m.cmd # "C2S_ADD_SESSION"
  OBVIOUS
<1> HIDE DEF m
<1> QED
  BY <1>1, <1>3, <1>4, OwnSends

LEMMA OwnOnC2sPacket ==
  ASSUME Typed, OwnInv, OnC2sPacket
  PROVE  OwnInv'
<1>1. /\ toLinqd # <<>> /\ toLinqd' = Tail(toLinqd)
      /\ hash' = Applied(hash, Head(toLinqd))
      /\ UNCHANGED <<online, owners, reused, toC2s, misrouted>>
  BY DEF OnC2sPacket, c2sVars
<1>2. /\ toLinqd \in Seq(Message) /\ hash \in Seq(Entry)
      /\ DOMAIN toLinqd = 1 .. Len(toLinqd) /\ Len(toLinqd) \in Nat
  BY DEF Typed
<1>3. 1 \in DOMAIN toLinqd /\ Head(toLinqd) = toLinqd[1] /\ toLinqd[1] \in Message
  BY <1>1, <1>2
<1>4. ASSUME NEW i \in DOMAIN toLinqd'
      PROVE  \E j \in DOMAIN toLinqd : toLinqd'[i] = toLinqd[j]
  <2>1. i + 1 \in DOMAIN toLinqd /\ toLinqd'[i] = toLinqd[i + 1]
    BY <1>1, <1>2
  <2> QED
    BY <2>1
<1>5. \A i \in DOMAIN toLinqd' :
        toLinqd'[i].cmd = "C2S_ADD_SESSION" => toLinqd'[i].user \in owners[toLinqd'[i].addr]
  BY <1>4 DEF OwnInv, Owned
<1>6. ASSUME NEW e \in Entries(hash')
      PROVE  e.user \in owners[e.addr]
  <2>1. \/ e \in Entries(hash)
        \/ /\ toLinqd[1].cmd = "C2S_ADD_SESSION"
           /\ e = [user |-> toLinqd[1].user, addr |-> toLinqd[1].addr]
    BY <1>1, <1>2, <1>3, AppliedTyped
  <2> QED
    BY <1>3, <2>1 DEF OwnInv, Owned
<1>7. NoMisrouting'
  BY <1>1 DEF OwnInv, NoMisrouting
<1> QED
  BY <1>1, <1>5, <1>6, <1>7 DEF OwnInv, Owned

LEMMA OwnRoute ==
  ASSUME Typed, OwnInv, Route
  PROVE  OwnInv'
<1> DEFINE p == Head(toC2s)
<1>1. /\ toC2s # <<>> /\ toC2s' = Tail(toC2s)
      /\ misrouted' = (misrouted \/ (p.addr \in DOMAIN online /\ online[p.addr] # p.user))
      /\ UNCHANGED <<online, owners, reused, toLinqd, hash>>
  BY DEF Route, c2sVars
<1>2. toC2s \in Seq(Entry) /\ DOMAIN toC2s = 1 .. Len(toC2s) /\ Len(toC2s) \in Nat
  BY DEF Typed
<1>3. p \in Entries(toC2s)
  <2>1. 1 \in DOMAIN toC2s /\ p = toC2s[1]
    BY <1>1, <1>2
  <2> QED
    BY <2>1 DEF Entries
<1> HIDE DEF p
<1>4. ASSUME NEW e \in Entries(toC2s')
      PROVE  e \in Entries(toC2s)
  <2>1. PICK i \in DOMAIN toC2s' : e = toC2s'[i]
    BY DEF Entries
  <2>2. i + 1 \in DOMAIN toC2s /\ e = toC2s[i + 1]
    BY <1>1, <1>2, <2>1
  <2> QED
    BY <2>2 DEF Entries
<1>5. NoMisrouting'
  <2> SUFFICES ASSUME ~reused, p.addr \in DOMAIN online, online[p.addr] # p.user
               PROVE  FALSE
    BY <1>1 DEF NoMisrouting, OwnInv
  <2>1. p.user \in owners[p.addr] /\ online[p.addr] \in owners[p.addr]
    BY <1>3 DEF OwnInv, Owned
  <2>2. p.addr \in Addrs
    BY <1>2, <1>3, EntriesTyped
  <2> QED
    BY <2>1, <2>2 DEF OwnInv
<1> QED
  BY <1>1, <1>4, <1>5 DEF OwnInv, Owned

LEMMA OwnDeliver ==
  ASSUME Typed, OwnInv, NEW u, Deliver(u)
  PROVE  OwnInv'
<1>1. /\ \E e \in Entries(hash) : e \in Entry /\ toC2s' = Append(toC2s, e)
      /\ UNCHANGED <<online, owners, reused, toLinqd, hash, misrouted>>
  BY DeliverAppends DEF c2sVars
<1>2. PICK x \in Entries(hash) : toC2s' = Append(toC2s, x)
  BY <1>1
<1>3. toC2s \in Seq(Entry) /\ DOMAIN toC2s = 1 .. Len(toC2s) /\ Len(toC2s) \in Nat
  BY DEF Typed
<1>4. ASSUME NEW e \in Entries(toC2s')
      PROVE  e \in Entries(toC2s) \/ e = x
  <2>1. PICK i \in DOMAIN toC2s' : e = toC2s'[i]
    BY DEF Entries
  <2>2. i = Len(toC2s) + 1 \/ i \in DOMAIN toC2s
    BY <1>2, <1>3, <2>1
  <2>3. e = IF i = Len(toC2s) + 1 THEN x ELSE toC2s[i]
    BY <1>2, <1>3, <2>1, <2>2
  <2> QED
    BY <2>2, <2>3 DEF Entries
<1>5. NoMisrouting'
  BY <1>1 DEF OwnInv, NoMisrouting
<1> QED
  BY <1>1, <1>4, <1>5 DEF OwnInv, Owned

LEMMA OwnNext == Typed /\ OwnInv /\ [Next]_vars => OwnInv'
<1> SUFFICES ASSUME Typed, OwnInv, [Next]_vars
             PROVE  OwnInv'
  OBVIOUS
<1>1. CASE \E a \in Addrs : \E u \in Users : Login(a, u)
  BY <1>1, OwnLogin
<1>2. CASE \E a \in Addrs : End(a)
  BY <1>2, OwnEnd
<1>3. CASE \E a \in Addrs : Forward(a)
  BY <1>3, OwnForward
<1>4. CASE Route
  BY <1>4, OwnRoute
<1>5. CASE OnC2sPacket
  BY <1>5, OwnOnC2sPacket
<1>6. CASE \E u \in Users : Deliver(u)
  BY <1>6, OwnDeliver
<1>7. CASE UNCHANGED vars
  BY <1>7 DEF vars, c2sVars, OwnInv, Owned, NoMisrouting
<1> QED
  BY <1>1, <1>2, <1>3, <1>4, <1>5, <1>6, <1>7 DEF Next

\* A packet that linqd addresses to a session is handed by c2s to another user
\* (ClientSession::deliver, RealServer::onPacketReceived) only where another
\* user has logged in at that address, however late the packet is and whatever
\* was dropped.
THEOREM PacketsFindTheirUser == Spec => []NoMisrouting
<1>1. Init => AgreeInv /\ OwnInv
  BY AgreeInit, OwnInit
<1>2. AgreeInv /\ OwnInv /\ [Next]_vars => (AgreeInv /\ OwnInv)'
  BY AgreeNext, OwnNext DEF AgreeInv
<1>3. OwnInv => NoMisrouting
  BY DEF OwnInv
<1> QED
  BY <1>1, <1>2, <1>3, PTL DEF Spec

-----------------------------------------------------------------------------
(***************************************************************************)
(* The stream that the packets between c2s and linqd go through (module    *)
(* Stream).  That one does not fit is all Directory knows of it; that a    *)
(* stream does not forget what did fit, although its senders and the poll  *)
(* thread change the event mask with |= and &= under no common lock, is    *)
(* proved here, for every size of packets, buffers and kernel, and both    *)
(* ways to poll.                                                           *)
(***************************************************************************)

\* onSocketRead fails only on a connection that is over: a socket that is up
\* has not been reported as readable, and poll() goes on with what it reported
\* of one that was up when the peer closes it.
ReadFails ==
  poller = "dispatch" /\ READ \in ready => sock \in {"lost", "refused"}

WakeInv == NoLostWakeup /\ ReadFails

LEMMA WakeInit == StreamInit => WakeInv
BY DEF StreamInit, WakeInv, NoLostWakeup, ReadFails

\* What FdSet reports as readable is not a socket that is up.
LEMMA ReadyMeansOver ==
  READ \in EventsReady => sock \in {"lost", "refused"}
<1>1. CASE sock = "up"
  BY <1>1 DEF EventsReady, READ, WRITE
<1>2. CASE sock = "failed"
  BY <1>2 DEF EventsReady, READ, WRITE
<1>3. CASE sock \notin {"up", "failed", "lost", "refused"}
  BY <1>3 DEF EventsReady
<1> QED
  BY <1>1, <1>2, <1>3

\* A socket made by reconnect() waits to be written to, is given up, or leaves
\* data unarmed because it is connected at once.
LEMMA ReconnectWakes ==
  ASSUME Reconnect, UNCHANGED sendBuf
  PROVE  \/ sendBuf' = <<>> \/ sock' = "failed" \/ unarmed'
         \/ WRITE \in event'
BY DEF Reconnect, WRITE

\* No step of a sender or of the poll thread leaves data behind: whoever writes
\* a mask without SOCKET_WRITE is the poll thread on its way to send(), and it
\* arms the socket again if data is left when it has got there.
LEMMA WakeNext == WakeInv /\ [StreamNext]_streamVars => WakeInv'
<1> SUFFICES ASSUME WakeInv, [StreamNext]_streamVars
             PROVE  WakeInv'
  OBVIOUS
<1> USE DEF WakeInv, NoLostWakeup, ReadFails, READ, WRITE
<1>1. CASE Connect
  <2>1. sock = "none" /\ UNCHANGED <<sendBuf, poller, ready>>
    BY <1>1 DEF Connect, pollVars
  <2>2. Reconnect
    BY <1>1 DEF Connect
  <2>3. NoLostWakeup'
    BY <2>1, <2>2, ReconnectWakes
  <2>4. ReadFails'
    BY <2>1
  <2> QED
    BY <2>3, <2>4
<1>2. CASE Establish
  BY <1>2 DEF Establish, senderVars, pollVars
<1>3. CASE Refuse
  BY <1>3 DEF Refuse, senderVars, pollVars
<1>4. CASE PeerCloses
  BY <1>4 DEF PeerCloses, senderVars, pollVars
<1>5. CASE \E n \in Sizes : sendPacket(n)
  BY <1>5 DEF sendPacket, senderVars, pollVars
<1>6. CASE ReadEvents
  BY <1>6 DEF ReadEvents, senderVars, pollVars
<1>7. CASE Arm
  BY <1>7 DEF Arm, senderVars, pollVars
<1>8. CASE PollTimeout
  <2>1. poller = "poll" /\ UNCHANGED <<sendBuf, poller, ready>>
    BY <1>8 DEF PollTimeout, pollVars
  <2>2. Reconnect
    BY <1>8 DEF PollTimeout
  <2>3. NoLostWakeup'
    BY <2>1, <2>2, ReconnectWakes
  <2>4. ReadFails'
    BY <2>1
  <2> QED
    BY <2>3, <2>4
<1>9. CASE Poll
  <2>1. poller' = "dispatch" /\ ready' = EventsReady /\ UNCHANGED sock
    BY <1>9 DEF Poll
  <2> QED
    BY <2>1, ReadyMeansOver
<1>10. CASE DispatchRead
  BY <1>10 DEF DispatchRead, senderVars, pollVars
<1>11. CASE DispatchWrite
  BY <1>11 DEF DispatchWrite, senderVars, pollVars
<1>12. CASE Clear
  BY <1>12 DEF Clear, senderVars, pollVars
<1>13. CASE OnSocketConnect
  BY <1>13 DEF OnSocketConnect, senderVars, pollVars
<1>14. CASE Send
  <2>1. sendBuf = <<>> \/ poller' = "sent"
    BY <1>14 DEF Send
  <2>2. UNCHANGED <<sendBuf, sock>> /\ poller' \in {"poll", "sent"}
    BY <1>14 DEF Send
  <2> QED
    BY <2>1, <2>2
<1>15. CASE Shrink
  BY <1>15 DEF Shrink, senderVars, pollVars
<1>16. CASE Rearm
  BY <1>16 DEF Rearm, senderVars, pollVars
<1>17. CASE Rearmed
  BY <1>17 DEF Rearmed, senderVars, pollVars
<1>18. CASE Receive
  BY <1>18 DEF Receive, senderVars, pollVars
<1>19. CASE UNCHANGED streamVars
  BY <1>19 DEF streamVars, senderVars, pollVars
<1> QED
  BY <1>1, <1>2, <1>3, <1>4, <1>5, <1>6, <1>7, <1>8, <1>9, <1>10, <1>11,
     <1>12, <1>13, <1>14, <1>15, <1>16, <1>17, <1>18, <1>19 DEF StreamNext, PollThread

\* Data in the buffer of a live stream is armed, or somebody is about to arm or
\* to send it (addEvent, removeEvent, onSocketWrite), for every size of packets
\* and buffers.
THEOREM DataIsNotForgotten == StreamSpec => []NoLostWakeup
<1>1. StreamInit => WakeInv
  BY WakeInit
<1>2. WakeInv /\ [StreamNext]_streamVars => WakeInv'
  BY WakeNext
<1>3. WakeInv => NoLostWakeup
  BY DEF WakeInv
<1> QED
  BY <1>1, <1>2, <1>3, PTL DEF StreamSpec

-----------------------------------------------------------------------------
(***************************************************************************)
(* That the packets come out whole.  The bytes of the first packets,       *)
(* joined, are a function of how many they are; what is out, the piece in  *)
(* recvBuf, the wire and the buffer make up the bytes of all of them, as   *)
(* long as a connection lasts, and so the next byte that comes is the one  *)
(* that the piece lacks.                                                   *)
(***************************************************************************)

\* f joins the bytes of the packets whose sizes are a: f[i] are those of the first i.
Joins(f, a) ==
  /\ f \in [0 .. Len(a) -> Seq(Byte)]
  /\ f[0] = <<>>
  /\ \A i \in 1 .. Len(a) : f[i] = f[i - 1] \o BytesOf(i, a[i])
  /\ \A i \in 0 .. Len(a) : \E z \in Seq(Byte) : f[Len(a)] = f[i] \o z

\* The other end has cut out d packets and has buf, a part of the next one.
Piece(buf, d, a) ==
  \/ buf = <<>>
  \/ /\ d < Len(a) /\ Len(buf) < a[d + 1] + Header
     /\ \A k \in 1 .. Len(buf) : buf[k] = <<d + 1, k>>

\* What has been cut out of the bytes, packets out and the piece buf.
Cutting(out, buf, a) ==
  /\ out \in Seq(Seq(Byte)) /\ buf \in Seq(Byte)
  /\ Len(out) <= Len(a) /\ \A i \in 1 .. Len(out) : out[i] = BytesOf(i, a[i])
  /\ Piece(buf, Len(out), a)

\* Nothing is missing between what has been cut out and rest.
NoGap(f, out, buf, rest, a) ==
  f[Len(out)] \o (buf \o rest) = f[Len(a)]

\* Bytes move only once the timer is off.
Phase ==
  /\ sock \in {"none", "pending"} => poller = "poll"
  /\ poller \in {"connecting", "sending", "sent", "rearm", "rearming"} =>
       ~timer /\ sock # "none"
  /\ sock \in {"none", "pending"} \/ timer =>
       wire = <<>> /\ recvBuf = <<>> /\ delivered = <<>>
  /\ written <= Len(sendBuf) /\ (written # 0 => poller = "sent")

\* The bytes that have not come to the other end.
Rest == wire \o SubSeq(sendBuf, written + 1, Len(sendBuf))

\* A packet that was accepted did fit into the buffer.
Sized == \A i \in 1 .. Len(accepted) : accepted[i] + Header <= SENDBUF_SIZE

\* Every byte accepted is in a packet that is out, or follows in its order.
Pieces ==
  /\ Sized /\ Cutting(delivered, recvBuf, accepted)
  /\ \E f :
       /\ Joins(f, accepted)
       /\ sock \in {"none", "pending", "up"} \/ timer =>
            NoGap(f, delivered, recvBuf, Rest, accepted)

\* The invariant that is inductive.
WholeInv == StreamTypeOK /\ Phase /\ Pieces

-----------------------------------------------------------------------------
\* The bytes of a packet, its length in front.
LEMMA PacketBytes ==
  ASSUME NEW a \in Seq(Sizes), Len(a) <= MaxPackets,
         \A i \in 1 .. Len(a) : a[i] + Header <= SENDBUF_SIZE,
         NEW i \in 1 .. Len(a)
  PROVE  /\ BytesOf(i, a[i]) \in Seq(Byte)
         /\ Len(BytesOf(i, a[i])) = a[i] + Header /\ a[i] + Header \in Nat
         /\ a[i] \in Nat \ {0}
         /\ \A k \in 1 .. a[i] + Header : BytesOf(i, a[i])[k] = <<i, k>>
<1>1. a[i] \in Nat \ {0} /\ Len(a) \in Nat /\ MaxPackets \in Nat /\ SENDBUF_SIZE \in Nat
  <2>1. a[i] \in Sizes /\ Len(a) \in Nat
    BY ElementOfSeq, LenProperties
  <2> QED
    BY <2>1, StreamAssumption
<1>2. a[i] + Header \in Nat /\ a[i] + Header <= SENDBUF_SIZE
  BY <1>1 DEF Header
<1>3. \A k \in 1 .. a[i] + Header : <<i, k>> \in Byte
  BY <1>1, <1>2 DEF Byte
<1> DEFINE n == a[i] + Header
<1>4. BytesOf(i, a[i]) = [k \in 1 .. n |-> <<i, k>>]
  BY DEF BytesOf
<1> HIDE DEF n
<1>5. [k \in 1 .. n |-> <<i, k>>] \in Seq(Byte) /\ Len([k \in 1 .. n |-> <<i, k>>]) = n
  BY <1>2, <1>3 DEF n
<1> QED
  BY <1>1, <1>2, <1>4, <1>5 DEF n

\* In one sequence the parts may be joined in any order.
Regroups(s, t, u) == (s \o t) \o u = s \o (t \o u)

LEMMA Regroup ==
  ASSUME NEW B, NEW s \in Seq(B), NEW t \in Seq(B), NEW u \in Seq(B)
  PROVE  Regroups(s, t, u)
<1>1. (s \o t) \o u = s \o (t \o u)
  BY ConcatAssociative
<1> QED
  BY <1>1 DEF Regroups

\* Two ways to divide the bytes that follow x.
Divided(s, t, p, z) ==
  /\ \A k \in 1 .. Len(s) : s[k] = p[k]
  /\ Len(s) = Len(p) => s = p /\ t = z

LEMMA Divide ==
  ASSUME NEW B, NEW x \in Seq(B), NEW s \in Seq(B), NEW t \in Seq(B), NEW p \in Seq(B),
         NEW z \in Seq(B), Len(s) <= Len(p)
  PROVE  x \o (s \o t) = (x \o p) \o z => Divided(s, t, p, z)
<1>1. (x \o p) \o z = x \o (p \o z)
  <2>1. Regroups(x, p, z)
    BY Regroup
  <2> QED
    BY <2>1 DEF Regroups
<1> HAVE x \o (s \o t) = (x \o p) \o z
<1>2. s \o t \in Seq(B) /\ p \o z \in Seq(B)
  OBVIOUS
<1>3. s \o t = p \o z
  BY <1>1, <1>2, ConcatSimplifications
<1>4. \A k \in 1 .. Len(s) : (s \o t)[k] = s[k] /\ (p \o z)[k] = p[k]
  OBVIOUS
<1>5. \A k \in 1 .. Len(s) : s[k] = p[k]
  BY <1>3, <1>4
<1>6. ASSUME Len(s) = Len(p) PROVE s = p /\ t = z
  <2>1. s = p
    BY <1>5, <1>6, SeqEqual
  <2>2. p \o t = p \o z
    BY <1>3, <2>1
  <2> QED
    BY <2>1, <2>2, ConcatSimplifications
<1> QED
  BY <1>5, <1>6 DEF Divided

LEMMA OneMore ==
  ASSUME NEW B, NEW s \in Seq(B), NEW b \in B, NEW rest \in Seq(B)
  PROVE  /\ Append(s, b) \in Seq(B) /\ Len(Append(s, b)) = Len(s) + 1
         /\ s \o (<<b>> \o rest) = Append(s, b) \o rest
<1>1. Append(s, b) = s \o <<b>>
  BY AppendIsConcat
<1>2. <<b>> \in Seq(B)
  OBVIOUS
<1> DEFINE h == <<b>>
<1> HIDE DEF h
<1>3. Regroups(s, h, rest)
  BY <1>2, Regroup DEF h
<1>4. (s \o <<b>>) \o rest = s \o (<<b>> \o rest)
  BY <1>3 DEF Regroups, h
<1>5. Append(s, b) \in Seq(B) /\ Len(Append(s, b)) = Len(s) + 1
  OBVIOUS
<1> QED
  BY <1>1, <1>4, <1>5

-----------------------------------------------------------------------------
\* A byte more is cut off.
LEMMA CutStep ==
  ASSUME accepted \in Seq(Sizes), Len(accepted) <= MaxPackets, Sized,
         NEW f, Joins(f, accepted), NEW out, NEW buf, Cutting(out, buf, accepted),
         NEW b \in Byte, NEW rest \in Seq(Byte), NoGap(f, out, buf, <<b>> \o rest, accepted),
         NEW c, c = Cut([buf |-> buf, out |-> out], b)
  PROVE  /\ c = [buf |-> c.buf, out |-> c.out] /\ Cutting(c.out, c.buf, accepted)
         /\ NoGap(f, c.out, c.buf, rest, accepted)
<1> DEFINE d == Len(out)
           a == accepted
           more == Append(buf, b)
           p == BytesOf(d + 1, a[d + 1])
<1>1. /\ out \in Seq(Seq(Byte)) /\ buf \in Seq(Byte) /\ d \in Nat /\ d <= Len(a)
      /\ Len(a) \in Nat /\ Len(buf) \in Nat
  BY DEF Cutting
<1>2. more \in Seq(Byte) /\ Len(more) = Len(buf) + 1 /\ buf \o (<<b>> \o rest) = more \o rest
  BY <1>1, OneMore
<1>3. \A i \in 0 .. Len(a) : f[i] \in Seq(Byte)
  BY DEF Joins
<1>4. f[d] \o (more \o rest) = f[Len(a)]
  BY <1>2 DEF NoGap
<1> HIDE DEF more
<1>5. more \o rest \in Seq(Byte) /\ more \o rest # <<>>
  BY <1>1, <1>2
<1>6. d + 1 \in 1 .. Len(a)
  <2> SUFFICES ASSUME d = Len(a) PROVE FALSE
    BY <1>1
  <2>1. f[d] \in Seq(Byte) /\ f[d] \o (more \o rest) = f[d]
    BY <1>1, <1>3, <1>4
  <2> HIDE DEF d
  <2> QED
    BY <1>5, <2>1, ConcatSimplifications
<1>7. /\ p \in Seq(Byte) /\ Len(p) = a[d + 1] + Header /\ a[d + 1] \in Nat \ {0}
      /\ \A k \in 1 .. Len(p) : p[k] = <<d + 1, k>>
  BY <1>6, PacketBytes DEF Sized
<1>8. PICK z \in Seq(Byte) : f[Len(a)] = f[d + 1] \o z
  <2>1. \A i \in 0 .. Len(a) : \E z \in Seq(Byte) : f[Len(a)] = f[i] \o z
    BY DEF Joins
  <2>2. d + 1 \in 0 .. Len(a)
    BY <1>1, <1>6
  <2> HIDE DEF d
  <2> QED
    BY <2>1, <2>2
<1>9. f[d + 1] = f[d] \o p
  <2>1. \A i \in 1 .. Len(a) : f[i] = f[i - 1] \o BytesOf(i, a[i])
    BY DEF Joins
  <2>2. (d + 1) - 1 = d
    BY <1>1
  <2> HIDE DEF d
  <2> QED
    BY <1>6, <2>1, <2>2
<1> HIDE DEF p
<1>10. f[d] \in Seq(Byte) /\ f[d] \o (more \o rest) = (f[d] \o p) \o z
  <2>1. f[d] \in Seq(Byte)
    BY <1>1, <1>3
  <2> HIDE DEF d
  <2> QED
    BY <1>4, <1>8, <1>9, <2>1
<1>11. Len(more) <= Len(p)
  BY <1>1, <1>2, <1>7 DEF Cutting, Piece, Header
<1>12. /\ \A k \in 1 .. Len(more) : more[k] = <<d + 1, k>>
       /\ Len(more) = Len(p) => more = p /\ rest = z
  <2> HIDE DEF d
  <2>1. Divided(more, rest, p, z)
    BY <1>2, <1>7, <1>8, <1>10, <1>11, Divide, Zenon
  <2>2. \A k \in 1 .. Len(more) : k \in 1 .. Len(p)
    BY <1>2, <1>7, <1>11
  <2> QED
    BY <1>7, <2>1, <2>2 DEF Divided
<1>13. more[1][1] = d + 1
  BY <1>1, <1>2, <1>12
<1>14. c = IF Len(more) > Header /\ Len(more) >= Len(p)
           THEN [buf |-> <<>>, out |-> Append(out, more)]
           ELSE [buf |-> more, out |-> out]
  <2>1. c = IF Len(more) > Header /\ Len(more) >= accepted[more[1][1]] + Header
            THEN [buf |-> <<>>, out |-> Append(out, more)]
            ELSE [[buf |-> buf, out |-> out] EXCEPT !.buf = more]
    BY DEF Cut, more
  <2>2. [[buf |-> buf, out |-> out] EXCEPT !.buf = more] = [buf |-> more, out |-> out]
    OBVIOUS
  <2> QED
    BY <1>7, <1>13, <2>1, <2>2
<1>15. CASE Len(more) = Len(p)
  <2>1. c = [buf |-> <<>>, out |-> Append(out, p)]
    <3>1. Len(more) > Header /\ Len(more) >= Len(p) /\ more = p
      BY <1>7, <1>12, <1>15 DEF Header
    <3> QED
      BY <1>14, <3>1
  <2>2. /\ Append(out, p) \in Seq(Seq(Byte)) /\ Len(Append(out, p)) = d + 1
        /\ \A i \in 1 .. d : Append(out, p)[i] = out[i]
        /\ Append(out, p)[d + 1] = p
    BY <1>1, <1>7, AppendProperties
  <2>3. \A i \in 1 .. d + 1 : Append(out, p)[i] = BytesOf(i, a[i])
    BY <1>1, <2>2 DEF Cutting, p
  <2>4. c.out = Append(out, p) /\ c.buf = <<>> /\ <<>> \in Seq(Byte)
    BY <2>1
  <2>5. Piece(<<>>, d + 1, a)
    BY DEF Piece
  <2>6. Cutting(c.out, c.buf, a)
    <3> DEFINE w == Append(out, p)
    <3>1. w \in Seq(Seq(Byte)) /\ Len(w) = d + 1 /\ \A i \in 1 .. d + 1 : w[i] = BytesOf(i, a[i])
      BY <2>2, <2>3
    <3>2. d + 1 <= Len(a)
      BY <1>1, <1>6
    <3> HIDE DEF d, w
    <3>3. Cutting(w, <<>>, a)
      BY <2>4, <2>5, <3>1, <3>2 DEF Cutting
    <3> QED
      BY <2>4, <3>3 DEF w
  <2>7. NoGap(f, c.out, c.buf, rest, a)
    <3>1. rest = z /\ <<>> \o rest = rest
      BY <1>8, <1>12, <1>15
    <3> QED
      BY <1>8, <2>2, <2>4, <3>1 DEF NoGap
  <2> QED
    BY <2>1, <2>4, <2>6, <2>7
<1>16. CASE Len(more) # Len(p)
  <2>1. c = [buf |-> more, out |-> out]
    BY <1>1, <1>2, <1>7, <1>11, <1>14, <1>16
  <2>2. Piece(more, d, a)
    BY <1>1, <1>2, <1>6, <1>7, <1>11, <1>12, <1>16 DEF Piece
  <2>3. Cutting(c.out, c.buf, a)
    BY <1>2, <2>1, <2>2 DEF Cutting
  <2>4. c.out = out /\ c.buf = more
    BY <2>1
  <2>5. NoGap(f, c.out, c.buf, rest, a)
    BY <1>4, <2>4 DEF NoGap
  <2> QED
    BY <2>1, <2>3, <2>4, <2>5
<1> QED
  BY <1>15, <1>16

-----------------------------------------------------------------------------
\* g is what has been cut off after each of the bytes.
Cuts(g, start, bytes) ==
  g = [i \in 0 .. Len(bytes) |-> IF i = 0 THEN start ELSE Cut(g[i - 1], bytes[i])]

\* The same, place by place.
Stepped(g, start, bytes) ==
  /\ g = [i \in 0 .. Len(bytes) |-> g[i]]
  /\ g[0] = start
  /\ \A i \in 1 .. Len(bytes) : g[i] = Cut(g[i - 1], bytes[i])

LEMMA CutsSteps ==
  ASSUME NEW start, NEW bytes, Len(bytes) \in Nat, NEW g, Cuts(g, start, bytes)
  PROVE  Stepped(g, start, bytes)
<1> DEFINE f == [i \in 0 .. Len(bytes) |-> IF i = 0 THEN start ELSE Cut(g[i - 1], bytes[i])]
<1>1. g = f
  BY DEF Cuts
<1>2. f[0] = start /\ \A i \in 1 .. Len(bytes) : f[i] = Cut(g[i - 1], bytes[i])
  OBVIOUS
<1>3. f = [i \in 0 .. Len(bytes) |-> f[i]]
  OBVIOUS
<1> HIDE DEF f
<1> QED
  BY <1>1, <1>2, <1>3 DEF Stepped

LEMMA CutsOnce ==
  ASSUME NEW start, NEW bytes, Len(bytes) \in Nat,
         NEW f, Cuts(f, start, bytes), NEW g, Cuts(g, start, bytes)
  PROVE  f = g
<1>1. /\ f[0] = start /\ g[0] = start
      /\ \A i \in 1 .. Len(bytes) :
           f[i] = Cut(f[i - 1], bytes[i]) /\ g[i] = Cut(g[i - 1], bytes[i])
      /\ f = [i \in 0 .. Len(bytes) |-> f[i]] /\ g = [i \in 0 .. Len(bytes) |-> g[i]]
  BY CutsSteps DEF Stepped
<1> DEFINE D == {i \in 0 .. Len(bytes) : f[i] # g[i]}
<1>2. D = {}
  <2> SUFFICES ASSUME D # {}
               PROVE  FALSE
    OBVIOUS
  <2>1. D \in SUBSET Nat
    OBVIOUS
  <2>2. PICK n \in D : \A i \in D : n <= i
    BY <2>1, MinExists
  <2>3. n # 0 /\ n \in 1 .. Len(bytes) /\ n - 1 \in 0 .. Len(bytes)
    BY <1>1
  <2>4. n - 1 \notin D
    BY <2>2, <2>3
  <2>5. f[n - 1] = g[n - 1]
    BY <2>3, <2>4
  <2>6. f[n] = g[n]
    BY <1>1, <2>3, <2>5
  <2> QED
    BY <2>6
<1>3. \A i \in 0 .. Len(bytes) : f[i] = g[i]
  BY <1>2
<1>4. [i \in 0 .. Len(bytes) |-> f[i]] = [i \in 0 .. Len(bytes) |-> g[i]]
  BY <1>3, Zenon
<1> QED
  BY <1>1, <1>4

LEMMA CutAllOf ==
  ASSUME NEW start, NEW bytes, Len(bytes) \in Nat, NEW g, Cuts(g, start, bytes)
  PROVE  CutAll(start, bytes) = g[Len(bytes)]
<1> DEFINE f == CHOOSE f : Cuts(f, start, bytes)
<1>1. \A k : Cuts(k, start, bytes) => k = g
  BY CutsOnce
<1>2. f = g
  BY <1>1, Zenon
<1>3. CutAll(start, bytes) = f[Len(bytes)]
  BY DEF CutAll, Cuts
<1> QED
  BY <1>2, <1>3

\* What TCPStream keeps of the bytes: a piece of a packet, and the packets out.
CutState == [buf : Seq(Byte), out : Seq(Seq(Byte))]

LEMMA CutTyped ==
  ASSUME NEW acc \in CutState, NEW b \in Byte
  PROVE  Cut(acc, b) \in CutState
<1>1. acc.buf \in Seq(Byte) /\ acc.out \in Seq(Seq(Byte)) /\ <<>> \in Seq(Byte)
  BY DEF CutState
<1> DEFINE more == Append(acc.buf, b)
           w == Append(acc.out, more)
<1>2. more \in Seq(Byte)
  BY <1>1
<1> HIDE DEF more
<1>3. w \in Seq(Seq(Byte))
  BY <1>1, <1>2
<1> HIDE DEF w
<1>4. [buf |-> <<>>, out |-> w] \in CutState
  BY <1>1, <1>3 DEF CutState
<1>5. [acc EXCEPT !.buf = more] \in CutState
  BY <1>2 DEF CutState
<1>6. Cut(acc, b) = IF Len(more) > Header /\ Len(more) >= accepted[more[1][1]] + Header
                    THEN [buf |-> <<>>, out |-> w] ELSE [acc EXCEPT !.buf = more]
  BY DEF Cut, more, w
<1> QED
  BY <1>4, <1>5, <1>6, Zenon

LEMMA CutsExist ==
  ASSUME NEW start \in CutState, NEW bytes \in Seq(Byte)
  PROVE  \E g : Cuts(g, start, bytes)
<1>1. Len(bytes) \in Nat /\ \A i \in 1 .. Len(bytes) : bytes[i] \in Byte
  OBVIOUS
<1> DEFINE n == Len(bytes)
           P == CutState \X (1 .. n)
           T == [u \in P |-> Cut(u[1], bytes[u[2]])]
<1>2. \A u \in P : Cut(u[1], bytes[u[2]]) \in CutState
  <2> SUFFICES ASSUME NEW u \in P
               PROVE  Cut(u[1], bytes[u[2]]) \in CutState
    OBVIOUS
  <2>1. u[1] \in CutState /\ bytes[u[2]] \in Byte
    BY <1>1
  <2> QED
    BY <2>1, CutTyped
<1>3. T \in [CutState \X (1 .. n) -> CutState]
  BY <1>2, Zenon
<1> HIDE DEF T
<1>4. PICK g : /\ g \in [0 .. n -> CutState] /\ g[0] = start
               /\ \A i \in 1 .. n : g[i] = T[<<g[i - 1], i>>]
  <2>1. \E g : Recurs(g, n, CutState, start, T)
    BY <1>1, <1>3, Recursion, Zenon
  <2> QED
    BY <2>1 DEF Recurs
<1>5. \A i \in 1 .. n : g[i] = Cut(g[i - 1], bytes[i])
  <2> SUFFICES ASSUME NEW i \in 1 .. n
               PROVE  g[i] = Cut(g[i - 1], bytes[i])
    OBVIOUS
  <2>1. g[i - 1] \in CutState
    BY <1>1, <1>4
  <2>2. <<g[i - 1], i>> \in P
    BY <2>1
  <2>3. T[<<g[i - 1], i>>] = Cut(g[i - 1], bytes[i])
    BY <2>2 DEF T
  <2> QED
    BY <1>4, <2>3
<1> DEFINE f == [i \in 0 .. n |-> IF i = 0 THEN start ELSE Cut(g[i - 1], bytes[i])]
<1>6. \A i \in 0 .. n : f[i] = g[i]
  <2> SUFFICES ASSUME NEW i \in 0 .. n
               PROVE  f[i] = g[i]
    OBVIOUS
  <2>1. CASE i = 0
    BY <1>4, <2>1
  <2>2. CASE i # 0
    <3>1. i \in 1 .. n
      BY <1>1, <2>2
    <3> QED
      BY <1>5, <2>2, <3>1
  <2> QED
    BY <2>1, <2>2
<1>7. f = [i \in 0 .. n |-> f[i]] /\ g = [i \in 0 .. n |-> g[i]]
  BY <1>4
<1>8. [i \in 0 .. n |-> f[i]] = [i \in 0 .. n |-> g[i]]
  BY <1>6, Zenon
<1>9. g = f
  BY <1>7, <1>8
<1>10. Cuts(g, start, bytes)
  BY <1>9 DEF Cuts
<1> QED
  BY <1>10

\* What follows the first i of the bytes.
LEMMA NextByte ==
  ASSUME NEW B, NEW s \in Seq(B), NEW rest \in Seq(B), NEW i \in 1 .. Len(s)
  PROVE  /\ s[i] \in B /\ SubSeq(s, i + 1, Len(s)) \o rest \in Seq(B)
         /\ SubSeq(s, (i - 1) + 1, Len(s)) \o rest
              = <<s[i]>> \o (SubSeq(s, i + 1, Len(s)) \o rest)
<1> DEFINE h == <<s[i]>>
           t == SubSeq(s, i + 1, Len(s))
<1>1. /\ s[i] \in B /\ Len(s) \in Nat
      /\ h \in Seq(B) /\ Len(h) = 1 /\ h[1] = s[i]
      /\ t \in Seq(B) /\ Len(t) = Len(s) - i
      /\ \A k \in 1 .. Len(s) - i : t[k] = s[i + k]
  OBVIOUS
<1>2. /\ SubSeq(s, i, Len(s)) \in Seq(B) /\ Len(SubSeq(s, i, Len(s))) = Len(s) - i + 1
      /\ \A k \in 1 .. Len(s) - i + 1 : SubSeq(s, i, Len(s))[k] = s[i + k - 1]
  OBVIOUS
<1> HIDE DEF h, t
<1>3. /\ h \o t \in Seq(B) /\ Len(h \o t) = Len(s) - i + 1
      /\ \A k \in 1 .. Len(s) - i + 1 : (h \o t)[k] = IF k = 1 THEN s[i] ELSE t[k - 1]
  <2>1. /\ h \o t \in Seq(B) /\ Len(h \o t) = Len(h) + Len(t)
        /\ \A k \in 1 .. Len(h) + Len(t) :
             (h \o t)[k] = IF k <= Len(h) THEN h[k] ELSE t[k - Len(h)]
    BY <1>1, ConcatProperties
  <2> QED
    BY <1>1, <2>1
<1>4. ASSUME NEW k \in 1 .. Len(s) - i + 1
      PROVE  SubSeq(s, i, Len(s))[k] = (h \o t)[k]
  <2>1. CASE k = 1
    <3>1. i + 1 - 1 = i
      OBVIOUS
    <3>2. (h \o t)[k] = s[i] /\ SubSeq(s, i, Len(s))[k] = s[i + k - 1]
      BY <1>2, <1>3, <2>1
    <3> QED
      BY <2>1, <3>1, <3>2
  <2>2. CASE k # 1
    <3>1. k - 1 \in 1 .. Len(s) - i /\ i + (k - 1) = i + k - 1
      BY <1>1, <2>2
    <3>2. t[k - 1] = s[i + (k - 1)]
      BY <1>1, <3>1
    <3>3. (h \o t)[k] = t[k - 1] /\ SubSeq(s, i, Len(s))[k] = s[i + k - 1]
      BY <1>2, <1>3, <2>2
    <3> QED
      BY <3>1, <3>2, <3>3
  <2> QED
    BY <2>1, <2>2
<1>5. SubSeq(s, i, Len(s)) = h \o t
  BY <1>2, <1>3, <1>4, SeqEqual
<1>6. (h \o t) \o rest = h \o (t \o rest)
  <2>1. h \in Seq(B) /\ t \in Seq(B) /\ rest \in Seq(B)
    BY <1>1
  <2>2. Regroups(h, t, rest)
    BY <2>1, Regroup
  <2> QED
    BY <2>2 DEF Regroups
<1>7. t \o rest \in Seq(B)
  BY <1>1
<1>8. (i - 1) + 1 = i
  OBVIOUS
<1> QED
  BY <1>1, <1>5, <1>6, <1>7, <1>8 DEF h, t

LEMMA CutAllStep ==
  ASSUME accepted \in Seq(Sizes), Len(accepted) <= MaxPackets, Sized,
         NEW f, Joins(f, accepted), NEW out, NEW buf, Cutting(out, buf, accepted),
         NEW bytes \in Seq(Byte), NEW rest \in Seq(Byte),
         NoGap(f, out, buf, bytes \o rest, accepted),
         NEW c, c = CutAll([buf |-> buf, out |-> out], bytes)
  PROVE  Cutting(c.out, c.buf, accepted) /\ NoGap(f, c.out, c.buf, rest, accepted)
<1> DEFINE start == [buf |-> buf, out |-> out]
           n == Len(bytes)
           Left(i) == SubSeq(bytes, i + 1, n) \o rest
           Good(s, i) == /\ s = [buf |-> s.buf, out |-> s.out]
                         /\ Cutting(s.out, s.buf, accepted)
                         /\ NoGap(f, s.out, s.buf, Left(i), accepted)
<1>1. n \in Nat
  OBVIOUS
<1>2. PICK g : Cuts(g, start, bytes)
  <2>1. start \in CutState
    BY DEF CutState, Cutting
  <2> QED
    BY <2>1, CutsExist
<1> HIDE DEF start
<1>3. g[0] = start /\ \A i \in 1 .. n : g[i] = Cut(g[i - 1], bytes[i])
  <2>1. Len(bytes) \in Nat
    OBVIOUS
  <2>2. Stepped(g, start, bytes)
    BY <1>2, <2>1, CutsSteps
  <2> QED
    BY <2>2 DEF Stepped
<1>4. c = g[n]
  BY <1>1, <1>2, CutAllOf DEF start
<1>5. Good(g[0], 0)
  <2>1. Left(0) = bytes \o rest
    <3>1. 0 + 1 = 1 /\ SubSeq(bytes, 1, n) = bytes
      BY <1>1
    <3> QED
      BY <3>1
  <2> HIDE DEF Left
  <2> QED
    <3> DEFINE s == g[0]
    <3>1. s = start
      BY <1>3
    <3>2. s = [buf |-> s.buf, out |-> s.out] /\ s.buf = buf /\ s.out = out
      BY <3>1 DEF start
    <3>3. NoGap(f, s.out, s.buf, Left(0), accepted) /\ Cutting(s.out, s.buf, accepted)
      BY <2>1, <3>2
    <3> QED
      BY <3>2, <3>3
<1>6. ASSUME NEW i \in 1 .. n, Good(g[i - 1], i - 1)
      PROVE  Good(g[i], i)
  <2> DEFINE s == g[i - 1]
             b == bytes[i]
  <2>1. b \in Byte /\ Left(i) \in Seq(Byte) /\ Left(i - 1) = <<b>> \o Left(i)
    BY NextByte
  <2> HIDE DEF Left
  <2>2. /\ s = [buf |-> s.buf, out |-> s.out] /\ Cutting(s.out, s.buf, accepted)
        /\ NoGap(f, s.out, s.buf, <<b>> \o Left(i), accepted)
    BY <1>6, <2>1
  <2>3. g[i] = Cut([buf |-> s.buf, out |-> s.out], b)
    BY <1>3, <2>2
  <2> HIDE DEF s, b
  <2> QED
    BY <2>1, <2>2, <2>3, CutStep
<1> HIDE DEF Good
<1>7. Good(g[n], n)
  <2> DEFINE D == {i \in 0 .. n : ~Good(g[i], i)}
  <2> SUFFICES ASSUME D # {}
               PROVE  FALSE
    BY <1>1
  <2>1. D \in SUBSET Nat
    BY <1>1
  <2>2. PICK i \in D : \A j \in D : i <= j
    BY <2>1, MinExists
  <2>3. i \in 1 .. n /\ i - 1 \in 0 .. n /\ ~(i <= i - 1)
    BY <1>1, <1>5, <2>2
  <2>4. Good(g[i - 1], i - 1)
    BY <2>2, <2>3
  <2>5. Good(g[i], i)
    BY <1>6, <2>3, <2>4
  <2> QED
    BY <2>2, <2>5
<1>8. Left(n) = rest
  BY <1>1
<1> QED
  BY <1>4, <1>7, <1>8 DEF Good

-----------------------------------------------------------------------------
\* g joins the first sequences of ss, as FlattenSeq defines it.
Flat(g, ss) ==
  g = [i \in 1 .. Len(ss) |-> IF i = 1 THEN ss[i] ELSE g[i - 1] \o ss[i]]

LEMMA FlatOnce ==
  ASSUME NEW ss, Len(ss) \in Nat, NEW f, Flat(f, ss), NEW g, Flat(g, ss)
  PROVE  f = g
<1> DEFINE F == [i \in 1 .. Len(ss) |-> IF i = 1 THEN ss[i] ELSE f[i - 1] \o ss[i]]
           G == [i \in 1 .. Len(ss) |-> IF i = 1 THEN ss[i] ELSE g[i - 1] \o ss[i]]
           D == {i \in 1 .. Len(ss) : F[i] # G[i]}
<1>1. f = F /\ g = G
  BY DEF Flat
<1>2. D = {}
  <2> SUFFICES ASSUME D # {}
               PROVE  FALSE
    OBVIOUS
  <2>1. D \in SUBSET Nat
    OBVIOUS
  <2>2. PICK n \in D : \A i \in D : n <= i
    BY <2>1, MinExists
  <2>3. n \in 1 .. Len(ss) /\ F[n] # G[n]
    BY <2>2
  <2>4. n # 1 /\ F[n] = f[n - 1] \o ss[n] /\ G[n] = g[n - 1] \o ss[n]
    BY <2>3
  <2>5. n - 1 \in 1 .. Len(ss) /\ ~(n <= n - 1)
    BY <2>3, <2>4
  <2>6. F[n - 1] = G[n - 1]
    BY <2>2, <2>5
  <2> HIDE DEF F, G
  <2>7. f[n - 1] = g[n - 1]
    BY <1>1, <2>6
  <2> QED
    BY <2>3, <2>4, <2>7
<1>3. \A i \in 1 .. Len(ss) : F[i] = G[i]
  BY <1>2
<1>4. F = [i \in 1 .. Len(ss) |-> F[i]] /\ G = [i \in 1 .. Len(ss) |-> G[i]]
  OBVIOUS
<1> HIDE DEF F, G
<1>5. [i \in 1 .. Len(ss) |-> F[i]] = [i \in 1 .. Len(ss) |-> G[i]]
  BY <1>3, Zenon
<1> QED
  BY <1>1, <1>4, <1>5

LEMMA Flattened ==
  ASSUME NEW B, NEW ss \in Seq(Seq(B)), NEW f, f[0] = <<>>,
         \A i \in 1 .. Len(ss) : f[i] = f[i - 1] \o ss[i]
  PROVE  FlattenSeq(ss) = f[Len(ss)]
<1>1. Len(ss) \in Nat /\ \A i \in 1 .. Len(ss) : ss[i] \in Seq(B)
  OBVIOUS
<1>2. CASE Len(ss) = 0
  <2>1. ss = <<>>
    BY <1>2
  <2> QED
    BY <1>2, <2>1 DEF FlattenSeq
<1>3. CASE Len(ss) # 0
  <2> DEFINE h == [i \in 1 .. Len(ss) |-> f[i]]
             H == [i \in 1 .. Len(ss) |-> IF i = 1 THEN ss[i] ELSE h[i - 1] \o ss[i]]
             g == CHOOSE g : Flat(g, ss)
  <2>1. ASSUME NEW i \in 1 .. Len(ss)
        PROVE  f[i] = IF i = 1 THEN ss[i] ELSE h[i - 1] \o ss[i]
    <3>1. CASE i = 1
      <4>1. f[1] = f[0] \o ss[1] /\ ss[1] \in Seq(B)
        <5>1. 1 \in 1 .. Len(ss) /\ 1 - 1 = 0
          BY <1>1, <1>3
        <5> QED
          BY <1>1, <5>1
      <4> QED
        BY <3>1, <4>1
    <3>2. CASE i # 1
      <4>1. i - 1 \in 1 .. Len(ss)
        BY <1>1, <3>2
      <4>2. h[i - 1] = f[i - 1]
        BY <4>1
      <4> QED
        BY <3>2, <4>2
    <3> QED
      BY <3>1, <3>2
  <2>2. h = H
    BY <2>1, Zenon
  <2>3. Flat(h, ss)
    BY <2>2 DEF Flat
  <2>4. \A k : Flat(k, ss) => k = h
    BY <1>1, <2>3, FlatOnce
  <2> HIDE DEF h, H
  <2>5. g = h
    BY <2>3, <2>4, Zenon
  <2>6. FlattenSeq(ss) = g[Len(ss)]
    BY <1>3 DEF FlattenSeq, Flat
  <2>7. h[Len(ss)] = f[Len(ss)]
    BY <1>1, <1>3 DEF h
  <2> QED
    BY <2>5, <2>6, <2>7
<1> QED
  BY <1>2, <1>3

AnyOrder(s, t, u, v) == ((s \o t) \o u) \o v = s \o (t \o (u \o v))

LEMMA FourParts ==
  ASSUME NEW B, NEW s \in Seq(B), NEW t \in Seq(B), NEW u \in Seq(B), NEW v \in Seq(B)
  PROVE  AnyOrder(s, t, u, v)
<1>1. Regroups(s, t, u) /\ Regroups(t, u, v)
  BY Regroup
<1>2. t \o u \in Seq(B)
  OBVIOUS
<1> DEFINE r == t \o u
<1> HIDE DEF r
<1>3. Regroups(s, r, v)
  BY <1>2, Regroup DEF r
<1>4. (s \o r) \o v = s \o (r \o v)
  BY <1>3 DEF Regroups
<1>5. (s \o t) \o u = s \o r /\ r \o v = t \o (u \o v)
  BY <1>1 DEF Regroups, r
<1> QED
  BY <1>4, <1>5 DEF AnyOrder

LEMMA WholeImplies == WholeInv => Whole
<1> HAVE WholeInv
<1> DEFINE a == accepted
           d == Len(delivered)
           all == [i \in DOMAIN a |-> Bytes(i)]
<1>1. /\ StreamTypeOK /\ Cutting(delivered, recvBuf, a) /\ Sized
      /\ a \in Seq(Sizes) /\ Len(a) <= MaxPackets
  BY DEF WholeInv, Pieces, StreamTypeOK
<1>2. PICK f : /\ Joins(f, a)
               /\ sock \in {"none", "pending", "up"} =>
                    NoGap(f, delivered, recvBuf, Rest, a)
  BY DEF WholeInv, Pieces
<1>3. /\ delivered \in Seq(Seq(Byte)) /\ recvBuf \in Seq(Byte) /\ d \in Nat /\ d <= Len(a)
      /\ Len(a) \in Nat /\ DOMAIN a = 1 .. Len(a) /\ DOMAIN delivered = 1 .. d
      /\ \A i \in 1 .. d : delivered[i] = Bytes(i)
  BY <1>1 DEF Cutting, Bytes
<1>4. \A i \in 1 .. Len(a) : Bytes(i) \in Seq(Byte)
  BY <1>1, PacketBytes DEF Sized, Bytes
<1>5. all \in Seq(Seq(Byte)) /\ Len(all) = Len(a) /\ \A i \in 1 .. Len(a) : all[i] = Bytes(i)
  BY <1>3, <1>4
<1>6. /\ f[0] = <<>> /\ \A i \in 0 .. Len(a) : f[i] \in Seq(Byte)
      /\ \A i \in 1 .. Len(a) : f[i] = f[i - 1] \o Bytes(i)
  BY <1>2 DEF Joins, Bytes
<1>7. FlattenSeq(delivered) = f[d]
  <2>1. \A i \in 1 .. d : f[i] = f[i - 1] \o delivered[i]
    <3> SUFFICES ASSUME NEW i \in 1 .. d
                 PROVE  f[i] = f[i - 1] \o delivered[i]
      OBVIOUS
    <3>1. i \in 1 .. Len(a) /\ delivered[i] = Bytes(i)
      BY <1>3
    <3> QED
      BY <1>6, <3>1
  <2> QED
    BY <1>3, <1>6, <2>1, Flattened
<1>8. FlattenSeq(all) = f[Len(a)]
  <2>1. \A i \in 1 .. Len(all) : f[i] = f[i - 1] \o all[i]
    BY <1>5, <1>6
  <2> HIDE DEF all
  <2> QED
    BY <1>5, <1>6, <2>1, Flattened
<1>9. ASSUME sock \in {"none", "pending", "up"}
      PROVE  FlattenSeq(delivered) \o recvBuf \o wire
               \o SubSeq(sendBuf, written + 1, Len(sendBuf)) = FlattenSeq(all)
  <2> DEFINE left == SubSeq(sendBuf, written + 1, Len(sendBuf))
  <2>1. wire \in Seq(Byte) /\ sendBuf \in Seq(Byte) /\ written \in Nat
    BY <1>1 DEF StreamTypeOK
  <2>2. left \in Seq(Byte)
    BY <2>1
  <2>3. f[d] \in Seq(Byte)
    BY <1>3, <1>6
  <2>4. f[d] \o (recvBuf \o (wire \o left)) = f[Len(a)]
    BY <1>2, <1>9 DEF NoGap, Rest
  <2> DEFINE F == f[d]
  <2> HIDE DEF left, F
  <2>5. ((F \o recvBuf) \o wire) \o left = F \o (recvBuf \o (wire \o left))
    <3>1. F \in Seq(Byte) /\ recvBuf \in Seq(Byte) /\ wire \in Seq(Byte) /\ left \in Seq(Byte)
      BY <1>3, <2>1, <2>2, <2>3 DEF F
    <3>2. AnyOrder(F, recvBuf, wire, left)
      BY <3>1, FourParts
    <3> QED
      BY <3>2 DEF AnyOrder
  <2> QED
    BY <1>7, <1>8, <2>4, <2>5 DEF F, left
<1> QED
  <2>1. \A i \in DOMAIN delivered : i \in DOMAIN accepted /\ delivered[i] = Bytes(i)
    BY <1>3
  <2> HIDE DEF a, d
  <2> QED
    BY <1>1, <1>9, <2>1 DEF Whole, all, a

-----------------------------------------------------------------------------
LEMMA WholeInit == StreamInit => WholeInv
<1> HAVE StreamInit
<1> DEFINE a == accepted
<1>1. a = <<>> /\ Len(a) = 0 /\ delivered = <<>> /\ recvBuf = <<>> /\ wire = <<>>
      /\ sendBuf = <<>> /\ written = 0 /\ poller = "poll"
  BY DEF StreamInit
<1>2. <<>> \in Seq(Byte) /\ <<>> \in Seq(Seq(Byte)) /\ <<>> \in Seq(Sizes)
  OBVIOUS
<1>3. StreamTypeOK
  <2>1. /\ fdSet \in FdSets /\ isConnected \in BOOLEAN /\ timer \in BOOLEAN /\ unarmed \in BOOLEAN
        /\ {event, seen, ready, known} \subseteq SUBSET Events
    BY DEF StreamInit
  <2>2. /\ Len(sendBuf) = 0 /\ Len(wire) = 0 /\ Len(recvBuf) = 0 /\ Len(a) = 0
        /\ 0 <= SENDBUF_SIZE /\ 0 <= Wire /\ 0 < RECVBUF_SIZE /\ 0 <= MaxPackets
        /\ 0 \in 0 .. SENDBUF_SIZE
    BY <1>1, StreamAssumption
  <2>3. sock = "none" /\ sender = "idle"
    BY DEF StreamInit
  <2> QED
    BY <1>1, <1>2, <2>1, <2>2, <2>3 DEF StreamTypeOK
<1>4. Phase
  BY DEF StreamInit, Phase
<1>5. Sized
  BY <1>1 DEF Sized
<1>6. Cutting(<<>>, <<>>, <<>>)
  BY <1>2 DEF Cutting, Piece
<1> DEFINE f == [i \in 0 .. 0 |-> <<>>]
<1>7. Joins(f, <<>>)
  <2>1. \A i \in 0 .. 0 : \E z \in Seq(Byte) : f[0] = f[i] \o z
    <3> SUFFICES ASSUME NEW i \in 0 .. 0
                 PROVE  \E z \in Seq(Byte) : f[0] = f[i] \o z
      OBVIOUS
    <3>1. f[0] = <<>> /\ f[i] = <<>>
      OBVIOUS
    <3> HIDE DEF f
    <3>2. f[0] = f[i] \o <<>>
      BY <3>1
    <3> QED
      BY <1>2, <3>2
  <2> QED
    BY <1>2, <2>1 DEF Joins
<1>8. NoGap(f, delivered, recvBuf, Rest, a)
  <2>1. Rest = <<>>
    BY <1>1 DEF Rest
  <2> QED
    BY <1>1, <2>1 DEF NoGap
<1> HIDE DEF f
<1>9. Pieces
  BY <1>1, <1>5, <1>6, <1>7, <1>8 DEF Pieces
<1> QED
  BY <1>3, <1>4, <1>9 DEF WholeInv

\* A step that adds no packet and takes none out of the bytes.
LEMMA PiecesKept ==
  ASSUME Pieces, UNCHANGED <<accepted, delivered>>, recvBuf' = recvBuf \/ recvBuf' = <<>>,
         sock' \in {"none", "pending", "up"} \/ timer' =>
           /\ sock \in {"none", "pending", "up"} \/ timer
           /\ recvBuf' = recvBuf /\ Rest' = Rest
  PROVE  Pieces'
<1>1. Sized' /\ Cutting(delivered', recvBuf', accepted')
  <2>1. Cutting(delivered, recvBuf, accepted) /\ Sized
    BY DEF Pieces
  <2>2. Cutting(delivered, <<>>, accepted)
    <3>1. <<>> \in Seq(Byte) /\ Piece(<<>>, Len(delivered), accepted)
      BY DEF Piece
    <3> QED
      BY <2>1, <3>1 DEF Cutting
  <2>3. Cutting(delivered, recvBuf', accepted)
    BY <2>1, <2>2
  <2> QED
    BY <2>1, <2>3 DEF Sized
<1>2. PICK f : /\ Joins(f, accepted)
               /\ sock \in {"none", "pending", "up"} \/ timer =>
                    NoGap(f, delivered, recvBuf, Rest, accepted)
  BY DEF Pieces
<1>3. sock' \in {"none", "pending", "up"} \/ timer' =>
        NoGap(f, delivered', recvBuf', Rest', accepted')
  BY <1>2
<1>4. Joins(f, accepted')
  BY <1>2
<1> QED
  BY <1>1, <1>3, <1>4 DEF Pieces

\* The steps that move no byte.
Quietly ==
  \/ ReadEvents \/ Arm \/ Establish \/ Refuse \/ Poll \/ DispatchRead
  \/ DispatchWrite \/ Clear \/ OnSocketConnect \/ Rearm \/ Rearmed

LEMMA QuietType ==
  ASSUME StreamTypeOK, Quietly
  PROVE  StreamTypeOK'
<1>1. /\ fdSet \in FdSets /\ {event, seen, ready, known} \subseteq SUBSET Events
      /\ UNCHANGED <<fdSet, wire, recvBuf, sendBuf, accepted, delivered, written>>
      /\ READ \in Events /\ WRITE \in Events
  BY DEF StreamTypeOK, Quietly, Events, ReadEvents, Arm, Establish, Refuse, Poll, DispatchRead, DispatchWrite, Clear, OnSocketConnect, Rearm, Rearmed, senderVars, pollVars
<1>2. CASE ReadEvents
  BY <1>1, <1>2 DEF StreamTypeOK, ReadEvents, senderVars, pollVars
<1>3. CASE Arm
  BY <1>1, <1>3 DEF StreamTypeOK, Arm, senderVars, pollVars
<1>4. CASE Establish
  BY <1>1, <1>4 DEF StreamTypeOK, Establish, senderVars, pollVars
<1>5. CASE Refuse
  BY <1>1, <1>5 DEF StreamTypeOK, Refuse, senderVars, pollVars
<1>6. CASE Poll
  BY <1>1, <1>6 DEF StreamTypeOK, Poll, senderVars, pollVars, EventsReady
<1>7. CASE DispatchRead
  BY <1>1, <1>7 DEF StreamTypeOK, DispatchRead, senderVars, pollVars
<1>8. CASE DispatchWrite
  BY <1>1, <1>8 DEF StreamTypeOK, DispatchWrite, senderVars, pollVars
<1>9. CASE Clear
  BY <1>1, <1>9 DEF StreamTypeOK, Clear, senderVars, pollVars
<1>10. CASE OnSocketConnect
  BY <1>1, <1>10 DEF StreamTypeOK, OnSocketConnect, senderVars, pollVars
<1>11. CASE Rearm
  BY <1>1, <1>11 DEF StreamTypeOK, Rearm, senderVars, pollVars
<1>12. CASE Rearmed
  BY <1>1, <1>12 DEF StreamTypeOK, Rearmed, senderVars, pollVars
<1> QED
  BY <1>2, <1>3, <1>4, <1>5, <1>6, <1>7, <1>8, <1>9, <1>10, <1>11, <1>12 DEF Quietly

LEMMA QuietPhase ==
  ASSUME StreamTypeOK, Phase, Quietly
  PROVE  Phase' 
<1>1. CASE ReadEvents
  BY <1>1 DEF StreamTypeOK, Phase, ReadEvents, senderVars, pollVars
<1>2. CASE Arm
  BY <1>2 DEF StreamTypeOK, Phase, Arm, senderVars, pollVars
<1>3. CASE Establish
  BY <1>3 DEF StreamTypeOK, Phase, Establish, senderVars, pollVars
<1>4. CASE Refuse
  BY <1>4 DEF StreamTypeOK, Phase, Refuse, senderVars, pollVars
<1>5. CASE Poll
  BY <1>5 DEF StreamTypeOK, Phase, Poll, senderVars, pollVars, EventsReady
<1>6. CASE DispatchRead
  BY <1>6 DEF StreamTypeOK, Phase, DispatchRead, senderVars, pollVars
<1>7. CASE DispatchWrite
  BY <1>7 DEF StreamTypeOK, Phase, DispatchWrite, senderVars, pollVars
<1>8. CASE Clear
  BY <1>8 DEF StreamTypeOK, Phase, Clear, senderVars, pollVars
<1>9. CASE OnSocketConnect
  BY <1>9 DEF StreamTypeOK, Phase, OnSocketConnect, senderVars, pollVars
<1>10. CASE Rearm
  BY <1>10 DEF StreamTypeOK, Phase, Rearm, senderVars, pollVars
<1>11. CASE Rearmed
  BY <1>11 DEF StreamTypeOK, Phase, Rearmed, senderVars, pollVars
<1> QED
  BY <1>1, <1>2, <1>3, <1>4, <1>5, <1>6, <1>7, <1>8, <1>9, <1>10, <1>11 DEF Quietly

LEMMA QuietWhole == WholeInv /\ Quietly => WholeInv'
<1> SUFFICES ASSUME WholeInv, Quietly
             PROVE  WholeInv'
  OBVIOUS
<1>1. StreamTypeOK /\ Phase /\ Pieces
  BY DEF WholeInv
<1>2. /\ UNCHANGED <<accepted, delivered, recvBuf, wire, sendBuf, written>>
      /\ sock' \in {"none", "pending", "up"} \/ timer' =>
           sock \in {"none", "pending", "up"} \/ timer
  BY <1>1 DEF Quietly, ReadEvents, Arm, Establish, Refuse, Poll, DispatchRead, DispatchWrite,
              Clear, OnSocketConnect, Rearm, Rearmed, pollVars, senderVars
<1>3. Rest' = Rest
  BY <1>2 DEF Rest
<1>4. Pieces'
  BY <1>1, <1>2, <1>3, PiecesKept
<1> QED
  BY <1>1, <1>4, QuietType, QuietPhase DEF WholeInv

LEMMA ConnectWhole == WholeInv /\ (Connect \/ PollTimeout) => WholeInv'
<1> SUFFICES ASSUME WholeInv, Connect \/ PollTimeout
             PROVE  WholeInv'
  OBVIOUS
<1>1. StreamTypeOK /\ Phase /\ Pieces
  BY DEF WholeInv
<1>2. /\ Reconnect /\ (sock = "none" \/ timer) /\ poller = "poll"
      /\ UNCHANGED <<fdSet, sendBuf, senderVars, pollVars, accepted, delivered>>
  BY <1>1 DEF Connect, PollTimeout, Phase
<1>3. wire = <<>> /\ recvBuf = <<>> /\ delivered = <<>> /\ poller = "poll"
  BY <1>1, <1>2 DEF Phase
<1>4. /\ wire' = wire /\ recvBuf' = recvBuf
      /\ sock' \in {"up", "pending", "failed"} /\ isConnected' \in BOOLEAN /\ timer' \in BOOLEAN
      /\ event' \in {{READ}, {WRITE}, {}}
  <2>1. Reconnect
    BY <1>2
  <2>2. wire' = <<>> /\ recvBuf' = <<>>
    BY <2>1 DEF Reconnect
  <2>3. /\ sock' \in {"up", "pending", "failed"}
        /\ isConnected' = TRUE \/ isConnected' = FALSE
        /\ timer' = TRUE \/ timer' = FALSE
        /\ event' \in {{READ}, {WRITE}, {}}
    BY <2>1 DEF Reconnect
  <2> QED
    BY <1>3, <2>2, <2>3
<1>5. StreamTypeOK'
  <2>1. unarmed' \in BOOLEAN
    <3>1. unarmed \in BOOLEAN /\ (unarmed' = unarmed \/ unarmed' = (unarmed \/ sendBuf # <<>>))
      BY <1>1, <1>2 DEF StreamTypeOK, Reconnect
    <3> QED
      BY <3>1, Zenon
  <2>2. event' \in SUBSET Events
    BY <1>4 DEF Events
  <2> QED
    BY <1>1, <1>2, <1>4, <2>1, <2>2 DEF StreamTypeOK, senderVars, pollVars
<1>6. Phase'
  BY <1>1, <1>2, <1>3, <1>4 DEF Phase, pollVars
<1>7. Rest' = Rest
  BY <1>2, <1>4 DEF Rest, pollVars
<1>8. Pieces'
  BY <1>1, <1>2, <1>4, <1>7, PiecesKept
<1> QED
  BY <1>5, <1>6, <1>8 DEF WholeInv

LEMMA CloseWhole == WholeInv /\ PeerCloses => WholeInv'
<1> SUFFICES ASSUME WholeInv, PeerCloses
             PROVE  WholeInv'
  OBVIOUS
<1>1. StreamTypeOK /\ Phase /\ Pieces
  BY DEF WholeInv
<1>2. StreamTypeOK'
  <2>1. <<>> \in Seq(Byte) /\ Len(<<>>) = 0 /\ 0 <= Wire /\ 0 < RECVBUF_SIZE
    BY StreamAssumption
  <2> QED
    BY <1>1, <2>1 DEF StreamTypeOK, PeerCloses, senderVars, pollVars
<1>3. Phase'
  BY <1>1 DEF StreamTypeOK, Phase, PeerCloses, senderVars, pollVars
<1>4. /\ UNCHANGED <<accepted, delivered, sendBuf, written, timer>>
      /\ recvBuf' = <<>> /\ wire' = <<>> /\ sock' = "lost"
  BY DEF PeerCloses, pollVars
<1>5. timer' => recvBuf' = recvBuf /\ wire' = wire
  BY <1>1, <1>4 DEF Phase
<1>6. timer' => Rest' = Rest
  BY <1>4, <1>5 DEF Rest
<1>7. Pieces'
  BY <1>1, <1>4, <1>5, <1>6, PiecesKept
<1> QED
  BY <1>2, <1>3, <1>7 DEF WholeInv

\* The bytes that send() took go on, and the others wait.
LEMMA SendRest ==
  ASSUME NEW B, NEW w \in Seq(B), NEW s \in Seq(B), NEW n \in 1 .. Len(s)
  PROVE  /\ w \o SubSeq(s, 1, n) \in Seq(B) /\ Len(w \o SubSeq(s, 1, n)) = Len(w) + n
         /\ (w \o SubSeq(s, 1, n)) \o SubSeq(s, n + 1, Len(s)) = w \o s
<1> DEFINE h == SubSeq(s, 1, n)
           t == SubSeq(s, n + 1, Len(s))
<1>1. h \in Seq(B) /\ Len(h) = n /\ \A k \in 1 .. n : h[k] = s[k]
  OBVIOUS
<1>2. /\ t \in Seq(B) /\ Len(t) = Len(s) - n /\ Len(s) \in Nat
      /\ \A k \in 1 .. Len(s) - n : t[k] = s[n + k]
  OBVIOUS
<1> HIDE DEF h, t
<1>3. /\ h \o t \in Seq(B) /\ Len(h \o t) = Len(h) + Len(t)
      /\ \A k \in 1 .. Len(h) + Len(t) :
           (h \o t)[k] = IF k <= Len(h) THEN h[k] ELSE t[k - Len(h)]
  BY <1>1, <1>2, ConcatProperties
<1>4. ASSUME NEW k \in 1 .. Len(s)
      PROVE  (h \o t)[k] = s[k]
  <2>1. CASE k <= n
    BY <1>1, <1>2, <1>3, <2>1
  <2>2. CASE ~(k <= n)
    <3>1. k - n \in 1 .. Len(s) - n /\ n + (k - n) = k
      BY <1>2, <2>2
    <3>2. (h \o t)[k] = t[k - n]
      BY <1>1, <1>2, <1>3, <2>2
    <3> QED
      BY <1>2, <3>1, <3>2
  <2> QED
    BY <2>1, <2>2
<1>5. h \o t = s
  <2>1. Len(h \o t) = Len(s)
    BY <1>1, <1>2, <1>3
  <2> QED
    BY <1>3, <1>4, <2>1, SeqEqual
<1>6. (w \o h) \o t = w \o (h \o t)
  <2>1. w \in Seq(B) /\ h \in Seq(B) /\ t \in Seq(B)
    BY <1>1, <1>2
  <2>2. Regroups(w, h, t)
    BY <2>1, Regroup
  <2> QED
    BY <2>2 DEF Regroups
<1>7. w \o h \in Seq(B) /\ Len(w \o h) = Len(w) + n
  BY <1>1
<1> QED
  BY <1>5, <1>6, <1>7 DEF h, t

LEMMA SendWhole == WholeInv /\ Send => WholeInv'
<1> SUFFICES ASSUME WholeInv, Send
             PROVE  WholeInv'
  OBVIOUS
<1>1. StreamTypeOK /\ Phase /\ Pieces
  BY DEF WholeInv
<1>2. /\ UNCHANGED <<fdSet, sock, isConnected, event, timer, sendBuf, recvBuf, sender, seen,
                     ready, known, accepted, delivered, unarmed>>
      /\ poller = "sending"
  BY DEF Send, senderVars
<1>3. ~timer /\ sock # "none" /\ sock # "pending" /\ written = 0
  BY <1>1, <1>2 DEF Phase, StreamTypeOK
<1>4. /\ wire \in Seq(Byte) /\ sendBuf \in Seq(Byte) /\ Len(wire) <= Wire
      /\ Len(wire) \in Nat /\ Len(sendBuf) \in Nat /\ Len(sendBuf) <= SENDBUF_SIZE
      /\ Wire \in Nat /\ SENDBUF_SIZE \in Nat
  BY <1>1, StreamAssumption DEF StreamTypeOK
<1>5. CASE sendBuf = <<>>
  <2>1. poller' = "poll" /\ UNCHANGED <<wire, written>>
    BY <1>5 DEF Send
  <2>2. StreamTypeOK'
    BY <1>1, <1>2, <2>1 DEF StreamTypeOK
  <2>3. Phase'
    BY <1>1, <1>2, <1>3, <2>1 DEF Phase
  <2>4. Rest' = Rest
    BY <1>2, <2>1 DEF Rest
  <2> QED
    BY <1>1, <1>2, <2>2, <2>3, <2>4, PiecesKept DEF WholeInv
<1>6. ASSUME poller' = "sent", sock = "up",
             NEW n \in 1 .. Wire - Len(wire), n <= Len(sendBuf),
             written' = n, wire' = wire \o SubSeq(sendBuf, 1, n)
      PROVE  WholeInv'
  <2>1. n \in 1 .. Len(sendBuf) /\ n \in 0 .. SENDBUF_SIZE /\ Len(wire) + n <= Wire
    BY <1>4, <1>6
  <2>2. /\ wire' \in Seq(Byte) /\ Len(wire') = Len(wire) + n
        /\ wire' \o SubSeq(sendBuf, n + 1, Len(sendBuf)) = wire \o sendBuf
    BY <1>4, <1>6, <2>1, SendRest
  <2>3. StreamTypeOK'
    BY <1>1, <1>2, <1>6, <2>1, <2>2 DEF StreamTypeOK
  <2>4. Phase'
    BY <1>1, <1>2, <1>3, <1>6, <2>1 DEF Phase
  <2>5. Rest' = Rest
    <3>1. SubSeq(sendBuf, 0 + 1, Len(sendBuf)) = sendBuf
      BY <1>4
    <3>2. Rest = wire \o sendBuf
      BY <1>3, <3>1 DEF Rest
    <3>3. Rest' = wire' \o SubSeq(sendBuf, n + 1, Len(sendBuf))
      BY <1>2, <1>6 DEF Rest
    <3> QED
      BY <2>2, <3>2, <3>3
  <2> QED
    BY <1>1, <1>2, <2>3, <2>4, <2>5, PiecesKept DEF WholeInv
<1>7. CASE poller' = "sent" /\ Broken /\ UNCHANGED wire
           /\ written' \in {0} \cup {Len(sendBuf) : b \in {sock} \cap {"lost"}}
  <2>1. written' \in 0 .. Len(sendBuf) /\ written' \in 0 .. SENDBUF_SIZE
    BY <1>4, <1>7
  <2>2. StreamTypeOK'
    BY <1>1, <1>2, <1>7, <2>1 DEF StreamTypeOK
  <2>3. Phase'
    BY <1>1, <1>2, <1>3, <1>7, <2>1 DEF Phase
  <2>4. sock' \notin {"none", "pending", "up"} /\ ~timer'
    BY <1>2, <1>3, <1>7 DEF Broken
  <2>5. Pieces'
    BY <1>1, <1>2, <2>4, PiecesKept
  <2> QED
    BY <2>2, <2>3, <2>5 DEF WholeInv
<1> QED
  BY <1>5, <1>6, <1>7 DEF Send

LEMMA ShrinkWhole == WholeInv /\ Shrink => WholeInv'
<1> SUFFICES ASSUME WholeInv, Shrink
             PROVE  WholeInv'
  OBVIOUS
<1>1. StreamTypeOK /\ Phase /\ Pieces
  BY DEF WholeInv
<1> DEFINE left == SubSeq(sendBuf, written + 1, Len(sendBuf))
<1>2. /\ UNCHANGED <<fdSet, sock, isConnected, event, timer, wire, recvBuf, sender, seen,
                     ready, known, accepted, delivered, unarmed>>
      /\ poller = "sent" /\ poller' = "rearm" /\ sendBuf' = left /\ written' = 0
  BY DEF Shrink, senderVars
<1>3. /\ sendBuf \in Seq(Byte) /\ Len(sendBuf) \in Nat /\ Len(sendBuf) <= SENDBUF_SIZE
      /\ written \in 0 .. Len(sendBuf) /\ SENDBUF_SIZE \in Nat
  BY <1>1, StreamAssumption DEF StreamTypeOK, Phase
<1>4. left \in Seq(Byte) /\ Len(left) \in Nat /\ Len(left) = Len(sendBuf) - written
      /\ SubSeq(left, 0 + 1, Len(left)) = left
  BY <1>3
<1> HIDE DEF left
<1>5. StreamTypeOK'
  <2>1. Len(left) <= SENDBUF_SIZE /\ 0 \in 0 .. SENDBUF_SIZE
    BY <1>3, <1>4
  <2> QED
    BY <1>1, <1>2, <1>4, <2>1 DEF StreamTypeOK
<1>6. Phase'
  BY <1>1, <1>2, <1>4 DEF Phase
<1>7. Rest' = Rest
  BY <1>2, <1>4 DEF Rest, left
<1> QED
  BY <1>1, <1>2, <1>5, <1>6, <1>7, PiecesKept DEF WholeInv

LEMMA ReceiveWhole == WholeInv /\ Receive => WholeInv'
<1> SUFFICES ASSUME WholeInv, Receive
             PROVE  WholeInv'
  OBVIOUS
<1>1. StreamTypeOK /\ Phase /\ Pieces
  BY DEF WholeInv
<1> DEFINE c(n) == CutAll([buf |-> recvBuf, out |-> delivered], SubSeq(wire, 1, n))
<1>2. PICK n \in 1 .. Len(wire) :
        /\ wire' = SubSeq(wire, n + 1, Len(wire))
        /\ recvBuf' = c(n).buf /\ delivered' = c(n).out
  BY DEF Receive
<1>3. /\ UNCHANGED <<fdSet, sock, isConnected, event, timer, sendBuf, sender, seen,
                     poller, ready, known, written, accepted, unarmed>>
      /\ sock = "up"
  BY DEF Receive, senderVars, pollVars
<1> DEFINE bytes == SubSeq(wire, 1, n)
           left == SubSeq(sendBuf, written + 1, Len(sendBuf))
           s == c(n)
<1>4. /\ wire \in Seq(Byte) /\ Len(wire) \in Nat /\ sendBuf \in Seq(Byte) /\ written \in Nat
      /\ accepted \in Seq(Sizes) /\ Len(accepted) <= MaxPackets /\ Sized
      /\ Cutting(delivered, recvBuf, accepted)
  BY <1>1 DEF StreamTypeOK, Pieces
<1>5. /\ bytes \in Seq(Byte) /\ wire' \in Seq(Byte) /\ left \in Seq(Byte)
      /\ Len(wire') = Len(wire) - n /\ wire' \o left \in Seq(Byte)
  BY <1>2, <1>4
<1>6. bytes \o (wire' \o left) = Rest
  <2>1. bytes \o wire' = wire
    <3>1. <<>> \in Seq(Byte)
      OBVIOUS
    <3>2. (<<>> \o bytes) \o wire' = <<>> \o wire
      BY <1>2, <1>4, <3>1, SendRest
    <3> QED
      BY <1>4, <1>5, <3>2
  <2>2. Regroups(bytes, wire', left)
    BY <1>5, Regroup
  <2> QED
    BY <2>1, <2>2 DEF Regroups, Rest
<1>7. PICK f : Joins(f, accepted) /\ NoGap(f, delivered, recvBuf, Rest, accepted)
  BY <1>1, <1>3 DEF Pieces
<1>8. s = CutAll([buf |-> recvBuf, out |-> delivered], bytes)
  OBVIOUS
<1> DEFINE rest == wire' \o left
<1> HIDE DEF bytes, left, s, c, rest
<1>9. /\ rest \in Seq(Byte) /\ NoGap(f, delivered, recvBuf, bytes \o rest, accepted)
  BY <1>5, <1>6, <1>7 DEF rest
<1>10. Cutting(s.out, s.buf, accepted) /\ NoGap(f, s.out, s.buf, rest, accepted)
  BY <1>4, <1>5, <1>7, <1>8, <1>9, CutAllStep
<1>11. recvBuf' = s.buf /\ delivered' = s.out
  BY <1>2 DEF s
<1>12. Rest' = rest
  BY <1>3 DEF Rest, rest, left
<1>13. Sized'
  BY <1>3, <1>4 DEF Sized
<1>14. Cutting(delivered', recvBuf', accepted')
  BY <1>3, <1>10, <1>11
<1>15. NoGap(f, delivered', recvBuf', Rest', accepted')
  BY <1>3, <1>10, <1>11, <1>12
<1>16. Pieces'
  BY <1>3, <1>7, <1>13, <1>14, <1>15 DEF Pieces
<1>17. Len(recvBuf') < RECVBUF_SIZE
  <2> DEFINE a == accepted
             d == Len(s.out)
  <2>1. /\ s.out \in Seq(Seq(Byte)) /\ s.buf \in Seq(Byte) /\ Len(s.out) <= Len(a)
        /\ Piece(s.buf, d, a)
    BY <1>10 DEF Cutting
  <2>2. CASE s.buf = <<>>
    BY <1>11, <2>2, StreamAssumption
  <2>3. CASE d < Len(a) /\ Len(s.buf) < a[d + 1] + Header
    <3>1. d + 1 \in 1 .. Len(a)
      BY <1>4, <2>1, <2>3
    <3> HIDE DEF d
    <3>2. a[d + 1] \in Sizes
      BY <1>4, <3>1
    <3>3. a[d + 1] + Header <= RECVBUF_SIZE /\ a[d + 1] \in Nat /\ RECVBUF_SIZE \in Nat
      BY <3>2, StreamAssumption
    <3>4. Len(s.buf) \in Nat
      BY <2>1
    <3> QED
      BY <1>11, <2>3, <3>3, <3>4 DEF Header
  <2> QED
    BY <2>1, <2>2, <2>3 DEF Piece
<1>18. StreamTypeOK'
  <2>1. delivered' \in Seq(Seq(Byte)) /\ recvBuf' \in Seq(Byte)
    BY <1>14 DEF Cutting
  <2>2. Len(wire') <= Wire
    BY <1>1, <1>4, <1>5, StreamAssumption DEF StreamTypeOK
  <2> QED
    BY <1>1, <1>3, <1>5, <1>17, <2>1, <2>2 DEF StreamTypeOK
<1>19. Phase'
  <2>1. wire # <<>>
    BY <1>2
  <2>2. ~timer
    BY <1>1, <2>1 DEF Phase
  <2> QED
    BY <1>1, <1>3, <2>2 DEF Phase
<1> QED
  BY <1>16, <1>18, <1>19 DEF WholeInv

-----------------------------------------------------------------------------
\* A packet more.
LEMMA JoinsMore ==
  ASSUME NEW a \in Seq(Sizes), NEW f, Joins(f, a), NEW n \in Sizes,
         NEW p \in Seq(Byte), p = BytesOf(Len(a) + 1, n)
  PROVE  \E g : /\ Joins(g, Append(a, n))
                /\ \A i \in 0 .. Len(a) : g[i] = f[i]
                /\ g[Len(a) + 1] = f[Len(a)] \o p
<1> DEFINE m == Len(a)
           b == Append(a, n)
           g == [i \in 0 .. m + 1 |-> IF i = m + 1 THEN f[m] \o p ELSE f[i]]
<1>1. /\ m \in Nat /\ b \in Seq(Sizes) /\ Len(b) = m + 1 /\ b[m + 1] = n
      /\ \A i \in 1 .. m : b[i] = a[i]
  OBVIOUS
<1>2. /\ f \in [0 .. m -> Seq(Byte)] /\ f[0] = <<>>
      /\ \A i \in 1 .. m : f[i] = f[i - 1] \o BytesOf(i, a[i])
      /\ \A i \in 0 .. m : \E z \in Seq(Byte) : f[m] = f[i] \o z
  BY DEF Joins
<1>3. f[m] \in Seq(Byte) /\ f[m] \o p \in Seq(Byte)
  BY <1>1, <1>2
<1>4. /\ g \in [0 .. m + 1 -> Seq(Byte)] /\ g[m + 1] = f[m] \o p
      /\ \A i \in 0 .. m : g[i] = f[i]
  BY <1>1, <1>2, <1>3
<1> HIDE DEF b, g, m
<1>5. g[0] = <<>>
  BY <1>1, <1>2, <1>4
<1>6. ASSUME NEW i \in 1 .. m + 1
      PROVE  g[i] = g[i - 1] \o BytesOf(i, b[i])
  <2>1. CASE i = m + 1
    <3>1. m \in 0 .. m /\ (m + 1) - 1 = m
      BY <1>1
    <3> QED
      BY <1>1, <1>4, <2>1, <3>1 DEF m
  <2>2. CASE i # m + 1
    <3>1. i \in 1 .. m /\ i \in 0 .. m /\ i - 1 \in 0 .. m
      BY <1>1, <2>2
    <3> QED
      BY <1>1, <1>2, <1>4, <3>1
  <2> QED
    BY <2>1, <2>2
<1>7. ASSUME NEW i \in 0 .. m + 1
      PROVE  \E z \in Seq(Byte) : g[m + 1] = g[i] \o z
  <2>1. CASE i = m + 1
    <3>1. g[i] \in Seq(Byte) /\ g[m + 1] = g[i]
      BY <1>3, <1>4, <2>1
    <3>2. \A s \in Seq(Byte) : s = s \o <<>>
      OBVIOUS
    <3>3. g[m + 1] = g[i] \o <<>> /\ <<>> \in Seq(Byte)
      BY <3>1, <3>2
    <3> QED
      BY <3>3
  <2>2. CASE i # m + 1
    <3>1. i \in 0 .. m
      BY <1>1, <2>2
    <3>2. PICK z \in Seq(Byte) : f[m] = f[i] \o z
      BY <1>2, <3>1
    <3>3. f[i] \in Seq(Byte) /\ g[i] = f[i]
      BY <1>2, <1>4, <3>1
    <3>4. Regroups(f[i], z, p)
      BY <3>3, Regroup
    <3>5. g[m + 1] = g[i] \o (z \o p)
      BY <1>4, <3>2, <3>3, <3>4 DEF Regroups
    <3>6. z \o p \in Seq(Byte)
      OBVIOUS
    <3> QED
      BY <3>5, <3>6
  <2> QED
    BY <2>1, <2>2
<1>8. Joins(g, b)
  BY <1>1, <1>4, <1>5, <1>6, <1>7 DEF Joins
<1> QED
  BY <1>4, <1>8 DEF m, b

\* The packet is behind everything that waits.
LEMMA LeftMore ==
  ASSUME NEW B, NEW s \in Seq(B), NEW p \in Seq(B), NEW w \in 0 .. Len(s)
  PROVE  /\ s \o p \in Seq(B) /\ Len(s \o p) = Len(s) + Len(p)
         /\ SubSeq(s \o p, w + 1, Len(s \o p)) = SubSeq(s, w + 1, Len(s)) \o p
<1> DEFINE q == s \o p
           t == SubSeq(q, w + 1, Len(q))
           u == SubSeq(s, w + 1, Len(s))
<1>1. /\ Len(s) \in Nat /\ Len(p) \in Nat /\ q \in Seq(B) /\ Len(q) = Len(s) + Len(p)
      /\ \A k \in 1 .. Len(s) + Len(p) : q[k] = IF k <= Len(s) THEN s[k] ELSE p[k - Len(s)]
  BY ConcatProperties
<1> HIDE DEF q
<1>2. /\ t \in Seq(B) /\ Len(t) = Len(s) + Len(p) - w
      /\ \A k \in 1 .. Len(s) + Len(p) - w : t[k] = q[w + k]
  BY <1>1
<1>3. /\ u \in Seq(B) /\ Len(u) = Len(s) - w
      /\ \A k \in 1 .. Len(s) - w : u[k] = s[w + k]
  BY <1>1
<1> HIDE DEF t, u
<1>4. /\ u \o p \in Seq(B) /\ Len(u \o p) = Len(u) + Len(p)
      /\ \A k \in 1 .. Len(u) + Len(p) : (u \o p)[k] = IF k <= Len(u) THEN u[k] ELSE p[k - Len(u)]
  BY <1>3, ConcatProperties
<1>5. ASSUME NEW k \in 1 .. Len(s) + Len(p) - w
      PROVE  t[k] = (u \o p)[k]
  <2>1. w + k \in 1 .. Len(s) + Len(p) /\ k \in 1 .. Len(u) + Len(p)
    BY <1>1, <1>3
  <2>2. CASE k <= Len(u)
    <3>1. w + k <= Len(s) /\ k \in 1 .. Len(s) - w
      BY <1>1, <1>3, <2>2
    <3>2. t[k] = s[w + k]
      BY <1>1, <1>2, <2>1, <3>1
    <3> QED
      BY <1>3, <1>4, <2>1, <2>2, <3>1, <3>2
  <2>3. CASE ~(k <= Len(u))
    <3>1. ~(w + k <= Len(s)) /\ w + k - Len(s) = k - Len(u)
      BY <1>1, <1>3, <2>3
    <3>2. t[k] = p[w + k - Len(s)]
      BY <1>1, <1>2, <2>1, <3>1
    <3> QED
      BY <1>4, <2>1, <2>3, <3>1, <3>2
  <2> QED
    BY <2>2, <2>3
<1>6. t = u \o p
  <2>1. Len(t) = Len(u \o p)
    BY <1>1, <1>2, <1>3, <1>4
  <2> QED
    BY <1>2, <1>4, <1>5, <2>1, SeqEqual
<1> QED
  BY <1>1, <1>6 DEF t, u, q

LEMMA SendPacketPieces ==
  ASSUME StreamTypeOK, Phase, Pieces, NEW n \in Sizes, sendPacket(n)
  PROVE  Pieces'
<1> DEFINE a == accepted
           m == Len(a)
           b == Append(a, n)
           p == BytesOf(m + 1, n)
           d == Len(delivered)
<1>1. /\ a \in Seq(Sizes) /\ m \in Nat /\ b \in Seq(Sizes) /\ Len(b) = m + 1
      /\ b[m + 1] = n /\ \A i \in 1 .. m : b[i] = a[i]
      /\ sendBuf \in Seq(Byte) /\ Len(sendBuf) \in Nat /\ wire \in Seq(Byte)
      /\ written \in 0 .. Len(sendBuf) /\ m < MaxPackets /\ MaxPackets \in Nat
  BY StreamAssumption DEF StreamTypeOK, Phase, sendPacket
<1>2. /\ accepted' = b /\ sendBuf' = sendBuf \o p
      /\ UNCHANGED <<sock, timer, wire, recvBuf, delivered, written>>
  BY <1>1 DEF sendPacket, pollVars
<1>3. n \in Nat \ {0} /\ n + Header <= SENDBUF_SIZE
  BY <1>1, StreamAssumption DEF sendPacket, Fits, Header
<1>4. Sized /\ Cutting(delivered, recvBuf, a)
  BY DEF Pieces
<1>5. PICK f : /\ Joins(f, a)
               /\ sock \in {"none", "pending", "up"} \/ timer =>
                    NoGap(f, delivered, recvBuf, Rest, a)
  BY DEF Pieces
<1> HIDE DEF b
<1>6. \A i \in 1 .. Len(b) : b[i] + Header <= SENDBUF_SIZE
  BY <1>1, <1>3, <1>4 DEF Sized
<1>7. p \in Seq(Byte)
  <2>1. Len(b) <= MaxPackets /\ m + 1 \in 1 .. Len(b)
    BY <1>1
  <2>2. BytesOf(m + 1, b[m + 1]) \in Seq(Byte)
    BY <1>1, <1>6, <2>1, PacketBytes
  <2> QED
    BY <1>1, <2>2
<1> HIDE DEF p
<1>8. PICK g : /\ Joins(g, b)
               /\ \A i \in 0 .. m : g[i] = f[i]
               /\ g[m + 1] = f[m] \o p
  BY <1>1, <1>5, <1>7, JoinsMore DEF p, b
<1>9. Cutting(delivered, recvBuf, b)
  <2>1. /\ delivered \in Seq(Seq(Byte)) /\ recvBuf \in Seq(Byte) /\ d \in Nat /\ d <= m
        /\ \A i \in 1 .. d : delivered[i] = BytesOf(i, a[i])
        /\ Piece(recvBuf, d, a)
    BY <1>4 DEF Cutting
  <2>2. \A i \in 1 .. m : b[i] = a[i]
    BY <1>1
  <2> HIDE DEF a, d
  <2>3. \A i \in 1 .. d : delivered[i] = BytesOf(i, b[i])
    <3> SUFFICES ASSUME NEW i \in 1 .. d
                 PROVE  delivered[i] = BytesOf(i, b[i])
      OBVIOUS
    <3>1. i \in 1 .. m
      BY <1>1, <2>1
    <3> QED
      BY <2>1, <2>2, <3>1
  <2>4. Piece(recvBuf, d, b)
    <3>1. CASE recvBuf = <<>>
      BY <3>1 DEF Piece
    <3>2. CASE recvBuf # <<>>
      <4>1. /\ d < m /\ Len(recvBuf) < a[d + 1] + Header
            /\ \A k \in 1 .. Len(recvBuf) : recvBuf[k] = <<d + 1, k>>
        BY <2>1, <3>2 DEF Piece
      <4>2. d + 1 \in 1 .. m /\ d < Len(b)
        BY <1>1, <2>1, <4>1
      <4>3. b[d + 1] = a[d + 1]
        BY <2>2, <4>2
      <4> QED
        BY <4>1, <4>2, <4>3 DEF Piece
    <3> QED
      BY <3>1, <3>2
  <2>5. Len(delivered) <= Len(b)
    BY <1>1, <2>1 DEF d
  <2> QED
    BY <2>1, <2>3, <2>4, <2>5 DEF Cutting, d
<1>10. Rest \in Seq(Byte) /\ Rest' = Rest \o p
  <2> DEFINE left == SubSeq(sendBuf, written + 1, Len(sendBuf))
  <2>1. left \in Seq(Byte)
    BY <1>1
  <2>2. SubSeq(sendBuf', written' + 1, Len(sendBuf')) = left \o p
    BY <1>1, <1>2, <1>7, LeftMore
  <2> HIDE DEF left
  <2>3. Rest = wire \o left /\ Rest' = wire \o (left \o p)
    BY <1>2, <2>2 DEF Rest, left
  <2>4. Regroups(wire, left, p)
    BY <1>1, <1>7, <2>1, Regroup
  <2> QED
    BY <1>1, <2>1, <2>3, <2>4 DEF Regroups
<1>11. ASSUME sock \in {"none", "pending", "up"} \/ timer
       PROVE  NoGap(g, delivered, recvBuf, Rest', b)
  <2>1. NoGap(f, delivered, recvBuf, Rest, a)
    BY <1>5, <1>11
  <2>2. d \in 0 .. m /\ m \in 0 .. m /\ recvBuf \in Seq(Byte)
    BY <1>1, <1>4 DEF Cutting
  <2>3. g[d] = f[d] /\ f[d] \in Seq(Byte)
    BY <1>5, <1>8, <2>2 DEF Joins
  <2>4. f[d] \o (recvBuf \o (Rest \o p)) = (f[d] \o (recvBuf \o Rest)) \o p
    <3> DEFINE x == f[d]
    <3>1. x \in Seq(Byte)
      BY <2>3
    <3> HIDE DEF x
    <3>2. Rest \in Seq(Byte)
      BY <1>10
    <3>3. Regroups(recvBuf, Rest, p) /\ recvBuf \o Rest \in Seq(Byte)
      BY <1>7, <2>2, <3>2, Regroup
    <3>4. Regroups(x, recvBuf \o Rest, p)
      BY <1>7, <3>1, <3>3, Regroup
    <3> QED
      BY <3>3, <3>4 DEF x, Regroups
  <2>5. f[d] \o (recvBuf \o Rest) = f[m]
    BY <2>1 DEF NoGap
  <2> QED
    BY <1>1, <1>8, <1>10, <2>3, <2>4, <2>5 DEF NoGap
<1>12. Sized'
  BY <1>2, <1>6 DEF Sized
<1> QED
  BY <1>2, <1>8, <1>9, <1>11, <1>12 DEF Pieces

LEMMA SendPacketWhole ==
  ASSUME WholeInv, NEW n \in Sizes, sendPacket(n)
  PROVE  WholeInv'
<1>1. StreamTypeOK /\ Phase /\ Pieces
  BY DEF WholeInv
<1>2. Pieces'
  BY <1>1, SendPacketPieces
<1> DEFINE p == BytesOf(Len(accepted) + 1, n)
<1>3. /\ accepted \in Seq(Sizes) /\ Len(accepted) \in Nat /\ Len(accepted) < MaxPackets
      /\ sendBuf \in Seq(Byte) /\ Len(sendBuf) \in Nat
      /\ n + Header + Len(sendBuf) <= SENDBUF_SIZE /\ MaxPackets \in Nat
      /\ n \in Nat \ {0} /\ SENDBUF_SIZE \in Nat
  BY <1>1, StreamAssumption DEF StreamTypeOK, sendPacket, Fits
<1>4. /\ accepted' \in Seq(Sizes) /\ Len(accepted') = Len(accepted) + 1
      /\ accepted'[Len(accepted')] = n /\ Len(accepted') <= MaxPackets
      /\ Len(accepted') \in 1 .. Len(accepted')
  BY <1>3 DEF sendPacket
<1>5. p \in Seq(Byte) /\ Len(p) = n + Header
  <2>1. \A i \in 1 .. Len(accepted') : accepted'[i] + Header <= SENDBUF_SIZE
    BY <1>2 DEF Pieces, Sized
  <2> DEFINE b == accepted'
  <2>2. b \in Seq(Sizes) /\ Len(b) <= MaxPackets /\ Len(b) \in 1 .. Len(b)
        /\ \A i \in 1 .. Len(b) : b[i] + Header <= SENDBUF_SIZE
    BY <1>4, <2>1
  <2> HIDE DEF b
  <2>3. /\ BytesOf(Len(b), b[Len(b)]) \in Seq(Byte)
        /\ Len(BytesOf(Len(b), b[Len(b)])) = b[Len(b)] + Header
    BY <2>2, PacketBytes
  <2> QED
    BY <1>4, <2>3 DEF b
<1>6. sendBuf' = sendBuf \o p
  BY <1>3, <1>4 DEF sendPacket
<1> HIDE DEF p
<1>7. sendBuf' \in Seq(Byte) /\ Len(sendBuf') = Len(sendBuf) + (n + Header)
  <2>1. Len(p) \in Nat
    BY <1>5
  <2>2. sendBuf \o p \in Seq(Byte) /\ Len(sendBuf \o p) = Len(sendBuf) + Len(p)
    BY <1>3, <1>5, ConcatProperties
  <2> QED
    BY <1>5, <1>6, <2>2
<1>8. Len(sendBuf') <= SENDBUF_SIZE /\ Len(sendBuf) <= Len(sendBuf')
  BY <1>3, <1>7 DEF Header
<1>9. /\ UNCHANGED <<fdSet, sock, isConnected, event, timer, wire, recvBuf, seen, poller, ready,
                     known, written, delivered, unarmed>>
      /\ sender' \in {"idle", "copied"}
  BY DEF sendPacket, pollVars
<1>10. StreamTypeOK'
  BY <1>1, <1>4, <1>7, <1>8, <1>9 DEF StreamTypeOK
<1>11. Phase'
  BY <1>1, <1>3, <1>8, <1>7, <1>9 DEF Phase, StreamTypeOK, Header
<1> QED
  BY <1>2, <1>10, <1>11 DEF WholeInv

LEMMA WholeNext == WholeInv /\ [StreamNext]_streamVars => WholeInv'
<1> SUFFICES ASSUME WholeInv, [StreamNext]_streamVars
             PROVE  WholeInv'
  OBVIOUS
<1>1. CASE UNCHANGED streamVars
  <2>1. UNCHANGED <<accepted, delivered, recvBuf, wire, sendBuf, written, sock, timer>>
    BY <1>1 DEF streamVars, pollVars
  <2>2. Rest' = Rest
    BY <2>1 DEF Rest
  <2>3. StreamTypeOK /\ Phase /\ Pieces
    BY DEF WholeInv
  <2>4. Pieces'
    BY <2>1, <2>2, <2>3, PiecesKept
  <2>5. StreamTypeOK'
    BY <1>1, <2>3 DEF StreamTypeOK, streamVars, pollVars, senderVars
  <2>6. Phase'
    BY <1>1, <2>3 DEF Phase, streamVars, pollVars
  <2> QED
    BY <2>4, <2>5, <2>6 DEF WholeInv
<1>2. CASE Connect \/ PollTimeout
  BY <1>2, ConnectWhole
<1>3. CASE PeerCloses
  BY <1>3, CloseWhole
<1>4. ASSUME NEW n \in Sizes, sendPacket(n)
      PROVE  WholeInv'
  BY <1>4, SendPacketWhole
<1>5. CASE Send
  BY <1>5, SendWhole
<1>6. CASE Shrink
  BY <1>6, ShrinkWhole
<1>7. CASE Receive
  BY <1>7, ReceiveWhole
<1>8. CASE Quietly
  BY <1>8, QuietWhole
<1> QED
  BY <1>1, <1>2, <1>3, <1>4, <1>5, <1>6, <1>7, <1>8 DEF StreamNext, PollThread, Quietly

\* The other end gets the packets as sendPacket put them into the buffer, whole,
\* in their order and none twice, and while the connection lasts no byte is
\* missing between what it got, what it is reading, the wire and the buffer.
THEOREM PacketsStayWhole == StreamSpec => []Whole
<1>1. WholeInv /\ [StreamNext]_streamVars => WholeInv'
  BY WholeNext
<1> QED
  BY <1>1, WholeInit, WholeImplies, PTL DEF StreamSpec

-----------------------------------------------------------------------------
(***************************************************************************)
(* What goes from client to client is on a stream of their own (module     *)
(* Transfer).  What the two of them tell their users of the file is proved *)
(* here, for every size of it, every CHUNK that is read at a time, and any *)
(* number of packets the two kernels hold.                                 *)
(***************************************************************************)

\* The packets that each of the two sends.
HelloOf(u) == {[cmd |-> "HELLO", isSend |-> (u = Sender)]}
Offer(size) == HelloOf(Sender) \cup {[cmd |-> "INFO", size |-> size]}
FromSender(size) == Offer(size) \cup [cmd : {"DATA"}, n : 1 .. CHUNK]
FromReceiver == HelloOf(Receiver) \cup {[cmd |-> "RECEIVE"]}

Untouched(e) == e.left = 0 /\ e.fileSize = 0 /\ e.transfer_size = 0 /\ e.report = "none"

\* The end of either user.
AnyEnd(e) ==
  /\ e \in FileEnd
  /\ e.status = "none" => ~e.open /\ e.sendBuf = <<>>
  /\ e.listener \/ e.picking <=> e.status = "ESTABLISHED"
  /\ e.picking \/ ~e.listener => ~e.file /\ ~e.writeEnabled
  /\ e.report # "none" => e.status = "none"
  /\ e.status \in {"NOT_CONN", "HELLO_WAIT"} => Untouched(e)
  /\ e.status = "HELLO_WAIT" => e.sendBuf = <<>>

\* A sender that picks a file has told nothing but its hello; it has read what it
\* does not have left, in whole chunks until the last.
SenderEnd(e) ==
  /\ AnyEnd(e)
  /\ e.status \in {"NOT_CONN", "ESTABLISHED"} => e.isSend
  /\ e.writeEnabled => e.open /\ e.file
  /\ e.status # "none" => e.open \/ e.transfer_size = 0
  /\ e.picking => Untouched(e)
  /\ e.status = "NOT_CONN" \/ e.picking => e.sendBuf \in Seq(HelloOf(Sender))
  /\ e.sendBuf \in Seq(FromSender(e.fileSize))
  /\ e.transfer_size = 0 => e.sendBuf \in Seq(Offer(e.fileSize))
  /\ e.file => e.left + e.transfer_size = e.fileSize /\ e.transfer_size % CHUNK = 0

\* A receiver asks for the file once, and reports a success with all of it.
ReceiverEnd(e) ==
  /\ AnyEnd(e)
  /\ e.status \in {"NOT_CONN", "ESTABLISHED"} => ~e.isSend
  /\ ~e.writeEnabled
  /\ e.listener => e.open
  /\ e.picking => e.listener
  /\ e.sendBuf \in Seq(FromReceiver)
  /\ ~e.file => e.sendBuf \in Seq(HelloOf(Receiver))
  /\ e.report = "success" => e.transfer_size = e.fileSize

\* There are no sessions before the request is answered, and none at the listening
\* end before the connection is accepted.
Phases ==
  /\ server \in {"none", "TCP_REQUEST", "TCP_ACCEPT"} =>
       /\ conn = "none" /\ end = [u \in Peers |-> NoSession]
       /\ net = [u \in Peers |-> <<>>]
  /\ server # "request" /\ (server = "TCP_ACCEPT" => Connector = Sender)
  /\ conn \in {"none", "pending", "backlog"} => end[Acceptor] = NoSession
  /\ conn = "failed" <=> broken

\* What has come, written or not.
Arrived(r) == r.transfer_size + r.unwritten

\* Nothing has come from the sender yet, for one that has not picked a file.
Unknown(s) == s.status \in {"NOT_CONN", "HELLO_WAIT"} \/ s.picking
Early(r, ns, nr) ==
  /\ nr = <<>> /\ r.fileSize = 0 /\ Arrived(r) = 0 /\ ~r.file /\ ~r.picking
  /\ ns \in Seq(HelloOf(Receiver)) /\ r.sendBuf \in Seq(HelloOf(Receiver))
IsEarly(s, c) ==
  \/ Unknown(s)
  \/ c \in {"none", "pending", "backlog"} /\ Acceptor = Sender

\* The receiver's user has accepted the file: it has been asked for, or data has come.
Accepted(s, r, ns, nr) ==
  \/ nr \notin Seq(Offer(s.fileSize))
  \/ r.sendBuf \notin Seq(HelloOf(Receiver))
  \/ s.open /\ (s.writeEnabled \/ s.transfer_size > 0 \/ ns \notin Seq(HelloOf(Receiver)))

\* What is on its way, and the size that the receiver has been told of.
Flow(s, r, ns, nr) ==
  /\ nr \in Seq(FromSender(s.fileSize)) /\ ns \in Seq(FromReceiver)
  /\ r.fileSize \in {0, s.fileSize}

\* Where data can come the receiver still listens, and has its file open.
Ready(s, r, ns, nr, b) ==
  ~b /\ r.report # "stopped" /\ Accepted(s, r, ns, nr) => r.listener /\ r.file

\* Everything the sender has read is at the receiver, on its way or in the buffer;
\* of the last chunk, with which the session ends, nothing is.
NoneLost(s, r, nr, b) ==
  ~b /\ r.report # "stopped" =>
    /\ s.report = "none" =>
         Arrived(r) + UnitsOf(nr) + UnitsOf(s.sendBuf) = s.transfer_size
    /\ s.report = "success" =>
         Arrived(r) + UnitsOf(nr) = s.fileSize - (s.fileSize % CHUNK)

Good(s, r, ns, nr, b) ==
  /\ SenderEnd(s) /\ ReceiverEnd(r)
  /\ Flow(s, r, ns, nr) /\ Ready(s, r, ns, nr, b) /\ NoneLost(s, r, nr, b)

\* The inductive invariant of a transfer.
TransferInv ==
  /\ TransferTypeOK /\ Phases
  /\ Good(end[Sender], end[Receiver], net[Sender], net[Receiver], broken)
  /\ IsEarly(end[Sender], conn) =>
       Early(end[Receiver], net[Sender], net[Receiver])

-----------------------------------------------------------------------------
LEMMA ModWhole ==
  ASSUME NEW x \in Nat, x % CHUNK = 0
  PROVE  (x + CHUNK) % CHUNK = 0
<1> DEFINE q == x \div CHUNK
<1>1. CHUNK \in Nat /\ CHUNK > 0
  BY TransferAssumption
<1>2. x = (CHUNK * q) + (x % CHUNK) /\ q \in Int
  BY <1>1, SMTT(20)
<1> HIDE DEF q
<1>3. x + CHUNK = (q + 1) * CHUNK + 0
  BY <1>1, <1>2, SMTT(20)
<1>4. ((q + 1) * CHUNK + 0) % CHUNK = 0
  BY <1>1, <1>2, SMTT(30)
<1> QED
  BY <1>3, <1>4

LEMMA ModTail ==
  ASSUME NEW x \in Nat, x % CHUNK = 0, NEW n \in Nat, n < CHUNK
  PROVE  (x + n) % CHUNK = n
<1> DEFINE q == x \div CHUNK
<1>1. CHUNK \in Nat /\ CHUNK > 0
  BY TransferAssumption
<1>2. x = (CHUNK * q) + (x % CHUNK) /\ q \in Int
  BY <1>1, SMTT(20)
<1> HIDE DEF q
<1>3. x + n = q * CHUNK + n
  BY <1>1, <1>2, SMTT(20)
<1>4. (q * CHUNK + n) % CHUNK = n
  BY <1>1, <1>2, SMTT(30)
<1> QED
  BY <1>3, <1>4

-----------------------------------------------------------------------------
\* g are the units of the first packets of q.
Added(n, p) == n + Units(p)
Sums(g, q) ==
  g = [i \in 0 .. Len(q) |-> IF i = 0 THEN 0 ELSE Added(g[i - 1], q[i])]

LEMMA SumsSteps ==
  ASSUME NEW g, NEW q, Len(q) \in Nat, Sums(g, q)
  PROVE  /\ g[0] = 0
         /\ \A i \in 1 .. Len(q) : g[i] = Added(g[i - 1], q[i])
         /\ g = [i \in 0 .. Len(q) |-> g[i]]
<1> DEFINE f == [i \in 0 .. Len(q) |-> IF i = 0 THEN 0 ELSE Added(g[i - 1], q[i])]
<1>1. g = f
  BY DEF Sums
<1>2. f[0] = 0 /\ \A i \in 1 .. Len(q) : f[i] = Added(g[i - 1], q[i])
  OBVIOUS
<1>3. f = [i \in 0 .. Len(q) |-> f[i]]
  OBVIOUS
<1> HIDE DEF f
<1> QED
  BY <1>1, <1>2, <1>3

LEMMA StepsSum ==
  ASSUME NEW g, NEW q, Len(q) \in Nat,
         g = [i \in 0 .. Len(q) |-> g[i]], g[0] = 0,
         \A i \in 1 .. Len(q) : g[i] = Added(g[i - 1], q[i])
  PROVE  Sums(g, q)
<1> DEFINE f == [i \in 0 .. Len(q) |-> IF i = 0 THEN 0 ELSE Added(g[i - 1], q[i])]
<1>1. \A i \in 0 .. Len(q) : f[i] = g[i]
  <2> SUFFICES ASSUME NEW i \in 0 .. Len(q)
               PROVE  f[i] = g[i]
    OBVIOUS
  <2>1. CASE i = 0
    BY <2>1
  <2>2. CASE i # 0
    <3>1. i \in 1 .. Len(q)
      BY <2>2
    <3> QED
      BY <2>2, <3>1
  <2> QED
    BY <2>1, <2>2
<1>2. f = [i \in 0 .. Len(q) |-> f[i]]
  OBVIOUS
<1>3. [i \in 0 .. Len(q) |-> f[i]] = [i \in 0 .. Len(q) |-> g[i]]
  BY <1>1, Zenon
<1>4. f = g
  BY <1>2, <1>3
<1> QED
  BY <1>4 DEF Sums

LEMMA SumsOnce ==
  ASSUME NEW f, NEW g, NEW q, Len(q) \in Nat, Sums(f, q), Sums(g, q)
  PROVE  f = g
<1>1. /\ f[0] = 0 /\ g[0] = 0
      /\ \A i \in 1 .. Len(q) : f[i] = Added(f[i - 1], q[i]) /\ g[i] = Added(g[i - 1], q[i])
      /\ f = [i \in 0 .. Len(q) |-> f[i]] /\ g = [i \in 0 .. Len(q) |-> g[i]]
  BY SumsSteps
<1> DEFINE D == {i \in 0 .. Len(q) : f[i] # g[i]}
<1>2. D = {}
  <2> SUFFICES ASSUME D # {}
               PROVE  FALSE
    OBVIOUS
  <2>1. D \in SUBSET Nat
    OBVIOUS
  <2>2. PICK n \in D : \A i \in D : n <= i
    BY <2>1, MinExists
  <2>3. n # 0 /\ n \in 1 .. Len(q) /\ n - 1 \in 0 .. Len(q)
    BY <1>1
  <2>4. n - 1 \notin D
    BY <2>2, <2>3
  <2>5. f[n - 1] = g[n - 1]
    BY <2>3, <2>4
  <2>6. f[n] = g[n]
    BY <1>1, <2>3, <2>5
  <2> QED
    BY <2>6
<1>3. \A i \in 0 .. Len(q) : f[i] = g[i]
  BY <1>2
<1>4. [i \in 0 .. Len(q) |-> f[i]] = [i \in 0 .. Len(q) |-> g[i]]
  BY <1>3, Zenon
<1> QED
  BY <1>1, <1>4

LEMMA UnitsOfSums ==
  ASSUME NEW g, NEW q, Len(q) \in Nat, Sums(g, q)
  PROVE  UnitsOf(q) = g[Len(q)]
<1> DEFINE f == CHOOSE f : Sums(f, q)
<1>1. \A k : Sums(k, q) => k = g
  BY SumsOnce
<1>2. f = g
  BY <1>1, Zenon
<1>3. UnitsOf(q) = f[Len(q)]
  BY DEF UnitsOf, Sums, Added
<1> QED
  BY <1>2, <1>3

\* The sums with that of one more packet.
LEMMA SumsMore ==
  ASSUME NEW g, NEW q, NEW p, NEW m, Len(q) \in Nat, Sums(g, q),
         Len(p) = Len(q) + 1, \A i \in 1 .. Len(q) : p[i] = q[i], p[Len(p)] = m
  PROVE  \E f : Sums(f, p) /\ f[Len(p)] = Added(g[Len(q)], m)
<1> DEFINE f == [i \in 0 .. Len(p) |-> IF i = Len(p) THEN Added(g[Len(q)], m) ELSE g[i]]
<1>1. /\ g[0] = 0
      /\ \A i \in 1 .. Len(q) : g[i] = Added(g[i - 1], q[i])
  BY SumsSteps
<1>2. /\ f = [i \in 0 .. Len(p) |-> f[i]]
      /\ f[Len(p)] = Added(g[Len(q)], m)
      /\ \A i \in 0 .. Len(q) : f[i] = g[i]
  OBVIOUS
<1> HIDE DEF f
<1>3. f[0] = 0
  BY <1>1, <1>2
<1>4. ASSUME NEW i \in 1 .. Len(p)
      PROVE  f[i] = Added(f[i - 1], p[i])
  <2>1. CASE i = Len(p)
    <3>1. i - 1 = Len(q) /\ i - 1 \in 0 .. Len(q)
      BY <2>1
    <3> QED
      BY <1>2, <2>1, <3>1
  <2>2. CASE i # Len(p)
    <3>1. i \in 1 .. Len(q) /\ i \in 0 .. Len(q) /\ i - 1 \in 0 .. Len(q)
      BY <2>2
    <3> QED
      BY <1>1, <1>2, <3>1
  <2> QED
    BY <2>1, <2>2
<1>5. Len(p) \in Nat
  OBVIOUS
<1>6. Sums(f, p)
  BY <1>2, <1>3, <1>4, <1>5, StepsSum, Zenon
<1> QED
  BY <1>2, <1>6

LEMMA SumsExist ==
  ASSUME NEW M, NEW q \in Seq(M)
  PROVE  \E g : Sums(g, q)
<1>1. Len(q) \in Nat
  OBVIOUS
<1> DEFINE UpTo(n) == SubSeq(q, 1, n)
           D == {n \in 0 .. Len(q) : ~\E g : Sums(g, UpTo(n))}
<1>2. ASSUME NEW n \in 0 .. Len(q)
      PROVE  Len(UpTo(n)) = n /\ \A i \in 1 .. n : UpTo(n)[i] = q[i]
  BY <1>1
<1>3. D = {}
  <2> SUFFICES ASSUME D # {}
               PROVE  FALSE
    OBVIOUS
  <2>1. D \in SUBSET Nat
    BY <1>1
  <2>2. PICK n \in D : \A i \in D : n <= i
    BY <2>1, MinExists
  <2>3. n \in 0 .. Len(q) /\ ~\E g : Sums(g, UpTo(n))
    BY <2>2
  <2> HIDE DEF D
  <2>4. CASE n = 0
    <3> DEFINE g == [i \in 0 .. 0 |-> 0]
    <3>1. Len(UpTo(n)) = 0
      BY <1>2, <2>3, <2>4
    <3>2. g = [i \in 0 .. 0 |-> g[i]] /\ g[0] = 0
      OBVIOUS
    <3> HIDE DEF g, UpTo
    <3>3. Len(UpTo(n)) \in Nat /\ g = [i \in 0 .. Len(UpTo(n)) |-> g[i]]
      BY <3>1, <3>2
    <3>4. \A i \in 1 .. Len(UpTo(n)) : FALSE
      BY <3>1
    <3>5. Sums(g, UpTo(n))
      BY <3>2, <3>3, <3>4, StepsSum
    <3> QED
      BY <2>3, <3>5
  <2>5. CASE n # 0
    <3>1. n - 1 \in 0 .. Len(q) /\ ~(n <= n - 1)
      BY <1>1, <2>3, <2>5
    <3>2. n - 1 \notin D
      BY <2>2, <3>1
    <3>3. PICK g : Sums(g, UpTo(n - 1))
      BY <3>1, <3>2 DEF D
    <3>4. /\ Len(UpTo(n - 1)) = n - 1 /\ Len(UpTo(n)) = n
          /\ \A i \in 1 .. n - 1 : UpTo(n)[i] = UpTo(n - 1)[i]
      BY <1>2, <2>3, <3>1
    <3>5. n - 1 \in Nat /\ n = (n - 1) + 1
      BY <2>3, <3>1
    <3> HIDE DEF UpTo
    <3>6. \E f : Sums(f, UpTo(n))
      BY <3>3, <3>4, <3>5, SumsMore
    <3> QED
      BY <2>3, <3>6
  <2> QED
    BY <2>4, <2>5
<1>4. Len(q) \in 0 .. Len(q) /\ UpTo(Len(q)) = q
  BY <1>1
<1> QED
  BY <1>3, <1>4

\* The packets of M count.
Counts(M) == \A p \in M : Units(p) \in Nat

LEMMA SumsNat ==
  ASSUME NEW M, Counts(M), NEW q \in Seq(M), NEW g, Sums(g, q)
  PROVE  \A i \in 0 .. Len(q) : g[i] \in Nat
<1>1. /\ Len(q) \in Nat
      /\ \A i \in 1 .. Len(q) : q[i] \in M
  OBVIOUS
<1>2. /\ g[0] = 0
      /\ \A i \in 1 .. Len(q) : g[i] = Added(g[i - 1], q[i])
  BY <1>1, SumsSteps
<1> DEFINE D == {i \in 0 .. Len(q) : g[i] \notin Nat}
<1> SUFFICES ASSUME D # {}
             PROVE  FALSE
  OBVIOUS
<1>3. D \in SUBSET Nat
  OBVIOUS
<1>4. PICK n \in D : \A i \in D : n <= i
  BY <1>3, MinExists
<1>5. n \in 1 .. Len(q) /\ n - 1 \in 0 .. Len(q)
  BY <1>2
<1>6. g[n - 1] \in Nat
  BY <1>4, <1>5
<1>7. g[n] = g[n - 1] + Units(q[n])
  BY <1>2, <1>5 DEF Added
<1>8. Units(q[n]) \in Nat
  BY <1>1, <1>5 DEF Counts
<1>9. g[n] \in Nat
  BY <1>6, <1>7, <1>8
<1> QED
  BY <1>9

LEMMA UnitsNone == UnitsOf(<<>>) = 0
<1> DEFINE q == <<>>
<1>1. Len(q) = 0 /\ q \in Seq({})
  OBVIOUS
<1> HIDE DEF q
<1>2. PICK g : Sums(g, q)
  BY <1>1, SumsExist
<1>3. g[0] = 0 /\ UnitsOf(q) = g[0]
  BY <1>1, <1>2, SumsSteps, UnitsOfSums
<1> QED
  BY <1>3 DEF q

LEMMA UnitsAppend ==
  ASSUME NEW M, NEW q \in Seq(M), NEW m \in M
  PROVE  UnitsOf(Append(q, m)) = UnitsOf(q) + Units(m)
<1> DEFINE p == Append(q, m)
<1>1. /\ Len(q) \in Nat /\ Len(p) = Len(q) + 1
      /\ \A i \in 1 .. Len(q) : p[i] = q[i]
      /\ p[Len(p)] = m
  OBVIOUS
<1> HIDE DEF p
<1>2. PICK g : Sums(g, q)
  BY SumsExist
<1>3. PICK f : Sums(f, p) /\ f[Len(p)] = Added(g[Len(q)], m)
  BY <1>1, <1>2, SumsMore
<1>4. UnitsOf(q) = g[Len(q)] /\ UnitsOf(p) = f[Len(p)]
  BY <1>1, <1>2, <1>3, UnitsOfSums
<1> QED
  BY <1>3, <1>4 DEF p, Added

LEMMA UnitsNat ==
  ASSUME NEW M, Counts(M), NEW q \in Seq(M)
  PROVE  UnitsOf(q) \in Nat
<1>1. Len(q) \in Nat /\ Len(q) \in 0 .. Len(q)
  OBVIOUS
<1>2. PICK g : Sums(g, q)
  BY SumsExist
<1>3. \A i \in 0 .. Len(q) : g[i] \in Nat
  BY <1>2, SumsNat
<1>4. UnitsOf(q) = g[Len(q)]
  BY <1>1, <1>2, UnitsOfSums
<1> QED
  BY <1>1, <1>3, <1>4

LEMMA UnitsJoin ==
  ASSUME NEW M, Counts(M), NEW a \in Seq(M), NEW b \in Seq(M)
  PROVE  UnitsOf(a \o b) = UnitsOf(a) + UnitsOf(b)
<1> DEFINE q == a \o b
           m == Len(a)
           n == Len(b)
<1>1. /\ m \in Nat /\ n \in Nat /\ q \in Seq(M) /\ Len(q) = m + n
      /\ \A i \in 1 .. m : q[i] = a[i]
      /\ \A i \in 1 .. n : q[m + i] = b[i]
  OBVIOUS
<1>2. PICK f : Sums(f, a)
  BY SumsExist
<1>3. PICK g : Sums(g, b)
  BY SumsExist
<1>4. /\ f[0] = 0 /\ \A i \in 1 .. m : f[i] = Added(f[i - 1], a[i])
      /\ g[0] = 0 /\ \A i \in 1 .. n : g[i] = Added(g[i - 1], b[i])
  BY <1>1, <1>2, <1>3, SumsSteps
<1>5. /\ \A i \in 0 .. m : f[i] \in Nat
      /\ \A i \in 0 .. n : g[i] \in Nat
  BY <1>2, <1>3, SumsNat
<1>6. \A i \in 1 .. n : Units(b[i]) \in Nat
  <2>1. \A i \in 1 .. n : b[i] \in M
    OBVIOUS
  <2> QED
    BY <2>1 DEF Counts
<1>7. UnitsOf(a) = f[m] /\ UnitsOf(b) = g[n]
  BY <1>1, <1>2, <1>3, UnitsOfSums
<1> HIDE DEF q, m, n
<1> DEFINE h == [i \in 0 .. Len(q) |-> IF i <= m THEN f[i] ELSE f[m] + g[i - m]]
<1>8. /\ h = [i \in 0 .. Len(q) |-> h[i]]
      /\ \A i \in 0 .. m : h[i] = f[i]
      /\ \A i \in m + 1 .. m + n : h[i] = f[m] + g[i - m]
  BY <1>1
<1> HIDE DEF h
<1>9. h[m + n] = f[m] + g[n]
  <2>1. CASE n = 0
    <3>1. m \in 0 .. m /\ m + n = m
      BY <1>1, <2>1
    <3>2. h[m + n] = f[m] /\ f[m] \in Nat /\ g[n] = 0
      BY <1>4, <1>5, <1>8, <2>1, <3>1, Zenon
    <3> QED
      BY <3>2
  <2>2. CASE n # 0
    <3>1. m + n \in m + 1 .. m + n /\ (m + n) - m = n
      BY <1>1, <2>2
    <3> QED
      BY <1>8, <3>1
  <2> QED
    BY <2>1, <2>2
<1>10. ASSUME NEW i \in 1 .. Len(q)
       PROVE  h[i] = Added(h[i - 1], q[i])
  <2>1. CASE i <= m
    <3>1. i \in 1 .. m /\ i \in 0 .. m /\ i - 1 \in 0 .. m
      BY <1>1, <2>1
    <3> QED
      BY <1>1, <1>4, <1>8, <3>1
  <2>2. CASE i = m + 1
    <3>1. i \in m + 1 .. m + n /\ i - m = 1 /\ 1 \in 1 .. n /\ i - 1 = m /\ m \in 0 .. m
          /\ i = m + 1 /\ m \in 0 .. m /\ 1 - 1 = 0 /\ 0 \in 0 .. n
      BY <1>1, <2>2
    <3>2. h[i] = f[m] + g[1] /\ h[i - 1] = f[m] /\ q[i] = b[1]
      BY <1>1, <1>8, <3>1
    <3>3. g[1] = 0 + Units(b[1]) /\ Units(b[1]) \in Nat /\ f[m] \in Nat
      BY <1>4, <1>5, <1>6, <3>1 DEF Added
    <3> QED
      BY <3>2, <3>3 DEF Added
  <2>3. CASE i > m + 1
    <3> DEFINE k == i - m
    <3>1. i \in m + 1 .. m + n /\ k \in 1 .. n /\ i = m + k
          /\ i - 1 \in m + 1 .. m + n /\ (i - 1) - m = k - 1 /\ k - 1 \in 0 .. n /\ m \in 0 .. m
      BY <1>1, <2>3
    <3>2. h[i] = f[m] + g[k] /\ h[i - 1] = f[m] + g[k - 1] /\ q[i] = b[k]
      BY <1>1, <1>8, <3>1
    <3> HIDE DEF k
    <3>3. /\ g[k] = g[k - 1] + Units(b[k]) /\ Units(b[k]) \in Nat
          /\ f[m] \in Nat /\ g[k - 1] \in Nat
      BY <1>4, <1>5, <1>6, <3>1 DEF Added
    <3> QED
      BY <3>2, <3>3 DEF Added
  <2> QED
    BY <1>1, <2>1, <2>2, <2>3
<1>11. Len(q) \in Nat /\ h[0] = 0
  <2>1. 0 \in 0 .. m
    BY <1>1
  <2>2. h[0] = 0
    BY <1>4, <1>8, <2>1, Zenon
  <2> QED
    BY <1>1, <2>2
<1>12. Sums(h, q)
  BY <1>8, <1>10, <1>11, StepsSum, Zenon
<1>13. UnitsOf(q) = h[Len(q)]
  BY <1>11, <1>12, UnitsOfSums
<1>14. UnitsOf(q) = f[m] + g[n]
  BY <1>1, <1>9, <1>13
<1> QED
  BY <1>7, <1>14 DEF q

LEMMA UnitsZero ==
  ASSUME NEW M, \A p \in M : Units(p) = 0, NEW q \in Seq(M)
  PROVE  UnitsOf(q) = 0
<1>1. /\ Len(q) \in Nat /\ Len(q) \in 0 .. Len(q)
      /\ \A i \in 1 .. Len(q) : q[i] \in M
  OBVIOUS
<1>2. PICK g : Sums(g, q)
  BY SumsExist
<1>3. /\ g[0] = 0
      /\ \A i \in 1 .. Len(q) : g[i] = Added(g[i - 1], q[i])
  BY <1>1, <1>2, SumsSteps
<1> DEFINE D == {i \in 0 .. Len(q) : g[i] # 0}
<1>4. ASSUME D # {}
      PROVE  FALSE
  <2>1. D \in SUBSET Nat
    OBVIOUS
  <2>2. PICK n \in D : \A i \in D : n <= i
    BY <1>4, <2>1, MinExists
  <2>3. n \in 1 .. Len(q) /\ n - 1 \in 0 .. Len(q)
    BY <1>3
  <2>4. g[n - 1] = 0
    BY <2>2, <2>3
  <2>5. g[n] = g[n - 1] + Units(q[n]) /\ Units(q[n]) = 0
    BY <1>1, <1>3, <2>3 DEF Added
  <2> QED
    BY <2>4, <2>5
<1>5. g[Len(q)] = 0
  BY <1>1, <1>4
<1> QED
  BY <1>1, <1>2, <1>5, UnitsOfSums

LEMMA UnitsOne ==
  ASSUME NEW m, Units(m) \in Nat
  PROVE  UnitsOf(<<m>>) = Units(m)
<1>1. <<>> \in Seq({m}) /\ m \in {m} /\ <<m>> = Append(<<>>, m)
  OBVIOUS
<1>2. UnitsOf(<<m>>) = UnitsOf(<<>>) + Units(m)
  BY <1>1, UnitsAppend, Zenon
<1> QED
  BY <1>2, UnitsNone

\* What has been sent and what is left of s.
LEMMA Parts ==
  ASSUME NEW M, NEW s \in Seq(M), NEW k \in Nat, k <= Len(s)
  PROVE  /\ SubSeq(s, 1, k) \in Seq(M) /\ SubSeq(s, k + 1, Len(s)) \in Seq(M)
         /\ s = SubSeq(s, 1, k) \o SubSeq(s, k + 1, Len(s))
         /\ Len(SubSeq(s, 1, k)) = k
<1> DEFINE n == Len(s)
           a == SubSeq(s, 1, k)
           b == SubSeq(s, k + 1, n)
<1>1. n \in Nat /\ s = [i \in 1 .. n |-> s[i]]
  OBVIOUS
<1>2. a \in Seq(M) /\ Len(a) = k /\ \A i \in 1 .. k : a[i] = s[i]
  OBVIOUS
<1>3. b \in Seq(M) /\ Len(b) = n - k /\ \A i \in 1 .. n - k : b[i] = s[k + i]
  OBVIOUS
<1> HIDE DEF a, b, n
<1>4. /\ a \o b \in Seq(M) /\ Len(a \o b) = Len(a) + Len(b)
      /\ \A i \in 1 .. Len(a) + Len(b) :
           (a \o b)[i] = IF i <= Len(a) THEN a[i] ELSE b[i - Len(a)]
  BY <1>2, <1>3, ConcatProperties
<1>5. Len(a) + Len(b) = n
  BY <1>1, <1>2, <1>3
<1>6. ASSUME NEW i \in 1 .. n
      PROVE  (a \o b)[i] = s[i]
  <2>1. CASE i <= k
    <3>1. i \in 1 .. Len(a) + Len(b) /\ i <= Len(a) /\ i \in 1 .. k
      BY <1>1, <1>2, <1>5, <2>1
    <3>2. (a \o b)[i] = a[i]
      BY <1>4, <3>1
    <3> QED
      BY <1>2, <3>1, <3>2
  <2>2. CASE ~(i <= k)
    <3>1. /\ i - k \in 1 .. n - k /\ k + (i - k) = i
          /\ i \in 1 .. Len(a) + Len(b) /\ ~(i <= Len(a)) /\ i - Len(a) = i - k
      BY <1>1, <1>2, <1>5, <2>2
    <3>2. (a \o b)[i] = b[i - k]
      BY <1>4, <3>1
    <3> QED
      BY <1>3, <3>1, <3>2
  <2> QED
    BY <2>1, <2>2
<1>7. a \o b = [i \in 1 .. n |-> (a \o b)[i]]
  <2> DEFINE t == a \o b
  <2>1. t \in Seq(M) /\ Len(t) = n
    BY <1>4, <1>5
  <2> HIDE DEF t
  <2>2. t = [i \in 1 .. n |-> t[i]]
    BY <2>1
  <2> QED
    BY <2>2 DEF t
<1>8. [i \in 1 .. n |-> (a \o b)[i]] = [i \in 1 .. n |-> s[i]]
  BY <1>6, Zenon
<1>9. s = a \o b
  BY <1>1, <1>7, <1>8
<1> QED
  BY <1>2, <1>3, <1>9 DEF a, b, n

LEMMA Widen ==
  ASSUME NEW A, NEW B, A \subseteq B, NEW s \in Seq(A)
  PROVE  s \in Seq(B)
OBVIOUS

LEMMA TailUnits ==
  ASSUME NEW M, Counts(M), NEW q \in Seq(M), q # <<>>
  PROVE  /\ Head(q) \in M /\ Tail(q) \in Seq(M)
         /\ UnitsOf(q) = Units(Head(q)) + UnitsOf(Tail(q))
<1>1. /\ Head(q) \in M /\ Tail(q) \in Seq(M) /\ <<Head(q)>> \in Seq(M)
      /\ q = <<Head(q)>> \o Tail(q)
  OBVIOUS
<1>2. Units(Head(q)) \in Nat
  BY <1>1 DEF Counts
<1>3. UnitsOf(<<Head(q)>> \o Tail(q)) = UnitsOf(<<Head(q)>>) + UnitsOf(Tail(q))
  BY <1>1, UnitsJoin
<1>4. UnitsOf(<<Head(q)>>) = Units(Head(q))
  BY <1>2, UnitsOne
<1> QED
  BY <1>1, <1>3, <1>4

\* The kinds of packets.
LEMMA Kinds ==
  ASSUME NEW size
  PROVE  /\ Counts(FromSender(size))
         /\ \A p \in Offer(size) : Units(p) = 0
         /\ Offer(size) \subseteq FromSender(size) /\ HelloOf(Sender) \subseteq Offer(size)
         /\ HelloOf(Receiver) \subseteq FromReceiver
<1>1. \A p \in HelloOf(Sender) : Units(p) = 0
  BY DEF HelloOf, Units
<1>2. Units([cmd |-> "INFO", size |-> size]) = 0
  BY DEF Units
<1>3. \A p \in Offer(size) : Units(p) = 0
  BY <1>1, <1>2, Zenon DEF Offer
<1>4. \A p \in [cmd : {"DATA"}, n : 1 .. CHUNK] : Units(p) \in Nat
  BY TransferAssumption DEF Units
<1>5. Counts(FromSender(size))
  BY <1>3, <1>4 DEF Counts, FromSender
<1> QED
  BY <1>3, <1>5, Zenon DEF Offer, FromSender, FromReceiver

\* The size of the next chunk.
LEMMA Smaller ==
  ASSUME NEW a \in Nat, NEW b \in Nat
  PROVE  Min({a, b}) = IF a <= b THEN a ELSE b
<1>1. {a, b} \in SUBSET Nat /\ {a, b} # {}
  OBVIOUS
<1>2. Min({a, b}) \in {a, b} /\ \A y \in {a, b} : Min({a, b}) <= y
  BY <1>1, MinExists
<1> QED
  BY <1>2

-----------------------------------------------------------------------------
(***************************************************************************)
(* The ends.                                                               *)
(***************************************************************************)

\* d is e after its session is destroyed.
Gone(d, e) ==
  /\ d \in FileEnd /\ d.status = "none" /\ ~d.open /\ d.sendBuf = <<>>
  /\ ~d.listener /\ ~d.file /\ ~d.writeEnabled /\ ~d.picking
  /\ d.left = e.left /\ d.fileSize = e.fileSize /\ d.transfer_size = e.transfer_size
  /\ d.report = e.report /\ d.unwritten = e.unwritten

LEMMA DestroyGone ==
  ASSUME NEW e \in FileEnd
  PROVE  Gone(Destroy(e), e)
<1>1. NoSession \in FileEnd
  <2>1. <<>> \in Seq(Packet)
    OBVIOUS
  <2> QED
    BY <2>1, Zenon DEF FileEnd, NoSession, Reports
<1>2. Destroy(e) \in FileEnd
  BY <1>1 DEF Destroy, FileEnd
<1>3. /\ Destroy(e).status = "none" /\ ~Destroy(e).open
      /\ Destroy(e).sendBuf = <<>>
      /\ ~Destroy(e).listener /\ ~Destroy(e).file /\ ~Destroy(e).writeEnabled
      /\ Destroy(e).left = e.left /\ Destroy(e).fileSize = e.fileSize
      /\ Destroy(e).transfer_size = e.transfer_size /\ Destroy(e).report = e.report
      /\ ~Destroy(e).picking /\ Destroy(e).unwritten = e.unwritten
  BY DEF Destroy, NoSession
<1> QED
  BY <1>2, <1>3 DEF Gone

LEMMA QueueEnd ==
  ASSUME NEW e \in FileEnd, NEW p \in Packet
  PROVE  Queue(e, p) \in FileEnd
<1> DEFINE q == Append(e.sendBuf, p)
<1>1. e.sendBuf \in Seq(Packet)
  BY DEF FileEnd
<1>2. q \in Seq(Packet)
  BY <1>1
<1>3. Queue(e, p) = [e EXCEPT !.sendBuf = q]
  BY DEF Queue
<1> HIDE DEF q
<1> QED
  BY <1>2, <1>3 DEF FileEnd

\* The sender's session is there, and its dialog with or without a file.
Offered(f) ==
  /\ SenderEnd(f) /\ f.transfer_size = 0 /\ f.report = "none" /\ ~f.writeEnabled
  /\ f.sendBuf \in Seq(Offer(f.fileSize)) /\ f.status \in {"none", "ESTABLISHED"}

\* The sender's dialog asks for the file.
LEMMA SenderAsks ==
  ASSUME NEW e \in FileEnd, e.isSend, Untouched(e), ~e.writeEnabled, ~e.file, ~e.listener,
         e.status = "ESTABLISHED", e.sendBuf \in Seq(HelloOf(Sender)),
         NEW f, f = OnTCPEstablished(e)
  PROVE  Offered(f) /\ f.picking
<1>1. f = [e EXCEPT !.picking = TRUE]
  BY DEF OnTCPEstablished
<1>2. /\ f \in FileEnd /\ f.status = "ESTABLISHED" /\ f.isSend /\ ~f.listener /\ ~f.file
      /\ ~f.writeEnabled /\ f.left = 0 /\ f.fileSize = 0 /\ f.transfer_size = 0
      /\ f.report = "none" /\ f.sendBuf = e.sendBuf /\ f.picking
  BY <1>1 DEF FileEnd, Untouched
<1>3. HelloOf(Sender) \subseteq Offer(0) /\ Offer(0) \subseteq FromSender(0)
  BY Kinds
<1>4. f.sendBuf \in Seq(Offer(0)) /\ f.sendBuf \in Seq(FromSender(0))
  BY <1>2, <1>3, Widen
<1>5. AnyEnd(f)
  BY <1>2 DEF AnyEnd
<1>6. SenderEnd(f)
  BY <1>2, <1>4, <1>5 DEF SenderEnd, Untouched
<1> QED
  BY <1>2, <1>4, <1>6 DEF Offered

\* The sender's user has answered.
LEMMA SenderOpens ==
  ASSUME NEW e, SenderEnd(e), e.picking, NEW f \in Picked(e)
  PROVE  Offered(f) /\ ~f.picking
<1>1. /\ e \in FileEnd /\ e.isSend /\ Untouched(e) /\ ~e.writeEnabled /\ ~e.file
      /\ e.status = "ESTABLISHED" /\ e.sendBuf \in Seq(HelloOf(Sender))
  BY DEF SenderEnd, AnyEnd
<1> DEFINE c == [e EXCEPT !.picking = FALSE, !.listener = TRUE]
<1>2. /\ c \in FileEnd /\ c.status = "ESTABLISHED" /\ c.isSend /\ c.listener /\ ~c.picking
      /\ ~c.file /\ ~c.writeEnabled /\ c.left = 0 /\ c.fileSize = 0 /\ c.transfer_size = 0
      /\ c.report = "none" /\ c.sendBuf = e.sendBuf
  BY <1>1 DEF FileEnd, Untouched
<1>3. f \in {Destroy(e), [c EXCEPT !.unopened = TRUE]} \cup
             {[Queue(c, [cmd |-> "INFO", size |-> n])
                 EXCEPT !.file = TRUE, !.fileSize = n, !.left = n] : n \in FileSizes}
  BY <1>1 DEF Picked
<1> HIDE DEF c
<1>4. CASE f = Destroy(e)
  <2>1. Gone(f, e)
    BY <1>1, <1>4, DestroyGone
  <2>2. /\ f \in FileEnd /\ f.status = "none" /\ ~f.open /\ f.sendBuf = <<>>
        /\ ~f.listener /\ ~f.file /\ ~f.writeEnabled /\ ~f.picking
        /\ f.transfer_size = 0 /\ f.report = "none"
    BY <1>1, <2>1 DEF Gone, Untouched
  <2>3. \A M : <<>> \in Seq(M)
    OBVIOUS
  <2> QED
    BY <2>2, <2>3 DEF Offered, SenderEnd, AnyEnd, Untouched
<1>5. CASE f = [c EXCEPT !.unopened = TRUE]
  <2>1. /\ f \in FileEnd /\ f.status = "ESTABLISHED" /\ f.isSend /\ f.listener /\ ~f.picking
        /\ ~f.file /\ ~f.writeEnabled /\ f.left = 0 /\ f.fileSize = 0 /\ f.transfer_size = 0
        /\ f.report = "none" /\ f.sendBuf = e.sendBuf
    BY <1>2, <1>5 DEF FileEnd
  <2>2. HelloOf(Sender) \subseteq Offer(0) /\ Offer(0) \subseteq FromSender(0)
    BY Kinds
  <2>3. f.sendBuf \in Seq(Offer(0)) /\ f.sendBuf \in Seq(FromSender(0))
    BY <1>1, <2>1, <2>2, Widen
  <2>4. AnyEnd(f)
    BY <2>1 DEF AnyEnd
  <2>5. SenderEnd(f)
    BY <2>1, <2>3, <2>4 DEF SenderEnd
  <2> QED
    BY <2>1, <2>3, <2>5 DEF Offered
<1>6. ASSUME NEW n \in FileSizes,
             f = [Queue(c, [cmd |-> "INFO", size |-> n])
                    EXCEPT !.file = TRUE, !.fileSize = n, !.left = n]
      PROVE  Offered(f) /\ ~f.picking
  <2> DEFINE p == [cmd |-> "INFO", size |-> n]
  <2>1. p \in Packet /\ n \in Nat
    BY TransferAssumption DEF Packet
  <2>2. Queue(c, p) \in FileEnd
    BY <1>2, <2>1, QueueEnd
  <2>3. f \in FileEnd
    BY <1>6, <2>1, <2>2 DEF FileEnd
  <2>4. /\ f.status = "ESTABLISHED" /\ f.isSend /\ f.listener /\ ~f.picking /\ f.file
        /\ ~f.writeEnabled /\ f.fileSize = n /\ f.left = n /\ f.transfer_size = 0
        /\ f.report = "none" /\ f.sendBuf = Append(e.sendBuf, p)
    BY <1>2, <1>6 DEF Queue, FileEnd
  <2>5. HelloOf(Sender) \subseteq Offer(n) /\ p \in Offer(n) /\ Offer(n) \subseteq FromSender(n)
    BY Kinds DEF Offer
  <2> HIDE DEF p
  <2>6. f.sendBuf \in Seq(Offer(n)) /\ f.sendBuf \in Seq(FromSender(n))
    <3>1. e.sendBuf \in Seq(Offer(n))
      BY <1>1, <2>5, Widen
    <3>2. f.sendBuf \in Seq(Offer(n))
      BY <2>4, <2>5, <3>1
    <3> QED
      BY <2>5, <3>2, Widen
  <2>7. 0 % CHUNK = 0
    BY TransferAssumption
  <2>8. AnyEnd(f)
    BY <2>3, <2>4 DEF AnyEnd
  <2>9. SenderEnd(f)
    BY <2>1, <2>4, <2>6, <2>7, <2>8 DEF SenderEnd
  <2> QED
    BY <2>4, <2>6, <2>9 DEF Offered
<1> QED
  BY <1>3, <1>4, <1>5, <1>6

\* The hello that waited for the picker is queued behind the offer.
LEMMA OfferedHello ==
  ASSUME NEW e, Offered(e), e.status # "none",
         NEW f, f = Queue(e, [cmd |-> "HELLO", isSend |-> TRUE])
  PROVE  Offered(f) /\ f.status = e.status /\ f.picking = e.picking
<1> DEFINE p == [cmd |-> "HELLO", isSend |-> TRUE]
<1>1. (Sender = Sender) = TRUE
  OBVIOUS
<1>2. p \in Packet /\ p \in HelloOf(Sender) /\ \A size : p \in Offer(size) /\ p \in FromSender(size)
  <2>1. p \in HelloOf(Sender)
    BY <1>1, Zenon DEF HelloOf
  <2>2. p \in Packet
    BY DEF Packet
  <2> QED
    BY <2>1, <2>2 DEF Offer, FromSender
<1>3. f = Queue(e, p)
  OBVIOUS
<1> HIDE DEF p
<1>4. e.status = "ESTABLISHED" /\ e \in FileEnd
  BY DEF Offered, SenderEnd, AnyEnd
<1>5. f \in FileEnd
  BY <1>2, <1>3, <1>4, QueueEnd
<1>6. /\ f.status = e.status /\ f.isSend = e.isSend /\ f.picking = e.picking
      /\ f.listener = e.listener /\ f.open = e.open /\ f.file = e.file
      /\ f.writeEnabled = e.writeEnabled /\ f.fileSize = e.fileSize /\ f.left = e.left
      /\ f.transfer_size = e.transfer_size /\ f.report = e.report
      /\ f.sendBuf = Append(e.sendBuf, p)
  BY <1>3, <1>4 DEF Queue, FileEnd
<1>7. /\ f.sendBuf \in Seq(Offer(f.fileSize)) /\ f.sendBuf \in Seq(FromSender(f.fileSize))
      /\ e.sendBuf \in Seq(HelloOf(Sender)) => f.sendBuf \in Seq(HelloOf(Sender))
  <2>1. e.sendBuf \in Seq(Offer(e.fileSize)) /\ e.sendBuf \in Seq(FromSender(e.fileSize))
    BY DEF Offered, SenderEnd
  <2>2. \A M : e.sendBuf \in Seq(M) /\ p \in M => Append(e.sendBuf, p) \in Seq(M)
    OBVIOUS
  <2>3. f.sendBuf = Append(e.sendBuf, p) /\ f.fileSize = e.fileSize
    BY <1>6
  <2> QED
    BY <1>2, <2>1, <2>2, <2>3, Zenon
<1>8. AnyEnd(f)
  BY <1>4, <1>5, <1>6 DEF Offered, SenderEnd, AnyEnd
<1>9. SenderEnd(f)
  BY <1>4, <1>6, <1>7, <1>8 DEF Offered, SenderEnd, Untouched
<1> QED
  BY <1>4, <1>6, <1>7, <1>9 DEF Offered

LEMMA SenderShown ==
  ASSUME NEW s, NEW r, NEW ns, NEW nr, NEW b, Good(s, r, ns, nr, b),
         Early(r, ns, nr), NEW f, Offered(f)
  PROVE  Good(f, r, ns, nr, b)
<1>1. \A M : <<>> \in Seq(M)
  OBVIOUS
<1>2. Flow(f, r, ns, nr)
  BY <1>1 DEF Good, Flow, Early
<1>3. Ready(f, r, ns, nr, b)
  BY <1>1 DEF Ready, Accepted, Early, Offered
<1>4. UnitsOf(nr) = 0 /\ UnitsOf(f.sendBuf) = 0
  BY Kinds, UnitsZero, UnitsNone DEF Early, Offered
<1>5. NoneLost(f, r, nr, b)
  BY <1>4 DEF NoneLost, Early, Offered
<1> QED
  BY <1>2, <1>3, <1>5 DEF Good, Offered

LEMMA SameSum ==
  ASSUME NEW t \in Nat, NEW u \in Nat, NEW v \in Nat, NEW x \in Nat, NEW y \in Nat,
         u + v = x + y
  PROVE  t + u + v = t + x + y
OBVIOUS

LEMMA Joined ==
  ASSUME NEW M, NEW x \in Seq(M), NEW y \in Seq(M)
  PROVE  x \o y \in Seq(M) /\ <<>> \in Seq(M)
OBVIOUS

\* A session whose transfer has not been reported on, and that is open if data has
\* been sent.
Sending(e) == e.report = "none" /\ (e.open \/ e.transfer_size = 0)

\* The sender's socket takes the first k packets; a socket at the other end that is
\* closed loses what there is.
LEMMA SenderSends ==
  ASSUME NEW s, NEW r, NEW ns, NEW nr, NEW b, Good(s, r, ns, nr, b),
         Sending(s),
         NEW k \in Nat, k <= Len(s.sendBuf),
         NEW f, f = [s EXCEPT !.sendBuf = SubSeq(@, k + 1, Len(@))],
         NEW mr, mr = nr \o SubSeq(s.sendBuf, 1, k) \/ (mr = <<>> /\ ~r.open)
  PROVE  Good(f, r, ns, mr, b)
<1> DEFINE buf == s.sendBuf
           a == SubSeq(buf, 1, k)
           c == SubSeq(buf, k + 1, Len(buf))
           M == FromSender(s.fileSize)
           O == Offer(s.fileSize)
<1>1. /\ s \in FileEnd /\ buf \in Seq(Packet) /\ buf \in Seq(M) /\ nr \in Seq(M)
      /\ s.transfer_size \in Nat
  BY DEF Good, SenderEnd, AnyEnd, FileEnd, Flow
<1>2. /\ a \in Seq(M) /\ c \in Seq(M) /\ buf = a \o c /\ c \in Seq(Packet)
      /\ \A P : buf \in Seq(P) => a \in Seq(P) /\ c \in Seq(P)
  BY <1>1, Parts
<1> HIDE DEF a, c, buf, M, O
<1>3. f = [s EXCEPT !.sendBuf = c]
  BY DEF c, buf
<1>4. f \in FileEnd
  BY <1>1, <1>2, <1>3 DEF FileEnd
<1>5. /\ f.sendBuf = c /\ f.status = s.status /\ f.isSend = s.isSend
      /\ f.listener = s.listener /\ f.open = s.open /\ f.file = s.file
      /\ f.writeEnabled = s.writeEnabled /\ f.fileSize = s.fileSize /\ f.left = s.left
      /\ f.picking = s.picking /\ f.unwritten = s.unwritten
      /\ f.transfer_size = s.transfer_size /\ f.report = s.report
  BY <1>1, <1>3 DEF FileEnd
<1>6. buf = <<>> => c = <<>>
  BY DEF c
<1>7. SenderEnd(f)
  <2>1. AnyEnd(f)
    BY <1>4, <1>5, <1>6 DEF Good, SenderEnd, AnyEnd, Untouched, buf
  <2>2. \A P : s.sendBuf \in Seq(P) => f.sendBuf \in Seq(P)
    BY <1>2, <1>5 DEF buf
  <2>3. SenderEnd(s)
    BY DEF Good
  <2> QED
    BY <1>5, <2>1, <2>2, <2>3 DEF SenderEnd, Untouched
<1>8. mr = nr \o a \/ (mr = <<>> /\ ~r.open)
  BY DEF a, buf
<1>9. mr \in Seq(M)
  BY <1>1, <1>2, <1>8, Joined
<1>10. Flow(f, r, ns, mr)
  BY <1>5, <1>9 DEF Good, Flow, M
<1>11. ASSUME Accepted(f, r, ns, mr)
       PROVE  Accepted(s, r, ns, nr)
  <2>1. CASE mr \notin Seq(O)
    <3>0. <<>> \in Seq(O) /\ \A x, y \in Seq(O) : x \o y \in Seq(O)
      BY Joined
    <3>1. mr = nr \o a /\ (nr \notin Seq(O) \/ a \notin Seq(O))
      BY <1>8, <2>1, <3>0
    <3>2. CASE a \notin Seq(O)
      <4>1. s.transfer_size # 0
        BY <1>2, <3>2 DEF Good, SenderEnd, buf, O
      <4> QED
        BY <1>1, <4>1 DEF Accepted, Sending
    <3> QED
      BY <3>1, <3>2 DEF Accepted, O
  <2>2. CASE mr \in Seq(O)
    BY <1>5, <1>11, <2>2 DEF Accepted, O
  <2> QED
    BY <2>1, <2>2
<1>12. Ready(f, r, ns, mr, b)
  BY <1>11 DEF Good, Ready
<1>13. ASSUME ~b, r.report # "stopped"
       PROVE  UnitsOf(mr) + UnitsOf(c) = UnitsOf(nr) + UnitsOf(buf)
  <2>1. Counts(M) /\ \A p \in O : Units(p) = 0
    BY Kinds DEF M, O
  <2>2. CASE mr = nr \o a
    <3>1. /\ UnitsOf(mr) = UnitsOf(nr) + UnitsOf(a)
          /\ UnitsOf(buf) = UnitsOf(a) + UnitsOf(c)
      BY <1>1, <1>2, <2>1, <2>2, UnitsJoin
    <3>2. UnitsOf(nr) \in Nat /\ UnitsOf(a) \in Nat /\ UnitsOf(c) \in Nat
      BY <1>1, <1>2, <2>1, UnitsNat
    <3> QED
      BY <3>1, <3>2
  <2>3. CASE mr = <<>> /\ ~r.open
    <3>1. ~Accepted(s, r, ns, nr)
      BY <1>13, <2>3 DEF Good, Ready, ReceiverEnd, AnyEnd
    <3>2. nr \in Seq(O) /\ s.transfer_size = 0
      BY <1>1, <3>1 DEF Accepted, O, Sending
    <3>3. buf \in Seq(O) /\ c \in Seq(O)
      BY <1>2, <3>2 DEF Good, SenderEnd, buf, O
    <3>4. UnitsOf(mr) = 0 /\ UnitsOf(c) = 0 /\ UnitsOf(nr) = 0 /\ UnitsOf(buf) = 0
      BY <2>1, <2>3, <3>2, <3>3, UnitsZero, UnitsNone
    <3> QED
      BY <3>4
  <2> QED
    BY <1>8, <2>2, <2>3
<1>14. NoneLost(f, r, mr, b)
  <2> SUFFICES ASSUME ~b, r.report # "stopped"
               PROVE  /\ f.report = "none" =>
                           Arrived(r) + UnitsOf(mr) + UnitsOf(f.sendBuf) = f.transfer_size
                      /\ f.report = "success" =>
                           Arrived(r) + UnitsOf(mr) = f.fileSize - (f.fileSize % CHUNK)
    BY DEF NoneLost
  <2>1. /\ UnitsOf(mr) \in Nat /\ UnitsOf(c) \in Nat /\ UnitsOf(nr) \in Nat
        /\ UnitsOf(buf) \in Nat
        /\ Arrived(r) \in Nat
    <3>1. Counts(M)
      BY Kinds DEF M
    <3>2. Arrived(r) \in Nat
      BY DEF Good, ReceiverEnd, AnyEnd, FileEnd, Arrived
    <3> QED
      BY <1>1, <1>2, <1>9, <3>1, <3>2, UnitsNat
  <2>2. UnitsOf(mr) + UnitsOf(c) = UnitsOf(nr) + UnitsOf(buf)
    BY <1>13
  <2>3. s.report = "none" =>
          Arrived(r) + UnitsOf(nr) + UnitsOf(buf) = s.transfer_size
    BY DEF Good, NoneLost, buf
  <2>4. s.report = "none"
    BY DEF Sending
  <2>5. Arrived(r) + UnitsOf(mr) + UnitsOf(c) = s.transfer_size
    <3>1. Arrived(r) + UnitsOf(nr) + UnitsOf(buf) = s.transfer_size
      BY <2>3, <2>4
    <3>2. Arrived(r) + UnitsOf(mr) + UnitsOf(c)
            = Arrived(r) + UnitsOf(nr) + UnitsOf(buf)
      <4> DEFINE t == Arrived(r)
                 u == UnitsOf(mr)
                 v == UnitsOf(c)
                 x == UnitsOf(nr)
                 y == UnitsOf(buf)
      <4>1. t \in Nat /\ u \in Nat /\ v \in Nat /\ x \in Nat /\ y \in Nat /\ u + v = x + y
        BY <2>1, <2>2
      <4> HIDE DEF t, u, v, x, y
      <4>2. t + u + v = t + x + y
        BY <4>1
      <4> QED
        BY <4>2 DEF t, u, v, x, y
    <3> QED
      BY <3>1, <3>2, Zenon
  <2> QED
    BY <1>5, <2>4, <2>5
<1> QED
  BY <1>7, <1>10, <1>12, <1>14 DEF Good

\* A session that is gone is an end of either user.
LEMMA GoneEnd ==
  ASSUME NEW e, NEW d, Gone(d, e)
  PROVE  SenderEnd(d) /\ ((d.report = "success" => d.transfer_size = d.fileSize) => ReceiverEnd(d))
<1>1. \A M : <<>> \in Seq(M)
  OBVIOUS
<1> QED
  BY <1>1 DEF Gone, SenderEnd, ReceiverEnd, AnyEnd

\* The sender reads a chunk and sends it.
LEMMA SenderReads ==
  ASSUME NEW s, NEW r, NEW ns, NEW nr, NEW b, Good(s, r, ns, nr, b),
         s.writeEnabled, s.sendBuf = <<>>, NEW f, f = OnSend(s)
  PROVE  Good(f, r, ns, nr, b) /\ f.status \in {"none", "ESTABLISHED"} /\ ~f.picking
<1> DEFINE n == Min({CHUNK, s.left})
           p == [cmd |-> "DATA", n |-> n]
           more == [Queue(s, p) EXCEPT !.left = @ - n, !.transfer_size = @ + n]
           sent == IF n = 0 THEN s ELSE more
<1>1. /\ s \in FileEnd /\ s.writeEnabled \in BOOLEAN /\ s.open /\ s.file /\ s.listener
      /\ s.status = "ESTABLISHED" /\ s.isSend /\ s.report = "none" /\ ~s.picking
      /\ s.left \in Nat /\ s.transfer_size \in Nat /\ s.fileSize \in Nat
      /\ s.left + s.transfer_size = s.fileSize /\ s.transfer_size % CHUNK = 0
  BY DEF Good, SenderEnd, AnyEnd, FileEnd
<1>2. CHUNK \in Nat /\ CHUNK > 0
  BY TransferAssumption
<1>3. n = IF CHUNK <= s.left THEN CHUNK ELSE s.left
  BY <1>1, <1>2, Smaller
<1>4. f = IF n < CHUNK THEN Destroy(OnFileComplete(sent)) ELSE sent
  BY <1>1 DEF OnSend
<1> HIDE DEF n
<1>5. n \in Nat
  BY <1>1, <1>2, <1>3
<1>6. /\ more.status = s.status /\ more.isSend = s.isSend /\ more.listener = s.listener
      /\ more.open = s.open /\ more.file = s.file /\ more.writeEnabled = s.writeEnabled
      /\ more.fileSize = s.fileSize /\ more.report = s.report
      /\ more.left = s.left - n /\ more.transfer_size = s.transfer_size + n
      /\ more.sendBuf = Append(s.sendBuf, p) /\ more.picking = s.picking
  BY <1>1 DEF Queue, FileEnd
<1>7. ASSUME n > 0, n <= CHUNK, n <= s.left
      PROVE  more \in FileEnd /\ p \in FromSender(s.fileSize)
  <2>1. p \in Packet /\ p \in FromSender(s.fileSize)
    BY <1>2, <1>5, <1>7 DEF Packet, FromSender
  <2> HIDE DEF p
  <2>2. Queue(s, p) \in FileEnd
    BY <1>1, <2>1, QueueEnd
  <2>3. s.left - n \in Nat /\ s.transfer_size + n \in Nat
    BY <1>1, <1>5, <1>7
  <2>4. Queue(s, p).left = s.left /\ Queue(s, p).transfer_size = s.transfer_size
    BY <1>1 DEF Queue, FileEnd
  <2>5. more \in FileEnd
    BY <2>2, <2>3, <2>4 DEF FileEnd
  <2> QED
    BY <2>1, <2>5
<1>8. ~b /\ r.report # "stopped" => r.listener /\ r.file
  BY <1>1 DEF Good, Ready, Accepted
<1>9. ~b /\ r.report # "stopped" =>
        Arrived(r) + UnitsOf(nr) = s.transfer_size
  <2>1. UnitsOf(s.sendBuf) = 0
    BY UnitsNone
  <2>2. UnitsOf(nr) \in Nat /\ Arrived(r) \in Nat
    <3>1. Counts(FromSender(s.fileSize)) /\ nr \in Seq(FromSender(s.fileSize))
      BY Kinds DEF Good, Flow
    <3>2. Arrived(r) \in Nat
      BY DEF Good, ReceiverEnd, AnyEnd, FileEnd, Arrived
    <3> QED
      BY <3>1, <3>2, UnitsNat
  <2>3. ~b /\ r.report # "stopped" =>
          Arrived(r) + UnitsOf(nr) + UnitsOf(s.sendBuf) = s.transfer_size
    BY <1>1 DEF Good, NoneLost
  <2> QED
    BY <2>1, <2>2, <2>3
<1>10. UnitsOf(nr) \in Nat /\ Arrived(r) \in Nat
  <2>1. Counts(FromSender(s.fileSize)) /\ nr \in Seq(FromSender(s.fileSize))
    BY Kinds DEF Good, Flow
  <2>2. Arrived(r) \in Nat
    BY DEF Good, ReceiverEnd, AnyEnd, FileEnd, Arrived
  <2> QED
    BY <2>1, <2>2, UnitsNat
<1>11. CASE CHUNK <= s.left
  <2>1. n = CHUNK /\ n > 0 /\ n <= s.left /\ f = more
    BY <1>1, <1>2, <1>3, <1>4, <1>11
  <2>2. more \in FileEnd /\ p \in FromSender(s.fileSize)
    BY <1>2, <1>7, <2>1
  <2>3. Units(p) = n
    BY DEF Units
  <2> HIDE DEF p, more, sent
  <2>4. f.sendBuf = <<p>>
    BY <1>6, <2>1
  <2>5. SenderEnd(f)
    <3>1. AnyEnd(f)
      BY <1>1, <1>6, <2>1, <2>2 DEF AnyEnd
    <3>2. f.sendBuf \in Seq(FromSender(f.fileSize))
      <4>1. \A M : p \in M => <<p>> \in Seq(M)
        OBVIOUS
      <4>2. f.fileSize = s.fileSize
        BY <1>6, <2>1
      <4> QED
        BY <2>2, <2>4, <4>1, <4>2
    <3>3. (s.transfer_size + CHUNK) % CHUNK = 0
      BY <1>1, ModWhole
    <3>4. f.transfer_size = s.transfer_size + CHUNK /\ f.transfer_size # 0
          /\ f.left + f.transfer_size = f.fileSize
      <4>1. /\ f.transfer_size = s.transfer_size + n /\ f.left = s.left - n
            /\ f.fileSize = s.fileSize
        BY <1>6, <2>1
      <4>2. n = CHUNK /\ CHUNK \in Nat /\ CHUNK > 0
        BY <1>2, <2>1
      <4> QED
        BY <1>1, <4>1, <4>2
    <3>5. f.transfer_size % CHUNK = 0
      BY <3>3, <3>4
    <3>6. f.isSend /\ f.file /\ f.status = "ESTABLISHED" /\ f.open /\ ~f.picking
      BY <1>1, <1>6, <2>1
    <3> QED
      BY <3>1, <3>2, <3>4, <3>5, <3>6 DEF SenderEnd
  <2>6. Flow(f, r, ns, nr)
    BY <1>6, <2>1 DEF Good, Flow
  <2>7. Ready(f, r, ns, nr, b)
    BY <1>8 DEF Ready
  <2>8. UnitsOf(f.sendBuf) = n
    BY <1>5, <2>3, <2>4, UnitsOne
  <2>9. f.report = "none" /\ f.transfer_size = s.transfer_size + n
    BY <1>1, <1>6, <2>1
  <2>10. NoneLost(f, r, nr, b)
    BY <1>1, <1>5, <1>9, <1>10, <2>8, <2>9 DEF NoneLost
  <2>11. f.status = "ESTABLISHED" /\ ~f.picking
    BY <1>1, <1>6, <2>1
  <2> QED
    BY <2>5, <2>6, <2>7, <2>10, <2>11 DEF Good
<1>12. CASE ~(CHUNK <= s.left)
  <2>1. n = s.left /\ n < CHUNK
    BY <1>1, <1>2, <1>3, <1>12
  <2>2. sent \in FileEnd
    BY <1>1, <1>2, <1>5, <1>7, <2>1
  <2>3. /\ sent.fileSize = s.fileSize /\ sent.transfer_size = s.transfer_size + n
        /\ sent.report = "none"
    BY <1>1, <1>6
  <2> HIDE DEF sent, more, p
  <2> DEFINE e == OnFileComplete(sent)
  <2>4. sent.transfer_size = sent.fileSize
    BY <1>1, <2>1, <2>3
  <2>5. e = [sent EXCEPT !.report = "success"]
    BY <2>3, <2>4 DEF OnFileComplete
  <2>6. e \in FileEnd /\ e.report = "success" /\ e.fileSize = s.fileSize
        /\ e.transfer_size = s.transfer_size + n
    BY <2>2, <2>3, <2>5 DEF FileEnd, Reports
  <2> HIDE DEF e
  <2>7. f = Destroy(e)
    BY <1>4, <2>1 DEF e
  <2>8. Gone(f, e)
    BY <2>6, <2>7, DestroyGone
  <2>9. SenderEnd(f)
    BY <2>8, GoneEnd
  <2>10. f.report = "success" /\ f.fileSize = s.fileSize
    BY <2>6, <2>8 DEF Gone
  <2>11. Flow(f, r, ns, nr)
    BY <2>10 DEF Good, Flow
  <2>12. Ready(f, r, ns, nr, b)
    BY <1>8 DEF Ready
  <2>13. s.fileSize % CHUNK = n /\ s.fileSize = s.transfer_size + n
    <3>1. (s.transfer_size + n) % CHUNK = n
      BY <1>1, <1>5, <2>1, ModTail
    <3>2. s.fileSize = s.transfer_size + n
      BY <1>1, <2>1
    <3> QED
      BY <3>1, <3>2
  <2>14. NoneLost(f, r, nr, b)
    BY <1>1, <1>5, <1>9, <2>10, <2>13 DEF NoneLost
  <2> QED
    BY <2>8, <2>9, <2>11, <2>12, <2>14 DEF Good, Gone
<1> QED
  BY <1>11, <1>12

LEMMA Hellos ==
  /\ \A p \in HelloOf(Sender) : p.cmd = "HELLO" /\ p.isSend = TRUE
  /\ \A p \in HelloOf(Receiver) : p.cmd = "HELLO" /\ p.isSend = FALSE
<1>1. (Receiver = Sender) = FALSE /\ (Sender = Sender) = TRUE
  BY DEF Sender, Receiver
<1>2. /\ HelloOf(Sender) = {[cmd |-> "HELLO", isSend |-> TRUE]}
      /\ HelloOf(Receiver) = {[cmd |-> "HELLO", isSend |-> FALSE]}
  BY <1>1, Zenon DEF HelloOf
<1> QED
  BY <1>2

LEMMA SenderDrops ==
  ASSUME NEW s, NEW r, NEW ns, NEW nr, NEW b, Good(s, r, ns, nr, b), ns # <<>>
  PROVE  /\ Good(s, r, Tail(ns), nr, b)
         /\ Early(r, ns, nr) => Early(r, Tail(ns), nr)
         /\ Head(ns) \in FromReceiver
         /\ (ns \in Seq(HelloOf(Receiver)) => Head(ns) \in HelloOf(Receiver))
<1>1. \A M : ns \in Seq(M) => Tail(ns) \in Seq(M) /\ Head(ns) \in M
  OBVIOUS
<1>2. Flow(s, r, Tail(ns), nr)
  BY <1>1 DEF Good, Flow
<1>3. Accepted(s, r, Tail(ns), nr) => Accepted(s, r, ns, nr)
  BY <1>1 DEF Accepted
<1>4. Ready(s, r, Tail(ns), nr, b)
  BY <1>3 DEF Good, Ready
<1>5. /\ Early(r, ns, nr) => Early(r, Tail(ns), nr)
      /\ Head(ns) \in FromReceiver
      /\ ns \in Seq(HelloOf(Receiver)) => Head(ns) \in HelloOf(Receiver)
  BY <1>1 DEF Good, Flow, Early
<1> QED
  BY <1>2, <1>4, <1>5 DEF Good

\* The sender takes a packet.
LEMMA SenderReceives ==
  ASSUME NEW s, NEW r, NEW ns, NEW nr, NEW b, Good(s, r, ns, nr, b),
         ns # <<>>, s.open,
         Unknown(s) => Early(r, ns, nr),
         NEW f \in OnPacketReceived(s, Head(ns))
  PROVE  /\ Good(f, r, Tail(ns), nr, b)
         /\ Unknown(f) => Early(r, Tail(ns), nr)
<1> DEFINE p == Head(ns)
<1>1. s \in FileEnd
  BY DEF Good, SenderEnd, AnyEnd
<1>2. /\ Good(s, r, Tail(ns), nr, b) /\ (Unknown(s) => Early(r, Tail(ns), nr))
      /\ p \in FromReceiver
      /\ (ns \in Seq(HelloOf(Receiver)) => p \in HelloOf(Receiver))
  BY SenderDrops
<1>3. f \in OnPacketReceived(s, p)
  OBVIOUS
<1> HIDE DEF p
<1>4. CASE f = s
  BY <1>2, <1>4
<1>5. CASE p \in HelloOf(Receiver) /\ f # s
  <2>1. p.cmd = "HELLO" /\ p.isSend = FALSE
    BY <1>5, Hellos
  <2>2. f = OnHello(s, p)
    BY <1>3, <2>1 DEF OnPacketReceived
  <2> DEFINE e == [s EXCEPT !.status = "ESTABLISHED", !.isSend = ~p.isSend]
  <2>3. s.status = "HELLO_WAIT" /\ f = OnTCPEstablished(e)
    BY <1>5, <2>2 DEF OnHello
  <2>4. /\ Untouched(s) /\ s.sendBuf = <<>> /\ ~s.writeEnabled /\ ~s.file /\ ~s.listener
        /\ ~s.picking
    BY <2>3 DEF Good, SenderEnd, AnyEnd
  <2>5. (~p.isSend) = TRUE
    BY <2>1
  <2>6. e = [s EXCEPT !.status = "ESTABLISHED", !.isSend = TRUE]
    BY <2>5, Zenon
  <2> HIDE DEF e
  <2>7. /\ e \in FileEnd /\ e.isSend /\ e.status = "ESTABLISHED" /\ ~e.file /\ ~e.listener
        /\ Untouched(e) /\ ~e.writeEnabled /\ e.sendBuf = <<>>
    BY <1>1, <2>4, <2>6 DEF FileEnd, Untouched
  <2>8. e.sendBuf \in Seq(HelloOf(Sender))
    <3>1. \A M : <<>> \in Seq(M)
      OBVIOUS
    <3> QED
      BY <2>7, <3>1
  <2>9. Offered(f)
    BY <2>3, <2>7, <2>8, SenderAsks
  <2>10. Early(r, Tail(ns), nr)
    BY <1>2, <2>3 DEF Unknown
  <2> QED
    BY <1>2, <2>9, <2>10, SenderShown
<1>6. CASE p \notin HelloOf(Receiver) /\ f # s
  <2>1. p = [cmd |-> "RECEIVE"]
    BY <1>2, <1>6 DEF FromReceiver
  <2>2. p.cmd = "RECEIVE"
    BY <2>1
  <2>3. s.status = "ESTABLISHED" /\ s.listener /\ f \in OnReceive(s, p)
    BY <1>3, <1>6, <2>2 DEF OnPacketReceived
  <2>4. s.file /\ f = [s EXCEPT !.writeEnabled = TRUE]
    BY <1>6, <2>2, <2>3 DEF OnReceive
  <2>11. ~s.picking
    BY <2>4 DEF Good, SenderEnd, AnyEnd
  <2>5. /\ f \in FileEnd /\ f.status = s.status /\ f.isSend = s.isSend
        /\ f.listener = s.listener /\ f.open = s.open /\ f.file = s.file
        /\ f.writeEnabled /\ f.fileSize = s.fileSize /\ f.left = s.left
        /\ f.picking = s.picking /\ f.unwritten = s.unwritten
        /\ f.transfer_size = s.transfer_size /\ f.report = s.report /\ f.sendBuf = s.sendBuf
    BY <1>1, <2>4 DEF FileEnd
  <2>6. SenderEnd(f)
    <3>1. AnyEnd(f)
      BY <2>3, <2>4, <2>5, <2>11 DEF Good, SenderEnd, AnyEnd
    <3> QED
      BY <2>3, <2>4, <2>5, <2>11, <3>1 DEF Good, SenderEnd
  <2>7. Flow(f, r, Tail(ns), nr)
    BY <1>2, <2>5 DEF Good, Flow
  <2>8. ~b /\ r.report # "stopped" => r.listener /\ r.file
    BY <1>2, <1>6 DEF Good, Ready, Accepted
  <2>9. Ready(f, r, Tail(ns), nr, b)
    BY <2>8 DEF Ready
  <2>10. NoneLost(f, r, nr, b)
    BY <2>5 DEF Good, NoneLost
  <2> QED
    BY <2>3, <2>5, <2>6, <2>7, <2>9, <2>10, <2>11 DEF Good, Unknown
<1> QED
  BY <1>4, <1>5, <1>6

\* The session is closed with its dialog open.
Ended(d, e) ==
  /\ SenderEnd(d) /\ ReceiverEnd(d) /\ d.status = "none" /\ ~d.open /\ ~d.file
  /\ d.sendBuf = <<>> /\ ~d.writeEnabled /\ ~d.picking
  /\ d.fileSize = e.fileSize /\ d.transfer_size = e.transfer_size
  /\ d.unwritten = e.unwritten
  /\ d.report = IF e.report = "stopped" THEN "stopped"
                ELSE IF e.transfer_size = e.fileSize THEN "success" ELSE "error"

LEMMA CloseEnds ==
  ASSUME NEW e \in FileEnd
  PROVE  Ended(FileOnClose(e), e)
<1> DEFINE g == [e EXCEPT !.file = FALSE]
           h == OnFileComplete(g)
           d == Destroy(h)
           rep == IF e.report = "stopped" THEN "stopped"
                  ELSE IF e.transfer_size = e.fileSize THEN "success" ELSE "error"
<1>1. g \in FileEnd /\ g.report = e.report /\ g.fileSize = e.fileSize
      /\ g.transfer_size = e.transfer_size /\ g.unwritten = e.unwritten
  BY DEF FileEnd
<1> HIDE DEF g
<1>2. h = [g EXCEPT !.report = rep]
  BY <1>1 DEF OnFileComplete
<1>3. rep \in Reports /\ (rep = "success" => e.transfer_size = e.fileSize)
  BY DEF Reports
<1> HIDE DEF rep, h
<1>4. h \in FileEnd /\ h.report = rep /\ h.fileSize = e.fileSize /\ h.transfer_size = e.transfer_size
      /\ h.unwritten = e.unwritten
  BY <1>1, <1>2, <1>3 DEF FileEnd
<1>5. Gone(d, h)
  BY <1>4, DestroyGone
<1> HIDE DEF d
<1>6. SenderEnd(d) /\ ReceiverEnd(d)
  BY <1>3, <1>4, <1>5, GoneEnd DEF Gone
<1>7. Ended(d, e)
  BY <1>4, <1>5, <1>6 DEF Ended, Gone, rep
<1> QED
  BY <1>7 DEF FileOnClose, d, h, g

\* The sender sees the connection closed.
(* An end whose connection is over, and one that now listens as the receiver. *)
Shut(e) == IF e.listener THEN FileOnClose(e)
           ELSE [e EXCEPT !.open = FALSE, !.unheard = TRUE]

Receiving(e) ==
  OnTCPEstablished([e EXCEPT !.status = "ESTABLISHED", !.isSend = FALSE])

LEMMA SenderCloses ==
  ASSUME NEW s, NEW r, NEW ns, NEW nr, NEW b, Good(s, r, ns, nr, b),
         s.status \notin {"none", "NOT_CONN"}, b \/ ~r.open,
         NEW f, f = Shut(s)
  PROVE  /\ Good(f, r, ns, nr, b)
         /\ Unknown(f) => Unknown(s)
<1>1. s \in FileEnd /\ s.report = "none" /\ s.transfer_size \in Nat /\ s.fileSize \in Nat
      /\ Arrived(r) \in Nat
  BY DEF Good, SenderEnd, ReceiverEnd, AnyEnd, FileEnd, Arrived
<1>2. ASSUME ~b, r.report # "stopped"
      PROVE  /\ Arrived(r) + UnitsOf(nr) = 0 /\ nr \in Seq(Offer(s.fileSize))
             /\ r.sendBuf \in Seq(HelloOf(Receiver)) /\ s.transfer_size = 0
  <2>1. ~Accepted(s, r, ns, nr)
    BY <1>2 DEF Good, Ready, ReceiverEnd, AnyEnd
  <2>2. nr \in Seq(Offer(s.fileSize)) /\ r.sendBuf \in Seq(HelloOf(Receiver))
    BY <2>1 DEF Accepted
  <2>3. Arrived(r) + UnitsOf(nr) + UnitsOf(s.sendBuf) = s.transfer_size
    BY <1>1, <1>2 DEF Good, NoneLost
  <2>4. s.open => s.transfer_size = 0
    BY <1>1, <2>1 DEF Accepted
  <2>5. s.transfer_size = 0
    BY <2>4 DEF Good, SenderEnd
  <2>6. s.sendBuf \in Seq(Offer(s.fileSize))
    BY <2>5 DEF Good, SenderEnd
  <2>7. UnitsOf(nr) = 0 /\ UnitsOf(s.sendBuf) = 0
    BY <2>2, <2>6, Kinds, UnitsZero
  <2> QED
    BY <1>1, <2>2, <2>3, <2>5, <2>7
<1>3. CASE s.listener
  <2>1. Ended(f, s)
    BY <1>1, <1>3, CloseEnds DEF Shut
  <2>2. Flow(f, r, ns, nr)
    BY <2>1 DEF Good, Flow, Ended
  <2>3. Ready(f, r, ns, nr, b)
    BY <1>2, <2>1 DEF Ready, Accepted, Ended
  <2>4. NoneLost(f, r, nr, b)
    <3> SUFFICES ASSUME ~b, r.report # "stopped", f.report \in {"none", "success"}
                 PROVE  /\ f.report = "success"
                        /\ Arrived(r) + UnitsOf(nr) = f.fileSize - (f.fileSize % CHUNK)
      BY DEF NoneLost
    <3>1. f.report = "success" /\ f.fileSize = s.transfer_size
      BY <1>1, <2>1 DEF Ended
    <3>2. 0 % CHUNK = 0
      BY TransferAssumption
    <3>3. f.fileSize = 0 /\ Arrived(r) + UnitsOf(nr) = 0
      BY <1>2, <3>1
    <3> QED
      BY <3>1, <3>2, <3>3
  <2> QED
    BY <2>1, <2>2, <2>3, <2>4 DEF Good, Ended, Unknown
<1>4. CASE ~s.listener
  <2>1. /\ f \in FileEnd /\ f.status = s.status /\ f.isSend = s.isSend
        /\ f.listener = s.listener /\ ~f.open /\ f.file = s.file
        /\ f.writeEnabled = s.writeEnabled /\ f.fileSize = s.fileSize /\ f.left = s.left
        /\ f.picking = s.picking /\ f.unwritten = s.unwritten
        /\ f.transfer_size = s.transfer_size /\ f.report = s.report /\ f.sendBuf = s.sendBuf
    BY <1>1, <1>4 DEF FileEnd, Shut
  <2>6. SenderEnd(s) /\ AnyEnd(s)
    BY DEF Good, SenderEnd
  <2>7. Untouched(s) /\ ~s.writeEnabled
    BY <1>1, <1>4, <2>6 DEF SenderEnd, AnyEnd, FileEnd
  <2>8. AnyEnd(f)
    BY <1>4, <2>1, <2>6, <2>7 DEF AnyEnd, Untouched
  <2>2. SenderEnd(f)
    BY <1>4, <2>1, <2>6, <2>7, <2>8 DEF SenderEnd, Untouched
  <2>3. Flow(f, r, ns, nr)
    BY <2>1 DEF Good, Flow
  <2>4. Ready(f, r, ns, nr, b)
    BY <2>1 DEF Good, Ready, Accepted
  <2>5. NoneLost(f, r, nr, b)
    BY <2>1 DEF Good, NoneLost
  <2> QED
    BY <2>1, <2>2, <2>3, <2>4, <2>5 DEF Good, Unknown
<1> QED
  BY <1>3, <1>4

\* The sender stops.
LEMMA SenderStops ==
  ASSUME NEW s, NEW r, NEW ns, NEW nr, NEW b, Good(s, r, ns, nr, b),
         NEW f, f = FileOnClose([s EXCEPT !.report = "stopped"])
  PROVE  Good(f, r, <<>>, nr, b) /\ ~Unknown(f)
<1> DEFINE e == [s EXCEPT !.report = "stopped"]
<1>1. e \in FileEnd /\ e.fileSize = s.fileSize /\ e.report = "stopped"
  BY DEF Good, SenderEnd, AnyEnd, FileEnd, Reports
<1> HIDE DEF e
<1>2. Ended(f, e)
  BY <1>1, CloseEnds DEF e
<1>3. \A M : <<>> \in Seq(M)
  OBVIOUS
<1>4. SenderEnd(f) /\ f.fileSize = s.fileSize /\ f.report = "stopped" /\ ~f.open
      /\ ~Unknown(f)
  BY <1>1, <1>2 DEF Ended, Unknown
<1>5. Flow(f, r, <<>>, nr)
  BY <1>3, <1>4 DEF Good, Flow
<1>6. Ready(f, r, <<>>, nr, b)
  BY <1>4 DEF Good, Ready, Accepted
<1>7. NoneLost(f, r, nr, b)
  BY <1>4 DEF NoneLost
<1> QED
  BY <1>4, <1>5, <1>6, <1>7 DEF Good

\* A session that is of no more use.
LEMMA SenderDisabled ==
  ASSUME NEW s, NEW r, NEW ns, NEW nr, NEW b, Good(s, r, ns, nr, b),
         NEW f, f = [s EXCEPT !.isDisabled = TRUE]
  PROVE  Good(f, r, ns, nr, b)
<1>1. /\ f \in FileEnd /\ f.status = s.status /\ f.isSend = s.isSend
      /\ f.listener = s.listener /\ f.open = s.open /\ f.file = s.file
      /\ f.writeEnabled = s.writeEnabled /\ f.fileSize = s.fileSize /\ f.left = s.left
      /\ f.picking = s.picking /\ f.unwritten = s.unwritten
      /\ f.transfer_size = s.transfer_size /\ f.report = s.report /\ f.sendBuf = s.sendBuf
  BY DEF Good, SenderEnd, AnyEnd, FileEnd
<1>2. SenderEnd(f)
  BY <1>1 DEF Good, SenderEnd, AnyEnd, Untouched
<1> QED
  BY <1>1, <1>2 DEF Good, Flow, Ready, Accepted, NoneLost

\* The receiver's dialog opens.
LEMMA ReceiverOpens ==
  ASSUME NEW s, NEW r, NEW ns, NEW nr, NEW b, Good(s, r, ns, nr, b),
         r.status \in {"NOT_CONN", "HELLO_WAIT"}, r.open,
         NEW f, f = Receiving(r)
  PROVE  /\ Good(s, f, ns, nr, b) /\ f.open /\ ~f.picking
         /\ Early(r, ns, nr) => Early(f, ns, nr)
<1> DEFINE e == [r EXCEPT !.status = "ESTABLISHED", !.isSend = FALSE]
<1>1. r \in FileEnd /\ ~r.listener /\ Untouched(r) /\ ~r.writeEnabled /\ ~r.file /\ ~r.picking
  BY DEF Good, ReceiverEnd, AnyEnd
<1>2. ~e.isSend
  BY <1>1 DEF FileEnd
<1>3. f = [r EXCEPT !.status = "ESTABLISHED", !.isSend = FALSE, !.listener = TRUE]
  BY <1>1, <1>2 DEF Receiving, OnTCPEstablished, FileEnd
<1>4. /\ f \in FileEnd /\ f.status = "ESTABLISHED" /\ ~f.isSend /\ f.listener
      /\ f.open /\ f.file = r.file
      /\ f.writeEnabled = r.writeEnabled /\ f.fileSize = r.fileSize /\ f.left = r.left
      /\ f.picking = r.picking /\ f.unwritten = r.unwritten
      /\ f.transfer_size = r.transfer_size /\ f.report = r.report /\ f.sendBuf = r.sendBuf
  BY <1>1, <1>3 DEF FileEnd
<1>5. ReceiverEnd(f)
  BY <1>1, <1>4 DEF Good, ReceiverEnd, AnyEnd, Untouched
<1>6. Flow(s, f, ns, nr)
  BY <1>4 DEF Good, Flow
<1>7. Ready(s, f, ns, nr, b)
  BY <1>1, <1>4 DEF Good, Ready, Accepted
<1>8. NoneLost(s, f, nr, b)
  BY <1>4 DEF Good, NoneLost, Arrived
<1> QED
  BY <1>1, <1>4, <1>5, <1>6, <1>7, <1>8 DEF Good, Early, Arrived

\* The receiver's end r becomes f, and ns on the way from it ms.
Follows(s, r, ns, f, ms, nr, b) ==
  Good(s, f, ms, nr, b) /\ (Early(r, ns, nr) => Early(f, ms, nr))

\* The receiver's socket takes the first k packets.
LEMMA ReceiverSends ==
  ASSUME NEW s, NEW r, NEW ns, NEW nr, NEW b, Good(s, r, ns, nr, b), r.open,
         NEW k \in Nat, k <= Len(r.sendBuf),
         NEW f, f = [r EXCEPT !.sendBuf = SubSeq(@, k + 1, Len(@))],
         NEW ms, ms = ns \o SubSeq(r.sendBuf, 1, k) \/ ms = <<>>
  PROVE  Follows(s, r, ns, f, ms, nr, b)
<1> DEFINE buf == r.sendBuf
           a == SubSeq(buf, 1, k)
           c == SubSeq(buf, k + 1, Len(buf))
           H == HelloOf(Receiver)
<1>1. r \in FileEnd /\ buf \in Seq(Packet) /\ buf \in Seq(FromReceiver) /\ ns \in Seq(FromReceiver)
  BY DEF Good, ReceiverEnd, AnyEnd, FileEnd, Flow
<1>2. /\ c \in Seq(Packet)
      /\ \A P : buf \in Seq(P) => a \in Seq(P) /\ c \in Seq(P)
  BY <1>1, Parts
<1>3. f = [r EXCEPT !.sendBuf = c] /\ (buf = <<>> => c = <<>>)
  OBVIOUS
<1>4. ms = ns \o a \/ ms = <<>>
  OBVIOUS
<1> HIDE DEF a, c, buf, H
<1>5. /\ f \in FileEnd /\ f.sendBuf = c /\ f.status = r.status /\ f.isSend = r.isSend
      /\ f.listener = r.listener /\ f.open = r.open /\ f.file = r.file
      /\ f.writeEnabled = r.writeEnabled /\ f.fileSize = r.fileSize /\ f.left = r.left
      /\ f.picking = r.picking /\ f.unwritten = r.unwritten
      /\ f.transfer_size = r.transfer_size /\ f.report = r.report
  BY <1>1, <1>2, <1>3 DEF FileEnd
<1>6. ReceiverEnd(f)
  <2>1. AnyEnd(f)
    BY <1>3, <1>5 DEF Good, ReceiverEnd, AnyEnd, Untouched, buf
  <2> QED
    BY <1>2, <1>5, <2>1 DEF Good, ReceiverEnd, buf
<1>7. \A P : ns \in Seq(P) /\ buf \in Seq(P) => ms \in Seq(P)
  <2> SUFFICES ASSUME NEW P, ns \in Seq(P), buf \in Seq(P)
               PROVE  ms \in Seq(P)
    OBVIOUS
  <2>1. a \in Seq(P)
    BY <1>2
  <2> QED
    BY <1>4, <2>1, Joined
<1>8. Flow(s, f, ms, nr)
  BY <1>1, <1>5, <1>7 DEF Good, Flow
<1>9. Accepted(s, f, ms, nr) => Accepted(s, r, ns, nr)
  BY <1>2, <1>5, <1>7 DEF Accepted, buf
<1>10. Ready(s, f, ms, nr, b)
  BY <1>5, <1>9 DEF Good, Ready
<1>11. NoneLost(s, f, nr, b)
  BY <1>5 DEF Good, NoneLost, Arrived
<1>12. Early(r, ns, nr) => Early(f, ms, nr)
  BY <1>2, <1>5, <1>7 DEF Early, Arrived, buf
<1> QED
  BY <1>6, <1>8, <1>10, <1>11, <1>12 DEF Good, Follows

\* The receiver sees the connection closed.
LEMMA ReceiverCloses ==
  ASSUME NEW s, NEW r, NEW ns, NEW nr, NEW b, Good(s, r, ns, nr, b),
         r.status \notin {"none", "NOT_CONN"}, nr = <<>>, b \/ ~s.open,
         NEW f, f = Shut(r)
  PROVE  /\ Good(s, f, ns, nr, b)
         /\ Early(r, ns, nr) => Early(f, ns, nr)
<1>1. r \in FileEnd /\ r.report = "none"
  BY DEF Good, ReceiverEnd, AnyEnd
<1>2. \A M : <<>> \in Seq(M)
  OBVIOUS
<1>3. CASE r.listener
  <2>1. Ended(f, r)
    BY <1>1, <1>3, CloseEnds DEF Shut
  <2>2. Flow(s, f, ns, nr)
    BY <2>1 DEF Good, Flow, Ended
  <2>3. ~b => ~Accepted(s, f, ns, nr)
    BY <1>2, <2>1 DEF Accepted, Ended
  <2>4. NoneLost(s, f, nr, b)
    BY <1>1, <2>1 DEF Good, NoneLost, Ended, Arrived
  <2>5. Early(r, ns, nr) => Early(f, ns, nr)
    BY <1>2, <2>1 DEF Early, Ended, Arrived
  <2> QED
    BY <2>1, <2>2, <2>3, <2>4, <2>5 DEF Good, Ended, Ready
<1>4. CASE ~r.listener
  <2>1. /\ f \in FileEnd /\ f.status = r.status /\ f.isSend = r.isSend
        /\ f.listener = r.listener /\ ~f.open /\ f.file = r.file
        /\ f.writeEnabled = r.writeEnabled /\ f.fileSize = r.fileSize /\ f.left = r.left
        /\ f.picking = r.picking /\ f.unwritten = r.unwritten
        /\ f.transfer_size = r.transfer_size /\ f.report = r.report /\ f.sendBuf = r.sendBuf
    BY <1>1, <1>4 DEF FileEnd, Shut
  <2>2. ReceiverEnd(f)
    BY <1>4, <2>1 DEF Good, ReceiverEnd, AnyEnd, Untouched
  <2>3. Flow(s, f, ns, nr)
    BY <2>1 DEF Good, Flow
  <2>4. Ready(s, f, ns, nr, b)
    BY <2>1 DEF Good, Ready, Accepted
  <2>5. NoneLost(s, f, nr, b)
    BY <2>1 DEF Good, NoneLost, Arrived
  <2>6. Early(r, ns, nr) => Early(f, ns, nr)
    BY <2>1 DEF Early, Arrived
  <2> QED
    BY <2>2, <2>3, <2>4, <2>5, <2>6 DEF Good
<1> QED
  BY <1>3, <1>4

\* The receiver stops.
LEMMA ReceiverStops ==
  ASSUME NEW s, NEW r, NEW ns, NEW nr, NEW b, Good(s, r, ns, nr, b),
         NEW f, f = FileOnClose([r EXCEPT !.report = "stopped"])
  PROVE  /\ Good(s, f, ns, <<>>, b)
         /\ Early(r, ns, nr) => Early(f, ns, <<>>)
<1> DEFINE e == [r EXCEPT !.report = "stopped"]
<1>1. /\ e \in FileEnd /\ e.fileSize = r.fileSize /\ e.report = "stopped"
      /\ e.transfer_size = r.transfer_size /\ e.unwritten = r.unwritten
  BY DEF Good, ReceiverEnd, AnyEnd, FileEnd, Reports
<1> HIDE DEF e
<1>2. Ended(f, e)
  BY <1>1, CloseEnds DEF e
<1>3. \A M : <<>> \in Seq(M)
  OBVIOUS
<1>4. /\ ReceiverEnd(f) /\ f.fileSize = r.fileSize /\ f.report = "stopped"
      /\ f.transfer_size = r.transfer_size /\ ~f.file /\ f.sendBuf = <<>>
      /\ f.unwritten = r.unwritten /\ ~f.picking
  BY <1>1, <1>2 DEF Ended
<1>5. Flow(s, f, ns, <<>>)
  BY <1>3, <1>4 DEF Good, Flow
<1>6. Ready(s, f, ns, <<>>, b) /\ NoneLost(s, f, <<>>, b)
  BY <1>4 DEF Ready, NoneLost
<1>7. Early(r, ns, nr) => Early(f, ns, <<>>)
  BY <1>3, <1>4 DEF Early, Arrived
<1> QED
  BY <1>4, <1>5, <1>6, <1>7 DEF Good

LEMMA ReceiverDisabled ==
  ASSUME NEW s, NEW r, NEW ns, NEW nr, NEW b, Good(s, r, ns, nr, b),
         NEW f, f = [r EXCEPT !.isDisabled = TRUE]
  PROVE  /\ Good(s, f, ns, nr, b)
         /\ Early(r, ns, nr) => Early(f, ns, nr)
<1>1. /\ f \in FileEnd /\ f.status = r.status /\ f.isSend = r.isSend
      /\ f.listener = r.listener /\ f.open = r.open /\ f.file = r.file
      /\ f.writeEnabled = r.writeEnabled /\ f.fileSize = r.fileSize /\ f.left = r.left
      /\ f.picking = r.picking /\ f.unwritten = r.unwritten
      /\ f.transfer_size = r.transfer_size /\ f.report = r.report /\ f.sendBuf = r.sendBuf
  BY DEF Good, ReceiverEnd, AnyEnd, FileEnd
<1>2. ReceiverEnd(f)
  BY <1>1 DEF Good, ReceiverEnd, AnyEnd, Untouched
<1> QED
  BY <1>1, <1>2 DEF Good, Flow, Ready, Accepted, NoneLost, Early, Arrived

LEMMA ReceiverDrops ==
  ASSUME NEW s, NEW r, NEW ns, NEW nr, NEW b, Good(s, r, ns, nr, b),
         nr # <<>>
  PROVE  /\ Head(nr) \in FromSender(s.fileSize)
         /\ nr \in Seq(Offer(s.fileSize)) => Head(nr) \in Offer(s.fileSize)
         /\ UnitsOf(nr) = Units(Head(nr)) + UnitsOf(Tail(nr))
         /\ UnitsOf(Tail(nr)) \in Nat /\ Units(Head(nr)) \in Nat
         /\ Flow(s, r, ns, Tail(nr))
         /\ Accepted(s, r, ns, Tail(nr)) => Accepted(s, r, ns, nr)
<1> DEFINE M == FromSender(s.fileSize)
<1>1. Counts(M) /\ nr \in Seq(M)
  BY Kinds DEF Good, Flow
<1>2. \A P : nr \in Seq(P) => Tail(nr) \in Seq(P) /\ Head(nr) \in P
  OBVIOUS
<1>3. UnitsOf(nr) = Units(Head(nr)) + UnitsOf(Tail(nr))
  BY <1>1, TailUnits
<1>4. UnitsOf(Tail(nr)) \in Nat /\ Units(Head(nr)) \in Nat
  <2>1. Tail(nr) \in Seq(M) /\ Head(nr) \in M
    BY <1>1, <1>2
  <2>2. Units(Head(nr)) \in Nat
    BY <1>1, <2>1 DEF Counts
  <2> QED
    BY <1>1, <2>1, <2>2, UnitsNat
<1>5. Flow(s, r, ns, Tail(nr))
  BY <1>1, <1>2 DEF Good, Flow
<1>6. Accepted(s, r, ns, Tail(nr)) => Accepted(s, r, ns, nr)
  BY <1>2 DEF Accepted
<1> QED
  BY <1>1, <1>2, <1>3, <1>4, <1>5, <1>6

\* A packet that carries no data leaves what it finds in order.
LEMMA ReceiverSkips ==
  ASSUME NEW s, NEW r, NEW ns, NEW nr, NEW b, Good(s, r, ns, nr, b),
         nr # <<>>,
         Units(Head(nr)) = 0
  PROVE  Good(s, r, ns, Tail(nr), b)
<1>1. /\ UnitsOf(nr) = 0 + UnitsOf(Tail(nr)) /\ UnitsOf(Tail(nr)) \in Nat
      /\ Flow(s, r, ns, Tail(nr))
      /\ Accepted(s, r, ns, Tail(nr)) => Accepted(s, r, ns, nr)
  BY ReceiverDrops
<1>2. UnitsOf(nr) = UnitsOf(Tail(nr))
  BY <1>1
<1>3. Ready(s, r, ns, Tail(nr), b)
  BY <1>1 DEF Good, Ready
<1>4. NoneLost(s, r, Tail(nr), b)
  BY <1>2 DEF Good, NoneLost
<1> QED
  BY <1>1, <1>3, <1>4 DEF Good

\* The receiver takes a packet.
LEMMA ReceiverReceives ==
  ASSUME NEW s, NEW r, NEW ns, NEW nr, NEW b, Good(s, r, ns, nr, b),
         nr # <<>>, r.open,
         NEW f \in OnPacketReceived(r, Head(nr))
  PROVE  Good(s, f, ns, Tail(nr), b)
<1> DEFINE p == Head(nr)
           mr == Tail(nr)
<1>1. r \in FileEnd /\ Arrived(r) \in Nat /\ s.fileSize \in Nat
  BY DEF Good, SenderEnd, ReceiverEnd, AnyEnd, FileEnd, Arrived
<1>2. /\ p \in FromSender(s.fileSize)
      /\ nr \in Seq(Offer(s.fileSize)) => p \in Offer(s.fileSize)
      /\ UnitsOf(nr) = Units(p) + UnitsOf(mr) /\ UnitsOf(mr) \in Nat
      /\ Flow(s, r, ns, mr)
      /\ Accepted(s, r, ns, mr) => Accepted(s, r, ns, nr)
      /\ Units(p) = 0 => Good(s, r, ns, mr, b)
  BY ReceiverDrops, ReceiverSkips
<1>3. f \in OnPacketReceived(r, p)
  OBVIOUS
<1>4. p \in Offer(s.fileSize) => Units(p) = 0
  BY Kinds
<1> SUFFICES Good(s, f, ns, mr, b)
  OBVIOUS
<1> HIDE DEF p, mr
<1>5. CASE p \in HelloOf(Sender)
  <2>1. p.cmd = "HELLO" /\ p.isSend = TRUE /\ Good(s, r, ns, mr, b)
    BY <1>2, <1>4, <1>5, Hellos DEF Offer
  <2>2. f = OnHello(r, p)
    BY <1>3, <2>1 DEF OnPacketReceived
  <2>3. CASE r.status # "HELLO_WAIT"
    BY <2>1, <2>2, <2>3 DEF OnHello
  <2>4. CASE r.status = "HELLO_WAIT"
    <3>1. f = OnTCPEstablished([r EXCEPT !.status = "ESTABLISHED", !.isSend = ~p.isSend])
      BY <2>2, <2>4 DEF OnHello
    <3>2. (~p.isSend) = FALSE
      BY <2>1
    <3>3. f = OnTCPEstablished([r EXCEPT !.status = "ESTABLISHED", !.isSend = FALSE])
      BY <3>1, <3>2, Zenon
    <3>4. f = Receiving(r)
      BY <3>3 DEF Receiving
    <3> QED
      BY <2>1, <2>4, <3>4, ReceiverOpens
  <2> QED
    BY <2>3, <2>4
<1>6. CASE p = [cmd |-> "INFO", size |-> s.fileSize]
  <2>1. p.cmd = "INFO" /\ p.size = s.fileSize /\ Good(s, r, ns, mr, b)
    BY <1>2, <1>4, <1>6 DEF Offer
  <2>2. CASE f = r
    BY <2>1, <2>2
  <2>3. CASE f # r
    <3>1. r.status = "ESTABLISHED" /\ r.listener /\ f \in OnReceive(r, p)
      BY <1>3, <2>1, <2>3 DEF OnPacketReceived
    <3>2. ~r.file /\ f = [r EXCEPT !.fileSize = p.size, !.picking = TRUE]
      BY <2>1, <2>3, <3>1 DEF OnReceive
    <3>3. /\ f \in FileEnd /\ f.status = r.status /\ f.isSend = r.isSend
          /\ f.listener = r.listener /\ f.open = r.open /\ f.file = r.file /\ f.picking
          /\ f.writeEnabled = r.writeEnabled /\ f.fileSize = s.fileSize
          /\ f.transfer_size = r.transfer_size /\ f.unwritten = r.unwritten
          /\ f.report = r.report /\ f.sendBuf = r.sendBuf
      BY <1>1, <2>1, <3>2 DEF FileEnd
    <3>4. r.report = "none"
      BY <3>1 DEF Good, ReceiverEnd, AnyEnd
    <3>5. ReceiverEnd(f)
      BY <3>1, <3>2, <3>3, <3>4 DEF Good, ReceiverEnd, AnyEnd
    <3>6. Flow(s, f, ns, mr)
      BY <2>1, <3>3 DEF Good, Flow
    <3>7. Ready(s, f, ns, mr, b)
      BY <2>1, <3>3 DEF Good, Ready, Accepted
    <3>8. NoneLost(s, f, mr, b)
      BY <2>1, <3>3 DEF Good, NoneLost, Arrived
    <3> QED
      BY <2>1, <3>5, <3>6, <3>7, <3>8 DEF Good
  <2> QED
    BY <2>2, <2>3
<1>7. CASE p \in [cmd : {"DATA"}, n : 1 .. CHUNK]
  <2>1. p.cmd = "DATA" /\ p.n \in 1 .. CHUNK /\ Units(p) = p.n /\ p.n \in Nat /\ p.n > 0
    BY <1>7, TransferAssumption DEF Units
  <2>2. p \notin Offer(s.fileSize)
    BY <1>4, <2>1
  <2>3. ~b /\ r.report # "stopped" => r.listener /\ r.file /\ r.status = "ESTABLISHED"
    BY <1>2, <2>2 DEF Good, Ready, Accepted, ReceiverEnd, AnyEnd
  <2>4. CASE r.status = "ESTABLISHED" /\ r.listener /\ r.file
    <3> DEFINE more == r.transfer_size + p.n
               less == r.unwritten + p.n
    <3>1. /\ f \in {[r EXCEPT !.transfer_size = more], [r EXCEPT !.unwritten = less]}
          /\ more \in Nat /\ less \in Nat
      BY <1>1, <1>3, <2>1, <2>4 DEF OnPacketReceived, OnReceive, FileEnd
    <3>2. /\ f \in FileEnd /\ f.status = r.status /\ f.isSend = r.isSend
          /\ f.listener = r.listener /\ f.open = r.open /\ f.file = r.file
          /\ f.writeEnabled = r.writeEnabled /\ f.fileSize = r.fileSize /\ f.left = r.left
          /\ f.picking = r.picking /\ f.report = r.report /\ f.sendBuf = r.sendBuf
          /\ \/ f.transfer_size = more /\ f.unwritten = r.unwritten
             \/ f.transfer_size = r.transfer_size /\ f.unwritten = less
      <4> HIDE DEF more, less
      <4> QED
        BY <1>1, <3>1 DEF FileEnd
    <3>3. r.report = "none"
      BY <2>4 DEF Good, ReceiverEnd, AnyEnd
    <3>4. ReceiverEnd(f)
      <4> HIDE DEF more, less
      <4> QED
        BY <2>4, <3>2, <3>3 DEF Good, ReceiverEnd, AnyEnd
    <3>5. Flow(s, f, ns, mr)
      BY <1>2, <3>2 DEF Flow
    <3>6. Ready(s, f, ns, mr, b)
      BY <2>4, <3>2 DEF Ready
    <3>7. Arrived(f) + UnitsOf(mr) = Arrived(r) + UnitsOf(nr)
      <4>1. r.transfer_size \in Nat /\ r.unwritten \in Nat
        BY <1>1 DEF FileEnd
      <4> QED
        BY <1>2, <2>1, <3>2, <4>1 DEF Arrived
    <3>8. NoneLost(s, f, mr, b)
      BY <3>2, <3>3, <3>7 DEF Good, NoneLost
    <3> QED
      BY <3>4, <3>5, <3>6, <3>8 DEF Good
  <2>5. CASE ~(r.status = "ESTABLISHED" /\ r.listener /\ r.file)
    <3>1. f = r
      BY <1>3, <2>1, <2>5 DEF OnPacketReceived, OnReceive
    <3>2. b \/ r.report = "stopped"
      BY <2>3, <2>5
    <3>3. Ready(s, r, ns, mr, b) /\ NoneLost(s, r, mr, b)
      BY <3>2 DEF Ready, NoneLost
    <3> QED
      BY <1>2, <3>1, <3>3 DEF Good
  <2> QED
    BY <2>4, <2>5
<1> QED
  BY <1>2, <1>5, <1>6, <1>7 DEF FromSender, Offer

\* The receiver's user has answered.
LEMMA ReceiverAnswers ==
  ASSUME NEW s, NEW r, NEW ns, NEW nr, NEW b, Good(s, r, ns, nr, b), r.picking,
         NEW f \in Picked(r)
  PROVE  Good(s, f, ns, nr, b) /\ ~f.isSend
<1>1. /\ r \in FileEnd /\ r.status = "ESTABLISHED" /\ ~r.isSend /\ ~r.file /\ ~r.writeEnabled
      /\ r.listener /\ r.open /\ r.report = "none" /\ r.fileSize \in {0, s.fileSize}
      /\ r.sendBuf \in Seq(HelloOf(Receiver))
  BY DEF Good, ReceiverEnd, AnyEnd, Flow
<1>2. ~b => ~Accepted(s, r, ns, nr)
  BY <1>1 DEF Good, Ready
<1> DEFINE c == [r EXCEPT !.picking = FALSE, !.listener = TRUE]
           q == [cmd |-> "RECEIVE"]
<1>3. f \in {Destroy(r), [c EXCEPT !.unopened = TRUE], [Queue(c, q) EXCEPT !.file = TRUE]}
  BY <1>1 DEF Picked
<1>4. /\ c \in FileEnd /\ c.status = "ESTABLISHED" /\ ~c.isSend /\ c.listener /\ c.open
      /\ ~c.picking /\ ~c.file /\ ~c.writeEnabled /\ c.fileSize = r.fileSize
      /\ c.transfer_size = r.transfer_size /\ c.unwritten = r.unwritten
      /\ c.report = "none" /\ c.sendBuf = r.sendBuf
  BY <1>1 DEF FileEnd
<1>5. q \in Packet /\ q \in FromReceiver
  BY DEF Packet, FromReceiver
<1> HIDE DEF c, q
<1>6. CASE f = Destroy(r)
  <2>1. Gone(f, r)
    BY <1>1, <1>6, DestroyGone
  <2>2. ReceiverEnd(f)
    BY <1>1, <2>1, GoneEnd DEF Gone
  <2>3. /\ f.fileSize = r.fileSize /\ f.transfer_size = r.transfer_size
        /\ f.unwritten = r.unwritten /\ f.report = "none" /\ f.sendBuf = <<>>
    BY <1>1, <2>1 DEF Gone
  <2>4. <<>> \in Seq(HelloOf(Receiver))
    OBVIOUS
  <2>5. Flow(s, f, ns, nr)
    BY <2>3 DEF Good, Flow
  <2>6. Ready(s, f, ns, nr, b)
    BY <1>2, <2>3, <2>4 DEF Ready, Accepted
  <2>7. NoneLost(s, f, nr, b)
    BY <1>1, <2>3 DEF Good, NoneLost, Arrived
  <2>8. ~f.isSend
    BY <1>1, <1>6 DEF Destroy, NoSession
  <2> QED
    BY <2>2, <2>5, <2>6, <2>7, <2>8 DEF Good
<1>7. CASE f = [c EXCEPT !.unopened = TRUE]
  <2>1. /\ f \in FileEnd /\ f.status = "ESTABLISHED" /\ ~f.isSend /\ f.listener /\ f.open
        /\ ~f.picking /\ ~f.file /\ ~f.writeEnabled /\ f.fileSize = r.fileSize
        /\ f.transfer_size = r.transfer_size /\ f.unwritten = r.unwritten
        /\ f.report = "none" /\ f.sendBuf = r.sendBuf
    BY <1>4, <1>7 DEF FileEnd
  <2>2. ReceiverEnd(f)
    BY <1>1, <2>1 DEF Good, ReceiverEnd, AnyEnd
  <2>3. Flow(s, f, ns, nr)
    BY <2>1 DEF Good, Flow
  <2>4. Ready(s, f, ns, nr, b)
    BY <1>2, <2>1 DEF Ready, Accepted
  <2>5. NoneLost(s, f, nr, b)
    BY <1>1, <2>1 DEF Good, NoneLost, Arrived
  <2> QED
    BY <2>1, <2>2, <2>3, <2>4, <2>5 DEF Good
<1>8. CASE f = [Queue(c, q) EXCEPT !.file = TRUE]
  <2>1. Queue(c, q) \in FileEnd
    BY <1>4, <1>5, QueueEnd
  <2>2. f \in FileEnd
    BY <1>8, <2>1 DEF FileEnd
  <2>3. /\ f.status = "ESTABLISHED" /\ ~f.isSend /\ f.listener /\ f.open
        /\ ~f.picking /\ f.file /\ ~f.writeEnabled /\ f.fileSize = r.fileSize
        /\ f.transfer_size = r.transfer_size /\ f.unwritten = r.unwritten
        /\ f.report = "none" /\ f.sendBuf = Append(r.sendBuf, q)
    BY <1>4, <1>8 DEF Queue, FileEnd
  <2>4. f.sendBuf \in Seq(FromReceiver)
    BY <1>5, <2>3 DEF Good, ReceiverEnd
  <2>5. AnyEnd(f)
    BY <2>2, <2>3 DEF AnyEnd
  <2>6. ReceiverEnd(f)
    BY <2>3, <2>4, <2>5 DEF ReceiverEnd
  <2>7. Flow(s, f, ns, nr)
    BY <2>3 DEF Good, Flow
  <2>8. Ready(s, f, ns, nr, b)
    BY <2>3 DEF Ready
  <2>9. NoneLost(s, f, nr, b)
    BY <1>1, <2>3 DEF Good, NoneLost, Arrived
  <2> QED
    BY <2>3, <2>6, <2>7, <2>8, <2>9 DEF Good
<1> QED
  BY <1>3, <1>6, <1>7, <1>8

-----------------------------------------------------------------------------
(***************************************************************************)
(* The actions.                                                            *)
(***************************************************************************)

LEMMA TwoUsers ==
  /\ Sender # Receiver /\ Sender \in Peers /\ Receiver \in Peers
  /\ Other(Sender) = Receiver /\ Other(Receiver) = Sender
  /\ Connector \in Peers /\ Acceptor \in Peers
  /\ Connector # Acceptor
  /\ Connector = Sender <=> Acceptor = Receiver
BY DEF Sender, Receiver, Peers, Other, Connector, Acceptor

\* The sender's end and the receiver's, and what is on the way to each.
Both(x, y) == [u \in Peers |-> IF u = Sender THEN x ELSE y]

\* A step of a session, which is there because the request has been answered and is
\* no end that has yet to be reached.
LEMMA Busy ==
  ASSUME TransferInv, NEW u \in Peers, end[u].status # "none"
  PROVE  /\ server \notin {"none", "TCP_REQUEST", "TCP_ACCEPT"}
         /\ conn \in {"none", "pending", "backlog"} => u # Acceptor
<1>1. NoSession.status = "none"
  BY DEF NoSession
<1>2. end # [v \in Peers |-> NoSession]
  BY <1>1
<1>3. server \notin {"none", "TCP_REQUEST", "TCP_ACCEPT"}
  BY <1>2 DEF TransferInv, Phases
<1>4. conn \in {"none", "pending", "backlog"} => u # Acceptor
  BY <1>1 DEF TransferInv, Phases
<1> QED
  BY <1>3, <1>4

LEMMA SessionStep ==
  ASSUME TransferInv, UNCHANGED <<wall, server, conn, broken, instant>>,
         server \notin {"none", "TCP_REQUEST", "TCP_ACCEPT"},
         NEW s, NEW r, NEW ns, NEW nr, end' = Both(s, r), net' = Both(ns, nr),
         ns \in Seq(Packet), nr \in Seq(Packet), Len(ns) <= Room, Len(nr) <= Room,
         conn \in {"none", "pending", "backlog"} => (Both(s, r))[Acceptor] = NoSession,
         Good(s, r, ns, nr, broken), IsEarly(s, conn) => Early(r, ns, nr)
  PROVE  TransferInv'
<1>1. /\ end'[Sender] = s /\ end'[Receiver] = r /\ net'[Sender] = ns
      /\ net'[Receiver] = nr
  BY TwoUsers DEF Both
<1>2. s \in FileEnd /\ r \in FileEnd
  BY DEF Good, SenderEnd, ReceiverEnd, AnyEnd
<1>3. end' \in [Peers -> FileEnd] /\ net' \in [Peers -> Seq(Packet)]
  BY <1>2 DEF Both
<1>4. \A u \in Peers : Len(net'[u]) <= Room
  BY <1>1 DEF Peers
<1>5. TransferTypeOK'
  BY <1>3, <1>4 DEF TransferInv, TransferTypeOK
<1>6. Acceptor' = Acceptor
  BY DEF Acceptor, Connector, Other
<1>7. Phases'
  <2>1. conn' \in {"none", "pending", "backlog"} => end'[Acceptor'] = NoSession
    BY <1>6
  <2>2. server' \notin {"none", "TCP_REQUEST", "TCP_ACCEPT"} /\ server' # "request"
        /\ (conn' = "failed" <=> broken')
    BY DEF TransferInv, Phases
  <2> QED
    BY <2>1, <2>2 DEF Phases
<1>8. Good(end'[Sender], end'[Receiver], net'[Sender], net'[Receiver], broken')
  BY <1>1
<1>9. IsEarly(s, conn') => IsEarly(s, conn)
  BY DEF IsEarly
<1>10. (IsEarly(end[Sender], conn) => Early(end[Receiver], net[Sender], net[Receiver]))'
  BY <1>1, <1>6 DEF IsEarly
<1> QED
  BY <1>5, <1>7, <1>8, <1>10 DEF TransferInv

LEMMA SenderStep ==
  ASSUME TransferInv, UNCHANGED <<wall, server, conn, broken, instant>>,
         end[Sender].status # "none", NEW f, NEW ms, NEW mr,
         end' = [end EXCEPT ![Sender] = f],
         net' = [net EXCEPT ![Sender] = ms, ![Receiver] = mr],
         ms \in Seq(Packet), mr \in Seq(Packet), Len(ms) <= Room, Len(mr) <= Room,
         Good(f, end[Receiver], ms, mr, broken),
         Unknown(f) => Early(end[Receiver], ms, mr)
  PROVE  TransferInv'
<1> DEFINE r == end[Receiver]
<1>1. end \in [Peers -> FileEnd] /\ net \in [Peers -> Seq(Packet)]
  BY DEF TransferInv, TransferTypeOK
<1>2. /\ server \notin {"none", "TCP_REQUEST", "TCP_ACCEPT"}
      /\ conn \in {"none", "pending", "backlog"} => Sender # Acceptor
  BY TwoUsers, Busy
<1>3. end' = Both(f, r) /\ net' = Both(ms, mr)
  BY <1>1 DEF Both, Peers, Sender, Receiver
<1>4. conn \in {"none", "pending", "backlog"} => (Both(f, r))[Acceptor] = NoSession
  <2> SUFFICES ASSUME conn \in {"none", "pending", "backlog"}
               PROVE  (Both(f, r))[Acceptor] = NoSession
    OBVIOUS
  <2>1. Acceptor = Receiver /\ end[Acceptor] = NoSession
    BY <1>2, TwoUsers DEF TransferInv, Phases, Peers
  <2> QED
    BY <2>1, TwoUsers DEF Both
<1>5. IsEarly(f, conn) => Early(r, ms, mr)
  BY <1>2 DEF IsEarly
<1> QED
  BY <1>2, <1>3, <1>4, <1>5, SessionStep

LEMMA ReceiverStep ==
  ASSUME TransferInv, UNCHANGED <<wall, server, conn, broken, instant>>,
         end[Receiver].status # "none", NEW f, NEW ms, NEW mr,
         end' = [end EXCEPT ![Receiver] = f],
         net' = [net EXCEPT ![Sender] = ms, ![Receiver] = mr],
         ms \in Seq(Packet), mr \in Seq(Packet), Len(ms) <= Room, Len(mr) <= Room,
         Good(end[Sender], f, ms, mr, broken),
         Early(end[Receiver], net[Sender], net[Receiver]) => Early(f, ms, mr)
  PROVE  TransferInv'
<1> DEFINE s == end[Sender]
<1>1. end \in [Peers -> FileEnd] /\ net \in [Peers -> Seq(Packet)]
  BY DEF TransferInv, TransferTypeOK
<1>2. /\ server \notin {"none", "TCP_REQUEST", "TCP_ACCEPT"}
      /\ conn \in {"none", "pending", "backlog"} => Receiver # Acceptor
  BY TwoUsers, Busy
<1>3. end' = Both(s, f) /\ net' = Both(ms, mr)
  BY <1>1 DEF Both, Peers, Sender, Receiver
<1>4. conn \in {"none", "pending", "backlog"} => (Both(s, f))[Acceptor] = NoSession
  <2> SUFFICES ASSUME conn \in {"none", "pending", "backlog"}
               PROVE  (Both(s, f))[Acceptor] = NoSession
    OBVIOUS
  <2>1. Acceptor = Sender /\ end[Acceptor] = NoSession
    BY <1>2, TwoUsers DEF TransferInv, Phases, Peers
  <2> QED
    BY <2>1, TwoUsers DEF Both
<1>5. IsEarly(s, conn) => Early(f, ms, mr)
  BY DEF TransferInv
<1> QED
  BY <1>2, <1>3, <1>4, <1>5, SessionStep

\* The state of the two ends, in short.
LEMMA Now ==
  ASSUME TransferInv
  PROVE  /\ Good(end[Sender], end[Receiver], net[Sender], net[Receiver], broken)
         /\ end \in [Peers -> FileEnd] /\ net \in [Peers -> Seq(Packet)]
         /\ end[Sender] \in FileEnd /\ end[Receiver] \in FileEnd
         /\ end[Sender].sendBuf \in Seq(Packet)
         /\ end[Receiver].sendBuf \in Seq(Packet)
         /\ net[Sender] \in Seq(Packet) /\ net[Receiver] \in Seq(Packet)
         /\ Len(net[Sender]) <= Room /\ Len(net[Receiver]) <= Room
         /\ \A S : <<>> \in Seq(S)
         /\ Len(<<>>) <= Room
         /\ IsEarly(end[Sender], conn) =>
              Early(end[Receiver], net[Sender], net[Receiver])
<1>1. /\ Good(end[Sender], end[Receiver], net[Sender], net[Receiver], broken)
      /\ end \in [Peers -> FileEnd] /\ net \in [Peers -> Seq(Packet)]
      /\ \A u \in Peers : Len(net[u]) <= Room
  BY DEF TransferInv, TransferTypeOK
<1>2. end[Sender] \in FileEnd /\ end[Receiver] \in FileEnd
  BY <1>1, TwoUsers
<1>3. end[Sender].sendBuf \in Seq(Packet) /\ end[Receiver].sendBuf \in Seq(Packet)
  BY <1>2 DEF FileEnd
<1>4. Len(<<>>) <= Room /\ \A S : <<>> \in Seq(S)
  BY TransferAssumption
<1> QED
  BY <1>1, <1>2, <1>3, <1>4, TwoUsers DEF TransferInv

\* Nothing else changes on the way.
LEMMA Unmoved ==
  ASSUME net \in [Peers -> Seq(Packet)], UNCHANGED net
  PROVE  net' = [net EXCEPT ![Sender] = net[Sender], ![Receiver] = net[Receiver]]
BY DEF Peers, Sender, Receiver

LEMMA DisabledStep ==
  ASSUME TransferInv, NEW u \in Peers, OnSocketException(u)
  PROVE  TransferInv'
<1>1. /\ end[u].status = "NOT_CONN" /\ end' = [end EXCEPT ![u].isDisabled = TRUE]
      /\ UNCHANGED <<wall, server, conn, net, broken, instant>>
  BY DEF OnSocketException
<1> DEFINE f == [end[u] EXCEPT !.isDisabled = TRUE]
<1>2. end' = [end EXCEPT ![u] = f] /\ f.status = end[u].status /\ f.picking = end[u].picking
  BY <1>1, Now DEF FileEnd
<1> HIDE DEF f
<1>3. CASE u = Sender
  <2>1. Good(f, end[Receiver], net[Sender], net[Receiver], broken)
    BY <1>3, Now, SenderDisabled DEF f
  <2>2. Unknown(f) => Early(end[Receiver], net[Sender], net[Receiver])
    BY <1>2, <1>3, Now DEF IsEarly, Unknown
  <2> QED
    BY <1>1, <1>2, <1>3, <2>1, <2>2, Now, Unmoved, SenderStep
<1>4. CASE u = Receiver
  <2>1. /\ Good(end[Sender], f, net[Sender], net[Receiver], broken)
        /\ Early(end[Receiver], net[Sender], net[Receiver]) =>
             Early(f, net[Sender], net[Receiver])
    BY <1>4, Now, ReceiverDisabled DEF f
  <2> QED
    BY <1>1, <1>2, <1>4, <2>1, Now, Unmoved, ReceiverStep
<1> QED
  BY <1>3, <1>4 DEF Peers

LEMMA CloseStep ==
  ASSUME TransferInv, NEW u \in Peers, OnClose(u)
  PROVE  TransferInv'
<1> DEFINE f == IF end[u].listener THEN FileOnClose(end[u])
             ELSE [end[u] EXCEPT !.open = FALSE, !.unheard = TRUE]
<1>1. /\ end[u].status \notin {"none", "NOT_CONN"} /\ net[u] = <<>>
      /\ conn = "failed" \/ ~end[Other(u)].open
      /\ end' = [end EXCEPT ![u] = f]
      /\ UNCHANGED <<wall, server, conn, net, broken, instant>>
  BY DEF OnClose
<1>2. broken \/ ~end[Other(u)].open
  BY <1>1 DEF TransferInv, Phases
<1>3. CASE u = Sender
  <2>1. /\ Good(f, end[Receiver], net[Sender], net[Receiver], broken)
        /\ Unknown(f) => Unknown(end[Sender])
    <3>1. f = Shut(end[Sender])
      BY <1>3 DEF Shut
    <3>2. /\ end[Sender].status \notin {"none", "NOT_CONN"} /\ net[Sender] = <<>>
          /\ broken \/ ~end[Receiver].open
      BY <1>1, <1>2, <1>3, TwoUsers
    <3>3. Good(end[Sender], end[Receiver], net[Sender], net[Receiver], broken)
      BY Now
    <3> HIDE DEF f
    <3> QED
      BY <3>1, <3>2, <3>3, SenderCloses
  <2>3. Unknown(f) => Early(end[Receiver], net[Sender], net[Receiver])
    BY <2>1, Now DEF IsEarly
  <2> HIDE DEF f
  <2> QED
    BY <1>1, <1>3, <2>1, <2>3, Now, Unmoved, SenderStep
<1>4. CASE u = Receiver
  <2>1. /\ Good(end[Sender], f, net[Sender], net[Receiver], broken)
        /\ Early(end[Receiver], net[Sender], net[Receiver]) =>
             Early(f, net[Sender], net[Receiver])
    <3>1. f = Shut(end[Receiver])
      BY <1>4 DEF Shut
    <3>2. /\ end[Receiver].status \notin {"none", "NOT_CONN"} /\ net[Receiver] = <<>>
          /\ broken \/ ~end[Sender].open
      BY <1>1, <1>2, <1>4, TwoUsers
    <3>3. Good(end[Sender], end[Receiver], net[Sender], net[Receiver], broken)
      BY Now
    <3> HIDE DEF f
    <3> QED
      BY <3>1, <3>2, <3>3, ReceiverCloses
  <2> HIDE DEF f
  <2> QED
    BY <1>1, <1>4, <2>1, Now, Unmoved, ReceiverStep
<1> QED
  BY <1>3, <1>4 DEF Peers

LEMMA StopStep ==
  ASSUME TransferInv, NEW u \in Peers, Stop(u)
  PROVE  TransferInv'
<1> DEFINE f == FileOnClose([end[u] EXCEPT !.report = "stopped"])
<1>1. /\ end[u].listener
      /\ end' = [end EXCEPT ![u] = f] /\ net' = [net EXCEPT ![u] = <<>>]
      /\ UNCHANGED <<wall, server, conn, broken, instant>>
  BY DEF Stop
<1>2. end[u].status = "ESTABLISHED"
  BY <1>1, Now DEF Good, SenderEnd, ReceiverEnd, AnyEnd, Peers
<1>3. f.status = "none"
  <2> DEFINE e == [end[u] EXCEPT !.report = "stopped"]
  <2>1. end[u] \in FileEnd
    BY Now
  <2>2. e \in FileEnd
    BY <2>1 DEF FileEnd, Reports
  <2> HIDE DEF e
  <2>3. Ended(FileOnClose(e), e)
    BY <2>2, CloseEnds
  <2> QED
    BY <2>3 DEF Ended, e
<1>4. CASE u = Sender
  <2>1. Good(f, end[Receiver], <<>>, net[Receiver], broken) /\ ~Unknown(f)
    BY <1>4, Now, SenderStops
  <2> HIDE DEF f
  <2>2. net' = [net EXCEPT ![Sender] = <<>>, ![Receiver] = net[Receiver]]
    BY <1>1, <1>4, Now, TwoUsers
  <2> QED
    BY <1>1, <1>2, <1>3, <1>4, <2>1, <2>2, Now, SenderStep
<1>5. CASE u = Receiver
  <2>1. /\ Good(end[Sender], f, net[Sender], <<>>, broken)
        /\ Early(end[Receiver], net[Sender], net[Receiver]) =>
             Early(f, net[Sender], <<>>)
    <3>1. f = FileOnClose([end[Receiver] EXCEPT !.report = "stopped"])
      BY <1>5
    <3>2. Good(end[Sender], end[Receiver], net[Sender], net[Receiver], broken)
      BY Now
    <3> HIDE DEF f
    <3>3. Good(end[Sender], f, net[Sender], <<>>, broken)
      BY <3>1, <3>2, ReceiverStops
    <3>4. Early(end[Receiver], net[Sender], net[Receiver]) =>
            Early(f, net[Sender], <<>>)
      BY <3>1, <3>2, ReceiverStops
    <3> QED
      BY <3>3, <3>4
  <2> HIDE DEF f
  <2>2. net' = [net EXCEPT ![Sender] = net[Sender], ![Receiver] = <<>>]
    BY <1>1, <1>5, Now, TwoUsers
  <2> QED
    BY <1>1, <1>2, <1>5, <2>1, <2>2, Now, ReceiverStep
<1> QED
  BY <1>4, <1>5 DEF Peers

LEMMA ReadStep ==
  ASSUME TransferInv, NEW u \in Peers, OnSocketRead(u)
  PROVE  TransferInv'
<1>1. /\ end[u].open /\ end[u].status # "none" /\ net[u] # <<>>
      /\ net' = [net EXCEPT ![u] = Tail(@)]
      /\ UNCHANGED <<wall, server, conn, broken, instant>>
  BY DEF OnSocketRead
<1>2. PICK f \in OnPacketReceived(end[u], Head(net[u])) : end' = [end EXCEPT ![u] = f]
  BY DEF OnSocketRead
<1>3. net[u] \in Seq(Packet) /\ Len(net[u]) <= Room
  BY Now, TwoUsers DEF Peers
<1>4. Tail(net[u]) \in Seq(Packet) /\ Len(Tail(net[u])) <= Room
  BY <1>1, <1>3, TransferAssumption
<1>5. CASE u = Sender
  <2>1. net[Sender] # <<>> /\ end[Sender].open /\ f \in OnPacketReceived(end[Sender], Head(net[Sender]))
    BY <1>1, <1>5
  <2>2. Unknown(end[Sender]) => Early(end[Receiver], net[Sender], net[Receiver])
    BY Now DEF IsEarly
  <2>3. Good(end[Sender], end[Receiver], net[Sender], net[Receiver], broken)
    BY Now
  <2>4. /\ Good(f, end[Receiver], Tail(net[Sender]), net[Receiver], broken)
        /\ Unknown(f) => Early(end[Receiver], Tail(net[Sender]), net[Receiver])
    BY <2>1, <2>2, <2>3, SenderReceives
  <2>6. net' = [net EXCEPT ![Sender] = Tail(net[Sender]), ![Receiver] = net[Receiver]]
    BY <1>1, <1>5, Now, TwoUsers
  <2> QED
    BY <1>1, <1>2, <1>4, <1>5, <2>4, <2>6, Now, SenderStep
<1>6. CASE u = Receiver
  <2>1. /\ net[Receiver] # <<>> /\ end[Receiver].open
        /\ f \in OnPacketReceived(end[Receiver], Head(net[Receiver]))
    BY <1>1, <1>6
  <2>2. Good(end[Sender], end[Receiver], net[Sender], net[Receiver], broken)
    BY Now
  <2>3. Good(end[Sender], f, net[Sender], Tail(net[Receiver]), broken)
    BY <2>1, <2>2, ReceiverReceives
  <2>4. ~Early(end[Receiver], net[Sender], net[Receiver])
    BY <2>1 DEF Early
  <2>5. net' = [net EXCEPT ![Sender] = net[Sender], ![Receiver] = Tail(net[Receiver])]
    BY <1>1, <1>6, Now, TwoUsers
  <2> QED
    BY <1>1, <1>2, <1>4, <1>6, <2>3, <2>4, <2>5, Now, ReceiverStep
<1> QED
  BY <1>5, <1>6 DEF Peers

\* What the socket takes fits.
LEMMA StillFits ==
  ASSUME NEW q \in Seq(Packet), NEW s \in Seq(Packet),
         Len(q) <= Room, NEW k \in Nat,
         k = 0 \/ k \in 0 .. Room - Len(q), k <= Len(s)
  PROVE  q \o SubSeq(s, 1, k) \in Seq(Packet) /\ Len(q \o SubSeq(s, 1, k)) <= Room
<1>1. SubSeq(s, 1, k) \in Seq(Packet) /\ Len(SubSeq(s, 1, k)) = k
  BY Parts
<1> DEFINE a == SubSeq(s, 1, k)
<1> HIDE DEF a
<1>2. a \in Seq(Packet) /\ Len(a) = k
  BY <1>1 DEF a
<1>3. q \o a \in Seq(Packet) /\ Len(q \o a) = Len(q) + k
  BY <1>2
<1>4. Len(q) + k <= Room
  BY TransferAssumption
<1> QED
  BY <1>3, <1>4 DEF a

\* What fits of s is taken, and what the socket at the other end loses.
LEMMA SenderWritesOut ==
  ASSUME TransferInv, UNCHANGED <<wall, server, conn, broken, instant>>,
         end[Sender].status # "none", NEW e,
         Good(e, end[Receiver], net[Sender], net[Receiver], broken),
         e.status \in {"none", "ESTABLISHED"}, ~e.picking, Sending(e),
         WriteOut(Sender, e)
  PROVE  TransferInv'
<1> DEFINE r == end[Receiver]
           ns == net[Sender]
           nr == net[Receiver]
           room == IF conn = "failed" \/ ~e.open THEN 0 ELSE Room - Len(nr)
<1>1. PICK k \in 0 .. room :
             LET rest == [e EXCEPT !.sendBuf = SubSeq(@, k + 1, Len(@))] IN
             /\ k <= Len(e.sendBuf)
             /\ net' = [net EXCEPT ![Receiver] =
                          IF conn = "up" /\ ~r.open THEN <<>>
                          ELSE @ \o SubSeq(e.sendBuf, 1, k)]
             /\ end' = [end EXCEPT ![Sender] = IF rest.sendBuf = <<>> /\ rest.writeEnabled
                                               THEN OnSend(rest) ELSE rest]
  <2>1. Other(Sender) = Receiver
    BY TwoUsers
  <2> QED
    BY <2>1, Zenon DEF WriteOut
<1>2. Good(e, r, ns, nr, broken)
  OBVIOUS
<1>3. /\ nr \in Seq(Packet) /\ Len(nr) <= Room /\ ns \in Seq(Packet) /\ Len(ns) <= Room
      /\ Len(nr) \in Nat
  BY Now
<1> DEFINE rest == [e EXCEPT !.sendBuf = SubSeq(@, k + 1, Len(@))]
           f == IF rest.sendBuf = <<>> /\ rest.writeEnabled THEN OnSend(rest) ELSE rest
           mr == IF conn = "up" /\ ~r.open THEN <<>> ELSE nr \o SubSeq(e.sendBuf, 1, k)
<1>5. /\ k \in Nat /\ k <= Len(e.sendBuf) /\ (k = 0 \/ k \in 0 .. Room - Len(nr))
      /\ net' = [net EXCEPT ![Receiver] = mr] /\ end' = [end EXCEPT ![Sender] = f]
      /\ mr = nr \o SubSeq(e.sendBuf, 1, k) \/ (mr = <<>> /\ ~r.open)
  <2>1. k \in Nat /\ (k = 0 \/ k \in 0 .. Room - Len(nr))
    BY <1>1
  <2>2. net \in [Peers -> Seq(Packet)]
    BY Now
  <2> QED
    BY <1>1, <2>1, <2>2, TwoUsers
<1>7. e \in FileEnd /\ e.sendBuf \in Seq(Packet)
  BY <1>2 DEF Good, SenderEnd, AnyEnd, FileEnd
<1>8. mr \in Seq(Packet) /\ Len(mr) <= Room
  BY <1>3, <1>5, <1>7, StillFits, Now
<1> HIDE DEF mr
<1>9. Good(rest, r, ns, mr, broken) /\ rest.status = e.status /\ rest.picking = e.picking
  <2>1. rest.status = e.status /\ rest.picking = e.picking
    BY <1>7 DEF FileEnd
  <2>2. rest = [e EXCEPT !.sendBuf = SubSeq(@, k + 1, Len(@))]
    OBVIOUS
  <2> HIDE DEF rest
  <2>3. Good(rest, r, ns, mr, broken)
    <3>1. /\ k \in Nat /\ k <= Len(e.sendBuf)
          /\ mr = nr \o SubSeq(e.sendBuf, 1, k) \/ (mr = <<>> /\ ~r.open)
      BY <1>5
    <3> HIDE DEF r, ns, nr
    <3> QED
      BY <1>2, <2>2, <3>1, SenderSends, Zenon
  <2> QED
    BY <2>1, <2>3
<1> HIDE DEF rest
<1>10. Good(f, r, ns, mr, broken) /\ f.status \in {"none", "ESTABLISHED"} /\ ~f.picking
  BY <1>9, SenderReads
<1>11. net' = [net EXCEPT ![Sender] = ns, ![Receiver] = mr]
  BY <1>5, Now, TwoUsers
<1>12. ~Unknown(f)
  BY <1>10 DEF Unknown
<1> HIDE DEF f
<1> QED
  BY <1>3, <1>5, <1>8, <1>10, <1>11, <1>12, SenderStep

LEMMA SenderWrites ==
  ASSUME TransferInv, OnSocketWrite(Sender)
  PROVE  TransferInv'
<1> DEFINE s == end[Sender]
           r == end[Receiver]
           ns == net[Sender]
           nr == net[Receiver]
           d == [s EXCEPT !.status = "ESTABLISHED"]
<1>1. /\ s.open /\ ~s.picking
      /\ s.status = "NOT_CONN" \/ s.sendBuf # <<>> \/ s.writeEnabled
      /\ UNCHANGED <<wall, server, conn, broken, instant>>
  BY DEF OnSocketWrite, Writable
<1>2. /\ Good(s, r, ns, nr, broken) /\ s \in FileEnd
      /\ Unknown(s) => Early(r, ns, nr)
      /\ nr \in Seq(Packet) /\ Len(nr) <= Room /\ ns \in Seq(Packet)
      /\ Len(ns) <= Room
  BY Now DEF IsEarly
<1>3. s.status \in {"NOT_CONN", "ESTABLISHED"}
  BY <1>1, <1>2 DEF Good, SenderEnd, AnyEnd, FileEnd
<1>4. CASE s.status = "NOT_CONN"
  <2> DEFINE f == OnTCPEstablished(d)
  <2>1. /\ s.isSend /\ Untouched(s) /\ ~s.writeEnabled /\ ~s.file /\ ~s.listener
        /\ s.sendBuf \in Seq(HelloOf(Sender))
    BY <1>2, <1>4 DEF Good, SenderEnd, AnyEnd
  <2>2. /\ d \in FileEnd /\ d.isSend /\ Untouched(d) /\ ~d.writeEnabled /\ ~d.file
        /\ ~d.listener /\ d.status = "ESTABLISHED" /\ d.sendBuf \in Seq(HelloOf(Sender))
    BY <1>2, <2>1 DEF FileEnd, Untouched
  <2> HIDE DEF d
  <2>3. Offered(f) /\ f.picking
    BY <2>2, SenderAsks
  <2>4. Early(r, ns, nr)
    BY <1>2, <1>4 DEF Unknown
  <2>5. Good(f, r, ns, nr, broken)
    BY <1>2, <2>3, <2>4, SenderShown
  <2>6. end' = [end EXCEPT ![Sender] = f] /\ UNCHANGED net
    BY <1>4, <2>3 DEF OnSocketWrite, d
  <2> HIDE DEF f
  <2> QED
    BY <1>1, <1>2, <1>3, <2>4, <2>5, <2>6, Now, Unmoved, SenderStep
<1>5. CASE s.status = "ESTABLISHED"
  <2>1. WriteOut(Sender, s)
    BY <1>1, <1>5 DEF OnSocketWrite
  <2>2. Sending(s)
    BY <1>1, <1>2, <1>5 DEF Good, SenderEnd, AnyEnd, Sending
  <2> QED
    BY <1>1, <1>2, <1>5, <2>1, <2>2, SenderWritesOut
<1> QED
  BY <1>3, <1>4, <1>5

LEMMA SenderPicks ==
  ASSUME TransferInv, Pick(Sender)
  PROVE  TransferInv'
<1> DEFINE s == end[Sender]
           r == end[Receiver]
           ns == net[Sender]
           nr == net[Receiver]
<1>1. s.picking /\ UNCHANGED <<wall, server, conn, broken, instant>>
  BY DEF Pick
<1>2. PICK e \in Picked(s) :
        \/ end' = [end EXCEPT ![Sender] = e] /\ UNCHANGED net
        \/ /\ e.status # "none" /\ UNCHANGED net
           /\ end' = [end EXCEPT ![Sender] = Queue(e, [cmd |-> "HELLO", isSend |-> TRUE])]
        \/ WriteOut(Sender, e)
  BY DEF Pick
<1>3. Good(s, r, ns, nr, broken) /\ Early(r, ns, nr) /\ SenderEnd(s)
  BY <1>1, Now DEF IsEarly, Unknown, Good
<1>4. s.status = "ESTABLISHED"
  BY <1>1, <1>3 DEF SenderEnd, AnyEnd
<1>5. Offered(e) /\ ~e.picking
  BY <1>1, <1>3, SenderOpens
<1>6. ASSUME NEW f, Offered(f), ~f.picking, end' = [end EXCEPT ![Sender] = f], UNCHANGED net
      PROVE  TransferInv'
  <2>1. Good(f, r, ns, nr, broken)
    BY <1>3, <1>6, SenderShown
  <2> QED
    BY <1>1, <1>3, <1>4, <1>6, <2>1, Now, Unmoved, SenderStep
<1>7. CASE end' = [end EXCEPT ![Sender] = e] /\ UNCHANGED net
  BY <1>5, <1>6, <1>7
<1>8. CASE /\ e.status # "none" /\ UNCHANGED net
           /\ end' = [end EXCEPT ![Sender] = Queue(e, [cmd |-> "HELLO", isSend |-> TRUE])]
  <2> DEFINE f == Queue(e, [cmd |-> "HELLO", isSend |-> TRUE])
  <2>1. Offered(f) /\ f.picking = e.picking
    BY <1>5, <1>8, OfferedHello
  <2> HIDE DEF f
  <2> QED
    BY <1>5, <1>6, <1>8, <2>1 DEF f
<1>9. CASE WriteOut(Sender, e)
  <2>1. Good(e, r, ns, nr, broken)
    BY <1>3, <1>5, SenderShown
  <2>2. Sending(e) /\ e.status \in {"none", "ESTABLISHED"}
    BY <1>5 DEF Offered, Sending
  <2> QED
    BY <1>1, <1>4, <1>5, <1>9, <2>1, <2>2, SenderWritesOut
<1> QED
  BY <1>2, <1>7, <1>8, <1>9

LEMMA ReceiverPicks ==
  ASSUME TransferInv, Pick(Receiver)
  PROVE  TransferInv'
<1>1. end[Receiver].picking /\ UNCHANGED <<wall, server, conn, broken, instant>>
  BY DEF Pick
<1>2. Good(end[Sender], end[Receiver], net[Sender], net[Receiver], broken)
  BY Now
<1>3. \A f \in Picked(end[Receiver]) :
        Good(end[Sender], f, net[Sender], net[Receiver], broken) /\ ~f.isSend
  BY <1>1, <1>2, ReceiverAnswers
<1>4. PICK f \in Picked(end[Receiver]) :
        end' = [end EXCEPT ![Receiver] = f] /\ UNCHANGED net
  BY <1>3 DEF Pick
<1>5. end[Receiver].status = "ESTABLISHED"
  BY <1>1, <1>2 DEF Good, ReceiverEnd, AnyEnd
<1>6. ~Early(end[Receiver], net[Sender], net[Receiver])
  BY <1>1 DEF Early
<1> QED
  BY <1>1, <1>3, <1>4, <1>5, <1>6, Now, Unmoved, ReceiverStep

LEMMA ReceiverWrites ==
  ASSUME TransferInv, OnSocketWrite(Receiver)
  PROVE  TransferInv'
<1> DEFINE s == end[Sender]
           r == end[Receiver]
           ns == net[Sender]
           nr == net[Receiver]
           e == IF r.status # "NOT_CONN" THEN r
                ELSE OnTCPEstablished([r EXCEPT !.status = "ESTABLISHED"])
<1>2. /\ r.open /\ ~r.picking
      /\ UNCHANGED <<wall, server, conn, broken, instant>>
  BY DEF OnSocketWrite, Writable
<1>3. /\ Good(s, r, ns, nr, broken) /\ r \in FileEnd
      /\ nr \in Seq(Packet) /\ Len(nr) <= Room /\ ns \in Seq(Packet)
      /\ Len(ns) <= Room /\ Len(ns) \in Nat
  BY Now
<1>4. r.status # "none"
  BY <1>2, <1>3 DEF Good, ReceiverEnd, AnyEnd
<1>5. /\ Good(s, e, ns, nr, broken) /\ e.open /\ ~e.picking
      /\ Early(r, ns, nr) => Early(e, ns, nr)
  <2>1. CASE r.status = "NOT_CONN"
    <3>1. ~r.isSend
      BY <1>3, <2>1 DEF Good, ReceiverEnd
    <3>2. [r EXCEPT !.status = "ESTABLISHED"]
            = [r EXCEPT !.status = "ESTABLISHED", !.isSend = FALSE]
      BY <1>3, <3>1 DEF FileEnd
    <3>3. e = Receiving(r)
      BY <2>1, <3>2 DEF Receiving
    <3>4. r.status \in {"NOT_CONN", "HELLO_WAIT"} /\ r.open /\ Good(s, r, ns, nr, broken)
      BY <1>2, <1>3, <2>1
    <3> HIDE DEF e, s, r, ns, nr
    <3> QED
      BY <3>3, <3>4, ReceiverOpens
  <2>2. CASE r.status # "NOT_CONN"
    <3>1. e = r
      BY <2>2
    <3> QED
      BY <1>2, <1>3, <3>1
  <2> QED
    BY <2>1, <2>2
<1>1. WriteOut(Receiver, e)
  BY <1>5 DEF OnSocketWrite
<1> HIDE DEF e
<1> DEFINE room == IF conn = "failed" \/ ~e.open THEN 0 ELSE Room - Len(ns)
<1>13. PICK k \in 0 .. room :
             LET rest == [e EXCEPT !.sendBuf = SubSeq(@, k + 1, Len(@))] IN
             /\ k <= Len(e.sendBuf)
             /\ net' = [net EXCEPT ![Sender] =
                          IF conn = "up" /\ ~s.open THEN <<>>
                          ELSE @ \o SubSeq(e.sendBuf, 1, k)]
             /\ end' = [end EXCEPT ![Receiver] = IF rest.sendBuf = <<>> /\ rest.writeEnabled
                                                 THEN OnSend(rest) ELSE rest]
  <2>1. Other(Receiver) = Sender
    BY TwoUsers
  <2> QED
    BY <1>1, <2>1, Zenon DEF WriteOut
<1> DEFINE rest == [e EXCEPT !.sendBuf = SubSeq(@, k + 1, Len(@))]
           ms == IF conn = "up" /\ ~s.open THEN <<>> ELSE ns \o SubSeq(e.sendBuf, 1, k)
<1>6. e \in FileEnd /\ e.sendBuf \in Seq(Packet) /\ ~e.writeEnabled
  BY <1>5 DEF Good, ReceiverEnd, AnyEnd, FileEnd
<1>7. ~rest.writeEnabled
  BY <1>6 DEF FileEnd
<1>8. /\ k \in Nat /\ k <= Len(e.sendBuf) /\ (k = 0 \/ k \in 0 .. Room - Len(ns))
      /\ net' = [net EXCEPT ![Sender] = ms] /\ end' = [end EXCEPT ![Receiver] = rest]
      /\ ms = ns \o SubSeq(e.sendBuf, 1, k) \/ ms = <<>>
  <2>1. k \in Nat /\ (k = 0 \/ k \in 0 .. Room - Len(ns))
    BY <1>13
  <2>2. net \in [Peers -> Seq(Packet)]
    BY Now
  <2> QED
    BY <1>7, <1>13, <2>1, <2>2, TwoUsers
<1>9. ms \in Seq(Packet) /\ Len(ms) <= Room
  BY <1>3, <1>6, <1>8, StillFits, Now
<1> HIDE DEF ms
<1>10. rest = [e EXCEPT !.sendBuf = SubSeq(@, k + 1, Len(@))]
  OBVIOUS
<1> HIDE DEF rest
<1>11. /\ Good(s, rest, ms, nr, broken)
       /\ Early(e, ns, nr) => Early(rest, ms, nr)
  <2>1. /\ k \in Nat /\ k <= Len(e.sendBuf)
        /\ ms = ns \o SubSeq(e.sendBuf, 1, k) \/ ms = <<>>
    BY <1>8
  <2>2. Good(s, e, ns, nr, broken) /\ e.open
    BY <1>5
  <2> HIDE DEF s, r, ns, nr
  <2>3. Follows(s, e, ns, rest, ms, nr, broken)
    BY <1>10, <2>1, <2>2, ReceiverSends, Zenon
  <2> QED
    BY <2>3 DEF Follows
<1>12. net' = [net EXCEPT ![Sender] = ms, ![Receiver] = nr]
  BY <1>8, Now, TwoUsers
<1> QED
  BY <1>2, <1>3, <1>4, <1>5, <1>8, <1>9, <1>11, <1>12, ReceiverStep

\* Nothing has happened between the two ends yet.
Quiet(s, r) ==
  /\ SenderEnd(s) /\ ReceiverEnd(r)
  /\ s.transfer_size = 0 /\ s.report = "none" /\ ~s.writeEnabled
  /\ s.sendBuf \in Seq(Offer(s.fileSize))
  /\ Arrived(r) = 0 /\ r.fileSize = 0 /\ ~r.file /\ ~r.picking
  /\ r.sendBuf \in Seq(HelloOf(Receiver))

LEMMA QuietGood ==
  ASSUME NEW s, NEW r, NEW b, Quiet(s, r)
  PROVE  Good(s, r, <<>>, <<>>, b) /\ Early(r, <<>>, <<>>)
<1>1. \A M : <<>> \in Seq(M)
  OBVIOUS
<1>2. Flow(s, r, <<>>, <<>>)
  BY <1>1 DEF Flow, Quiet
<1>3. Ready(s, r, <<>>, <<>>, b)
  BY <1>1 DEF Ready, Accepted, Quiet
<1>4. UnitsOf(<<>>) = 0 /\ UnitsOf(s.sendBuf) = 0
  BY Kinds, UnitsZero, UnitsNone DEF Quiet
<1>5. NoneLost(s, r, <<>>, b)
  BY <1>4 DEF NoneLost, Quiet
<1>6. Early(r, <<>>, <<>>)
  BY <1>1 DEF Early, Quiet
<1> QED
  BY <1>2, <1>3, <1>5, <1>6 DEF Good, Quiet

LEMMA NoSessionQuiet ==
  /\ NoSession \in FileEnd /\ Quiet(NoSession, NoSession)
<1>1. NoSession \in FileEnd
  <2>1. <<>> \in Seq(Packet)
    OBVIOUS
  <2> QED
    BY <2>1, Zenon DEF FileEnd, NoSession, Reports
<1>2. Gone(NoSession, NoSession)
  BY <1>1 DEF Gone, NoSession
<1>3. SenderEnd(NoSession) /\ ReceiverEnd(NoSession)
  BY <1>2, GoneEnd DEF NoSession
<1>4. \A M : <<>> \in Seq(M)
  OBVIOUS
<1> QED
  BY <1>1, <1>3, <1>4 DEF Quiet, NoSession, Arrived

LEMMA InitHolds ==
  TransferInit => TransferInv
<1> SUFFICES ASSUME TransferInit
             PROVE  TransferInv
  OBVIOUS
<1>1. /\ end[Sender] = NoSession /\ end[Receiver] = NoSession
      /\ net[Sender] = <<>> /\ net[Receiver] = <<>>
  BY TwoUsers DEF TransferInit
<1>2. TransferTypeOK
  <2>1. <<>> \in Seq(Packet) /\ Len(<<>>) <= Room
    BY TransferAssumption
  <2> QED
    BY <2>1, NoSessionQuiet DEF TransferInit, TransferTypeOK
<1>3. Phases
  BY TwoUsers DEF TransferInit, Phases
<1>4. /\ Good(end[Sender], end[Receiver], net[Sender], net[Receiver], broken)
      /\ Early(end[Receiver], net[Sender], net[Receiver])
  BY <1>1, NoSessionQuiet, QuietGood
<1> QED
  BY <1>2, <1>3, <1>4 DEF TransferInv

\* The request has been answered: one of the two has a session.
LEMMA Connected ==
  ASSUME TransferInv,
         server \in {"none", "TCP_REQUEST", "TCP_ACCEPT"}, server' = "done",
         NEW s, NEW r, end' = Both(s, r), net' = Both(<<>>, <<>>),
         conn' \in {"pending", "backlog"}, wall' = wall, broken' = broken,
         instant' \in BOOLEAN, (Both(s, r))[Acceptor] = NoSession, Quiet(s, r)
  PROVE  TransferInv'
<1>1. end'[Sender] = s /\ end'[Receiver] = r /\ net'[Sender] = <<>> /\ net'[Receiver] = <<>>
  BY TwoUsers DEF Both
<1>2. s \in FileEnd /\ r \in FileEnd
  BY DEF Quiet, SenderEnd, ReceiverEnd, AnyEnd
<1>3. <<>> \in Seq(Packet) /\ Len(<<>>) <= Room
  BY TransferAssumption
<1>4. end' \in [Peers -> FileEnd] /\ net' \in [Peers -> Seq(Packet)]
  BY <1>2, <1>3 DEF Both
<1>5. \A u \in Peers : Len(net'[u]) <= Room
  BY <1>1, <1>3 DEF Peers
<1>6. TransferTypeOK'
  BY <1>4, <1>5 DEF TransferInv, TransferTypeOK
<1>7. Acceptor' = Acceptor
  BY DEF Acceptor, Connector, Other
<1>8. ~broken
  BY DEF TransferInv, Phases
<1>9. Phases'
  BY <1>7, <1>8 DEF Phases
<1>10. Good(s, r, <<>>, <<>>, broken) /\ Early(r, <<>>, <<>>)
  BY QuietGood
<1>11. /\ Good(end'[Sender], end'[Receiver], net'[Sender], net'[Receiver], broken')
       /\ Early(end'[Receiver], net'[Sender], net'[Receiver])
  BY <1>1, <1>10
<1> QED
  BY <1>6, <1>9, <1>11 DEF TransferInv

\* The session of createTCPSession, and what onTCPEstablished makes of it at once.
Made(isSend) ==
  OnTCPEstablished([NewSession(isSend) EXCEPT
    !.status = "ESTABLISHED", !.sendBuf = IF isSend THEN <<>> ELSE @])

LEMMA SenderFirst ==
  Quiet(NewSession(TRUE), NoSession) /\ Quiet(Made(TRUE), NoSession)
<1> DEFINE p == [cmd |-> "HELLO", isSend |-> TRUE]
           n == NewSession(TRUE)
<1>1. (Sender = Sender) = TRUE
  OBVIOUS
<1>2. p \in Packet /\ p \in HelloOf(Sender) /\ \A size : p \in Offer(size) /\ p \in FromSender(size)
  <2>1. p \in HelloOf(Sender)
    BY <1>1, Zenon DEF HelloOf
  <2>2. p \in Packet
    BY DEF Packet
  <2> QED
    BY <2>1, <2>2 DEF Offer, FromSender
<1> HIDE DEF p
<1>3. \A M : <<>> \in Seq(M) /\ (p \in M => Append(<<>>, p) \in Seq(M))
  OBVIOUS
<1>4. n = Queue([NoSession EXCEPT !.status = "NOT_CONN", !.isSend = TRUE, !.open = TRUE], p)
  BY DEF NewSession, p
<1>5. n \in FileEnd
  <2>1. [NoSession EXCEPT !.status = "NOT_CONN", !.isSend = TRUE, !.open = TRUE] \in FileEnd
    BY NoSessionQuiet DEF FileEnd
  <2> QED
    BY <1>2, <1>4, <2>1, QueueEnd
<1>6. /\ n.status = "NOT_CONN" /\ n.isSend /\ n.open /\ ~n.listener /\ ~n.writeEnabled
      /\ ~n.file /\ ~n.picking
      /\ n.left = 0 /\ n.fileSize = 0 /\ n.transfer_size = 0 /\ n.report = "none"
      /\ n.sendBuf = Append(<<>>, p)
  BY <1>4 DEF Queue, NoSession
<1>11. Made(TRUE) = OnTCPEstablished([n EXCEPT !.status = "ESTABLISHED", !.sendBuf = <<>>])
  BY DEF Made
<1> HIDE DEF n
<1>7. /\ n.sendBuf \in Seq(HelloOf(Sender)) /\ n.sendBuf \in Seq(Offer(0))
      /\ n.sendBuf \in Seq(FromSender(0))
  BY <1>2, <1>3, <1>6
<1>8. SenderEnd(n)
  <2>1. AnyEnd(n)
    BY <1>5, <1>6 DEF AnyEnd, Untouched
  <2> QED
    BY <1>6, <1>7, <2>1 DEF SenderEnd
<1>9. Quiet(n, NoSession)
  BY <1>6, <1>7, <1>8, NoSessionQuiet DEF Quiet
<1> DEFINE d == [n EXCEPT !.status = "ESTABLISHED", !.sendBuf = <<>>]
<1>10. Quiet(OnTCPEstablished(d), NoSession)
  <2>1. <<>> \in Seq(Packet) /\ <<>> \in Seq(HelloOf(Sender))
    OBVIOUS
  <2>2. /\ d \in FileEnd /\ d.isSend /\ Untouched(d) /\ ~d.writeEnabled /\ ~d.file /\ ~d.listener
        /\ d.status = "ESTABLISHED" /\ d.sendBuf \in Seq(HelloOf(Sender))
    BY <1>5, <1>6, <2>1 DEF FileEnd, Untouched
  <2> HIDE DEF d
  <2> DEFINE f == OnTCPEstablished(d)
  <2>3. Offered(f)
    BY <2>2, SenderAsks
  <2> HIDE DEF f
  <2>4. Quiet(f, NoSession)
    BY <2>3, NoSessionQuiet DEF Quiet, Offered
  <2> QED
    BY <2>4 DEF f
<1> QED
  BY <1>9, <1>10, <1>11 DEF n

LEMMA ReceiverFirst ==
  Quiet(NoSession, NewSession(FALSE)) /\ Quiet(NoSession, Made(FALSE))
<1> DEFINE p == [cmd |-> "HELLO", isSend |-> FALSE]
           n == NewSession(FALSE)
<1>1. (Receiver = Sender) = FALSE
  BY DEF Sender, Receiver
<1>2. p \in Packet /\ p \in HelloOf(Receiver) /\ p \in FromReceiver
  <2>1. p \in HelloOf(Receiver)
    BY <1>1, Zenon DEF HelloOf
  <2>2. p \in Packet
    BY DEF Packet
  <2> QED
    BY <2>1, <2>2 DEF FromReceiver
<1> HIDE DEF p
<1>3. \A M : <<>> \in Seq(M) /\ (p \in M => Append(<<>>, p) \in Seq(M))
  OBVIOUS
<1>4. n = Queue([NoSession EXCEPT !.status = "NOT_CONN", !.isSend = FALSE, !.open = TRUE], p)
  BY DEF NewSession, p
<1>5. n \in FileEnd
  <2>1. [NoSession EXCEPT !.status = "NOT_CONN", !.isSend = FALSE, !.open = TRUE] \in FileEnd
    BY NoSessionQuiet DEF FileEnd
  <2> QED
    BY <1>2, <1>4, <2>1, QueueEnd
<1>6. /\ n.status = "NOT_CONN" /\ ~n.isSend /\ n.open /\ ~n.listener /\ ~n.writeEnabled
      /\ ~n.file /\ ~n.picking /\ n.unwritten = 0
      /\ n.left = 0 /\ n.fileSize = 0 /\ n.transfer_size = 0 /\ n.report = "none"
      /\ n.sendBuf = Append(<<>>, p)
  BY <1>4 DEF Queue, NoSession
<1>11. Made(FALSE) = OnTCPEstablished([n EXCEPT !.status = "ESTABLISHED", !.sendBuf = @])
  BY DEF Made
<1> HIDE DEF n
<1>7. n.sendBuf \in Seq(HelloOf(Receiver)) /\ n.sendBuf \in Seq(FromReceiver)
  BY <1>2, <1>3, <1>6
<1>8. ReceiverEnd(n)
  BY <1>5, <1>6, <1>7 DEF ReceiverEnd, AnyEnd, Untouched
<1>9. Quiet(NoSession, n)
  BY <1>6, <1>7, <1>8, NoSessionQuiet DEF Quiet, Arrived
<1> DEFINE f == Made(FALSE)
<1>10. f = [n EXCEPT !.status = "ESTABLISHED", !.listener = TRUE]
  BY <1>5, <1>6, <1>11 DEF OnTCPEstablished, FileEnd
<1> HIDE DEF f
<1>12. /\ f \in FileEnd
       /\ f.status = "ESTABLISHED" /\ ~f.isSend /\ f.open /\ f.listener /\ ~f.writeEnabled
       /\ ~f.file /\ ~f.picking /\ f.unwritten = 0
       /\ f.left = 0 /\ f.fileSize = 0 /\ f.transfer_size = 0 /\ f.report = "none"
       /\ f.sendBuf = n.sendBuf
  BY <1>5, <1>6, <1>10 DEF FileEnd
<1>13. ReceiverEnd(f)
  BY <1>7, <1>12 DEF ReceiverEnd, AnyEnd
<1>14. Quiet(NoSession, f)
  BY <1>7, <1>12, <1>13, NoSessionQuiet DEF Quiet, Arrived
<1> QED
  BY <1>9, <1>14 DEF n, f

LEMMA RequestSteps ==
  ASSUME TransferInv,
         SendTCPRequest \/ AcceptTCPRequest \/ OnTCPAccept
  PROVE  TransferInv'
<1>1. /\ net \in [Peers -> Seq(Packet)]
      /\ server \in {"none", "TCP_REQUEST", "TCP_ACCEPT"}
      /\ conn = "none" /\ end = [u \in Peers |-> NoSession]
      /\ net = [u \in Peers |-> <<>>]
      /\ instant \in BOOLEAN
  BY Now DEF SendTCPRequest, AcceptTCPRequest, OnTCPAccept, TransferInv, Phases, TransferTypeOK
<1>2. ASSUME server' \in {"TCP_REQUEST", "TCP_ACCEPT"},
             server' = "TCP_ACCEPT" => Connector = Sender,
             UNCHANGED <<wall, conn, net, end, broken, instant>>
      PROVE  TransferInv'
  <2>1. TransferTypeOK'
    BY <1>2 DEF TransferInv, TransferTypeOK
  <2>2. Acceptor' = Acceptor /\ Connector' = Connector
    BY <1>2 DEF Acceptor, Connector, Other
  <2>3. Phases'
    BY <1>1, <1>2, <2>2 DEF TransferInv, Phases
  <2>4. (Good(end[Sender], end[Receiver], net[Sender], net[Receiver], broken))'
    BY <1>2 DEF TransferInv
  <2>5. (IsEarly(end[Sender], conn) => Early(end[Receiver], net[Sender], net[Receiver]))'
    BY <1>2, <2>2 DEF TransferInv, IsEarly
  <2> QED
    BY <2>1, <2>3, <2>4, <2>5 DEF TransferInv
<1>3. CASE SendTCPRequest
  BY <1>2, <1>3 DEF SendTCPRequest
<1>4. ASSUME NEW u \in Peers, NEW to \in BOOLEAN, ConnectPeer(u, to), u = Connector,
             to = (u = Sender), server' = "done"
      PROVE  TransferInv'
  <2>1. /\ Other(u) = Acceptor /\ u # Acceptor
        /\ wall' = wall /\ broken' = broken /\ instant' \in BOOLEAN
        /\ conn' \in {"pending", "backlog"}
    BY <1>1, <1>4, TwoUsers DEF ConnectPeer, Peers
  <2>2. net' = Both(<<>>, <<>>)
    BY <1>1, <1>4 DEF ConnectPeer, Both, Other, Peers
  <2>3. CASE u = Sender
    <3>1. to = TRUE /\ Acceptor = Receiver
      BY <1>4, <2>1, <2>3, TwoUsers
    <3>2. ASSUME NEW s, Quiet(s, NoSession), end' = [end EXCEPT ![Sender] = s]
          PROVE  TransferInv'
      <4>1. end' = Both(s, NoSession)
        BY <1>1, <3>2 DEF Both, Peers, Sender, Receiver
      <4>2. (Both(s, NoSession))[Acceptor] = NoSession
        BY <3>1, TwoUsers DEF Both
      <4> QED
        BY <1>1, <1>4, <2>1, <2>2, <3>2, <4>1, <4>2, Connected
    <3>3. CASE end' = [end EXCEPT ![u] = NewSession(to)]
      BY <2>3, <3>1, <3>2, <3>3, SenderFirst
    <3>4. CASE end' = [end EXCEPT ![u] = Made(to)]
      BY <2>3, <3>1, <3>2, <3>4, SenderFirst
    <3> QED
      BY <1>4, <3>3, <3>4, Zenon DEF ConnectPeer, Made
  <2>4. CASE u = Receiver
    <3>1. to = FALSE /\ Acceptor = Sender
      BY <1>4, <2>1, <2>4, TwoUsers
    <3>2. ASSUME NEW r, Quiet(NoSession, r), end' = [end EXCEPT ![Receiver] = r]
          PROVE  TransferInv'
      <4>1. end' = Both(NoSession, r)
        BY <1>1, <3>2 DEF Both, Peers, Sender, Receiver
      <4>2. (Both(NoSession, r))[Acceptor] = NoSession
        BY <3>1, TwoUsers DEF Both
      <4> QED
        BY <1>1, <1>4, <2>1, <2>2, <3>2, <4>1, <4>2, Connected
    <3>3. CASE end' = [end EXCEPT ![u] = NewSession(to)]
      BY <2>4, <3>1, <3>2, <3>3, ReceiverFirst
    <3>4. CASE end' = [end EXCEPT ![u] = Made(to)]
      BY <2>4, <3>1, <3>2, <3>4, ReceiverFirst
    <3> QED
      BY <1>4, <3>3, <3>4, Zenon DEF ConnectPeer, Made
  <2> QED
    BY <2>3, <2>4 DEF Peers
<1>5. CASE AcceptTCPRequest
  <2>1. CASE Connector = Receiver
    <3>1. server' = "done" /\ ConnectPeer(Receiver, FALSE)
      BY <1>5, <2>1 DEF AcceptTCPRequest
    <3>2. FALSE = (Receiver = Sender)
      BY TwoUsers
    <3> QED
      BY <1>4, <2>1, <3>1, <3>2, TwoUsers
  <2>2. CASE Connector # Receiver
    <3>1. Connector = Sender
      BY <2>2, TwoUsers DEF Peers
    <3> QED
      BY <1>2, <1>5, <2>2, <3>1 DEF AcceptTCPRequest
  <2> QED
    BY <2>1, <2>2
<1>6. CASE OnTCPAccept
  <2>1. server' = "done" /\ ConnectPeer(Sender, TRUE) /\ Connector = Sender
    BY <1>6 DEF OnTCPAccept, TransferInv, Phases
  <2>2. TRUE = (Sender = Sender)
    OBVIOUS
  <2> QED
    BY <1>4, <2>1, <2>2, TwoUsers
<1> QED
  BY <1>3, <1>5, <1>6

LEMMA ReachStep ==
  ASSUME TransferInv, Reach
  PROVE  TransferInv'
<1>1. /\ conn = "pending" /\ conn' = "backlog"
      /\ UNCHANGED <<wall, server, net, end, broken, instant>>
  BY DEF Reach
<1>2. Acceptor' = Acceptor /\ Connector' = Connector
  BY <1>1 DEF Acceptor, Connector, Other
<1>3. TransferTypeOK' /\ Phases'
  BY <1>1, <1>2 DEF TransferInv, TransferTypeOK, Phases
<1>4. (Good(end[Sender], end[Receiver], net[Sender], net[Receiver], broken))'
  BY <1>1 DEF TransferInv
<1>5. (IsEarly(end[Sender], conn) => Early(end[Receiver], net[Sender], net[Receiver]))'
  BY <1>1, <1>2 DEF TransferInv, IsEarly
<1> QED
  BY <1>3, <1>4, <1>5 DEF TransferInv

LEMMA BreakStep ==
  ASSUME TransferInv, Break
  PROVE  TransferInv'
<1>1. /\ conn \in {"pending", "backlog", "up"} /\ conn' = "failed" /\ broken' = TRUE
      /\ net' = [u \in Peers |-> <<>>] /\ UNCHANGED <<wall, server, end, instant>>
  BY DEF Break
<1>2. net'[Sender] = <<>> /\ net'[Receiver] = <<>>
  BY <1>1, TwoUsers
<1>3. TransferTypeOK'
  <2>1. <<>> \in Seq(Packet) /\ Len(<<>>) <= Room
    BY TransferAssumption
  <2>2. net' \in [Peers -> Seq(Packet)] /\ \A u \in Peers : Len(net'[u]) <= Room
    BY <1>1, <2>1
  <2> QED
    BY <1>1, <2>2 DEF TransferInv, TransferTypeOK
<1>4. Phases'
  BY <1>1 DEF TransferInv, Phases
<1>5. Good(end[Sender], end[Receiver], <<>>, <<>>, TRUE)
  <2>1. \A M : <<>> \in Seq(M)
    OBVIOUS
  <2>2. Flow(end[Sender], end[Receiver], <<>>, <<>>)
    BY <2>1 DEF TransferInv, Good, Flow
  <2> QED
    BY <2>2 DEF TransferInv, Good, Ready, NoneLost
<1>6. (Good(end[Sender], end[Receiver], net[Sender], net[Receiver], broken))'
  BY <1>1, <1>2, <1>5
<1>7. Acceptor' = Acceptor
  BY <1>1 DEF Acceptor, Connector, Other
<1>8. (IsEarly(end[Sender], conn) => Early(end[Receiver], net[Sender], net[Receiver]))'
  <2>1. Early(end[Receiver], net[Sender], net[Receiver]) =>
          Early(end[Receiver], <<>>, <<>>)
    BY DEF Early
  <2> QED
    BY <1>1, <1>2, <2>1 DEF TransferInv, IsEarly
<1> QED
  BY <1>3, <1>4, <1>6, <1>8 DEF TransferInv

LEMMA AcceptStep ==
  ASSUME TransferInv, Accept
  PROVE  TransferInv'
<1> DEFINE f == [NoSession EXCEPT !.status = "HELLO_WAIT", !.open = TRUE]
           s == end[Sender]
           r == end[Receiver]
           ns == net[Sender]
           nr == net[Receiver]
<1>1. /\ conn = "backlog" /\ conn' = "up" /\ end' = [end EXCEPT ![Acceptor] = f]
      /\ UNCHANGED <<wall, server, net, broken, instant>>
      /\ end[Acceptor] = NoSession
  BY DEF Accept, TransferInv, Phases
<1>2. /\ Good(s, r, ns, nr, broken) /\ (IsEarly(s, conn) => Early(r, ns, nr))
      /\ end \in [Peers -> FileEnd] /\ net \in [Peers -> Seq(Packet)]
  BY Now
<1>3. f \in FileEnd
  BY NoSessionQuiet DEF FileEnd
<1>4. /\ f.status = "HELLO_WAIT" /\ f.isSend = NoSession.isSend
      /\ ~f.listener /\ f.open /\ ~f.file /\ ~f.writeEnabled /\ ~f.picking /\ f.unwritten = 0
      /\ f.fileSize = 0 /\ f.left = 0 /\ f.transfer_size = 0 /\ f.report = "none"
      /\ f.sendBuf = <<>>
  BY DEF NoSession
<1> HIDE DEF f
<1>5. AnyEnd(f) /\ \A M : f.sendBuf \in Seq(M)
  BY <1>3, <1>4 DEF AnyEnd, Untouched
<1>6. server \notin {"none", "TCP_REQUEST", "TCP_ACCEPT"} /\ ~broken
  BY <1>1 DEF TransferInv, Phases
<1>7. TransferTypeOK'
  <2>1. end' \in [Peers -> FileEnd]
    BY <1>1, <1>2, <1>3
  <2> QED
    BY <1>1, <2>1 DEF TransferInv, TransferTypeOK
<1>8. Phases'
  BY <1>1, <1>6 DEF TransferInv, Phases
<1>9. CASE Acceptor = Sender
  <2>1. end'[Sender] = f /\ end'[Receiver] = r
    BY <1>1, <1>2, <1>9, TwoUsers
  <2>2. Early(r, ns, nr)
    BY <1>1, <1>2, <1>9 DEF IsEarly
  <2>3. SenderEnd(f) /\ Flow(f, r, ns, nr) /\ Ready(f, r, ns, nr, broken)
    BY <1>2, <1>4, <1>5, <2>2 DEF SenderEnd, Good, Flow, Early, Ready, Accepted
  <2>4. NoneLost(f, r, nr, broken)
    BY <1>4, <2>2, UnitsNone DEF NoneLost, Early
  <2>5. Good(f, r, ns, nr, broken)
    BY <1>2, <2>3, <2>4 DEF Good
  <2> QED
    BY <1>1, <1>7, <1>8, <2>1, <2>2, <2>5 DEF TransferInv
<1>10. CASE Acceptor = Receiver
  <2>1. end'[Sender] = s /\ end'[Receiver] = f /\ r = NoSession
    BY <1>1, <1>2, <1>10, TwoUsers
  <2>2. /\ ~r.listener /\ r.fileSize = 0 /\ r.transfer_size = 0 /\ r.report = "none"
        /\ r.sendBuf = <<>> /\ r.unwritten = 0
    BY <2>1 DEF NoSession
  <2>3. ReceiverEnd(f)
    BY <1>4, <1>5 DEF ReceiverEnd
  <2>4. Flow(s, f, ns, nr)
    BY <1>2, <1>4 DEF Good, Flow
  <2>5. Ready(s, f, ns, nr, broken)
    BY <1>2, <1>4, <1>6, <2>2 DEF Good, Ready, Accepted
  <2>6. NoneLost(s, f, nr, broken)
    BY <1>2, <1>4, <2>2 DEF Good, NoneLost, Arrived
  <2>7. Good(s, f, ns, nr, broken)
    BY <1>2, <2>3, <2>4, <2>5, <2>6 DEF Good
  <2>8. Early(r, ns, nr) => Early(f, ns, nr)
    BY <1>4, <1>5 DEF Early, Arrived
  <2>9. (IsEarly(end[Sender], conn))' => IsEarly(s, conn)
    BY <1>1, <2>1 DEF IsEarly
  <2> QED
    BY <1>1, <1>2, <1>7, <1>8, <2>1, <2>7, <2>8, <2>9 DEF TransferInv
<1> QED
  BY <1>9, <1>10, TwoUsers DEF Peers

LEMMA NextHolds ==
  TransferInv /\ [TransferNext]_transferVars => TransferInv'
<1> SUFFICES ASSUME TransferInv, [TransferNext]_transferVars
             PROVE  TransferInv'
  OBVIOUS
<1>1. CASE UNCHANGED transferVars
  <2>1. UNCHANGED <<wall, server, conn, net, end, broken, instant>>
    BY <1>1 DEF transferVars
  <2>2. Acceptor' = Acceptor /\ Connector' = Connector
    BY <2>1 DEF Acceptor, Connector, Other
  <2>3. TransferTypeOK' /\ Phases'
    BY <2>1, <2>2 DEF TransferInv, TransferTypeOK, Phases
  <2>4. (Good(end[Sender], end[Receiver], net[Sender], net[Receiver], broken))'
    BY <2>1 DEF TransferInv
  <2>5. (IsEarly(end[Sender], conn) => Early(end[Receiver], net[Sender], net[Receiver]))'
    BY <2>1, <2>2 DEF TransferInv, IsEarly
  <2> QED
    BY <2>3, <2>4, <2>5 DEF TransferInv
<1>2. CASE SendTCPRequest \/ AcceptTCPRequest \/ OnTCPAccept
  BY <1>2, RequestSteps
<1>3. CASE Reach \/ Break \/ Accept
  BY <1>3, ReachStep, BreakStep, AcceptStep
<1>4. ASSUME NEW u \in Peers, Session(u) \/ Pick(u) \/ Stop(u)
      PROVE  TransferInv'
  <2>1. CASE OnSocketWrite(u)
    BY <2>1, SenderWrites, ReceiverWrites DEF Peers
  <2>2. CASE OnSocketException(u) \/ OnSocketRead(u) \/ OnClose(u) \/ Stop(u)
    BY <2>2, DisabledStep, ReadStep, CloseStep, StopStep
  <2>3. CASE Pick(u)
    BY <2>3, SenderPicks, ReceiverPicks DEF Peers
  <2> QED
    BY <1>4, <2>1, <2>2, <2>3 DEF Session
<1> QED
  BY <1>1, <1>2, <1>3, <1>4 DEF TransferNext

LEMMA InvSuffices == TransferInv => RolesAgree /\ ReceiverTruth /\ OnlyTailLost
<1> SUFFICES ASSUME TransferInv
             PROVE  RolesAgree /\ ReceiverTruth /\ OnlyTailLost
  OBVIOUS
<1> DEFINE s == end[Sender]
           r == end[Receiver]
<1>1. /\ TransferTypeOK /\ Good(s, r, net[Sender], net[Receiver], broken)
  BY DEF TransferInv
<1>2. RolesAgree
  BY <1>1, TwoUsers DEF RolesAgree, Good, SenderEnd, ReceiverEnd, Peers
<1>3. r.report = "success" => r.transfer_size = r.fileSize /\ r.fileSize \in {0, s.fileSize}
  BY <1>1 DEF Good, ReceiverEnd, Flow
<1>4. ReceiverTruth
  BY <1>3 DEF ReceiverTruth
<1>5. OnlyTailLost
  BY <1>1 DEF OnlyTailLost, Good, NoneLost, Arrived
<1> QED
  BY <1>2, <1>4, <1>5

\* Whichever of the two had to listen, an established session sends at the end of the
\* user who has the file and receives at the other one (SendFileDlg::onTCPAccept and
\* the hello of TCPSession).
THEOREM RolesAreOpposite ==
  TransferSpec => []RolesAgree
<1>1. TransferInit => TransferInv
  BY InitHolds
<1>2. TransferInv /\ [TransferNext]_transferVars => TransferInv'
  BY NextHolds
<1>3. TransferInv => RolesAgree
  BY InvSuffices
<1> QED
  BY <1>1, <1>2, <1>3, PTL DEF TransferSpec

\* A receiver whose dialog shows a success has as much as the sender's file holds, or
\* has not been told of a size (FileSession::onReceive and onClose compare what has come
\* with the size in the offer, which is 0 before there is one).
THEOREM SuccessIsTheFile ==
  TransferSpec => []ReceiverTruth
<1>1. TransferInit => TransferInv
  BY InitHolds
<1>2. TransferInv /\ [TransferNext]_transferVars => TransferInv'
  BY NextHolds
<1>3. TransferInv => ReceiverTruth
  BY InvSuffices
<1> QED
  BY <1>1, <1>2, <1>3, PTL DEF TransferSpec

\* When the sender's dialog shows a success, the receiver has, or has on its way, all
\* but a last short chunk, unless the connection broke or the receiver's user stopped
\* the transfer (FileSession::onSend destroys the session with that chunk in its
\* buffer, and nothing that was written before gets lost).
THEOREM LostIsTheTail ==
  TransferSpec => []OnlyTailLost
<1>1. TransferInit => TransferInv
  BY InitHolds
<1>2. TransferInv /\ [TransferNext]_transferVars => TransferInv'
  BY NextHolds
<1>3. TransferInv => OnlyTailLost
  BY InvSuffices
<1> QED
  BY <1>1, <1>2, <1>3, PTL DEF TransferSpec
=============================================================================
