---------------------------- MODULE C2S_proofs ----------------------------
(***************************************************************************)
(* The views that the c2s front end keeps of one session agree, nothing    *)
(* outlives its expiry, and what is announced of the sessions is exact:    *)
(* proofs for any number of clients, servers and packets, and any timeouts.*)
(***************************************************************************)
EXTENDS C2S, ChainLemmas

(***************************************************************************)
(* The inductive invariant, in parts that are operators of the table of    *)
(* sessions t, the list l, the packets p and the counts, for the actions   *)
(* that change them in several steps.                                      *)
(***************************************************************************)

\* Only a user who is online has a name and a server.
Table(t) ==
  /\ DOMAIN t \subseteq Addrs
  /\ \A a \in DOMAIN t :
       /\ t[a] \in Session
       /\ IF t[a].online THEN t[a].user \in Users
                         ELSE t[a].user = NoUser /\ t[a].server = NoServer

\* sessionList holds each session once, the first to expire first.
ByExpiry(t, l) ==
  /\ Chain(Addrs, l, DOMAIN t)
  /\ \A i, j \in 1 .. Len(l) : i < j => t[l[i]].ttl <= t[l[j]].ttl
  /\ \A a \in DOMAIN t : t[a].ttl <= KA_TIMEOUT

\* The packets in C2S::sendQueue of the session of a.
Unacked(p, a) == {p[i].seq : i \in {k \in 1 .. Len(p) : p[k].addr = a}}

\* No packet is in C2S::sendQueue twice.
Distinct(p) ==
  \A i, j \in 1 .. Len(p) : p[i].addr = p[j].addr /\ p[i].seq = p[j].seq => i = j

\* C2S::sendQueue holds each packet of each session's queue once.
Queued(t, p) ==
  /\ p \in Seq(Packet)
  /\ Distinct(p)
  /\ \A i \in 1 .. Len(p) : p[i].addr \in DOMAIN t
  /\ \A a \in DOMAIN t : Chain(Seqs, t[a].queue, Unacked(p, a))

\* C2S::sendQueue has the packet first that is due first.
ByDue(p) ==
  /\ \A i, j \in 1 .. Len(p) : i < j => p[i].ttl <= p[j].ttl
  /\ \A i \in 1 .. Len(p) : p[i].ttl <= SEND_TIMEOUT

Views(t, l, p) == Table(t) /\ ByExpiry(t, l) /\ Queued(t, p) /\ ByDue(p)

Running(t, p) ==
  /\ \A a \in DOMAIN t : t[a].ttl > 0
  /\ \A i \in 1 .. Len(p) : p[i].ttl > 0

\* The sessions that server s was told of under the name u.
Routed(t, s, u) == {a \in DOMAIN t : t[a].server = s /\ t[a].user = u}
Online(t) == {a \in DOMAIN t : t[a].online}

Counted(t, n, told) ==
  /\ told \in [Servers -> [Users -> Int]]
  /\ \A s \in Servers, u \in Users : told[s][u] = Cardinality(Routed(t, s, u))
  /\ n = Cardinality(Online(t))

\* No pointer to a server that has gone.
Connected(t) ==
  /\ Chain(Servers, serverList, ToSet(serverList))
  /\ curServer \in ToSet(serverList) \cup {NoServer}
  /\ \A a \in DOMAIN t : t[a].server \in ToSet(serverList) \cup {NoServer}

IInv ==
  /\ Views(sessions, sessionList, sendQueue)
  /\ Running(sessions, sendQueue)
  /\ Counted(sessions, numSessions, announced)
  /\ Connected(sessions)

-----------------------------------------------------------------------------
(***************************************************************************)
(* Packets that move.                                                      *)
(***************************************************************************)

\* r holds the packets of p at the places K, moved and with other times.
Moved(r, p, K, m) ==
  /\ m \in [1 .. Len(r) -> K]
  /\ \A i \in 1 .. Len(r) : r[i].addr = p[m[i]].addr /\ r[i].seq = p[m[i]].seq
  /\ \A i, j \in 1 .. Len(r) : m[i] = m[j] => i = j
  /\ \A k \in K : \E i \in 1 .. Len(r) : m[i] = k

LEMMA MovedPackets ==
  ASSUME NEW p, NEW r, NEW K \in SUBSET (1 .. Len(p)), NEW m, Moved(r, p, K, m), Distinct(p)
  PROVE  /\ Distinct(r)
         /\ \A a : Unacked(r, a) =
              Unacked(p, a) \ {p[k].seq : k \in {j \in (1 .. Len(p)) \ K : p[j].addr = a}}
<1>1. /\ \A i \in 1 .. Len(r) : /\ m[i] \in K /\ m[i] \in 1 .. Len(p)
                                /\ r[i].addr = p[m[i]].addr /\ r[i].seq = p[m[i]].seq
      /\ \A i, j \in 1 .. Len(r) : m[i] = m[j] => i = j
      /\ \A k \in K : \E i \in 1 .. Len(r) : m[i] = k
  BY DEF Moved
<1>2. Distinct(r)
  <2> SUFFICES ASSUME NEW i \in 1 .. Len(r), NEW j \in 1 .. Len(r),
                      r[i].addr = r[j].addr, r[i].seq = r[j].seq
               PROVE  i = j
    BY DEF Distinct
  <2>1. /\ m[i] \in 1 .. Len(p) /\ m[j] \in 1 .. Len(p)
        /\ p[m[i]].addr = p[m[j]].addr /\ p[m[i]].seq = p[m[j]].seq
    BY <1>1
  <2>2. m[i] = m[j]
    BY <2>1 DEF Distinct
  <2> QED
    BY <1>1, <2>2
<1>3. ASSUME NEW a
      PROVE  Unacked(r, a) =
               Unacked(p, a) \ {p[k].seq : k \in {j \in (1 .. Len(p)) \ K : p[j].addr = a}}
  <2> DEFINE lost == {p[k].seq : k \in {j \in (1 .. Len(p)) \ K : p[j].addr = a}}
  <2>1. ASSUME NEW q \in Unacked(r, a)
        PROVE  q \in Unacked(p, a) /\ q \notin lost
    <3>1. PICK i \in 1 .. Len(r) : r[i].addr = a /\ r[i].seq = q
      BY DEF Unacked
    <3>2. m[i] \in K /\ m[i] \in 1 .. Len(p) /\ p[m[i]].addr = a /\ p[m[i]].seq = q
      BY <1>1, <3>1
    <3>3. ASSUME NEW k \in (1 .. Len(p)) \ K, p[k].addr = a, p[k].seq = q
          PROVE  FALSE
      BY <3>2, <3>3 DEF Distinct
    <3> QED
      BY <3>2, <3>3 DEF Unacked
  <2>2. ASSUME NEW q \in Unacked(p, a), q \notin lost
        PROVE  q \in Unacked(r, a)
    <3>1. PICK k \in 1 .. Len(p) : p[k].addr = a /\ p[k].seq = q
      BY DEF Unacked
    <3>2. k \in K
      BY <2>2, <3>1
    <3>3. PICK i \in 1 .. Len(r) : m[i] = k
      BY <1>1, <3>2
    <3>4. r[i].addr = a /\ r[i].seq = q
      BY <1>1, <3>1, <3>3
    <3> QED
      BY <3>4 DEF Unacked
  <2> QED
    BY <2>1, <2>2
<1> QED
  BY <1>2, <1>3

\* Packets that leave C2S::sendQueue.
LEMMA WithoutPackets ==
  ASSUME NEW p \in Seq(Packet), NEW T, Distinct(p), ByDue(p)
  PROVE  /\ Without(p, T) \in Seq(Packet)
         /\ Distinct(Without(p, T)) /\ ByDue(Without(p, T))
         /\ \A i \in 1 .. Len(Without(p, T)) : \E k \in 1 .. Len(p) :
              Without(p, T)[i] = p[k] /\ p[k] \notin T
         /\ \A a : Unacked(Without(p, T), a) =
              Unacked(p, a) \ {p[k].seq : k \in {j \in 1 .. Len(p) : p[j] \in T /\ p[j].addr = a}}
<1> DEFINE w == Without(p, T)
           K == {k \in 1 .. Len(p) : p[k] \notin T}
<1>1. w \in Seq(Packet) /\ Len(p) \in Nat
  BY WithoutKeeps
<1>2. PICK h : Kept(w, p, T, h)
  BY WithoutKeeps
<1>3. Len(w) \in Nat
  BY <1>1
<1> HIDE DEF w
<1>4. /\ \A i \in 1 .. Len(w) : h[i] \in 1 .. Len(p) /\ w[i] = p[h[i]] /\ w[i] \notin T
      /\ \A i, j \in 1 .. Len(w) : i < j => h[i] < h[j]
      /\ \A k \in 1 .. Len(p) : p[k] \notin T => \E i \in 1 .. Len(w) : h[i] = k
  BY <1>2 DEF Kept
<1>5. Moved(w, p, K, h)
  <2>1. h \in [1 .. Len(w) -> K]
    BY <1>2, <1>4 DEF Kept
  <2>2. ASSUME NEW i \in 1 .. Len(w), NEW j \in 1 .. Len(w), h[i] = h[j]
        PROVE  i = j
    <3>1. h[i] \in Int /\ h[j] \in Int /\ i \in Int /\ j \in Int
      BY <1>4
    <3>2. ~(i < j) /\ ~(j < i)
      BY <1>4, <2>2, <3>1
    <3> QED
      BY <3>1, <3>2
  <2> QED
    BY <1>4, <2>1, <2>2 DEF Moved
<1>6. /\ Distinct(w)
      /\ \A a : Unacked(w, a) =
           Unacked(p, a) \ {p[k].seq : k \in {j \in (1 .. Len(p)) \ K : p[j].addr = a}}
  <2>1. K \in SUBSET (1 .. Len(p))
    OBVIOUS
  <2> HIDE DEF K
  <2> QED
    BY <1>5, <2>1, MovedPackets
<1>7. ASSUME NEW a
      PROVE  {j \in (1 .. Len(p)) \ K : p[j].addr = a}
               = {j \in 1 .. Len(p) : p[j] \in T /\ p[j].addr = a}
  OBVIOUS
<1>8. ByDue(w)
  <2>1. ASSUME NEW i \in 1 .. Len(w), NEW j \in 1 .. Len(w), i < j
        PROVE  w[i].ttl <= w[j].ttl
    <3>1. h[i] \in 1 .. Len(p) /\ h[j] \in 1 .. Len(p) /\ h[i] < h[j]
      BY <1>4, <2>1
    <3> QED
      BY <1>4, <3>1 DEF ByDue
  <2>2. ASSUME NEW i \in 1 .. Len(w)
        PROVE  w[i].ttl <= SEND_TIMEOUT
    BY <1>4 DEF ByDue
  <2> QED
    BY <2>1, <2>2 DEF ByDue
<1>9. \A a : Unacked(w, a) =
        Unacked(p, a) \ {p[k].seq : k \in {j \in 1 .. Len(p) : p[j] \in T /\ p[j].addr = a}}
  BY <1>6, <1>7
<1>10. \A i \in 1 .. Len(w) : \E k \in 1 .. Len(p) : w[i] = p[k] /\ p[k] \notin T
  BY <1>4
<1> QED
  BY <1>1, <1>6, <1>8, <1>9, <1>10 DEF w

-----------------------------------------------------------------------------
(***************************************************************************)
(* Sessions that go: ~Session.                                             *)
(***************************************************************************)

\* Sessions that leave the list.
LEMMA WithoutSessions ==
  ASSUME NEW t, NEW l, NEW gone, ByExpiry(t, l)
  PROVE  ByExpiry(Restrict(t, DOMAIN t \ gone), Without(l, gone))
<1> DEFINE w == Without(l, gone)
           u == Restrict(t, DOMAIN t \ gone)
<1>1. l \in Seq(Addrs) /\ Chain(Addrs, l, DOMAIN t)
  BY DEF ByExpiry, Chain
<1>2. DOMAIN u = DOMAIN t \ gone /\ \A a \in DOMAIN u : u[a] = t[a]
  BY DEF Restrict
<1>3. Chain(Addrs, w, DOMAIN u)
  BY <1>1, <1>2, WithoutChain
<1>4. PICK h : Kept(w, l, gone, h)
  BY <1>1, WithoutKeeps
<1> HIDE DEF w, u
<1>5. /\ \A i \in 1 .. Len(w) : h[i] \in 1 .. Len(l) /\ w[i] = l[h[i]] /\ w[i] \in DOMAIN u
      /\ \A i, j \in 1 .. Len(w) : i < j => h[i] < h[j]
  <2>1. \A i \in 1 .. Len(w) : w[i] \in DOMAIN u
    BY <1>3 DEF Chain, ToSet
  <2> QED
    BY <1>4, <2>1 DEF Kept
<1>6. ASSUME NEW i \in 1 .. Len(w), NEW j \in 1 .. Len(w), i < j
      PROVE  u[w[i]].ttl <= u[w[j]].ttl
  <2>1. h[i] \in 1 .. Len(l) /\ h[j] \in 1 .. Len(l) /\ h[i] < h[j]
    BY <1>5, <1>6
  <2>2. t[l[h[i]]].ttl <= t[l[h[j]]].ttl
    BY <2>1 DEF ByExpiry
  <2> QED
    BY <1>2, <1>5, <2>2
<1> QED
  BY <1>2, <1>3, <1>6 DEF ByExpiry, w, u

\* What ~Session leaves of the packets is what the other sessions have queued.
LEMMA PrunedQueue ==
  ASSUME NEW t, NEW p, NEW gone, Queued(t, p), ByDue(p)
  PROVE  LET u == Restrict(t, DOMAIN t \ gone)
             w == Without(p, PacketsOf(p, gone))
         IN  Queued(u, w) /\ ByDue(w)
<1> DEFINE T == PacketsOf(p, gone)
           w == Without(p, T)
           u == Restrict(t, DOMAIN t \ gone)
<1>1. p \in Seq(Packet) /\ Distinct(p) /\ Len(p) \in Nat /\ DOMAIN p = 1 .. Len(p)
  BY DEF Queued
<1>2. DOMAIN u = DOMAIN t \ gone /\ \A a \in DOMAIN u : u[a] = t[a]
  BY DEF Restrict
<1>3. \A k \in 1 .. Len(p) : p[k] \in T <=> p[k].addr \in gone
  BY <1>1 DEF PacketsOf, ToSet
<1> HIDE DEF T
<1>4. /\ w \in Seq(Packet) /\ Distinct(w) /\ ByDue(w)
      /\ \A i \in 1 .. Len(w) : \E k \in 1 .. Len(p) : w[i] = p[k] /\ p[k] \notin T
      /\ \A a : Unacked(w, a) =
           Unacked(p, a) \ {p[k].seq : k \in {j \in 1 .. Len(p) : p[j] \in T /\ p[j].addr = a}}
  BY <1>1, WithoutPackets
<1> HIDE DEF w, u
<1>5. \A i \in 1 .. Len(w) : w[i].addr \in DOMAIN u
  BY <1>2, <1>3, <1>4 DEF Queued
<1>6. ASSUME NEW a \in DOMAIN u
      PROVE  Chain(Seqs, u[a].queue, Unacked(w, a))
  <2>1. {j \in 1 .. Len(p) : p[j] \in T /\ p[j].addr = a} = {}
    BY <1>2, <1>3
  <2>2. Unacked(w, a) = Unacked(p, a)
    BY <1>4, <2>1
  <2> QED
    BY <1>2, <2>2 DEF Queued
<1> QED
  BY <1>4, <1>5, <1>6 DEF Queued, w, u, T

LEMMA PrunedViews ==
  ASSUME NEW t, NEW l, NEW p, NEW gone, Views(t, l, p)
  PROVE  Views(Restrict(t, DOMAIN t \ gone), Without(l, gone),
               Without(p, PacketsOf(p, gone)))
<1>1. Table(Restrict(t, DOMAIN t \ gone))
  BY DEF Views, Table, Restrict
<1> QED
  BY <1>1, WithoutSessions, PrunedQueue DEF Views

LEMMA PrunedRunning ==
  ASSUME NEW t, NEW p, NEW gone, Queued(t, p), ByDue(p),
         \A a \in DOMAIN t \ gone : t[a].ttl > 0,
         \A i \in 1 .. Len(p) : p[i].ttl > 0
  PROVE  Running(Restrict(t, DOMAIN t \ gone), Without(p, PacketsOf(p, gone)))
<1> DEFINE T == PacketsOf(p, gone)
           w == Without(p, T)
<1>1. \A i \in 1 .. Len(w) : \E k \in 1 .. Len(p) : w[i] = p[k]
  <2>1. p \in Seq(Packet) /\ Distinct(p)
    BY DEF Queued
  <2> HIDE DEF T
  <2> QED
    BY <2>1, WithoutPackets
<1> HIDE DEF w
<1>2. \A i \in 1 .. Len(w) : w[i].ttl > 0
  BY <1>1
<1> QED
  BY <1>2 DEF Running, Restrict, w

LEMMA FiniteTable ==
  ASSUME NEW t, NEW l, ByExpiry(t, l)
  PROVE  IsFiniteSet(DOMAIN t)
<1>1. l \in Seq(Addrs) /\ ToSet(l) = DOMAIN t /\ DOMAIN l = 1 .. Len(l) /\ Len(l) \in Nat
  BY DEF ByExpiry, Chain
<1>2. IsFiniteSet(1 .. Len(l))
  BY <1>1, FS_Interval
<1>3. l \in Surjection(1 .. Len(l), DOMAIN t)
  <2>1. l \in [1 .. Len(l) -> DOMAIN t]
    BY <1>1 DEF ToSet
  <2>2. \A a \in DOMAIN t : \E i \in 1 .. Len(l) : l[i] = a
    BY <1>1 DEF ToSet
  <2> QED
    BY <2>1, <2>2 DEF Surjection
<1> QED
  BY <1>2, <1>3, FS_Surjection

LEMMA PrunedCounts ==
  ASSUME NEW t, NEW n, NEW gone \in SUBSET DOMAIN t, IsFiniteSet(DOMAIN t),
         Counted(t, n, announced)
  PROVE  Counted(Restrict(t, DOMAIN t \ gone), n - Cardinality({a \in gone : t[a].online}),
                 Withdrawn(t, gone))
<1> DEFINE u == Restrict(t, DOMAIN t \ gone)
           told == Withdrawn(t, gone)
           Part(s, v) == {a \in gone : t[a].server = s /\ t[a].user = v}
<1>1. DOMAIN u = DOMAIN t \ gone /\ \A a \in DOMAIN u : u[a] = t[a]
  BY DEF Restrict
<1> HIDE DEF u
<1>2. ASSUME NEW s, NEW v
      PROVE  /\ Cardinality(Routed(t, s, v)) \in Nat /\ Cardinality(Part(s, v)) \in Nat
             /\ Cardinality(Routed(u, s, v))
                  = Cardinality(Routed(t, s, v)) - Cardinality(Part(s, v))
  <2> DEFINE part == Part(s, v)
             all == Routed(t, s, v)
  <2>1. all \in SUBSET DOMAIN t /\ part \in SUBSET DOMAIN t
    BY DEF Routed
  <2>2. /\ IsFiniteSet(all) /\ IsFiniteSet(part)
        /\ Cardinality(all) \in Nat /\ Cardinality(part) \in Nat
    BY <2>1, FS_Subset, FS_CardinalityType
  <2>3. Routed(u, s, v) = all \ part /\ all \cap part = part
    BY <1>1 DEF Routed
  <2> HIDE DEF part, all
  <2>4. Cardinality(all \ part) = Cardinality(all) - Cardinality(all \cap part)
    BY <2>2, FS_Difference
  <2> QED
    BY <2>2, <2>3, <2>4 DEF part, all
<1>3. n - Cardinality({a \in gone : t[a].online}) = Cardinality(Online(u))
  <2> DEFINE part == {a \in gone : t[a].online}
             all == Online(t)
  <2>1. all \in SUBSET DOMAIN t /\ part \in SUBSET DOMAIN t
    BY DEF Online
  <2>2. IsFiniteSet(all)
    BY <2>1, FS_Subset
  <2>3. Online(u) = all \ part /\ all \cap part = part
    BY <1>1 DEF Online
  <2> HIDE DEF part, all
  <2>4. Cardinality(all \ part) = Cardinality(all) - Cardinality(all \cap part)
    BY <2>2, FS_Difference
  <2> QED
    BY <2>3, <2>4 DEF Counted, part, all
<1>4. told = [s \in Servers |-> [v \in Users |-> announced[s][v] - Cardinality(Part(s, v))]]
  BY DEF Withdrawn
<1> HIDE DEF Part, told
<1>5. ASSUME NEW s \in Servers, NEW v \in Users
      PROVE  /\ announced[s][v] - Cardinality(Part(s, v)) \in Int
             /\ announced[s][v] - Cardinality(Part(s, v)) = Cardinality(Routed(u, s, v))
  <2>1. announced[s][v] \in Int /\ announced[s][v] = Cardinality(Routed(t, s, v))
    BY DEF Counted
  <2> QED
    BY <1>2, <2>1
<1>6. told \in [Servers -> [Users -> Int]]
  BY <1>4, <1>5
<1>7. \A s \in Servers, v \in Users : told[s][v] = Cardinality(Routed(u, s, v))
  BY <1>4, <1>5
<1> QED
  BY <1>3, <1>6, <1>7 DEF Counted, u, told

-----------------------------------------------------------------------------
(***************************************************************************)
(* What does not depend on the fields that a step changes.                 *)
(***************************************************************************)

LEMMA SameTimes ==
  ASSUME NEW t, NEW u, NEW l, ByExpiry(t, l), DOMAIN u = DOMAIN t,
         \A a \in DOMAIN t : u[a].ttl = t[a].ttl
  PROVE  ByExpiry(u, l)
<1>1. \A i \in 1 .. Len(l) : l[i] \in DOMAIN t
  BY DEF ByExpiry, Chain, ToSet
<1> QED
  BY <1>1 DEF ByExpiry

\* A session that is put at the end of the list expires last.
LEMMA AppendSession ==
  ASSUME NEW t, NEW u, NEW l, NEW a \in Addrs, ByExpiry(t, l), a \notin DOMAIN t,
         \A b \in DOMAIN t : t[b].ttl \in Int,
         DOMAIN u = DOMAIN t \cup {a}, u[a].ttl = KA_TIMEOUT,
         \A b \in DOMAIN t : u[b].ttl = t[b].ttl
  PROVE  ByExpiry(u, Append(l, a))
<1> DEFINE w == Append(l, a)
<1>1. /\ Chain(Addrs, l, DOMAIN t) /\ l \in Seq(Addrs)
      /\ DOMAIN l = 1 .. Len(l) /\ Len(l) \in Nat
  BY DEF ByExpiry, Chain
<1>2. Chain(Addrs, w, DOMAIN u)
  BY <1>1, AppendChain
<1>3. /\ Len(w) = Len(l) + 1 /\ w[Len(l) + 1] = a
      /\ \A i \in 1 .. Len(l) : w[i] = l[i]
  BY <1>1
<1> HIDE DEF w
<1>4. \A i \in 1 .. Len(l) : l[i] \in DOMAIN t
  BY <1>1 DEF Chain, ToSet
<1>5. \A b \in DOMAIN u : u[b].ttl <= KA_TIMEOUT /\ u[b].ttl \in Int
  BY C2SAssumption DEF ByExpiry
<1>6. ASSUME NEW i \in 1 .. Len(w), NEW j \in 1 .. Len(w), i < j
      PROVE  u[w[i]].ttl <= u[w[j]].ttl
  <2>1. i \in 1 .. Len(l)
    BY <1>1, <1>3, <1>6
  <2>2. CASE j \in 1 .. Len(l)
    <3>1. t[l[i]].ttl <= t[l[j]].ttl
      BY <1>6, <2>1, <2>2 DEF ByExpiry
    <3> QED
      BY <1>3, <1>4, <2>1, <2>2, <3>1
  <2>3. CASE j = Len(l) + 1
    BY <1>3, <1>4, <1>5, <2>1, <2>3
  <2> QED
    BY <1>1, <1>3, <2>2, <2>3
<1> QED
  BY <1>2, <1>5, <1>6 DEF ByExpiry, w

LEMMA SameQueues ==
  ASSUME NEW t, NEW u, NEW p, Queued(t, p), DOMAIN u = DOMAIN t,
         \A a \in DOMAIN t : u[a].queue = t[a].queue
  PROVE  Queued(u, p)
BY DEF Queued

LEMMA SameCounts ==
  ASSUME NEW t, NEW u, NEW n, NEW told, Counted(t, n, told), DOMAIN u = DOMAIN t,
         \A a \in DOMAIN t : /\ u[a].online = t[a].online /\ u[a].user = t[a].user
                             /\ u[a].server = t[a].server
  PROVE  Counted(u, n, told)
<1>1. \A s, v : Routed(u, s, v) = Routed(t, s, v)
  BY DEF Routed
<1>2. Online(u) = Online(t)
  BY DEF Online
<1> QED
  BY <1>1, <1>2 DEF Counted

-----------------------------------------------------------------------------
(***************************************************************************)
(* A session that is created.                                              *)
(***************************************************************************)

LEMMA Created ==
  ASSUME IInv, NEW a \in Addrs, NEW sid \in SIDs
  PROVE  /\ Views(TableWith(a, sid), ListWith(a), sendQueue)
         /\ Running(TableWith(a, sid), sendQueue)
         /\ Counted(TableWith(a, sid), numSessions, announced)
         /\ Connected(TableWith(a, sid))
         /\ a \in DOMAIN TableWith(a, sid)
<1> DEFINE t == TableWith(a, sid)
           l == ListWith(a)
<1>1. CASE a \in DOMAIN sessions
  BY <1>1 DEF IInv, TableWith, ListWith
<1>2. CASE a \notin DOMAIN sessions
  <2>1. /\ DOMAIN t = DOMAIN sessions \cup {a} /\ t[a] = NewSession(sid)
        /\ \A b \in DOMAIN sessions : t[b] = sessions[b] /\ b # a
    BY <1>2 DEF TableWith
  <2>2. l = Append(sessionList, a)
    BY <1>2 DEF ListWith
  <2>3. /\ NewSession(sid) \in Session
        /\ NewSession(sid).online = FALSE /\ NewSession(sid).user = NoUser
        /\ NewSession(sid).server = NoServer /\ NewSession(sid).ttl = KA_TIMEOUT
        /\ NewSession(sid).queue = <<>>
    <3>1. KA_TIMEOUT \in Int /\ 0 \in Seqs /\ <<>> \in Seq(Seqs)
      BY C2SAssumption DEF Seqs
    <3> QED
      BY <3>1, Zenon DEF NewSession, Session
  <2> HIDE DEF t, l
  <2>4. Table(t)
    BY <2>1, <2>3 DEF IInv, Views, Table
  <2>5. ByExpiry(t, l)
    <3>1. \A b \in DOMAIN sessions : sessions[b].ttl \in Int
      BY DEF IInv, Views, Table, Session
    <3> QED
      BY <1>2, <2>1, <2>2, <2>3, <3>1, AppendSession DEF IInv, Views
  <2>6. Queued(t, sendQueue)
    <3>1. \A i \in 1 .. Len(sendQueue) : sendQueue[i].addr \in DOMAIN sessions
      BY DEF IInv, Views, Queued
    <3>2. Unacked(sendQueue, a) = {}
      BY <1>2, <3>1 DEF Unacked
    <3>3. Chain(Seqs, <<>>, {})
      BY DEF Chain, IsInjective, ToSet
    <3> QED
      BY <2>1, <2>3, <3>1, <3>2, <3>3 DEF IInv, Views, Queued
  <2>7. Running(t, sendQueue)
    BY <2>1, <2>3, C2SAssumption DEF IInv, Running
  <2>8. Counted(t, numSessions, announced)
    <3>1. \A s \in Servers : \A v : Routed(t, s, v) = Routed(sessions, s, v)
      BY <2>1, <2>3, C2SAssumption DEF Routed
    <3>2. Online(t) = Online(sessions)
      BY <2>1, <2>3 DEF Online
    <3> QED
      BY <3>1, <3>2 DEF IInv, Counted
  <2>9. Connected(t)
    BY <2>1, <2>3 DEF IInv, Connected
  <2> QED
    BY <2>1, <2>4, <2>5, <2>6, <2>7, <2>8, <2>9 DEF IInv, Views, t, l
<1> QED
  BY <1>1, <1>2

-----------------------------------------------------------------------------
(***************************************************************************)
(* A packet that is sent: Session::deliver.                                *)
(***************************************************************************)

LEMMA NextSeqType ==
  ASSUME NEW t, NEW a \in DOMAIN t, Table(t)
  PROVE  NextSeq(t, a) \in Seqs
<1>1. t[a].sendSeq \in 0 .. SEQ_SPACE - 1
  BY DEF Table, Session, Seqs
<1>2. SEQ_SPACE \in Nat /\ SEQ_SPACE > 0
  BY C2SAssumption
<1> DEFINE x == t[a].sendSeq + 1
<1>3. x \in Nat
  BY <1>1, <1>2
<1> HIDE DEF x
<1>4. x % SEQ_SPACE \in 0 .. SEQ_SPACE - 1
  BY <1>2, <1>3
<1> QED
  BY <1>4 DEF NextSeq, Seqs, x

LEMMA DeliveredTable ==
  ASSUME NEW t, NEW a \in DOMAIN t, NEW ok \in BOOLEAN, Table(t)
  PROVE  LET u == Delivered(t, a, ok)
         IN  /\ DOMAIN u = DOMAIN t
             /\ \A b \in DOMAIN t :
                  /\ u[b].online = t[b].online /\ u[b].user = t[b].user
                  /\ u[b].server = t[b].server /\ u[b].ttl = t[b].ttl
                  /\ u[b].queue = IF b = a /\ ok THEN Append(t[a].queue, NextSeq(t, a))
                                  ELSE t[b].queue
             /\ Table(u)
<1> DEFINE u == Delivered(t, a, ok)
           q == IF ok THEN Append(t[a].queue, NextSeq(t, a)) ELSE t[a].queue
<1>1. /\ DOMAIN u = DOMAIN t
      /\ \A b \in DOMAIN t : b # a => u[b] = t[b]
      /\ u[a] = [t[a] EXCEPT !.sendSeq = NextSeq(t, a), !.queue = q]
  BY DEF Delivered
<1>2. q \in Seq(Seqs) /\ NextSeq(t, a) \in Seqs
  <2>1. t[a].queue \in Seq(Seqs)
    BY DEF Table, Session
  <2> QED
    BY <2>1, NextSeqType
<1>3. t[a] \in Session
  BY DEF Table
<1>4. u[a] = [sid |-> t[a].sid, online |-> t[a].online, user |-> t[a].user,
              server |-> t[a].server, ttl |-> t[a].ttl,
              sendSeq |-> NextSeq(t, a), queue |-> q]
  BY <1>1, <1>3 DEF Session
<1>5. u[a] \in Session
  <2>1. /\ t[a].sid \in SIDs /\ t[a].online \in BOOLEAN /\ t[a].user \in Users \cup {NoUser}
        /\ t[a].server \in Servers \cup {NoServer} /\ t[a].ttl \in Int
    BY <1>3 DEF Session
  <2> HIDE DEF u, q
  <2>2. [sid |-> t[a].sid, online |-> t[a].online, user |-> t[a].user,
          server |-> t[a].server, ttl |-> t[a].ttl,
          sendSeq |-> NextSeq(t, a), queue |-> q] \in Session
    BY <1>2, <2>1, Zenon DEF Session
  <2> QED
    BY <1>4, <2>2
<1> HIDE DEF u
<1>6. /\ u[a].online = t[a].online /\ u[a].user = t[a].user
      /\ u[a].server = t[a].server /\ u[a].ttl = t[a].ttl /\ u[a].queue = q
  BY <1>4
<1>7. Table(u)
  BY <1>1, <1>5, <1>6 DEF Table
<1> QED
  BY <1>1, <1>6, <1>7 DEF u

LEMMA Sending ==
  ASSUME NEW t, NEW l, NEW p, NEW a \in DOMAIN t, NEW ok \in BOOLEAN,
         Views(t, l, p), Running(t, p), Room(t, a)
  PROVE  /\ Views(Delivered(t, a, ok), l, p \o Sent(t, a, ok))
         /\ Running(Delivered(t, a, ok), p \o Sent(t, a, ok))
<1> DEFINE u == Delivered(t, a, ok)
           w == p \o Sent(t, a, ok)
           seq == NextSeq(t, a)
<1>1. /\ DOMAIN u = DOMAIN t /\ Table(u)
      /\ \A b \in DOMAIN t :
           /\ u[b].ttl = t[b].ttl
           /\ u[b].queue = IF b = a /\ ok THEN Append(t[a].queue, seq) ELSE t[b].queue
  BY DeliveredTable DEF Views
<1>2. p \in Seq(Packet) /\ Len(p) \in Nat
  BY DEF Views, Queued
<1> HIDE DEF u
<1>3. ByExpiry(u, l)
  BY <1>1, SameTimes DEF Views
<1>4. CASE ~ok
  <2>1. w = p
    BY <1>2, <1>4 DEF Sent
  <2>2. Queued(u, p)
    BY <1>1, <1>4, SameQueues DEF Views
  <2> QED
    BY <1>1, <1>3, <2>1, <2>2 DEF Views, Running, u
<1>5. CASE ok
  <2> DEFINE new == [addr |-> a, seq |-> seq, attempts |-> MAX_SEND_ATTEMPTS,
                     ttl |-> SEND_TIMEOUT]
  <2>1. new \in Packet
    <3>1. /\ a \in Addrs /\ seq \in Seqs
          /\ MAX_SEND_ATTEMPTS \in 0 .. MAX_SEND_ATTEMPTS /\ SEND_TIMEOUT \in Int
      BY NextSeqType, C2SAssumption DEF Views, Table
    <3> HIDE DEF seq
    <3> QED
      BY <3>1, Zenon DEF Packet
  <2>2. new.addr = a /\ new.seq = seq /\ new.ttl = SEND_TIMEOUT
    OBVIOUS
  <2>3. w = p \o <<new>>
    BY <1>5 DEF Sent
  <2> HIDE DEF new, w
  <2>4. /\ w \in Seq(Packet) /\ Len(w) = Len(p) + 1
        /\ \A i \in 1 .. Len(p) : w[i] = p[i]
        /\ w[Len(p) + 1] = new
    BY <1>2, <2>1, <2>3
  <2>5. Chain(Seqs, t[a].queue, Unacked(p, a)) /\ seq \in Seqs
    BY NextSeqType DEF Views, Queued
  <2>6. seq \notin Unacked(p, a)
    <3>1. t[a].queue \in Seq(Seqs) /\ DOMAIN t[a].queue = 1 .. Len(t[a].queue)
      BY <2>5 DEF Chain
    <3>2. seq \notin ToSet(t[a].queue)
      BY <3>1 DEF Room, Contains, ToSet
    <3> QED
      BY <2>5, <3>2 DEF Chain
  <2> HIDE DEF seq
  <2>7. Queued(u, w)
    <3>1. ASSUME NEW i \in 1 .. Len(w), NEW j \in 1 .. Len(w),
                 w[i].addr = w[j].addr, w[i].seq = w[j].seq
          PROVE  i = j
      <4>1. \A k \in 1 .. Len(p) : ~(p[k].addr = a /\ p[k].seq = seq)
        BY <2>6 DEF Unacked
      <4>2. CASE i \in 1 .. Len(p) /\ j \in 1 .. Len(p)
        BY <2>4, <3>1, <4>2 DEF Views, Queued, Distinct
      <4>3. CASE i = Len(p) + 1 \/ j = Len(p) + 1
        BY <1>2, <2>2, <2>4, <3>1, <4>1, <4>3
      <4> QED
        BY <1>2, <2>4, <4>2, <4>3
    <3>2. \A i \in 1 .. Len(w) : w[i].addr \in DOMAIN u
      <4> SUFFICES ASSUME NEW i \in 1 .. Len(w)
                   PROVE  w[i].addr \in DOMAIN u
        OBVIOUS
      <4>1. CASE i \in 1 .. Len(p)
        BY <1>1, <2>4, <4>1 DEF Views, Queued
      <4>2. CASE i = Len(p) + 1
        BY <1>1, <2>2, <2>4, <4>2
      <4> QED
        BY <1>2, <2>4, <4>1, <4>2
    <3>3. Unacked(w, a) = Unacked(p, a) \cup {seq}
      <4>1. \A q \in Unacked(w, a) : q \in Unacked(p, a) \/ q = seq
        <5> SUFFICES ASSUME NEW i \in 1 .. Len(w), w[i].addr = a
                     PROVE  w[i].seq \in Unacked(p, a) \/ w[i].seq = seq
          BY DEF Unacked
        <5>1. CASE i \in 1 .. Len(p)
          BY <2>4, <5>1 DEF Unacked
        <5>2. CASE i = Len(p) + 1
          BY <2>2, <2>4, <5>2
        <5> QED
          BY <1>2, <2>4, <5>1, <5>2
      <4>2. Unacked(p, a) \subseteq Unacked(w, a)
        <5> SUFFICES ASSUME NEW i \in 1 .. Len(p), p[i].addr = a
                     PROVE  p[i].seq \in Unacked(w, a)
          BY DEF Unacked
        <5>1. i \in 1 .. Len(w) /\ w[i] = p[i]
          BY <1>2, <2>4
        <5> QED
          BY <5>1 DEF Unacked
      <4>3. seq \in Unacked(w, a)
        <5>1. Len(p) + 1 \in 1 .. Len(w) /\ w[Len(p) + 1].addr = a /\ w[Len(p) + 1].seq = seq
          BY <1>2, <2>2, <2>4
        <5> QED
          BY <5>1 DEF Unacked
      <4> QED
        BY <4>1, <4>2, <4>3
    <3>4. ASSUME NEW b \in DOMAIN t, b # a
          PROVE  Unacked(w, b) = Unacked(p, b)
      <4>1. ASSUME NEW q \in Unacked(w, b)
            PROVE  q \in Unacked(p, b)
        <5>1. PICK i \in 1 .. Len(w) : w[i].addr = b /\ w[i].seq = q
          BY DEF Unacked
        <5>2. i \in 1 .. Len(p)
          BY <1>2, <2>2, <2>4, <3>4, <5>1
        <5> QED
          BY <2>4, <5>1, <5>2 DEF Unacked
      <4>2. ASSUME NEW q \in Unacked(p, b)
            PROVE  q \in Unacked(w, b)
        <5>1. PICK i \in 1 .. Len(p) : p[i].addr = b /\ p[i].seq = q
          BY DEF Unacked
        <5>2. i \in 1 .. Len(w) /\ w[i] = p[i]
          BY <1>2, <2>4
        <5> QED
          BY <5>1, <5>2 DEF Unacked
      <4> QED
        BY <4>1, <4>2
    <3>5. Chain(Seqs, u[a].queue, Unacked(w, a))
      BY <1>1, <1>5, <2>5, <2>6, <3>3, AppendChain
    <3>6. \A b \in DOMAIN u : Chain(Seqs, u[b].queue, Unacked(w, b))
      BY <1>1, <3>4, <3>5 DEF Views, Queued
    <3> QED
      BY <2>4, <3>1, <3>2, <3>6 DEF Queued, Distinct
  <2>8. \A i \in 1 .. Len(p) : p[i].ttl \in Int
    <3> SUFFICES ASSUME NEW i \in 1 .. Len(p)
                 PROVE  p[i].ttl \in Int
      OBVIOUS
    <3>1. p[i] \in Packet
      BY <1>2
    <3> QED
      BY <3>1 DEF Packet
  <2>9. ByDue(w)
    <3>1. ASSUME NEW i \in 1 .. Len(w), NEW j \in 1 .. Len(w), i < j
          PROVE  w[i].ttl <= w[j].ttl
      <4>1. i \in 1 .. Len(p)
        BY <1>2, <2>4, <3>1
      <4>2. CASE j \in 1 .. Len(p)
        BY <2>4, <3>1, <4>1, <4>2 DEF Views, ByDue
      <4>3. CASE j = Len(p) + 1
        BY <2>2, <2>4, <4>1, <4>3 DEF Views, ByDue
      <4> QED
        BY <1>2, <2>4, <4>2, <4>3
    <3>2. ASSUME NEW i \in 1 .. Len(w)
          PROVE  w[i].ttl <= SEND_TIMEOUT
      <4>1. CASE i \in 1 .. Len(p)
        BY <2>4, <4>1 DEF Views, ByDue
      <4>2. CASE i = Len(p) + 1
        BY <2>2, <2>4, <4>2, C2SAssumption
      <4> QED
        BY <1>2, <2>4, <4>1, <4>2
    <3> QED
      BY <3>1, <3>2 DEF ByDue
  <2>10. Running(u, w)
    <3>1. ASSUME NEW i \in 1 .. Len(w)
          PROVE  w[i].ttl > 0
      <4>1. CASE i \in 1 .. Len(p)
        BY <2>4, <4>1 DEF Running
      <4>2. CASE i = Len(p) + 1
        BY <2>2, <2>4, <4>2, C2SAssumption
      <4> QED
        BY <1>2, <2>4, <4>1, <4>2
    <3> QED
      BY <1>1, <3>1 DEF Running
  <2> QED
    BY <1>1, <1>3, <2>7, <2>9, <2>10 DEF Views, u, w
<1> QED
  BY <1>4, <1>5

-----------------------------------------------------------------------------
(***************************************************************************)
(* Packets from clients.                                                   *)
(***************************************************************************)

\* ~Session, of sessions that are the only ones that may have expired.
LEMMA DestroyKeeps ==
  ASSUME NEW t, NEW l, NEW p, NEW gone \in SUBSET DOMAIN t, Views(t, l, p),
         \A a \in DOMAIN t \ gone : t[a].ttl > 0,
         \A i \in 1 .. Len(p) : p[i].ttl > 0,
         Counted(t, numSessions, announced), Connected(t),
         Destroy(gone, t, l, p), UNCHANGED serverVars
  PROVE  IInv'
<1>1. /\ sessions' = Restrict(t, DOMAIN t \ gone) /\ sessionList' = Without(l, gone)
      /\ sendQueue' = Without(p, PacketsOf(p, gone))
      /\ numSessions' = numSessions - Cardinality({a \in gone : t[a].online})
      /\ announced' = Withdrawn(t, gone)
  BY DEF Destroy
<1>2. Views(sessions', sessionList', sendQueue')
  BY <1>1, PrunedViews
<1>3. Running(sessions', sendQueue')
  BY <1>1, PrunedRunning DEF Views
<1>4. Counted(sessions', numSessions', announced')
  <2>1. IsFiniteSet(DOMAIN t)
    BY FiniteTable DEF Views
  <2> QED
    BY <1>1, <2>1, PrunedCounts
<1>5. Connected(sessions)'
  <2>1. serverList' = serverList /\ curServer' = curServer
    BY DEF serverVars
  <2>2. /\ DOMAIN sessions' = DOMAIN t \ gone
        /\ \A a \in DOMAIN sessions' : sessions'[a] = t[a]
    BY <1>1 DEF Restrict
  <2> QED
    BY <2>1, <2>2 DEF Connected
<1> QED
  BY <1>2, <1>3, <1>4, <1>5 DEF IInv

LEMMA OnIgnoredKeeps ==
  ASSUME IInv, NEW a \in Addrs, NEW sid \in SIDs, OnIgnored(a, sid)
  PROVE  IInv'
<1>1. /\ sessions' = TableWith(a, sid) /\ sessionList' = ListWith(a)
      /\ sendQueue' = sendQueue /\ numSessions' = numSessions /\ announced' = announced
      /\ serverList' = serverList /\ curServer' = curServer
  BY DEF OnIgnored, serverVars
<1>2. /\ Views(sessions', sessionList', sendQueue') /\ Running(sessions', sendQueue')
      /\ Counted(sessions', numSessions', announced') /\ Connected(sessions')
  BY <1>1, Created
<1>3. Connected(sessions)'
  BY <1>1, <1>2 DEF Connected
<1> QED
  BY <1>2, <1>3 DEF IInv

LEMMA OnRefusedOrRegisterKeeps ==
  ASSUME IInv, NEW a \in Addrs, NEW sid \in SIDs, NEW ok \in BOOLEAN,
         OnRefusedOrRegister(a, sid, ok)
  PROVE  IInv'
<1> DEFINE t == TableWith(a, sid)
<1>1. /\ Room(t, a) /\ sessions' = Delivered(t, a, ok) /\ sessionList' = ListWith(a)
      /\ sendQueue' = sendQueue \o Sent(t, a, ok)
      /\ numSessions' = numSessions /\ announced' = announced
      /\ serverList' = serverList /\ curServer' = curServer
  BY DEF OnRefusedOrRegister, serverVars
<1>2. /\ Views(t, ListWith(a), sendQueue) /\ Running(t, sendQueue)
      /\ Counted(t, numSessions, announced) /\ Connected(t) /\ a \in DOMAIN t
  BY Created
<1> HIDE DEF t
<1>3. Views(sessions', sessionList', sendQueue') /\ Running(sessions', sendQueue')
  BY <1>1, <1>2, Sending
<1>4. /\ DOMAIN sessions' = DOMAIN t
      /\ \A b \in DOMAIN t : /\ sessions'[b].online = t[b].online
                             /\ sessions'[b].user = t[b].user
                             /\ sessions'[b].server = t[b].server
  <2> DEFINE u == Delivered(t, a, ok)
  <2>1. Table(t)
    BY <1>2 DEF Views
  <2>2. /\ DOMAIN u = DOMAIN t
        /\ \A b \in DOMAIN t : /\ u[b].online = t[b].online /\ u[b].user = t[b].user
                               /\ u[b].server = t[b].server
    BY <1>2, <2>1, DeliveredTable
  <2> HIDE DEF u
  <2>3. sessions' = u
    BY <1>1 DEF u
  <2> QED
    BY <2>2, <2>3
<1>5. Counted(sessions', numSessions', announced')
  BY <1>1, <1>2, <1>4, SameCounts
<1>6. Connected(sessions)'
  BY <1>1, <1>2, <1>4 DEF Connected
<1> QED
  BY <1>3, <1>5, <1>6 DEF IInv

LEMMA OnServerPacketKeeps ==
  ASSUME IInv, NEW a \in DOMAIN sessions, NEW ok \in BOOLEAN, OnServerPacket(a, ok)
  PROVE  IInv'
<1>1. /\ Room(sessions, a) /\ sessions' = Delivered(sessions, a, ok)
      /\ sessionList' = sessionList
      /\ sendQueue' = sendQueue \o Sent(sessions, a, ok)
      /\ numSessions' = numSessions /\ announced' = announced
      /\ serverList' = serverList /\ curServer' = curServer
  BY DEF OnServerPacket, serverVars
<1>2. Views(sessions', sessionList', sendQueue') /\ Running(sessions', sendQueue')
  BY <1>1, Sending DEF IInv
<1>3. /\ DOMAIN sessions' = DOMAIN sessions
      /\ \A b \in DOMAIN sessions : /\ sessions'[b].online = sessions[b].online
                                    /\ sessions'[b].user = sessions[b].user
                                    /\ sessions'[b].server = sessions[b].server
  <2> DEFINE u == Delivered(sessions, a, ok)
  <2>1. Table(sessions)
    BY DEF IInv, Views
  <2>2. /\ DOMAIN u = DOMAIN sessions
        /\ \A b \in DOMAIN sessions : /\ u[b].online = sessions[b].online /\ u[b].user = sessions[b].user
                               /\ u[b].server = sessions[b].server
    BY <2>1, DeliveredTable
  <2> HIDE DEF u
  <2>3. sessions' = u
    BY <1>1 DEF u
  <2> QED
    BY <2>2, <2>3
<1>4. Counted(sessions', numSessions', announced')
  BY <1>1, <1>3, SameCounts DEF IInv
<1>5. Connected(sessions)'
  BY <1>1, <1>3 DEF IInv, Connected
<1> QED
  BY <1>2, <1>4, <1>5 DEF IInv

LEMMA AfterKnown ==
  ASSUME NEW s, serverList \in Seq(Servers)
  PROVE  After(s) \in ToSet(serverList) \cup {NoServer}
<1> DEFINE i == SelectInSeq(serverList, LAMBDA t : t = s)
<1>1. After(s) = IF i \in 1 .. Len(serverList) - 1 THEN serverList[i + 1] ELSE NoServer
  BY DEF After
<1> HIDE DEF i
<1>2. CASE i \in 1 .. Len(serverList) - 1
  <2>1. i + 1 \in DOMAIN serverList
    BY <1>2
  <2> QED
    BY <1>1, <1>2, <2>1 DEF ToSet
<1> QED
  BY <1>1, <1>2

LEMMA ChooseServerKnown ==
  ASSUME serverList \in Seq(Servers)
  PROVE  ChooseServer \in ToSet(serverList) \cup {NoServer}
<1>1. serverList # <<>> => serverList[1] \in ToSet(serverList)
  <2> SUFFICES ASSUME serverList # <<>>
               PROVE  1 \in DOMAIN serverList
    BY DEF ToSet
  <2> QED
    OBVIOUS
<1> QED
  BY <1>1, AfterKnown DEF ChooseServer

LEMMA OnLoginKeeps ==
  ASSUME IInv, NEW a \in Addrs, NEW sid \in SIDs, NEW user \in Users, NEW ok \in BOOLEAN,
         OnLogin(a, sid, user, ok)
  PROVE  IInv'
<1> DEFINE t == TableWith(a, sid)
           u == Delivered(t, a, ok)
           server == ChooseServer
           new == sessions'
<1>1. /\ ~t[a].online /\ Room(t, a)
      /\ sessions' = [u EXCEPT ![a].online = TRUE, ![a].user = user, ![a].server = server]
      /\ sessionList' = ListWith(a)
      /\ sendQueue' = sendQueue \o Sent(t, a, ok)
      /\ numSessions' = numSessions + 1
      /\ curServer' = server /\ serverList' = serverList
      /\ announced' = [s \in Servers |-> [v \in Users |->
           announced[s][v] + IF s = server /\ v = user THEN 1 ELSE 0]]
  BY DEF OnLogin
<1>2. /\ Views(t, ListWith(a), sendQueue) /\ Running(t, sendQueue)
      /\ Counted(t, numSessions, announced) /\ Connected(t) /\ a \in DOMAIN t
  BY Created
<1>3. server \in ToSet(serverList) \cup {NoServer} /\ ToSet(serverList) \subseteq Servers
  <2>1. serverList \in Seq(Servers)
    BY DEF IInv, Connected, Chain
  <2> QED
    BY <2>1, ChooseServerKnown DEF ToSet
<1> HIDE DEF t, server
<1>4. /\ Views(u, sessionList', sendQueue') /\ Running(u, sendQueue')
      /\ DOMAIN u = DOMAIN t
      /\ \A b \in DOMAIN t : /\ u[b].online = t[b].online /\ u[b].user = t[b].user
                             /\ u[b].server = t[b].server
  BY <1>1, <1>2, Sending, DeliveredTable DEF Views
<1> HIDE DEF u
<1>5. u[a] \in Session
  BY <1>2, <1>4 DEF Views, Table
<1>6. /\ DOMAIN new = DOMAIN t
      /\ \A b \in DOMAIN t : b # a => new[b] = u[b]
      /\ new[a] = [sid |-> u[a].sid, online |-> TRUE, user |-> user, server |-> server,
                   ttl |-> u[a].ttl, sendSeq |-> u[a].sendSeq, queue |-> u[a].queue]
  <2>1. /\ DOMAIN new = DOMAIN t
        /\ \A b \in DOMAIN t : b # a => new[b] = u[b]
        /\ new[a] = [u[a] EXCEPT !.online = TRUE, !.user = user, !.server = server]
    BY <1>1, <1>2, <1>4
  <2> QED
    BY <1>5, <2>1 DEF Session
<1>7. new[a] \in Session
  <2>1. /\ u[a].sid \in SIDs /\ u[a].ttl \in Int /\ u[a].sendSeq \in Seqs
        /\ u[a].queue \in Seq(Seqs) /\ user \in Users \cup {NoUser}
        /\ server \in Servers \cup {NoServer} /\ TRUE \in BOOLEAN
    BY <1>3, <1>5 DEF Session
  <2>2. [sid |-> u[a].sid, online |-> TRUE, user |-> user, server |-> server,
         ttl |-> u[a].ttl, sendSeq |-> u[a].sendSeq, queue |-> u[a].queue] \in Session
    BY <2>1, Zenon DEF Session
  <2> QED
    BY <1>6, <2>2
<1>8. /\ new[a].online = TRUE /\ new[a].user = user /\ new[a].server = server
      /\ \A b \in DOMAIN t : new[b].ttl = u[b].ttl /\ new[b].queue = u[b].queue
  BY <1>2, <1>6
<1> HIDE DEF new
<1>9. Table(new)
  BY <1>4, <1>6, <1>7, <1>8 DEF Views, Table
<1>10. Views(new, sessionList', sendQueue') /\ Running(new, sendQueue')
  <2>1. ByExpiry(new, sessionList')
    BY <1>4, <1>6, <1>8, SameTimes DEF Views
  <2>2. Queued(new, sendQueue')
    BY <1>4, <1>6, <1>8, SameQueues DEF Views
  <2> QED
    BY <1>4, <1>6, <1>8, <1>9, <2>1, <2>2 DEF Views, Running
<1>11. IsFiniteSet(DOMAIN t)
  BY <1>2, FiniteTable DEF Views
<1>12. t[a].server = NoServer
  BY <1>1, <1>2 DEF Views, Table
<1>13. ASSUME NEW s \in Servers, NEW v \in Users
       PROVE  /\ announced'[s][v] \in Int
              /\ announced'[s][v] = Cardinality(Routed(new, s, v))
  <2> DEFINE all == Routed(t, s, v)
  <2>1. announced[s][v] \in Int /\ announced[s][v] = Cardinality(all)
    BY <1>2 DEF Counted
  <2>2. IsFiniteSet(all) /\ a \notin all
    <3>1. all \in SUBSET DOMAIN t
      BY DEF Routed
    <3>2. a \notin all
      BY <1>12, C2SAssumption DEF Routed
    <3> QED
      BY <1>11, <3>1, <3>2, FS_Subset
  <2>3. CASE s = server /\ v = user
    <3>1. Routed(new, s, v) = all \cup {a}
      BY <1>2, <1>4, <1>6, <1>8, <2>3 DEF Routed
    <3>2. Cardinality(all \cup {a}) = Cardinality(all) + 1
      BY <2>2, FS_AddElement
    <3> QED
      BY <1>1, <2>1, <2>3, <3>1, <3>2
  <2>4. CASE ~(s = server /\ v = user)
    <3>1. Routed(new, s, v) = all
      BY <1>2, <1>4, <1>6, <1>8, <2>2, <2>4 DEF Routed
    <3> QED
      BY <1>1, <2>1, <2>4, <3>1
  <2> QED
    BY <2>3, <2>4
<1>14. numSessions' = Cardinality(Online(new))
  <2>1. IsFiniteSet(Online(t)) /\ a \notin Online(t)
    <3>1. Online(t) \in SUBSET DOMAIN t /\ a \notin Online(t)
      BY <1>1 DEF Online
    <3> QED
      BY <1>11, <3>1, FS_Subset
  <2>2. Online(new) = Online(t) \cup {a}
    BY <1>2, <1>4, <1>6, <1>8 DEF Online
  <2>3. Cardinality(Online(t) \cup {a}) = Cardinality(Online(t)) + 1
    BY <2>1, FS_AddElement
  <2> QED
    BY <1>1, <1>2, <2>2, <2>3 DEF Counted
<1>15. Counted(new, numSessions', announced')
  <2>1. announced' \in [Servers -> [Users -> Int]]
    <3> DEFINE new2 == [s \in Servers |-> [v \in Users |->
                 announced[s][v] + IF s = server /\ v = user THEN 1 ELSE 0]]
    <3>1. \A s \in Servers, v \in Users :
            announced[s][v] + (IF s = server /\ v = user THEN 1 ELSE 0) \in Int
      BY <1>2 DEF Counted
    <3> QED
      BY <1>1, <3>1
  <2> QED
    BY <1>13, <1>14, <2>1 DEF Counted
<1>16. Connected(sessions)'
  <2>1. \A b \in DOMAIN new : new[b].server \in ToSet(serverList) \cup {NoServer}
    BY <1>2, <1>3, <1>4, <1>6, <1>8 DEF Connected
  <2> QED
    BY <1>1, <1>2, <1>3, <2>1 DEF Connected, new
<1> QED
  BY <1>10, <1>15, <1>16 DEF IInv, new

LEMMA OnKeepAliveKeeps ==
  ASSUME IInv, NEW a \in DOMAIN sessions, NEW announce \in BOOLEAN, NEW ok \in BOOLEAN,
         OnKeepAlive(a, announce, ok)
  PROVE  IInv'
<1> DEFINE t == [sessions EXCEPT ![a].ttl = KA_TIMEOUT]
           l == Append(Without(sessionList, {a}), a)
           q == Restrict(sessions, DOMAIN sessions \ {a})
<1>1. /\ sessionList' = l
      /\ IF announce
         THEN /\ Room(t, a) /\ sessions' = Delivered(t, a, ok)
              /\ sendQueue' = sendQueue \o Sent(t, a, ok)
         ELSE sessions' = t /\ sendQueue' = sendQueue
      /\ numSessions' = numSessions /\ announced' = announced
      /\ serverList' = serverList /\ curServer' = curServer
  BY DEF OnKeepAlive, serverVars
<1>2. a \in Addrs /\ sessions[a] \in Session /\ \A b \in DOMAIN sessions : sessions[b].ttl \in Int
  BY DEF IInv, Views, Table, Session
<1>3. /\ DOMAIN t = DOMAIN sessions
      /\ \A b \in DOMAIN sessions : b # a => t[b] = sessions[b]
      /\ t[a] = [sid |-> sessions[a].sid, online |-> sessions[a].online,
                 user |-> sessions[a].user, server |-> sessions[a].server,
                 ttl |-> KA_TIMEOUT, sendSeq |-> sessions[a].sendSeq,
                 queue |-> sessions[a].queue]
  BY <1>2 DEF Session
<1>4. /\ t[a].ttl = KA_TIMEOUT
      /\ \A b \in DOMAIN sessions :
           /\ t[b].online = sessions[b].online /\ t[b].user = sessions[b].user
           /\ t[b].server = sessions[b].server /\ t[b].queue = sessions[b].queue
  BY <1>3
<1>5. t[a] \in Session
  <2>1. /\ sessions[a].sid \in SIDs /\ sessions[a].online \in BOOLEAN
        /\ sessions[a].user \in Users \cup {NoUser}
        /\ sessions[a].server \in Servers \cup {NoServer} /\ KA_TIMEOUT \in Int
        /\ sessions[a].sendSeq \in Seqs /\ sessions[a].queue \in Seq(Seqs)
    BY <1>2, C2SAssumption DEF Session
  <2>2. [sid |-> sessions[a].sid, online |-> sessions[a].online,
         user |-> sessions[a].user, server |-> sessions[a].server,
         ttl |-> KA_TIMEOUT, sendSeq |-> sessions[a].sendSeq,
         queue |-> sessions[a].queue] \in Session
    BY <2>1, Zenon DEF Session
  <2> QED
    BY <1>3, <2>2
<1> HIDE DEF t
<1>6. Table(t)
  BY <1>3, <1>4, <1>5 DEF IInv, Views, Table
<1>7. ByExpiry(t, l)
  <2>1. /\ DOMAIN q = DOMAIN sessions \ {a}
        /\ \A b \in DOMAIN q : q[b] = sessions[b]
    BY DEF Restrict
  <2>2. ByExpiry(q, Without(sessionList, {a}))
    BY WithoutSessions DEF IInv, Views
  <2> HIDE DEF q
  <2>3. /\ a \notin DOMAIN q /\ DOMAIN t = DOMAIN q \cup {a}
        /\ \A b \in DOMAIN q : q[b].ttl \in Int /\ t[b].ttl = q[b].ttl
    BY <1>2, <1>3, <2>1
  <2> QED
    BY <1>2, <1>4, <2>2, <2>3, AppendSession
<1>8. Views(t, l, sendQueue) /\ Running(t, sendQueue)
  <2>1. Queued(t, sendQueue)
    BY <1>3, <1>4, SameQueues DEF IInv, Views
  <2>2. \A b \in DOMAIN t : t[b].ttl > 0
    BY <1>3, <1>4, C2SAssumption DEF IInv, Running
  <2> QED
    BY <1>6, <1>7, <2>1, <2>2 DEF IInv, Views, Running
<1> HIDE DEF l
<1>9. Views(sessions', sessionList', sendQueue') /\ Running(sessions', sendQueue')
  <2>1. CASE announce
    BY <1>1, <1>3, <1>8, <2>1, Sending
  <2>2. CASE ~announce
    BY <1>1, <1>8, <2>2
  <2> QED
    BY <2>1, <2>2
<1>10. /\ DOMAIN sessions' = DOMAIN sessions
       /\ \A b \in DOMAIN sessions : /\ sessions'[b].online = sessions[b].online
                                     /\ sessions'[b].user = sessions[b].user
                                     /\ sessions'[b].server = sessions[b].server
  <2>1. CASE announce
    <3> DEFINE u == Delivered(t, a, ok)
    <3>1. /\ DOMAIN u = DOMAIN t
          /\ \A b \in DOMAIN t : /\ u[b].online = t[b].online /\ u[b].user = t[b].user
                                 /\ u[b].server = t[b].server
      BY <1>3, <1>6, DeliveredTable
    <3> HIDE DEF u
    <3>2. sessions' = u
      BY <1>1, <2>1 DEF u
    <3> QED
      BY <1>3, <1>4, <3>1, <3>2
  <2>2. CASE ~announce
    BY <1>1, <1>3, <1>4, <2>2
  <2> QED
    BY <2>1, <2>2
<1>11. Counted(sessions', numSessions', announced')
  BY <1>1, <1>10, SameCounts DEF IInv
<1>12. Connected(sessions)'
  BY <1>1, <1>10 DEF IInv, Connected
<1> QED
  BY <1>9, <1>11, <1>12 DEF IInv

LEMMA OnLogoutKeeps ==
  ASSUME IInv, NEW a \in DOMAIN sessions, OnLogout(a)
  PROVE  IInv'
<1>1. /\ Views(sessions, sessionList, sendQueue) /\ Running(sessions, sendQueue)
      /\ Counted(sessions, numSessions, announced) /\ Connected(sessions)
  BY DEF IInv
<1>2. Destroy({a}, sessions, sessionList, sendQueue) /\ UNCHANGED serverVars
  BY DEF OnLogout
<1>3. /\ {a} \in SUBSET DOMAIN sessions
      /\ \A b \in DOMAIN sessions \ {a} : sessions[b].ttl > 0
      /\ \A i \in 1 .. Len(sendQueue) : sendQueue[i].ttl > 0
  BY <1>1 DEF Running
<1> QED
  BY <1>1, <1>2, <1>3, DestroyKeeps

\* An acknowledgement takes the packet from both queues.
LEMMA Acknowledged ==
  ASSUME IInv, NEW a \in DOMAIN sessions, NEW seq \in Seqs,
         NEW t, t = [sessions EXCEPT ![a].queue = Without(@, {seq})],
         NEW p, p = Without(sendQueue, {x \in PacketsOf(sendQueue, {a}) : x.seq = seq})
  PROVE  /\ Views(t, sessionList, p) /\ Running(t, p)
         /\ Counted(t, numSessions, announced) /\ Connected(t)
         /\ DOMAIN t = DOMAIN sessions
<1> DEFINE q == Without(sessions[a].queue, {seq})
           T == {x \in PacketsOf(sendQueue, {a}) : x.seq = seq}
<1>1. sessions[a] \in Session /\ Chain(Seqs, sessions[a].queue, Unacked(sendQueue, a))
  BY DEF IInv, Views, Table, Queued
<1>2. Chain(Seqs, q, Unacked(sendQueue, a) \ {seq}) /\ q \in Seq(Seqs)
  BY <1>1, WithoutChain DEF Chain
<1> HIDE DEF q
<1>3. /\ DOMAIN t = DOMAIN sessions
      /\ \A b \in DOMAIN sessions : b # a => t[b] = sessions[b]
      /\ t[a] = [sid |-> sessions[a].sid, online |-> sessions[a].online,
                 user |-> sessions[a].user, server |-> sessions[a].server,
                 ttl |-> sessions[a].ttl, sendSeq |-> sessions[a].sendSeq,
                 queue |-> q]
  BY <1>1 DEF Session, q
<1>4. /\ t[a].queue = q
      /\ \A b \in DOMAIN sessions :
           /\ t[b].online = sessions[b].online /\ t[b].user = sessions[b].user
           /\ t[b].server = sessions[b].server /\ t[b].ttl = sessions[b].ttl
  BY <1>3
<1>5. t[a] \in Session
  <2>1. /\ sessions[a].sid \in SIDs /\ sessions[a].online \in BOOLEAN
        /\ sessions[a].user \in Users \cup {NoUser}
        /\ sessions[a].server \in Servers \cup {NoServer} /\ sessions[a].ttl \in Int
        /\ sessions[a].sendSeq \in Seqs
    BY <1>1 DEF Session
  <2>2. [sid |-> sessions[a].sid, online |-> sessions[a].online,
         user |-> sessions[a].user, server |-> sessions[a].server,
         ttl |-> sessions[a].ttl, sendSeq |-> sessions[a].sendSeq,
         queue |-> q] \in Session
    BY <1>2, <2>1, Zenon DEF Session
  <2> QED
    BY <1>3, <2>2
<1>6. Table(t)
  BY <1>3, <1>4, <1>5 DEF IInv, Views, Table
<1>7. ByExpiry(t, sessionList)
  <2>1. ByExpiry(sessions, sessionList)
    BY DEF IInv, Views
  <2>2. DOMAIN t = DOMAIN sessions
    BY <1>3
  <2>3. \A b \in DOMAIN sessions : t[b].ttl = sessions[b].ttl
    BY <1>4
  <2> QED
    BY <2>1, <2>2, <2>3, SameTimes
<1>8. /\ sendQueue \in Seq(Packet) /\ Distinct(sendQueue) /\ ByDue(sendQueue)
      /\ DOMAIN sendQueue = 1 .. Len(sendQueue)
  BY DEF IInv, Views, Queued
<1>9. \A k \in 1 .. Len(sendQueue) :
        sendQueue[k] \in T <=> sendQueue[k].addr = a /\ sendQueue[k].seq = seq
  BY <1>8 DEF PacketsOf, ToSet
<1> HIDE DEF T
<1>10. /\ p \in Seq(Packet) /\ Distinct(p) /\ ByDue(p)
       /\ \A i \in 1 .. Len(p) : \E k \in 1 .. Len(sendQueue) : p[i] = sendQueue[k]
       /\ \A b : Unacked(p, b) = Unacked(sendQueue, b) \
            {sendQueue[k].seq : k \in {j \in 1 .. Len(sendQueue) :
                                         sendQueue[j] \in T /\ sendQueue[j].addr = b}}
  <2>1. p = Without(sendQueue, T)
    BY DEF T
  <2> DEFINE w == Without(sendQueue, T)
  <2>2. /\ w \in Seq(Packet) /\ Distinct(w) /\ ByDue(w)
        /\ \A i \in 1 .. Len(w) : \E k \in 1 .. Len(sendQueue) : w[i] = sendQueue[k]
        /\ \A b : Unacked(w, b) = Unacked(sendQueue, b) \
             {sendQueue[k].seq : k \in {j \in 1 .. Len(sendQueue) :
                                          sendQueue[j] \in T /\ sendQueue[j].addr = b}}
    BY <1>8, WithoutPackets
  <2> HIDE DEF w
  <2>3. p = w
    BY <2>1 DEF w
  <2> QED
    BY <2>2, <2>3
<1>11. Unacked(p, a) = Unacked(sendQueue, a) \ {seq}
  <2> DEFINE lost == {sendQueue[k].seq : k \in {j \in 1 .. Len(sendQueue) :
                        sendQueue[j] \in T /\ sendQueue[j].addr = a}}
  <2>1. \A x \in lost : x = seq
    BY <1>9
  <2>2. seq \in Unacked(sendQueue, a) => seq \in lost
    BY <1>9 DEF Unacked
  <2>3. Unacked(p, a) = Unacked(sendQueue, a) \ lost
    BY <1>10
  <2> HIDE DEF lost
  <2> QED
    BY <2>1, <2>2, <2>3
<1>12. ASSUME NEW b \in DOMAIN sessions, b # a
       PROVE  Unacked(p, b) = Unacked(sendQueue, b)
  <2>1. {j \in 1 .. Len(sendQueue) : sendQueue[j] \in T /\ sendQueue[j].addr = b} = {}
    BY <1>9, <1>12
  <2> QED
    BY <1>10, <2>1
<1>13. Queued(t, p)
  <2>1. \A i \in 1 .. Len(p) : p[i].addr \in DOMAIN t
    <3> SUFFICES ASSUME NEW i \in 1 .. Len(p)
                 PROVE  p[i].addr \in DOMAIN t
      OBVIOUS
    <3>1. PICK k \in 1 .. Len(sendQueue) : p[i] = sendQueue[k]
      BY <1>10
    <3>2. sendQueue[k].addr \in DOMAIN sessions
      BY DEF IInv, Views, Queued
    <3> QED
      BY <1>3, <3>1, <3>2
  <2>2. \A b \in DOMAIN t : Chain(Seqs, t[b].queue, Unacked(p, b))
    BY <1>2, <1>3, <1>4, <1>11, <1>12 DEF IInv, Views, Queued
  <2> QED
    BY <1>10, <2>1, <2>2 DEF Queued
<1>14. Running(t, p)
  BY <1>3, <1>4, <1>10 DEF IInv, Running
<1>15. Counted(t, numSessions, announced)
  BY <1>3, <1>4, SameCounts DEF IInv
<1>16. Connected(t)
  BY <1>3, <1>4 DEF IInv, Connected
<1> QED
  BY <1>3, <1>6, <1>7, <1>10, <1>13, <1>14, <1>15, <1>16 DEF Views

LEMMA OnAckKeeps ==
  ASSUME IInv, NEW a \in DOMAIN sessions, NEW seq \in Seqs, OnAck(a, seq)
  PROVE  IInv'
<1> DEFINE t == [sessions EXCEPT ![a].queue = Without(@, {seq})]
           p == Without(sendQueue, {x \in PacketsOf(sendQueue, {a}) : x.seq = seq})
<1>1. /\ UNCHANGED serverVars
      /\ IF sessions[a].online
         THEN /\ sessions' = t /\ sendQueue' = p
              /\ UNCHANGED <<sessionList, numSessions, announced>>
         ELSE Destroy({a}, t, sessionList, p)
  BY DEF OnAck
<1>2. /\ Views(t, sessionList, p) /\ Running(t, p)
      /\ Counted(t, numSessions, announced) /\ Connected(t)
      /\ DOMAIN t = DOMAIN sessions
  BY Acknowledged
<1> HIDE DEF t, p
<1>3. CASE sessions[a].online
  <2>1. Connected(sessions)'
    BY <1>1, <1>2, <1>3 DEF Connected, serverVars
  <2> QED
    BY <1>1, <1>2, <1>3, <2>1 DEF IInv
<1>4. CASE ~sessions[a].online
  <2>1. /\ {a} \in SUBSET DOMAIN t
        /\ \A b \in DOMAIN t \ {a} : t[b].ttl > 0
        /\ \A i \in 1 .. Len(p) : p[i].ttl > 0
    BY <1>2 DEF Running
  <2> QED
    BY <1>1, <1>2, <1>4, <2>1, DestroyKeeps
<1> QED
  BY <1>3, <1>4

-----------------------------------------------------------------------------
(***************************************************************************)
(* Servers.                                                                *)
(***************************************************************************)

LEMMA AddServerKeeps ==
  ASSUME IInv, NEW s \in Servers, AddServer(s)
  PROVE  IInv'
<1>1. /\ ~Contains(serverList, s) /\ serverList' = <<s>> \o serverList
      /\ sessions' = sessions /\ sessionList' = sessionList /\ sendQueue' = sendQueue
      /\ numSessions' = numSessions /\ announced' = announced /\ curServer' = curServer
  BY DEF AddServer
<1>2. Chain(Servers, serverList, ToSet(serverList)) /\ s \notin ToSet(serverList)
  <2>1. Chain(Servers, serverList, ToSet(serverList)) /\ serverList \in Seq(Servers)
    BY DEF IInv, Connected, Chain
  <2>2. DOMAIN serverList = 1 .. Len(serverList)
    BY <2>1
  <2> QED
    BY <1>1, <2>1, <2>2 DEF Contains, ToSet
<1>3. Chain(Servers, serverList', ToSet(serverList) \cup {s})
  BY <1>1, <1>2, PutChain
<1>4. ToSet(serverList') = ToSet(serverList) \cup {s}
  BY <1>3 DEF Chain
<1>5. Connected(sessions)'
  BY <1>1, <1>3, <1>4 DEF IInv, Connected
<1> QED
  BY <1>1, <1>5 DEF IInv

\* The server that follows a server is another one.
LEMMA AfterOther ==
  ASSUME IInv, NEW s \in ToSet(serverList)
  PROVE  After(s) \in (ToSet(serverList) \ {s}) \cup {NoServer}
<1> DEFINE I == {k \in 1 .. Len(serverList) : serverList[k] = s}
           i == SelectInSeq(serverList, LAMBDA t : t = s)
<1>1. /\ serverList \in Seq(Servers) /\ Len(serverList) \in Nat
      /\ DOMAIN serverList = 1 .. Len(serverList) /\ IsInjective(serverList)
  BY DEF IInv, Connected, Chain
<1>2. I # {} /\ I \in SUBSET Nat
  BY <1>1 DEF ToSet
<1>3. i = Min(I)
  BY <1>2 DEF SelectInSeq
<1>4. After(s) = IF i \in 1 .. Len(serverList) - 1 THEN serverList[i + 1] ELSE NoServer
  BY DEF After
<1> HIDE DEF i
<1>5. i \in I
  BY <1>2, <1>3, MinExists
<1>6. CASE i \in 1 .. Len(serverList) - 1
  <2>1. i + 1 \in DOMAIN serverList /\ i \in DOMAIN serverList /\ i + 1 # i
    BY <1>1, <1>6
  <2>2. serverList[i + 1] # serverList[i] /\ serverList[i] = s
    BY <1>1, <1>5, <2>1 DEF IsInjective
  <2>3. serverList[i + 1] \in ToSet(serverList)
    BY <2>1 DEF ToSet
  <2> QED
    BY <1>4, <1>6, <2>2, <2>3
<1> QED
  BY <1>4, <1>6

LEMMA RemoveServerKeeps ==
  ASSUME IInv, NEW s \in Servers, RemoveServer(s)
  PROVE  IInv'
<1> DEFINE gone == {a \in DOMAIN sessions : sessions[a].server = s}
           u == Restrict(sessions, DOMAIN sessions \ gone)
<1>1. /\ Contains(serverList, s) /\ serverList' = Without(serverList, {s})
      /\ curServer' = IF curServer = s THEN After(s) ELSE curServer
      /\ sessions' = u
      /\ sessionList' = Without(sessionList, gone)
      /\ sendQueue' = Without(sendQueue, PacketsOf(sendQueue, gone))
      /\ numSessions' = numSessions - Cardinality({a \in gone : sessions[a].online})
      /\ announced' = [announced EXCEPT ![s] = [v \in Users |-> 0]]
  BY DEF RemoveServer
<1>2. /\ Chain(Servers, serverList, ToSet(serverList)) /\ serverList \in Seq(Servers)
      /\ s \in ToSet(serverList)
  <2>1. Chain(Servers, serverList, ToSet(serverList)) /\ serverList \in Seq(Servers)
    BY DEF IInv, Connected, Chain
  <2>2. DOMAIN serverList = 1 .. Len(serverList)
    BY <2>1
  <2> QED
    BY <1>1, <2>1, <2>2 DEF Contains, ToSet
<1>3. /\ DOMAIN u = DOMAIN sessions \ gone
      /\ \A a \in DOMAIN u : u[a] = sessions[a]
      /\ \A a \in DOMAIN u : sessions[a].server # s
  BY DEF Restrict
<1>4. gone \in SUBSET DOMAIN sessions
  OBVIOUS
<1>5. \A t \in Servers \ {s} : \A v : Routed(u, t, v) = Routed(sessions, t, v)
  BY <1>3 DEF Routed
<1>6. \A v : Routed(u, s, v) = {}
  BY <1>3 DEF Routed
<1> HIDE DEF gone, u
<1>7. Views(sessions', sessionList', sendQueue')
  BY <1>1, PrunedViews DEF IInv, u
<1>8. Running(sessions', sendQueue')
  <2>1. /\ Queued(sessions, sendQueue) /\ ByDue(sendQueue)
        /\ \A a \in DOMAIN sessions \ gone : sessions[a].ttl > 0
        /\ \A i \in 1 .. Len(sendQueue) : sendQueue[i].ttl > 0
    BY DEF IInv, Views, Running
  <2> QED
    BY <1>1, <2>1, PrunedRunning DEF u
<1>9. Counted(sessions', numSessions', announced')
  <2>1. IsFiniteSet(DOMAIN sessions)
    BY FiniteTable DEF IInv, Views
  <2>2. Counted(u, numSessions', Withdrawn(sessions, gone))
    BY <1>1, <1>4, <2>1, PrunedCounts DEF IInv, u
  <2>3. numSessions' = Cardinality(Online(u))
    BY <2>2 DEF Counted
  <2>4. announced \in [Servers -> [Users -> Int]]
    BY DEF IInv, Counted
  <2>5. announced' \in [Servers -> [Users -> Int]]
    <3>1. [v \in Users |-> 0] \in [Users -> Int]
      OBVIOUS
    <3> QED
      BY <1>1, <2>4, <3>1
  <2>6. ASSUME NEW t \in Servers, NEW v \in Users
        PROVE  announced'[t][v] = Cardinality(Routed(u, t, v))
    <3>1. CASE t = s
      BY <1>1, <1>6, <2>4, <3>1, FS_EmptySet
    <3>2. CASE t # s
      <4>1. announced'[t] = announced[t] /\ Routed(u, t, v) = Routed(sessions, t, v)
        BY <1>1, <1>5, <2>4, <3>2
      <4> QED
        BY <4>1 DEF IInv, Counted
    <3> QED
      BY <3>1, <3>2
  <2> QED
    BY <1>1, <2>3, <2>5, <2>6 DEF Counted
<1>10. Connected(sessions)'
  <2>1. Chain(Servers, serverList', ToSet(serverList) \ {s})
    BY <1>1, <1>2, WithoutChain
  <2>2. ToSet(serverList') = ToSet(serverList) \ {s}
    BY <2>1 DEF Chain
  <2>3. curServer' \in (ToSet(serverList) \ {s}) \cup {NoServer}
    BY <1>1, <1>2, AfterOther DEF IInv, Connected
  <2>4. \A a \in DOMAIN sessions' :
          sessions'[a].server \in (ToSet(serverList) \ {s}) \cup {NoServer}
    BY <1>1, <1>3 DEF IInv, Connected
  <2> QED
    BY <2>1, <2>2, <2>3, <2>4 DEF Connected
<1> QED
  BY <1>7, <1>8, <1>9, <1>10 DEF IInv

-----------------------------------------------------------------------------
(***************************************************************************)
(* The clock.                                                              *)
(***************************************************************************)

\* The items that are due: all up to the first that is not late.
LEMMA DueTakes ==
  ASSUME NEW S, NEW s \in Seq(S), NEW late
  PROVE  \E n \in 0 .. Len(s) :
           /\ Due(s, late) = SubSeq(s, 1, n)
           /\ \A i \in 1 .. n : s[i] \in late
           /\ n < Len(s) => s[n + 1] \notin late
<1> DEFINE I == {i \in 1 .. Len(s) : s[i] \notin late}
           first == SelectInSeq(s, LAMBDA x : x \notin late)
<1>1. first = IF I # {} THEN Min(I) ELSE 0
  BY DEF SelectInSeq
<1>2. Due(s, late) = IF first = 0 THEN s ELSE SubSeq(s, 1, first - 1)
  BY DEF Due
<1>3. Len(s) \in Nat /\ I \in SUBSET Nat
  OBVIOUS
<1>4. \A i \in 1 .. Len(s) : s[i] \notin late <=> i \in I
  OBVIOUS
<1>5. I \subseteq 1 .. Len(s)
  OBVIOUS
<1> HIDE DEF I, first
<1>6. CASE I = {}
  <2>1. Due(s, late) = SubSeq(s, 1, Len(s))
    BY <1>1, <1>2, <1>6
  <2>2. Len(s) \in 0 .. Len(s) /\ \A i \in 1 .. Len(s) : s[i] \in late
    BY <1>3, <1>4, <1>6
  <2> QED
    BY <1>3, <2>1, <2>2
<1>7. CASE I # {}
  <2>1. first \in I /\ \A y \in I : first <= y
    BY <1>1, <1>3, <1>7, MinExists
  <2>2. first \in 1 .. Len(s) /\ s[first] \notin late
    BY <1>4, <1>5, <2>1
  <2>3. ASSUME NEW i \in 1 .. first - 1
        PROVE  s[i] \in late
    BY <1>3, <1>4, <2>1, <2>2
  <2>4. first - 1 \in 0 .. Len(s) /\ (first - 1) + 1 = first
    BY <1>3, <2>2
  <2>5. Due(s, late) = SubSeq(s, 1, first - 1)
    BY <1>2, <2>2
  <2> QED
    BY <2>2, <2>3, <2>4, <2>5
<1> QED
  BY <1>6, <1>7

\* r holds the packets of p but those of the first n that have no attempts left.
Tried(r, p, n) ==
  /\ r \in Seq(Packet) /\ Distinct(r)
  /\ \A i \in 1 .. Len(r) : \E k \in 1 .. Len(p) : r[i].addr = p[k].addr
  /\ \A a : Unacked(r, a) = Unacked(p, a) \
       {p[k].seq : k \in {j \in 1 .. n : p[j].attempts = 0 /\ p[j].addr = a}}

\* checkSendQueue keeps the packets that have attempts left, and the order.
LEMMA Checked ==
  ASSUME NEW p \in Seq(Packet), Distinct(p), ByDue(p), NEW n \in 0 .. Len(p),
         NEW due, due = SubSeq(p, 1, n), NEW rest, rest = SubSeq(p, n + 1, Len(p)),
         NEW r, r = CheckSendQueue(due, rest)
  PROVE  /\ Tried(r, p, n) /\ ByDue(r)
         /\ (\A k \in n + 1 .. Len(p) : p[k].ttl > 0) => \A i \in 1 .. Len(r) : r[i].ttl > 0
<1> DEFINE Z == {x \in ToSet(due) : x.attempts = 0}
           retried == Without(due, Z)
           Resent(x) == [x EXCEPT !.attempts = @ - 1, !.ttl = SEND_TIMEOUT]
           resent == [i \in DOMAIN retried |-> Resent(retried[i])]
           c == Len(p) - n
           K == {k \in 1 .. Len(p) : ~(k <= n /\ p[k].attempts = 0)}
<1>1. r = rest \o resent
  BY DEF CheckSendQueue
<1>2. Len(p) \in Nat /\ n \in Nat /\ c \in Nat /\ DOMAIN p = 1 .. Len(p)
  OBVIOUS
<1>3. due \in Seq(Packet) /\ Len(due) = n /\ DOMAIN due = 1 .. n
      /\ \A i \in 1 .. n : due[i] = p[i]
  <2>1. \A i \in 1 .. n : p[i] \in Packet
    BY <1>2
  <2> QED
    BY <1>2, <2>1
<1>4. rest \in Seq(Packet) /\ Len(rest) = c /\ \A i \in 1 .. c : rest[i] = p[n + i]
  <2>1. \A i \in 1 .. c : n + i \in 1 .. Len(p) /\ p[n + i] \in Packet
    BY <1>2
  <2> DEFINE L == Len(p)
  <2>2. n <= L /\ n \in Int /\ L \in Int
    BY <1>2
  <2>3. \A i \in n + 1 .. L : p[i] \in Packet
    BY <1>2
  <2> HIDE DEF L
  <2>4. n + 1 \in Int /\ L - (n + 1) + 1 = L - n
    BY <2>2
  <2>5. L - n = IF n + 1 <= L THEN L - (n + 1) + 1 ELSE 0
    BY <2>2
  <2>6. rest = SubSeq(p, n + 1, L) /\ c = L - n
    BY DEF L
  <2> HIDE DEF c
  <2>7. /\ rest \in Seq(Packet)
        /\ Len(rest) = IF n + 1 <= L THEN L - (n + 1) + 1 ELSE 0
        /\ \A i \in 1 .. L - (n + 1) + 1 : rest[i] = p[(n + 1) + i - 1]
    BY <2>2, <2>3, <2>4, <2>6, SubSeqProperties
  <2>8. \A i \in 1 .. c : (n + 1) + i - 1 = n + i
    BY <1>2
  <2>9. Len(rest) = c
    BY <2>5, <2>6, <2>7
  <2> QED
    BY <2>4, <2>6, <2>7, <2>8, <2>9
<1>5. \A i \in 1 .. n : p[i] \in Z <=> p[i].attempts = 0
  BY <1>3 DEF ToSet
<1> HIDE DEF Z
<1>6. retried \in Seq(Packet) /\ Len(retried) \in Nat
      /\ DOMAIN retried = 1 .. Len(retried)
  <2>1. retried \in Seq(Packet)
    BY <1>3, WithoutKeeps
  <2> HIDE DEF retried
  <2> QED
    BY <2>1
<1>7. PICK h : Kept(retried, due, Z, h)
  BY <1>3, WithoutKeeps
<1> DEFINE d == Len(retried)
<1> HIDE DEF retried
<1>8. /\ \A i \in 1 .. d : /\ h[i] \in 1 .. n /\ retried[i] = p[h[i]]
                           /\ p[h[i]].attempts # 0
      /\ \A i, j \in 1 .. d : i < j => h[i] < h[j]
      /\ \A k \in 1 .. n : p[k].attempts # 0 => \E i \in 1 .. d : h[i] = k
  <2>1. /\ \A i \in 1 .. d : h[i] \in 1 .. n /\ retried[i] = due[h[i]] /\ retried[i] \notin Z
        /\ \A i, j \in 1 .. d : i < j => h[i] < h[j]
        /\ \A k \in 1 .. n : due[k] \notin Z => \E i \in 1 .. d : h[i] = k
    BY <1>3, <1>7 DEF Kept
  <2> HIDE DEF d
  <2>2. \A i \in 1 .. d : retried[i] = p[h[i]] /\ p[h[i]].attempts # 0
    BY <1>3, <1>5, <2>1
  <2>3. \A k \in 1 .. n : p[k].attempts # 0 => \E i \in 1 .. d : h[i] = k
    BY <1>3, <1>5, <2>1
  <2> QED
    BY <2>1, <2>2, <2>3
<1>9. ASSUME NEW i \in 1 .. d
      PROVE  /\ resent[i] \in Packet /\ resent[i].addr = p[h[i]].addr
             /\ resent[i].seq = p[h[i]].seq /\ resent[i].ttl = SEND_TIMEOUT
  <2> DEFINE x == p[h[i]]
  <2>1. x \in Packet /\ x.attempts # 0
    BY <1>2, <1>8
  <2>2. /\ x.addr \in Addrs /\ x.seq \in Seqs /\ x.attempts - 1 \in 0 .. MAX_SEND_ATTEMPTS
        /\ SEND_TIMEOUT \in Int
    <3> HIDE DEF x
    <3>1. x.addr \in Addrs /\ x.seq \in Seqs /\ x.attempts \in 0 .. MAX_SEND_ATTEMPTS
      BY <2>1 DEF Packet
    <3> QED
      BY <2>1, <3>1, C2SAssumption
  <2>3. resent[i] = [x EXCEPT !.attempts = @ - 1, !.ttl = SEND_TIMEOUT]
    BY <1>6, <1>8
  <2> HIDE DEF x, resent
  <2>4. resent[i] = [addr |-> x.addr, seq |-> x.seq, attempts |-> x.attempts - 1,
                     ttl |-> SEND_TIMEOUT]
    BY <2>1, <2>3 DEF Packet
  <2>5. [addr |-> x.addr, seq |-> x.seq, attempts |-> x.attempts - 1,
         ttl |-> SEND_TIMEOUT] \in Packet
    BY <2>2, Zenon DEF Packet
  <2>6. resent[i] \in Packet
    BY <2>4, <2>5
  <2>7. resent[i].addr = x.addr /\ resent[i].seq = x.seq /\ resent[i].ttl = SEND_TIMEOUT
    BY <2>4
  <2> QED
    BY <2>6, <2>7 DEF x
<1>10. resent \in Seq(Packet) /\ Len(resent) = d
  <2>1. resent = [i \in 1 .. d |-> resent[i]]
    BY <1>6
  <2> HIDE DEF resent
  <2>2. resent \in [1 .. d -> Packet]
    BY <1>9, <2>1
  <2>3. d \in Nat
    BY <1>6
  <2> HIDE DEF d
  <2> QED
    BY <2>2, <2>3
<1> HIDE DEF resent, c, d
<1>11. /\ r \in Seq(Packet) /\ Len(r) = c + d
       /\ \A i \in 1 .. c + d : r[i] = IF i <= c THEN rest[i] ELSE resent[i - c]
  <2>1. /\ rest \o resent \in Seq(Packet) /\ Len(rest \o resent) = Len(rest) + Len(resent)
        /\ \A i \in 1 .. Len(rest) + Len(resent) :
             (rest \o resent)[i] = IF i <= Len(rest) THEN rest[i] ELSE resent[i - Len(rest)]
    BY <1>4, <1>10, ConcatProperties
  <2> QED
    BY <1>1, <1>4, <1>10, <2>1
<1>12. d \in Nat
  BY <1>6 DEF d
<1>13. \A i \in 1 .. c : i \in 1 .. c + d /\ n + i \in 1 .. Len(p) /\ r[i] = p[n + i]
  <2> SUFFICES ASSUME NEW i \in 1 .. c
               PROVE  i \in 1 .. c + d /\ n + i \in 1 .. Len(p) /\ r[i] = p[n + i]
    OBVIOUS
  <2>1. c = Len(p) - n
    BY DEF c
  <2>2. i \in 1 .. c + d /\ n + i \in 1 .. Len(p) /\ i <= c
    BY <1>2, <1>12, <2>1
  <2> QED
    BY <1>4, <1>11, <2>2
<1>14. \A i \in 1 .. c + d : i > c =>
         i - c \in 1 .. d /\ r[i] = resent[i - c]
  BY <1>2, <1>11, <1>12
<1> DEFINE m == [i \in 1 .. c + d |-> IF i <= c THEN n + i ELSE h[i - c]]
<1>15. ASSUME NEW i \in 1 .. c + d
       PROVE  /\ m[i] \in K /\ r[i].addr = p[m[i]].addr /\ r[i].seq = p[m[i]].seq
              /\ i <= c => m[i] > n
              /\ i > c => m[i] <= n
  <2>1. CASE i <= c
    <3>1. i \in 1 .. c /\ m[i] = n + i
      BY <1>2, <1>12, <2>1
    <3>2. n + i \in 1 .. Len(p) /\ r[i] = p[n + i] /\ ~(n + i <= n)
      BY <1>2, <1>13, <3>1
    <3> QED
      BY <1>2, <2>1, <3>1, <3>2
  <2>2. CASE i > c
    <3>1. m[i] = h[i - c] /\ i - c \in 1 .. d /\ r[i] = resent[i - c]
      BY <1>2, <1>12, <1>14, <2>2
    <3>2. h[i - c] \in 1 .. n /\ p[h[i - c]].attempts # 0
      BY <1>8, <3>1
    <3>3. h[i - c] \in K
      BY <1>2, <3>2
    <3>4. r[i].addr = p[h[i - c]].addr /\ r[i].seq = p[h[i - c]].seq
      BY <1>9, <3>1
    <3> QED
      BY <1>2, <1>12, <2>2, <3>1, <3>2, <3>3, <3>4
  <2> QED
    BY <1>2, <1>12, <2>1, <2>2
<1>16. ASSUME NEW i \in 1 .. c + d, NEW j \in 1 .. c + d, m[i] = m[j]
       PROVE  i = j
  <2>1. m[i] \in Int /\ m[j] \in Int
    BY <1>15
  <2>2. CASE i <= c /\ j <= c
    <3>1. m[i] = n + i /\ m[j] = n + j
      BY <2>2
    <3> QED
      BY <1>2, <1>12, <1>16, <3>1
  <2>3. CASE i > c /\ j > c
    <3>1. /\ m[i] = h[i - c] /\ m[j] = h[j - c]
          /\ i - c \in 1 .. d /\ j - c \in 1 .. d
      BY <1>2, <1>12, <1>14, <2>3
    <3>2. h[i - c] \in Int /\ h[j - c] \in Int /\ h[i - c] = h[j - c]
      BY <1>8, <1>16, <3>1
    <3>3. ~(i - c < j - c) /\ ~(j - c < i - c)
      BY <1>8, <3>1, <3>2
    <3> QED
      BY <1>2, <1>12, <3>1, <3>3
  <2>4. CASE (i <= c /\ j > c) \/ (i > c /\ j <= c)
    <3> HIDE DEF m
    <3> QED
      BY <1>2, <1>15, <1>16, <2>1, <2>4
  <2> QED
    BY <1>2, <1>12, <2>2, <2>3, <2>4
<1>17. ASSUME NEW k \in K
       PROVE  \E i \in 1 .. c + d : m[i] = k
  <2>1. CASE k <= n
    <3>1. PICK i \in 1 .. d : h[i] = k
      BY <1>2, <1>8, <2>1
    <3>2. c + i \in 1 .. c + d /\ ~(c + i <= c) /\ (c + i) - c = i
      BY <1>2, <1>12
    <3>3. m[c + i] = k
      BY <3>1, <3>2
    <3> QED
      BY <3>2, <3>3
  <2>2. CASE k > n
    <3>1. c = Len(p) - n
      BY DEF c
    <3>2. k - n \in 1 .. c + d /\ k - n <= c /\ n + (k - n) = k
      BY <1>2, <1>12, <2>2, <3>1
    <3>3. m[k - n] = k
      BY <3>2
    <3> QED
      BY <3>2, <3>3
  <2> QED
    BY <1>2, <2>1, <2>2
<1>18. Moved(r, p, K, m)
  <2>1. m \in [1 .. c + d -> K]
    BY <1>15
  <2> HIDE DEF m
  <2> QED
    BY <1>11, <1>15, <1>16, <1>17, <2>1 DEF Moved
<1>19. /\ Distinct(r)
       /\ \A a : Unacked(r, a) = Unacked(p, a) \
            {p[k].seq : k \in {j \in (1 .. Len(p)) \ K : p[j].addr = a}}
  <2>1. K \in SUBSET (1 .. Len(p))
    OBVIOUS
  <2> HIDE DEF m, K
  <2> QED
    BY <1>18, <2>1, MovedPackets
<1>20. \A a : Unacked(r, a) = Unacked(p, a) \
         {p[k].seq : k \in {j \in 1 .. n : p[j].attempts = 0 /\ p[j].addr = a}}
  <2>1. ASSUME NEW a
        PROVE  {j \in (1 .. Len(p)) \ K : p[j].addr = a}
                 = {j \in 1 .. n : p[j].attempts = 0 /\ p[j].addr = a}
    BY <1>2
  <2> QED
    BY <1>19, <2>1
<1>21. \A i \in 1 .. c + d : \E k \in 1 .. Len(p) : r[i].addr = p[k].addr
  <2> HIDE DEF m
  <2> QED
    BY <1>15
<1>22. \A i \in 1 .. c + d : i > c => r[i].ttl = SEND_TIMEOUT
  BY <1>9, <1>14
<1>23. ByDue(r)
  <2>1. ASSUME NEW i \in 1 .. c + d
        PROVE  r[i].ttl <= SEND_TIMEOUT
    <3>1. CASE i <= c
      <4>1. i \in 1 .. c
        BY <1>2, <1>12, <3>1
      <4> QED
        BY <1>13, <4>1 DEF ByDue
    <3>2. CASE i > c
      BY <1>22, <3>2, C2SAssumption
    <3> QED
      BY <1>2, <1>12, <3>1, <3>2
  <2>2. ASSUME NEW i \in 1 .. c + d, NEW j \in 1 .. c + d, i < j
        PROVE  r[i].ttl <= r[j].ttl
    <3>1. CASE j <= c
      <4>1. i \in 1 .. c /\ j \in 1 .. c /\ n + i < n + j
        BY <1>2, <1>12, <2>2, <3>1
      <4> QED
        BY <1>13, <4>1 DEF ByDue
    <3>2. CASE j > c
      BY <1>22, <2>1, <3>2
    <3> QED
      BY <1>2, <1>12, <3>1, <3>2
  <2> QED
    BY <1>11, <2>1, <2>2 DEF ByDue
<1>24. ASSUME \A k \in n + 1 .. Len(p) : p[k].ttl > 0, NEW i \in 1 .. c + d
       PROVE  r[i].ttl > 0
  <2>1. CASE i <= c
    <3>1. i \in 1 .. c
      BY <1>2, <1>12, <2>1
    <3>2. n + i \in n + 1 .. Len(p) /\ r[i] = p[n + i]
      BY <1>2, <1>13, <3>1
    <3> QED
      BY <1>24, <3>2
  <2>2. CASE i > c
    BY <1>22, <2>2, C2SAssumption
  <2> QED
    BY <1>2, <1>12, <2>1, <2>2
<1> QED
  BY <1>11, <1>19, <1>20, <1>21, <1>23, <1>24 DEF Tried

\* What time alone changes.
LEMMA Aging ==
  ASSUME IInv, NEW elapsed \in 1 .. KA_TIMEOUT,
         NEW t, t = [a \in DOMAIN sessions |-> Aged(sessions[a], elapsed)],
         NEW p, p = [i \in DOMAIN sendQueue |-> Aged(sendQueue[i], elapsed)]
  PROVE  /\ Views(t, sessionList, p) /\ DOMAIN t = DOMAIN sessions
         /\ Counted(t, numSessions, announced) /\ Connected(t)
<1>1. elapsed \in Int /\ elapsed > 0
  OBVIOUS
<1>2. DOMAIN t = DOMAIN sessions
  OBVIOUS
<1>3. ASSUME NEW a \in DOMAIN sessions
      PROVE  /\ t[a] \in Session
             /\ t[a].online = sessions[a].online /\ t[a].user = sessions[a].user
             /\ t[a].server = sessions[a].server /\ t[a].queue = sessions[a].queue
             /\ t[a].ttl = sessions[a].ttl - elapsed /\ sessions[a].ttl \in Int
  <2> DEFINE s == sessions[a]
  <2>1. s \in Session
    BY DEF IInv, Views, Table
  <2>2. t[a] = [s EXCEPT !.ttl = @ - elapsed]
    BY DEF Aged
  <2> HIDE DEF s
  <2>3. t[a] = [sid |-> s.sid, online |-> s.online, user |-> s.user, server |-> s.server,
                ttl |-> s.ttl - elapsed, sendSeq |-> s.sendSeq, queue |-> s.queue]
    BY <2>1, <2>2 DEF Session
  <2>4. /\ s.sid \in SIDs /\ s.online \in BOOLEAN /\ s.user \in Users \cup {NoUser}
        /\ s.server \in Servers \cup {NoServer} /\ s.sendSeq \in Seqs
        /\ s.queue \in Seq(Seqs) /\ s.ttl \in Int
    BY <2>1 DEF Session
  <2>5. s.ttl - elapsed \in Int
    BY <1>1, <2>4
  <2>6. [sid |-> s.sid, online |-> s.online, user |-> s.user, server |-> s.server,
         ttl |-> s.ttl - elapsed, sendSeq |-> s.sendSeq, queue |-> s.queue] \in Session
    BY <2>4, <2>5, Zenon DEF Session
  <2>7. t[a] \in Session
    BY <2>3, <2>6
  <2>8. /\ t[a].online = s.online /\ t[a].user = s.user /\ t[a].server = s.server
        /\ t[a].queue = s.queue /\ t[a].ttl = s.ttl - elapsed
    BY <2>3
  <2> QED
    BY <2>4, <2>7, <2>8 DEF s
<1>4. sendQueue \in Seq(Packet) /\ DOMAIN sendQueue = 1 .. Len(sendQueue)
      /\ Len(sendQueue) \in Nat
  BY DEF IInv, Views, Queued
<1>5. DOMAIN p = 1 .. Len(sendQueue)
  BY <1>4
<1>6. ASSUME NEW i \in 1 .. Len(sendQueue)
      PROVE  /\ p[i] \in Packet
             /\ p[i].addr = sendQueue[i].addr /\ p[i].seq = sendQueue[i].seq
             /\ p[i].ttl = sendQueue[i].ttl - elapsed /\ sendQueue[i].ttl \in Int
  <2> DEFINE x == sendQueue[i]
  <2>1. x \in Packet
    BY <1>4
  <2>2. p[i] = [x EXCEPT !.ttl = @ - elapsed]
    BY <1>4 DEF Aged
  <2> HIDE DEF x
  <2>3. p[i] = [addr |-> x.addr, seq |-> x.seq, attempts |-> x.attempts,
                ttl |-> x.ttl - elapsed]
    BY <2>1, <2>2 DEF Packet
  <2>4. /\ x.addr \in Addrs /\ x.seq \in Seqs /\ x.attempts \in 0 .. MAX_SEND_ATTEMPTS
        /\ x.ttl \in Int
    BY <2>1 DEF Packet
  <2>5. x.ttl - elapsed \in Int
    BY <1>1, <2>4
  <2>6. [addr |-> x.addr, seq |-> x.seq, attempts |-> x.attempts,
         ttl |-> x.ttl - elapsed] \in Packet
    BY <2>4, <2>5, Zenon DEF Packet
  <2>7. p[i] \in Packet
    BY <2>3, <2>6
  <2>8. p[i].addr = x.addr /\ p[i].seq = x.seq /\ p[i].ttl = x.ttl - elapsed
    BY <2>3
  <2> QED
    BY <2>4, <2>7, <2>8 DEF x
<1>7. p \in Seq(Packet) /\ Len(p) = Len(sendQueue)
  <2>1. p = [i \in 1 .. Len(sendQueue) |-> p[i]]
    BY <1>4
  <2>2. p \in [1 .. Len(sendQueue) -> Packet]
    BY <1>6, <2>1
  <2> QED
    BY <1>4, <2>2
<1>8. Table(t)
  BY <1>2, <1>3 DEF IInv, Views, Table
<1>9. ByExpiry(t, sessionList)
  <2>1. ByExpiry(sessions, sessionList)
    BY DEF IInv, Views
  <2>2. \A i \in 1 .. Len(sessionList) : sessionList[i] \in DOMAIN sessions
    BY <2>1 DEF ByExpiry, Chain, ToSet
  <2>3. \A a \in DOMAIN t : t[a].ttl <= KA_TIMEOUT
    BY <1>1, <1>2, <1>3, <2>1, C2SAssumption DEF ByExpiry
  <2>4. ASSUME NEW i \in 1 .. Len(sessionList), NEW j \in 1 .. Len(sessionList), i < j
        PROVE  t[sessionList[i]].ttl <= t[sessionList[j]].ttl
    <3>1. sessions[sessionList[i]].ttl <= sessions[sessionList[j]].ttl
      BY <2>1, <2>4 DEF ByExpiry
    <3> QED
      BY <1>1, <1>3, <2>2, <3>1
  <2> QED
    BY <1>2, <2>1, <2>3, <2>4 DEF ByExpiry
<1>10. Queued(t, p)
  <2>1. Queued(sessions, sendQueue)
    BY DEF IInv, Views
  <2>2. ASSUME NEW i \in 1 .. Len(p), NEW j \in 1 .. Len(p),
               p[i].addr = p[j].addr, p[i].seq = p[j].seq
        PROVE  i = j
    <3>1. i \in 1 .. Len(sendQueue) /\ j \in 1 .. Len(sendQueue)
      BY <1>7
    <3>2. sendQueue[i].addr = sendQueue[j].addr /\ sendQueue[i].seq = sendQueue[j].seq
      BY <1>6, <2>2, <3>1
    <3> QED
      BY <2>1, <3>1, <3>2 DEF Queued, Distinct
  <2>3. \A i \in 1 .. Len(p) : p[i].addr \in DOMAIN t
    BY <1>2, <1>6, <1>7, <2>1 DEF Queued
  <2>4. ASSUME NEW a
        PROVE  Unacked(p, a) = Unacked(sendQueue, a)
    <3>1. ASSUME NEW q \in Unacked(p, a)
          PROVE  q \in Unacked(sendQueue, a)
      <4>1. PICK i \in 1 .. Len(p) : p[i].addr = a /\ p[i].seq = q
        BY DEF Unacked
      <4>2. i \in 1 .. Len(sendQueue)
        BY <1>7
      <4>3. sendQueue[i].addr = a /\ sendQueue[i].seq = q
        BY <1>6, <4>1, <4>2
      <4> QED
        BY <4>2, <4>3 DEF Unacked
    <3>2. ASSUME NEW q \in Unacked(sendQueue, a)
          PROVE  q \in Unacked(p, a)
      <4>1. PICK i \in 1 .. Len(sendQueue) : sendQueue[i].addr = a /\ sendQueue[i].seq = q
        BY DEF Unacked
      <4>2. p[i].addr = a /\ p[i].seq = q /\ i \in 1 .. Len(p)
        BY <1>6, <1>7, <4>1
      <4> QED
        BY <4>2 DEF Unacked
    <3> QED
      BY <3>1, <3>2
  <2> QED
    BY <1>2, <1>3, <1>7, <2>1, <2>2, <2>3, <2>4 DEF Queued, Distinct
<1>11. ByDue(p)
  <2>1. ByDue(sendQueue)
    BY DEF IInv, Views
  <2>2. ASSUME NEW i \in 1 .. Len(p), NEW j \in 1 .. Len(p), i < j
        PROVE  p[i].ttl <= p[j].ttl
    <3>1. i \in 1 .. Len(sendQueue) /\ j \in 1 .. Len(sendQueue)
      BY <1>7
    <3>2. sendQueue[i].ttl <= sendQueue[j].ttl
      BY <2>1, <2>2, <3>1 DEF ByDue
    <3>3. /\ p[i].ttl = sendQueue[i].ttl - elapsed /\ sendQueue[i].ttl \in Int
          /\ p[j].ttl = sendQueue[j].ttl - elapsed /\ sendQueue[j].ttl \in Int
      BY <1>6, <3>1
    <3> QED
      BY <1>1, <3>2, <3>3
  <2>3. ASSUME NEW i \in 1 .. Len(p)
        PROVE  p[i].ttl <= SEND_TIMEOUT
    <3>1. i \in 1 .. Len(sendQueue)
      BY <1>7
    <3>2. sendQueue[i].ttl <= SEND_TIMEOUT
      BY <2>1, <3>1 DEF ByDue
    <3>3. p[i].ttl = sendQueue[i].ttl - elapsed /\ sendQueue[i].ttl \in Int
      BY <1>6, <3>1
    <3> QED
      BY <1>1, <3>2, <3>3, C2SAssumption
  <2> QED
    BY <2>2, <2>3 DEF ByDue
<1>12. Counted(t, numSessions, announced)
  <2>1. Counted(sessions, numSessions, announced)
    BY DEF IInv
  <2>2. \A a \in DOMAIN sessions : /\ t[a].online = sessions[a].online
                                   /\ t[a].user = sessions[a].user
                                   /\ t[a].server = sessions[a].server
    BY <1>3
  <2> QED
    BY <1>2, <2>1, <2>2, SameCounts
<1>13. Connected(t)
  BY <1>2, <1>3 DEF IInv, Connected
<1> QED
  BY <1>2, <1>8, <1>9, <1>10, <1>11, <1>12, <1>13 DEF Views

\* The packets the loop of OnTimer takes from the front of the send queue.
Taken(due, p, n) == due = SubSeq(p, 1, n)

\* A packet that is dropped leaves its session's queue too.
LEMMA Dropping ==
  ASSUME NEW t, NEW p, NEW n \in 0 .. Len(p), NEW due, NEW r, NEW u,
         Table(t), Queued(t, p), Taken(due, p, n), Tried(r, p, n),
         u = Dropped(t, due)
  PROVE  /\ DOMAIN u = DOMAIN t /\ Table(u) /\ Queued(u, r)
         /\ \A a \in DOMAIN t : /\ u[a].online = t[a].online /\ u[a].user = t[a].user
                                /\ u[a].server = t[a].server /\ u[a].ttl = t[a].ttl
<1> DEFINE dropped == {x \in ToSet(due) : x.attempts = 0}
           Lost(a) == {x.seq : x \in {d \in dropped : d.addr = a}}
<1>1. DOMAIN u = DOMAIN t /\ \A a \in DOMAIN t :
        u[a] = [t[a] EXCEPT !.queue = Without(@, Lost(a))]
  BY DEF Dropped
<1>2. DOMAIN due = 1 .. n /\ \A i \in 1 .. n : due[i] = p[i]
  <2>1. p \in Seq(Packet) /\ Len(p) \in Nat /\ DOMAIN p = 1 .. Len(p)
    BY DEF Queued
  <2>2. \A i \in 1 .. n : p[i] \in Packet
    BY <2>1
  <2> QED
    BY <2>1, <2>2 DEF Taken
<1>3. ASSUME NEW a
      PROVE  Lost(a) = {p[k].seq : k \in {j \in 1 .. n : p[j].attempts = 0 /\ p[j].addr = a}}
  <2>1. ToSet(due) = {p[k] : k \in 1 .. n}
    BY <1>2 DEF ToSet
  <2>2. ASSUME NEW q \in Lost(a)
        PROVE  \E k \in 1 .. n : p[k].attempts = 0 /\ p[k].addr = a /\ p[k].seq = q
    <3>1. PICK x \in ToSet(due) : x.attempts = 0 /\ x.addr = a /\ x.seq = q
      OBVIOUS
    <3> QED
      BY <2>1, <3>1
  <2>3. ASSUME NEW k \in 1 .. n, p[k].attempts = 0, p[k].addr = a
        PROVE  p[k].seq \in Lost(a)
    <3>1. p[k] \in ToSet(due)
      BY <2>1
    <3> QED
      BY <2>3, <3>1
  <2> HIDE DEF Lost
  <2> QED
    BY <2>2, <2>3
<1> HIDE DEF Lost, dropped
<1>4. ASSUME NEW a \in DOMAIN t
      PROVE  /\ u[a] \in Session /\ Chain(Seqs, u[a].queue, Unacked(r, a))
             /\ u[a].online = t[a].online /\ u[a].user = t[a].user
             /\ u[a].server = t[a].server /\ u[a].ttl = t[a].ttl
  <2> DEFINE s == t[a]
             q == Without(s.queue, Lost(a))
  <2>1. s \in Session
    BY DEF Table
  <2>2. Chain(Seqs, q, Unacked(p, a) \ Lost(a))
    BY WithoutChain DEF Queued
  <2>3. u[a] = [s EXCEPT !.queue = q]
    BY <1>1
  <2> HIDE DEF s, q
  <2>4. u[a] = [sid |-> s.sid, online |-> s.online, user |-> s.user, server |-> s.server,
                ttl |-> s.ttl, sendSeq |-> s.sendSeq, queue |-> q]
    BY <2>1, <2>3 DEF Session
  <2>5. /\ s.sid \in SIDs /\ s.online \in BOOLEAN /\ s.user \in Users \cup {NoUser}
        /\ s.server \in Servers \cup {NoServer} /\ s.sendSeq \in Seqs /\ s.ttl \in Int
    BY <2>1 DEF Session
  <2>6. q \in Seq(Seqs)
    BY <2>2 DEF Chain
  <2>7. [sid |-> s.sid, online |-> s.online, user |-> s.user, server |-> s.server,
         ttl |-> s.ttl, sendSeq |-> s.sendSeq, queue |-> q] \in Session
    BY <2>5, <2>6, Zenon DEF Session
  <2>8. u[a] \in Session
    BY <2>4, <2>7
  <2>9. /\ u[a].online = s.online /\ u[a].user = s.user /\ u[a].server = s.server
        /\ u[a].ttl = s.ttl /\ u[a].queue = q
    BY <2>4
  <2>10. Unacked(r, a) = Unacked(p, a) \ Lost(a)
    BY <1>3 DEF Tried
  <2> QED
    BY <2>2, <2>8, <2>9, <2>10 DEF s
<1>5. Table(u)
  BY <1>1, <1>4 DEF Table
<1>6. Queued(u, r)
  BY <1>1, <1>4 DEF Queued, Tried
<1> QED
  BY <1>1, <1>4, <1>5, <1>6

\* What is left of both queues is not due, for the queues are sorted.
LEMMA TickKeeps ==
  ASSUME IInv, NEW elapsed \in 1 .. KA_TIMEOUT, Tick(elapsed)
  PROVE  IInv'
<1> DEFINE packets == [i \in DOMAIN sendQueue |-> Aged(sendQueue[i], elapsed)]
           table == [a \in DOMAIN sessions |-> Aged(sessions[a], elapsed)]
           late == {x \in ToSet(packets) : x.ttl <= 0}
           over == {a \in DOMAIN table : table[a].ttl <= 0}
           due == Due(packets, late)
           rest == SubSeq(packets, Len(due) + 1, Len(packets))
           expired == Due(sessionList, over)
           r == CheckSendQueue(due, rest)
           u == Dropped(table, due)
<1>1. Destroy(ToSet(expired), u, sessionList, r) /\ UNCHANGED serverVars
  BY DEF Tick
<1>2. /\ Views(table, sessionList, packets) /\ DOMAIN table = DOMAIN sessions
      /\ Counted(table, numSessions, announced) /\ Connected(table)
  BY Aging
<1> HIDE DEF packets, table
<1>3. /\ packets \in Seq(Packet) /\ Len(packets) \in Nat /\ Distinct(packets)
      /\ DOMAIN packets = 1 .. Len(packets) /\ ByDue(packets)
  BY <1>2 DEF Views, Queued
<1>4. /\ sessionList \in Seq(Addrs) /\ Len(sessionList) \in Nat
      /\ DOMAIN sessionList = 1 .. Len(sessionList)
      /\ ToSet(sessionList) = DOMAIN table
  BY <1>2 DEF Views, ByExpiry, Chain
<1>5. \A i \in 1 .. Len(packets) : packets[i].ttl \in Int
                                   /\ (packets[i] \in late <=> packets[i].ttl <= 0)
  <2> SUFFICES ASSUME NEW i \in 1 .. Len(packets)
               PROVE  packets[i].ttl \in Int /\ (packets[i] \in late <=> packets[i].ttl <= 0)
    OBVIOUS
  <2>1. packets[i] \in Packet /\ packets[i] \in ToSet(packets)
    BY <1>3 DEF ToSet
  <2> QED
    BY <2>1 DEF Packet
<1>6. \A a \in DOMAIN table : table[a].ttl \in Int /\ (a \in over <=> table[a].ttl <= 0)
  BY <1>2 DEF Views, Table, Session
<1> HIDE DEF late, over
<1>7. PICK n \in 0 .. Len(packets) :
        /\ due = SubSeq(packets, 1, n)
        /\ n < Len(packets) => packets[n + 1] \notin late
  BY <1>3, DueTakes
<1>8. PICK k \in 0 .. Len(sessionList) :
        /\ expired = SubSeq(sessionList, 1, k)
        /\ k < Len(sessionList) => sessionList[k + 1] \notin over
  BY <1>4, DueTakes
<1> HIDE DEF due, expired
<1>9. Len(due) = n /\ n \in Nat
  <2>1. \A i \in 1 .. n : packets[i] \in Packet
    BY <1>3
  <2> QED
    BY <1>3, <1>7, <2>1
<1>10. rest = SubSeq(packets, n + 1, Len(packets))
  BY <1>9
<1> HIDE DEF rest
<1>11. /\ Tried(r, packets, n) /\ ByDue(r)
       /\ (\A j \in n + 1 .. Len(packets) : packets[j].ttl > 0)
            => \A i \in 1 .. Len(r) : r[i].ttl > 0
  BY <1>3, <1>7, <1>10, Checked
<1> HIDE DEF r
<1>12. /\ DOMAIN u = DOMAIN table /\ Table(u) /\ Queued(u, r)
       /\ \A a \in DOMAIN table :
            /\ u[a].online = table[a].online /\ u[a].user = table[a].user
            /\ u[a].server = table[a].server /\ u[a].ttl = table[a].ttl
  <2>1. Table(table) /\ Queued(table, packets)
    BY <1>2 DEF Views
  <2>2. u = Dropped(table, due)
    OBVIOUS
  <2> HIDE DEF u
  <2>3. Taken(due, packets, n) /\ Tried(r, packets, n)
    BY <1>7, <1>11 DEF Taken
  <2> QED
    BY <2>1, <2>2, <2>3, Dropping
<1> HIDE DEF u
<1>13. Views(u, sessionList, r)
  <2>1. ByExpiry(table, sessionList)
    BY <1>2 DEF Views
  <2>2. ByExpiry(u, sessionList)
    BY <1>12, <2>1, SameTimes
  <2> QED
    BY <1>11, <1>12, <2>2 DEF Views
<1>14. Counted(u, numSessions, announced)
  BY <1>2, <1>12, SameCounts
<1>15. Connected(u)
  BY <1>2, <1>12 DEF Connected
<1>16. \A i \in 1 .. Len(r) : r[i].ttl > 0
  <2>1. ASSUME NEW j \in n + 1 .. Len(packets)
        PROVE  packets[j].ttl > 0
    <3>1. j \in 1 .. Len(packets) /\ n + 1 \in 1 .. Len(packets) /\ n < Len(packets)
      BY <1>3, <1>9
    <3>2. packets[n + 1].ttl > 0 /\ packets[n + 1].ttl \in Int /\ packets[j].ttl \in Int
      BY <1>5, <1>7, <3>1
    <3>3. j = n + 1 \/ n + 1 < j
      BY <1>9
    <3>4. packets[n + 1].ttl <= packets[j].ttl
      BY <1>3, <3>1, <3>2, <3>3 DEF ByDue
    <3> QED
      BY <3>2, <3>4
  <2> QED
    BY <1>11, <2>1
<1>17. ToSet(expired) \in SUBSET DOMAIN u
       /\ \A i \in 1 .. k : sessionList[i] \in ToSet(expired)
  <2>1. \A i \in 1 .. k : i \in 1 .. Len(sessionList) /\ sessionList[i] \in Addrs
    BY <1>4
  <2>2. DOMAIN expired = 1 .. k /\ \A i \in 1 .. k : expired[i] = sessionList[i]
    BY <1>4, <1>8, <2>1
  <2>3. \A i \in 1 .. k : sessionList[i] \in DOMAIN table
    BY <1>4, <2>1 DEF ToSet
  <2> QED
    BY <1>12, <2>2, <2>3 DEF ToSet
<1>18. ASSUME NEW a \in DOMAIN u \ ToSet(expired)
       PROVE  u[a].ttl > 0
  <2>1. PICK j \in 1 .. Len(sessionList) : sessionList[j] = a
    BY <1>4, <1>12 DEF ToSet
  <2>2. k \in Nat /\ j > k
    BY <1>4, <1>17, <2>1
  <2>3. k + 1 \in 1 .. Len(sessionList) /\ k < Len(sessionList) /\ (j = k + 1 \/ k + 1 < j)
    BY <1>4, <2>1, <2>2
  <2>4. sessionList[k + 1] \in DOMAIN table
    BY <1>4, <2>3 DEF ToSet
  <2>5. table[sessionList[k + 1]].ttl > 0 /\ table[sessionList[k + 1]].ttl \in Int
    BY <1>6, <1>8, <2>3, <2>4
  <2>6. table[sessionList[k + 1]].ttl <= table[a].ttl
    BY <1>2, <2>1, <2>3, <2>5 DEF Views, ByExpiry
  <2>7. table[a].ttl \in Int /\ u[a].ttl = table[a].ttl
    BY <1>6, <1>12
  <2> QED
    BY <2>5, <2>6, <2>7
<1>19. Destroy(ToSet(expired), u, sessionList, r) /\ UNCHANGED serverVars
  BY <1>1
<1> DEFINE gone == ToSet(expired)
<1> HIDE DEF gone
<1>20. gone \in SUBSET DOMAIN u /\ (\A a \in DOMAIN u \ gone : u[a].ttl > 0)
       /\ Destroy(gone, u, sessionList, r)
  BY <1>17, <1>18, <1>19 DEF gone
<1> QED
  BY <1>13, <1>14, <1>15, <1>16, <1>19, <1>20, DestroyKeeps

-----------------------------------------------------------------------------
(***************************************************************************)
(* The invariant, and what follows from it.                                *)
(***************************************************************************)

LEMMA InitInv ==
  ASSUME Init
  PROVE  IInv
<1>1. /\ sessions = <<>> /\ sessionList = <<>> /\ sendQueue = <<>> /\ numSessions = 0
      /\ serverList = <<>> /\ curServer = NoServer
      /\ announced = [s \in Servers |-> [u \in Users |-> 0]]
  BY DEF Init
<1>2. DOMAIN sessions = {} /\ Len(sessionList) = 0 /\ Len(sendQueue) = 0
  BY <1>1
<1>3. Chain(Addrs, sessionList, DOMAIN sessions)
  BY <1>1 DEF Chain, IsInjective, ToSet
<1>4. Table(sessions) /\ ByExpiry(sessions, sessionList)
  BY <1>2, <1>3 DEF Table, ByExpiry
<1>5. Queued(sessions, sendQueue) /\ ByDue(sendQueue)
  <2>1. sendQueue \in Seq(Packet)
    BY <1>1
  <2> QED
    BY <1>2, <2>1 DEF Queued, Distinct, ByDue
<1>6. Running(sessions, sendQueue)
  BY <1>2 DEF Running
<1>7. Counted(sessions, numSessions, announced)
  <2>1. Online(sessions) = {} /\ \A s, u : Routed(sessions, s, u) = {}
    BY <1>2 DEF Online, Routed
  <2>2. Cardinality({}) = 0
    BY FS_EmptySet
  <2>3. announced \in [Servers -> [Users -> Int]]
        /\ \A s \in Servers, u \in Users : announced[s][u] = 0
    BY <1>1
  <2> QED
    BY <1>1, <2>1, <2>2, <2>3 DEF Counted
<1>8. Connected(sessions)
  <2>1. Chain(Servers, serverList, ToSet(serverList))
    BY <1>1 DEF Chain, IsInjective
  <2> QED
    BY <1>1, <1>2, <2>1 DEF Connected
<1> QED
  BY <1>4, <1>5, <1>6, <1>7, <1>8 DEF IInv, Views

LEMMA NextInv ==
  ASSUME IInv, [Next]_vars
  PROVE  IInv'
<1>1. ASSUME NEW a \in Addrs, NEW sid \in SIDs, OnIgnored(a, sid)
      PROVE  IInv'
  BY <1>1, OnIgnoredKeeps
<1>2. ASSUME NEW a \in Addrs, NEW sid \in SIDs, NEW ok \in BOOLEAN,
             OnRefusedOrRegister(a, sid, ok)
      PROVE  IInv'
  BY <1>2, OnRefusedOrRegisterKeeps
<1>3. ASSUME NEW a \in Addrs, NEW sid \in SIDs, NEW ok \in BOOLEAN, NEW user \in Users,
             OnLogin(a, sid, user, ok)
      PROVE  IInv'
  BY <1>3, OnLoginKeeps
<1>4. ASSUME NEW a \in DOMAIN sessions, NEW announce \in BOOLEAN, NEW ok \in BOOLEAN,
             OnKeepAlive(a, announce, ok)
      PROVE  IInv'
  BY <1>4, OnKeepAliveKeeps
<1>5. ASSUME NEW a \in DOMAIN sessions, OnLogout(a)
      PROVE  IInv'
  BY <1>5, OnLogoutKeeps
<1>6. ASSUME NEW a \in DOMAIN sessions, NEW seq \in Seqs, OnAck(a, seq)
      PROVE  IInv'
  BY <1>6, OnAckKeeps
<1>7. ASSUME NEW a \in DOMAIN sessions, NEW ok \in BOOLEAN, OnServerPacket(a, ok)
      PROVE  IInv'
  BY <1>7, OnServerPacketKeeps
<1>8. ASSUME NEW s \in Servers, AddServer(s)
      PROVE  IInv'
  BY <1>8, AddServerKeeps
<1>9. ASSUME NEW s \in Servers, RemoveServer(s)
      PROVE  IInv'
  BY <1>9, RemoveServerKeeps
<1>10. ASSUME NEW elapsed \in 1 .. KA_TIMEOUT, Tick(elapsed)
       PROVE  IInv'
  BY <1>10, TickKeeps
<1>11. CASE UNCHANGED vars
  <2>1. /\ sessions' = sessions /\ sessionList' = sessionList /\ sendQueue' = sendQueue
        /\ numSessions' = numSessions /\ announced' = announced
        /\ serverList' = serverList /\ curServer' = curServer
    BY <1>11 DEF vars, serverVars
  <2>2. Connected(sessions)'
    BY <2>1 DEF IInv, Connected
  <2> QED
    BY <2>1, <2>2 DEF IInv
<1> QED
  BY <1>1, <1>2, <1>3, <1>4, <1>5, <1>6, <1>7, <1>8, <1>9, <1>10, <1>11 DEF Next

LEMMA InvTypes ==
  ASSUME IInv
  PROVE  TypeOK
<1>1. /\ sessionList \in Seq(Addrs) /\ sendQueue \in Seq(Packet) /\ serverList \in Seq(Servers)
      /\ DOMAIN sessions \subseteq Addrs /\ \A a \in DOMAIN sessions : sessions[a] \in Session
  BY DEF IInv, Views, Table, ByExpiry, Queued, Connected, Chain
<1>2. curServer \in Servers \cup {NoServer}
  BY <1>1 DEF IInv, Connected, ToSet
<1>3. numSessions \in Int /\ announced \in [Servers -> [Users -> Int]]
  <2>1. IsFiniteSet(DOMAIN sessions)
    BY FiniteTable DEF IInv, Views
  <2>2. Online(sessions) \in SUBSET DOMAIN sessions
    BY DEF Online
  <2>3. Cardinality(Online(sessions)) \in Nat
    BY <2>1, <2>2, FS_Subset, FS_CardinalityType
  <2> QED
    BY <2>3 DEF IInv, Counted
<1> QED
  BY <1>1, <1>2, <1>3 DEF TypeOK

LEMMA InvQueues ==
  ASSUME IInv
  PROVE  QueuesAgree
<1> DEFINE global == [i \in DOMAIN sendQueue |-> <<sendQueue[i].addr, sendQueue[i].seq>>]
           own == UNION {{<<a, q>> : q \in ToSet(sessions[a].queue)} : a \in DOMAIN sessions}
<1>1. /\ Queued(sessions, sendQueue) /\ DOMAIN sendQueue = 1 .. Len(sendQueue)
      /\ \A a \in DOMAIN sessions : /\ IsInjective(sessions[a].queue)
                                    /\ ToSet(sessions[a].queue) = Unacked(sendQueue, a)
  BY DEF IInv, Views, Queued, Chain
<1>2. IsInjective(global)
  <2> SUFFICES ASSUME NEW i \in 1 .. Len(sendQueue), NEW j \in 1 .. Len(sendQueue),
                      global[i] = global[j]
               PROVE  i = j
    BY <1>1 DEF IsInjective
  <2>1. sendQueue[i].addr = sendQueue[j].addr /\ sendQueue[i].seq = sendQueue[j].seq
    BY <1>1
  <2> QED
    BY <1>1, <2>1 DEF Queued, Distinct
<1>3. ASSUME NEW x \in ToSet(global)
      PROVE  x \in own
  <2>1. PICK i \in 1 .. Len(sendQueue) : x = <<sendQueue[i].addr, sendQueue[i].seq>>
    BY <1>1 DEF ToSet
  <2> DEFINE a == sendQueue[i].addr
  <2>2. a \in DOMAIN sessions
    BY <1>1 DEF Queued
  <2>3. sendQueue[i].seq \in Unacked(sendQueue, a)
    BY DEF Unacked
  <2>4. sendQueue[i].seq \in ToSet(sessions[a].queue)
    BY <1>1, <2>2, <2>3
  <2> HIDE DEF a
  <2>5. x = <<a, sendQueue[i].seq>>
    BY <2>1 DEF a
  <2> QED
    BY <2>2, <2>4, <2>5
<1>4. ASSUME NEW a \in DOMAIN sessions, NEW q \in ToSet(sessions[a].queue)
      PROVE  <<a, q>> \in ToSet(global)
  <2>1. q \in Unacked(sendQueue, a)
    BY <1>1
  <2>2. PICK i \in 1 .. Len(sendQueue) : sendQueue[i].addr = a /\ sendQueue[i].seq = q
    BY <2>1 DEF Unacked
  <2>3. i \in DOMAIN global /\ global[i] = <<a, q>>
    BY <1>1, <2>2
  <2> QED
    BY <2>3 DEF ToSet
<1>5. ToSet(global) = own
  <2>1. \A x \in own : x \in ToSet(global)
    BY <1>4
  <2> HIDE DEF own, global
  <2> QED
    BY <1>3, <2>1
<1>6. IsInjective(sessionList) /\ ToSet(sessionList) = DOMAIN sessions
  BY DEF IInv, Views, ByExpiry, Chain
<1>7. /\ curServer \in ToSet(serverList) \cup {NoServer}
      /\ \A a \in DOMAIN sessions : sessions[a].server \in ToSet(serverList) \cup {NoServer}
  BY DEF IInv, Connected
<1> QED
  BY <1>1, <1>2, <1>5, <1>6, <1>7, InvTypes DEF QueuesAgree

LEMMA InvOverdue ==
  ASSUME IInv
  PROVE  NothingOverdue
<1>1. DOMAIN sendQueue = 1 .. Len(sendQueue)
  BY DEF IInv, Views, Queued
<1> QED
  BY <1>1 DEF IInv, Running, NothingOverdue

LEMMA InvAnnounced ==
  ASSUME IInv
  PROVE  AnnouncedExactly
BY DEF IInv, Counted, Routed, Online, AnnouncedExactly

LEMMA Invariance == Spec => []IInv
<1>1. Init => IInv
  BY InitInv
<1>2. IInv /\ [Next]_vars => IInv'
  BY NextInv
<1> QED
  BY <1>1, <1>2, PTL DEF Spec

\* C2S::sendQueue and the sessions' own queues hold the same packets, each once;
\* sessionList and the session hash the same sessions, each once; and no pointer
\* to a RealServer that was deleted is left.  Whatever order the logins, the
\* acknowledgements, the timeouts and the closed connections come in, and however
\* many there are, ~Session, onAck and checkSendQueue keep the views together.
THEOREM ViewsOfSessions == Spec => []QueuesAgree
<1>1. IInv => QueuesAgree
  BY InvQueues
<1> QED
  BY <1>1, Invariance, PTL

\* checkKeepAlive and checkSendQueue stop at the first item that is not due, and
\* miss nothing: both lists are sorted by expiry, for every timeout and however
\* long the loop was away.
THEOREM NothingMissed == Spec => []NothingOverdue
<1>1. IInv => NothingOverdue
  BY InvOverdue
<1> QED
  BY <1>1, Invariance, PTL

\* Every C2S_ADD_SESSION is undone once, and numSessions counts the users online.
THEOREM AnnouncementsExact == Spec => []AnnouncedExactly
<1>1. IInv => AnnouncedExactly
  BY InvAnnounced
<1> QED
  BY <1>1, Invariance, PTL
=============================================================================
