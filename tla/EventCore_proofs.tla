-------------------------- MODULE EventCore_proofs --------------------------
(***************************************************************************)
(* Proofs about two parts of a server.                                     *)
(*                                                                         *)
(* EventCore: for any number of threads, sessions, packets and restarts,   *)
(* the modules never see two events of one session at the same time, and a *)
(* packet from a client reaches them after the session's announcement and  *)
(* before its end, although it passes through a queue and although threads *)
(* are stopped and started again.  As long as no two changes of its        *)
(* refCount have crossed, the count of a session is exact and nothing      *)
(* refers to it once it is deleted.                                        *)
(*                                                                         *)
(* UpLink, in the last sections: the client-to-server transport, from type *)
(* correctness and the inductive invariants LinkInv and HeardInv to        *)
(* AtMostOnce and AckedMeansProcessed, for every window size, sequence     *)
(* space, retry limit and session length.                                  *)
(***************************************************************************)
EXTENDS EventCore, UpLink, ChainLemmas, FiniteSetTheorems, FunctionTheorems

SessionType == [name : Names, refs : Int, queue : Threads, freed : BOOLEAN]

\* The thread selectQueue has chosen for each session, which never changes.
owner == [s \in 1 .. Len(sess) |-> sess[s].queue]

Types ==
  /\ sess \in Seq(SessionType) /\ Len(sess) \in 0 .. MaxSessions
  /\ queue \in [Threads -> Seq(Item)]
  /\ state \in [Threads -> {"running", "exited", "gone"}]
  /\ pc \in [Procs -> {"ready", "handling", "adding", "posting", "releasing"}]
  /\ item \in [Threads -> Item] /\ out \in [Procs -> Item] /\ reg \in [Procs -> Int]
  /\ victim \in 0 .. NUM_THREADS
  /\ life \in [Sessions -> {"new", "open", "closed"}]
  /\ Chain(Sessions, hash, ToSet(hash)) /\ ToSet(hash) \subseteq DOMAIN owner

\* Event ev of session s waits in queue q.
Has(q, ev, s) == \E i \in 1 .. Len(q) : q[i].ev = ev /\ q[i].s = s

\* An event that may wait for thread t: it is of a session of that thread, or of none.
Belongs(x, t, o) == x.s # NULL => x.s \in DOMAIN o /\ o[x.s] = t

\* A packet from a client, posted by the main thread.
FromClient(x) == x.ev = "EV_S_OUT" /\ x.byMain

\* Queue q of thread t, where o are the owners and l what the modules were told: a
\* packet comes after the announcement of its session and before its end, and
\* nothing is announced behind an ExitItem.
Orderly(q, t, o, l) ==
  \A i \in 1 .. Len(q) :
    /\ Belongs(q[i], t, o)
    /\ FromClient(q[i]) =>
         /\ q[i].s # NULL
         /\ l[q[i].s] = "open" \/ \E j \in 1 .. i - 1 : q[j].ev = "EV_SESSION" /\ q[j].s = q[i].s
         /\ \A j \in 1 .. i - 1 : ~(q[j].ev = "EV_S_END" /\ q[j].s = q[i].s)
    /\ q[i].ev = "Exit" =>
         q[i].s = NULL /\ \A j \in i + 1 .. Len(q) : q[j].ev # "EV_SESSION"

QueuesOrderly == \A t \in Threads : Orderly(queue[t], t, owner, life)

HandlesOwn ==
  \A t \in Threads : pc[t] # "ready" =>
    /\ Belongs(item[t], t, owner)
    /\ FromClient(item[t]) => item[t].s # NULL /\ life[item[t].s] = "open"

\* The main thread tells of sessions, event threads only pass packets on.
Busy(p) == pc[p] \in {"adding", "posting"}
PostsOwn ==
  /\ pc[Main] \in {"ready", "adding", "posting"}
  /\ \A p \in Procs : Busy(p) => out[p].s \in DOMAIN owner \cup {NULL}
  /\ \A p \in Procs : pc[p] = "adding" => out[p].s # NULL
  /\ \A t \in Threads : Busy(t) => out[t].ev \in {"EV_S_IN", "EV_S_OUT"} /\ ~out[t].byMain
  /\ Busy(Main) => out[Main].s # NULL /\ out[Main].ev \in {"EV_SESSION", "EV_S_OUT", "EV_S_END"}
  /\ pc[Main] = "adding" => out[Main].ev = "EV_S_OUT"
  /\ Busy(Main) => (out[Main].ev = "EV_S_END" <=> out[Main].s \notin ToSet(hash))

\* The main thread is about to announce s.
Announces(s) == pc[Main] = "posting" /\ out[Main].ev = "EV_SESSION" /\ out[Main].s = s

\* A session in the hash was announced, or will be, and its end was not.
HashedLives ==
  \A s \in ToSet(hash) :
    /\ life[s] = "open" \/ Announces(s) \/ Has(queue[owner[s]], "EV_SESSION", s)
    /\ life[s] # "closed" /\ ~Has(queue[owner[s]], "EV_S_END", s)

\* destroyThreads keeps the main thread busy, tells one thread at a time, and
\* deletes no announcement.
RestartLosesNone ==
  /\ victim = 0 => \A t \in Threads : state[t] = "running"
  /\ victim # 0 => pc[Main] = "ready"
  /\ \A t \in Threads \ {victim} : \A i \in 1 .. Len(queue[t]) : queue[t][i].ev # "Exit"
  /\ \A t \in Threads : state[t] # "running" =>
       \A i \in 1 .. Len(queue[t]) : queue[t][i].ev # "EV_SESSION"

NotYet == \A s \in Sessions \ DOMAIN owner : life[s] = "new"

EventInv ==
  /\ Types /\ QueuesOrderly /\ HandlesOwn /\ PostsOwn
  /\ HashedLives /\ RestartLosesNone /\ NotYet

-----------------------------------------------------------------------------
(***************************************************************************)
(* Queues.                                                                 *)
(***************************************************************************)

LEMMA HasAppend ==
  ASSUME NEW q \in Seq(Item), NEW x \in Item, NEW ev, NEW s
  PROVE  Has(Append(q, x), ev, s) <=> Has(q, ev, s) \/ (x.ev = ev /\ x.s = s)
<1>1. /\ Len(Append(q, x)) = Len(q) + 1 /\ Len(q) \in Nat
      /\ \A i \in 1 .. Len(q) : Append(q, x)[i] = q[i]
      /\ Append(q, x)[Len(q) + 1] = x
  OBVIOUS
<1>2. 1 .. Len(Append(q, x)) = (1 .. Len(q)) \cup {Len(q) + 1}
  BY <1>1
<1> QED
  BY <1>1, <1>2, Zenon DEF Has

LEMMA TailOf ==
  ASSUME NEW q \in Seq(Item), q # <<>>
  PROVE  /\ Tail(q) \in Seq(Item) /\ Len(Tail(q)) = Len(q) - 1 /\ Len(q) \in Nat \ {0}
         /\ \A i \in 1 .. Len(q) - 1 : Tail(q)[i] = q[i + 1]
         /\ Head(q) = q[1] /\ Head(q) \in Item
OBVIOUS

LEMMA HasTail ==
  ASSUME NEW q \in Seq(Item), q # <<>>, NEW ev, NEW s
  PROVE  Has(q, ev, s) <=> Has(Tail(q), ev, s) \/ (Head(q).ev = ev /\ Head(q).s = s)
<1>1. ASSUME Has(Tail(q), ev, s)
      PROVE  Has(q, ev, s)
  <2>1. PICK i \in 1 .. Len(q) - 1 : Tail(q)[i].ev = ev /\ Tail(q)[i].s = s
    BY <1>1, TailOf DEF Has
  <2>2. i + 1 \in 1 .. Len(q) /\ Tail(q)[i] = q[i + 1]
    BY TailOf
  <2> QED
    BY <2>1, <2>2 DEF Has
<1>2. ASSUME Has(q, ev, s), ~(Head(q).ev = ev /\ Head(q).s = s)
      PROVE  Has(Tail(q), ev, s)
  <2>1. PICK i \in 1 .. Len(q) : q[i].ev = ev /\ q[i].s = s
    BY <1>2 DEF Has
  <2>2. i # 1
    BY <1>2, <2>1, TailOf
  <2>3. i - 1 \in 1 .. Len(Tail(q)) /\ Tail(q)[i - 1] = q[i]
    BY <2>2, TailOf
  <2> QED
    BY <2>1, <2>3 DEF Has
<1>3. Head(q).ev = ev /\ Head(q).s = s => Has(q, ev, s)
  <2>1. 1 \in 1 .. Len(q) /\ Head(q) = q[1]
    BY TailOf
  <2> QED
    BY <2>1 DEF Has
<1> QED
  BY <1>1, <1>2, <1>3

\* An event of the thread's own sessions joins the queue in order.
LEMMA AppendOrderly ==
  ASSUME NEW q \in Seq(Item), NEW t, NEW o, NEW l, NEW x \in Item,
         Orderly(q, t, o, l), Belongs(x, t, o),
         FromClient(x) => /\ x.s # NULL /\ ~Has(q, "EV_S_END", x.s)
                          /\ l[x.s] = "open" \/ Has(q, "EV_SESSION", x.s),
         x.ev = "EV_SESSION" => \A i \in 1 .. Len(q) : q[i].ev # "Exit",
         x.ev = "Exit" => x.s = NULL
  PROVE  Orderly(Append(q, x), t, o, l)
<1> DEFINE r == Append(q, x)
           n == Len(q)
<1>1. /\ Len(r) = n + 1 /\ n \in Nat /\ r[n + 1] = x
      /\ \A i \in 1 .. n : r[i] = q[i]
  OBVIOUS
<1> HIDE DEF r, n
<1>2. ASSUME NEW i \in 1 .. n
      PROVE  /\ Belongs(r[i], t, o)
             /\ FromClient(r[i]) =>
                  /\ r[i].s # NULL
                  /\ l[r[i].s] = "open" \/ \E j \in 1 .. i - 1 : r[j].ev = "EV_SESSION" /\ r[j].s = r[i].s
                  /\ \A j \in 1 .. i - 1 : ~(r[j].ev = "EV_S_END" /\ r[j].s = r[i].s)
             /\ r[i].ev = "Exit" =>
                  r[i].s = NULL /\ \A j \in i + 1 .. Len(r) : r[j].ev # "EV_SESSION"
  <2>1. r[i] = q[i] /\ \A j \in 1 .. i - 1 : r[j] = q[j]
    BY <1>1
  <2>2. Belongs(r[i], t, o)
    BY <2>1 DEF Orderly, n
  <2>3. FromClient(r[i]) =>
          /\ r[i].s # NULL
          /\ l[r[i].s] = "open" \/ \E j \in 1 .. i - 1 : r[j].ev = "EV_SESSION" /\ r[j].s = r[i].s
          /\ \A j \in 1 .. i - 1 : ~(r[j].ev = "EV_S_END" /\ r[j].s = r[i].s)
    <3>1. FromClient(q[i]) =>
            /\ q[i].s # NULL
            /\ l[q[i].s] = "open" \/ \E j \in 1 .. i - 1 : q[j].ev = "EV_SESSION" /\ q[j].s = q[i].s
            /\ \A j \in 1 .. i - 1 : ~(q[j].ev = "EV_S_END" /\ q[j].s = q[i].s)
      BY Zenon DEF Orderly, n
    <3> QED
      BY <2>1, <3>1, Zenon
  <2>4. ASSUME r[i].ev = "Exit", NEW j \in i + 1 .. Len(r)
        PROVE  r[j].ev # "EV_SESSION"
    <3>1. CASE j = n + 1
      BY <1>1, <2>1, <2>4, <3>1 DEF n
    <3>2. CASE j \in i + 1 .. n
      <4>1. r[j] = q[j]
        BY <1>1, <3>2
      <4> QED
        BY <2>1, <2>4, <3>2, <4>1 DEF Orderly, n
    <3> QED
      BY <1>1, <3>1, <3>2
  <2>5. r[i].ev = "Exit" => r[i].s = NULL
    BY <2>1 DEF Orderly, n
  <2> QED
    BY <2>2, <2>3, <2>4, <2>5
<1>3. /\ Belongs(x, t, o)
      /\ FromClient(x) =>
           /\ x.s # NULL
           /\ l[x.s] = "open" \/ \E j \in 1 .. n : r[j].ev = "EV_SESSION" /\ r[j].s = x.s
           /\ \A j \in 1 .. n : ~(r[j].ev = "EV_S_END" /\ r[j].s = x.s)
  BY <1>1, Zenon DEF Has, n
<1>5. 1 .. Len(r) = (1 .. n) \cup {n + 1}
  BY <1>1
<1>6. Orderly(r, t, o, l)
  <2> SUFFICES ASSUME NEW i \in 1 .. Len(r)
               PROVE  /\ Belongs(r[i], t, o)
                      /\ FromClient(r[i]) =>
                           /\ r[i].s # NULL
                           /\ l[r[i].s] = "open" \/ \E j \in 1 .. i - 1 : r[j].ev = "EV_SESSION" /\ r[j].s = r[i].s
                           /\ \A j \in 1 .. i - 1 : ~(r[j].ev = "EV_S_END" /\ r[j].s = r[i].s)
                      /\ r[i].ev = "Exit" =>
                           r[i].s = NULL /\ \A j \in i + 1 .. Len(r) : r[j].ev # "EV_SESSION"
    BY Zenon DEF Orderly
  <2>1. CASE i \in 1 .. n
    BY <1>2, <2>1, Zenon
  <2>2. CASE i = n + 1
    <3>1. i - 1 = n /\ i + 1 .. Len(r) = {} /\ r[i] = x
      BY <1>1, <2>2
    <3> QED
      BY <1>3, <3>1, Zenon
  <2> QED
    BY <1>5, <2>1, <2>2
<1> QED
  BY <1>6 DEF r

\* The head of the queue is taken, and the modules are told of it: l becomes m.
LEMMA TailOrderly ==
  ASSUME NEW q \in Seq(Item), q # <<>>, NEW t, NEW o, NEW l, NEW m,
         Orderly(q, t, o, l),
         Head(q).ev = "EV_SESSION" /\ Head(q).s # NULL => m[Head(q).s] = "open",
         \A s \in DOMAIN o : (s = Head(q).s => Head(q).ev \notin {"EV_SESSION", "EV_S_END"}) => m[s] = l[s]
  PROVE  Orderly(Tail(q), t, o, m)
<1> DEFINE r == Tail(q)
           x == Head(q)
<1>1. /\ Len(r) = Len(q) - 1 /\ Len(q) \in Nat \ {0} /\ x = q[1]
      /\ \A i \in 1 .. Len(q) - 1 : r[i] = q[i + 1]
  BY TailOf
<1> HIDE DEF r, x
<1> SUFFICES ASSUME NEW i \in 1 .. Len(q) - 1
             PROVE  /\ Belongs(r[i], t, o)
                    /\ FromClient(r[i]) =>
                         /\ r[i].s # NULL
                         /\ m[r[i].s] = "open" \/ \E j \in 1 .. i - 1 : r[j].ev = "EV_SESSION" /\ r[j].s = r[i].s
                         /\ \A j \in 1 .. i - 1 : ~(r[j].ev = "EV_S_END" /\ r[j].s = r[i].s)
                    /\ r[i].ev = "Exit" =>
                         r[i].s = NULL /\ \A j \in i + 1 .. Len(r) : r[j].ev # "EV_SESSION"
  BY <1>1, Zenon DEF Orderly, r
<1>2. i + 1 \in 1 .. Len(q) /\ r[i] = q[i + 1] /\ 1 \in 1 .. (i + 1) - 1
  BY <1>1
<1>3. \A j \in 1 .. i - 1 : j + 1 \in 1 .. (i + 1) - 1 /\ r[j] = q[j + 1]
  BY <1>1
<1>4. \A j \in 1 .. (i + 1) - 1 : j # 1 => j - 1 \in 1 .. i - 1 /\ r[j - 1] = q[j]
  BY <1>1
<1>5. Belongs(r[i], t, o)
  BY <1>2 DEF Orderly
<1>6. ASSUME FromClient(r[i])
      PROVE  /\ r[i].s # NULL
             /\ m[r[i].s] = "open" \/ \E j \in 1 .. i - 1 : r[j].ev = "EV_SESSION" /\ r[j].s = r[i].s
             /\ \A j \in 1 .. i - 1 : ~(r[j].ev = "EV_S_END" /\ r[j].s = r[i].s)
  <2> DEFINE s == r[i].s
  <2>1. /\ s # NULL
        /\ l[s] = "open" \/ \E j \in 1 .. (i + 1) - 1 : q[j].ev = "EV_SESSION" /\ q[j].s = s
        /\ \A j \in 1 .. (i + 1) - 1 : ~(q[j].ev = "EV_S_END" /\ q[j].s = s)
    <3>1. FromClient(q[i + 1]) =>
            /\ q[i + 1].s # NULL
            /\ l[q[i + 1].s] = "open"
                 \/ \E j \in 1 .. (i + 1) - 1 : q[j].ev = "EV_SESSION" /\ q[j].s = q[i + 1].s
            /\ \A j \in 1 .. (i + 1) - 1 : ~(q[j].ev = "EV_S_END" /\ q[j].s = q[i + 1].s)
      BY <1>2, Zenon DEF Orderly
    <3> QED
      BY <1>2, <1>6, <3>1, Zenon
  <2>2. s \in DOMAIN o
    BY <1>5, <2>1 DEF Belongs
  <2> HIDE DEF s
  <2>3. ~(x.ev = "EV_S_END" /\ x.s = s)
    BY <1>1, <1>2, <2>1
  <2>4. \A j \in 1 .. i - 1 : ~(r[j].ev = "EV_S_END" /\ r[j].s = s)
    BY <1>3, <2>1, Zenon
  <2>5. CASE x.ev = "EV_SESSION" /\ x.s = s
    BY <2>1, <2>4, <2>5 DEF x, s
  <2>6. CASE ~(x.ev = "EV_SESSION" /\ x.s = s)
    <3>1. m[s] = l[s]
      BY <2>2, <2>3, <2>6 DEF x
    <3>2. ASSUME NEW j \in 1 .. (i + 1) - 1, q[j].ev = "EV_SESSION", q[j].s = s
          PROVE  \E k \in 1 .. i - 1 : r[k].ev = "EV_SESSION" /\ r[k].s = s
      <4>1. j # 1
        BY <1>1, <2>6, <3>2
      <4> QED
        BY <1>4, <3>2, <4>1, Zenon
    <3> QED
      BY <2>1, <2>4, <3>1, <3>2, Zenon DEF s
  <2> QED
    BY <2>5, <2>6
<1>7. ASSUME r[i].ev = "Exit", NEW j \in i + 1 .. Len(r)
      PROVE  r[j].ev # "EV_SESSION"
  <2>1. j + 1 \in (i + 1) + 1 .. Len(q) /\ r[j] = q[j + 1]
    BY <1>1, <1>7
  <2> QED
    BY <1>2, <1>7, <2>1 DEF Orderly
<1>8. r[i].ev = "Exit" => r[i].s = NULL
  BY <1>2 DEF Orderly
<1> QED
  BY <1>5, <1>6, <1>7, <1>8

\* What becomes of other threads' sessions does not matter, nor do new ones.
LEMMA SameOrderly ==
  ASSUME NEW q, NEW t, NEW o, NEW l, NEW p, NEW m, Orderly(q, t, o, l),
         \A s \in DOMAIN o : s \in DOMAIN p /\ p[s] = o[s] /\ (o[s] = t => m[s] = l[s])
  PROVE  Orderly(q, t, p, m)
<1> SUFFICES ASSUME NEW i \in 1 .. Len(q)
             PROVE  /\ Belongs(q[i], t, p)
                    /\ FromClient(q[i]) => q[i].s # NULL /\ m[q[i].s] = l[q[i].s]
  BY Zenon DEF Orderly
<1>1. Belongs(q[i], t, o) /\ (FromClient(q[i]) => q[i].s # NULL)
  BY Zenon DEF Orderly
<1> QED
  BY <1>1, Zenon DEF Belongs

\* A queue that was deleted and made anew.
LEMMA EmptyOrderly ==
  ASSUME NEW t, NEW o, NEW l
  PROVE  Orderly(<<>>, t, o, l)
<1>1. 1 .. Len(<<>>) = {}
  OBVIOUS
<1> QED
  BY <1>1 DEF Orderly

-----------------------------------------------------------------------------
(***************************************************************************)
(* The invariant.                                                          *)
(***************************************************************************)

LEMMA Kinds ==
  /\ Main \notin Threads /\ Main \in Procs /\ Threads \subseteq Procs /\ Procs = Threads \cup {Main}
  /\ NULL \notin Sessions /\ Main = 0 /\ NULL = 0
  /\ NUM_THREADS \in Nat \ {0} /\ Threads = 1 .. NUM_THREADS
  /\ MaxSessions \in Nat /\ Sessions = 1 .. MaxSessions
BY EventCoreAssumption, SMT DEF Main, NULL, Procs, Threads, Sessions

LEMMA Owners ==
  ASSUME Types
  PROVE  /\ DOMAIN owner = 1 .. Len(sess) /\ DOMAIN owner \subseteq Sessions
         /\ NULL \notin DOMAIN owner
         /\ \A s \in DOMAIN owner : owner[s] = sess[s].queue /\ owner[s] \in Threads
<1>1. Len(sess) \in Nat /\ Len(sess) <= MaxSessions /\ MaxSessions \in Nat
  BY Kinds DEF Types
<1>2. \A s \in 1 .. Len(sess) : sess[s] \in SessionType
  BY DEF Types
<1>3. \A s \in 1 .. Len(sess) : sess[s].queue \in Threads
  BY <1>2 DEF SessionType
<1>4. DOMAIN owner = 1 .. Len(sess) /\ \A s \in 1 .. Len(sess) : owner[s] = sess[s].queue
  BY DEF owner
<1>5. 1 .. Len(sess) \subseteq 1 .. MaxSessions /\ 0 \notin 1 .. Len(sess)
  BY <1>1
<1> QED
  BY <1>3, <1>4, <1>5 DEF Sessions, NULL

\* What SessionHash::get finds is in the hash.
LEMMA Found ==
  ASSUME Types, NEW name, Find(name) # NULL
  PROVE  /\ Find(name) \in ToSet(hash) /\ Find(name) \in DOMAIN owner
         /\ Find(name) \in Sessions
<1> DEFINE Named(s) == sess[s].name = name
           I == {i \in 1 .. Len(hash) : Named(hash[i])}
<1>1. hash \in Seq(Sessions) /\ DOMAIN hash = 1 .. Len(hash)
  BY DEF Types, Chain
<1>2. SelectInSeq(hash, Named) = IF I # {} THEN Min(I) ELSE 0
  BY DEF SelectInSeq
<1>3. I # {}
  BY <1>2 DEF Find, NULL
<1>4. Min(I) \in I
  <2>1. I \in SUBSET Nat
    OBVIOUS
  <2> HIDE DEF I
  <2> QED
    BY <1>3, <2>1, MinExists
<1>5. Min(I) \in 1 .. Len(hash) /\ Min(I) # 0
  BY <1>4
<1>6. Find(name) = hash[Min(I)]
  BY <1>2, <1>3, <1>5 DEF Find
<1>7. Find(name) \in ToSet(hash)
  BY <1>1, <1>5, <1>6 DEF ToSet
<1> QED
  BY <1>7, Owners DEF Types

LEMMA EventInit == CoreInit => EventInv
<1> SUFFICES ASSUME CoreInit
             PROVE  EventInv
  OBVIOUS
<1>1. /\ sess = <<>> /\ hash = <<>> /\ victim = 0
      /\ queue = [t \in Threads |-> <<>>] /\ state = [t \in Threads |-> "running"]
      /\ pc = [p \in Procs |-> "ready"] /\ life = [s \in Sessions |-> "new"]
      /\ item = [t \in Threads |-> NoItem] /\ out = [p \in Procs |-> NoItem]
      /\ reg = [p \in Procs |-> 0]
  BY DEF CoreInit
<1>2. NoItem \in Item
  BY Zenon DEF NoItem, Item, Event
<1>3. Len(<<>>) = 0 /\ 1 .. 0 = {}
  OBVIOUS
<1>4. \A p \in Procs : pc[p] = "ready"
  BY <1>1
<1>5. \A t \in Threads : queue[t] = <<>> /\ state[t] = "running"
  BY <1>1
<1>6. ToSet(hash) = {} /\ Chain(Sessions, hash, ToSet(hash))
  BY <1>1 DEF Chain, ToSet, IsInjective
<1>7. Types
  <2>1. sess \in Seq(SessionType) /\ Len(sess) \in 0 .. MaxSessions
    BY <1>1, <1>3, Kinds
  <2>2. queue \in [Threads -> Seq(Item)]
    BY <1>1
  <2>3. item \in [Threads -> Item] /\ out \in [Procs -> Item]
    BY <1>1, <1>2
  <2>4. victim \in 0 .. NUM_THREADS /\ reg \in [Procs -> Int]
    BY <1>1, Kinds
  <2> QED
    BY <1>1, <1>6, <2>1, <2>2, <2>3, <2>4 DEF Types
<1>8. QueuesOrderly
  BY <1>5, EmptyOrderly DEF QueuesOrderly
<1>9. HandlesOwn
  BY <1>4, Kinds DEF HandlesOwn
<1>10. PostsOwn
  BY <1>4, Kinds DEF PostsOwn, Busy
<1>11. HashedLives
  BY <1>6 DEF HashedLives
<1>12. RestartLosesNone
  BY <1>1, <1>3, <1>5 DEF RestartLosesNone
<1>13. NotYet
  BY <1>1 DEF NotYet
<1> QED
  BY <1>7, <1>8, <1>9, <1>10, <1>11, <1>12, <1>13 DEF EventInv

\* A reference counted or dropped leaves the session to its thread.
LEMMA RefsOnly ==
  ASSUME Types, NEW s \in DOMAIN owner, NEW r \in SessionType, r.queue = sess[s].queue,
         sess' = [sess EXCEPT ![s] = r]
  PROVE  sess' \in Seq(SessionType) /\ Len(sess') \in 0 .. MaxSessions /\ owner' = owner
<1>1. s \in 1 .. Len(sess) /\ sess \in Seq(SessionType)
  BY Owners DEF Types
<1>2. sess' \in Seq(SessionType) /\ Len(sess') = Len(sess)
  BY <1>1
<1>3. \A u \in 1 .. Len(sess) : sess'[u].queue = sess[u].queue
  BY <1>1
<1>4. owner' = owner
  BY <1>2, <1>3 DEF owner
<1> QED
  BY <1>2, <1>4 DEF Types

-----------------------------------------------------------------------------
(***************************************************************************)
(* Each action keeps the invariant.                                        *)
(***************************************************************************)

\* A step of p between two of its events: no queue and no session changes hands.
LEMMA LocalStep ==
  ASSUME EventInv, NEW p \in Procs, pc[p] # "ready" \/ (p = Main /\ victim = 0),
         p = Main => pc[p] # "posting",
         sess' \in Seq(SessionType), Len(sess') \in 0 .. MaxSessions, owner' = owner,
         UNCHANGED <<hash, queue, state, victim, item, life>>,
         NEW v \in {"ready", "handling", "adding", "posting", "releasing"},
         pc' = [pc EXCEPT ![p] = v],
         out' \in [Procs -> Item], reg' \in [Procs -> Int],
         \A q \in Procs \ {p} : out'[q] = out[q],
         v \in {"adding", "posting"} => out'[p].s \in DOMAIN owner \cup {NULL},
         v = "adding" => out'[p].s # NULL,
         p \in Threads /\ v \in {"adding", "posting"} =>
           out'[p].ev \in {"EV_S_IN", "EV_S_OUT"} /\ ~out'[p].byMain,
         p = Main => v \in {"adding", "posting"} /\ out'[p].ev = "EV_S_OUT" /\ out'[p].s \in ToSet(hash)
  PROVE  EventInv'
<1>1. pc'[p] = v /\ \A q \in Procs \ {p} : pc'[q] = pc[q]
  BY DEF EventInv, Types
<1>2. pc' \in [Procs -> {"ready", "handling", "adding", "posting", "releasing"}]
  BY DEF EventInv, Types
<1>3. Types'
  BY <1>2 DEF EventInv, Types
<1>4. QueuesOrderly'
  BY DEF EventInv, QueuesOrderly
<1>5. HandlesOwn'
  <2> SUFFICES ASSUME NEW t \in Threads, pc'[t] # "ready"
               PROVE  /\ Belongs(item[t], t, owner)
                      /\ FromClient(item[t]) => item[t].s # NULL /\ life[item[t].s] = "open"
    BY DEF HandlesOwn
  <2>1. t \in Procs /\ t # Main
    BY Kinds
  <2>2. pc[t] # "ready"
    BY <1>1, <2>1
  <2> QED
    BY <2>2 DEF EventInv, HandlesOwn
<1>6. PostsOwn'
  <2>1. pc'[Main] \in {"ready", "adding", "posting"}
    BY <1>1, Kinds DEF EventInv, PostsOwn
  <2>2. \A q \in Procs : Busy(q)' => out'[q].s \in DOMAIN owner' \cup {NULL}
    BY <1>1 DEF EventInv, PostsOwn, Busy
  <2>3. \A q \in Procs : pc'[q] = "adding" => out'[q].s # NULL
    BY <1>1 DEF EventInv, PostsOwn
  <2>4. \A t \in Threads : Busy(t)' => out'[t].ev \in {"EV_S_IN", "EV_S_OUT"} /\ ~out'[t].byMain
    <3> TAKE t \in Threads
    <3>1. t \in Procs
      BY Kinds
    <3>2. CASE t = p
      BY <1>1, <3>2 DEF Busy
    <3>3. CASE t # p
      BY <1>1, <3>1, <3>3, Zenon DEF EventInv, PostsOwn, Busy
    <3> QED
      BY <3>2, <3>3
  <2>5. CASE p = Main
    <3>1. out'[Main].s # NULL
      BY <2>5, Owners DEF EventInv, Types
    <3> QED
      BY <1>1, <2>1, <2>2, <2>3, <2>4, <2>5, <3>1 DEF PostsOwn
  <2>6. CASE p # Main
    <3>1. pc'[Main] = pc[Main] /\ out'[Main] = out[Main]
      BY <1>1, <2>6, Kinds
    <3> QED
      BY <2>1, <2>2, <2>3, <2>4, <3>1 DEF EventInv, PostsOwn, Busy
  <2> QED
    BY <2>5, <2>6
<1>7. HashedLives'
  <2>1. \A s : Announces(s) => Announces(s)'
    BY <1>1, Kinds DEF Announces
  <2> QED
    BY <2>1 DEF EventInv, HashedLives
<1>8. RestartLosesNone'
  BY <1>1, Kinds DEF EventInv, RestartLosesNone
<1>9. NotYet'
  BY DEF EventInv, NotYet
<1> QED
  BY <1>3, <1>4, <1>5, <1>6, <1>7, <1>8, <1>9 DEF EventInv

LEMMA GetKeeps ==
  ASSUME EventInv, NEW p \in Procs, NEW name \in Names, NEW ev \in {"EV_S_IN", "EV_S_OUT"},
         p = Main => ev = "EV_S_OUT", Get(p, name, ev)
  PROVE  EventInv'
<1> DEFINE s == Find(name)
           x == [ev |-> ev, s |-> s, byMain |-> p = Main]
<1>0. Types
  BY DEF EventInv
<1>1. s \in ToSet(hash) /\ s \in DOMAIN owner /\ s \in Sessions /\ s # NULL
  BY <1>0, Found DEF Get
<1>2. /\ out' = [out EXCEPT ![p] = x] /\ reg' = [reg EXCEPT ![p] = sess[s].refs]
      /\ pc' = [pc EXCEPT ![p] = "adding"]
      /\ UNCHANGED <<sess, hash, queue, state, victim, item, life>>
  BY DEF Get, threadVars, refVars
<1>3. (p = Main /\ pc[p] = "ready" /\ victim = 0) \/ (p # Main /\ pc[p] = "handling")
  BY DEF Get, MaySend
<1> HIDE DEF s
<1>4. x \in Item
  <2>1. ev \in Event /\ s \in Sessions \cup {NULL} /\ (p = Main) \in BOOLEAN
    BY <1>1 DEF Event
  <2> QED
    BY <2>1, Zenon DEF Item
<1>5. sess[s].refs \in Int
  <2>1. sess[s] \in SessionType
    BY <1>0, <1>1, Owners DEF Types
  <2> QED
    BY <2>1 DEF SessionType
<1>6. x.ev = ev /\ x.s = s /\ (p # Main => ~x.byMain)
  BY Zenon
<1> HIDE DEF x
<1>7. out' \in [Procs -> Item] /\ out'[p] = x /\ \A q \in Procs \ {p} : out'[q] = out[q]
  BY <1>0, <1>2, <1>4 DEF Types
<1>8. reg' \in [Procs -> Int]
  BY <1>0, <1>2, <1>5 DEF Types
<1>9. sess' \in Seq(SessionType) /\ Len(sess') \in 0 .. MaxSessions /\ owner' = owner
  BY <1>0, <1>2 DEF Types, owner
<1> QED
  BY <1>1, <1>2, <1>3, <1>6, <1>7, <1>8, <1>9, Kinds, LocalStep

LEMMA AddRefKeeps ==
  ASSUME EventInv, NEW p \in Procs, AddRef(p)
  PROVE  EventInv'
<1> DEFINE s == out[p].s
           r == [sess[s] EXCEPT !.refs = Counted(reg[p])]
<1>0. Types
  BY DEF EventInv
<1>1. /\ pc[p] = "adding" /\ sess' = [sess EXCEPT ![s] = r] /\ pc' = [pc EXCEPT ![p] = "posting"]
      /\ UNCHANGED <<hash, queue, state, victim, item, out, reg, life>>
  BY DEF AddRef, threadVars, history
<1>2. s \in DOMAIN owner /\ s # NULL
  BY <1>1 DEF EventInv, PostsOwn, Busy
<1>3. sess[s] \in SessionType
  BY <1>0, <1>2, Owners DEF Types
<1>4. Counted(reg[p]) \in Int
  <2>1. reg[p] \in Int /\ sess[s].refs \in Int
    BY <1>0, <1>3 DEF Types, SessionType
  <2> QED
    BY <2>1 DEF Counted
<1>5. r \in SessionType /\ r.queue = sess[s].queue
  BY <1>3, <1>4 DEF SessionType
<1> HIDE DEF r, s
<1>6. sess' \in Seq(SessionType) /\ Len(sess') \in 0 .. MaxSessions /\ owner' = owner
  BY <1>0, <1>1, <1>2, <1>5, RefsOnly
<1>7. out' \in [Procs -> Item] /\ reg' \in [Procs -> Int]
  BY <1>0, <1>1 DEF Types
<1>8. /\ out[p].s \in DOMAIN owner
      /\ p \in Threads => out[p].ev \in {"EV_S_IN", "EV_S_OUT"} /\ ~out[p].byMain
  BY <1>1, <1>2 DEF EventInv, PostsOwn, Busy, s
<1>9. p = Main => out[p].ev = "EV_S_OUT" /\ out[p].s \in ToSet(hash)
  <2>1. p = Main => out[p].ev = "EV_S_OUT"
    BY <1>1 DEF EventInv, PostsOwn
  <2>2. p = Main => out[p].s \in ToSet(hash)
    BY <1>1, <2>1 DEF EventInv, PostsOwn, Busy
  <2> QED
    BY <2>1, <2>2
<1> QED
  BY <1>1, <1>6, <1>7, <1>8, <1>9, LocalStep

LEMMA OfflineKeeps ==
  ASSUME EventInv, NEW t \in Threads, NEW name \in Names, NEW ev \in {"EV_S_IN", "EV_S_OUT"},
         DeliverOffline(t, name, ev)
  PROVE  EventInv'
<1> DEFINE x == [ev |-> ev, s |-> NULL, byMain |-> FALSE]
<1>0. Types /\ t \in Procs /\ t # Main
  BY Kinds DEF EventInv
<1>1. /\ out' = [out EXCEPT ![t] = x] /\ pc' = [pc EXCEPT ![t] = "posting"] /\ pc[t] = "handling"
      /\ UNCHANGED <<sess, hash, queue, state, victim, item, reg, life>>
  BY <1>0 DEF DeliverOffline, threadVars, hashVars, refVars, MaySend
<1>2. x \in Item
  <2>1. ev \in Event
    BY DEF Event
  <2> QED
    BY <2>1, Zenon DEF Item
<1>3. x.ev = ev /\ x.s = NULL /\ ~x.byMain
  OBVIOUS
<1> HIDE DEF x
<1>4. out' \in [Procs -> Item] /\ out'[t] = x /\ \A q \in Procs \ {t} : out'[q] = out[q]
  BY <1>0, <1>1, <1>2 DEF Types
<1>5. sess' \in Seq(SessionType) /\ Len(sess') \in 0 .. MaxSessions /\ owner' = owner /\ reg' \in [Procs -> Int]
  BY <1>0, <1>1 DEF Types, owner
<1> QED
  BY <1>0, <1>1, <1>3, <1>4, <1>5, LocalStep

LEMMA FinishKeeps ==
  ASSUME EventInv, NEW t \in Threads, Finish(t)
  PROVE  EventInv'
<1> DEFINE s == item[t].s
           v == IF s = NULL THEN "ready" ELSE "releasing"
<1>0. Types /\ t \in Procs /\ t # Main
  BY Kinds DEF EventInv
<1>1. /\ pc[t] = "handling" /\ pc' = [pc EXCEPT ![t] = v]
      /\ s # NULL => reg' = [reg EXCEPT ![t] = sess[s].refs]
      /\ s = NULL => reg' = reg
      /\ UNCHANGED <<sess, hash, queue, state, victim, item, out, life>>
  BY DEF Finish, hashVars, refVars, threadVars, history
<1>2. s # NULL => s \in DOMAIN owner
  BY <1>1 DEF EventInv, HandlesOwn, Belongs
<1>3. s # NULL => sess[s].refs \in Int
  <2>1. s # NULL => sess[s] \in SessionType
    BY <1>0, <1>2, Owners DEF Types
  <2> QED
    BY <2>1 DEF SessionType
<1>4. reg' \in [Procs -> Int]
  BY <1>0, <1>1, <1>3 DEF Types
<1>5. v \in {"ready", "handling", "adding", "posting", "releasing"} \ {"adding", "posting"}
  OBVIOUS
<1>6. /\ sess' \in Seq(SessionType) /\ Len(sess') \in 0 .. MaxSessions /\ owner' = owner
      /\ out' \in [Procs -> Item]
  BY <1>0, <1>1 DEF Types, owner
<1> HIDE DEF v
<1> QED
  BY <1>0, <1>1, <1>4, <1>5, <1>6, LocalStep

LEMMA ReleaseKeeps ==
  ASSUME EventInv, NEW t \in Threads, Release(t)
  PROVE  EventInv'
<1> DEFINE s == item[t].s
           r == Dropped(sess[s], reg[t])
<1>0. Types /\ t \in Procs /\ t # Main
  BY Kinds DEF EventInv
<1>1. /\ pc[t] = "releasing" /\ sess' = [sess EXCEPT ![s] = r] /\ pc' = [pc EXCEPT ![t] = "ready"]
      /\ UNCHANGED <<hash, queue, state, victim, item, out, reg, life>>
  BY DEF Release, threadVars, history
<1>2. CASE s \in DOMAIN owner
  <2>1. sess[s] \in SessionType
    BY <1>0, <1>2, Owners DEF Types
  <2>2. reg[t] \in Int
    <3>1. reg[t] \in Int /\ sess[s].refs \in Int
      BY <1>0, <2>1 DEF Types, SessionType
    <3> QED
      BY <3>1
  <2>3. r \in SessionType /\ r.queue = sess[s].queue
    <3> DEFINE n == reg[t] - 1
               b == sess[s].freed \/ reg[t] = 1
    <3>1. n \in Int /\ b \in BOOLEAN
      BY <2>2
    <3>2. r = [[sess[s] EXCEPT !.refs = n] EXCEPT !.freed = b]
      BY Zenon DEF Dropped
    <3> HIDE DEF n, b, r
    <3>3. [sess[s] EXCEPT !.refs = n] \in SessionType /\ [sess[s] EXCEPT !.refs = n].queue = sess[s].queue
      BY <2>1, <3>1 DEF SessionType
    <3> QED
      BY <3>1, <3>2, <3>3, Zenon DEF SessionType
  <2> HIDE DEF r, s
  <2>4. sess' \in Seq(SessionType) /\ Len(sess') \in 0 .. MaxSessions /\ owner' = owner
    BY <1>0, <1>1, <1>2, <2>3, RefsOnly
  <2> QED
    BY <1>0, <1>1, <2>4, LocalStep DEF Types
<1>3. CASE s \notin DOMAIN owner
  <2>1. s \notin DOMAIN sess /\ sess \in Seq(SessionType)
    BY <1>0, <1>3, Owners DEF Types
  <2>2. sess' = sess
    BY <1>1, <2>1
  <2>3. sess' \in Seq(SessionType) /\ Len(sess') \in 0 .. MaxSessions /\ owner' = owner
    BY <1>0, <2>2 DEF Types, owner
  <2> QED
    BY <1>0, <1>1, <2>3, LocalStep DEF Types
<1> QED
  BY <1>2, <1>3

LEMMA PostKeeps ==
  ASSUME EventInv, NEW p \in Procs, Post(p)
  PROVE  EventInv'
<1> DEFINE x == out[p]
           v == IF p = Main THEN "ready" ELSE "handling"
<1>0. Types
  BY DEF EventInv
<1>1. PICK t \in QueueOf(x.s) :
        IF state[t] = "gone"
        THEN crashed' = TRUE /\ UNCHANGED <<queue, pc>>
        ELSE /\ queue' = [queue EXCEPT ![t] = Append(@, x)]
             /\ pc' = [pc EXCEPT ![p] = v]
             /\ UNCHANGED crashed
  BY DEF Post
<1>2. pc[p] = "posting" /\ UNCHANGED <<sess, hash, state, victim, item, out, reg, life>>
  BY DEF Post, hashVars, refVars, history
<1>3. owner' = owner
  BY <1>2 DEF owner
<1>4. x \in Item /\ (x.s # NULL => x.s \in DOMAIN owner)
  BY <1>0, <1>2 DEF EventInv, PostsOwn, Busy, Types
<1>5. t \in Threads /\ Belongs(x, t, owner)
  BY <1>0, <1>1, <1>4, Owners DEF QueueOf, Belongs
<1>6. /\ p = Main => victim = 0 /\ x.s # NULL /\ x.ev \in {"EV_SESSION", "EV_S_OUT", "EV_S_END"}
      /\ p # Main => x.ev \in {"EV_S_IN", "EV_S_OUT"} /\ ~x.byMain
      /\ p = Main => (x.ev = "EV_S_END" <=> x.s \notin ToSet(hash))
  BY <1>2, Kinds DEF EventInv, PostsOwn, Busy, RestartLosesNone
<1> HIDE DEF x, v
<1>7. CASE state[t] = "gone"
  <2>1. UNCHANGED <<queue, pc>>
    BY <1>1, <1>7
  <2> QED
    BY <1>2, <1>3, <2>1 DEF EventInv, Types, QueuesOrderly, HandlesOwn, PostsOwn, Busy,
       HashedLives, Announces, RestartLosesNone, NotYet
<1>8. CASE state[t] # "gone"
  <2>1. queue' = [queue EXCEPT ![t] = Append(@, x)] /\ pc' = [pc EXCEPT ![p] = v]
    BY <1>1, <1>8
  <2>2. /\ queue' \in [Threads -> Seq(Item)] /\ queue'[t] = Append(queue[t], x)
        /\ \A u \in Threads \ {t} : queue'[u] = queue[u]
        /\ queue[t] \in Seq(Item)
    BY <1>0, <1>4, <1>5, <2>1 DEF Types
  <2>3. pc'[p] = v /\ \A q \in Procs \ {p} : pc'[q] = pc[q]
    BY <1>0, <2>1 DEF Types
  <2>4. v \in {"ready", "handling"} /\ (p = Main => v = "ready")
    BY DEF v
  <2>5. Types'
    BY <1>0, <1>2, <1>3, <2>1, <2>2, <2>4 DEF Types
  <2>6. QueuesOrderly'
    <3>1. Orderly(queue[t], t, owner, life)
      BY <1>5 DEF EventInv, QueuesOrderly
    <3>2. FromClient(x) => /\ x.s # NULL /\ ~Has(queue[t], "EV_S_END", x.s)
                           /\ life[x.s] = "open" \/ Has(queue[t], "EV_SESSION", x.s)
      <4> SUFFICES ASSUME FromClient(x)
                   PROVE  /\ x.s # NULL /\ ~Has(queue[t], "EV_S_END", x.s)
                          /\ life[x.s] = "open" \/ Has(queue[t], "EV_SESSION", x.s)
        OBVIOUS
      <4>1. p = Main /\ x.ev = "EV_S_OUT"
        BY <1>6, Zenon DEF FromClient
      <4>2. x.s \in ToSet(hash) /\ x.s # NULL
        BY <1>6, <4>1
      <4>3. owner[x.s] = t
        BY <1>5, <4>2 DEF Belongs
      <4>4. ~Announces(x.s)
        BY <4>1 DEF Announces, x
      <4> QED
        BY <4>2, <4>3, <4>4 DEF EventInv, HashedLives
    <3>3. x.ev = "EV_SESSION" => \A i \in 1 .. Len(queue[t]) : queue[t][i].ev # "Exit"
      BY <1>5, <1>6, Kinds DEF EventInv, RestartLosesNone
    <3>4. x.ev # "Exit"
      BY <1>6
    <3>5. Orderly(queue'[t], t, owner, life)
      BY <1>4, <1>5, <2>2, <3>1, <3>2, <3>3, <3>4, AppendOrderly
    <3> QED
      BY <1>2, <1>3, <2>2, <3>5 DEF EventInv, QueuesOrderly
  <2>7. HandlesOwn'
    <3>1. \A u \in Threads : pc'[u] # "ready" => pc[u] # "ready"
      BY <1>2, <2>3, Kinds
    <3> QED
      BY <1>2, <1>3, <3>1 DEF EventInv, HandlesOwn
  <2>8. PostsOwn'
    <3>1. \A q \in Procs : Busy(q)' => Busy(q) /\ q # p
      BY <2>3, <2>4 DEF Busy
    <3>2. \A q \in Procs : pc'[q] = "adding" => pc[q] = "adding"
      BY <2>3, <2>4
    <3>3. pc'[Main] \in {"ready", "adding", "posting"}
      BY <2>3, <2>4, Kinds DEF EventInv, PostsOwn
    <3> QED
      BY <1>2, <1>3, <3>1, <3>2, <3>3, Kinds DEF EventInv, PostsOwn
  <2>9. HashedLives'
    <3> SUFFICES ASSUME NEW s \in ToSet(hash)
                 PROVE  /\ life[s] = "open" \/ Announces(s)' \/ Has(queue'[owner[s]], "EV_SESSION", s)
                        /\ life[s] # "closed" /\ ~Has(queue'[owner[s]], "EV_S_END", s)
      BY <1>2, <1>3 DEF HashedLives
    <3>0. owner[s] \in Threads /\ s # NULL
      BY <1>0, Owners DEF Types
    <3>1. \A ev : Has(queue'[owner[s]], ev, s) <=>
            Has(queue[owner[s]], ev, s) \/ (owner[s] = t /\ x.ev = ev /\ x.s = s)
      <4> TAKE ev
      <4>1. CASE owner[s] = t
        <5>1. Has(Append(queue[t], x), ev, s) <=> Has(queue[t], ev, s) \/ (x.ev = ev /\ x.s = s)
          BY <1>4, <2>2, HasAppend
        <5> QED
          BY <2>2, <4>1, <5>1, Zenon
      <4>2. CASE owner[s] # t
        BY <2>2, <3>0, <4>2
      <4> QED
        BY <4>1, <4>2
    <3>2. ~(x.ev = "EV_S_END" /\ x.s = s)
      BY <1>6
    <3>3. ASSUME Announces(s)
          PROVE  Announces(s)' \/ Has(queue'[owner[s]], "EV_SESSION", s)
      <4>1. CASE p = Main
        <5>1. x.ev = "EV_SESSION" /\ x.s = s
          BY <3>3, <4>1 DEF Announces, x
        <5>2. owner[s] = t
          BY <1>5, <3>0, <5>1 DEF Belongs
        <5> QED
          BY <3>1, <5>1, <5>2
      <4>2. CASE p # Main
        BY <1>2, <2>3, <3>3, <4>2, Kinds DEF Announces
      <4> QED
        BY <4>1, <4>2
    <3> QED
      BY <3>1, <3>2, <3>3 DEF EventInv, HashedLives
  <2>10. RestartLosesNone'
    <3>1. \A i \in 1 .. Len(queue'[t]) :
            (i \in 1 .. Len(queue[t]) /\ queue'[t][i] = queue[t][i]) \/ queue'[t][i] = x
      BY <2>2
    <3>2. victim # 0 => pc'[Main] = "ready"
      BY <2>3, <2>4, Kinds DEF EventInv, RestartLosesNone
    <3>3. x.ev # "Exit" /\ (x.ev = "EV_SESSION" => state[t] = "running")
      BY <1>5, <1>6 DEF EventInv, RestartLosesNone
    <3>4. \A u \in Threads \ {victim} : \A i \in 1 .. Len(queue'[u]) : queue'[u][i].ev # "Exit"
      BY <2>2, <3>1, <3>3 DEF EventInv, RestartLosesNone
    <3>5. \A u \in Threads : state[u] # "running" =>
            \A i \in 1 .. Len(queue'[u]) : queue'[u][i].ev # "EV_SESSION"
      BY <2>2, <3>1, <3>3 DEF EventInv, RestartLosesNone
    <3> QED
      BY <1>2, <3>2, <3>4, <3>5 DEF EventInv, RestartLosesNone
  <2>11. NotYet'
    BY <1>2, <1>3 DEF EventInv, NotYet
  <2> QED
    BY <2>5, <2>6, <2>7, <2>8, <2>9, <2>10, <2>11 DEF EventInv
<1> QED
  BY <1>7, <1>8

LEMMA AddSessionKeeps ==
  ASSUME EventInv, NEW name \in Names, AddSession(name)
  PROVE  EventInv'
<1>s. PICK s \in Sessions : s = Len(sess) + 1
  BY DEF AddSession
<1> DEFINE x == [ev |-> "EV_SESSION", s |-> s, byMain |-> TRUE]
<1>0. Types
  BY DEF EventInv
<1>1. PICK t \in Threads : sess' = Append(sess, NewSession(name, t))
  BY DEF AddSession
<1>2. /\ hash' = <<s>> \o hash /\ out' = [out EXCEPT ![Main] = x]
      /\ pc' = [pc EXCEPT ![Main] = "posting"] /\ pc[Main] = "ready" /\ victim = 0
      /\ UNCHANGED <<queue, state, victim, item, reg, life>>
  BY <1>s DEF AddSession, MainIdle, threadVars, refVars, history
<1>3. x \in Item
  <2>1. "EV_SESSION" \in Event
    BY DEF Event
  <2> QED
    BY <1>2, <2>1, Zenon DEF Item
<1>4. x.ev = "EV_SESSION" /\ x.s = s /\ x.byMain
  OBVIOUS
<1>5. Len(sess) \in Nat /\ sess \in Seq(SessionType) /\ MaxSessions \in Nat
  BY <1>0, Kinds DEF Types
<1>6. NewSession(name, t) \in SessionType /\ NewSession(name, t).queue = t
  BY DEF NewSession, SessionType
<1> HIDE DEF x
<1>7. /\ sess' \in Seq(SessionType) /\ Len(sess') = s /\ sess'[s].queue = t
      /\ \A u \in 1 .. Len(sess) : sess'[u] = sess[u]
  BY <1>s, <1>1, <1>5, <1>6
<1>8. s \in 1 .. MaxSessions /\ s \notin 1 .. Len(sess) /\ 1 .. s = (1 .. Len(sess)) \cup {s}
  BY <1>s, <1>5, Kinds
<1>9. /\ DOMAIN owner' = DOMAIN owner \cup {s} /\ s \notin DOMAIN owner /\ owner'[s] = t
      /\ \A u \in DOMAIN owner : owner'[u] = owner[u]
  BY <1>5, <1>7, <1>8 DEF owner
<1>10. Len(sess') \in 0 .. MaxSessions /\ s # NULL
  BY <1>2, <1>5, <1>7, <1>8, Kinds
<1>11. pc'[Main] = "posting" /\ \A q \in Procs \ {Main} : pc'[q] = pc[q]
  BY <1>0, <1>2, Kinds DEF Types
<1>12. out'[Main] = x /\ \A q \in Procs \ {Main} : out'[q] = out[q]
  BY <1>0, <1>2, Kinds DEF Types
<1>13. Chain(Sessions, hash', ToSet(hash) \cup {s}) /\ ToSet(hash') = ToSet(hash) \cup {s}
  <2>1. s \notin ToSet(hash) /\ Chain(Sessions, hash, ToSet(hash))
    BY <1>0, <1>9 DEF Types
  <2>2. Chain(Sessions, hash', ToSet(hash) \cup {s})
    BY <1>2, <2>1, PutChain
  <2> QED
    BY <2>2 DEF Chain
<1>14. Types'
  <2>1. out' \in [Procs -> Item] /\ pc' \in [Procs -> {"ready", "handling", "adding", "posting", "releasing"}]
    BY <1>0, <1>2, <1>3 DEF Types
  <2>2. Chain(Sessions, hash', ToSet(hash')) /\ ToSet(hash') \subseteq DOMAIN owner'
    BY <1>0, <1>9, <1>13 DEF Types
  <2> QED
    BY <1>0, <1>2, <1>7, <1>10, <2>1, <2>2 DEF Types
<1>15. QueuesOrderly'
  <2>1. \A u \in Threads : Orderly(queue[u], u, owner', life)
    BY <1>9, SameOrderly DEF EventInv, QueuesOrderly
  <2> QED
    BY <1>2, <2>1 DEF QueuesOrderly
<1>16. HandlesOwn'
  BY <1>2, <1>9, <1>11, Kinds DEF EventInv, HandlesOwn, Belongs
<1>17. PostsOwn'
  <2>1. \A q \in Procs \ {Main} : Busy(q)' => Busy(q) /\ out'[q] = out[q]
    BY <1>11, <1>12 DEF Busy
  <2>2. \A q \in Procs : Busy(q)' => out'[q].s \in DOMAIN owner' \cup {NULL}
    BY <1>4, <1>9, <1>12, <2>1 DEF EventInv, PostsOwn
  <2>3. \A q \in Procs : pc'[q] = "adding" => out'[q].s # NULL
    BY <1>11, <1>12 DEF EventInv, PostsOwn
  <2>4. \A u \in Threads : Busy(u)' => out'[u].ev \in {"EV_S_IN", "EV_S_OUT"} /\ ~out'[u].byMain
    BY <2>1, Kinds, Zenon DEF EventInv, PostsOwn
  <2> QED
    BY <1>4, <1>10, <1>11, <1>12, <1>13, <2>2, <2>3, <2>4 DEF PostsOwn
<1>18. HashedLives'
  <2>1. ASSUME NEW u \in ToSet(hash)
        PROVE  /\ life[u] = "open" \/ Has(queue[owner'[u]], "EV_SESSION", u)
               /\ life[u] # "closed" /\ ~Has(queue[owner'[u]], "EV_S_END", u)
    <3>1. owner'[u] = owner[u]
      BY <1>0, <1>9 DEF Types
    <3>2. ~Announces(u)
      BY <1>2 DEF Announces
    <3> QED
      BY <3>1, <3>2 DEF EventInv, HashedLives
  <2>2. Announces(s)'
    BY <1>4, <1>11, <1>12 DEF Announces
  <2>3. life[s] = "new"
    BY <1>2, <1>9 DEF EventInv, NotYet
  <2>4. ~Has(queue[t], "EV_S_END", s)
    <3>1. \A i \in 1 .. Len(queue[t]) : Belongs(queue[t][i], t, owner)
      BY DEF EventInv, QueuesOrderly, Orderly
    <3> QED
      BY <1>9, <1>10, <3>1 DEF Has, Belongs
  <2> QED
    BY <1>2, <1>9, <1>13, <2>1, <2>2, <2>3, <2>4 DEF HashedLives
<1>19. RestartLosesNone'
  BY <1>2 DEF EventInv, RestartLosesNone
<1>20. NotYet'
  BY <1>2, <1>9 DEF EventInv, NotYet
<1> QED
  BY <1>14, <1>15, <1>16, <1>17, <1>18, <1>19, <1>20 DEF EventInv

LEMMA RemoveSessionKeeps ==
  ASSUME EventInv, NEW name \in Names, RemoveSession(name)
  PROVE  EventInv'
<1> DEFINE s == Find(name)
           x == [ev |-> "EV_S_END", s |-> s, byMain |-> TRUE]
<1>0. Types
  BY DEF EventInv
<1>1. s \in ToSet(hash) /\ s \in DOMAIN owner /\ s \in Sessions /\ s # NULL
  BY <1>0, Found DEF RemoveSession
<1>2. /\ hash' = RemoveFirst(hash, s) /\ out' = [out EXCEPT ![Main] = x]
      /\ pc' = [pc EXCEPT ![Main] = "posting"] /\ pc[Main] = "ready" /\ victim = 0
      /\ UNCHANGED <<sess, queue, state, victim, item, reg, life>>
  BY DEF RemoveSession, MainIdle, threadVars, refVars, history
<1> HIDE DEF s
<1>3. x \in Item
  <2>1. "EV_S_END" \in Event
    BY DEF Event
  <2> QED
    BY <1>1, <2>1, Zenon DEF Item
<1>4. x.ev = "EV_S_END" /\ x.s = s /\ x.byMain
  OBVIOUS
<1> HIDE DEF x
<1>5. owner' = owner
  BY <1>2 DEF owner
<1>6. pc'[Main] = "posting" /\ \A q \in Procs \ {Main} : pc'[q] = pc[q]
  BY <1>0, <1>2, Kinds DEF Types
<1>7. out'[Main] = x /\ \A q \in Procs \ {Main} : out'[q] = out[q]
  BY <1>0, <1>2, Kinds DEF Types
<1>8. Chain(Sessions, hash', ToSet(hash) \ {s}) /\ ToSet(hash') = ToSet(hash) \ {s}
  <2>1. Chain(Sessions, hash', ToSet(hash) \ {s})
    BY <1>0, <1>1, <1>2, RemoveChain DEF Types
  <2> QED
    BY <2>1 DEF Chain
<1>9. Types'
  <2>1. out' \in [Procs -> Item] /\ pc' \in [Procs -> {"ready", "handling", "adding", "posting", "releasing"}]
    BY <1>0, <1>2, <1>3 DEF Types
  <2>2. Chain(Sessions, hash', ToSet(hash')) /\ ToSet(hash') \subseteq DOMAIN owner'
    BY <1>0, <1>5, <1>8 DEF Types
  <2> QED
    BY <1>0, <1>2, <2>1, <2>2 DEF Types
<1>10. QueuesOrderly'
  BY <1>2, <1>5 DEF EventInv, QueuesOrderly
<1>11. HandlesOwn'
  BY <1>2, <1>5, <1>6, Kinds DEF EventInv, HandlesOwn
<1>12. PostsOwn'
  <2>1. \A q \in Procs \ {Main} : Busy(q)' => Busy(q) /\ out'[q] = out[q]
    BY <1>6, <1>7 DEF Busy
  <2>2. \A q \in Procs : Busy(q)' => out'[q].s \in DOMAIN owner' \cup {NULL}
    BY <1>1, <1>4, <1>5, <1>7, <2>1 DEF EventInv, PostsOwn
  <2>3. \A q \in Procs : pc'[q] = "adding" => out'[q].s # NULL
    BY <1>6, <1>7 DEF EventInv, PostsOwn
  <2>4. \A u \in Threads : Busy(u)' => out'[u].ev \in {"EV_S_IN", "EV_S_OUT"} /\ ~out'[u].byMain
    BY <2>1, Kinds, Zenon DEF EventInv, PostsOwn
  <2> QED
    BY <1>1, <1>4, <1>6, <1>7, <1>8, <2>2, <2>3, <2>4 DEF PostsOwn
<1>13. HashedLives'
  <2>1. \A u : ~Announces(u)
    BY <1>2 DEF Announces
  <2> QED
    BY <1>2, <1>5, <1>8, <2>1 DEF EventInv, HashedLives
<1>14. RestartLosesNone'
  BY <1>2 DEF EventInv, RestartLosesNone
<1>15. NotYet'
  BY <1>2, <1>5 DEF EventInv, NotYet
<1> QED
  BY <1>9, <1>10, <1>11, <1>12, <1>13, <1>14, <1>15 DEF EventInv

LEMMA ExitJoins ==
  ASSUME NEW q \in Seq(Item), NEW t, NEW o, NEW l, Orderly(q, t, o, l)
  PROVE  /\ Orderly(Append(q, ExitItem), t, o, l)
         /\ \A ev \in {"EV_SESSION", "EV_S_END"} : \A s :
              Has(Append(q, ExitItem), ev, s) <=> Has(q, ev, s)
         /\ (\A i \in 1 .. Len(q) : q[i].ev # "EV_SESSION") =>
              \A i \in 1 .. Len(Append(q, ExitItem)) : Append(q, ExitItem)[i].ev # "EV_SESSION"
<1>1. ExitItem \in Item
  BY Zenon DEF ExitItem, Item, Event
<1>2. ExitItem.ev = "Exit" /\ ExitItem.s = NULL
  BY DEF ExitItem
<1>3. Belongs(ExitItem, t, o) /\ ~FromClient(ExitItem)
  BY <1>2 DEF Belongs, FromClient
<1>4. \A i \in 1 .. Len(Append(q, ExitItem)) :
        (i \in 1 .. Len(q) /\ Append(q, ExitItem)[i] = q[i]) \/ Append(q, ExitItem)[i] = ExitItem
  OBVIOUS
<1> QED
  BY <1>1, <1>2, <1>3, <1>4, AppendOrderly, HasAppend

LEMMA BeginRestartKeeps ==
  ASSUME EventInv, BeginRestart
  PROVE  EventInv'
<1>0. Types /\ 1 \in Threads /\ 1 # 0
  BY Kinds DEF EventInv
<1>1. /\ victim = 0 /\ victim' = 1 /\ pc[Main] = "ready"
      /\ queue' = [queue EXCEPT ![1] = Append(@, ExitItem)]
      /\ UNCHANGED <<sess, hash, state, pc, item, out, reg, life>>
  BY DEF BeginRestart, MainIdle, Exit, hashVars, refVars
<1>2. owner' = owner
  BY <1>1 DEF owner
<1>3. ExitItem \in Item
  BY Zenon DEF ExitItem, Item, Event
<1>4. /\ queue' \in [Threads -> Seq(Item)] /\ queue'[1] = Append(queue[1], ExitItem)
      /\ \A u \in Threads \ {1} : queue'[u] = queue[u]
      /\ queue[1] \in Seq(Item)
  BY <1>0, <1>1, <1>3 DEF Types
<1>5. Types'
  BY <1>0, <1>1, <1>2, <1>4, Kinds DEF Types
<1>6. QueuesOrderly'
  BY <1>0, <1>1, <1>2, <1>4, ExitJoins DEF EventInv, QueuesOrderly
<1>7. HandlesOwn'
  BY <1>1, <1>2 DEF EventInv, HandlesOwn
<1>8. PostsOwn'
  BY <1>1, <1>2 DEF EventInv, PostsOwn, Busy
<1>9. HashedLives'
  <2>1. ASSUME NEW u \in Threads, NEW ev \in {"EV_SESSION", "EV_S_END"}, NEW s
        PROVE  Has(queue'[u], ev, s) <=> Has(queue[u], ev, s)
    <3>1. CASE u = 1
      <4>1. Orderly(queue[1], 1, owner, life)
        BY <1>0 DEF EventInv, QueuesOrderly
      <4>2. Has(Append(queue[1], ExitItem), ev, s) <=> Has(queue[1], ev, s)
        BY <1>4, <4>1, ExitJoins
      <4> QED
        BY <1>4, <3>1, <4>2, Zenon
    <3>2. CASE u # 1
      BY <1>4, <3>2
    <3> QED
      BY <3>1, <3>2
  <2>2. \A s \in ToSet(hash) : owner[s] \in Threads
    BY <1>0, Owners DEF Types
  <2> QED
    BY <1>1, <1>2, <2>1, <2>2 DEF EventInv, HashedLives, Announces
<1>10. RestartLosesNone'
  <2>1. \A u \in Threads : state'[u] = "running"
    BY <1>1 DEF EventInv, RestartLosesNone
  <2>2. \A u \in Threads \ {1} : \A i \in 1 .. Len(queue[u]) : queue[u][i].ev # "Exit"
    BY <1>1, Kinds DEF EventInv, RestartLosesNone
  <2>3. \A u \in Threads \ {victim'} : \A i \in 1 .. Len(queue'[u]) : queue'[u][i].ev # "Exit"
    BY <1>1, <1>4, <2>2
  <2> QED
    BY <1>0, <1>1, <2>1, <2>3 DEF RestartLosesNone
<1>11. NotYet'
  BY <1>1, <1>2 DEF EventInv, NotYet
<1> QED
  BY <1>5, <1>6, <1>7, <1>8, <1>9, <1>10, <1>11 DEF EventInv

\* One thread less, and its queue with it: the next one is told to exit, if any.
LEMMA EndThreadKeeps ==
  ASSUME EventInv, EndThread
  PROVE  EventInv'
<1> DEFINE next == victim + 1
<1>0. Types
  BY DEF EventInv
<1>1. /\ victim \in Threads /\ state[victim] = "exited" /\ pc[Main] = "ready"
      /\ victim \in Nat
      /\ UNCHANGED <<sess, hash, pc, item, out, reg, life>>
  <2>1. victim # 0 /\ victim \in 0 .. NUM_THREADS
    BY <1>0 DEF EndThread, Types
  <2> QED
    BY <2>1, Kinds DEF EndThread, hashVars, refVars, EventInv, RestartLosesNone
<1>2. owner' = owner
  BY <1>1 DEF owner
<1>3. ASSUME NEW u \in Threads
      PROVE  u # victim => \A i \in 1 .. Len(queue[u]) : queue[u][i].ev # "Exit"
  BY <1>3 DEF EventInv, RestartLosesNone
<1>4. \A i \in 1 .. Len(queue[victim]) : queue[victim][i].ev # "EV_SESSION"
  BY <1>1 DEF EventInv, RestartLosesNone
<1>5. Len(<<>>) = 0 /\ 1 .. 0 = {}
  OBVIOUS
<1>6. \A ev : \A s : ~Has(<<>>, ev, s)
  BY <1>5 DEF Has
\* What the two cases have in common.
<1>7. ASSUME queue' \in [Threads -> Seq(Item)],
             state' \in [Threads -> {"running", "exited", "gone"}],
             victim' \in 0 .. NUM_THREADS,
             \A u \in Threads : Orderly(queue'[u], u, owner, life),
             \A u \in Threads : \A s :
               /\ Has(queue'[u], "EV_SESSION", s) <=> Has(queue[u], "EV_SESSION", s)
               /\ Has(queue'[u], "EV_S_END", s) => Has(queue[u], "EV_S_END", s),
             RestartLosesNone'
      PROVE  EventInv'
  <2>1. Types'
    BY <1>0, <1>1, <1>2, <1>7 DEF Types
  <2>2. QueuesOrderly'
    BY <1>1, <1>2, <1>7 DEF QueuesOrderly
  <2>3. HandlesOwn'
    BY <1>1, <1>2 DEF EventInv, HandlesOwn
  <2>4. PostsOwn'
    BY <1>1, <1>2 DEF EventInv, PostsOwn, Busy
  <2>5. HashedLives'
    <3>1. \A s \in ToSet(hash) : owner[s] \in Threads
      BY <1>0, Owners DEF Types
    <3> QED
      BY <1>1, <1>2, <1>7, <3>1 DEF EventInv, HashedLives, Announces
  <2>6. NotYet'
    BY <1>1, <1>2 DEF EventInv, NotYet
  <2> QED
    BY <1>7, <2>1, <2>2, <2>3, <2>4, <2>5, <2>6 DEF EventInv
<1>8. \A s : ~Has(queue[victim], "EV_SESSION", s)
  BY <1>4 DEF Has
<1>9. CASE More(victim)
  <2>1. /\ next \in Threads /\ next # victim /\ victim' = next /\ next # 0
        /\ state' = [state EXCEPT ![victim] = "gone"]
        /\ queue' = [[queue EXCEPT ![victim] = <<>>] EXCEPT ![next] = Append(@, ExitItem)]
    BY <1>1, <1>9, Kinds DEF EndThread, More, Exit
  <2> HIDE DEF next
  <2>2. ExitItem \in Item
    BY Zenon DEF ExitItem, Item, Event
  <2>3. /\ queue'[victim] = <<>> /\ queue'[next] = Append(queue[next], ExitItem)
        /\ \A u \in Threads \ {victim, next} : queue'[u] = queue[u]
        /\ queue' \in [Threads -> Seq(Item)] /\ queue[next] \in Seq(Item)
    <3> DEFINE rest == [queue EXCEPT ![victim] = <<>>]
    <3>1. /\ rest \in [Threads -> Seq(Item)] /\ rest[victim] = <<>>
          /\ \A u \in Threads \ {victim} : rest[u] = queue[u]
      BY <1>0, <1>1 DEF Types
    <3>2. queue' = [rest EXCEPT ![next] = Append(rest[next], ExitItem)]
      BY <2>1
    <3> HIDE DEF rest
    <3>3. Append(rest[next], ExitItem) \in Seq(Item) /\ rest[next] \in Seq(Item)
      BY <2>1, <2>2, <3>1
    <3> QED
      BY <1>1, <2>1, <3>1, <3>2, <3>3
  <2>4. \A u \in Threads : Orderly(queue'[u], u, owner, life)
    BY <1>1, <2>1, <2>3, ExitJoins, EmptyOrderly DEF EventInv, QueuesOrderly
  <2>5. \A u \in Threads : \A s :
          /\ Has(queue'[u], "EV_SESSION", s) <=> Has(queue[u], "EV_SESSION", s)
          /\ Has(queue'[u], "EV_S_END", s) => Has(queue[u], "EV_S_END", s)
    BY <1>6, <1>8, <2>1, <2>3, ExitJoins DEF EventInv, QueuesOrderly
  <2>6. RestartLosesNone'
    <3>1. \A u \in Threads \ {next} : \A i \in 1 .. Len(queue'[u]) : queue'[u][i].ev # "Exit"
      BY <1>3, <1>5, <2>3
    <3>2. \A u \in Threads \ {victim} : state'[u] = state[u]
      BY <1>0, <2>1 DEF Types
    <3>3. ASSUME NEW u \in Threads, state'[u] # "running"
          PROVE  \A i \in 1 .. Len(queue'[u]) : queue'[u][i].ev # "EV_SESSION"
      <4>1. CASE u = victim
        BY <1>5, <2>3, <4>1
      <4>2. CASE u # victim
        <5>1. \A i \in 1 .. Len(queue[u]) : queue[u][i].ev # "EV_SESSION"
          BY <3>2, <3>3, <4>2 DEF EventInv, RestartLosesNone
        <5> QED
          BY <2>1, <2>3, <4>2, <5>1, ExitJoins DEF EventInv, QueuesOrderly
      <4> QED
        BY <4>1, <4>2
    <3> QED
      BY <1>1, <2>1, <3>1, <3>3 DEF RestartLosesNone
  <2>7. state' \in [Threads -> {"running", "exited", "gone"}]
    BY <1>0, <2>1 DEF Types
  <2>8. victim' \in 0 .. NUM_THREADS
    BY <2>1, Kinds
  <2> QED
    BY <1>7, <2>3, <2>4, <2>5, <2>6, <2>7, <2>8
<1>10. CASE ~More(victim)
  <2>1. /\ victim' = 0 /\ state' = [u \in Threads |-> "running"]
        /\ queue' = [queue EXCEPT ![victim] = <<>>]
    BY <1>10 DEF EndThread
  <2>2. /\ queue'[victim] = <<>> /\ \A u \in Threads \ {victim} : queue'[u] = queue[u]
        /\ queue' \in [Threads -> Seq(Item)]
    BY <1>0, <1>1, <2>1 DEF Types
  <2>3. \A u \in Threads : Orderly(queue'[u], u, owner, life)
    BY <1>1, <2>2, EmptyOrderly DEF EventInv, QueuesOrderly
  <2>4. \A u \in Threads : \A s :
          /\ Has(queue'[u], "EV_SESSION", s) <=> Has(queue[u], "EV_SESSION", s)
          /\ Has(queue'[u], "EV_S_END", s) => Has(queue[u], "EV_S_END", s)
    BY <1>6, <1>8, <2>2
  <2>5. RestartLosesNone'
    <3>1. \A u \in Threads : \A i \in 1 .. Len(queue'[u]) : queue'[u][i].ev # "Exit"
      BY <1>3, <1>5, <2>2
    <3> QED
      BY <2>1, <3>1 DEF RestartLosesNone
  <2>6. state' \in [Threads -> {"running", "exited", "gone"}] /\ victim' \in 0 .. NUM_THREADS
    BY <2>1, Kinds
  <2> QED
    BY <1>7, <2>2, <2>3, <2>4, <2>5, <2>6
<1> QED
  BY <1>9, <1>10

LEMMA TakeKeeps ==
  ASSUME EventInv, NEW t \in Threads, Take(t)
  PROVE  EventInv'
<1> DEFINE q == queue[t]
           x == Head(q)
<1>0. Types /\ t \in Procs /\ t # Main
  BY Kinds DEF EventInv
<1>1. /\ state[t] = "running" /\ pc[t] = "ready" /\ q # <<>>
      /\ queue' = [queue EXCEPT ![t] = Tail(q)]
      /\ x.ev = "Exit" => state' = [state EXCEPT ![t] = "exited"] /\ UNCHANGED <<pc, item, life>>
      /\ x.ev # "Exit" => /\ item' = [item EXCEPT ![t] = x] /\ pc' = [pc EXCEPT ![t] = "handling"]
                          /\ life' = Told(x) /\ state' = state
      /\ UNCHANGED <<sess, hash, victim, out, reg>>
  BY DEF Take, hashVars, refVars
<1>2. owner' = owner
  BY <1>1 DEF owner
<1>3. /\ q \in Seq(Item) /\ x = q[1] /\ x \in Item /\ 1 \in 1 .. Len(q)
      /\ 1 .. 1 - 1 = {} /\ 1 + 1 .. Len(q) = 2 .. Len(q)
      /\ \A i \in 1 .. Len(Tail(q)) : i + 1 \in 2 .. Len(q) /\ i + 1 \in 1 .. Len(q) /\ Tail(q)[i] = q[i + 1]
  <2>1. q \in Seq(Item)
    BY <1>0 DEF Types
  <2> HIDE DEF q
  <2> QED
    BY <1>1, <2>1, TailOf
<1>4. /\ queue' \in [Threads -> Seq(Item)] /\ queue'[t] = Tail(q)
      /\ \A u \in Threads \ {t} : queue'[u] = queue[u]
  <2>1. Tail(q) \in Seq(Item)
    BY <1>1, <1>3
  <2> QED
    BY <1>0, <1>1, <2>1 DEF Types
<1>5. Orderly(q, t, owner, life)
  BY DEF EventInv, QueuesOrderly
<1>6. /\ Belongs(x, t, owner)
      /\ FromClient(x) => x.s # NULL /\ life[x.s] = "open"
      /\ x.ev = "Exit" => x.s = NULL /\ \A i \in 2 .. Len(q) : q[i].ev # "EV_SESSION"
  BY <1>3, <1>5, Zenon DEF Orderly
<1> HIDE DEF q, x
<1>7. \A ev : \A s : Has(q, ev, s) <=> Has(Tail(q), ev, s) \/ (x.ev = ev /\ x.s = s)
  BY <1>1, <1>3, HasTail DEF x
\* What the modules are told: of no session but the one of the event.
<1>8. /\ life' \in [Sessions -> {"new", "open", "closed"}]
      /\ \A s \in Sessions : s # x.s => life'[s] = life[s]
      /\ x.s # NULL =>
           /\ x.ev = "EV_SESSION" => life'[x.s] = "open"
           /\ x.ev = "EV_S_END" => life'[x.s] = "closed"
           /\ x.ev \notin {"EV_SESSION", "EV_S_END"} => life'[x.s] = life[x.s]
  <2>1. life \in [Sessions -> {"new", "open", "closed"}]
    BY <1>0 DEF Types
  <2>2. x.s # NULL => x.s \in Sessions
    BY <1>3 DEF Item
  <2>3. CASE x.ev = "Exit" \/ x.s = NULL
    <3>1. life' = life
      BY <1>1, <2>3 DEF Told
    <3>2. x.s # NULL => x.ev \notin {"EV_SESSION", "EV_S_END"}
      BY <2>3
    <3> QED
      BY <2>1, <3>1, <3>2
  <2>4. CASE x.ev # "Exit" /\ x.s # NULL
    <3>1. life' = [life EXCEPT ![x.s] = IF x.ev = "EV_SESSION" THEN "open"
                                        ELSE IF x.ev = "EV_S_END" THEN "closed" ELSE @]
      BY <1>1, <2>4 DEF Told
    <3> QED
      BY <2>1, <2>2, <2>4, <3>1
  <2> QED
    BY <2>3, <2>4
<1>9. \A s \in DOMAIN owner : s \in Sessions /\ s # NULL /\ owner[s] \in Threads
  BY <1>0, Owners
<1>11. QueuesOrderly'
  <2>1. ASSUME NEW u \in Threads \ {t}
        PROVE  Orderly(queue'[u], u, owner, life')
    <3>1. \A s \in DOMAIN owner : owner[s] = u => life'[s] = life[s]
      BY <1>6, <1>8, <1>9 DEF Belongs
    <3>2. Orderly(queue[u], u, owner, life)
      BY DEF EventInv, QueuesOrderly
    <3> QED
      BY <1>4, <3>1, <3>2, SameOrderly
  <2>2. Orderly(queue'[t], t, owner, life')
    BY <1>1, <1>3, <1>4, <1>5, <1>6, <1>8, <1>9, TailOrderly DEF x
  <2> QED
    BY <1>2, <2>1, <2>2 DEF QueuesOrderly
<1>12. HandlesOwn'
  <2>1. ASSUME NEW u \in Threads \ {t}
        PROVE  /\ pc'[u] = pc[u] /\ item'[u] = item[u]
               /\ \A s \in DOMAIN owner : owner[s] = u => life'[s] = life[s]
    <3>1. pc'[u] = pc[u] /\ item'[u] = item[u]
      BY <1>0, <1>1, Kinds DEF Types
    <3>2. \A s \in DOMAIN owner : owner[s] = u => life'[s] = life[s]
      BY <1>6, <1>8, <1>9 DEF Belongs
    <3> QED
      BY <3>1, <3>2
  <2>2. ASSUME NEW u \in Threads \ {t}, pc'[u] # "ready"
        PROVE  /\ Belongs(item'[u], u, owner)
               /\ FromClient(item'[u]) => item'[u].s # NULL /\ life'[item'[u].s] = "open"
    <3>1. /\ Belongs(item[u], u, owner)
          /\ FromClient(item[u]) => item[u].s # NULL /\ life[item[u].s] = "open"
      BY <2>1, <2>2 DEF EventInv, HandlesOwn
    <3> QED
      BY <2>1, <3>1 DEF Belongs
  <2>3. ASSUME pc'[t] # "ready"
        PROVE  /\ Belongs(item'[t], t, owner)
               /\ FromClient(item'[t]) => item'[t].s # NULL /\ life'[item'[t].s] = "open"
    <3>1. item'[t] = x
      BY <1>0, <1>1, <2>3 DEF Types
    <3>2. FromClient(x) => x.ev \notin {"EV_SESSION", "EV_S_END"}
      BY DEF FromClient
    <3> QED
      BY <1>6, <1>8, <3>1, <3>2
  <2> QED
    BY <1>2, <2>2, <2>3 DEF HandlesOwn
<1>13. PostsOwn'
  <2>1. /\ \A p \in Procs : Busy(p)' => Busy(p)
        /\ \A p \in Procs : pc'[p] = "adding" => pc[p] = "adding"
        /\ pc'[Main] = pc[Main]
    BY <1>0, <1>1, Kinds DEF Types, Busy
  <2> QED
    BY <1>1, <1>2, <2>1, Kinds DEF EventInv, PostsOwn
<1>14. HashedLives'
  <2> SUFFICES ASSUME NEW s \in ToSet(hash)
               PROVE  /\ life'[s] = "open" \/ Announces(s)' \/ Has(queue'[owner[s]], "EV_SESSION", s)
                      /\ life'[s] # "closed" /\ ~Has(queue'[owner[s]], "EV_S_END", s)
    BY <1>1, <1>2 DEF HashedLives
  <2>1. s \in DOMAIN owner /\ s \in Sessions /\ s # NULL /\ owner[s] \in Threads
    BY <1>0, <1>9 DEF Types
  <2>2. /\ life[s] = "open" \/ Announces(s) \/ Has(queue[owner[s]], "EV_SESSION", s)
        /\ life[s] # "closed" /\ ~Has(queue[owner[s]], "EV_S_END", s)
    BY DEF EventInv, HashedLives
  <2>3. Announces(s)' <=> Announces(s)
    BY <1>0, <1>1, Kinds DEF Types, Announces
  <2>4. CASE x.s # s
    <3>1. life'[s] = life[s]
      BY <1>8, <2>1, <2>4
    <3>2. \A ev : Has(queue'[owner[s]], ev, s) <=> Has(queue[owner[s]], ev, s)
      BY <1>4, <1>7, <2>1, <2>4 DEF q
    <3> QED
      BY <2>2, <2>3, <3>1, <3>2
  <2>5. CASE x.s = s
    <3>1. owner[s] = t
      BY <1>6, <2>1, <2>5 DEF Belongs
    <3>2. x.ev # "EV_S_END" /\ ~Has(Tail(q), "EV_S_END", s)
      BY <1>7, <2>2, <2>5, <3>1 DEF q
    <3>3. Has(Tail(q), "EV_SESSION", s) \/ x.ev = "EV_SESSION" \/ ~Has(q, "EV_SESSION", s)
      BY <1>7
    <3>4. /\ x.ev = "EV_SESSION" => life'[s] = "open"
          /\ x.ev # "EV_SESSION" => life'[s] = life[s]
      BY <1>8, <2>1, <2>5, <3>2
    <3> QED
      BY <1>4, <2>2, <2>3, <3>1, <3>2, <3>3, <3>4 DEF q
  <2> QED
    BY <2>4, <2>5
<1>15. RestartLosesNone'
  <2>1. pc'[Main] = pc[Main]
    BY <1>0, <1>1, Kinds DEF Types
  <2>2. \A u \in Threads \ {victim} : \A i \in 1 .. Len(queue'[u]) : queue'[u][i].ev # "Exit"
    <3> TAKE u \in Threads \ {victim}
    <3>1. \A i \in 1 .. Len(queue[u]) : queue[u][i].ev # "Exit"
      BY DEF EventInv, RestartLosesNone
    <3>2. CASE u = t
      <4>1. \A i \in 1 .. Len(Tail(q)) : Tail(q)[i].ev # "Exit"
        BY <1>3, <3>1, <3>2 DEF q
      <4> QED
        BY <1>4, <3>2, <4>1, Zenon
    <3>3. CASE u # t
      BY <1>4, <3>1, <3>3
    <3> QED
      BY <3>2, <3>3
  <2>3. x.ev = "Exit" => t = victim
    BY <1>3 DEF EventInv, RestartLosesNone, q
  <2>4. victim = 0 => \A u \in Threads : state'[u] = "running"
    <3>1. victim = 0 => x.ev # "Exit"
      BY <2>3, Kinds
    <3> QED
      BY <1>1, <3>1 DEF EventInv, RestartLosesNone
  <2>5. ASSUME NEW u \in Threads, state'[u] # "running"
        PROVE  \A i \in 1 .. Len(queue'[u]) : queue'[u][i].ev # "EV_SESSION"
    <3>1. CASE u = t
      <4>1. x.ev = "Exit"
        BY <1>1, <2>5, <3>1
      <4> QED
        <5>1. \A i \in 1 .. Len(Tail(q)) : Tail(q)[i].ev # "EV_SESSION"
          BY <1>3, <1>6, <4>1
        <5> QED
          BY <1>4, <3>1, <5>1, Zenon
    <3>2. CASE u # t
      <4>1. state[u] # "running"
        BY <1>0, <1>1, <2>5, <3>2 DEF Types
      <4> QED
        BY <1>4, <3>2, <4>1 DEF EventInv, RestartLosesNone
    <3> QED
      BY <3>1, <3>2
  <2> QED
    BY <1>1, <2>1, <2>2, <2>4, <2>5 DEF EventInv, RestartLosesNone
<1>16. NotYet'
  <2>1. x.s # NULL => x.s \in DOMAIN owner
    BY <1>6 DEF Belongs
  <2> QED
    BY <1>2, <1>8, <1>9, <2>1, Kinds DEF EventInv, NotYet
<1>17. Types'
  <2>1. /\ item' \in [Threads -> Item] /\ state' \in [Threads -> {"running", "exited", "gone"}]
        /\ pc' \in [Procs -> {"ready", "handling", "adding", "posting", "releasing"}]
    BY <1>0, <1>1, <1>3 DEF Types
  <2> QED
    BY <1>0, <1>1, <1>2, <1>4, <1>8, <2>1 DEF Types
<1> QED
  BY <1>11, <1>12, <1>13, <1>14, <1>15, <1>16, <1>17 DEF EventInv

LEMMA EventNext == EventInv /\ [CoreNext]_coreVars => EventInv'
<1> SUFFICES ASSUME EventInv, [CoreNext]_coreVars
             PROVE  EventInv'
  OBVIOUS
<1>1. CASE UNCHANGED coreVars
  <2>1. UNCHANGED <<sess, hash, queue, state, victim, pc, item, out, reg, life>>
    BY <1>1 DEF coreVars, hashVars, refVars, threadVars, history
  <2>2. owner' = owner
    BY <2>1 DEF owner
  <2>3. Types'
    BY <2>1, <2>2 DEF EventInv, Types
  <2>4. QueuesOrderly' /\ HandlesOwn' /\ NotYet'
    BY <2>1, <2>2 DEF EventInv, QueuesOrderly, HandlesOwn, NotYet
  <2>5. PostsOwn'
    BY <2>1, <2>2 DEF EventInv, PostsOwn, Busy
  <2>6. HashedLives' /\ RestartLosesNone'
    BY <2>1, <2>2 DEF EventInv, HashedLives, Announces, RestartLosesNone
  <2> QED
    BY <2>3, <2>4, <2>5, <2>6 DEF EventInv
<1>2. ASSUME NEW name \in Names, AddSession(name) \/ RemoveSession(name)
      PROVE  EventInv'
  BY <1>2, AddSessionKeeps, RemoveSessionKeeps
<1>3. ASSUME NEW name \in Names, Get(Main, name, "EV_S_OUT")
      PROVE  EventInv'
  BY <1>3, GetKeeps, Kinds
<1>4. ASSUME NEW name \in Names, NEW t \in Threads, NEW ev \in {"EV_S_IN", "EV_S_OUT"},
             Get(t, name, ev) \/ DeliverOffline(t, name, ev)
      PROVE  EventInv'
  BY <1>4, GetKeeps, OfflineKeeps, Kinds
<1>5. ASSUME AddRef(Main) \/ Post(Main) \/ BeginRestart \/ EndThread
      PROVE  EventInv'
  BY <1>5, AddRefKeeps, PostKeeps, BeginRestartKeeps, EndThreadKeeps, Kinds
<1>6. ASSUME NEW t \in Threads, ThreadStep(t)
      PROVE  EventInv'
  <2>1. t \in Procs
    BY Kinds
  <2> QED
    BY <1>6, <2>1, TakeKeeps, FinishKeeps, ReleaseKeeps, AddRefKeeps, PostKeeps DEF ThreadStep
<1> QED
  BY <1>1, <1>2, <1>3, <1>4, <1>5, <1>6 DEF CoreNext

-----------------------------------------------------------------------------
LEMMA EventInvariant == CoreSpec => []EventInv
BY EventInit, EventNext, PTL DEF CoreSpec

\* The modules never see two events of one session at the same time
\* (EventThread::run, postEvent), and a packet from a client reaches them after
\* EV_SESSION and before EV_S_END of its session: for any number of threads and
\* sessions, and although startModule and stopModule delete the threads together
\* with what their queues hold.
THEOREM SessionsAreSerial == CoreSpec => []SessionSerial
<1>1. EventInv => SessionSerial
  <2> SUFFICES ASSUME EventInv
               PROVE  SessionSerial
    OBVIOUS
  <2>1. ASSUME NEW s \in DOMAIN sess
        PROVE  Cardinality(Handling(s)) <= 1
    <3>1. s \in DOMAIN owner /\ s # NULL
      BY Owners DEF EventInv, Types
    <3>2. Handling(s) \subseteq {owner[s]}
      BY <3>1 DEF EventInv, HandlesOwn, Belongs, Handling
    <3>3. IsFiniteSet({owner[s]}) /\ Cardinality({owner[s]}) = 1
      BY FS_Singleton
    <3>4. Cardinality(Handling(s)) <= Cardinality({owner[s]})
      BY <3>2, <3>3, FS_Subset
    <3> QED
      BY <3>3, <3>4
  <2>2. ASSUME NEW t \in Threads, pc[t] # "ready", item[t].ev = "EV_S_OUT", item[t].byMain
        PROVE  life[item[t].s] = "open"
    BY <2>2, Zenon DEF EventInv, HandlesOwn, FromClient
  <2> QED
    BY <2>1, <2>2, Zenon DEF SessionSerial
<1> QED
  BY <1>1, EventInvariant, PTL

-----------------------------------------------------------------------------
(***************************************************************************)
(* Reference counts.  What is said of a session holds until one change of  *)
(* its refCount overwrites another (torn).                                 *)
(***************************************************************************)

\* Where in queue q the events of session s are.
Places(q, s) == {i \in 1 .. Len(q) : q[i].s = s}

LEMMA PlacesFinite ==
  ASSUME NEW q \in Seq(Item), NEW s
  PROVE  IsFiniteSet(Places(q, s)) /\ Cardinality(Places(q, s)) \in Nat
<1>1. Len(q) \in Nat
  OBVIOUS
<1>2. IsFiniteSet(1 .. Len(q))
  BY <1>1, FS_Interval
<1>3. Places(q, s) \in SUBSET (1 .. Len(q))
  BY DEF Places
<1>4. IsFiniteSet(Places(q, s))
  BY <1>2, <1>3, FS_Subset
<1> QED
  BY <1>4, FS_CardinalityType

LEMMA PlacesAppend ==
  ASSUME NEW q \in Seq(Item), NEW x \in Item, NEW s
  PROVE  Cardinality(Places(Append(q, x), s)) =
           Cardinality(Places(q, s)) + IF x.s = s THEN 1 ELSE 0
<1>1. /\ Len(Append(q, x)) = Len(q) + 1 /\ Len(q) \in Nat /\ Append(q, x)[Len(q) + 1] = x
      /\ \A i \in 1 .. Len(q) : Append(q, x)[i] = q[i]
      /\ 1 .. Len(q) + 1 = (1 .. Len(q)) \cup {Len(q) + 1} /\ Len(q) + 1 \notin 1 .. Len(q)
  OBVIOUS
<1>2. Places(Append(q, x), s) =
        IF x.s = s THEN Places(q, s) \cup {Len(q) + 1} ELSE Places(q, s)
  BY <1>1 DEF Places
<1>3. Len(q) + 1 \notin Places(q, s)
  BY <1>1 DEF Places
<1>4. Cardinality(Places(q, s) \cup {Len(q) + 1}) = Cardinality(Places(q, s)) + 1
  BY <1>3, PlacesFinite, FS_AddElement
<1> QED
  BY <1>2, <1>4, PlacesFinite

LEMMA PlacesTail ==
  ASSUME NEW q \in Seq(Item), q # <<>>, NEW s
  PROVE  Cardinality(Places(q, s)) =
           Cardinality(Places(Tail(q), s)) + IF Head(q).s = s THEN 1 ELSE 0
<1> DEFINE f == [i \in Places(Tail(q), s) |-> i + 1]
           rest == Places(q, s) \ {1}
<1>1. /\ Tail(q) \in Seq(Item) /\ Len(Tail(q)) = Len(q) - 1 /\ Len(q) \in Nat \ {0}
      /\ \A i \in 1 .. Len(q) - 1 : Tail(q)[i] = q[i + 1]
      /\ Head(q) = q[1]
  BY TailOf
<1>2. f \in [Places(Tail(q), s) -> rest]
  BY <1>1 DEF Places
<1>3. \A a, b \in Places(Tail(q), s) : f[a] = f[b] => a = b
  BY <1>1 DEF Places
<1>4. \A i \in rest : \E a \in Places(Tail(q), s) : f[a] = i
  <2> TAKE i \in rest
  <2>1. i - 1 \in Places(Tail(q), s) /\ f[i - 1] = i
    BY <1>1 DEF Places
  <2> QED
    BY <2>1
<1>5. f \in Bijection(Places(Tail(q), s), rest)
  <2> HIDE DEF f, rest
  <2> QED
    BY <1>2, <1>3, <1>4, Fun_IsBij
<1>6. Cardinality(rest) = Cardinality(Places(Tail(q), s))
  <2>1. ExistsBijection(Places(Tail(q), s), rest)
    BY <1>5 DEF ExistsBijection
  <2> QED
    BY <1>1, <2>1, PlacesFinite, FS_Bijection
<1>7. Cardinality(rest) = IF 1 \in Places(q, s) THEN Cardinality(Places(q, s)) - 1
                          ELSE Cardinality(Places(q, s))
  BY PlacesFinite, FS_RemoveElement
<1>8. 1 \in Places(q, s) <=> Head(q).s = s
  BY <1>1 DEF Places
<1> QED
  BY <1>1, <1>6, <1>7, <1>8, PlacesFinite

\* Each way to hold a reference.
Hashed(s) == IF s \in ToSet(hash) THEN 1 ELSE 0
Queued(s) == Cardinality(Places(queue[owner[s]], s))
Handled(s) == IF pc[owner[s]] # "ready" /\ item[owner[s]].s = s THEN 1 ELSE 0
Posted(s) == Cardinality(Posting(s))
Count(s) == Hashed(s) + Queued(s) + Handled(s) + Posted(s) + lost[s]

\* Who looks a session up holds the mutex, and the session stays in the hash; and
\* a reference is released to some session.
Guarded ==
  /\ \A p \in Procs : pc[p] = "adding" => mutex = p /\ out[p].s \in ToSet(hash)
  /\ \A t \in Threads : pc[t] = "releasing" => item[t].s # NULL

RefInv ==
  /\ EventInv
  /\ torn \subseteq Sessions
  /\ \A s \in DOMAIN owner \ torn : sess[s].refs = Count(s)
  /\ \A s \in DOMAIN owner \ torn : sess[s].freed => sess[s].refs = 0
  /\ lost \in [Sessions -> Nat] /\ \A s \in Sessions \ DOMAIN owner : lost[s] = 0
  /\ Guarded /\ mutex \in Procs \cup {-1}
  /\ crashed \in BOOLEAN /\ sends \in 0 .. MaxSends /\ restarts \in 0 .. MaxRestarts

LEMMA CountTypes ==
  ASSUME Types, lost \in [Sessions -> Nat], NEW s \in DOMAIN owner
  PROVE  /\ Hashed(s) \in {0, 1} /\ Queued(s) \in Nat /\ Handled(s) \in {0, 1}
         /\ Posted(s) \in Nat /\ IsFiniteSet(Posting(s)) /\ lost[s] \in Nat
         /\ Posting(s) # {} => Posted(s) # 0
<1>1. s \in Sessions /\ owner[s] \in Threads
  BY Owners
<1>2. Queued(s) \in Nat
  BY <1>1, PlacesFinite DEF Queued, Types
<1>3. IsFiniteSet(Procs)
  <2>1. IsFiniteSet(1 .. NUM_THREADS)
    BY Kinds, FS_Interval
  <2> QED
    BY <2>1, Kinds, FS_AddElement
<1>4. Posting(s) \in SUBSET Procs
  BY DEF Posting
<1>5. IsFiniteSet(Posting(s))
  BY <1>3, <1>4, FS_Subset
<1>6. Posted(s) \in Nat /\ (Posted(s) = 0 <=> Posting(s) = {})
  BY <1>5, FS_CardinalityType, FS_EmptySet DEF Posted
<1> QED
  BY <1>1, <1>2, <1>5, <1>6 DEF Hashed, Handled

\* The model's own count of the references is the sum of these.
LEMMA CountIs ==
  ASSUME EventInv, NEW s \in DOMAIN sess
  PROVE  /\ Cardinality({i \in DOMAIN hash : hash[i] = s}) = Hashed(s)
         /\ Cardinality(Waiting(s)) = Queued(s)
         /\ Cardinality(Handling(s)) = Handled(s)
         /\ Waiting(s) = {} <=> Queued(s) = 0
<1>0. Types /\ s \in DOMAIN owner /\ s # NULL /\ owner[s] \in Threads
  BY Owners DEF EventInv, Types
<1>1. Cardinality({i \in DOMAIN hash : hash[i] = s}) = Hashed(s)
  <2>1. CASE s \in ToSet(hash)
    <3>1. PICK i \in DOMAIN hash : hash[i] = s
      BY <2>1 DEF ToSet
    <3>2. \A j \in DOMAIN hash : hash[j] = s => j = i
      BY <1>0, <3>1 DEF Types, Chain, IsInjective
    <3>3. {j \in DOMAIN hash : hash[j] = s} = {i}
      BY <3>1, <3>2
    <3> QED
      BY <2>1, <3>3, FS_Singleton DEF Hashed
  <2>2. CASE s \notin ToSet(hash)
    <3>1. {j \in DOMAIN hash : hash[j] = s} = {}
      BY <2>2 DEF ToSet
    <3> QED
      BY <2>2, <3>1, FS_EmptySet DEF Hashed
  <2> QED
    BY <2>1, <2>2
<1> DEFINE o == owner[s]
           P == Places(queue[o], s)
           f == [i \in P |-> <<o, i>>]
<1>2. Waiting(s) = {<<o, i>> : i \in P}
  <2>1. \A t \in Threads : {j \in DOMAIN queue[t] : queue[t][j].s = s} = Places(queue[t], s)
    BY <1>0 DEF Places, Types
  <2>2. \A t \in Threads : t # o => Places(queue[t], s) = {}
    BY <1>0 DEF EventInv, QueuesOrderly, Orderly, Belongs, Places
  <2>3. \A t \in Threads : t # o => {<<t, i>> : i \in Places(queue[t], s)} = {}
    BY <2>2
  <2>4. Waiting(s) = UNION {{<<t, i>> : i \in Places(queue[t], s)} : t \in Threads}
    BY <2>1 DEF Waiting
  <2> QED
    BY <1>0, <2>3, <2>4
<1>3. Cardinality(Waiting(s)) = Queued(s)
  <2>1. f \in [P -> Waiting(s)] /\ \A a, b \in P : f[a] = f[b] => a = b
    BY <1>2
  <2>2. \A w \in Waiting(s) : \E a \in P : f[a] = w
    BY <1>2
  <2>3. f \in Bijection(P, Waiting(s))
    <3> HIDE DEF f, P
    <3> QED
      BY <2>1, <2>2, Fun_IsBij
  <2>4. ExistsBijection(P, Waiting(s))
    BY <2>3 DEF ExistsBijection
  <2>5. IsFiniteSet(P)
    BY <1>0, PlacesFinite DEF Types
  <2> QED
    BY <2>4, <2>5, FS_Bijection DEF Queued
<1>4. Cardinality(Handling(s)) = Handled(s)
  <2>1. Handling(s) = IF pc[o] # "ready" /\ item[o].s = s THEN {o} ELSE {}
    BY <1>0 DEF EventInv, HandlesOwn, Belongs, Handling
  <2> QED
    BY <2>1, FS_Singleton, FS_EmptySet DEF Handled
<1>5. Waiting(s) = {} <=> Queued(s) = 0
  <2>1. Waiting(s) = {} <=> P = {}
    BY <1>2
  <2>2. P = {} <=> Cardinality(P) = 0
    BY <1>0, PlacesFinite, FS_EmptySet DEF Types
  <2> QED
    BY <2>1, <2>2 DEF Queued
<1> QED
  BY <1>1, <1>3, <1>4, <1>5

LEMMA RefInit == CoreInit => RefInv
<1> SUFFICES ASSUME CoreInit
             PROVE  RefInv
  OBVIOUS
<1>1. EventInv
  BY EventInit
<1>2. /\ sess = <<>> /\ lost = [s \in Sessions |-> 0] /\ mutex = -1 /\ crashed = FALSE
      /\ sends = 0 /\ restarts = 0 /\ pc = [p \in Procs |-> "ready"] /\ torn = {}
  BY DEF CoreInit
<1>3. DOMAIN owner = {}
  BY <1>1, <1>2, Owners DEF EventInv
<1>4. MaxSends \in Nat /\ MaxRestarts \in Nat
  BY EventCoreAssumption
<1> QED
  <2>1. Guarded
    BY <1>2, Kinds DEF Guarded
  <2>2. lost \in [Sessions -> Nat] /\ \A s \in Sessions : lost[s] = 0
    BY <1>2
  <2>3. mutex \in Procs \cup {-1} /\ crashed \in BOOLEAN
    BY <1>2
  <2>4. sends \in 0 .. MaxSends /\ restarts \in 0 .. MaxRestarts
    BY <1>2, <1>4
  <2>5. torn \subseteq Sessions
    BY <1>2
  <2> QED
    BY <1>1, <1>3, <2>1, <2>2, <2>3, <2>4, <2>5 DEF RefInv

\* A step that leaves the sessions their threads and their counts.
LEMMA SameCount ==
  ASSUME RefInv, EventInv', owner' = owner, torn' \subseteq torn \cup Sessions,
         \A s \in DOMAIN owner \ torn' : /\ sess'[s].refs = Count(s)'
                                         /\ sess'[s].freed => sess'[s].refs = 0,
         lost' = lost, Guarded', mutex' \in Procs \cup {-1},
         crashed' \in BOOLEAN, sends' \in 0 .. MaxSends, restarts' = restarts
  PROVE  RefInv'
<1>1. torn' \subseteq Sessions
  BY DEF RefInv
<1> QED
  BY <1>1, Zenon DEF RefInv

LEMMA GetCounts ==
  ASSUME RefInv, EventInv', NEW p \in Procs, NEW name, NEW ev, Get(p, name, ev)
  PROVE  RefInv'
<1>0. Types
  BY DEF RefInv, EventInv
<1>1. /\ UNCHANGED <<torn, sess, hash, queue, item, lost, crashed, restarts>>
      /\ pc' = [pc EXCEPT ![p] = "adding"] /\ pc[p] \in {"ready", "handling"}
      /\ pc[p] = "ready" => p = Main
      /\ mutex = -1 /\ mutex' = p /\ sends' = sends + 1 /\ sends < MaxSends
      /\ Find(name) # NULL
      /\ out' = [out EXCEPT ![p] = [ev |-> ev, s |-> Find(name), byMain |-> p = Main]]
  BY DEF Get, threadVars, refVars, MaySend
<1>2. /\ pc'[p] = "adding" /\ \A q \in Procs \ {p} : pc'[q] = pc[q] /\ out'[q] = out[q]
      /\ out'[p].s = Find(name)
  BY <1>0, <1>1 DEF Types
<1>3. owner' = owner
  BY <1>1 DEF owner
<1>4. Guarded'
  <2>1. \A q \in Procs : pc[q] # "adding"
    BY <1>1 DEF RefInv, Guarded, Procs, Threads, Main
  <2>2. Find(name) \in ToSet(hash)
    BY <1>0, <1>1, Found
  <2> QED
    BY <1>1, <1>2, <2>1, <2>2, Kinds DEF RefInv, Guarded
<1>5. \A s : Posting(s)' = Posting(s)
  BY <1>1, <1>2 DEF Posting
<1>6. \A s \in DOMAIN owner : Count(s)' = Count(s)
  <2> TAKE s \in DOMAIN owner
  <2>1. Handled(s)' = Handled(s)
    BY <1>0, <1>1, <1>2, <1>3, Owners, Kinds DEF Handled
  <2>2. Posted(s)' = Posted(s)
    BY <1>5 DEF Posted
  <2>3. Hashed(s)' = Hashed(s) /\ Queued(s)' = Queued(s)
    BY <1>1, <1>3 DEF Hashed, Queued
  <2> QED
    BY <1>1, <2>1, <2>2, <2>3 DEF Count
<1>7. sends' \in 0 .. MaxSends
  BY <1>1, EventCoreAssumption DEF RefInv
<1>8. \A s \in DOMAIN owner \ torn' : sess'[s].refs = Count(s)' /\ (sess'[s].freed => sess'[s].refs = 0)
  BY <1>1, <1>6 DEF RefInv
<1>9. mutex' \in Procs \cup {-1} /\ crashed' \in BOOLEAN
  BY <1>1 DEF RefInv
<1> QED
  BY <1>1, <1>3, <1>4, <1>7, <1>8, <1>9, SameCount

LEMMA AddRefCounts ==
  ASSUME RefInv, EventInv', NEW p \in Procs, AddRef(p)
  PROVE  RefInv'
<1>0. Types /\ lost \in [Sessions -> Nat]
  BY DEF RefInv, EventInv
<1>1. /\ UNCHANGED <<hash, queue, item, out, lost, crashed, sends, restarts>>
      /\ pc[p] = "adding" /\ pc' = [pc EXCEPT ![p] = "posting"] /\ mutex' = -1
      /\ sess' = [sess EXCEPT ![out[p].s].refs = reg[p] + 1]
      /\ torn' = Torn(p, out[p].s)
  BY DEF AddRef, threadVars, history, Counted
<1>2. PICK s : s = out[p].s
  OBVIOUS
<1>3. s \in ToSet(hash) /\ s \in DOMAIN owner /\ mutex = p
  BY <1>0, <1>1, <1>2 DEF RefInv, Guarded, Types
<1>4. pc'[p] = "posting" /\ \A q \in Procs \ {p} : pc'[q] = pc[q]
  BY <1>0, <1>1 DEF Types
<1>5. \A u \in DOMAIN owner : sess[u] \in SessionType
  BY <1>0, Owners DEF Types
<1>6. /\ sess'[s].refs = reg[p] + 1 /\ sess'[s].freed = sess[s].freed
      /\ sess'[s].queue = sess[s].queue
      /\ \A u \in DOMAIN owner \ {s} : sess'[u] = sess[u]
  <2>1. s \in DOMAIN sess
    BY <1>0, <1>3, Owners DEF Types
  <2> QED
    BY <1>1, <1>2, <1>3, <1>5, <2>1 DEF SessionType
<1>7. owner' = owner
  <2>1. Len(sess') = Len(sess)
    BY <1>0, <1>1 DEF Types
  <2>2. DOMAIN owner = 1 .. Len(sess)
    BY DEF owner
  <2>3. \A u \in 1 .. Len(sess) : sess'[u].queue = sess[u].queue
    BY <1>6, <2>2
  <2> QED
    BY <2>1, <2>3 DEF owner
<1>8. Guarded'
  <2>1. \A q \in Procs \ {p} : pc[q] # "adding"
    BY <1>3, Kinds DEF RefInv, Guarded
  <2> QED
    BY <1>1, <1>4, <2>1, Kinds DEF RefInv, Guarded
<1>9. Posting(s)' = Posting(s) \cup {p} /\ p \notin Posting(s)
  BY <1>1, <1>2, <1>4 DEF Posting
<1>10. \A u : u # s => Posting(u)' = Posting(u)
  BY <1>1, <1>2, <1>4 DEF Posting
<1>11. \A u \in DOMAIN owner : Handled(u)' = Handled(u) /\ Hashed(u)' = Hashed(u) /\ Queued(u)' = Queued(u)
  <2> TAKE u \in DOMAIN owner
  <2>1. owner[u] \in Procs
    BY <1>0, Owners, Kinds
  <2>2. pc'[owner[u]] # "ready" <=> pc[owner[u]] # "ready"
    BY <1>1, <1>4, <2>1
  <2> QED
    BY <1>1, <1>7, <2>2 DEF Handled, Hashed, Queued
<1>12. Count(s)' = Count(s) + 1 /\ Hashed(s) = 1 /\ Count(s) \in Nat \ {0}
  <2>1. Posted(s)' = Posted(s) + 1
    BY <1>0, <1>3, <1>9, CountTypes, FS_AddElement DEF Posted
  <2>2. Hashed(s) = 1
    BY <1>3 DEF Hashed
  <2> QED
    BY <1>0, <1>1, <1>3, <1>11, <2>1, <2>2, CountTypes DEF Count
<1>13. \A u \in DOMAIN owner \ {s} : Count(u)' = Count(u)
  BY <1>1, <1>10, <1>11 DEF Count, Posted
<1>14. \A u \in DOMAIN owner \ torn' : sess'[u].refs = Count(u)' /\ (sess'[u].freed => sess'[u].refs = 0)
  <2>1. /\ torn \subseteq torn' /\ torn' \subseteq torn \cup {s}
        /\ s \notin torn' => reg[p] = sess[s].refs
    BY <1>1, <1>2 DEF Torn
  <2> QED
    BY <1>3, <1>6, <1>12, <1>13, <2>1 DEF RefInv
<1>15. mutex' \in Procs \cup {-1} /\ crashed' \in BOOLEAN /\ sends' \in 0 .. MaxSends
  BY <1>1 DEF RefInv
<1>16. torn' \subseteq torn \cup Sessions
  BY <1>0, <1>1, <1>2, <1>3, Owners DEF Torn
<1> QED
  BY <1>1, <1>7, <1>8, <1>14, <1>15, <1>16, SameCount

LEMMA OfflineCounts ==
  ASSUME RefInv, EventInv', NEW t \in Threads, NEW name, NEW ev, DeliverOffline(t, name, ev)
  PROVE  RefInv'
<1>0. Types /\ t \in Procs /\ t # Main
  BY Kinds DEF RefInv, EventInv
<1>1. /\ UNCHANGED <<torn, sess, hash, queue, item, lost, crashed, restarts, mutex>>
      /\ pc' = [pc EXCEPT ![t] = "posting"] /\ pc[t] = "handling"
      /\ sends' = sends + 1 /\ sends < MaxSends
      /\ out' = [out EXCEPT ![t] = [ev |-> ev, s |-> NULL, byMain |-> FALSE]]
  BY <1>0 DEF DeliverOffline, threadVars, hashVars, refVars, MaySend
<1>2. /\ pc'[t] = "posting" /\ out'[t].s = NULL
      /\ \A q \in Procs \ {t} : pc'[q] = pc[q] /\ out'[q] = out[q]
  BY <1>0, <1>1 DEF Types
<1>3. owner' = owner
  BY <1>1 DEF owner
<1>4. Guarded'
  BY <1>1, <1>2, Kinds DEF RefInv, Guarded
<1>5. \A s \in DOMAIN owner : Posting(s)' = Posting(s)
  BY <1>0, <1>1, <1>2, Owners DEF Posting
<1>6. \A s \in DOMAIN owner : Count(s)' = Count(s)
  <2> TAKE s \in DOMAIN owner
  <2>1. Handled(s)' = Handled(s)
    BY <1>0, <1>1, <1>2, <1>3, Owners, Kinds DEF Handled
  <2>2. Posted(s)' = Posted(s)
    BY <1>5 DEF Posted
  <2>3. Hashed(s)' = Hashed(s) /\ Queued(s)' = Queued(s)
    BY <1>1, <1>3 DEF Hashed, Queued
  <2> QED
    BY <1>1, <2>1, <2>2, <2>3 DEF Count
<1>7. sends' \in 0 .. MaxSends
  BY <1>1, EventCoreAssumption DEF RefInv
<1>8. \A s \in DOMAIN owner \ torn' : sess'[s].refs = Count(s)' /\ (sess'[s].freed => sess'[s].refs = 0)
  BY <1>1, <1>6 DEF RefInv
<1>9. mutex' \in Procs \cup {-1} /\ crashed' \in BOOLEAN
  BY <1>1 DEF RefInv
<1> QED
  BY <1>1, <1>3, <1>4, <1>7, <1>8, <1>9, SameCount

\* A reference passes from the one who posts to the queue.
LEMMA PostCounts ==
  ASSUME RefInv, EventInv', NEW p \in Procs, Post(p)
  PROVE  RefInv'
<1> DEFINE x == out[p]
           v == IF p = Main THEN "ready" ELSE "handling"
<1>0. Types /\ lost \in [Sessions -> Nat]
  BY DEF RefInv, EventInv
<1>1. PICK t \in QueueOf(x.s) :
        IF state[t] = "gone"
        THEN crashed' = TRUE /\ UNCHANGED <<queue, pc>>
        ELSE /\ queue' = [queue EXCEPT ![t] = Append(@, x)]
             /\ pc' = [pc EXCEPT ![p] = v]
             /\ UNCHANGED crashed
  BY DEF Post
<1>2. pc[p] = "posting" /\ UNCHANGED <<torn, sess, hash, mutex, item, out, lost, sends, restarts>>
  BY DEF Post, hashVars, refVars, history
<1>3. owner' = owner
  BY <1>2 DEF owner
<1>4. x \in Item /\ (x.s # NULL => x.s \in DOMAIN owner)
  BY <1>0, <1>2 DEF RefInv, EventInv, PostsOwn, Busy, Types
<1>5. t \in Threads /\ (x.s # NULL => owner[x.s] = t)
  BY <1>0, <1>1, <1>4, Owners DEF QueueOf
<1>6. crashed' \in BOOLEAN
  BY <1>1 DEF RefInv
<1>7. mutex' \in Procs \cup {-1} /\ sends' \in 0 .. MaxSends
  BY <1>2 DEF RefInv
<1> HIDE DEF x, v
<1>8. CASE state[t] = "gone"
  <2>1. UNCHANGED <<queue, pc>>
    BY <1>1, <1>8
  <2>2. Guarded'
    BY <1>2, <2>1, Kinds DEF RefInv, Guarded
  <2>3. \A s \in DOMAIN owner : Count(s)' = Count(s)
    BY <1>2, <1>3, <2>1 DEF Count, Hashed, Queued, Handled, Posted, Posting
  <2>4. \A s \in DOMAIN owner \ torn' : sess'[s].refs = Count(s)' /\ (sess'[s].freed => sess'[s].refs = 0)
    BY <1>2, <2>3 DEF RefInv
  <2> QED
    BY <1>2, <1>3, <1>6, <1>7, <2>2, <2>4, SameCount
<1>9. CASE state[t] # "gone"
  <2>1. queue' = [queue EXCEPT ![t] = Append(@, x)] /\ pc' = [pc EXCEPT ![p] = v]
    BY <1>1, <1>9
  <2>2. /\ queue'[t] = Append(queue[t], x) /\ queue[t] \in Seq(Item)
        /\ \A u \in Threads \ {t} : queue'[u] = queue[u]
    BY <1>0, <1>5, <2>1 DEF Types
  <2>3. pc'[p] = v /\ \A q \in Procs \ {p} : pc'[q] = pc[q]
    BY <1>0, <2>1 DEF Types
  <2>4. v \in {"ready", "handling"} /\ (p # Main => v # "ready")
    BY DEF v
  <2>5. Guarded'
    BY <1>2, <2>3, <2>4, Kinds DEF RefInv, Guarded
  <2>6. ASSUME NEW s \in DOMAIN owner
        PROVE  Count(s)' = Count(s)
    <3>0. owner[s] \in Threads /\ s # NULL
      BY <1>0, Owners
    <3>1. Hashed(s)' = Hashed(s) /\ Handled(s)' = Handled(s)
      BY <1>2, <1>3, <2>3, <2>4, <3>0, Kinds DEF Hashed, Handled
    <3>2. CASE x.s = s
      <4>1. Posting(s)' = Posting(s) \ {p} /\ p \in Posting(s)
        BY <1>2, <2>3, <2>4, <3>2 DEF Posting, x
      <4>2. Posted(s)' = Posted(s) - 1
        BY <1>0, <4>1, CountTypes, FS_RemoveElement DEF Posted
      <4>3. owner[s] = t
        BY <1>5, <3>0, <3>2
      <4>4. Queued(s)' = Queued(s) + 1
        BY <1>3, <1>4, <2>2, <3>2, <4>3, PlacesAppend DEF Queued
      <4> QED
        BY <1>0, <1>2, <3>1, <4>2, <4>4, CountTypes DEF Count
    <3>3. CASE x.s # s
      <4>1. Posting(s)' = Posting(s)
        BY <1>2, <2>3, <2>4, <3>3 DEF Posting, x
      <4>2. Cardinality(Places(Append(queue[t], x), s)) = Cardinality(Places(queue[t], s))
        BY <1>4, <2>2, <3>3, PlacesAppend, PlacesFinite
      <4>3. Queued(s)' = Queued(s)
        BY <1>3, <2>2, <3>0, <4>2 DEF Queued
      <4> QED
        BY <1>2, <3>1, <4>1, <4>3 DEF Count, Posted
    <3> QED
      BY <3>2, <3>3
  <2>7. \A s \in DOMAIN owner \ torn' : sess'[s].refs = Count(s)' /\ (sess'[s].freed => sess'[s].refs = 0)
    BY <1>2, <2>6 DEF RefInv
  <2> QED
    BY <1>2, <1>3, <1>6, <1>7, <2>5, <2>7, SameCount
<1> QED
  BY <1>8, <1>9

\* Two references for a new session: one for the hash, one for its announcement.
LEMMA AddSessionCounts ==
  ASSUME RefInv, EventInv', NEW name \in Names, AddSession(name)
  PROVE  RefInv'
<1>0. Types /\ lost \in [Sessions -> Nat]
  BY DEF RefInv, EventInv
<1>1. PICK t \in Threads : sess' = Append(sess, NewSession(name, t))
  BY DEF AddSession
<1>2. PICK s \in Sessions : s = Len(sess) + 1
  BY DEF AddSession
<1>3. /\ hash' = <<s>> \o hash /\ mutex = -1 /\ pc[Main] = "ready"
      /\ out' = [out EXCEPT ![Main] = [ev |-> "EV_SESSION", s |-> s, byMain |-> TRUE]]
      /\ pc' = [pc EXCEPT ![Main] = "posting"]
      /\ UNCHANGED <<torn, mutex, queue, crashed, item, lost, sends, restarts>>
  BY <1>2 DEF AddSession, MainIdle, threadVars, refVars, history
<1>4. /\ Len(sess') = s /\ sess'[s] = NewSession(name, t) /\ 1 .. s = (1 .. Len(sess)) \cup {s}
      /\ \A u \in 1 .. Len(sess) : sess'[u] = sess[u]
      /\ s \notin 1 .. Len(sess) /\ s # NULL
  <2>1. sess \in Seq(SessionType) /\ Len(sess) \in Nat
    BY <1>0 DEF Types
  <2>2. s # NULL
    BY Kinds
  <2> QED
    BY <1>1, <1>2, <2>1, <2>2
<1>5. /\ DOMAIN owner' = DOMAIN owner \cup {s} /\ s \notin DOMAIN owner /\ owner'[s] = t
      /\ \A u \in DOMAIN owner : owner'[u] = owner[u] /\ sess'[u] = sess[u]
  BY <1>4 DEF owner, NewSession
<1>6. /\ pc'[Main] = "posting" /\ \A q \in Procs \ {Main} : pc'[q] = pc[q]
      /\ out'[Main].s = s /\ \A q \in Procs \ {Main} : out'[q] = out[q]
  BY <1>0, <1>3, Kinds DEF Types
<1>7. ToSet(hash') = ToSet(hash) \cup {s} /\ s \notin ToSet(hash)
  <2>1. s \notin ToSet(hash) /\ Chain(Sessions, hash, ToSet(hash))
    BY <1>0, <1>5 DEF Types
  <2>2. Chain(Sessions, hash', ToSet(hash) \cup {s})
    BY <1>3, <2>1, PutChain
  <2> QED
    BY <2>1, <2>2 DEF Chain
<1>8. Guarded'
  <2>1. \A q \in Procs : pc[q] # "adding"
    BY <1>3 DEF RefInv, Guarded, Procs, Threads, Main
  <2> QED
    BY <1>3, <1>6, <2>1, Kinds DEF RefInv, Guarded
<1>9. ASSUME NEW u \in DOMAIN owner
      PROVE  Count(u)' = Count(u)
  <2>0. u # s /\ owner[u] \in Threads /\ owner'[u] = owner[u]
    BY <1>0, <1>5, Owners
  <2>1. Posting(u)' = Posting(u)
    BY <1>3, <1>6, <2>0 DEF Posting
  <2>2. Hashed(u)' = Hashed(u) /\ Queued(u)' = Queued(u)
    BY <1>3, <1>7, <2>0 DEF Hashed, Queued
  <2>3. pc'[owner[u]] = pc[owner[u]]
    BY <1>6, <2>0, Kinds
  <2>4. Handled(u)' = Handled(u)
    BY <1>3, <2>0, <2>3 DEF Handled
  <2> QED
    BY <1>3, <2>1, <2>2, <2>4 DEF Count, Posted
<1>10. Count(s)' = 2
  <2>1. Hashed(s)' = 1
    BY <1>7 DEF Hashed
  <2>2. Queued(s)' = 0
    <3>1. Places(queue[t], s) = {}
      BY <1>4, <1>5 DEF Places, RefInv, EventInv, QueuesOrderly, Orderly, Belongs
    <3> QED
      BY <1>3, <1>5, <3>1, FS_EmptySet DEF Queued
  <2>3. Handled(s)' = 0
    <3>1. pc'[t] = pc[t]
      BY <1>6, Kinds
    <3>2. pc[t] # "ready" => item[t].s # s
      BY <1>4, <1>5 DEF RefInv, EventInv, HandlesOwn, Belongs
    <3> QED
      BY <1>3, <1>5, <3>1, <3>2 DEF Handled
  <2>4. Posted(s)' = 1
    <3>1. \A q \in Procs : pc[q] = "posting" => out[q].s # s
      BY <1>4, <1>5 DEF RefInv, EventInv, PostsOwn, Busy
    <3>2. Posting(s)' = {Main}
      BY <1>6, <3>1, Kinds DEF Posting
    <3> QED
      BY <3>2, FS_Singleton DEF Posted
  <2>5. lost'[s] = 0
    BY <1>3, <1>5 DEF RefInv
  <2> QED
    BY <2>1, <2>2, <2>3, <2>4, <2>5 DEF Count
<1>11. \A u \in DOMAIN owner' \ torn' : sess'[u].refs = Count(u)' /\ (sess'[u].freed => sess'[u].refs = 0)
  <2>1. sess'[s].refs = 2 /\ sess'[s].freed = FALSE
    BY <1>4 DEF NewSession
  <2> QED
    BY <1>3, <1>5, <1>9, <1>10, <2>1 DEF RefInv
<1>12. lost' \in [Sessions -> Nat] /\ \A u \in Sessions \ DOMAIN owner' : lost'[u] = 0
  BY <1>3, <1>5 DEF RefInv
<1>13. /\ mutex' \in Procs \cup {-1} /\ crashed' \in BOOLEAN /\ sends' \in 0 .. MaxSends
       /\ restarts' \in 0 .. MaxRestarts /\ torn' \subseteq Sessions
  BY <1>3 DEF RefInv
<1> QED
  BY <1>8, <1>11, <1>12, <1>13 DEF RefInv

\* The reference of the hash becomes that of the event.
LEMMA RemoveSessionCounts ==
  ASSUME RefInv, EventInv', NEW name \in Names, RemoveSession(name)
  PROVE  RefInv'
<1>0. Types /\ lost \in [Sessions -> Nat]
  BY DEF RefInv, EventInv
<1>1. PICK s : s = Find(name)
  OBVIOUS
<1>2. s \in ToSet(hash) /\ s \in DOMAIN owner /\ s \in Sessions
  BY <1>0, <1>1, Found DEF RemoveSession
<1>3. /\ hash' = RemoveFirst(hash, s) /\ mutex = -1 /\ pc[Main] = "ready"
      /\ out' = [out EXCEPT ![Main] = [ev |-> "EV_S_END", s |-> s, byMain |-> TRUE]]
      /\ pc' = [pc EXCEPT ![Main] = "posting"]
      /\ UNCHANGED <<torn, sess, mutex, queue, crashed, item, lost, sends, restarts>>
  BY <1>1 DEF RemoveSession, MainIdle, threadVars, refVars, history
<1>4. owner' = owner
  BY <1>3 DEF owner
<1>5. /\ pc'[Main] = "posting" /\ \A q \in Procs \ {Main} : pc'[q] = pc[q]
      /\ out'[Main].s = s /\ \A q \in Procs \ {Main} : out'[q] = out[q]
  BY <1>0, <1>3, Kinds DEF Types
<1>6. ToSet(hash') = ToSet(hash) \ {s}
  <2>1. Chain(Sessions, hash', ToSet(hash) \ {s})
    BY <1>0, <1>2, <1>3, RemoveChain DEF Types
  <2> QED
    BY <2>1 DEF Chain
<1>7. Guarded'
  <2>1. \A q \in Procs : pc[q] # "adding"
    BY <1>3 DEF RefInv, Guarded, Procs, Threads, Main
  <2> QED
    BY <1>3, <1>5, <2>1, Kinds DEF RefInv, Guarded
<1>8. ASSUME NEW u \in DOMAIN owner
      PROVE  Count(u)' = Count(u)
  <2>0. owner[u] \in Threads
    BY <1>0, Owners
  <2>1. pc'[owner[u]] = pc[owner[u]]
    BY <1>5, <2>0, Kinds
  <2>2. Handled(u)' = Handled(u) /\ Queued(u)' = Queued(u)
    BY <1>3, <1>4, <2>1 DEF Handled, Queued
  <2>3. CASE u = s
    <3>1. Posting(s)' = Posting(s) \cup {Main} /\ Main \notin Posting(s)
      BY <1>3, <1>5, Kinds DEF Posting
    <3>2. Posted(s)' = Posted(s) + 1
      BY <1>0, <1>2, <3>1, CountTypes, FS_AddElement DEF Posted
    <3>3. Hashed(s) = 1 /\ Hashed(s)' = 0
      BY <1>2, <1>6 DEF Hashed
    <3> QED
      BY <1>0, <1>2, <1>3, <2>2, <2>3, <3>2, <3>3, CountTypes DEF Count
  <2>4. CASE u # s
    <3>1. Posting(u)' = Posting(u)
      BY <1>3, <1>5, <2>4 DEF Posting
    <3>2. Hashed(u)' = Hashed(u)
      BY <1>6, <2>4 DEF Hashed
    <3> QED
      BY <1>3, <2>2, <3>1, <3>2 DEF Count, Posted
  <2> QED
    BY <2>3, <2>4
<1>9. \A u \in DOMAIN owner \ torn' : sess'[u].refs = Count(u)' /\ (sess'[u].freed => sess'[u].refs = 0)
  BY <1>3, <1>8 DEF RefInv
<1>10. mutex' \in Procs \cup {-1} /\ crashed' \in BOOLEAN /\ sends' \in 0 .. MaxSends
  BY <1>3 DEF RefInv
<1> QED
  BY <1>3, <1>4, <1>7, <1>9, <1>10, SameCount

LEMMA BeginRestartCounts ==
  ASSUME RefInv, EventInv', BeginRestart
  PROVE  RefInv'
<1>0. Types /\ 1 \in Threads
  BY Kinds DEF RefInv, EventInv
<1>1. /\ queue' = [queue EXCEPT ![1] = Append(@, ExitItem)]
      /\ restarts' = restarts + 1 /\ restarts < MaxRestarts
      /\ UNCHANGED <<torn, sess, hash, mutex, crashed, pc, item, out, lost, sends>>
  BY DEF BeginRestart, Exit, hashVars, refVars
<1>2. owner' = owner
  BY <1>1 DEF owner
<1>3. /\ queue'[1] = Append(queue[1], ExitItem) /\ queue[1] \in Seq(Item)
      /\ \A u \in Threads \ {1} : queue'[u] = queue[u]
  BY <1>0, <1>1 DEF Types
<1>4. ASSUME NEW s \in DOMAIN owner
      PROVE  Count(s)' = Count(s)
  <2>0. owner[s] \in Threads /\ s # NULL
    BY <1>0, Owners
  <2>1. ExitItem \in Item /\ ExitItem.s = NULL
    BY Zenon DEF ExitItem, Item, Event
  <2>2. Cardinality(Places(Append(queue[1], ExitItem), s)) = Cardinality(Places(queue[1], s))
    BY <1>3, <2>0, <2>1, PlacesAppend, PlacesFinite
  <2>3. Queued(s)' = Queued(s)
    BY <1>2, <1>3, <2>0, <2>2 DEF Queued
  <2> QED
    BY <1>1, <1>2, <2>3 DEF Count, Hashed, Handled, Posted, Posting
<1>5. Guarded'
  BY <1>1, Kinds DEF RefInv, Guarded
<1>6. \A s \in DOMAIN owner \ torn' : sess'[s].refs = Count(s)' /\ (sess'[s].freed => sess'[s].refs = 0)
  BY <1>1, <1>4 DEF RefInv
<1>7. lost' \in [Sessions -> Nat] /\ \A u \in Sessions \ DOMAIN owner' : lost'[u] = 0
  BY <1>1, <1>2 DEF RefInv
<1>8. restarts' \in 0 .. MaxRestarts
  BY <1>1, EventCoreAssumption DEF RefInv
<1>9. /\ mutex' \in Procs \cup {-1} /\ crashed' \in BOOLEAN /\ sends' \in 0 .. MaxSends
      /\ torn' \subseteq Sessions
  BY <1>1 DEF RefInv
<1> QED
  BY <1>2, <1>5, <1>6, <1>7, <1>8, <1>9 DEF RefInv

\* The references of events that go with a queue are never given back.
LEMMA EndThreadCounts ==
  ASSUME RefInv, EventInv', EndThread
  PROVE  RefInv'
<1>0. Types /\ lost \in [Sessions -> Nat]
  BY DEF RefInv, EventInv
<1>1. PICK v \in Threads : v = victim
  BY <1>0, Kinds DEF EndThread, Types
<1>2. /\ UNCHANGED <<torn, sess, hash, mutex, crashed, pc, item, out, sends, restarts>>
      /\ lost' = [s \in Sessions |-> lost[s] + Cardinality({i \in DOMAIN queue[v] : queue[v][i].s = s})]
  BY <1>1 DEF EndThread, hashVars, refVars
<1>3. queue[v] \in Seq(Item) /\ \A s : {i \in DOMAIN queue[v] : queue[v][i].s = s} = Places(queue[v], s)
  BY <1>0, <1>1 DEF Types, Places
<1>4. owner' = owner
  BY <1>2 DEF owner
<1>5. lost' \in [Sessions -> Nat] /\ \A s \in Sessions : lost'[s] = lost[s] + Cardinality(Places(queue[v], s))
  <2>1. lost' = [s \in Sessions |-> lost[s] + Cardinality(Places(queue[v], s))]
    BY <1>2, <1>3, Zenon
  <2>2. \A s \in Sessions : Cardinality(Places(queue[v], s)) \in Nat
    BY <1>3, PlacesFinite
  <2> QED
    BY <1>0, <2>1, <2>2
<1>6. \A s \in Sessions : owner' = owner /\ (s \notin DOMAIN owner \/ owner[s] # v) => lost'[s] = lost[s]
  <2> SUFFICES ASSUME NEW s \in Sessions, s \notin DOMAIN owner \/ owner[s] # v
               PROVE  lost'[s] = lost[s]
    OBVIOUS
  <2>1. s # NULL
    BY Kinds
  <2>2. Places(queue[v], s) = {}
    BY <1>1, <2>1 DEF Places, RefInv, EventInv, QueuesOrderly, Orderly, Belongs
  <2>3. Cardinality(Places(queue[v], s)) = 0
    BY <2>2, FS_EmptySet
  <2> QED
    BY <1>0, <1>5, <2>3
<1>7. \A s \in DOMAIN owner : Queued(s)' = IF owner[s] = v THEN 0 ELSE Queued(s)
  <2> TAKE s \in DOMAIN owner
  <2>0. owner[s] \in Threads /\ s # NULL
    BY <1>0, Owners
  <2>1. Places(<<>>, s) = {} /\ Cardinality({}) = 0
    BY FS_EmptySet DEF Places
  <2>2. /\ queue'[v] = <<>>
        /\ \A u \in Threads \ {v} : queue'[u] = queue[u] \/ queue'[u] = Append(queue[u], ExitItem)
    <3> DEFINE rest == [queue EXCEPT ![v] = <<>>]
    <3>1. rest \in [Threads -> Seq(Item)] /\ rest[v] = <<>> /\ \A u \in Threads \ {v} : rest[u] = queue[u]
      BY <1>0, <1>1 DEF Types
    <3>2. queue' = rest \/ (v + 1 # v /\ queue' = [rest EXCEPT ![v + 1] = Append(@, ExitItem)])
      <4>1. v \in Nat
        BY Kinds
      <4> QED
        BY <1>1, <4>1 DEF EndThread, Exit
    <3> HIDE DEF rest
    <3> QED
      BY <3>1, <3>2
  <2>3. ExitItem \in Item /\ ExitItem.s = NULL
    BY Zenon DEF ExitItem, Item, Event
  <2>4. CASE owner[s] = v
    BY <1>4, <2>1, <2>2, <2>4 DEF Queued
  <2>5. CASE owner[s] # v
    <3>1. queue[owner[s]] \in Seq(Item)
      BY <1>0, <2>0 DEF Types
    <3>2. Cardinality(Places(Append(queue[owner[s]], ExitItem), s)) = Cardinality(Places(queue[owner[s]], s))
      BY <2>0, <2>3, <3>1, PlacesAppend, PlacesFinite
    <3> QED
      BY <1>4, <2>0, <2>2, <2>5, <3>2 DEF Queued
  <2> QED
    BY <2>4, <2>5
<1>8. ASSUME NEW s \in DOMAIN owner
      PROVE  Count(s)' = Count(s)
  <2>1. s \in Sessions
    BY <1>0, Owners
  <2>2. Queued(s)' + lost'[s] = Queued(s) + lost[s]
    <3>1. CASE owner[s] = v
      <4>1. lost'[s] = lost[s] + Queued(s)
        BY <1>5, <2>1, <3>1 DEF Queued
      <4> QED
        BY <1>0, <1>7, <3>1, <4>1, CountTypes
    <3>2. CASE owner[s] # v
      BY <1>4, <1>6, <1>7, <2>1, <3>2
    <3> QED
      BY <3>1, <3>2
  <2>3. Hashed(s)' = Hashed(s) /\ Handled(s)' = Handled(s) /\ Posted(s)' = Posted(s)
    BY <1>2, <1>4 DEF Hashed, Handled, Posted, Posting
  <2>4. lost'[s] \in Nat /\ Queued(s)' \in Nat
    BY <1>0, <1>5, <1>7, <2>1, CountTypes
  <2> QED
    BY <1>0, <2>2, <2>3, <2>4, CountTypes DEF Count
<1>9. Guarded'
  BY <1>2, Kinds DEF RefInv, Guarded
<1>10. \A s \in DOMAIN owner \ torn' : sess'[s].refs = Count(s)' /\ (sess'[s].freed => sess'[s].refs = 0)
  BY <1>2, <1>8 DEF RefInv
<1>11. \A u \in Sessions \ DOMAIN owner' : lost'[u] = 0
  BY <1>4, <1>6 DEF RefInv
<1>12. /\ mutex' \in Procs \cup {-1} /\ crashed' \in BOOLEAN /\ sends' \in 0 .. MaxSends
       /\ restarts' \in 0 .. MaxRestarts /\ torn' \subseteq Sessions
  BY <1>2 DEF RefInv
<1> QED
  BY <1>4, <1>5, <1>9, <1>10, <1>11, <1>12 DEF RefInv

\* The reference passes from the queue to the thread.
LEMMA TakeCounts ==
  ASSUME RefInv, EventInv', NEW t \in Threads, Take(t)
  PROVE  RefInv'
<1>0. Types /\ lost \in [Sessions -> Nat] /\ t \in Procs /\ t # Main
  BY Kinds DEF RefInv, EventInv
<1>1. PICK q : q = queue[t]
  OBVIOUS
<1>2. PICK x : x = Head(q)
  OBVIOUS
<1>3. /\ pc[t] = "ready" /\ q # <<>> /\ q \in Seq(Item) /\ queue' = [queue EXCEPT ![t] = Tail(q)]
      /\ x.ev = "Exit" => UNCHANGED <<pc, item>>
      /\ x.ev # "Exit" => /\ item' = [item EXCEPT ![t] = x] /\ pc' = [pc EXCEPT ![t] = "handling"]
      /\ UNCHANGED <<torn, sess, hash, mutex, crashed, out, lost, sends, restarts>>
  BY <1>0, <1>1, <1>2 DEF Take, hashVars, refVars, Types
<1>4. owner' = owner
  BY <1>3 DEF owner
<1>5. queue'[t] = Tail(q) /\ \A u \in Threads \ {t} : queue'[u] = queue[u]
  BY <1>0, <1>3 DEF Types
<1>6. /\ Belongs(x, t, owner) /\ (x.ev = "Exit" => x.s = NULL)
  <2>1. x = q[1] /\ 1 \in 1 .. Len(q)
    BY <1>2, <1>3
  <2>2. Orderly(q, t, owner, life)
    BY <1>1 DEF RefInv, EventInv, QueuesOrderly
  <2> QED
    BY <2>1, <2>2, Zenon DEF Orderly
<1>7. /\ x.ev = "Exit" => \A p \in Procs : pc'[p] = pc[p]
      /\ x.ev # "Exit" => pc'[t] = "handling" /\ item'[t] = x
      /\ \A p \in Procs \ {t} : pc'[p] = pc[p]
      /\ \A u \in Threads \ {t} : item'[u] = item[u]
  BY <1>0, <1>3 DEF Types
<1>8. ASSUME NEW s \in DOMAIN owner
      PROVE  Count(s)' = Count(s)
  <2>0. owner[s] \in Threads /\ s # NULL
    BY <1>0, Owners
  <2>1. Posting(s)' = Posting(s) /\ Hashed(s)' = Hashed(s)
    BY <1>0, <1>3, <1>7 DEF Posting, Hashed
  <2>2. CASE owner[s] # t
    <3>1. Handled(s)' = Handled(s) /\ Queued(s)' = Queued(s)
      BY <1>4, <1>5, <1>7, <2>0, <2>2, Kinds DEF Handled, Queued
    <3> QED
      BY <1>3, <2>1, <3>1 DEF Count, Posted
  <2>3. CASE owner[s] = t
    <3>1. Queued(s) = Cardinality(Places(q, s)) /\ Queued(s)' = Cardinality(Places(Tail(q), s))
      BY <1>1, <1>4, <1>5, <2>3 DEF Queued
    <3>2. Cardinality(Places(q, s)) = Cardinality(Places(Tail(q), s)) + IF x.s = s THEN 1 ELSE 0
      BY <1>2, <1>3, PlacesTail
    <3>3. Handled(s) = 0
      BY <1>3, <2>3 DEF Handled
    <3>4. Handled(s)' = IF x.s = s THEN 1 ELSE 0
      <4>1. CASE x.ev = "Exit"
        BY <1>0, <1>3, <1>4, <1>6, <1>7, <2>0, <2>3, <4>1 DEF Handled
      <4>2. CASE x.ev # "Exit"
        BY <1>4, <1>7, <2>3, <4>2 DEF Handled
      <4> QED
        BY <4>1, <4>2
    <3>5. Queued(s)' + Handled(s)' = Queued(s) + Handled(s) /\ Queued(s)' \in Nat
      <4>1. Tail(q) \in Seq(Item)
        BY <1>3
      <4>2. Cardinality(Places(Tail(q), s)) \in Nat
        BY <4>1, PlacesFinite
      <4> QED
        BY <3>1, <3>2, <3>3, <3>4, <4>2
    <3>6. Handled(s)' \in {0, 1}
      BY <3>4
    <3> QED
      BY <1>0, <1>3, <2>1, <3>5, <3>6, CountTypes DEF Count, Posted
  <2> QED
    BY <2>2, <2>3
<1>9. Guarded'
  BY <1>3, <1>7, Kinds DEF RefInv, Guarded
<1>10. \A s \in DOMAIN owner \ torn' : sess'[s].refs = Count(s)' /\ (sess'[s].freed => sess'[s].refs = 0)
  BY <1>3, <1>8 DEF RefInv
<1>11. mutex' \in Procs \cup {-1} /\ crashed' \in BOOLEAN /\ sends' \in 0 .. MaxSends
  BY <1>3 DEF RefInv
<1> QED
  BY <1>3, <1>4, <1>9, <1>10, <1>11, SameCount

LEMMA FinishCounts ==
  ASSUME RefInv, EventInv', NEW t \in Threads, Finish(t)
  PROVE  RefInv'
<1>0. Types /\ t \in Procs
  BY Kinds DEF RefInv, EventInv
<1>1. /\ pc[t] = "handling"
      /\ pc' = [pc EXCEPT ![t] = IF item[t].s = NULL THEN "ready" ELSE "releasing"]
      /\ UNCHANGED <<torn, sess, hash, mutex, queue, crashed, item, out, lost, sends, restarts>>
  BY DEF Finish, hashVars, refVars, threadVars, history
<1>2. owner' = owner
  BY <1>1 DEF owner
<1>3. /\ pc'[t] = IF item[t].s = NULL THEN "ready" ELSE "releasing"
      /\ \A p \in Procs \ {t} : pc'[p] = pc[p]
  BY <1>0, <1>1 DEF Types
<1>4. ASSUME NEW s \in DOMAIN owner
      PROVE  Count(s)' = Count(s)
  <2>0. owner[s] \in Threads /\ owner[s] \in Procs /\ s # NULL
    BY <1>0, Owners, Kinds
  <2>1. Posting(s)' = Posting(s)
    BY <1>1, <1>3 DEF Posting
  <2>2. Handled(s)' = Handled(s)
    BY <1>1, <1>2, <1>3, <2>0 DEF Handled
  <2> QED
    BY <1>1, <1>2, <2>1, <2>2 DEF Count, Posted, Hashed, Queued
<1>5. Guarded'
  BY <1>1, <1>3, Kinds DEF RefInv, Guarded
<1>6. \A s \in DOMAIN owner \ torn' : sess'[s].refs = Count(s)' /\ (sess'[s].freed => sess'[s].refs = 0)
  BY <1>1, <1>4 DEF RefInv
<1>7. mutex' \in Procs \cup {-1} /\ crashed' \in BOOLEAN /\ sends' \in 0 .. MaxSends
  BY <1>1 DEF RefInv
<1> QED
  BY <1>1, <1>2, <1>5, <1>6, <1>7, SameCount

\* The last reference to be given back deletes the session.
LEMMA ReleaseCounts ==
  ASSUME RefInv, EventInv', NEW t \in Threads, Release(t)
  PROVE  RefInv'
<1>0. Types /\ lost \in [Sessions -> Nat] /\ t \in Procs
  BY Kinds DEF RefInv, EventInv
<1>1. PICK s : s = item[t].s
  OBVIOUS
<1>2. /\ pc[t] = "releasing" /\ pc' = [pc EXCEPT ![t] = "ready"]
      /\ sess' = [sess EXCEPT ![s] = Dropped(@, reg[t])]
      /\ torn' = Torn(t, s)
      /\ UNCHANGED <<hash, mutex, queue, crashed, item, out, lost, sends, restarts>>
  BY <1>1 DEF Release, threadVars, history
<1>3. s # NULL /\ s \in DOMAIN owner /\ s \in Sessions /\ owner[s] = t
  BY <1>0, <1>1, <1>2, Owners DEF RefInv, Guarded, EventInv, HandlesOwn, Belongs
<1>4. pc'[t] = "ready" /\ \A p \in Procs \ {t} : pc'[p] = pc[p]
  BY <1>0, <1>2 DEF Types
<1>5. DOMAIN owner = DOMAIN sess /\ \A u \in DOMAIN sess : sess[u] \in SessionType
  BY <1>0, Owners DEF Types
<1>6. \A u \in DOMAIN owner \ {s} : sess'[u] = sess[u]
  BY <1>2, <1>5
<1>7. s \in DOMAIN owner => /\ sess'[s].refs = reg[t] - 1
                            /\ sess'[s].freed => sess[s].freed \/ reg[t] = 1
                            /\ sess'[s].queue = sess[s].queue
  <2> SUFFICES ASSUME s \in DOMAIN owner
               PROVE  /\ sess'[s].refs = reg[t] - 1
                      /\ sess'[s].freed => sess[s].freed \/ reg[t] = 1
                      /\ sess'[s].queue = sess[s].queue
    OBVIOUS
  <2>1. sess'[s] = Dropped(sess[s], reg[t]) /\ sess[s] \in SessionType
    BY <1>2, <1>5
  <2>2. DOMAIN sess[s] = {"name", "refs", "queue", "freed"}
    BY <2>1 DEF SessionType
  <2> QED
    BY <2>1, <2>2 DEF Dropped
<1>8. owner' = owner
  <2>1. Len(sess') = Len(sess)
    BY <1>0, <1>2 DEF Types
  <2>2. DOMAIN owner = 1 .. Len(sess)
    BY DEF owner
  <2>3. \A u \in 1 .. Len(sess) : sess'[u].queue = sess[u].queue
    BY <1>6, <1>7, <2>2
  <2> QED
    BY <2>1, <2>3 DEF owner
<1>9. \A u : Posting(u)' = Posting(u)
  BY <1>2, <1>4 DEF Posting
<1>10. \A u \in DOMAIN owner : Hashed(u)' = Hashed(u) /\ Queued(u)' = Queued(u) /\ Posted(u)' = Posted(u)
  BY <1>2, <1>8, <1>9 DEF Hashed, Queued, Posted
<1>11. ASSUME NEW u \in DOMAIN owner \ {s}
       PROVE  Count(u)' = Count(u)
  <2>0. owner[u] \in Procs
    BY <1>0, Owners, Kinds
  <2>1. Handled(u)' = Handled(u)
    BY <1>1, <1>2, <1>4, <1>8, <2>0 DEF Handled
  <2> QED
    BY <1>2, <1>10, <2>1 DEF Count
<1>12. s \in DOMAIN owner => Count(s)' = Count(s) - 1 /\ Count(s) \in Nat \ {0}
  <2> SUFFICES ASSUME s \in DOMAIN owner
               PROVE  Count(s)' = Count(s) - 1 /\ Count(s) \in Nat \ {0}
    OBVIOUS
  <2>1. owner[s] = t
    BY <1>0, <1>3, Owners
  <2>2. Handled(s) = 1 /\ Handled(s)' = 0
    BY <1>1, <1>2, <1>4, <1>8, <2>1 DEF Handled
  <2> QED
    BY <1>0, <1>2, <1>10, <2>2, CountTypes DEF Count
<1>13. \A u \in DOMAIN owner \ torn' : sess'[u].refs = Count(u)' /\ (sess'[u].freed => sess'[u].refs = 0)
  <2>1. /\ torn \subseteq torn' /\ torn' \subseteq torn \cup {s}
        /\ s \notin torn' => reg[t] = sess[s].refs
    BY <1>2 DEF Torn
  <2> QED
    BY <1>3, <1>6, <1>7, <1>11, <1>12, <2>1 DEF RefInv
<1>14. Guarded'
  BY <1>2, <1>4, Kinds DEF RefInv, Guarded
<1>15. mutex' \in Procs \cup {-1} /\ crashed' \in BOOLEAN /\ sends' \in 0 .. MaxSends
  BY <1>2 DEF RefInv
<1>16. torn' \subseteq torn \cup Sessions
  BY <1>2, <1>3 DEF Torn
<1> QED
  BY <1>2, <1>8, <1>13, <1>14, <1>15, <1>16, SameCount

LEMMA RefNext ==
  ASSUME RefInv, [CoreNext]_coreVars
  PROVE  RefInv'
<1>0. EventInv /\ EventInv'
  BY EventNext DEF RefInv
<1>1. CASE UNCHANGED coreVars
  <2>1. /\ UNCHANGED <<torn, sess, hash, mutex, queue, crashed, pc, item, out>>
        /\ UNCHANGED <<lost, sends, restarts>>
    BY <1>1 DEF coreVars, hashVars, refVars, threadVars, history
  <2>2. owner' = owner
    BY <2>1 DEF owner
  <2>3. \A s : Posting(s)' = Posting(s)
    BY <2>1 DEF Posting
  <2>4. \A s : Count(s)' = Count(s)
    BY <2>1, <2>2, <2>3 DEF Count, Hashed, Queued, Handled, Posted
  <2>5. Guarded' /\ mutex' \in Procs \cup {-1} /\ crashed' \in BOOLEAN /\ sends' \in 0 .. MaxSends
    BY <2>1, Kinds DEF RefInv, Guarded
  <2>6. \A s \in DOMAIN owner \ torn' : sess'[s].refs = Count(s)' /\ (sess'[s].freed => sess'[s].refs = 0)
    BY <2>1, <2>4 DEF RefInv
  <2> QED
    BY <1>0, <2>1, <2>2, <2>5, <2>6, SameCount
<1>2. ASSUME NEW name \in Names, AddSession(name) \/ RemoveSession(name)
      PROVE  RefInv'
  BY <1>0, <1>2, AddSessionCounts, RemoveSessionCounts
<1>3. ASSUME NEW name \in Names, Get(Main, name, "EV_S_OUT")
      PROVE  RefInv'
  BY <1>0, <1>3, GetCounts, Kinds
<1>4. ASSUME NEW name \in Names, NEW t \in Threads, NEW ev \in {"EV_S_IN", "EV_S_OUT"},
             Get(t, name, ev) \/ DeliverOffline(t, name, ev)
      PROVE  RefInv'
  BY <1>0, <1>4, GetCounts, OfflineCounts, Kinds
<1>5. ASSUME AddRef(Main) \/ Post(Main) \/ BeginRestart \/ EndThread
      PROVE  RefInv'
  BY <1>0, <1>5, AddRefCounts, PostCounts, BeginRestartCounts, EndThreadCounts, Kinds
<1>6. ASSUME NEW t \in Threads, ThreadStep(t)
      PROVE  RefInv'
  <2>1. t \in Procs
    BY Kinds
  <2> QED
    BY <1>0, <1>6, <2>1, TakeCounts, FinishCounts, ReleaseCounts, AddRefCounts, PostCounts DEF ThreadStep
<1> QED
  BY <1>1, <1>2, <1>3, <1>4, <1>5, <1>6 DEF CoreNext

LEMMA RefInvariant == CoreSpec => []RefInv
<1>1. RefInv /\ [CoreNext]_coreVars => RefInv'
  BY RefNext
<1> QED
  BY <1>1, RefInit, PTL DEF CoreSpec

LEMMA RefTypes == RefInv => CoreTypeOK
<1> SUFFICES ASSUME RefInv
             PROVE  CoreTypeOK
  OBVIOUS
<1>0. Types
  BY DEF RefInv, EventInv
<1>1. \E n \in 0 .. MaxSessions :
        sess \in [1 .. n -> [name : Names, refs : Int, queue : Threads, freed : BOOLEAN]]
  <2>1. sess \in [1 .. Len(sess) -> SessionType]
    BY <1>0 DEF Types
  <2> QED
    BY <1>0, <2>1, Zenon DEF Types, SessionType
<1>2. hash \in Seq(DOMAIN sess)
  <2>1. DOMAIN owner = DOMAIN sess
    BY <1>0, Owners
  <2>2. hash \in Seq(Sessions) /\ \A i \in 1 .. Len(hash) : hash[i] \in ToSet(hash)
    BY <1>0 DEF Types, Chain, ToSet
  <2>3. \A i \in 1 .. Len(hash) : hash[i] \in DOMAIN sess
    BY <1>0, <2>1, <2>2 DEF Types
  <2> QED
    BY <2>2, <2>3
<1> QED
  BY <1>0, <1>1, <1>2 DEF RefInv, Types, CoreTypeOK

\* refCount is exact (SessionHash::get, ClientSession::addRef, release and
\* EventItem::run): one for the hash, one for each event that waits, is handled
\* or is about to be posted, and one for each that a deleted queue took along;
\* for any number of threads and sessions, and for every session of whose count no
\* change was overwritten.
THEOREM ReferencesExact == CoreSpec => []RefsExact
<1>1. RefInv => RefsExact
  <2> SUFFICES ASSUME RefInv
               PROVE  RefsExact
    OBVIOUS
  <2>1. ASSUME NEW s \in DOMAIN sess \ torn
        PROVE  sess[s].refs = Cardinality({i \in DOMAIN hash : hash[i] = s})
                 + Cardinality(Waiting(s)) + Cardinality(Handling(s))
                 + Cardinality(Posting(s)) + lost[s]
    <3>1. s \in DOMAIN owner \ torn
      BY Owners DEF RefInv, EventInv, Types
    <3>2. sess[s].refs = Hashed(s) + Queued(s) + Handled(s) + Posted(s) + lost[s]
      BY <3>1 DEF RefInv, Count
    <3> QED
      BY <3>2, CountIs DEF RefInv, Posted
  <2> QED
    BY <2>1, RefTypes DEF RefsExact
<1> QED
  BY <1>1, RefInvariant, PTL

\* Nothing refers to a ClientSession that release has deleted: it is not in the
\* hash, no event of it waits, is handled or is about to be posted, and no thread
\* is about to count a reference to it (SessionHash::get under the hash mutex),
\* unless one change of its refCount was overwritten by another.
THEOREM NothingUsedAfterFree == CoreSpec => []NoUseAfterFree
<1>1. RefInv => NoUseAfterFree
  <2> SUFFICES ASSUME RefInv, NEW s \in DOMAIN sess \ torn, sess[s].freed
               PROVE  /\ ~Contains(hash, s)
                      /\ Waiting(s) = {} /\ Handling(s) = {} /\ Posting(s) = {}
                      /\ \A p \in Procs : ~(pc[p] = "adding" /\ out[p].s = s)
    BY DEF NoUseAfterFree, Dangling
  <2>0. Types /\ EventInv /\ lost \in [Sessions -> Nat]
    BY DEF RefInv, EventInv
  <2>1. s \in DOMAIN owner
    BY <2>0, Owners DEF Types
  <2>2. Count(s) = 0
    BY <2>1 DEF RefInv
  <2>3. /\ Hashed(s) \in {0, 1} /\ Queued(s) \in Nat /\ Handled(s) \in {0, 1}
        /\ Posted(s) \in Nat /\ lost[s] \in Nat /\ (Posting(s) # {} => Posted(s) # 0)
    BY <2>0, <2>1, CountTypes
  <2>4. Hashed(s) = 0 /\ Queued(s) = 0 /\ Handled(s) = 0 /\ Posted(s) = 0
    BY <2>2, <2>3 DEF Count
  <2>5. s \notin ToSet(hash)
    BY <2>4 DEF Hashed
  <2>6. ~Contains(hash, s)
    BY <2>0, <2>5 DEF Contains, ToSet, Types, Chain
  <2>7. Waiting(s) = {} /\ Posting(s) = {}
    BY <2>0, <2>3, <2>4, CountIs
  <2>8. Handling(s) = {}
    <3>1. owner[s] \in Threads /\ s # NULL
      BY <2>0, <2>1, Owners
    <3>2. \A t \in Handling(s) : t = owner[s]
      BY <2>0, <3>1 DEF EventInv, HandlesOwn, Belongs, Handling
    <3>3. owner[s] \notin Handling(s)
      BY <2>4 DEF Handled, Handling
    <3> QED
      BY <3>2, <3>3
  <2>9. \A p \in Procs : ~(pc[p] = "adding" /\ out[p].s = s)
    BY <2>5, Kinds DEF RefInv, Guarded
  <2> QED
    BY <2>6, <2>7, <2>8, <2>9
<1> QED
  BY <1>1, RefInvariant, PTL

-----------------------------------------------------------------------------
(***************************************************************************)
(* UpLink: facts about the operators.                                      *)
(***************************************************************************)

\* Masking a sum below 2 * MAX_SEQ gives a sequence number, reached by
\* subtracting MAX_SEQ at most once.
LEMMA MaskRange ==
  ASSUME NEW x \in Nat, x < 2 * MAX_SEQ
  PROVE  /\ Mask(x) \in Seqs
         /\ Mask(x) \in {x, x - MAX_SEQ}
  BY SeqAssumption DEF Mask, Seqs

\* The distance setSeq computes is a sequence number congruent to the
\* difference.
LEMMA DistanceRange ==
  ASSUME NEW s \in Seqs, NEW b \in Seqs
  PROVE  /\ Distance(s, b) \in Seqs
         /\ Distance(s, b) \in {s - b, s - b + MAX_SEQ}
  BY SeqAssumption DEF Distance, Seqs

\* Sliding keeps the window's bits within the window and frees its lowest.
LEMMA SlideRange ==
  ASSUME NEW w, w \subseteq 0 .. SEQ_WIN_SIZE - 1, NEW k \in 0 .. SEQ_WIN_SIZE,
         LowOnes(k, w)
  PROVE  /\ SlidBy(k, w) \subseteq 0 .. SEQ_WIN_SIZE - 1
         /\ 0 \notin SlidBy(k, w)
  BY SeqAssumption DEF SlidBy, LowOnes

\* Every outcome of the shift is a set of window bits.
LEMMA ShiftRange ==
  ASSUME NEW d \in Nat, NEW mask \in Shift(d)
  PROVE  mask \subseteq 0 .. SEQ_WIN_SIZE - 1
  BY SeqAssumption DEF Shift

\* Neither waiting nor a retry changes what an entry stands for.
LEMMA EntrySteps ==
  ASSUME NEW e \in Entries, NEW elapsed \in Nat
  PROVE  /\ e.ttl > elapsed =>
              /\ Aged(e, elapsed) \in Entries
              /\ Aged(e, elapsed).num = e.num
              /\ Aged(e, elapsed).seq = e.seq
         /\ Retried(e) \in Entries
         /\ Retried(e).num = e.num
         /\ Retried(e).seq = e.seq
         /\ Wire(e) \in Datagrams
         /\ Wire(e).num = e.num
         /\ Wire(e).seq = e.seq
<1>1. /\ e.num \in Nat \ {0} /\ e.seq \in Seqs
      /\ e.attempts \in Nat /\ e.ttl \in Nat
  BY DEF Entries
<1>2. e = [num |-> e.num, seq |-> e.seq, attempts |-> e.attempts, ttl |-> e.ttl]
  BY DEF Entries
<1>3. ASSUME e.ttl > elapsed
      PROVE  Aged(e, elapsed) =
               [num |-> e.num, seq |-> e.seq, attempts |-> e.attempts,
                ttl |-> e.ttl - elapsed]
  BY <1>2 DEF Aged
<1>4. Retried(e) = [num |-> e.num, seq |-> e.seq,
                    attempts |-> e.attempts + 1, ttl |-> SEND_TIMEOUT]
  BY DEF Retried
<1>5. e.ttl > elapsed => e.ttl - elapsed \in Nat
  BY <1>1
<1>6. e.attempts + 1 \in Nat /\ SEND_TIMEOUT \in Nat
  BY <1>1, TimerAssumption
<1>7. e.ttl > elapsed =>
        /\ Aged(e, elapsed) \in Entries
        /\ Aged(e, elapsed).num = e.num
        /\ Aged(e, elapsed).seq = e.seq
  BY <1>1, <1>3, <1>5 DEF Entries
<1>8. Retried(e) \in Entries /\ Retried(e).num = e.num /\ Retried(e).seq = e.seq
  BY <1>1, <1>4, <1>6 DEF Entries
<1>9. Wire(e) \in Datagrams /\ Wire(e).num = e.num /\ Wire(e).seq = e.seq
  BY <1>1 DEF Wire, Datagrams
<1> QED
  BY <1>7, <1>8, <1>9

-----------------------------------------------------------------------------
(***************************************************************************)
(* Type correctness.                                                       *)
(***************************************************************************)

\* setSeq leaves the receiver's state well typed, whichever base and window
\* it starts from.
LEMMA SetSeqType ==
  ASSUME TypeOK, NEW m \in Datagrams, NEW b \in Seqs,
         NEW w, w \subseteq 0 .. SEQ_WIN_SIZE - 1, SetSeq(m, b, w)
  PROVE  /\ recvSeq' \in Seqs
         /\ seqWindow' \subseteq 0 .. SEQ_WIN_SIZE - 1
         /\ recvNum' \in Nat \ {0}
         /\ accepted' \subseteq Nat /\ replayed' \subseteq Nat
         /\ {online', routed'} \subseteq BOOLEAN /\ handled' \subseteq Nat
<1> DEFINE d == Distance(m.seq, b)
<1>0. d \in Nat
  BY DistanceRange DEF Datagrams, Seqs
<1>1. CASE recvSeq' = b /\ seqWindow' = w /\ UNCHANGED <<recvNum, accepted, replayed, online, routed, handled>>
  BY <1>1 DEF TypeOK
<1>2. ASSUME NEW mask \in Shift(d), NEW k \in 0 .. SEQ_WIN_SIZE,
             LowOnes(k, w \cup mask),
             recvSeq' = Mask(b + k),
             seqWindow' = SlidBy(k, w \cup mask),
             recvNum' = recvNum + k,
             Dispatch(m.num)
      PROVE  /\ recvSeq' \in Seqs
             /\ seqWindow' \subseteq 0 .. SEQ_WIN_SIZE - 1
             /\ recvNum' \in Nat \ {0}
             /\ accepted' \subseteq Nat /\ replayed' \subseteq Nat
             /\ {online', routed'} \subseteq BOOLEAN /\ handled' \subseteq Nat
  <2>1. recvSeq' \in Seqs
    BY <1>2, MaskRange, SeqAssumption DEF Seqs
  <2>2. seqWindow' \subseteq 0 .. SEQ_WIN_SIZE - 1
    BY <1>0, <1>2, ShiftRange, SlideRange
  <2>3. recvNum' \in Nat \ {0}
    BY <1>2, SeqAssumption DEF TypeOK
  <2>4. accepted' \subseteq Nat /\ replayed' \subseteq Nat
    BY <1>2 DEF Dispatch, TypeOK, Datagrams
  <2>5. {online', routed'} \subseteq BOOLEAN /\ handled' \subseteq Nat
    BY <1>2 DEF Dispatch, Handle, OnLogin, TypeOK, Datagrams
  <2> QED
    BY <2>1, <2>2, <2>3, <2>4, <2>5
<1> QED
  BY <1>1, <1>2 DEF SetSeq

\* The state stays well typed: theorem for every value of the constants.
THEOREM TypeCorrect == Spec => []TypeOK
<1>1. Init => TypeOK
  <2>1. 0 \in Seqs /\ InitialSeq \in Seqs
    BY SeqAssumption DEF Seqs
  <2>2. Init => sendSeq \in Seqs /\ sent \in Nat
    BY <2>1 DEF Init
  <2>22. Init => recvSeq \in Seqs 
    BY <2>1 DEF Init
  <2>3. Init => recvNum \in Nat \ {0}
    BY DEF Init
  <2>4. Init => seqWindow \subseteq 0 .. SEQ_WIN_SIZE - 1
    BY DEF Init
  <2>5. Init => {open, online, routed} \subseteq BOOLEAN /\ outran \in BOOLEAN
    BY DEF Init
  <2> QED
    BY <2>2, <2>22, <2>3, <2>4, <2>5 DEF Init, TypeOK
<1>2. TypeOK /\ [Next]_vars => TypeOK'
  <2> SUFFICES ASSUME TypeOK, [Next]_vars PROVE TypeOK'
    OBVIOUS
  <2> USE SeqAssumption, TimerAssumption
  <2>1. CASE SendPacket
    <3>1. Mask(sendSeq + 1) \in Seqs
      BY MaskRange DEF TypeOK, Seqs
    <3> QED
      BY <2>1, <3>1 DEF SendPacket, TypeOK, serverVars, Recent, Datagrams, Entries
  <2>2. ASSUME NEW elapsed \in 1 .. SEND_TIMEOUT, CheckSendQueue(elapsed)
        PROVE  TypeOK'
    <3>0. \A e \in sendQueue : e \in Entries /\ e.num \in Nat /\ e.ttl \in Nat
      BY DEF TypeOK, Entries
    <3>1. sendQueue' \subseteq Entries
      BY <2>2, <3>0, EntrySteps DEF CheckSendQueue
    <3>2. net' \subseteq Datagrams
      BY <2>2, <3>0, EntrySteps DEF CheckSendQueue, TypeOK
    <3>3. failed' \subseteq Nat
      BY <2>2, <3>0 DEF CheckSendQueue, TypeOK
    <3> QED
      BY <2>2, <3>1, <3>2, <3>3 DEF CheckSendQueue, TypeOK, serverVars
  <2>3. ASSUME NEW a \in acks, OnAck(a)
        PROVE  TypeOK'
    BY <2>3 DEF OnAck, TypeOK, serverVars, Entries
  <2>4. ASSUME NEW m \in net, OnPacketOpening(m)
        PROVE  TypeOK'
    <3>1. CASE m.num = 1
      <4>1. m \in Datagrams /\ m.seq \in Seqs
        BY DEF TypeOK, Datagrams
      <4>2. SetSeq(m, m.seq, {})
        BY <2>4, <3>1 DEF OnPacketOpening
      <4>3. /\ recvSeq' \in Seqs
            /\ seqWindow' \subseteq 0 .. SEQ_WIN_SIZE - 1
            /\ recvNum' \in Nat \ {0}
            /\ accepted' \subseteq Nat /\ replayed' \subseteq Nat
            /\ {online', routed'} \subseteq BOOLEAN /\ handled' \subseteq Nat
        BY <4>1, <4>2, SetSeqType
      <4> QED
        BY <2>4, <3>1, <4>1, <4>3 DEF OnPacketOpening, Arrives, TypeOK, clientVars
    <3>2. CASE m.num # 1
      BY <2>4, <3>2 DEF OnPacketOpening, Arrives, TypeOK, clientVars, serverVars
    <3> QED
      BY <3>1, <3>2
  <2>5. ASSUME NEW m \in net, OnPacketReceived(m)
        PROVE  TypeOK'
    <3>1. m \in Datagrams
      BY DEF TypeOK
    <3>2. /\ recvSeq' \in Seqs
          /\ seqWindow' \subseteq 0 .. SEQ_WIN_SIZE - 1
          /\ recvNum' \in Nat \ {0}
          /\ accepted' \subseteq Nat /\ replayed' \subseteq Nat
          /\ {online', routed'} \subseteq BOOLEAN /\ handled' \subseteq Nat
      BY <2>5, <3>1, SetSeqType DEF OnPacketReceived, TypeOK
    <3> QED
      BY <2>5, <3>1, <3>2 DEF OnPacketReceived, Arrives, TypeOK, clientVars
  <2>6. ASSUME NEW m \in net \cup acks, Lose(m)
        PROVE  TypeOK'
    BY <2>6 DEF Lose, TypeOK, clientVars, serverVars
  <2>7. CASE UNCHANGED vars
    BY <2>7 DEF vars, clientVars, serverVars, TypeOK
  <2> QED
    BY <2>1, <2>2, <2>3, <2>4, <2>5, <2>6, <2>7 DEF Next
<1> QED
  BY <1>1, <1>2, PTL DEF Spec

-----------------------------------------------------------------------------
(***************************************************************************)
(* The inductive invariant.                                                *)
(***************************************************************************)

\* Congruent(x, y): the two integers differ by -MAX_SEQ, 0 or MAX_SEQ.
Congruent(x, y) == x - y \in {-MAX_SEQ, 0, MAX_SEQ}

\* What WindowInv says of a receiver with the given base, position and window.
Filter(base, pos, window, done) ==
  /\ pos <= sent + 1 /\ sent < pos + SEQ_WIN_SIZE
  /\ 0 \notin window
  /\ done = (1 .. pos - 1) \cup {pos + d : d \in window}
  /\ done \subseteq 1 .. sent
  /\ Congruent(sendSeq - base, sent - pos)

\* Sliding base and position by k keeps them congruent to sequence number s
\* and position n, as long as n stays within MAX_SEQ of the position.
LEMMA CongruentSlide ==
  ASSUME NEW s \in Seqs, NEW b \in Seqs, NEW c \in Seqs,
         NEW n \in Int, NEW r \in Int, NEW k \in Nat,
         Congruent(s - b, n - r),
         c \in {b + k, b + k - MAX_SEQ},
         -MAX_SEQ < n - (r + k), n - (r + k) < MAX_SEQ
  PROVE  Congruent(s - c, n - (r + k))
<1>1. MAX_SEQ \in Int
  BY SeqAssumption
<1>2. /\ s \in Int /\ 0 <= s /\ s < MAX_SEQ /\ c \in Int /\ 0 <= c /\ c < MAX_SEQ
      /\ b \in Int
  BY SeqAssumption DEF Seqs
<1>3. (s - c) - (n - (r + k)) \in
        {(s - b) - (n - r), (s - b) - (n - r) + MAX_SEQ}
  BY <1>1, <1>2
<1>4. /\ (s - c) - (n - (r + k)) < 2 * MAX_SEQ
      /\ -(2 * MAX_SEQ) < (s - c) - (n - (r + k))
  BY <1>1, <1>2
<1> QED
  BY <1>1, <1>2, <1>3, <1>4 DEF Congruent

\* A datagram recent enough lies at its true distance from the window, or
\* beyond the window's end if it is older than the window.
LEMMA TrueDistance ==
  ASSUME TypeOK, NEW m \in Datagrams, Behind(m), NEW b \in Seqs,
         recvNum <= sent + 1, sent < recvNum + SEQ_WIN_SIZE,
         Congruent(sendSeq - b, sent - recvNum)
  PROVE  /\ m.num >= recvNum => /\ Distance(m.seq, b) = m.num - recvNum
                                /\ Distance(m.seq, b) < SEQ_WIN_SIZE
         /\ m.num < recvNum => Distance(m.seq, b) > SEQ_WIN_SIZE
<1> DEFINE d == Distance(m.seq, b)
<1>1. /\ d \in Int /\ 0 <= d /\ d < MAX_SEQ
      /\ d = m.seq - b \/ d = m.seq - b + MAX_SEQ
  <2>1. m.seq \in Seqs
    BY DEF Datagrams
  <2>2. d \in Seqs /\ d \in {m.seq - b, m.seq - b + MAX_SEQ}
    BY <2>1, DistanceRange
  <2> HIDE DEF d
  <2> QED
    BY <2>2, SeqAssumption DEF Seqs
<1>2. /\ m.num \in Int /\ m.seq \in Int /\ b \in Int /\ sent \in Int
      /\ recvNum \in Int /\ sendSeq \in Int /\ MAX_SEQ \in Int
      /\ SEQ_WIN_SIZE \in Int /\ MaxAge \in Int
      /\ 0 < SEQ_WIN_SIZE /\ MaxAge + SEQ_WIN_SIZE < MAX_SEQ
  BY SeqAssumption DEF TypeOK, Datagrams, Seqs
<1>3. /\ m.num <= sent /\ sent - m.num < MaxAge
      /\ sendSeq - m.seq = sent - m.num \/ sendSeq - m.seq = sent - m.num - MAX_SEQ
  BY DEF Behind
<1>4. \/ (sendSeq - b) - (sent - recvNum) = -MAX_SEQ
      \/ (sendSeq - b) - (sent - recvNum) = 0
      \/ (sendSeq - b) - (sent - recvNum) = MAX_SEQ
  BY DEF Congruent
<1>5. \/ d = m.num - recvNum \/ d = m.num - recvNum + MAX_SEQ
  <2> HIDE DEF d
  <2> QED
    BY <1>1, <1>2, <1>3, <1>4
<1> HIDE DEF d
<1>6. m.num >= recvNum => d = m.num - recvNum /\ d < SEQ_WIN_SIZE
  BY <1>1, <1>2, <1>3, <1>5
<1>7. m.num < recvNum => d > SEQ_WIN_SIZE
  BY <1>1, <1>2, <1>3, <1>5
<1> QED
  BY <1>6, <1>7 DEF d

\* setSeq on a recent datagram keeps the filter exact, lets the packet
\* through exactly when it is new, and never twice.
LEMMA SetSeqKeepsFilter ==
  ASSUME TypeOK, NEW m \in Datagrams, Behind(m), NEW b \in Seqs,
         NEW w, w \subseteq 0 .. SEQ_WIN_SIZE - 1,
         Filter(b, recvNum, w, accepted), SetSeq(m, b, w)
  PROVE  /\ Filter(recvSeq', recvNum', seqWindow', accepted')
         /\ m.num \in accepted'
         /\ accepted \subseteq accepted'
         /\ replayed' = replayed
<1> DEFINE d == Distance(m.seq, b)
<1>1. /\ m.num >= recvNum => d = m.num - recvNum /\ d < SEQ_WIN_SIZE
      /\ m.num < recvNum => d > SEQ_WIN_SIZE
  BY TrueDistance DEF Filter
<1>D. SetSeq(m, b, w) <=>
        IF d > SEQ_WIN_SIZE
        THEN /\ recvSeq' = b /\ seqWindow' = w
             /\ UNCHANGED <<recvNum, accepted, replayed, online, routed, handled>>
        ELSE \E mask \in Shift(d) :
               IF mask \cap w # {}
               THEN /\ recvSeq' = b /\ seqWindow' = w
                    /\ UNCHANGED <<recvNum, accepted, replayed, online, routed, handled>>
               ELSE \E k \in 0 .. SEQ_WIN_SIZE :
                      /\ LowOnes(k, w \cup mask)
                      /\ recvSeq' = Mask(b + k)
                      /\ seqWindow' = SlidBy(k, w \cup mask)
                      /\ recvNum' = recvNum + k
                      /\ Dispatch(m.num)
  BY DEF SetSeq
<1>2. /\ m.num \in Nat \ {0} /\ recvNum \in Nat \ {0} /\ sent \in Nat
      /\ SEQ_WIN_SIZE \in Nat \ {0} /\ MAX_SEQ \in Nat /\ SEQ_WIN_SIZE < MAX_SEQ
      /\ b \in Int /\ 0 <= b /\ b < MAX_SEQ
      /\ sendSeq \in Int /\ 0 <= sendSeq /\ sendSeq < MAX_SEQ
      /\ d \in Nat
  BY SeqAssumption, DistanceRange DEF TypeOK, Datagrams, Seqs
<1> HIDE DEF d
<1>3. m.num <= sent
  BY DEF Behind
<1>4. /\ recvNum <= sent + 1 /\ sent < recvNum + SEQ_WIN_SIZE
      /\ 0 \notin w
      /\ accepted = (1 .. recvNum - 1) \cup {recvNum + x : x \in w}
      /\ accepted \subseteq 1 .. sent
      /\ Congruent(sendSeq - b, sent - recvNum)
  BY DEF Filter
<1>5. CASE d > SEQ_WIN_SIZE
  <2>1. recvSeq' = b /\ seqWindow' = w /\ UNCHANGED <<recvNum, accepted, replayed, online, routed, handled>>
    BY <1>5, <1>D
  <2>2. m.num < recvNum
    BY <1>1, <1>2, <1>5
  <2>3. m.num \in accepted
    BY <1>2, <1>4, <2>2
  <2> QED
    BY <2>1, <2>3
<1>6. CASE ~(d > SEQ_WIN_SIZE)
  <2>1. m.num >= recvNum /\ d = m.num - recvNum /\ d < SEQ_WIN_SIZE
    BY <1>1, <1>2, <1>6
  <2>2. Shift(d) = {{d}}
    BY <2>1 DEF Shift
  <2>3. CASE d \in w
    <3>1. recvSeq' = b /\ seqWindow' = w /\ UNCHANGED <<recvNum, accepted, replayed, online, routed, handled>>
      BY <1>6, <1>D, <2>2, <2>3
    <3>2. m.num \in accepted
      <4>1. m.num = recvNum + d
        BY <1>2, <2>1
      <4> QED
        BY <4>1, <2>3, <1>4
    <3> QED
      BY <3>1, <3>2
  <2>4. CASE d \notin w
    <3> DEFINE u == w \cup {d}
    <3>1. PICK k \in 0 .. SEQ_WIN_SIZE :
            /\ LowOnes(k, u)
            /\ recvSeq' = Mask(b + k)
            /\ seqWindow' = SlidBy(k, u)
            /\ recvNum' = recvNum + k
            /\ Dispatch(m.num)
      BY <1>6, <1>D, <2>2, <2>4
    <3>2. /\ u \subseteq 0 .. SEQ_WIN_SIZE - 1
          /\ k \in Nat /\ k <= SEQ_WIN_SIZE
      <4>1. d \in 0 .. SEQ_WIN_SIZE - 1
        BY <1>2, <2>1
      <4>2. u \subseteq 0 .. SEQ_WIN_SIZE - 1
        BY <4>1
      <4>3. k \in Nat /\ k <= SEQ_WIN_SIZE
        BY SeqAssumption
      <4> QED
        BY <4>2, <4>3
    <3>3. accepted \cup {m.num} = (1 .. recvNum - 1) \cup {recvNum + x : x \in u}
      <4>1. m.num = recvNum + d
        BY <1>2, <2>1
      <4> QED
        BY <4>1, <1>4
    <3>4. m.num \notin accepted
      <4>1. \A x \in w : recvNum + x # m.num
        BY <1>2, <2>1, <2>4
      <4>2. m.num \notin 1 .. recvNum - 1
        BY <1>2, <2>1
      <4> QED
        BY <4>1, <4>2, <1>4
    <3>5. accepted' = accepted \cup {m.num} /\ replayed' = replayed
      BY <3>1, <3>4 DEF Dispatch
    <3>6. 0 \notin seqWindow'
      BY <3>1, <3>2, SlideRange
    <3>7. accepted' = (1 .. recvNum' - 1) \cup {recvNum' + x : x \in seqWindow'}
      <4>1. 0 .. k - 1 \subseteq u /\ k \notin u
        BY <3>1 DEF LowOnes
      <4>2. seqWindow' = {x - k : x \in {y \in u : y >= k}}
        BY <3>1 DEF SlidBy
      <4>3. ASSUME NEW n \in accepted'
            PROVE  n \in (1 .. recvNum' - 1) \cup {recvNum' + x : x \in seqWindow'}
        <5>1. CASE n \in 1 .. recvNum - 1
          BY <5>1, <3>1, <3>2, <1>2
        <5>2. ASSUME NEW x \in u, n = recvNum + x
              PROVE  n \in (1 .. recvNum' - 1) \cup {recvNum' + y : y \in seqWindow'}
          <6>1. x \in Nat
            BY <3>2
          <6>2. CASE x < k
            BY <6>1, <6>2, <5>2, <3>1, <3>2, <1>2
          <6>3. CASE x >= k
            <7>1. x - k \in seqWindow'
              BY <6>3, <4>2
            <7>2. n = recvNum' + (x - k)
              BY <6>1, <5>2, <3>1, <3>2, <1>2
            <7> QED
              BY <7>1, <7>2
          <6> QED
            BY <6>1, <6>2, <6>3, <3>2
        <5> QED
          BY <5>1, <5>2, <3>3, <3>5
      <4>4. ASSUME NEW n \in 1 .. recvNum' - 1
            PROVE  n \in accepted'
        <5>1. CASE n < recvNum
          BY <5>1, <3>3, <3>5, <1>2
        <5>2. CASE n >= recvNum
          <6>1. n - recvNum \in 0 .. k - 1
            BY <5>2, <3>1, <3>2, <1>2
          <6>2. n - recvNum \in u
            BY <6>1, <4>1
          <6>3. n = recvNum + (n - recvNum)
            BY <1>2
          <6> QED
            BY <6>2, <6>3, <3>3, <3>5
        <5> QED
          BY <5>1, <5>2, <1>2
      <4>5. ASSUME NEW x \in seqWindow'
            PROVE  recvNum' + x \in accepted'
        <5>1. PICK y \in u : y >= k /\ x = y - k
          BY <4>2
        <5>2. recvNum' + x = recvNum + y
          BY <5>1, <3>1, <3>2, <1>2
        <5> QED
          BY <5>1, <5>2, <3>3, <3>5
      <4> QED
        BY <4>3, <4>4, <4>5
    <3>8. accepted' \subseteq 1 .. sent
      BY <3>5, <1>2, <1>3, <1>4
    <3>9. recvNum' <= sent + 1 /\ sent < recvNum' + SEQ_WIN_SIZE
      <4>1. CASE k = 0
        BY <4>1, <3>1, <1>2, <1>4
      <4>2. CASE k # 0
        <5>1. recvNum' - 1 \in 1 .. recvNum' - 1
          BY <4>2, <3>1, <3>2, <1>2
        <5>2. recvNum' - 1 \in 1 .. sent
          BY <5>1, <3>7, <3>8
        <5> QED
          BY <5>2, <3>1, <3>2, <1>2, <1>4
      <4> QED
        BY <4>1, <4>2
    <3>10. Congruent(sendSeq - recvSeq', sent - recvNum')
      <4>1. /\ recvSeq' = b + k \/ recvSeq' = b + k - MAX_SEQ
            /\ recvSeq' \in Int /\ 0 <= recvSeq' /\ recvSeq' < MAX_SEQ
        <5>1. b + k \in Nat /\ b + k < 2 * MAX_SEQ
          BY <3>2, <1>2
        <5> QED
          BY <5>1, <3>1, MaskRange, SeqAssumption DEF Seqs
      <4>2. recvNum' = recvNum + k
        BY <3>1
      <4>3. sent - (recvNum + k) < MAX_SEQ /\ -MAX_SEQ < sent - (recvNum + k)
        BY <4>2, <3>2, <3>9, <1>2
      <4>4. /\ sendSeq \in Seqs /\ recvSeq' \in Seqs
            /\ recvSeq' \in {b + k, b + k - MAX_SEQ}
        BY <4>1, <1>2 DEF Seqs
      <4>5. sent \in Int /\ recvNum \in Int /\ k \in Nat
        BY <3>2, <1>2
      <4>6. Congruent(sendSeq - recvSeq', sent - (recvNum + k))
        BY <4>3, <4>4, <4>5, <1>4, CongruentSlide
      <4> QED
        BY <4>2, <4>6
    <3> QED
      BY <3>5, <3>6, <3>7, <3>8, <3>9, <3>10 DEF Filter
  <2> QED
    BY <2>3, <2>4
<1> QED
  BY <1>5, <1>6

-----------------------------------------------------------------------------
(***************************************************************************)
(* Every action preserves LinkInv.                                         *)
(***************************************************************************)

LEMMA WindowIsFilter == WindowInv <=> Filter(Origin, recvNum, seqWindow, accepted)
  BY DEF WindowInv, Filter, Congruent

\* One more packet submitted: older datagrams age by one position.
LEMMA BehindNext ==
  ASSUME TypeOK, NEW x, x.num \in Nat \ {0}, x.seq \in Seqs, Behind(x),
         sent' = sent + 1, sendSeq' = Mask(sendSeq + 1),
         (sent + 1) - x.num < MaxAge
  PROVE  Behind(x)'
<1>1. /\ sendSeq + 1 \in Nat /\ sendSeq + 1 < 2 * MAX_SEQ
      /\ sendSeq \in Int /\ sent \in Int /\ MAX_SEQ \in Int /\ MaxAge \in Int
      /\ MaxAge < MAX_SEQ
  BY SeqAssumption DEF TypeOK, Seqs
<1>2. /\ sendSeq' = sendSeq + 1 \/ sendSeq' = sendSeq + 1 - MAX_SEQ
      /\ sendSeq' \in Int /\ 0 <= sendSeq' /\ sendSeq' < MAX_SEQ
  BY <1>1, MaskRange, SeqAssumption DEF Seqs
<1>3. x.num \in Int /\ x.seq \in Int /\ 0 <= x.seq /\ x.seq < MAX_SEQ
  BY SeqAssumption DEF Seqs
<1>4. /\ x.num <= sent
      /\ sendSeq - x.seq = sent - x.num \/ sendSeq - x.seq = sent - x.num - MAX_SEQ
  BY DEF Behind
<1>5. sendSeq' - x.seq = (sent + 1) - x.num
        \/ sendSeq' - x.seq = (sent + 1) - x.num - MAX_SEQ
  BY <1>1, <1>2, <1>3, <1>4
<1>6. x.num <= sent + 1
  BY <1>1, <1>3, <1>4
<1> QED
  BY <1>5, <1>6 DEF Behind

\* Taking the next number keeps a sequence number congruent to its position.
LEMMA CongruentAdvance ==
  ASSUME NEW s \in Seqs, NEW b \in Seqs, NEW n \in Int, NEW r \in Int,
         Congruent(s - b, n - r),
         -MAX_SEQ < (n + 1) - r, (n + 1) - r < MAX_SEQ
  PROVE  Congruent(Mask(s + 1) - b, (n + 1) - r)
<1>1. /\ MAX_SEQ \in Int /\ s \in Int /\ 0 <= s /\ s < MAX_SEQ
      /\ b \in Int /\ 0 <= b /\ b < MAX_SEQ
  BY SeqAssumption DEF Seqs
<1>2. /\ Mask(s + 1) \in Int /\ 0 <= Mask(s + 1) /\ Mask(s + 1) < MAX_SEQ
      /\ Mask(s + 1) = s + 1 \/ Mask(s + 1) = s + 1 - MAX_SEQ
  BY <1>1 DEF Mask
<1>3. (Mask(s + 1) - b) - ((n + 1) - r) \in {(s - b) - (n - r), (s - b) - (n - r) - MAX_SEQ}
  BY <1>1, <1>2
<1>4. /\ (Mask(s + 1) - b) - ((n + 1) - r) < 2 * MAX_SEQ
      /\ -(2 * MAX_SEQ) < (Mask(s + 1) - b) - ((n + 1) - r)
  BY <1>1, <1>2
<1> QED
  BY <1>1, <1>2, <1>3, <1>4 DEF Congruent

LEMMA SendPacketKeeps ==
  ASSUME TypeOK, LinkInv, SendPacket
  PROVE  LinkInv'
<1> DEFINE num == sent + 1
           seq == Mask(sendSeq + 1)
           entry == [num |-> num, seq |-> seq, attempts |-> 0, ttl |-> SEND_TIMEOUT]
           msg == [num |-> num, seq |-> seq]
<1>1. /\ \A e \in sendQueue : num - e.num < MaxAge
      /\ sent' = num /\ sendSeq' = seq
      /\ sendQueue' = sendQueue \cup {entry}
      /\ net' = Recent(net, num) \cup {msg}
      /\ acks' = Recent(acks, num)
      /\ outran' = (outran \/ Outruns(num))
      /\ UNCHANGED <<acked, failed, open, recvSeq, seqWindow, recvNum, accepted, replayed>>
  BY DEF SendPacket, serverVars
<1>2. /\ sent \in Nat /\ num \in Nat \ {0} /\ seq \in Seqs
      /\ sendSeq \in Int /\ MaxAge \in Nat \ {0}
      /\ MAX_SEQ \in Nat /\ SEQ_WIN_SIZE \in Nat \ {0} /\ SEQ_WIN_SIZE < MAX_SEQ
      /\ recvNum \in Nat \ {0}
  BY MaskRange, SeqAssumption DEF TypeOK, Seqs
<1>3. /\ \A m \in net \cup acks : m.num \in Nat \ {0} /\ m.seq \in Seqs
      /\ \A e \in sendQueue : e.num \in Nat \ {0} /\ e.seq \in Seqs
  BY DEF TypeOK, Datagrams, Entries
<1>4. SenderInv
  BY DEF LinkInv
<1>5. \A m \in Recent(net, num) \cup Recent(acks, num) : Behind(m)'
  <2> SUFFICES ASSUME NEW m \in net \cup acks, num - m.num < MaxAge
               PROVE  Behind(m)'
    BY DEF Recent
  <2> QED
    BY <1>1, <1>3, <1>4, BehindNext DEF SenderInv
<1>6. \A e \in sendQueue : Behind(e)'
  BY <1>1, <1>3, <1>4, BehindNext DEF SenderInv
<1>7. \A x : x.num = num /\ x.seq = seq => Behind(x)'
  <2>1. seq - seq = num - num /\ num - num < MaxAge /\ num <= num
    BY <1>2, SeqAssumption DEF Seqs
  <2>2. sent' = num /\ sendSeq' = seq
    BY <1>1
  <2> HIDE DEF num, seq
  <2> QED
    BY <2>1, <2>2 DEF Behind
<1>8. \A e, f \in sendQueue' : e.num = f.num => e = f
  <2>1. \A e \in sendQueue : e.num # num
    BY <1>2, <1>3, <1>4 DEF SenderInv, Behind
  <2>2. entry.num = num
    OBVIOUS
  <2> HIDE DEF entry, num
  <2> QED
    BY <2>1, <2>2, <1>1, <1>4 DEF SenderInv
<1>9. SenderInv'
  <2>1. msg.num = num /\ msg.seq = seq /\ entry.num = num /\ entry.seq = seq
    OBVIOUS
  <2>2. /\ sendQueue' = sendQueue \cup {entry}
        /\ net' = Recent(net, num) \cup {msg}
        /\ acks' = Recent(acks, num)
    BY <1>1
  <2> HIDE DEF msg, entry, num, seq
  <2> QED
    BY <2>1, <2>2, <1>5, <1>6, <1>7, <1>8 DEF SenderInv
<1>10. ~open' => /\ recvNum' = 1 /\ seqWindow' = {}
                /\ accepted' = {} /\ acks' = {} /\ acked' = {}
  BY <1>1 DEF LinkInv, Recent
<1>11. ASSUME ~outran'
       PROVE  /\ WindowInv'
              /\ \A a \in acks' : a.num \in accepted'
              /\ acked' \subseteq accepted'
              /\ replayed' = {}
  <2>1. ~outran /\ ~Outruns(num)
    BY <1>1, <1>11
  <2>2. /\ WindowInv
        /\ \A a \in acks : a.num \in accepted
        /\ acked \subseteq accepted
        /\ replayed = {}
    BY <2>1 DEF LinkInv
  <2>3. recvNum \notin accepted
    <3>1. \A d \in seqWindow : d # 0 /\ d \in Int
      BY <2>2, <1>2 DEF WindowInv, TypeOK
    <3> QED
      BY <3>1, <2>2, <1>2 DEF WindowInv
  <2>4. num < recvNum + SEQ_WIN_SIZE
    BY <2>1, <2>3, <1>2 DEF Outruns
  <2>5. recvNum <= num + 1
    BY <2>2, <1>2 DEF WindowInv
  <2>6. accepted \subseteq 1 .. num
    BY <2>2, <1>2 DEF WindowInv
  <2>7. Origin' = Origin /\ Origin \in Seqs
    <3>1. Mask(InitialSeq + 1) \in Seqs
      BY MaskRange, SeqAssumption
    <3> QED
      BY <3>1, <1>1 DEF Origin, TypeOK
  <2>8. (sendSeq' - Origin') - (sent' - recvNum') \in {-MAX_SEQ, 0, MAX_SEQ}
    <3>1. Congruent(sendSeq - Origin, sent - recvNum)
      BY <2>2 DEF WindowInv, Congruent
    <3>2. -MAX_SEQ < num - recvNum /\ num - recvNum < MAX_SEQ
      BY <2>4, <2>5, <1>2
    <3>3. sendSeq \in Seqs
      BY DEF TypeOK
    <3>4. Congruent(seq - Origin, num - recvNum)
      BY <3>1, <3>2, <3>3, <2>7, <1>2, CongruentAdvance
    <3> QED
      BY <3>4, <2>7, <1>1 DEF Congruent
  <2>9. WindowInv'
    BY <2>2, <2>4, <2>5, <2>6, <2>8, <1>1 DEF WindowInv
  <2>10. \A a \in acks' : a.num \in accepted'
    BY <2>2, <1>1 DEF Recent
  <2> QED
    BY <2>2, <2>9, <2>10, <1>1
<1> QED
  BY <1>9, <1>10, <1>11 DEF LinkInv

LEMMA CheckSendQueueKeeps ==
  ASSUME TypeOK, LinkInv, NEW elapsed \in 1 .. SEND_TIMEOUT, CheckSendQueue(elapsed)
  PROVE  LinkInv'
<1> DEFINE expired == {e \in sendQueue : e.ttl <= elapsed}
           retried == {e \in expired : e.attempts + 1 < MAX_SEND_ATTEMPTS}
<1>1. /\ sendQueue' = {Aged(e, elapsed) : e \in sendQueue \ expired} \cup
                       {Retried(e) : e \in retried}
      /\ net' = net \cup {Wire(e) : e \in retried}
      /\ UNCHANGED <<sendSeq, sent, acked, outran, acks, open, recvSeq,
                     seqWindow, recvNum, accepted, replayed>>
  BY DEF CheckSendQueue, serverVars
<1>2. elapsed \in Nat /\ (\A e \in sendQueue : e \in Entries /\ e.ttl \in Nat)
  BY TimerAssumption DEF TypeOK, Entries
<1>3. SenderInv
  BY DEF LinkInv
<1>4. /\ \A e \in sendQueue \ expired :
           Aged(e, elapsed).num = e.num /\ Aged(e, elapsed).seq = e.seq
      /\ \A e \in retried : /\ Retried(e).num = e.num /\ Retried(e).seq = e.seq
                            /\ Wire(e).num = e.num /\ Wire(e).seq = e.seq
  BY <1>2, EntrySteps
<1> HIDE DEF expired, retried
<1>5. retried \subseteq sendQueue /\ retried \subseteq expired
  BY DEF retried, expired
<1>6. \A m \in net' \cup acks' : Behind(m)'
  BY <1>1, <1>3, <1>4, <1>5 DEF SenderInv, Behind
<1>7. \A e \in sendQueue' : Behind(e)'
  BY <1>1, <1>3, <1>4, <1>5 DEF SenderInv, Behind
<1>8. \A e, f \in sendQueue' : e.num = f.num => e = f
  <2>1. \A e, f \in sendQueue : e.num = f.num => e = f
    BY <1>3 DEF SenderInv
  <2> QED
    BY <2>1, <1>1, <1>4, <1>5
<1>9. SenderInv'
  BY <1>6, <1>7, <1>8 DEF SenderInv
<1>10. Origin' = Origin /\ WindowInv' = WindowInv
  BY <1>1 DEF Origin, WindowInv
<1> QED
  BY <1>1, <1>9, <1>10 DEF LinkInv

\* Two numbers in flight that are equal belong to the same packet.
LEMMA SameSeqSamePacket ==
  ASSUME TypeOK, LinkInv, NEW a \in acks, NEW e \in sendQueue, e.seq = a.seq
  PROVE  e.num = a.num
<1>1. Behind(e) /\ Behind(a)
  BY DEF LinkInv, SenderInv
<1>2. /\ e.num \in Int /\ a.num \in Int /\ a.seq \in Int
      /\ sendSeq \in Int /\ sent \in Int
      /\ MAX_SEQ \in Int /\ MaxAge \in Int /\ MaxAge < MAX_SEQ
  BY SeqAssumption DEF TypeOK, Entries, Datagrams, Seqs
<1> QED
  BY <1>1, <1>2 DEF Behind

LEMMA OnAckKeeps ==
  ASSUME TypeOK, LinkInv, NEW a \in acks, OnAck(a)
  PROVE  LinkInv'
<1> DEFINE matching == {e \in sendQueue : e.seq = a.seq}
<1>1. /\ acks' \subseteq acks
      /\ sendQueue' = sendQueue \ matching
      /\ acked' = acked \cup {e.num : e \in matching}
      /\ UNCHANGED <<sendSeq, sent, outran, net, open, recvSeq, seqWindow,
                     recvNum, accepted, replayed>>
  BY DEF OnAck, serverVars
<1>2. SenderInv
  BY DEF LinkInv
<1>3. SenderInv'
  BY <1>1, <1>2 DEF SenderInv, Behind
<1>4. \A e \in matching : e.num = a.num
  BY SameSeqSamePacket
<1>5. open
  BY DEF LinkInv
<1>6. Origin' = Origin /\ WindowInv' = WindowInv
  BY <1>1 DEF Origin, WindowInv
<1>7. ~outran => acked' \subseteq accepted
  BY <1>1, <1>4 DEF LinkInv
<1> QED
  BY <1>1, <1>3, <1>5, <1>6, <1>7 DEF LinkInv

\* A datagram stays recent when the client does not move.
LEMMA SenderUnmoved ==
  ASSUME SenderInv, NEW m \in net, acks' \in {acks, acks \cup {m}},
         net' \subseteq net, UNCHANGED <<sendSeq, sendQueue, sent>>
  PROVE  SenderInv'
  BY DEF SenderInv, Behind

LEMMA OnPacketReceivedKeeps ==
  ASSUME TypeOK, LinkInv, NEW m \in net, OnPacketReceived(m)
  PROVE  LinkInv'
<1>1. /\ open /\ net' \subseteq net
      /\ acks' = acks \cup {m}
      /\ SetSeq(m, recvSeq, seqWindow)
      /\ UNCHANGED <<open, sendSeq, sendQueue, sent, acked, failed, outran>>
  BY DEF OnPacketReceived, Arrives, clientVars
<1>2. SenderInv'
  BY <1>1, SenderUnmoved DEF LinkInv
<1>3. ASSUME ~outran
      PROVE  /\ WindowInv'
             /\ \A a \in acks' : a.num \in accepted'
             /\ acked' \subseteq accepted'
             /\ replayed' = {}
  <2>1. Origin = recvSeq /\ Origin' = recvSeq'
    BY <1>1 DEF Origin
  <2>2. Filter(recvSeq, recvNum, seqWindow, accepted)
    BY <1>3, <2>1, WindowIsFilter DEF LinkInv
  <2>3. m \in Datagrams /\ Behind(m)
    BY DEF TypeOK, LinkInv, SenderInv
  <2>4. /\ Filter(recvSeq', recvNum', seqWindow', accepted')
        /\ m.num \in accepted'
        /\ accepted \subseteq accepted'
        /\ replayed' = replayed
    BY <1>1, <2>2, <2>3, SetSeqKeepsFilter DEF TypeOK
  <2>5. WindowInv'
    BY <1>1, <2>1, <2>4 DEF WindowInv, Filter, Congruent
  <2> QED
    BY <1>1, <1>3, <2>4, <2>5 DEF LinkInv
<1> QED
  BY <1>1, <1>2, <1>3 DEF LinkInv

LEMMA OnPacketOpeningKeeps ==
  ASSUME TypeOK, LinkInv, NEW m \in net, OnPacketOpening(m)
  PROVE  LinkInv'
<1>1. /\ ~open /\ net' \subseteq net
      /\ UNCHANGED <<sendSeq, sendQueue, sent, acked, failed, outran>>
  BY DEF OnPacketOpening, Arrives, clientVars
<1>2. CASE m.num # 1
  <2>1. UNCHANGED <<open, recvSeq, seqWindow, recvNum, accepted, replayed, acks>>
    BY <1>2 DEF OnPacketOpening, serverVars
  <2>2. SenderInv'
    BY <1>1, <2>1, SenderUnmoved DEF LinkInv
  <2>3. Origin' = Origin /\ WindowInv' = WindowInv
    BY <1>1, <2>1 DEF Origin, WindowInv
  <2> QED
    BY <1>1, <2>1, <2>2, <2>3 DEF LinkInv
<1>3. CASE m.num = 1
  <2>1. open' = TRUE /\ acks' = acks \cup {m} /\ SetSeq(m, m.seq, {})
    BY <1>3 DEF OnPacketOpening
  <2>2. SenderInv'
    BY <1>1, <2>1, SenderUnmoved DEF LinkInv
  <2>3. ASSUME ~outran
        PROVE  /\ WindowInv'
               /\ \A a \in acks' : a.num \in accepted'
               /\ acked' \subseteq accepted'
               /\ replayed' = {}
    <3>1. m \in Datagrams /\ Behind(m)
      BY DEF TypeOK, LinkInv, SenderInv
    <3>2. /\ recvNum = 1 /\ seqWindow = {} /\ accepted = {}
          /\ acks = {} /\ acked = {} /\ replayed = {} /\ WindowInv
      BY <1>1, <2>3 DEF LinkInv
    <3>3. m.seq = Origin
      <4>1. Origin \in Seqs
        BY <1>1, MaskRange, SeqAssumption DEF Origin
      <4>2. /\ Origin \in Int /\ 0 <= Origin /\ Origin < MAX_SEQ
            /\ m.seq \in Int /\ 0 <= m.seq /\ m.seq < MAX_SEQ
            /\ sendSeq \in Int /\ sent \in Int /\ MAX_SEQ \in Int
        BY <3>1, <4>1, SeqAssumption DEF TypeOK, Datagrams, Seqs
      <4>3. \/ (sendSeq - Origin) - (sent - 1) = -MAX_SEQ
            \/ (sendSeq - Origin) - (sent - 1) = 0
            \/ (sendSeq - Origin) - (sent - 1) = MAX_SEQ
        BY <3>2 DEF WindowInv
      <4>4. sendSeq - m.seq = sent - 1 \/ sendSeq - m.seq = sent - 1 - MAX_SEQ
        BY <3>1, <1>3 DEF Behind
      <4> QED
        BY <4>2, <4>3, <4>4
    <3>4. Filter(m.seq, recvNum, {}, accepted)
      BY <3>2, <3>3, WindowIsFilter
    <3>5. {} \subseteq 0 .. SEQ_WIN_SIZE - 1 /\ m.seq \in Seqs
      BY <3>1 DEF Datagrams
    <3>6. /\ Filter(recvSeq', recvNum', seqWindow', accepted')
          /\ m.num \in accepted'
          /\ accepted \subseteq accepted'
          /\ replayed' = replayed
      BY <2>1, <3>1, <3>4, <3>5, SetSeqKeepsFilter
    <3>7. WindowInv'
      BY <1>1, <2>1, <3>6 DEF WindowInv, Filter, Congruent, Origin
    <3> QED
      BY <1>1, <2>1, <3>2, <3>6, <3>7
  <2> QED
    BY <1>1, <2>1, <2>2, <2>3 DEF LinkInv
<1> QED
  BY <1>2, <1>3

LEMMA LoseKeeps ==
  ASSUME LinkInv, NEW m, Lose(m) \/ UNCHANGED vars
  PROVE  LinkInv'
<1>1. /\ net' \subseteq net /\ acks' \subseteq acks
      /\ UNCHANGED <<sendSeq, sendQueue, sent, acked, failed, outran>>
      /\ UNCHANGED <<open, recvSeq, seqWindow, recvNum, accepted, replayed>>
  BY DEF Lose, vars, clientVars, serverVars
<1>2. SenderInv'
  BY <1>1 DEF LinkInv, SenderInv, Behind
<1>3. Origin' = Origin /\ WindowInv' = WindowInv
  BY <1>1 DEF Origin, WindowInv
<1> QED
  BY <1>1, <1>2, <1>3 DEF LinkInv

\* LinkInv holds in every reachable state.
THEOREM LinkInvariant == Spec => []LinkInv
<1>1. Init => LinkInv
  <2> SUFFICES ASSUME Init PROVE LinkInv
    OBVIOUS
  <2>1. SenderInv
    BY DEF Init, SenderInv
  <2>2. InitialSeq + 1 \in Nat /\ InitialSeq + 1 < 2 * MAX_SEQ
    BY SeqAssumption
  <2>3. (sendSeq - Origin) - (sent - recvNum) \in {-MAX_SEQ, 0, MAX_SEQ}
    BY <2>2, MaskRange, SeqAssumption DEF Init, Origin
  <2>4. accepted = (1 .. recvNum - 1) \cup {recvNum + d : d \in seqWindow}
    BY DEF Init
  <2>5. WindowInv
    BY <2>3, <2>4, SeqAssumption DEF Init, WindowInv
  <2> QED
    BY <2>1, <2>5 DEF Init, LinkInv
<1>2. TypeOK /\ LinkInv /\ [Next]_vars => LinkInv'
  BY SendPacketKeeps, CheckSendQueueKeeps, OnAckKeeps, OnPacketOpeningKeeps,
     OnPacketReceivedKeeps, LoseKeeps DEF Next
<1> QED
  BY <1>1, <1>2, TypeCorrect, PTL DEF Spec

\* No packet gets through setSeq twice while the client stays within the window.
THEOREM DispatchedAtMostOnce == Spec => []AtMostOnce
<1>1. LinkInv => AtMostOnce
  BY DEF LinkInv, AtMostOnce
<1> QED
  BY <1>1, LinkInvariant, PTL

-----------------------------------------------------------------------------
(***************************************************************************)
(* Who sees what setSeq lets through.                                      *)
(***************************************************************************)

\* setSeq lets a packet through to its handler, or changes nothing that HeardInv
\* speaks of.
LEMMA SetSeqHeard ==
  ASSUME TypeOK, LinkInv, HeardInv, NEW m \in net, NEW b, NEW w, SetSeq(m, b, w),
         sent' = sent
  PROVE  HeardInv'
<1>1. CASE UNCHANGED <<accepted, online, routed, handled>>
  BY <1>1 DEF HeardInv, Unrouted
<1>2. CASE Dispatch(m.num)
  <2>1. accepted' = accepted \cup {m.num} /\ Handle(m.num)
    BY <1>2 DEF Dispatch
  <2>2. m.num \in 1 .. sent
    BY DEF LinkInv, SenderInv, Behind, TypeOK, Datagrams
  <2>3. CASE m.num = 1 /\ ~online
    <3>1. handled' = handled \cup {1} /\ accepted' = accepted \cup {1}
      BY <2>1, <2>3 DEF Handle, OnLogin
    <3>2. (2 .. sent) \ KeepAlives = {} /\ accepted \ KeepAlives \subseteq handled
      BY <2>3 DEF HeardInv, Unrouted
    <3> QED
      BY <3>1, <3>2 DEF HeardInv
  <2>4. CASE ~(m.num = 1 /\ ~online)
    <3>1. /\ UNCHANGED <<online, routed>>
          /\ handled' = handled \cup {n \in {m.num} : online /\ (n \in KeepAlives \/ routed)}
      BY <2>1, <2>4 DEF Handle
    <3>2. m.num \notin KeepAlives => online
      <4>1. m.num # 1 => m.num \in 2 .. sent
        BY <2>2 DEF TypeOK
      <4> QED
        BY <4>1, <2>4 DEF HeardInv
    <3>3. ~Unrouted => accepted' \ KeepAlives \subseteq handled'
      BY <2>1, <3>1, <3>2 DEF HeardInv, Unrouted
    <3> QED
      BY <3>1, <3>3 DEF HeardInv, Unrouted
  <2> QED
    BY <2>3, <2>4
<1> QED
  BY <1>1, <1>2 DEF SetSeq

\* HeardInv holds in every reachable state.
THEOREM HeardInvariant == Spec => []HeardInv
<1>1. Init => HeardInv
  BY DEF Init, HeardInv
<1>2. TypeOK /\ LinkInv /\ HeardInv /\ [Next]_vars => HeardInv'
  <2> SUFFICES ASSUME TypeOK, LinkInv, HeardInv, [Next]_vars PROVE HeardInv'
    OBVIOUS
  <2>1. CASE SendPacket
    <3>1. sent + 1 = 1 \/ sent + 1 \in KeepAlives \/ online
      BY <2>1 DEF SendPacket
    <3>2. sent' = sent + 1 /\ UNCHANGED <<online, routed, accepted, handled>>
      BY <2>1 DEF SendPacket, serverVars
    <3>3. (2 .. sent') \ KeepAlives # {} => online
      BY <3>1, <3>2 DEF HeardInv, TypeOK
    <3> QED
      BY <3>2, <3>3 DEF HeardInv, Unrouted
  <2>2. ASSUME NEW m \in net, OnPacketOpening(m) PROVE HeardInv'
    <3>1. sent' = sent
      BY <2>2 DEF OnPacketOpening, clientVars
    <3> QED
      BY <2>2, <3>1, SetSeqHeard DEF OnPacketOpening, serverVars, HeardInv, Unrouted
  <2>3. ASSUME NEW m \in net, OnPacketReceived(m) PROVE HeardInv'
    BY <2>3, SetSeqHeard DEF OnPacketReceived, clientVars
  <2>4. CASE UNCHANGED <<sent, serverVars>>
    BY <2>4 DEF serverVars, HeardInv, Unrouted
  <2> QED
    BY <2>1, <2>2, <2>3, <2>4
       DEF Next, CheckSendQueue, OnAck, Lose, vars, clientVars, serverVars
<1> QED
  BY <1>1, <1>2, TypeCorrect, LinkInvariant, PTL DEF Spec

\* An acknowledgement reported by onAck stands for a packet that c2s handled or
\* gave to the server, while the client stays within the window and the session
\* has a server.
THEOREM AcknowledgedWasDispatched == Spec => []AckedMeansProcessed
<1>1. LinkInv /\ HeardInv => AckedMeansProcessed
  BY DEF LinkInv, HeardInv, AckedMeansProcessed
<1> QED
  BY <1>1, LinkInvariant, HeardInvariant, PTL

-----------------------------------------------------------------------------
(***************************************************************************)
(* Outcomes.                                                               *)
(***************************************************************************)

Unacked == {e.num : e \in sendQueue}

\* Every submitted packet has exactly one outcome, or is still waiting.
THEOREM ExactlyOneOutcome == Spec => []OneOutcome
<1>1. Init => OneOutcome
  BY DEF Init, OneOutcome
<1>2. TypeOK /\ LinkInv /\ OneOutcome /\ [Next]_vars => OneOutcome'
  <2> SUFFICES ASSUME TypeOK, LinkInv, OneOutcome, [Next]_vars
               PROVE  OneOutcome'
    OBVIOUS
  <2>0. /\ Unacked \cup acked \cup failed = 1 .. sent
        /\ Unacked \cap acked = {} /\ Unacked \cap failed = {}
        /\ acked \cap failed = {}
    BY DEF OneOutcome, Unacked
  <2> SUFFICES /\ Unacked' \cup acked' \cup failed' = 1 .. sent'
               /\ Unacked' \cap acked' = {} /\ Unacked' \cap failed' = {}
               /\ acked' \cap failed' = {}
    BY DEF OneOutcome, Unacked
  <2>1. CASE SendPacket
    <3> DEFINE entry == [num |-> sent + 1, seq |-> Mask(sendSeq + 1),
                         attempts |-> 0, ttl |-> SEND_TIMEOUT]
    <3>0. /\ sent' = sent + 1 /\ acked' = acked /\ failed' = failed
          /\ sendQueue' = sendQueue \cup {entry}
      BY <2>1 DEF SendPacket
    <3>a. entry.num = sent + 1
      OBVIOUS
    <3> HIDE DEF entry
    <3>1. /\ sent' = sent + 1 /\ acked' = acked /\ failed' = failed
          /\ Unacked' = Unacked \cup {sent + 1}
      BY <3>0, <3>a DEF Unacked
    <3>2. 1 .. sent + 1 = (1 .. sent) \cup {sent + 1} /\ sent + 1 \notin 1 .. sent
      BY DEF TypeOK
    <3> QED
      BY <3>1, <3>2, <2>0
  <2>2. ASSUME NEW elapsed \in 1 .. SEND_TIMEOUT, CheckSendQueue(elapsed)
        PROVE  /\ Unacked' \cup acked' \cup failed' = 1 .. sent'
               /\ Unacked' \cap acked' = {} /\ Unacked' \cap failed' = {}
               /\ acked' \cap failed' = {}
    <3> DEFINE expired == {e \in sendQueue : e.ttl <= elapsed}
               retried == {e \in expired : e.attempts + 1 < MAX_SEND_ATTEMPTS}
               gone == {e.num : e \in expired \ retried}
    <3>1. /\ sendQueue' = {Aged(e, elapsed) : e \in sendQueue \ expired} \cup
                           {Retried(e) : e \in retried}
          /\ failed' = failed \cup gone
          /\ sent' = sent /\ acked' = acked
      BY <2>2 DEF CheckSendQueue
    <3>2. elapsed \in Nat /\ (\A e \in sendQueue : e \in Entries /\ e.ttl \in Nat)
      BY TimerAssumption DEF TypeOK, Entries
    <3>3. /\ \A e \in sendQueue \ expired : Aged(e, elapsed).num = e.num
          /\ \A e \in retried : Retried(e).num = e.num
      BY <3>2, EntrySteps
    <3>4. expired \subseteq sendQueue /\ retried \subseteq expired
      OBVIOUS
    <3>5. \A e, f \in sendQueue : e.num = f.num => e = f
      BY DEF LinkInv, SenderInv
    <3> HIDE DEF expired, retried
    <3>6. Unacked' = {e.num : e \in (sendQueue \ expired) \cup retried}
      BY <3>1, <3>3 DEF Unacked
    <3> DEFINE kept == (sendQueue \ expired) \cup retried
    <3>7. sendQueue = kept \cup (expired \ retried) /\ kept \cap (expired \ retried) = {}
      BY <3>4
    <3>8. Unacked' = {e.num : e \in kept} /\ Unacked = {e.num : e \in sendQueue}
      BY <3>6 DEF Unacked
    <3> HIDE DEF kept
    <3>9. Unacked' \cap gone = {}
      BY <3>5, <3>7, <3>8
    <3>10. Unacked = Unacked' \cup gone
      BY <3>7, <3>8
    <3> QED
      BY <3>1, <3>9, <3>10, <2>0
  <2>3. ASSUME NEW a \in acks, OnAck(a)
        PROVE  /\ Unacked' \cup acked' \cup failed' = 1 .. sent'
               /\ Unacked' \cap acked' = {} /\ Unacked' \cap failed' = {}
               /\ acked' \cap failed' = {}
    <3> DEFINE matching == {e \in sendQueue : e.seq = a.seq}
               done == {e.num : e \in matching}
    <3>1. /\ sendQueue' = sendQueue \ matching /\ acked' = acked \cup done
          /\ failed' = failed /\ sent' = sent
      BY <2>3 DEF OnAck
    <3>2. \A e, f \in sendQueue : e.num = f.num => e = f
      BY DEF LinkInv, SenderInv
    <3>3. matching \subseteq sendQueue
      OBVIOUS
    <3> HIDE DEF matching
    <3>4. Unacked = Unacked' \cup done /\ Unacked' \cap done = {}
      BY <3>1, <3>2, <3>3 DEF Unacked
    <3> QED
      BY <3>1, <3>4, <2>0
  <2>4. ASSUME UNCHANGED <<sendQueue, sent, acked, failed>>
        PROVE  /\ Unacked' \cup acked' \cup failed' = 1 .. sent'
               /\ Unacked' \cap acked' = {} /\ Unacked' \cap failed' = {}
               /\ acked' \cap failed' = {}
    BY <2>4, <2>0 DEF Unacked
  <2> QED
    BY <2>1, <2>2, <2>3, <2>4
       DEF Next, OnPacketOpening, OnPacketReceived, Lose, vars, clientVars
<1> QED
  BY <1>1, <1>2, TypeCorrect, LinkInvariant, PTL DEF Spec

-----------------------------------------------------------------------------
(***************************************************************************)
(* The link implements Delivery.                                           *)
(***************************************************************************)

\* One pass through setSeq is a first delivery, a stutter, or, once the
\* client has outrun the window, a replay.
LEMMA SetSeqDelivers ==
  ASSUME TypeOK, LinkInv, NEW m \in net, NEW b \in Seqs,
         NEW w, SetSeq(m, b, w),
         ~outran => replayed' = replayed,
         UNCHANGED <<sent, acked, failed, outran>>
  PROVE  [Promise!Next]_Promise!dvars
<1>1. m.num \in 1 .. sent
  BY DEF LinkInv, SenderInv, Behind, TypeOK, Datagrams
<1>2. CASE UNCHANGED <<accepted, replayed>>
  BY <1>2 DEF Promise!dvars
<1>3. CASE Dispatch(m.num)
  <2>1. CASE m.num \notin accepted
    BY <1>1, <1>3, <2>1 DEF Dispatch, Promise!Next, Promise!Deliver
  <2>2. CASE m.num \in accepted
    <3>1. CASE outran
      BY <1>1, <1>3, <2>2, <3>1 DEF Dispatch, Promise!Next, Promise!Replay, Promise!dvars
    <3>2. CASE ~outran
      BY <1>3, <2>2, <3>2 DEF Dispatch, Promise!dvars
    <3> QED
      BY <3>1, <3>2
  <2> QED
    BY <2>1, <2>2
<1> QED
  BY <1>2, <1>3 DEF SetSeq

\* The client-to-server link keeps every promise of Delivery, for every
\* value of the constants.
THEOREM LinkImplementsDelivery == Spec => Refines
<1>1. Init => Promise!Init
  BY DEF Init, Promise!Init
<1>2. TypeOK /\ LinkInv /\ OneOutcome /\ [Next]_vars => [Promise!Next]_Promise!dvars
  <2> SUFFICES ASSUME TypeOK, LinkInv, OneOutcome, [Next]_vars
               PROVE  [Promise!Next]_Promise!dvars
    OBVIOUS
  <2>0. /\ Unacked \cup acked \cup failed = 1 .. sent
        /\ Unacked \cap acked = {} /\ Unacked \cap failed = {}
        /\ acked \cap failed = {}
    BY DEF OneOutcome, Unacked
  <2>1. CASE SendPacket
    BY <2>1 DEF SendPacket, serverVars, Promise!Next, Promise!Submit, TypeOK
  <2>2. ASSUME NEW elapsed \in 1 .. SEND_TIMEOUT, CheckSendQueue(elapsed)
        PROVE  [Promise!Next]_Promise!dvars
    <3> DEFINE expired == {e \in sendQueue : e.ttl <= elapsed}
               retried == {e \in expired : e.attempts + 1 < MAX_SEND_ATTEMPTS}
               gone == {e.num : e \in expired \ retried}
    <3>1. /\ failed' = failed \cup gone
          /\ UNCHANGED <<sent, acked, outran, accepted, replayed>>
      BY <2>2 DEF CheckSendQueue, serverVars
    <3>2. gone \subseteq Unacked
      BY DEF Unacked
    <3> HIDE DEF gone
    <3>3. gone \in SUBSET (1 .. sent) /\ gone \cap (acked \cup failed) = {}
      BY <3>2, <2>0
    <3> QED
      BY <3>1, <3>3 DEF Promise!Next, Promise!Abandon
  <2>3. ASSUME NEW a \in acks, OnAck(a)
        PROVE  [Promise!Next]_Promise!dvars
    <3> DEFINE matching == {e \in sendQueue : e.seq = a.seq}
    <3>1. /\ acked' = acked \cup {e.num : e \in matching}
          /\ UNCHANGED <<sent, failed, outran, accepted, replayed>>
      BY <2>3 DEF OnAck, serverVars
    <3>2. \A e \in matching : e.num = a.num
      BY SameSeqSamePacket
    <3>3. CASE matching = {}
      <4>1. acked' = acked
        BY <3>1, <3>3
      <4> QED
        BY <3>1, <4>1 DEF Promise!dvars
    <3>4. CASE matching # {}
      <4>1. a.num \in Unacked
        BY <3>2, <3>4 DEF Unacked
      <4>2. acked' = acked \cup {a.num}
        BY <3>1, <3>2, <3>4
      <4>3. ~outran => a.num \in accepted
        BY DEF LinkInv
      <4>4. a.num \in 1 .. sent /\ a.num \notin acked \cup failed
        BY <4>1, <2>0
      <4> QED
        BY <3>1, <4>2, <4>3, <4>4 DEF Promise!Next, Promise!Confirm
    <3> QED
      BY <3>3, <3>4
  <2>4. ASSUME NEW m \in net, OnPacketOpening(m)
        PROVE  [Promise!Next]_Promise!dvars
    <3>1. UNCHANGED <<sent, acked, failed, outran>>
      BY <2>4 DEF OnPacketOpening, clientVars
    <3>2. CASE m.num = 1
      <4>1. m.seq \in Seqs /\ SetSeq(m, m.seq, {})
        BY <2>4, <3>2 DEF OnPacketOpening, TypeOK, Datagrams
      <4>2. LinkInv'
        BY <2>4, OnPacketOpeningKeeps
      <4>3. ~outran => replayed' = replayed
        BY <3>1, <4>2 DEF LinkInv
      <4> QED
        BY <3>1, <4>1, <4>3, SetSeqDelivers
    <3>3. CASE m.num # 1
      BY <2>4, <3>1, <3>3 DEF OnPacketOpening, serverVars, Promise!dvars
    <3> QED
      BY <3>2, <3>3
  <2>5. ASSUME NEW m \in net, OnPacketReceived(m)
        PROVE  [Promise!Next]_Promise!dvars
    <3>1. /\ SetSeq(m, recvSeq, seqWindow) /\ recvSeq \in Seqs
          /\ UNCHANGED <<sent, acked, failed, outran>>
      BY <2>5 DEF OnPacketReceived, clientVars, TypeOK
    <3>2. LinkInv'
      BY <2>5, OnPacketReceivedKeeps
    <3>3. ~outran => replayed' = replayed
      BY <3>1, <3>2 DEF LinkInv
    <3> QED
      BY <3>1, <3>3, SetSeqDelivers
  <2>6. ASSUME NEW m, Lose(m) \/ UNCHANGED vars
        PROVE  [Promise!Next]_Promise!dvars
    BY <2>6 DEF Lose, vars, clientVars, serverVars, Promise!dvars
  <2> QED
    BY <2>1, <2>2, <2>3, <2>4, <2>5, <2>6 DEF Next
<1> QED
  BY <1>1, <1>2, TypeCorrect, LinkInvariant, ExactlyOneOutcome, PTL
     DEF Spec, Refines, Promise!Spec
=============================================================================
