----------------------------- MODULE S2S_proofs -----------------------------
(***************************************************************************)
(* Proofs about s2s, for any number of links, names, packets and questions *)
(* under way: the chain of ServerHash holds the links that have a name, a  *)
(* packet is passed on only from a link whose name was resolved, a link    *)
(* that waits for its address has a question under way unless its question *)
(* or its answer went astray, and the packets of sm keep their order.      *)
(***************************************************************************)
EXTENDS S2S, ChainLemmas, FiniteSetTheorems

\* ServerHash::get finds a Server of that name, if the chain holds one.
LEMMA GetServer ==
  ASSUME NEW S, Chain(Servers, hash, S), NEW n
  PROVE  /\ getServer(n) = {} => \A s \in S : server[s].name # n
         /\ \A s \in getServer(n) : s \in S /\ s \in Servers /\ server[s].name = n
<1> DEFINE Found(s) == server[s].name = n
           I == {i \in 1 .. Len(hash) : Found(hash[i])}
<1>1. hash \in Seq(Servers) /\ DOMAIN hash = 1 .. Len(hash)
  BY DEF Chain
<1>2. SelectInSeq(hash, Found) = IF I # {} THEN Min(I) ELSE 0
  BY DEF SelectInSeq
<1>3. CASE I = {}
  <2>1. ~ \E i \in DOMAIN hash : server[hash[i]].name = n
    BY <1>1, <1>3
  <2>2. getServer(n) = {}
    BY <2>1 DEF getServer
  <2>3. \A s \in S : server[s].name # n
    BY <2>1 DEF Chain, ToSet
  <2> QED
    BY <2>2, <2>3
<1>4. CASE I # {}
  <2>1. I \in SUBSET Nat
    OBVIOUS
  <2>2. Min(I) \in I
    <3> HIDE DEF I
    <3> QED
      BY <1>4, <2>1, MinExists
  <2>3. Min(I) \in DOMAIN hash /\ server[hash[Min(I)]].name = n
    BY <1>1, <2>2
  <2>4. getServer(n) = {hash[Min(I)]}
    BY <1>2, <1>4, <2>3 DEF getServer
  <2>5. hash[Min(I)] \in S /\ hash[Min(I)] \in Servers
    BY <1>1, <2>3 DEF Chain, ToSet
  <2> QED
    BY <2>3, <2>4, <2>5
<1> QED
  BY <1>3, <1>4

-----------------------------------------------------------------------------
(***************************************************************************)
(* What a handler makes of a Server.                                       *)
(***************************************************************************)

Packets == 1 .. MaxPackets
Outgoing == {Hello, HelloReply} \cup {Deliver(n) : n \in Packets}

ServerType ==
  [status : Status \cup {"gone"}, name : Short \cup {NoName}, ip : Ips, peer : Ips,
   sock : {"none", "pending", "failed", "up"},
   packetList : Seq(Packets), out : Seq(Outgoing), sent : Seq(Packets),
   given : SUBSET Packets, lost : SUBSET Packets, robbed : BOOLEAN, unasked : BOOLEAN,
   accepted : BOOLEAN]

\* A Server has a name as soon as it has been told or has said it; it sends
\* nothing before it is connected, and connects to nothing but the address of its
\* name; one that connected to us is accepted only if its name is of our address.
Addressed(r) ==
  /\ r.status # "gone" => (r.name # NoName <=> r.status # "HELLO_WAIT")
  /\ r.status \in {"gone", "NOT_CONN", "HELLO_WAIT", "AUTH"} => r.out = <<>>
  /\ Len(r.out) <= SendBuf
  /\ r.sock = "pending" => r.status = "NOT_CONN"
  /\ r.status = "NOT_CONN" /\ r.sock # "none" =>
       r.ip = Address[r.name] /\ r.peer = Address[r.name]
  /\ r.status \in {"HELLO_REPLY", "CONNECTED"} =>
       r.ip = Address[r.name] /\ (r.accepted \/ r.peer = Address[r.name])
  /\ r.status \in {"HELLO_WAIT", "AUTH"} => r.accepted
  /\ r.status = "NOT_CONN" => ~r.accepted
  /\ r.accepted => r.ip = Local

Good(r) == r \in ServerType /\ Addressed(r)

\* Waits, of a Server r.
WaitsR(r) == (r.status = "NOT_CONN" /\ r.sock = "none") \/ r.status = "AUTH"

LEMMA ConstantTypes ==
  /\ \A n \in Names : Address[n] \in Ips /\ Address[n] # NoIP
  /\ NoIP \in Ips /\ Local \in Ips /\ NoName \notin Names
  /\ Short \subseteq Names /\ \A n \in Names : Cut[n] \in Short
BY S2SAssumption DEF Ips, NoName, Short

LEMMA Room == Len(<<>>) < SendBuf /\ SendBuf \in Nat
<1>1. SendBuf \in Nat \ {0}
  BY S2SAssumption
<1> QED
  BY <1>1

LEMMA Bound == MaxPackets \in Nat
BY S2SAssumption, Zenon

LEMMA GoneGood == Good(Gone) /\ ~WaitsR(Gone)
<1>1. Gone \in ServerType
  <2>1. <<>> \in Seq(Packets) /\ <<>> \in Seq(Outgoing) /\ {} \in SUBSET Packets
    OBVIOUS
  <2>2. NoIP \in Ips
    BY ConstantTypes
  <2> QED
    BY <2>1, <2>2, Zenon DEF Gone, ServerType
<1>2. Addressed(Gone) /\ ~WaitsR(Gone)
  BY Room DEF Gone, Addressed, WaitsR
<1> QED
  BY <1>1, <1>2 DEF Good

LEMMA PutType ==
  ASSUME NEW r \in ServerType, NEW p \in Outgoing, Len(r.out) < SendBuf \/ p[2] \in Packets,
         Len(r.out) <= SendBuf
  PROVE  /\ Put(r, p) \in ServerType
         /\ Put(r, p).status = r.status /\ Put(r, p).name = r.name
         /\ Put(r, p).ip = r.ip /\ Put(r, p).sock = r.sock
         /\ Put(r, p).robbed = r.robbed /\ Len(Put(r, p).out) <= SendBuf
         /\ Put(r, p).unasked = r.unasked /\ Put(r, p).peer = r.peer
         /\ Put(r, p).accepted = r.accepted
<1>1. r.out \in Seq(Outgoing) /\ r.lost \in SUBSET Packets
  BY DEF ServerType
<1>2. CASE Len(r.out) < SendBuf
  <2>1. Append(r.out, p) \in Seq(Outgoing) /\ Len(Append(r.out, p)) <= SendBuf
    BY <1>1, <1>2, Room
  <2>2. [r EXCEPT !.out = Append(@, p)] \in ServerType
    BY <2>1, Zenon DEF ServerType
  <2>3. Put(r, p) = [r EXCEPT !.out = Append(@, p)]
    BY <1>2 DEF Put
  <2>4. Put(r, p).out = Append(r.out, p)
    BY <2>3 DEF ServerType
  <2>5. Len(Put(r, p).out) <= SendBuf
    BY <2>1, <2>4
  <2> QED
    BY <2>2, <2>3, <2>5 DEF ServerType
<1>3. CASE ~(Len(r.out) < SendBuf)
  <2>1. r.lost \cup {p[2]} \in SUBSET Packets
    BY <1>1, <1>3
  <2>2. [r EXCEPT !.lost = @ \cup {p[2]}] \in ServerType
    BY <2>1, Zenon DEF ServerType
  <2>3. Put(r, p) = [r EXCEPT !.lost = @ \cup {p[2]}]
    BY <1>3 DEF Put
  <2>4. Put(r, p).out = r.out
    BY <2>3 DEF ServerType
  <2> QED
    BY <2>2, <2>3, <2>4 DEF ServerType
<1> QED
  BY <1>2, <1>3

\* Server::deliver
LEMMA DeliverGood ==
  ASSUME NEW r, Good(r), NEW n \in Packets
  PROVE  /\ Good(ServerDeliver(r, n))
         /\ ServerDeliver(r, n).status = r.status /\ ServerDeliver(r, n).name = r.name
         /\ ServerDeliver(r, n).sock = r.sock /\ ServerDeliver(r, n).robbed = r.robbed
         /\ ServerDeliver(r, n).unasked = r.unasked
<1> DEFINE q == [r EXCEPT !.given = @ \cup {n}]
<1>1. r \in ServerType /\ Addressed(r)
  BY DEF Good
<1>2. q \in ServerType
  <2>1. r.given \cup {n} \in SUBSET Packets
    BY <1>1 DEF ServerType
  <2> QED
    BY <1>1, <2>1, Zenon DEF ServerType
<1>3. /\ q.status = r.status /\ q.name = r.name /\ q.ip = r.ip /\ q.sock = r.sock
      /\ q.out = r.out /\ q.robbed = r.robbed /\ q.unasked = r.unasked /\ q.peer = r.peer
      /\ q.accepted = r.accepted
  BY <1>1 DEF ServerType
<1> HIDE DEF q
<1>4. CASE r.status = "CONNECTED"
  <2>1. ServerDeliver(r, n) = Put(q, Deliver(n))
    BY <1>3, <1>4 DEF ServerDeliver, SendDeliver, q
  <2>2. Deliver(n) \in Outgoing /\ Deliver(n)[2] \in Packets
    BY DEF Outgoing, Deliver
  <2>3. /\ Put(q, Deliver(n)) \in ServerType
        /\ Put(q, Deliver(n)).status = r.status /\ Put(q, Deliver(n)).name = r.name
        /\ Put(q, Deliver(n)).ip = r.ip /\ Put(q, Deliver(n)).sock = r.sock
        /\ Put(q, Deliver(n)).robbed = r.robbed /\ Put(q, Deliver(n)).unasked = r.unasked
        /\ Put(q, Deliver(n)).peer = r.peer /\ Put(q, Deliver(n)).accepted = r.accepted
        /\ Len(Put(q, Deliver(n)).out) <= SendBuf
    <3>1. Len(q.out) <= SendBuf
      BY <1>1, <1>3 DEF Addressed
    <3> QED
      BY <1>2, <1>3, <2>2, <3>1, PutType
  <2> QED
    BY <1>1, <1>4, <2>1, <2>3 DEF Good, Addressed
<1>5. CASE r.status # "CONNECTED"
  <2> DEFINE e == [q EXCEPT !.packetList = Append(@, n)]
  <2>1. ServerDeliver(r, n) = e
    BY <1>3, <1>5 DEF ServerDeliver, SendDeliver, q
  <2>2. Append(q.packetList, n) \in Seq(Packets)
    BY <1>2 DEF ServerType
  <2>3. e \in ServerType
    BY <1>2, <2>2, Zenon DEF ServerType
  <2>4. /\ e.status = r.status /\ e.name = r.name /\ e.ip = r.ip /\ e.sock = r.sock
        /\ e.out = r.out /\ e.robbed = r.robbed /\ e.unasked = r.unasked /\ e.peer = r.peer
        /\ e.accepted = r.accepted
    BY <1>2, <1>3 DEF ServerType
  <2> HIDE DEF e
  <2> QED
    BY <1>1, <2>1, <2>3, <2>4 DEF Good, Addressed
<1> QED
  BY <1>4, <1>5

\* Server::onSocketConnect of a connection to the address of the name.
LEMMA ConnectedGood ==
  ASSUME NEW r \in ServerType, Addressed(r), r.status = "NOT_CONN",
         NEW q \in ServerType, q.name = r.name, q.out = r.out, q.ip = Address[r.name],
         q.peer = Address[r.name], q.accepted = r.accepted
  PROVE  /\ Good(Connected(q)) /\ ~WaitsR(Connected(q))
         /\ Connected(q).name = r.name /\ Connected(q).status = "HELLO_REPLY"
<1> DEFINE c == [q EXCEPT !.sock = "up", !.status = "HELLO_REPLY"]
<1>1. c \in ServerType
  BY Zenon DEF ServerType, Status
<1>2. /\ c.status = "HELLO_REPLY" /\ c.name = r.name /\ c.ip = Address[r.name]
      /\ c.sock = "up" /\ c.out = <<>> /\ c.peer = Address[r.name] /\ ~c.accepted
  BY DEF ServerType, Addressed
<1> HIDE DEF c
<1>3. Len(c.out) < SendBuf /\ Len(c.out) <= SendBuf
  <2>1. Len(c.out) = Len(<<>>)
    BY <1>2
  <2> QED
    BY <2>1, Room
<1>4. Hello \in Outgoing
  BY DEF Outgoing
<1> DEFINE e == Put(c, Hello)
<1>5. /\ e \in ServerType /\ e.status = "HELLO_REPLY" /\ e.name = r.name
      /\ e.ip = Address[r.name] /\ e.sock = "up" /\ Len(e.out) <= SendBuf
      /\ e.peer = Address[r.name] /\ ~e.accepted
  BY <1>1, <1>2, <1>3, <1>4, PutType
<1>6. Connected(q) = e
  BY DEF Connected, c
<1> HIDE DEF e
<1>7. r.name # NoName
  BY DEF Addressed
<1> QED
  BY <1>5, <1>6, <1>7 DEF Good, Addressed, WaitsR

\* Server::onResolved with the address of its name.
LEMMA ResolvedGood ==
  ASSUME NEW r, Good(r), r.name \in Names, r.status # "gone",
         NEW ip \in {Address[r.name], NoIP}, NEW e \in OnResolved(r, ip)
  PROVE  /\ Good(e) /\ ~WaitsR(e)
         /\ e # Gone => e.name = r.name /\ e.status \notin {"gone", "HELLO_WAIT"}
<1>1. r \in ServerType /\ Addressed(r) /\ ip \in Ips
  BY ConstantTypes DEF Good
<1>2. CASE ip = NoIP \/ (r.status = "AUTH" /\ r.ip # ip)
  BY <1>2, GoneGood DEF OnResolved
<1>3. CASE ~(ip = NoIP \/ (r.status = "AUTH" /\ r.ip # ip))
  <2>0. ip = Address[r.name] /\ (r.status = "AUTH" => r.ip = Address[r.name])
    BY <1>3
  <2>1. CASE r.status = "NOT_CONN"
    <3> DEFINE q == [r EXCEPT !.ip = ip, !.peer = ip]
    <3>1. e \in Connect(r, ip)
      BY <1>3, <2>1 DEF OnResolved
    <3>2. CASE e = Connected(q)
      <4>1. q \in ServerType
        BY <1>1, Zenon DEF ServerType
      <4>2. /\ q.name = r.name /\ q.out = r.out /\ q.ip = Address[r.name]
            /\ q.peer = Address[r.name] /\ q.accepted = r.accepted
        BY <1>1, <2>0 DEF ServerType
      <4> HIDE DEF q
      <4> QED
        BY <1>1, <2>1, <3>2, <4>1, <4>2, ConnectedGood
    <3>3. ASSUME NEW k \in {"pending", "failed"}, e = [q EXCEPT !.sock = k]
          PROVE  Good(e) /\ ~WaitsR(e) /\ e.name = r.name /\ e.status = "NOT_CONN"
      <4>1. e \in ServerType
        BY <1>1, <3>3, Zenon DEF ServerType
      <4>2. /\ e.status = "NOT_CONN" /\ e.name = r.name /\ e.ip = Address[r.name]
            /\ e.sock = k /\ e.out = r.out /\ e.peer = Address[r.name]
            /\ e.accepted = r.accepted
        BY <1>1, <2>0, <2>1, <3>3 DEF ServerType
      <4>3. r.name # NoName /\ r.out = <<>> /\ ~r.accepted
        BY <1>1, <2>1 DEF Addressed
      <4> QED
        BY <3>3, <4>1, <4>2, <4>3 DEF Good, Addressed, WaitsR
    <3> QED
      BY <3>1, <3>2, <3>3 DEF Connect
  <2>2. CASE r.status = "AUTH"
    <3> DEFINE c == [r EXCEPT !.status = "CONNECTED"]
    <3>1. e = Put(c, HelloReply)
      BY <1>3, <2>2 DEF OnResolved
    <3>2. c \in ServerType
      BY <1>1, Zenon DEF ServerType, Status
    <3>3. /\ c.status = "CONNECTED" /\ c.name = r.name /\ c.ip = Address[r.name]
          /\ c.sock = r.sock /\ c.out = <<>> /\ c.accepted /\ c.ip = Local
      BY <1>1, <2>0, <2>2 DEF ServerType, Addressed
    <3> HIDE DEF c
    <3>4. HelloReply \in Outgoing /\ Len(c.out) < SendBuf /\ Len(c.out) <= SendBuf
      <4>1. Len(c.out) = Len(<<>>)
        BY <3>3
      <4> QED
        BY <4>1, Room DEF Outgoing
    <3>5. /\ e \in ServerType /\ e.status = "CONNECTED" /\ e.name = r.name
          /\ e.ip = Address[r.name] /\ e.sock = r.sock /\ Len(e.out) <= SendBuf
          /\ e.accepted /\ e.ip = Local
      BY <3>1, <3>2, <3>3, <3>4, PutType
    <3>6. r.name # NoName /\ r.sock # "pending"
      BY <1>1, <2>2 DEF Addressed
    <3> QED
      BY <3>5, <3>6 DEF Good, Addressed, WaitsR
  <2>3. CASE r.status \notin {"NOT_CONN", "AUTH"}
    <3>1. e = r
      BY <1>3, <2>3 DEF OnResolved
    <3>2. r.status # "HELLO_WAIT"
      BY <1>1, ConstantTypes DEF Addressed
    <3> QED
      BY <2>3, <3>1, <3>2 DEF WaitsR
  <2> QED
    BY <2>1, <2>2, <2>3
<1> QED
  BY <1>2, <1>3

\* Server::onHelloReply
LEMMA FlushGood ==
  ASSUME NEW r, Good(r), r.status = "HELLO_REPLY"
  PROVE  /\ Good(Flush(r)) /\ ~WaitsR(Flush(r))
         /\ Flush(r).name = r.name /\ Flush(r).status = "CONNECTED"
<1> DEFINE a == [r EXCEPT !.status = "CONNECTED", !.packetList = <<>>]
           q == r.packetList
           n == Min({SendBuf - Len(a.out), Len(q)})
           line == [i \in 1 .. n |-> Deliver(q[i])]
           rest == {q[i] : i \in n + 1 .. Len(q)}
           e == [a EXCEPT !.out = @ \o line, !.lost = @ \cup rest]
<1>1. r \in ServerType /\ Addressed(r)
  BY DEF Good
<1>2. a \in ServerType
  <2>1. <<>> \in Seq(Packets)
    OBVIOUS
  <2> QED
    BY <1>1, <2>1, Zenon DEF ServerType, Status
<1>3. /\ a.status = "CONNECTED" /\ a.name = r.name /\ a.ip = r.ip /\ a.sock = r.sock
      /\ a.peer = r.peer /\ a.accepted = r.accepted
  BY <1>1 DEF ServerType
<1>4. q \in Seq(Packets) /\ Len(q) \in Nat /\ \A i \in 1 .. Len(q) : q[i] \in Packets
  BY <1>1 DEF ServerType
<1>5. a.out \in Seq(Outgoing) /\ a.lost \in SUBSET Packets
  BY <1>2 DEF ServerType
<1>6. Len(a.out) \in Nat /\ Len(a.out) <= SendBuf
  <2>1. a.out = r.out
    BY <1>1 DEF ServerType
  <2> HIDE DEF a
  <2> QED
    BY <1>1, <1>5, <2>1 DEF Addressed
<1>7. Flush(r) = e
  BY DEF Flush, PutAll, Accepted
<1> HIDE DEF a, q
<1>8. n \in Nat /\ n <= Len(q) /\ n <= SendBuf - Len(a.out)
  <2> DEFINE x == SendBuf - Len(a.out)
  <2>1. x \in Nat
    BY <1>6, Room
  <2> HIDE DEF x
  <2>2. {x, Len(q)} \in SUBSET Nat /\ {x, Len(q)} # {}
    BY <1>4, <2>1
  <2>3. Min({x, Len(q)}) \in {x, Len(q)} /\ \A y \in {x, Len(q)} : Min({x, Len(q)}) <= y
    BY <2>2, MinExists
  <2>4. n = Min({x, Len(q)})
    BY DEF x
  <2> HIDE DEF n
  <2>5. n \in Nat /\ n <= x /\ n <= Len(q)
    BY <1>4, <2>1, <2>3, <2>4
  <2> QED
    BY <2>5 DEF x
<1> HIDE DEF n
<1>9. \A i \in 1 .. n : Deliver(q[i]) \in Outgoing
  <2>1. \A i \in 1 .. n : i \in 1 .. Len(q)
    BY <1>4, <1>8
  <2> QED
    BY <1>4, <2>1 DEF Outgoing
<1>10. line \in Seq(Outgoing) /\ Len(line) = n
  BY <1>8, <1>9
<1>11. rest \in SUBSET Packets
  BY <1>4, <1>8
<1> HIDE DEF line, rest
<1>12. a.out \o line \in Seq(Outgoing) /\ Len(a.out \o line) <= SendBuf
  <2>1. a.out \o line \in Seq(Outgoing) /\ Len(a.out \o line) = Len(a.out) + Len(line)
    BY <1>5, <1>10, ConcatProperties
  <2> QED
    BY <1>6, <1>8, <1>10, <2>1, Room
<1>13. a.lost \cup rest \in SUBSET Packets
  BY <1>5, <1>11
<1>14. e \in ServerType
  BY <1>2, <1>12, <1>13, Zenon DEF ServerType
<1>15. /\ e.status = "CONNECTED" /\ e.name = r.name /\ e.ip = r.ip /\ e.sock = r.sock
       /\ e.out = a.out \o line /\ e.peer = r.peer /\ e.accepted = r.accepted
  BY <1>2, <1>3 DEF ServerType
<1> HIDE DEF e
<1>16. /\ r.name # NoName /\ r.ip = Address[r.name] /\ r.sock # "pending"
       /\ r.accepted \/ r.peer = Address[r.name]
       /\ r.accepted => r.ip = Local
  BY <1>1 DEF Addressed
<1> QED
  BY <1>7, <1>12, <1>14, <1>15, <1>16 DEF Good, Addressed, WaitsR

-----------------------------------------------------------------------------
(***************************************************************************)
(* The invariant.                                                          *)
(***************************************************************************)

NamedServers == {s \in Servers : Live(s) /\ Named(s)}

\* What the resolver has been asked or will be.
Questions == ToSet(queries) \cup ToSet(asked)

\* A Server that waits for its address has a question under way, or its question
\* or the answer went elsewhere.
Stuck(r) == r.robbed \/ r.unasked
Asks == \A s \in Servers :
  WaitsR(server[s]) /\ ~Stuck(server[s]) => server[s].name \in Questions

LinkInv ==
  /\ server \in [Servers -> ServerType]
  /\ \A s \in Servers : Addressed(server[s])
  /\ Chain(Servers, hash, NamedServers)
  /\ resolver \in BOOLEAN /\ queries \in Seq(Names) /\ asked \in Seq(Names)
  /\ sm \in BOOLEAN /\ handed \in 0 .. MaxPackets
  /\ heard \in [name : Short \cup {NoName}, peer : Ips, accepted : BOOLEAN]
  /\ Asks
  /\ OriginChecked

LEMMA LinkInit == Init => LinkInv
<1> SUFFICES ASSUME Init
             PROVE  LinkInv
  OBVIOUS
<1>1. server \in [Servers -> ServerType] /\ \A s \in Servers : server[s] = Gone
  BY GoneGood DEF Init, Good
<1>2. \A s \in Servers : Addressed(server[s]) /\ ~WaitsR(server[s])
  BY <1>1, GoneGood DEF Good
<1>3. NamedServers = {}
  BY <1>1 DEF NamedServers, Live, Gone
<1>4. /\ hash = <<>> /\ resolver = TRUE /\ queries = <<>> /\ asked = <<>>
      /\ sm = FALSE /\ handed = 0 /\ heard = Nobody
  BY DEF Init
<1>5. Chain(Servers, hash, NamedServers)
  BY <1>3, <1>4 DEF Chain, IsInjective, ToSet
<1>6. handed \in 0 .. MaxPackets
  BY <1>4, Bound
<1>7. Asks
  BY <1>2 DEF Asks
<1>8. OriginChecked
  BY <1>4 DEF OriginChecked
<1>9. queries \in Seq(Names) /\ asked \in Seq(Names)
  BY <1>4
<1>10. resolver \in BOOLEAN /\ sm \in BOOLEAN
  BY <1>4, Zenon
<1>11. heard \in [name : Short \cup {NoName}, peer : Ips, accepted : BOOLEAN]
  BY <1>4, ConstantTypes, Zenon DEF Nobody
<1> QED
  BY <1>1, <1>2, <1>5, <1>6, <1>7, <1>8, <1>9, <1>10, <1>11 DEF LinkInv

\* Who is named when Server s has become r.
LEMMA WhoIsNamed ==
  ASSUME LinkInv, NEW s \in Servers, NEW r, server' = [server EXCEPT ![s] = r]
  PROVE  /\ r.status # "gone" /\ r.name # NoName => NamedServers' = NamedServers \cup {s}
         /\ r.status = "gone" \/ r.name = NoName => NamedServers' = NamedServers \ {s}
         /\ s \in NamedServers <=> server[s].status # "gone" /\ server[s].name # NoName
<1>1. server'[s] = r /\ \A t \in Servers \ {s} : server'[t] = server[t]
  BY DEF LinkInv
<1> QED
  BY <1>1 DEF NamedServers, Live, Named

\* One Server changes, and questions are asked but none is answered.
LEMMA OneLink ==
  ASSUME LinkInv, NEW s \in Servers, NEW r, Good(r), server' = [server EXCEPT ![s] = r],
         Chain(Servers, hash', NamedServers'),
         queries' \in Seq(Names), UNCHANGED <<resolver, asked, sm, heard>>,
         Questions \subseteq Questions',
         WaitsR(r) /\ ~Stuck(r) => r.name \in Questions',
         handed' \in 0 .. MaxPackets
  PROVE  LinkInv'
<1>1. server'[s] = r /\ \A t \in Servers \ {s} : server'[t] = server[t]
  BY DEF LinkInv
<1>2. server' \in [Servers -> ServerType]
  BY DEF LinkInv, Good
<1>3. \A t \in Servers : Addressed(server'[t])
  BY <1>1 DEF LinkInv, Good
<1>4. Asks'
  BY <1>1 DEF LinkInv, Asks
<1>5. OriginChecked'
  BY DEF LinkInv, OriginChecked
<1> QED
  BY <1>2, <1>3, <1>4, <1>5 DEF LinkInv

\* One Server goes on, or is deleted.
LEMMA OneGoesOn ==
  ASSUME LinkInv, NEW s \in Servers, NEW r, Becomes(s, r),
         UNCHANGED <<resVars, sm, handed, heard>>,
         Good(r), WaitsR(r) /\ ~Stuck(r) => r.name \in Questions,
         r = Gone \/ (r.status # "gone" /\ r.name # NoName /\ s \in NamedServers)
  PROVE  LinkInv'
<1>1. server' = [server EXCEPT ![s] = r]
  BY DEF Becomes
<1>0. UNCHANGED <<resolver, queries, asked, sm, heard>> /\ Questions' = Questions
  BY DEF resVars, Questions
<1>2. CASE r = Gone
  <2>0. r.status = "gone"
    BY <1>2 DEF Gone
  <2>1. NamedServers' = NamedServers \ {s}
    BY <1>1, <2>0, WhoIsNamed
  <2>2. hash' = RemoveFirst(hash, s)
    BY <1>2 DEF Becomes, Forget
  <2>3. Chain(Servers, hash', NamedServers')
    BY <2>1, <2>2, RemoveChain DEF LinkInv
  <2> QED
    BY <1>0, <1>1, <2>3, OneLink DEF LinkInv
<1>3. CASE r # Gone
  <2>1. NamedServers' = NamedServers /\ hash' = hash
    BY <1>1, <1>3, WhoIsNamed DEF Becomes
  <2>2. Chain(Servers, hash', NamedServers')
    BY <2>1 DEF LinkInv
  <2> QED
    BY <1>0, <1>1, <2>2, OneLink DEF LinkInv
<1> QED
  BY <1>2, <1>3

\* A Server that has been told its name, or has said it, is in the chain.
LEMMA IsNamed ==
  ASSUME LinkInv, NEW s \in Servers, server[s].status \notin {"gone", "HELLO_WAIT"}
  PROVE  /\ s \in NamedServers /\ Good(server[s])
         /\ server[s].name \in Short /\ server[s].name \in Names
<1>1. server[s] \in ServerType /\ Addressed(server[s])
  BY DEF LinkInv
<1>2. server[s].name # NoName
  BY <1>1 DEF Addressed
<1> QED
  BY <1>1, <1>2, ConstantTypes DEF NamedServers, Live, Named, Good, ServerType

-----------------------------------------------------------------------------
(***************************************************************************)
(* The steps.                                                              *)
(***************************************************************************)

\* Resolver::resolve
LEMMA ResolveAsks ==
  ASSUME queries \in Seq(Names), NEW n \in Names, queries' = resolve(n), asked' = asked
  PROVE  /\ queries' \in Seq(Names) /\ Questions \subseteq Questions'
         /\ CanAsk => n \in Questions'
<1>1. CASE CanAsk
  BY <1>1, AppendSeq DEF resolve, Questions
<1>2. CASE ~CanAsk
  BY <1>2 DEF resolve, Questions
<1> QED
  BY <1>1, <1>2

LEMMA NewServerType ==
  ASSUME NEW n \in Names
  PROVE  NewServer(n) \in ServerType
<1>1. Gone \in ServerType /\ Cut[n] \in Short /\ (~CanAsk \/ Cut[n] # n) \in BOOLEAN
  BY GoneGood, ConstantTypes DEF Good
<1> QED
  BY <1>1, Zenon DEF NewServer, ServerType, Status

\* SessionManager::onPacketReceived
LEMMA SmPacketKeeps ==
  ASSUME LinkInv, NEW n \in Names, SmPacket(n)
  PROVE  LinkInv'
<1> DEFINE h == handed + 1
<1>1. handed' = h /\ UNCHANGED <<resolver, asked, sm, heard>>
  BY DEF SmPacket
<1>2. h \in Packets /\ handed' \in 0 .. MaxPackets
  <2>1. handed \in 0 .. MaxPackets /\ handed < MaxPackets
    BY DEF LinkInv, SmPacket
  <2> QED
    BY <1>1, <2>1, Bound DEF Packets
<1> HIDE DEF h
<1>3. ASSUME NEW s \in getServer(n),
             server' = [server EXCEPT ![s] = ServerDeliver(@, handed')],
             UNCHANGED <<hash, queries>>
      PROVE  LinkInv'
  <2>0. Questions' = Questions
    BY <1>1, <1>3 DEF Questions
  <2>1. s \in NamedServers /\ s \in Servers
    BY GetServer DEF LinkInv
  <2> DEFINE r == ServerDeliver(server[s], h)
  <2>2. server' = [server EXCEPT ![s] = r]
    BY <1>1, <1>3
  <2>3. Good(server[s])
    BY <2>1 DEF LinkInv, Good
  <2>4. /\ Good(r) /\ r.status = server[s].status /\ r.name = server[s].name
        /\ r.sock = server[s].sock /\ r.robbed = server[s].robbed
        /\ r.unasked = server[s].unasked
    BY <1>2, <2>3, DeliverGood
  <2> HIDE DEF r
  <2>5. r.status # "gone" /\ r.name # NoName
    BY <2>1, <2>2, <2>4, WhoIsNamed
  <2>6. NamedServers' = NamedServers
    BY <2>1, <2>2, <2>5, WhoIsNamed
  <2>7. Chain(Servers, hash', NamedServers')
    BY <1>3, <2>6 DEF LinkInv
  <2>8. WaitsR(r) /\ ~Stuck(r) => r.name \in Questions'
    BY <2>0, <2>1, <2>4 DEF LinkInv, Asks, WaitsR, Stuck
  <2> QED
    BY <1>1, <1>2, <1>3, <2>0, <2>1, <2>2, <2>4, <2>7, <2>8, OneLink DEF LinkInv
<1>4. ASSUME NEW s \in Servers, ~Live(s),
             server' = [server EXCEPT ![s] = ServerDeliver(NewServer(n), handed')],
             hash' = <<s>> \o hash, queries' = resolve(n)
      PROVE  LinkInv'
  <2> DEFINE g == NewServer(n)
             r == ServerDeliver(g, h)
  <2>1. server' = [server EXCEPT ![s] = r]
    BY <1>1, <1>4
  <2>2. g \in ServerType
    BY NewServerType
  <2>3. /\ g.status = "NOT_CONN" /\ g.name = Cut[n] /\ g.sock = "none" /\ g.out = <<>>
        /\ g.unasked = (~CanAsk \/ Cut[n] # n) /\ ~g.accepted
    BY DEF Gone, NewServer
  <2> HIDE DEF g
  <2>4. Cut[n] # NoName /\ Len(g.out) <= SendBuf
    <3>1. Len(g.out) = Len(<<>>)
      BY <2>3
    <3>2. Cut[n] # NoName
      BY ConstantTypes
    <3>3. Len(<<>>) <= SendBuf
      BY Room
    <3> QED
      BY <3>1, <3>2, <3>3
  <2>5. Good(g)
    BY <2>2, <2>3, <2>4 DEF Good, Addressed
  <2>6. Good(r) /\ r.status = "NOT_CONN" /\ r.name = Cut[n] /\ r.unasked = g.unasked
    BY <1>2, <2>3, <2>5, DeliverGood
  <2> HIDE DEF r
  <2>7. NamedServers' = NamedServers \cup {s} /\ s \notin NamedServers
    BY <1>4, <2>1, <2>4, <2>6, WhoIsNamed DEF Live
  <2>8. Chain(Servers, hash', NamedServers')
    BY <1>4, <2>7, PutChain DEF LinkInv
  <2>9. queries' \in Seq(Names) /\ Questions \subseteq Questions' /\ (CanAsk => n \in Questions')
    BY <1>1, <1>4, ResolveAsks DEF LinkInv
  <2>10. WaitsR(r) /\ ~Stuck(r) => r.name \in Questions'
    BY <2>3, <2>6, <2>9 DEF Stuck
  <2> QED
    BY <1>1, <1>2, <2>1, <2>6, <2>8, <2>9, <2>10, OneLink
<1> QED
  BY <1>3, <1>4 DEF SmPacket

\* A flag of a Server changes.
LEMMA ToldGood ==
  ASSUME NEW r, Good(r)
  PROVE  /\ Good(Told(r)) /\ Told(r).name = r.name /\ Told(r).status = r.status
         /\ Told(r).sent = r.sent /\ Told(r).out = r.out /\ Told(r).packetList = r.packetList
         /\ Told(r).given = r.given /\ Told(r).lost = r.lost /\ Told(r).accepted = r.accepted
<1> DEFINE e == Told(r)
<1>1. r \in ServerType
  BY DEF Good
<1>2. e \in ServerType
  BY <1>1, Zenon DEF ServerType, Told
<1>3. /\ e.status = r.status /\ e.name = r.name /\ e.ip = r.ip /\ e.sock = r.sock
      /\ e.out = r.out /\ e.peer = r.peer /\ e.accepted = r.accepted
      /\ e.sent = r.sent /\ e.packetList = r.packetList /\ e.given = r.given /\ e.lost = r.lost
  BY <1>1 DEF ServerType, Told
<1> HIDE DEF e
<1>4. Addressed(e)
  BY <1>3 DEF Good, Addressed
<1>5. Good(e)
  BY <1>2, <1>4 DEF Good
<1> QED
  BY <1>3, <1>5 DEF e

\* onSocketWrite to the resolver.
LEMMA AskKeeps ==
  ASSUME LinkInv, Ask
  PROVE  LinkInv'
<1>1. /\ queries \in Seq(Names) /\ asked \in Seq(Names) /\ queries # <<>>
      /\ asked' = Append(asked, Head(queries)) /\ queries' = Tail(queries)
      /\ UNCHANGED <<server, hash, resolver, sm, handed, heard>>
  BY DEF LinkInv, Ask
<1>2. /\ Head(queries) \in Names /\ queries' \in Seq(Names)
      /\ ToSet(queries) = {Head(queries)} \cup ToSet(queries')
  BY <1>1, TailSeq
<1>3. asked' \in Seq(Names) /\ ToSet(asked') = ToSet(asked) \cup {Head(queries)}
  BY <1>1, <1>2, AppendSeq
<1>4. Questions' = Questions
  BY <1>2, <1>3 DEF Questions
<1>5. NamedServers' = NamedServers /\ Asks' /\ OriginChecked'
  BY <1>1, <1>4 DEF NamedServers, Live, Named, LinkInv, Asks, OriginChecked
<1> QED
  BY <1>1, <1>2, <1>3, <1>5 DEF LinkInv

\* onSocketClose of the stream to the resolver: whoever waits has no question.
LEMMA ResolverClosesKeeps ==
  ASSUME LinkInv, ResolverCloses
  PROVE  LinkInv'
<1>1. /\ resolver' = FALSE /\ queries' = <<>> /\ asked' = <<>>
      /\ UNCHANGED <<hash, sm, handed, heard>>
      /\ server' = [s \in Servers |->
           IF Waits(s) THEN [server[s] EXCEPT !.unasked = TRUE] ELSE server[s]]
  BY DEF ResolverCloses
<1>2. ASSUME NEW t \in Servers
      PROVE  /\ server'[t] \in ServerType /\ Addressed(server'[t])
             /\ server'[t].status = server[t].status /\ server'[t].name = server[t].name
             /\ WaitsR(server'[t]) => Stuck(server'[t])
  <2>1. server[t] \in ServerType /\ Addressed(server[t])
    BY DEF LinkInv
  <2>2. CASE Waits(t)
    <3> DEFINE e == [server[t] EXCEPT !.unasked = TRUE]
    <3>1. server'[t] = e
      BY <1>1, <2>2
    <3>2. e \in ServerType
      BY <2>1, Zenon DEF ServerType
    <3>3. /\ e.status = server[t].status /\ e.name = server[t].name /\ e.ip = server[t].ip
          /\ e.sock = server[t].sock /\ e.out = server[t].out /\ e.peer = server[t].peer
          /\ e.accepted = server[t].accepted
      BY <2>1 DEF ServerType
    <3>4. e.unasked
      BY <2>1 DEF ServerType
    <3> HIDE DEF e
    <3>5. Addressed(e)
      BY <2>1, <3>3 DEF Addressed
    <3> QED
      BY <3>1, <3>2, <3>3, <3>4, <3>5 DEF Stuck
  <2>3. CASE ~Waits(t)
    <3>1. server'[t] = server[t] /\ ~WaitsR(server[t])
      BY <1>1, <2>3 DEF Waits, WaitsR
    <3> QED
      BY <2>1, <3>1
  <2> QED
    BY <2>2, <2>3
<1>3. server' \in [Servers -> ServerType]
  <2>1. server' = [t \in Servers |-> server'[t]]
    BY <1>1
  <2> QED
    BY <1>2, <2>1
<1>4. NamedServers' = NamedServers
  BY <1>2 DEF NamedServers, Live, Named
<1>5. Asks'
  BY <1>2 DEF Asks
<1>6. OriginChecked'
  BY <1>1 DEF LinkInv, OriginChecked
<1>7. queries' \in Seq(Names) /\ asked' \in Seq(Names)
  BY <1>1, EmptySet
<1>8. resolver' \in BOOLEAN
  BY <1>1, Zenon
<1> QED
  BY <1>1, <1>2, <1>3, <1>4, <1>5, <1>6, <1>7, <1>8 DEF LinkInv

\* Resolver::onPacketReceived: whoever else waits with that name is robbed.
LEMMA AnswerKeeps ==
  ASSUME LinkInv, Answer
  PROVE  LinkInv'
<1> DEFINE n == Head(asked)
           Other(s, t) == t # s /\ server[t].name = n /\ Waits(t)
<1>1. /\ asked # <<>> /\ asked' = Tail(asked)
      /\ UNCHANGED <<resolver, queries, sm, handed, heard>>
  BY DEF Answer
<1>2. /\ asked' \in Seq(Names) /\ n \in Names
      /\ \A m \in Questions : m # n => m \in Questions'
  BY <1>1, TailSeq DEF LinkInv, Questions
<1>3. \A t \in Servers : WaitsR(server[t]) => t \in NamedServers
  BY IsNamed DEF WaitsR
<1>4. OriginChecked'
  BY <1>1 DEF LinkInv, OriginChecked
<1>5. CASE getServer(n) = {} /\ UNCHANGED <<server, hash>>
  <2>1. \A t \in Servers : WaitsR(server[t]) => server[t].name # n
    BY <1>3, <1>5, GetServer DEF LinkInv
  <2>2. Asks'
    BY <1>2, <1>5, <2>1 DEF LinkInv, Asks
  <2>3. NamedServers' = NamedServers
    BY <1>5 DEF NamedServers, Live, Named
  <2> QED
    BY <1>1, <1>2, <1>4, <1>5, <2>2, <2>3 DEF LinkInv
<1>6. ASSUME NEW s \in getServer(n), NEW ip \in {Address[n], NoIP},
             NEW r \in OnResolved(Told(server[s]), ip),
             server' = [t \in Servers |->
                          IF t = s THEN r
                          ELSE IF Other(s, t) THEN [server[t] EXCEPT !.robbed = TRUE]
                          ELSE server[t]],
             hash' = IF r = Gone THEN Forget(s) ELSE hash
      PROVE  LinkInv'
  <2>1. s \in NamedServers /\ s \in Servers /\ server[s].name = n
    BY GetServer DEF LinkInv
  <2>2. Good(server[s]) /\ server[s].status # "gone"
    BY <2>1 DEF LinkInv, Good, NamedServers, Live
  <2>3. /\ Good(r) /\ ~WaitsR(r)
        /\ r # Gone => r.name = n /\ r.status \notin {"gone", "HELLO_WAIT"}
    <3>1. /\ Good(Told(server[s])) /\ Told(server[s]).name = n
          /\ Told(server[s]).status # "gone"
      BY <2>1, <2>2, ToldGood
    <3> QED
      BY <1>2, <3>1, ResolvedGood
  <2>4. server'[s] = r
    BY <1>6, <2>1
  <2>5. ASSUME NEW t \in Servers, t # s
        PROVE  /\ server'[t] \in ServerType /\ Addressed(server'[t])
               /\ server'[t].status = server[t].status /\ server'[t].name = server[t].name
               /\ WaitsR(server'[t]) /\ ~Stuck(server'[t]) =>
                    WaitsR(server[t]) /\ ~Stuck(server[t]) /\ server[t].name # n
    <3>1. server[t] \in ServerType /\ Addressed(server[t])
      BY DEF LinkInv
    <3>2. CASE Other(s, t)
      <4> DEFINE e == [server[t] EXCEPT !.robbed = TRUE]
      <4>1. server'[t] = e
        BY <1>6, <2>5, <3>2
      <4>2. e \in ServerType
        BY <3>1, Zenon DEF ServerType
      <4>3. /\ e.status = server[t].status /\ e.name = server[t].name /\ e.ip = server[t].ip
            /\ e.sock = server[t].sock /\ e.out = server[t].out /\ e.peer = server[t].peer
            /\ e.accepted = server[t].accepted
        BY <3>1 DEF ServerType
      <4>4. e.robbed
        BY <3>1 DEF ServerType
      <4> HIDE DEF e
      <4>5. Addressed(e)
        BY <3>1, <4>3 DEF Addressed
      <4> QED
        BY <4>1, <4>2, <4>3, <4>4, <4>5 DEF Stuck
    <3>3. CASE ~Other(s, t)
      <4>1. server'[t] = server[t]
        BY <1>6, <2>5, <3>3
      <4>2. WaitsR(server[t]) => server[t].name # n
        BY <2>5, <3>3 DEF Waits, WaitsR
      <4> QED
        BY <3>1, <4>1, <4>2
    <3> QED
      BY <3>2, <3>3
  <2>6. server' \in [Servers -> ServerType]
    <3>1. \A t \in Servers : server'[t] \in ServerType
      BY <2>3, <2>4, <2>5 DEF Good
    <3>2. server' = [t \in Servers |-> server'[t]]
      BY <1>6
    <3> QED
      BY <3>1, <3>2
  <2>7. \A t \in Servers : Addressed(server'[t])
    BY <2>3, <2>4, <2>5 DEF Good
  <2>8. Asks'
    <3>1. ASSUME NEW t \in Servers, WaitsR(server'[t]), ~Stuck(server'[t])
          PROVE  server'[t].name \in Questions'
      <4>1. t # s
        BY <2>3, <2>4, <3>1
      <4>2. WaitsR(server[t]) /\ ~Stuck(server[t]) /\ server[t].name # n
            /\ server'[t].name = server[t].name
        BY <2>5, <3>1, <4>1
      <4> QED
        BY <1>2, <4>2 DEF LinkInv, Asks
    <3> QED
      BY <3>1 DEF Asks
  <2>9. Chain(Servers, hash', NamedServers')
    <3>1. CASE r = Gone
      <4>1. NamedServers' = NamedServers \ {s}
        BY <2>4, <2>5, <3>1 DEF NamedServers, Live, Named, Gone
      <4> QED
        BY <1>6, <2>1, <3>1, <4>1, RemoveChain DEF LinkInv, Forget
    <3>2. CASE r # Gone
      <4>1. r.name # NoName /\ r.status # "gone"
        BY <1>2, <2>3, <3>2, ConstantTypes
      <4>2. NamedServers' = NamedServers
        BY <2>1, <2>4, <2>5, <4>1 DEF NamedServers, Live, Named
      <4> QED
        BY <1>6, <3>2, <4>2 DEF LinkInv
    <3> QED
      BY <3>1, <3>2
  <2> QED
    BY <1>1, <1>2, <1>4, <2>6, <2>7, <2>8, <2>9 DEF LinkInv
<1> QED
  BY <1>5, <1>6 DEF Answer

LEMMA SocketKeeps ==
  ASSUME LinkInv, NEW s \in Servers,
         OnSocketConnect(s) \/ OnSocketTimeout(s) \/ OnSocketClose(s) \/ OnHelloReply(s)
  PROVE  LinkInv'
<1> DEFINE r == server[s]
<1>1. r \in ServerType /\ Addressed(r)
  BY DEF LinkInv
<1>2. CASE OnSocketConnect(s)
  <2>1. /\ r.status = "NOT_CONN" /\ s \in NamedServers
        /\ r.ip = Address[r.name] /\ r.peer = Address[r.name]
    BY <1>1, <1>2, IsNamed DEF OnSocketConnect, Addressed
  <2>2. /\ Good(Connected(r)) /\ ~WaitsR(Connected(r))
        /\ Connected(r).name = r.name /\ Connected(r).status = "HELLO_REPLY"
    BY <1>1, <2>1, ConnectedGood
  <2>3. r.name # NoName
    BY <2>1 DEF NamedServers, Named
  <2>4. Becomes(s, Connected(r)) /\ UNCHANGED <<resVars, sm, handed, heard>>
    BY <1>2 DEF OnSocketConnect
  <2> QED
    BY <2>1, <2>2, <2>3, <2>4, OneGoesOn
<1>3. CASE OnSocketTimeout(s) \/ OnSocketClose(s)
  <2>1. Becomes(s, Gone) /\ UNCHANGED <<resVars, sm, handed, heard>>
    BY <1>3 DEF OnSocketTimeout, OnSocketClose
  <2> QED
    BY <2>1, GoneGood, OneGoesOn
<1>4. CASE OnHelloReply(s)
  <2> DEFINE e == Flush(r)
  <2>1. r.status = "HELLO_REPLY" /\ s \in NamedServers /\ r.name # NoName
    BY <1>1, <1>4, IsNamed DEF OnHelloReply, NamedServers, Named
  <2>2. Good(e) /\ ~WaitsR(e) /\ e.name = r.name /\ e.status = "CONNECTED"
    BY <1>1, <2>1, FlushGood DEF Good
  <2>3. server' = [server EXCEPT ![s] = e] /\ UNCHANGED <<hash, resVars, sm, handed, heard>>
    BY <1>4 DEF OnHelloReply
  <2> HIDE DEF e
  <2>4. e # Gone
    BY <2>2 DEF Gone
  <2>5. Becomes(s, e)
    BY <2>3, <2>4 DEF Becomes
  <2> QED
    BY <2>1, <2>2, <2>3, <2>5, OneGoesOn
<1> QED
  BY <1>2, <1>3, <1>4

\* onSocketWrite
LEMMA WriteKeeps ==
  ASSUME LinkInv, NEW s \in Servers, Write(s)
  PROVE  LinkInv'
<1> DEFINE r == server[s]
           p == Head(r.out)
           sent == IF p[1] = "S2S_DELIVER" THEN Append(r.sent, p[2]) ELSE r.sent
           e == [r EXCEPT !.out = Tail(@), !.sent = sent]
<1>1. r \in ServerType /\ Addressed(r) /\ r.out # <<>>
  BY DEF LinkInv, Write
<1>2. r.out \in Seq(Outgoing) /\ r.sent \in Seq(Packets)
  BY <1>1 DEF ServerType
<1>3. r.status \notin {"gone", "NOT_CONN", "HELLO_WAIT", "AUTH"}
  BY <1>1 DEF Addressed
<1>4. s \in NamedServers /\ r.name # NoName
  BY <1>3, IsNamed DEF NamedServers, Named
<1>5. p \in Outgoing
  BY <1>1, <1>2
<1>6. sent \in Seq(Packets)
  <2>1. p[1] = "S2S_DELIVER" => p[2] \in Packets
    BY <1>5 DEF Outgoing, Hello, HelloReply, Deliver
  <2> HIDE DEF p
  <2> QED
    BY <1>2, <2>1
<1>7. /\ Tail(r.out) \in Seq(Outgoing) /\ Len(Tail(r.out)) <= SendBuf
  <2>1. Len(Tail(r.out)) = Len(r.out) - 1 /\ Len(r.out) \in Nat /\ Len(r.out) <= SendBuf
    BY <1>1, <1>2 DEF Addressed
  <2> QED
    BY <1>1, <1>2, <2>1, Room
<1>8. server' = [server EXCEPT ![s] = e] /\ UNCHANGED <<hash, resVars, sm, handed, heard>>
  BY DEF Write
<1> HIDE DEF sent, p
<1>9. e \in ServerType
  BY <1>1, <1>6, <1>7, Zenon DEF ServerType
<1>10. /\ e.status = r.status /\ e.name = r.name /\ e.ip = r.ip /\ e.sock = r.sock
       /\ e.out = Tail(r.out) /\ e.peer = r.peer /\ e.accepted = r.accepted
  BY <1>1 DEF ServerType
<1> HIDE DEF e
<1>11. Good(e) /\ ~WaitsR(e) /\ e.status # "gone" /\ e.name # NoName
  BY <1>1, <1>3, <1>4, <1>7, <1>9, <1>10 DEF Good, Addressed, WaitsR
<1>12. e # Gone
  BY <1>11 DEF Gone
<1>13. Becomes(s, e)
  BY <1>8, <1>12 DEF Becomes
<1> QED
  BY <1>4, <1>8, <1>11, <1>13, OneGoesOn

\* ListenSocket::onSocketRead
LEMMA AcceptKeeps ==
  ASSUME LinkInv, NEW s \in Servers, Accept(s)
  PROVE  LinkInv'
<1>0. PICK peer \in Ips : server' = [server EXCEPT ![s] =
        [Gone EXCEPT !.status = "HELLO_WAIT", !.sock = "up", !.ip = Local,
                     !.peer = peer, !.accepted = TRUE]]
  BY DEF Accept
<1> DEFINE r == [Gone EXCEPT !.status = "HELLO_WAIT", !.sock = "up", !.ip = Local,
                             !.peer = peer, !.accepted = TRUE]
<1>1. server' = [server EXCEPT ![s] = r] /\ UNCHANGED <<hash, resVars, sm, handed, heard>>
  BY <1>0 DEF Accept
<1>2. r \in ServerType
  BY GoneGood, ConstantTypes, Zenon DEF Good, ServerType, Status
<1>3. /\ r.status = "HELLO_WAIT" /\ r.name = NoName /\ r.sock = "up" /\ r.out = <<>>
      /\ r.accepted /\ r.ip = Local
  BY DEF Gone
<1> HIDE DEF r
<1>4. Len(r.out) <= SendBuf
  <2>1. Len(r.out) = Len(<<>>)
    BY <1>3
  <2> QED
    BY <2>1, Room
<1>5. Good(r) /\ ~WaitsR(r)
  BY <1>2, <1>3, <1>4 DEF Good, Addressed, WaitsR
<1>6. s \notin NamedServers
  BY DEF Accept, NamedServers
<1>7. NamedServers' = NamedServers
  BY <1>1, <1>3, <1>6, WhoIsNamed
<1>8. Chain(Servers, hash', NamedServers')
  BY <1>1, <1>7 DEF LinkInv
<1>9. UNCHANGED <<resolver, queries, asked, sm, heard>> /\ Questions' = Questions
  BY <1>1 DEF resVars, Questions
<1> QED
  BY <1>1, <1>5, <1>8, <1>9, OneLink DEF LinkInv

\* Server::onHello
LEMMA HelloKeeps ==
  ASSUME LinkInv, NEW s \in Servers, NEW n \in Short, OnHello(s, n)
  PROVE  LinkInv'
<1> DEFINE r == server[s]
           e == [r EXCEPT !.name = n, !.status = "AUTH", !.unasked = ~CanAsk]
<1>1. r \in ServerType /\ Addressed(r) /\ r.status = "HELLO_WAIT"
  BY DEF LinkInv, OnHello
<1>2. /\ server' = [server EXCEPT ![s] = e] /\ queries' = resolve(n)
      /\ UNCHANGED <<resolver, asked, sm, handed, heard>>
  BY <1>1 DEF OnHello, LinkInv
<1>3. e \in ServerType
  <2>1. (~CanAsk) \in BOOLEAN
    OBVIOUS
  <2> QED
    BY <1>1, <2>1, Zenon DEF ServerType, Status
<1>4. /\ e.status = "AUTH" /\ e.name = n /\ e.ip = r.ip /\ e.sock = r.sock /\ e.out = r.out
      /\ e.peer = r.peer /\ e.accepted = r.accepted /\ e.unasked = ~CanAsk
  BY <1>1 DEF ServerType
<1> HIDE DEF e
<1>5. n # NoName /\ n \in Names
  BY ConstantTypes
<1>6. Good(e)
  BY <1>1, <1>3, <1>4, <1>5 DEF Good, Addressed
<1>7. s \notin NamedServers
  BY <1>1 DEF Addressed, NamedServers, Named
<1>8. NamedServers' = NamedServers \cup {s}
  BY <1>2, <1>4, <1>5, WhoIsNamed
<1>9. Chain(Servers, hash', NamedServers')
  BY <1>7, <1>8, PutChain DEF LinkInv, OnHello
<1>10. queries' \in Seq(Names) /\ Questions \subseteq Questions' /\ (CanAsk => n \in Questions')
  BY <1>2, <1>5, ResolveAsks DEF LinkInv
<1>11. ~Stuck(e) => e.name \in Questions'
  BY <1>4, <1>10 DEF Stuck
<1> QED
  BY <1>2, <1>6, <1>9, <1>10, <1>11, OneLink DEF LinkInv

\* Server::onDeliver: only a Server that is CONNECTED is heard.
LEMMA DeliverKeeps ==
  ASSUME LinkInv, NEW s \in Servers, OnDeliver(s)
  PROVE  LinkInv'
<1>1. /\ server[s].status = "CONNECTED" /\ UNCHANGED <<server, hash, resVars, sm, handed>>
      /\ heard' = [name |-> server[s].name, peer |-> server[s].peer,
                   accepted |-> server[s].accepted]
  BY DEF OnDeliver
<1>2. /\ server[s].name \in Short /\ server[s].peer \in Ips /\ server[s].accepted \in BOOLEAN
  BY <1>1, IsNamed DEF LinkInv, ServerType
<1>3. /\ server[s].ip = Address[server[s].name]
      /\ server[s].accepted \/ server[s].peer = Address[server[s].name]
      /\ server[s].accepted => server[s].ip = Local
  BY <1>1 DEF LinkInv, Addressed
<1>4. OriginChecked'
  <2>1. /\ heard'.name = server[s].name /\ heard'.peer = server[s].peer
        /\ heard'.accepted = server[s].accepted
    BY <1>1
  <2> QED
    BY <1>2, <1>3, <2>1 DEF OriginChecked
<1>5. NamedServers' = NamedServers /\ Asks'
  BY <1>1 DEF NamedServers, Live, Named, LinkInv, Asks, Questions, resVars
<1>6. heard' \in [name : Short \cup {NoName}, peer : Ips, accepted : BOOLEAN]
  BY <1>1, <1>2
<1> QED
  BY <1>1, <1>4, <1>5, <1>6 DEF LinkInv, resVars

LEMMA LinkNext == LinkInv /\ [Next]_vars => LinkInv'
<1> SUFFICES ASSUME LinkInv, [Next]_vars
             PROVE  LinkInv'
  OBVIOUS
<1>1. ASSUME UNCHANGED <<server, hash, resVars, handed, heard>>, sm' \in BOOLEAN
      PROVE  LinkInv'
  <2>1. NamedServers' = NamedServers /\ Asks' /\ OriginChecked'
    BY <1>1 DEF NamedServers, Live, Named, LinkInv, Asks, OriginChecked, Questions, resVars
  <2> QED
    BY <1>1, <2>1 DEF LinkInv, resVars
<1>2. CASE SmConnects \/ SmCloses
  BY <1>1, <1>2 DEF SmConnects, SmCloses
<1>3. ASSUME NEW n \in Names, SmPacket(n)
      PROVE  LinkInv'
  BY <1>3, SmPacketKeeps
<1>4. CASE Answer \/ Ask \/ ResolverCloses
  BY <1>4, AnswerKeeps, AskKeeps, ResolverClosesKeeps
<1>5. ASSUME NEW s \in Servers,
             OnSocketConnect(s) \/ OnSocketTimeout(s) \/ OnSocketClose(s) \/ OnHelloReply(s)
      PROVE  LinkInv'
  BY <1>5, SocketKeeps
<1>6. ASSUME NEW s \in Servers, Write(s)
      PROVE  LinkInv'
  BY <1>6, WriteKeeps
<1>7. ASSUME NEW s \in Servers, Accept(s)
      PROVE  LinkInv'
  BY <1>7, AcceptKeeps
<1>8. ASSUME NEW s \in Servers, OnDeliver(s)
      PROVE  LinkInv'
  BY <1>8, DeliverKeeps
<1>9. ASSUME NEW s \in Servers, NEW n \in Short, OnHello(s, n)
      PROVE  LinkInv'
  BY <1>9, HelloKeeps
<1>10. CASE UNCHANGED vars
  BY <1>1, <1>10 DEF vars, LinkInv
<1> QED
  BY <1>2, <1>3, <1>4, <1>5, <1>6, <1>7, <1>8, <1>9, <1>10 DEF Next

-----------------------------------------------------------------------------
LEMMA LinkInvariant == Spec => []LinkInv
BY LinkInit, LinkNext, PTL DEF Spec

\* The Servers, the chain, the questions and the history have their types.
THEOREM TypeCorrect == Spec => []TypeOK
<1>1. LinkInv => TypeOK
  BY DEF LinkInv, TypeOK, Chain, ServerType, Packets, Outgoing
<1> QED
  BY <1>1, LinkInvariant, PTL

\* What is passed to sm as coming from users of a server came over a link that we
\* have opened to the address the resolver gave for that name, or over an accepted
\* one whose name is of our own address (onResolved, onDeliver): however answers,
\* hellos and connections for the same name cross, no link passes packets under a
\* name for which its address was not checked.
THEOREM OriginAlwaysChecked == Spec => []OriginChecked
BY LinkInvariant, PTL DEF LinkInv

\* A Server that waits for its address can be found when the answer comes and has
\* a question under way, unless the answer went to a newer Server of the same name
\* or the question was dropped, lost with the resolver or asked for a longer name
\* (resolve, onPacketReceived of Resolver): no link is forgotten for another reason.
THEOREM AnswerAlwaysComes == Spec => []AnswerComes
<1>1. LinkInv => AnswerComes
  <2> SUFFICES ASSUME LinkInv
               PROVE  AnswerComes
    OBVIOUS
  <2>1. IsInjective(hash) /\ ToSet(hash) = {s \in Servers : Live(s) /\ Named(s)}
    BY DEF LinkInv, Chain, NamedServers
  <2>2. \A s \in Servers : Live(s) => (Named(s) <=> server[s].status # "HELLO_WAIT")
    BY DEF LinkInv, Addressed, Live, Named
  <2>3. \A s \in Servers :
          Waits(s) /\ ~server[s].robbed /\ ~server[s].unasked =>
            server[s].name \in ToSet(queries) \cup ToSet(asked)
    BY DEF LinkInv, Asks, Waits, WaitsR, Stuck, Questions
  <2> QED
    BY <2>1, <2>2, <2>3 DEF AnswerComes, HashExact
<1> QED
  BY <1>1, LinkInvariant, PTL

-----------------------------------------------------------------------------
(***************************************************************************)
(* The order of the packets.                                               *)
(***************************************************************************)

Hellos == {Hello, HelloReply}
Sorted(s) == \A i, j \in DOMAIN s : i < j => s[i] < s[j]

\* The packets of sm in a send buffer, and those that a link has been given for
\* its send buffer.
Buffered(out) == {n \in Packets : \E i \in DOMAIN out : out[i] = Deliver(n)}
Line(sent, out) == ToSet(sent) \cup Buffered(out)

\* Packets leave the link in the order of their numbers.
InLine(sent, out) ==
  /\ Sorted(sent)
  /\ \A m, n \in Packets : \A i, j \in DOMAIN out :
       out[i] = Deliver(m) /\ out[j] = Deliver(n) /\ i < j => m < n
  /\ \A m \in ToSet(sent), n \in Buffered(out) : m < n

\* Each packet that a Server was given is in one place: on the link, in the queue,
\* or refused.  The queue of a link that we opened is empty once it is accepted.
Placed(r) ==
  /\ InLine(r.sent, r.out) /\ Sorted(r.packetList)
  /\ r.given = Line(r.sent, r.out) \cup ToSet(r.packetList) \cup r.lost
  /\ ToSet(r.packetList) \cap (Line(r.sent, r.out) \cup r.lost) = {}
  /\ r.lost \cap Line(r.sent, r.out) = {}
  /\ r.status # "CONNECTED" => Line(r.sent, r.out) = {} /\ r.lost = {}
  /\ r.status = "CONNECTED" /\ ~r.accepted => r.packetList = <<>>
  /\ r.status \in {"HELLO_WAIT", "AUTH"} => r.accepted

\* And packets that come later have higher numbers.
AllPlaced == \A s \in Servers : Placed(server[s]) /\ \A n \in server[s].given : n <= handed

LEMMA DeliverOnce ==
  /\ \A m, n \in Packets : Deliver(m) = Deliver(n) => m = n
  /\ \A n \in Packets : Deliver(n) \notin Hellos /\ Deliver(n) \in Outgoing /\ Deliver(n)[2] = n
  /\ \A p \in Outgoing : p \in Hellos \/ \E n \in Packets : p = Deliver(n)
BY DEF Deliver, Hellos, Hello, HelloReply, Outgoing

\* A packet with a higher number than any before joins a queue.
LEMMA AppendSorted ==
  ASSUME NEW s \in Seq(Packets), Sorted(s), NEW n \in Packets, \A m \in ToSet(s) : m < n
  PROVE  /\ Append(s, n) \in Seq(Packets) /\ Sorted(Append(s, n))
         /\ ToSet(Append(s, n)) = ToSet(s) \cup {n}
<1> DEFINE t == Append(s, n)
<1>1. /\ DOMAIN s = 1 .. Len(s) /\ Len(s) \in Nat
      /\ t \in Seq(Packets) /\ DOMAIN t = 1 .. Len(s) + 1
      /\ t[Len(s) + 1] = n /\ \A i \in DOMAIN s : t[i] = s[i]
  OBVIOUS
<1> HIDE DEF t
<1>2. \A i \in DOMAIN s : s[i] \in Packets /\ s[i] < n
  BY DEF ToSet
<1>3. ASSUME NEW i \in DOMAIN t, NEW j \in DOMAIN t, i < j
      PROVE  t[i] < t[j]
  <2>1. i \in DOMAIN s
    BY <1>1, <1>3
  <2>2. CASE j \in DOMAIN s
    BY <1>1, <1>3, <2>1, <2>2 DEF Sorted
  <2>3. CASE j = Len(s) + 1
    BY <1>1, <1>2, <2>1, <2>3
  <2> QED
    BY <1>1, <2>2, <2>3
<1>4. ToSet(t) = ToSet(s) \cup {n}
  <2>1. \A i \in DOMAIN t : i \in DOMAIN s \/ i = Len(s) + 1
    BY <1>1
  <2>2. \A i \in DOMAIN s : i \in DOMAIN t
    BY <1>1
  <2>3. Len(s) + 1 \in DOMAIN t
    BY <1>1
  <2> QED
    BY <1>1, <2>1, <2>2, <2>3 DEF ToSet
<1> QED
  BY <1>1, <1>3, <1>4 DEF t, Sorted

\* One packet joins a send buffer: it is the newest, or a hello.
LEMMA AppendInLine ==
  ASSUME NEW sent \in Seq(Packets), NEW out \in Seq(Outgoing), InLine(sent, out)
  PROVE  /\ \A n \in Packets : (\A m \in Line(sent, out) : m < n) =>
              /\ InLine(sent, Append(out, Deliver(n)))
              /\ Line(sent, Append(out, Deliver(n))) = Line(sent, out) \cup {n}
         /\ \A p \in Hellos :
              /\ InLine(sent, Append(out, p))
              /\ Line(sent, Append(out, p)) = Line(sent, out)
<1>1. \A p : /\ DOMAIN out = 1 .. Len(out) /\ Len(out) \in Nat
             /\ DOMAIN Append(out, p) = 1 .. Len(out) + 1
             /\ Append(out, p)[Len(out) + 1] = p
             /\ \A i \in DOMAIN out : i \in 1 .. Len(out) + 1 /\ Append(out, p)[i] = out[i]
  OBVIOUS
<1>2. ASSUME NEW n \in Packets, \A m \in Line(sent, out) : m < n
      PROVE  /\ InLine(sent, Append(out, Deliver(n)))
             /\ Line(sent, Append(out, Deliver(n))) = Line(sent, out) \cup {n}
  <2> DEFINE o == Append(out, Deliver(n))
  <2>1. /\ DOMAIN out = 1 .. Len(out) /\ Len(out) \in Nat /\ DOMAIN o = 1 .. Len(out) + 1
        /\ o[Len(out) + 1] = Deliver(n)
        /\ \A i \in DOMAIN out : i \in DOMAIN o /\ o[i] = out[i]
    BY <1>1
  <2> HIDE DEF o
  <2>2. \A i \in DOMAIN o : i \in DOMAIN out \/ i = Len(out) + 1
    BY <2>1
  <2>3. Len(out) + 1 \in DOMAIN o
    BY <2>1
  <2>4. Buffered(o) = Buffered(out) \cup {n}
    BY <2>1, <2>2, <2>3, DeliverOnce DEF Buffered
  <2>5. \A m \in ToSet(sent) \cup Buffered(out) : m < n
    BY <1>2 DEF Line
  <2>6. ASSUME NEW m \in Packets, NEW k \in Packets, NEW i \in DOMAIN o, NEW j \in DOMAIN o,
               o[i] = Deliver(m), o[j] = Deliver(k), i < j
        PROVE  m < k
    <3>1. i \in DOMAIN out
      BY <2>1, <2>6
    <3>2. CASE j \in DOMAIN out
      BY <2>1, <2>6, <3>1, <3>2 DEF InLine
    <3>3. CASE j = Len(out) + 1
      <4>1. k = n
        BY <2>1, <2>6, <3>3, DeliverOnce
      <4>2. m \in Buffered(out)
        BY <2>1, <2>6, <3>1 DEF Buffered
      <4> QED
        BY <2>5, <4>1, <4>2
    <3> QED
      BY <2>2, <3>2, <3>3
  <2>7. InLine(sent, o)
    BY <2>4, <2>5, <2>6 DEF InLine
  <2> QED
    BY <2>4, <2>7 DEF o, Line
<1>3. ASSUME NEW p \in Hellos
      PROVE  InLine(sent, Append(out, p)) /\ Line(sent, Append(out, p)) = Line(sent, out)
  <2> DEFINE o == Append(out, p)
  <2>1. /\ DOMAIN out = 1 .. Len(out) /\ Len(out) \in Nat /\ DOMAIN o = 1 .. Len(out) + 1
        /\ o[Len(out) + 1] = p
        /\ \A i \in DOMAIN out : i \in DOMAIN o /\ o[i] = out[i]
    BY <1>1
  <2> HIDE DEF o
  <2>2. \A i \in DOMAIN o : i \in DOMAIN out \/ i = Len(out) + 1
    BY <2>1
  <2>3. \A n \in Packets, i \in DOMAIN o : o[i] = Deliver(n) => i \in DOMAIN out /\ out[i] = Deliver(n)
    BY <1>3, <2>1, <2>2, DeliverOnce
  <2>4. Buffered(o) = Buffered(out)
    BY <2>1, <2>3 DEF Buffered
  <2>5. InLine(sent, o)
    BY <2>3, <2>4 DEF InLine
  <2> QED
    BY <2>4, <2>5 DEF o, Line
<1> QED
  BY <1>2, <1>3

\* A queue joins a send buffer that holds none of its kind.
LEMMA QueueInLine ==
  ASSUME NEW sent \in Seq(Packets), NEW out \in Seq(Outgoing), Line(sent, out) = {},
         NEW q \in Seq(Packets), Sorted(q), NEW n \in 0 .. Len(q)
  PROVE  LET o == out \o [i \in 1 .. n |-> Deliver(q[i])]
         IN InLine(sent, o) /\ Line(sent, o) = {q[i] : i \in 1 .. n}
<1> DEFINE new == [i \in 1 .. n |-> Deliver(q[i])]
           o == out \o new
<1>1. /\ Len(q) \in Nat /\ DOMAIN q = 1 .. Len(q) /\ n \in Nat /\ n <= Len(q)
      /\ \A i \in 1 .. n : i \in DOMAIN q /\ q[i] \in Packets
  OBVIOUS
<1>2. new \in Seq(Outgoing) /\ Len(new) = n /\ \A i \in 1 .. n : new[i] = Deliver(q[i])
  <2>1. \A i \in 1 .. n : Deliver(q[i]) \in Outgoing
    BY <1>1, DeliverOnce
  <2> QED
    BY <1>1, <2>1
<1> HIDE DEF new
<1>3. /\ o \in Seq(Outgoing) /\ Len(o) = Len(out) + n /\ Len(out) \in Nat
      /\ \A i \in 1 .. Len(out) + n :
           o[i] = IF i <= Len(out) THEN out[i] ELSE new[i - Len(out)]
  <2>1. /\ o \in Seq(Outgoing) /\ Len(o) = Len(out) + Len(new)
        /\ \A i \in 1 .. Len(out) + Len(new) :
             o[i] = IF i <= Len(out) THEN out[i] ELSE new[i - Len(out)]
    BY <1>2, ConcatProperties, Zenon
  <2>2. Len(out) \in Nat
    OBVIOUS
  <2> HIDE DEF o
  <2> QED
    BY <1>2, <2>1, <2>2
<1>4. DOMAIN o = 1 .. Len(out) + n /\ DOMAIN out = 1 .. Len(out)
  BY <1>3
<1> HIDE DEF o
<1>5. ToSet(sent) = {} /\ Buffered(out) = {}
  BY DEF Line
<1>6. ASSUME NEW m \in Packets, NEW i \in DOMAIN o, o[i] = Deliver(m)
      PROVE  i - Len(out) \in 1 .. n /\ m = q[i - Len(out)]
  <2>1. CASE i <= Len(out)
    <3>1. i \in DOMAIN out /\ out[i] = Deliver(m)
      BY <1>3, <1>4, <1>6, <2>1
    <3> QED
      BY <1>5, <3>1 DEF Buffered
  <2>2. CASE i > Len(out)
    <3>1. i - Len(out) \in 1 .. n
      BY <1>3, <1>4, <2>2
    <3>2. o[i] = new[i - Len(out)]
      BY <1>3, <1>4, <2>2
    <3>3. Deliver(q[i - Len(out)]) = Deliver(m) /\ q[i - Len(out)] \in Packets
      BY <1>1, <1>2, <1>6, <3>1, <3>2, Zenon
    <3>4. q[i - Len(out)] = m
      BY <3>3, DeliverOnce, Zenon
    <3> QED
      BY <3>1, <3>4, Zenon
  <2> QED
    BY <1>3, <1>4, <2>1, <2>2
<1>7. ASSUME NEW i \in 1 .. n
      PROVE  q[i] \in Buffered(o)
  <2>1. Len(out) + i \in DOMAIN o /\ o[Len(out) + i] = new[i]
    <3>1. Len(out) + i \in 1 .. Len(out) + n /\ ~(Len(out) + i <= Len(out))
          /\ (Len(out) + i) - Len(out) = i
      BY <1>1, <1>3
    <3> QED
      BY <1>3, <1>4, <3>1
  <2> QED
    BY <1>1, <1>2, <2>1 DEF Buffered
<1>8. Buffered(o) = {q[i] : i \in 1 .. n}
  BY <1>1, <1>6, <1>7 DEF Buffered
<1>9. ASSUME NEW m \in Packets, NEW k \in Packets, NEW i \in DOMAIN o, NEW j \in DOMAIN o,
             o[i] = Deliver(m), o[j] = Deliver(k), i < j
      PROVE  m < k
  <2>1. /\ i - Len(out) \in 1 .. n /\ m = q[i - Len(out)]
        /\ j - Len(out) \in 1 .. n /\ k = q[j - Len(out)]
    BY <1>6, <1>9
  <2>2. i - Len(out) < j - Len(out)
    BY <1>3, <1>4, <1>9
  <2> QED
    BY <1>1, <2>1, <2>2 DEF Sorted
<1>10. InLine(sent, o)
  BY <1>5, <1>9 DEF InLine, Sorted, ToSet
<1> QED
  BY <1>5, <1>8, <1>10 DEF Line, o, new

\* The oldest packet leaves the send buffer.
LEMMA TailInLine ==
  ASSUME NEW sent \in Seq(Packets), NEW out \in Seq(Outgoing), InLine(sent, out), out # <<>>
  PROVE  /\ Head(out) \in Hellos =>
              InLine(sent, Tail(out)) /\ Line(sent, Tail(out)) = Line(sent, out)
         /\ \A n \in Packets : Head(out) = Deliver(n) =>
              /\ InLine(Append(sent, n), Tail(out))
              /\ Line(Append(sent, n), Tail(out)) = Line(sent, out)
<1> DEFINE o == Tail(out)
<1>1. /\ Len(out) \in Nat \ {0} /\ DOMAIN out = 1 .. Len(out) /\ Head(out) = out[1]
      /\ o \in Seq(Outgoing) /\ DOMAIN o = 1 .. Len(out) - 1
      /\ \A i \in 1 .. Len(out) - 1 : o[i] = out[i + 1]
  OBVIOUS
<1> HIDE DEF o
<1>2. \A i \in DOMAIN o : i + 1 \in DOMAIN out /\ o[i] = out[i + 1] /\ 1 < i + 1 /\ 1 \in DOMAIN out
  BY <1>1
<1>3. \A i \in DOMAIN out : i = 1 \/ (i - 1 \in DOMAIN o /\ o[i - 1] = out[i])
  <2>1. \A i \in DOMAIN out : i # 1 => i - 1 \in 1 .. Len(out) - 1 /\ (i - 1) + 1 = i
    BY <1>1
  <2> QED
    BY <1>1, <2>1
<1>4. ASSUME NEW m \in Packets, NEW k \in Packets, NEW i \in DOMAIN o, NEW j \in DOMAIN o,
             o[i] = Deliver(m), o[j] = Deliver(k), i < j
      PROVE  m < k
  <2>1. i + 1 < j + 1
    BY <1>1, <1>4
  <2> QED
    BY <1>2, <1>4, <2>1 DEF InLine
<1>5. CASE Head(out) \in Hellos
  <2>1. \A n \in Packets : out[1] # Deliver(n)
    BY <1>1, <1>5, DeliverOnce
  <2>2. Buffered(o) = Buffered(out)
    BY <1>2, <1>3, <2>1 DEF Buffered
  <2>3. InLine(sent, o)
    BY <1>4, <2>2 DEF InLine
  <2> QED
    BY <2>2, <2>3, <1>5, DeliverOnce DEF o, Line
<1>6. ASSUME NEW n \in Packets, Head(out) = Deliver(n)
      PROVE  /\ InLine(Append(sent, n), o)
             /\ Line(Append(sent, n), o) = Line(sent, out)
  <2>1. n \in Buffered(out)
    BY <1>1, <1>6 DEF Buffered
  <2>2. \A m \in ToSet(sent) : m < n
    BY <2>1 DEF InLine
  <2>3. Sorted(Append(sent, n)) /\ ToSet(Append(sent, n)) = ToSet(sent) \cup {n}
    BY <2>2, AppendSorted DEF InLine
  <2>4. \A m \in Buffered(o) : n < m /\ m \in Buffered(out)
    <3>1. SUFFICES ASSUME NEW m \in Packets, NEW i \in DOMAIN o, o[i] = Deliver(m)
                   PROVE  n < m /\ m \in Buffered(out)
      BY DEF Buffered
    <3>2. i + 1 \in DOMAIN out /\ 1 \in DOMAIN out /\ 1 < i + 1
          /\ out[i + 1] = Deliver(m) /\ out[1] = Deliver(n)
      BY <1>1, <1>2, <1>6, <3>1
    <3> QED
      BY <3>2 DEF InLine, Buffered
  <2>5. \A m \in Buffered(out) : m = n \/ m \in Buffered(o)
    BY <1>1, <1>3, <1>6, DeliverOnce DEF Buffered
  <2>6. \A m \in ToSet(sent), k \in Buffered(o) : m < k
    BY <2>4 DEF InLine
  <2>7. InLine(Append(sent, n), o)
    BY <1>4, <2>3, <2>4, <2>6 DEF InLine
  <2> QED
    BY <2>1, <2>3, <2>4, <2>5, <2>7 DEF Line
<1> QED
  BY <1>5, <1>6 DEF o

LEMMA GonePlaced == Placed(Gone) /\ Gone.given = {}
BY DEF Placed, Gone, InLine, Sorted, Line, Buffered, ToSet

\* A Server that keeps its packets, and is not accepted just now unless it is one
\* that connected to us.
LEMMA PlacedSame ==
  ASSUME NEW r, Placed(r), NEW e, e.sent = r.sent, e.out = r.out, e.packetList = r.packetList,
         e.given = r.given, e.lost = r.lost, e.accepted = r.accepted,
         e.status # "CONNECTED" => r.status # "CONNECTED",
         e.status \in {"HELLO_WAIT", "AUTH", "CONNECTED"} => r.accepted \/ e.status = r.status
  PROVE  Placed(e)
BY DEF Placed

\* A hello joins the send buffer of a Server that has become r.
LEMMA PutHelloPlaced ==
  ASSUME NEW r \in ServerType, Placed(r), Len(r.out) < SendBuf, NEW p \in Hellos
  PROVE  Placed(Put(r, p)) /\ Put(r, p).given = r.given
<1> DEFINE e == [r EXCEPT !.out = Append(r.out, p)]
<1>1. Put(r, p) = e
  BY DEF Put
<1>2. /\ e.sent = r.sent /\ e.out = Append(r.out, p) /\ e.packetList = r.packetList
      /\ e.given = r.given /\ e.lost = r.lost /\ e.accepted = r.accepted /\ e.status = r.status
  BY DEF ServerType
<1> HIDE DEF e
<1>3. r.sent \in Seq(Packets) /\ r.out \in Seq(Outgoing) /\ InLine(r.sent, r.out)
  BY DEF ServerType, Placed
<1>4. InLine(e.sent, e.out) /\ Line(e.sent, e.out) = Line(r.sent, r.out)
  BY <1>2, <1>3, AppendInLine
<1>5. Placed(e)
  BY <1>2, <1>4 DEF Placed
<1> QED
  BY <1>1, <1>2, <1>5

\* Server::deliver of the newest packet.
LEMMA DeliverPlaced ==
  ASSUME NEW r \in ServerType, Placed(r), NEW n \in Packets, \A m \in r.given : m < n
  PROVE  Placed(ServerDeliver(r, n)) /\ ServerDeliver(r, n).given = r.given \cup {n}
<1> DEFINE q == [r EXCEPT !.given = r.given \cup {n}]
           e == ServerDeliver(r, n)
<1>1. /\ q.sent = r.sent /\ q.out = r.out /\ q.packetList = r.packetList
      /\ q.given = r.given \cup {n} /\ q.lost = r.lost /\ q.accepted = r.accepted
      /\ q.status = r.status /\ DOMAIN q = DOMAIN r
  BY DEF ServerType
<1>2. e = SendDeliver(q, n)
  BY DEF ServerDeliver
<1>3. /\ r.sent \in Seq(Packets) /\ r.out \in Seq(Outgoing) /\ r.packetList \in Seq(Packets)
      /\ InLine(r.sent, r.out) /\ Sorted(r.packetList)
  BY DEF ServerType, Placed
<1>4. q \in ServerType
  <2>1. r.given \cup {n} \in SUBSET Packets
    BY DEF ServerType
  <2> QED
    BY <2>1, Zenon DEF ServerType
<1> DEFINE L == Line(r.sent, r.out)
           W == ToSet(r.packetList)
           G == r.given
           X == r.lost
<1>5. /\ G = L \cup W \cup X /\ W \cap (L \cup X) = {} /\ X \cap L = {}
      /\ r.status # "CONNECTED" => L = {} /\ X = {}
  BY DEF Placed
<1> HIDE DEF q, e, L, W, G, X
<1>6. n \notin G /\ \A m \in G : m < n
  BY DEF G, Packets
<1>7. (\A m \in L : m < n) /\ (\A m \in W : m < n)
  BY <1>5, <1>6
<1>8. CASE r.status # "CONNECTED"
  <2> DEFINE a == [q EXCEPT !.packetList = Append(r.packetList, n)]
  <2>1. e = a
    BY <1>1, <1>2, <1>8 DEF SendDeliver
  <2>2. /\ a.sent = r.sent /\ a.out = r.out /\ a.packetList = Append(r.packetList, n)
        /\ a.given = G \cup {n} /\ a.lost = X /\ a.accepted = r.accepted /\ a.status = r.status
    BY <1>1, <1>4 DEF ServerType, G, X
  <2> HIDE DEF a
  <2>3. Sorted(a.packetList) /\ ToSet(a.packetList) = W \cup {n}
    BY <1>3, <1>7, <2>2, AppendSorted DEF W
  <2>4. Line(a.sent, a.out) = L /\ InLine(a.sent, a.out)
    BY <1>3, <2>2 DEF L
  <2>5. Placed(a)
    BY <1>5, <1>6, <1>8, <2>2, <2>3, <2>4 DEF Placed
  <2> QED
    BY <2>1, <2>2, <2>5 DEF e, G
<1>9. CASE r.status = "CONNECTED" /\ Len(r.out) < SendBuf
  <2> DEFINE a == [q EXCEPT !.out = Append(r.out, Deliver(n))]
  <2>1. e = a
    BY <1>1, <1>2, <1>9 DEF SendDeliver, Put
  <2>2. /\ a.sent = r.sent /\ a.out = Append(r.out, Deliver(n)) /\ a.packetList = r.packetList
        /\ a.given = G \cup {n} /\ a.lost = X /\ a.accepted = r.accepted /\ a.status = r.status
    BY <1>1, <1>4 DEF ServerType, G, X
  <2> HIDE DEF a
  <2>3. Line(a.sent, a.out) = L \cup {n} /\ InLine(a.sent, a.out)
    BY <1>3, <1>7, <2>2, AppendInLine DEF L
  <2>4. Placed(a)
    BY <1>3, <1>5, <1>6, <1>9, <2>2, <2>3 DEF Placed, W
  <2> QED
    BY <2>1, <2>2, <2>4 DEF e, G
<1>10. CASE r.status = "CONNECTED" /\ ~(Len(r.out) < SendBuf)
  <2> DEFINE a == [q EXCEPT !.lost = X \cup {n}]
  <2>1. e = a
    <3>1. Deliver(n)[2] = n
      BY DeliverOnce
    <3> QED
      BY <1>1, <1>2, <1>10, <3>1 DEF SendDeliver, Put, X
  <2>2. /\ a.sent = r.sent /\ a.out = r.out /\ a.packetList = r.packetList
        /\ a.given = G \cup {n} /\ a.lost = X \cup {n} /\ a.accepted = r.accepted
        /\ a.status = r.status
    BY <1>1, <1>4 DEF ServerType, G
  <2> HIDE DEF a
  <2>3. Line(a.sent, a.out) = L /\ InLine(a.sent, a.out)
    BY <1>3, <2>2 DEF L
  <2>4. Placed(a)
    BY <1>3, <1>5, <1>6, <1>10, <2>2, <2>3 DEF Placed, W
  <2> QED
    BY <2>1, <2>2, <2>4 DEF e, G
<1> QED
  BY <1>8, <1>9, <1>10

\* Server::onSocketConnect
LEMMA ConnectedPlaced ==
  ASSUME NEW r \in ServerType, Placed(r), r.out = <<>>, r.status = "NOT_CONN"
  PROVE  Placed(Connected(r)) /\ Connected(r).given = r.given
<1> DEFINE c == [r EXCEPT !.sock = "up", !.status = "HELLO_REPLY"]
<1>1. c \in ServerType
  BY Zenon DEF ServerType, Status
<1>2. /\ c.sent = r.sent /\ c.out = <<>> /\ c.packetList = r.packetList
      /\ c.given = r.given /\ c.lost = r.lost /\ c.accepted = r.accepted
      /\ c.status = "HELLO_REPLY"
  BY DEF ServerType
<1>3. Connected(r) = Put(c, Hello)
  BY DEF Connected
<1> HIDE DEF c
<1>4. Placed(c)
  BY <1>2, PlacedSame
<1>5. Len(c.out) < SendBuf
  <2>1. Len(c.out) = Len(<<>>)
    BY <1>2
  <2> QED
    BY <2>1, Room
<1> QED
  BY <1>1, <1>2, <1>3, <1>4, <1>5, PutHelloPlaced DEF Hellos

\* Server::onResolved
LEMMA ResolvedPlaced ==
  ASSUME NEW r, Good(r), Placed(r), NEW ip \in Ips, NEW e \in OnResolved(r, ip)
  PROVE  Placed(e) /\ e.given \subseteq r.given
<1>1. r \in ServerType /\ Addressed(r)
  BY DEF Good
<1>2. CASE e = Gone
  BY <1>2, GonePlaced
<1>3. CASE e = r
  BY <1>3
<1>4. CASE r.status = "NOT_CONN" /\ e \in Connect(r, ip)
  <2>1. r.out = <<>>
    BY <1>1, <1>4 DEF Addressed
  <2>2. CASE e = Connected([r EXCEPT !.ip = ip, !.peer = ip])
    <3> DEFINE q == [r EXCEPT !.ip = ip, !.peer = ip]
    <3>1. q \in ServerType
      BY <1>1, Zenon DEF ServerType
    <3>2. /\ q.sent = r.sent /\ q.out = r.out /\ q.packetList = r.packetList
          /\ q.given = r.given /\ q.lost = r.lost /\ q.accepted = r.accepted
          /\ q.status = r.status
      BY <1>1 DEF ServerType
    <3>3. e = Connected(q)
      BY <2>2
    <3> HIDE DEF q
    <3>4. Placed(q)
      BY <3>2, PlacedSame
    <3> QED
      BY <1>4, <2>1, <3>1, <3>2, <3>3, <3>4, ConnectedPlaced
  <2>3. ASSUME NEW k \in {"pending", "failed"},
               e = [[r EXCEPT !.ip = ip, !.peer = ip] EXCEPT !.sock = k]
        PROVE  Placed(e) /\ e.given = r.given
    <3>1. /\ e.sent = r.sent /\ e.out = r.out /\ e.packetList = r.packetList
          /\ e.given = r.given /\ e.lost = r.lost /\ e.accepted = r.accepted
          /\ e.status = r.status
      BY <1>1, <2>3 DEF ServerType
    <3> QED
      BY <3>1, PlacedSame
  <2> QED
    BY <1>4, <2>2, <2>3 DEF Connect
<1>5. CASE r.status = "AUTH" /\ e = Put([r EXCEPT !.status = "CONNECTED"], HelloReply)
  <2> DEFINE c == [r EXCEPT !.status = "CONNECTED"]
  <2>1. c \in ServerType
    BY <1>1, Zenon DEF ServerType, Status
  <2>2. /\ c.sent = r.sent /\ c.out = r.out /\ c.packetList = r.packetList
        /\ c.given = r.given /\ c.lost = r.lost /\ c.accepted = r.accepted
        /\ c.status = "CONNECTED"
    BY <1>1 DEF ServerType
  <2>3. e = Put(c, HelloReply)
    BY <1>5
  <2> HIDE DEF c
  <2>4. r.accepted
    BY <1>5 DEF Placed
  <2>5. Placed(c)
    BY <1>5, <2>2, <2>4, PlacedSame
  <2>6. Len(c.out) < SendBuf
    <3>1. c.out = <<>>
      BY <1>1, <1>5, <2>2 DEF Addressed
    <3>2. Len(c.out) = Len(<<>>)
      BY <3>1
    <3> QED
      BY <3>2, Room
  <2> QED
    BY <2>1, <2>2, <2>3, <2>5, <2>6, PutHelloPlaced DEF Hellos
<1> QED
  BY <1>2, <1>3, <1>4, <1>5 DEF OnResolved

\* Server::onHelloReply: the packets of the queue that fit are on the link, the
\* others are refused.
LEMMA FlushPlaced ==
  ASSUME NEW r, Good(r), Placed(r), r.status = "HELLO_REPLY"
  PROVE  Placed(Flush(r)) /\ Flush(r).given = r.given
<1> DEFINE a == [r EXCEPT !.status = "CONNECTED", !.packetList = <<>>]
           q == r.packetList
           x == SendBuf - Len(r.out)
           n == Min({x, Len(q)})
           new == [i \in 1 .. n |-> Deliver(q[i])]
           rest == {q[i] : i \in n + 1 .. Len(q)}
           first == {q[i] : i \in 1 .. n}
           e == [a EXCEPT !.out = r.out \o new, !.lost = r.lost \cup rest]
<1>1. r \in ServerType /\ Addressed(r)
  BY DEF Good
<1>2. /\ a.out = r.out /\ a.lost = r.lost
  BY <1>1 DEF ServerType
<1>3. Flush(r) = e
  BY <1>2 DEF Flush, PutAll, Accepted
<1>4. /\ e.sent = r.sent /\ e.out = r.out \o new /\ e.packetList = <<>>
      /\ e.given = r.given /\ e.lost = r.lost \cup rest /\ e.accepted = r.accepted
      /\ e.status = "CONNECTED"
  BY <1>1 DEF ServerType
<1>5. /\ r.sent \in Seq(Packets) /\ r.out \in Seq(Outgoing) /\ q \in Seq(Packets)
      /\ Len(r.out) \in Nat /\ Len(r.out) <= SendBuf
  BY <1>1 DEF ServerType, Addressed
<1>6. /\ Sorted(q) /\ r.given = Line(r.sent, r.out) \cup ToSet(q) \cup r.lost
      /\ Line(r.sent, r.out) = {} /\ r.lost = {}
  BY DEF Placed
<1> HIDE DEF a, q, e
<1>7. n \in 0 .. Len(q)
  <2>1. x \in Nat /\ Len(q) \in Nat
    BY <1>5, Room
  <2> HIDE DEF x
  <2>2. Min({x, Len(q)}) \in {x, Len(q)} /\ \A y \in {x, Len(q)} : Min({x, Len(q)}) <= y
    BY <2>1, MinExists
  <2> QED
    BY <2>1, <2>2
<1> HIDE DEF n, x
<1>8. InLine(r.sent, r.out \o new) /\ Line(r.sent, r.out \o new) = first
  BY <1>5, <1>6, <1>7, QueueInLine
<1>9. ToSet(q) = first \cup rest /\ first \cap rest = {}
  <2>1. /\ DOMAIN q = 1 .. Len(q) /\ Len(q) \in Nat /\ n \in Nat /\ n <= Len(q)
        /\ \A i \in 1 .. Len(q) : q[i] \in Packets
    BY <1>5, <1>7
  <2>2. \A i \in 1 .. n, j \in n + 1 .. Len(q) :
          i \in DOMAIN q /\ j \in DOMAIN q /\ i < j
    BY <2>1
  <2>3. \A i \in 1 .. n, j \in n + 1 .. Len(q) : q[i] # q[j]
    <3>1. \A i \in 1 .. n, j \in n + 1 .. Len(q) : q[i] < q[j] /\ q[i] \in Int
      BY <1>6, <2>1, <2>2 DEF Sorted, Packets
    <3> QED
      BY <3>1
  <2>4. \A i \in DOMAIN q : i \in 1 .. n \/ i \in n + 1 .. Len(q)
    BY <2>1
  <2>5. \A i \in 1 .. n : i \in DOMAIN q
    BY <2>1
  <2>6. \A i \in n + 1 .. Len(q) : i \in DOMAIN q
    BY <2>1
  <2> QED
    BY <2>3, <2>4, <2>5, <2>6 DEF ToSet
<1> HIDE DEF new, rest, first
<1>10. Sorted(<<>>) /\ ToSet(<<>>) = {}
  BY DEF Sorted, ToSet
<1>11. Placed(e)
  BY <1>4, <1>6, <1>8, <1>9, <1>10 DEF Placed
<1> QED
  BY <1>3, <1>4, <1>11

\* One Server changes and the others keep their packets.
LEMMA PlacedNext ==
  ASSUME LinkInv, AllPlaced, NEW s \in Servers, NEW r, server' = [server EXCEPT ![s] = r],
         Placed(r), handed \in Nat, handed' \in Nat, handed <= handed',
         \A n \in r.given : n <= handed'
  PROVE  AllPlaced'
<1>1. server'[s] = r /\ \A t \in Servers \ {s} : server'[t] = server[t]
  BY DEF LinkInv
<1>2. \A t \in Servers : server[t].given \subseteq Packets
  BY DEF LinkInv, ServerType
<1>3. \A t \in Servers : \A n \in server[t].given : n \in Int
  BY <1>2 DEF Packets
<1> QED
  BY <1>1, <1>3 DEF AllPlaced

LEMMA PlacedStep ==
  ASSUME LinkInv, AllPlaced, [Next]_vars
  PROVE  AllPlaced'
<1>1. handed \in Nat /\ handed \in 0 .. MaxPackets
  BY Bound DEF LinkInv
<1>2. \A s \in Servers : Good(server[s]) /\ server[s] \in ServerType /\ Placed(server[s])
                         /\ \A n \in server[s].given : n <= handed
  BY DEF LinkInv, AllPlaced, Good
<1>3. ASSUME UNCHANGED <<server, handed>>
      PROVE  AllPlaced'
  BY <1>3 DEF AllPlaced
<1>4. ASSUME NEW s \in Servers, NEW r, server' = [server EXCEPT ![s] = r], handed' = handed,
             Placed(r), r.given \subseteq server[s].given
      PROVE  AllPlaced'
  <2>1. handed' \in Nat /\ handed <= handed'
    BY <1>1, <1>4
  <2>2. \A n \in r.given : n <= handed'
    BY <1>2, <1>4
  <2> QED
    BY <1>1, <1>4, <2>1, <2>2, PlacedNext
<1>5. ASSUME NEW n \in Names, SmPacket(n)
      PROVE  AllPlaced'
  <2> DEFINE h == handed + 1
  <2>1. handed' = h /\ handed < MaxPackets
    BY <1>5 DEF SmPacket
  <2>2. h \in Packets /\ h \in Nat /\ handed <= h /\ handed < h
    BY <1>1, <2>1, Bound DEF Packets
  <2>3. \A s \in Servers : \A m \in server[s].given : m < h
    <3>1. \A s \in Servers : \A m \in server[s].given : m \in Int /\ m <= handed
      BY <1>2 DEF ServerType, Packets
    <3> QED
      BY <1>1, <3>1
  <2>4. \A s \in Servers : \A m \in server[s].given : m <= h
    <3>1. \A s \in Servers : \A m \in server[s].given : m \in Int
      BY <1>2 DEF ServerType, Packets
    <3> QED
      BY <2>2, <2>3, <3>1
  <2> HIDE DEF h
  <2>5. ASSUME NEW s \in Servers, server' = [server EXCEPT ![s] = ServerDeliver(@, handed')]
        PROVE  AllPlaced'
    <3> DEFINE r == ServerDeliver(server[s], h)
    <3>1. server' = [server EXCEPT ![s] = r]
      BY <2>1, <2>5
    <3>2. Placed(r) /\ r.given = server[s].given \cup {h}
      BY <1>2, <2>2, <2>3, DeliverPlaced
    <3> HIDE DEF r
    <3>3. \A m \in r.given : m <= h
      BY <2>2, <2>4, <3>2
    <3> QED
      BY <1>1, <2>1, <2>2, <3>1, <3>2, <3>3, PlacedNext
  <2>6. ASSUME NEW s \in Servers,
               server' = [server EXCEPT ![s] = ServerDeliver(NewServer(n), handed')]
        PROVE  AllPlaced'
    <3> DEFINE g == NewServer(n)
               r == ServerDeliver(g, h)
    <3>1. server' = [server EXCEPT ![s] = r]
      BY <2>1, <2>6
    <3>2. g \in ServerType
      BY NewServerType
    <3>3. /\ g.sent = Gone.sent /\ g.out = Gone.out /\ g.packetList = Gone.packetList
          /\ g.given = Gone.given /\ g.lost = Gone.lost /\ g.accepted = Gone.accepted
          /\ g.status = "NOT_CONN" /\ Gone.status = "gone"
      BY DEF Gone, NewServer
    <3> HIDE DEF g
    <3>4. Placed(g) /\ g.given = {}
      BY <3>3, GonePlaced, PlacedSame
    <3>5. Placed(r) /\ r.given = {h}
      BY <2>2, <3>2, <3>4, DeliverPlaced
    <3> HIDE DEF r
    <3>6. \A m \in r.given : m <= h
      BY <2>2, <3>5
    <3> QED
      BY <1>1, <2>1, <2>2, <3>1, <3>5, <3>6, PlacedNext
  <2>7. \A s \in getServer(n) : s \in Servers
    BY GetServer DEF LinkInv
  <2> QED
    BY <1>5, <2>5, <2>6, <2>7 DEF SmPacket
<1>6. CASE Answer
  <2> DEFINE n == Head(asked)
             Other(s, t) == t # s /\ server[t].name = n /\ Waits(t)
  <2>1. CASE getServer(n) = {} /\ UNCHANGED <<server, hash>>
    BY <1>3, <1>6, <2>1 DEF Answer
  <2>2. ASSUME NEW s \in getServer(n), NEW ip \in {Address[n], NoIP},
               NEW r \in OnResolved(Told(server[s]), ip),
               server' = [t \in Servers |->
                            IF t = s THEN r
                            ELSE IF Other(s, t) THEN [server[t] EXCEPT !.robbed = TRUE]
                            ELSE server[t]],
               handed' = handed
        PROVE  AllPlaced'
    <3>1. s \in Servers /\ ip \in Ips
      <4>1. n \in Names
        BY <1>6 DEF LinkInv, Answer
      <4> QED
        BY <4>1, ConstantTypes, GetServer DEF LinkInv
    <3>2. Placed(r) /\ r.given \subseteq server[s].given
      <4> DEFINE q == Told(server[s])
      <4>1. /\ Good(q) /\ q.sent = server[s].sent /\ q.out = server[s].out
            /\ q.packetList = server[s].packetList /\ q.given = server[s].given
            /\ q.lost = server[s].lost /\ q.accepted = server[s].accepted
            /\ q.status = server[s].status
        BY <1>2, <3>1, ToldGood
      <4> HIDE DEF q
      <4>2. Placed(q)
        BY <1>2, <3>1, <4>1, PlacedSame
      <4>3. r \in OnResolved(q, ip)
        BY DEF q
      <4> QED
        BY <3>1, <4>1, <4>2, <4>3, ResolvedPlaced
    <3>3. ASSUME NEW t \in Servers, t # s
          PROVE  Placed(server'[t]) /\ server'[t].given = server[t].given
      <4> DEFINE e == [server[t] EXCEPT !.robbed = TRUE]
      <4>1. server'[t] = e \/ server'[t] = server[t]
        BY <2>2, <3>3
      <4>2. /\ e.sent = server[t].sent /\ e.out = server[t].out
            /\ e.packetList = server[t].packetList /\ e.given = server[t].given
            /\ e.lost = server[t].lost /\ e.accepted = server[t].accepted
            /\ e.status = server[t].status
        BY <1>2 DEF ServerType
      <4> HIDE DEF e
      <4>3. Placed(e)
        BY <1>2, <4>2, PlacedSame
      <4> QED
        BY <1>2, <4>1, <4>2, <4>3
    <3>4. server'[s] = r
      BY <2>2, <3>1
    <3> QED
      BY <1>2, <2>2, <3>2, <3>3, <3>4 DEF AllPlaced
  <2> QED
    BY <1>6, <2>1, <2>2 DEF Answer
<1>7. ASSUME NEW s \in Servers, OnSocketConnect(s)
      PROVE  AllPlaced'
  <2>1. server[s].status = "NOT_CONN" /\ server[s].out = <<>>
    BY <1>2, <1>7 DEF OnSocketConnect, Good, Addressed
  <2>2. Placed(Connected(server[s])) /\ Connected(server[s]).given = server[s].given
    BY <1>2, <2>1, ConnectedPlaced
  <2>3. server' = [server EXCEPT ![s] = Connected(server[s])] /\ handed' = handed
    BY <1>7 DEF OnSocketConnect, Becomes
  <2> QED
    BY <1>4, <2>2, <2>3
<1>8. ASSUME NEW s \in Servers, OnSocketTimeout(s) \/ OnSocketClose(s)
      PROVE  AllPlaced'
  <2>1. server' = [server EXCEPT ![s] = Gone] /\ handed' = handed
    BY <1>8 DEF OnSocketTimeout, OnSocketClose, Becomes
  <2> QED
    BY <1>4, <2>1, GonePlaced
<1>9. ASSUME NEW s \in Servers, OnHelloReply(s)
      PROVE  AllPlaced'
  <2>1. Placed(Flush(server[s])) /\ Flush(server[s]).given = server[s].given
    BY <1>2, <1>9, FlushPlaced DEF OnHelloReply
  <2>2. server' = [server EXCEPT ![s] = Flush(server[s])] /\ handed' = handed
    BY <1>9 DEF OnHelloReply
  <2> QED
    BY <1>4, <2>1, <2>2
<1>10. ASSUME NEW s \in Servers, Write(s)
       PROVE  AllPlaced'
  <2> DEFINE r == server[s]
             p == Head(r.out)
             sent == IF p[1] = "S2S_DELIVER" THEN Append(r.sent, p[2]) ELSE r.sent
             e == [r EXCEPT !.out = Tail(r.out), !.sent = sent]
  <2>1. r \in ServerType /\ Placed(r) /\ Addressed(r) /\ r.out # <<>>
    BY <1>2, <1>10 DEF Good, Write
  <2>2. r.out \in Seq(Outgoing) /\ r.sent \in Seq(Packets) /\ InLine(r.sent, r.out)
    BY <2>1 DEF ServerType, Placed
  <2>3. server' = [server EXCEPT ![s] = e] /\ handed' = handed
    BY <1>10 DEF Write
  <2>4. /\ e.sent = sent /\ e.out = Tail(r.out) /\ e.packetList = r.packetList
        /\ e.given = r.given /\ e.lost = r.lost /\ e.accepted = r.accepted
        /\ e.status = r.status
    BY <2>1 DEF ServerType
  <2>5. p \in Outgoing
    BY <2>1, <2>2
  <2> HIDE DEF e
  <2>6. InLine(sent, Tail(r.out)) /\ Line(sent, Tail(r.out)) = Line(r.sent, r.out)
    <3>1. CASE p \in Hellos
      <4>1. sent = r.sent
        BY <3>1 DEF Hellos, Hello, HelloReply
      <4> QED
        BY <2>1, <2>2, <3>1, <4>1, TailInLine
    <3>2. ASSUME NEW m \in Packets, p = Deliver(m)
          PROVE  InLine(sent, Tail(r.out)) /\ Line(sent, Tail(r.out)) = Line(r.sent, r.out)
      <4>1. sent = Append(r.sent, m)
        BY <3>2 DEF Deliver
      <4> QED
        BY <2>1, <2>2, <3>2, <4>1, TailInLine
    <3> QED
      BY <2>5, <3>1, <3>2, DeliverOnce
  <2>7. Placed(e)
    BY <2>1, <2>4, <2>6 DEF Placed
  <2> QED
    BY <1>4, <2>3, <2>4, <2>7
<1>11. ASSUME NEW s \in Servers, Accept(s)
       PROVE  AllPlaced'
  <2>0. PICK peer \in Ips : server' = [server EXCEPT ![s] =
          [Gone EXCEPT !.status = "HELLO_WAIT", !.sock = "up", !.ip = Local,
                       !.peer = peer, !.accepted = TRUE]]
    BY <1>11 DEF Accept
  <2> DEFINE r == [Gone EXCEPT !.status = "HELLO_WAIT", !.sock = "up", !.ip = Local,
                               !.peer = peer, !.accepted = TRUE]
  <2>1. server' = [server EXCEPT ![s] = r] /\ handed' = handed
    BY <1>11, <2>0 DEF Accept
  <2>2. /\ r.sent = <<>> /\ r.out = <<>> /\ r.packetList = <<>> /\ r.given = {} /\ r.lost = {}
        /\ r.accepted /\ r.status = "HELLO_WAIT"
    BY DEF Gone
  <2> HIDE DEF r
  <2>3. Placed(r)
    BY <2>2 DEF Placed, InLine, Sorted, Line, Buffered, ToSet
  <2> QED
    BY <1>4, <2>1, <2>2, <2>3
<1>12. ASSUME NEW s \in Servers, NEW n \in Short, OnHello(s, n)
       PROVE  AllPlaced'
  <2> DEFINE r == server[s]
             e == [r EXCEPT !.name = n, !.status = "AUTH", !.unasked = ~CanAsk]
  <2>1. r \in ServerType /\ Placed(r) /\ r.status = "HELLO_WAIT"
    BY <1>2, <1>12 DEF OnHello
  <2>2. server' = [server EXCEPT ![s] = e] /\ handed' = handed
    BY <1>12 DEF OnHello, LinkInv
  <2>3. /\ e.sent = r.sent /\ e.out = r.out /\ e.packetList = r.packetList
        /\ e.given = r.given /\ e.lost = r.lost /\ e.accepted = r.accepted
        /\ e.status = "AUTH"
    BY <2>1 DEF ServerType
  <2> HIDE DEF e
  <2>4. r.accepted
    BY <2>1 DEF Placed
  <2>5. Placed(e)
    BY <2>1, <2>3, <2>4, PlacedSame
  <2> QED
    BY <1>4, <2>2, <2>3, <2>5
<1>13. CASE SmConnects \/ SmCloses \/ Ask \/ (\E s \in Servers : OnDeliver(s)) \/ UNCHANGED vars
  BY <1>3, <1>13 DEF SmConnects, SmCloses, Ask, OnDeliver, vars
<1>14. CASE ResolverCloses
  <2>1. handed' = handed /\ server' = [s \in Servers |->
          IF Waits(s) THEN [server[s] EXCEPT !.unasked = TRUE] ELSE server[s]]
    BY <1>14 DEF ResolverCloses
  <2>2. ASSUME NEW t \in Servers
        PROVE  Placed(server'[t]) /\ server'[t].given = server[t].given
    <3> DEFINE e == [server[t] EXCEPT !.unasked = TRUE]
    <3>1. server'[t] = e \/ server'[t] = server[t]
      BY <2>1
    <3>2. /\ e.sent = server[t].sent /\ e.out = server[t].out
          /\ e.packetList = server[t].packetList /\ e.given = server[t].given
          /\ e.lost = server[t].lost /\ e.accepted = server[t].accepted
          /\ e.status = server[t].status
      BY <1>2 DEF ServerType
    <3> HIDE DEF e
    <3>3. Placed(e)
      BY <1>2, <3>2, PlacedSame
    <3> QED
      BY <1>2, <3>1, <3>2, <3>3
  <2> QED
    BY <1>2, <2>1, <2>2 DEF AllPlaced
<1> QED
  BY <1>5, <1>6, <1>7, <1>8, <1>9, <1>10, <1>11, <1>12, <1>13, <1>14 DEF Next

\* A list of increasing numbers has as many items as numbers.
LEMMA SortedCount ==
  ASSUME NEW s \in Seq(Packets), Sorted(s)
  PROVE  IsFiniteSet(ToSet(s)) /\ Cardinality(ToSet(s)) = Len(s)
<1>1. /\ DOMAIN s = 1 .. Len(s) /\ Len(s) \in Nat
      /\ \A i \in 1 .. Len(s) : s[i] \in Packets
  OBVIOUS
<1>2. \A i, j \in 1 .. Len(s) : s[i] = s[j] => i = j
  <2>1. ASSUME NEW i \in 1 .. Len(s), NEW j \in 1 .. Len(s), i < j
        PROVE  s[i] # s[j]
    <3>1. s[i] < s[j] /\ s[i] \in Int
      BY <1>1, <2>1 DEF Sorted, Packets
    <3> QED
      BY <3>1
  <2> QED
    BY <2>1
<1>3. s \in [1 .. Len(s) -> ToSet(s)]
  BY <1>1 DEF ToSet
<1>4. s \in Bijection(1 .. Len(s), ToSet(s))
  BY <1>1, <1>2, <1>3 DEF Bijection, Injection, Surjection, IsInjective, ToSet
<1>5. ExistsBijection(1 .. Len(s), ToSet(s))
  BY <1>4 DEF ExistsBijection
<1> QED
  BY <1>1, <1>5, FS_CountingElements, FS_NatBijection

\* Three sets of packets, no two of which share one.
LEMMA ThreeSets ==
  ASSUME NEW A, NEW B, NEW C, IsFiniteSet(A), IsFiniteSet(B), IsFiniteSet(C),
         A \cap B = {}, (A \cup B) \cap C = {}
  PROVE  Cardinality(A \cup B \cup C) = Cardinality(A) + Cardinality(B) + Cardinality(C)
<1>1. Cardinality(A) \in Nat /\ Cardinality(B) \in Nat /\ Cardinality(C) \in Nat
  BY FS_CardinalityType
<1>2. Cardinality({}) = 0
  BY FS_EmptySet
<1>3. IsFiniteSet(A \cup B) /\ Cardinality(A \cup B) = Cardinality(A) + Cardinality(B)
  <2>1. IsFiniteSet(A \cup B)
        /\ Cardinality(A \cup B) = Cardinality(A) + Cardinality(B) - Cardinality(A \cap B)
    BY FS_Union
  <2>2. Cardinality(A \cap B) = 0
    BY <1>2
  <2> QED
    BY <1>1, <2>1, <2>2
<1> DEFINE D == A \cup B
<1>4. D \cap C = {} /\ IsFiniteSet(D) /\ Cardinality(D) = Cardinality(A) + Cardinality(B)
  BY <1>3
<1> HIDE DEF D
<1>5. Cardinality(D \cup C) = Cardinality(D) + Cardinality(C) - Cardinality(D \cap C)
  BY <1>4, FS_Union
<1>6. Cardinality(D \cap C) = 0
  BY <1>2, <1>4
<1>7. Cardinality(D \cup C) = Cardinality(A) + Cardinality(B) + Cardinality(C)
  BY <1>1, <1>4, <1>5, <1>6
<1> QED
  BY <1>7 DEF D

\* The packets of a Server as InOrder reads them.
LEMMA ReadLine ==
  ASSUME NEW sent \in Seq(Packets), NEW out \in Seq(Outgoing), InLine(sent, out)
  PROVE  LET queued == Without(out, Hellos)
             line == sent \o [i \in DOMAIN queued |-> queued[i][2]]
         IN line \in Seq(Packets) /\ Sorted(line) /\ ToSet(line) = Line(sent, out)
<1> DEFINE w == Without(out, Hellos)
           num == [i \in DOMAIN w |-> w[i][2]]
           line == sent \o num
<1>1. w \in Seq(Outgoing) /\ \E h : Kept(w, out, Hellos, h)
  BY WithoutKeeps
<1>2. PICK h : Kept(w, out, Hellos, h)
  BY <1>1
<1> HIDE DEF w
<1>3. /\ DOMAIN w = 1 .. Len(w) /\ Len(w) \in Nat
      /\ DOMAIN out = 1 .. Len(out) /\ Len(out) \in Nat
      /\ DOMAIN sent = 1 .. Len(sent) /\ Len(sent) \in Nat
  BY <1>1
<1>4. /\ \A i \in DOMAIN w : h[i] \in DOMAIN out /\ w[i] = out[h[i]] /\ w[i] \notin Hellos
      /\ \A i, j \in DOMAIN w : i < j => h[i] < h[j]
      /\ \A k \in DOMAIN out : out[k] \notin Hellos => \E i \in DOMAIN w : h[i] = k
  BY <1>2, <1>3 DEF Kept
<1>5. \A i \in DOMAIN w : num[i] \in Packets /\ w[i] = Deliver(num[i])
  <2>1. \A i \in DOMAIN w : \E n \in Packets : w[i] = Deliver(n)
    BY <1>1, <1>4, DeliverOnce
  <2> QED
    BY <2>1, DeliverOnce
<1>6. num \in Seq(Packets) /\ Len(num) = Len(w) /\ DOMAIN num = DOMAIN w
  BY <1>3, <1>5
<1> HIDE DEF num
<1>7. Sorted(num)
  <2>1. SUFFICES ASSUME NEW i \in DOMAIN w, NEW j \in DOMAIN w, i < j
                 PROVE  num[i] < num[j]
    BY <1>6 DEF Sorted
  <2>2. /\ out[h[i]] = Deliver(num[i]) /\ out[h[j]] = Deliver(num[j])
        /\ h[i] \in DOMAIN out /\ h[j] \in DOMAIN out /\ h[i] < h[j]
        /\ num[i] \in Packets /\ num[j] \in Packets
    BY <1>4, <1>5, <2>1
  <2> QED
    BY <2>2 DEF InLine
<1>8. ToSet(num) = Buffered(out)
  <2>1. \A i \in DOMAIN w : num[i] \in Buffered(out)
    BY <1>4, <1>5 DEF Buffered
  <2>2. ASSUME NEW n \in Buffered(out)
        PROVE  \E i \in DOMAIN w : num[i] = n
    <3>1. PICK k \in DOMAIN out : out[k] = Deliver(n)
      BY DEF Buffered
    <3>2. n \in Packets /\ out[k] \notin Hellos
      BY <3>1, DeliverOnce DEF Buffered
    <3>3. PICK i \in DOMAIN w : h[i] = k
      BY <1>4, <3>1, <3>2
    <3>4. Deliver(num[i]) = Deliver(n) /\ num[i] \in Packets
      BY <1>4, <1>5, <3>1, <3>3
    <3> QED
      BY <3>2, <3>3, <3>4, DeliverOnce
  <2> QED
    BY <1>6, <2>1, <2>2 DEF ToSet
<1>9. /\ line \in Seq(Packets) /\ Len(line) = Len(sent) + Len(num)
      /\ \A i \in 1 .. Len(sent) + Len(num) :
           line[i] = IF i <= Len(sent) THEN sent[i] ELSE num[i - Len(sent)]
  BY <1>6, ConcatProperties, Zenon
<1> HIDE DEF line
<1>10. /\ DOMAIN line = 1 .. Len(sent) + Len(num) /\ DOMAIN num = 1 .. Len(num)
       /\ Len(num) \in Nat
  BY <1>3, <1>6, <1>9
<1>11. ASSUME NEW i \in DOMAIN line
       PROVE  \/ i \in DOMAIN sent /\ line[i] = sent[i]
              \/ /\ i > Len(sent) /\ i - Len(sent) \in DOMAIN num
                 /\ line[i] = num[i - Len(sent)]
  <2>1. CASE i <= Len(sent)
    BY <1>3, <1>9, <1>10, <2>1
  <2>2. CASE i > Len(sent)
    <3>1. i - Len(sent) \in 1 .. Len(num)
      BY <1>3, <1>10, <2>2
    <3> QED
      BY <1>3, <1>9, <1>10, <2>2, <3>1
  <2> QED
    BY <1>3, <1>10, <2>1, <2>2
<1>12. ASSUME NEW i \in DOMAIN line, NEW j \in DOMAIN line, i < j
       PROVE  line[i] < line[j]
  <2>1. CASE i \in DOMAIN sent /\ line[i] = sent[i]
    <3>1. CASE j \in DOMAIN sent /\ line[j] = sent[j]
      BY <1>12, <2>1, <3>1 DEF InLine, Sorted
    <3>2. CASE j - Len(sent) \in DOMAIN num /\ line[j] = num[j - Len(sent)]
      <4>1. line[i] \in ToSet(sent) /\ line[j] \in Buffered(out)
        BY <1>8, <2>1, <3>2 DEF ToSet
      <4> QED
        BY <4>1 DEF InLine
    <3> QED
      BY <1>11, <3>1, <3>2
  <2>2. CASE i > Len(sent) /\ i - Len(sent) \in DOMAIN num /\ line[i] = num[i - Len(sent)]
    <3>1. j \notin DOMAIN sent
      BY <1>3, <1>10, <1>12, <2>2
    <3>2. j - Len(sent) \in DOMAIN num /\ line[j] = num[j - Len(sent)]
      BY <1>11, <3>1
    <3>3. i - Len(sent) < j - Len(sent)
      BY <1>3, <1>10, <1>12
    <3> QED
      BY <1>7, <2>2, <3>2, <3>3 DEF Sorted
  <2> QED
    BY <1>11, <2>1, <2>2
<1>13. ToSet(line) = ToSet(sent) \cup Buffered(out)
  <2>1. \A i \in DOMAIN line : line[i] \in ToSet(sent) \cup ToSet(num)
    BY <1>11 DEF ToSet
  <2>2. \A i \in DOMAIN sent : i \in DOMAIN line /\ line[i] = sent[i]
    BY <1>3, <1>9, <1>10
  <2>3. ASSUME NEW i \in DOMAIN num
        PROVE  Len(sent) + i \in DOMAIN line /\ line[Len(sent) + i] = num[i]
    <3>1. /\ Len(sent) + i \in 1 .. Len(sent) + Len(num) /\ ~(Len(sent) + i <= Len(sent))
          /\ (Len(sent) + i) - Len(sent) = i
      BY <1>3, <1>10
    <3> QED
      BY <1>9, <1>10, <3>1
  <2> QED
    BY <1>8, <2>1, <2>2, <2>3 DEF ToSet
<1> QED
  BY <1>9, <1>12, <1>13 DEF Sorted, Line, line, num, w

\* A link carries the packets of sm in the order in which sm handed them over, none
\* twice, and loses sight of none: each is on the link, in the queue or was refused
\* by a full send buffer, and the queue of a link that we opened is empty once the
\* other server has accepted us (Server::deliver, onHelloReply), for any number of
\* packets and links, however they come and go.
THEOREM PacketsInOrder == Spec => []InOrder
<1>1. Init => AllPlaced
  BY GonePlaced DEF Init, AllPlaced
<1>2. LinkInv /\ AllPlaced /\ [Next]_vars => AllPlaced'
  BY PlacedStep
<1>3. LinkInv /\ AllPlaced => InOrder
  <2> SUFFICES ASSUME LinkInv, AllPlaced
               PROVE  InOrder
    OBVIOUS
  <2>1. TypeOK
    BY DEF LinkInv, TypeOK, Chain, ServerType, Packets, Outgoing
  <2>2. ASSUME NEW s \in Servers
        PROVE  LET r == server[s]
                   queued == Without(r.out, {Hello, HelloReply})
                   line == r.sent \o [i \in DOMAIN queued |-> queued[i][2]]
               IN /\ \A i, j \in DOMAIN line : i < j => line[i] < line[j]
                  /\ r.given = ToSet(line) \cup ToSet(r.packetList) \cup r.lost
                  /\ Len(line) + Len(r.packetList) + Cardinality(r.lost) = Cardinality(r.given)
                  /\ (line # <<>>) => r.status = "CONNECTED"
                  /\ (r.status = "CONNECTED" /\ ~r.accepted) => r.packetList = <<>>
    <3> DEFINE r == server[s]
               queued == Without(r.out, {Hello, HelloReply})
               line == r.sent \o [i \in DOMAIN queued |-> queued[i][2]]
               L == Line(r.sent, r.out)
               W == ToSet(r.packetList)
    <3>1. r \in ServerType /\ Placed(r)
      BY DEF LinkInv, AllPlaced
    <3>2. /\ r.sent \in Seq(Packets) /\ r.out \in Seq(Outgoing) /\ r.packetList \in Seq(Packets)
          /\ r.lost \in SUBSET Packets /\ InLine(r.sent, r.out) /\ Sorted(r.packetList)
      BY <3>1 DEF ServerType, Placed
    <3>3. line \in Seq(Packets) /\ Sorted(line) /\ ToSet(line) = L
      BY <3>2, ReadLine DEF Hellos
    <3>4. /\ r.given = L \cup W \cup r.lost /\ L \cap W = {} /\ (L \cup W) \cap r.lost = {}
          /\ r.status # "CONNECTED" => L = {}
          /\ r.status = "CONNECTED" /\ ~r.accepted => r.packetList = <<>>
      BY <3>1 DEF Placed
    <3> HIDE DEF line, L, W, r
    <3>5. /\ IsFiniteSet(L) /\ Cardinality(L) = Len(line)
          /\ IsFiniteSet(W) /\ Cardinality(W) = Len(r.packetList)
      BY <3>2, <3>3, SortedCount DEF W
    <3>6. IsFiniteSet(r.lost)
      <4>1. IsFiniteSet(Packets)
        BY Bound, FS_Interval DEF Packets
      <4> QED
        BY <3>2, <4>1, FS_Subset
    <3>7. Cardinality(r.given) = Len(line) + Len(r.packetList) + Cardinality(r.lost)
      <4> DEFINE X == r.lost
      <4>1. IsFiniteSet(L) /\ IsFiniteSet(W) /\ IsFiniteSet(X) /\ L \cap W = {}
            /\ (L \cup W) \cap X = {}
        BY <3>4, <3>5, <3>6
      <4> HIDE DEF X
      <4>2. Cardinality(L \cup W \cup X) = Cardinality(L) + Cardinality(W) + Cardinality(X)
        BY <4>1, ThreeSets
      <4>3. Cardinality(r.given) = Cardinality(L \cup W \cup X)
        BY <3>4 DEF X
      <4> QED
        BY <3>5, <4>2, <4>3 DEF X
    <3>8. line # <<>> => L # {}
      <4>1. line # <<>> => 1 \in DOMAIN line
        BY <3>3
      <4> QED
        BY <3>3, <4>1 DEF ToSet
    <3>9. /\ \A i, j \in DOMAIN line : i < j => line[i] < line[j]
          /\ r.given = ToSet(line) \cup ToSet(r.packetList) \cup r.lost
          /\ Len(line) + Len(r.packetList) + Cardinality(r.lost) = Cardinality(r.given)
          /\ (line # <<>>) => r.status = "CONNECTED"
          /\ (r.status = "CONNECTED" /\ ~r.accepted) => r.packetList = <<>>
      BY <3>3, <3>4, <3>7, <3>8 DEF Sorted, W
    <3> QED
      BY <3>9 DEF line, r
  <2> QED
    BY <2>1, <2>2, Zenon DEF InOrder
<1> QED
  BY <1>1, <1>2, <1>3, LinkInvariant, PTL DEF Spec
=============================================================================
