-------------------------------- MODULE S2S --------------------------------
(***************************************************************************)
(* The server to server process s2s.  The session manager sm hands it the  *)
(* packets for users of other servers; s2s keeps a Server for each link to *)
(* such a server, looks its name up with the resolver process, connects,   *)
(* says hello and queues what it cannot send yet.  A server that connects  *)
(* to s2s says its name, and the name is looked up to check it.            *)
(*                                                                         *)
(* s2s has one thread: a handler is one step.  The other servers may send  *)
(* any packet at any time, from any address and with any name, and the     *)
(* resolver may fail to find a name.  A link is a TCPStream (module        *)
(* Stream): its send buffer holds SendBuf packets here, the one to the     *)
(* resolver AskBuf questions, and the poll thread empties it; a stream     *)
(* that is lost is not connected again.  Packets of sm are numbered as     *)
(* they come.                                                              *)
(***************************************************************************)
EXTENDS Integers, SequencesExt, Lists

CONSTANTS
  Servers,      \* Server objects
  Names,        \* names of other servers
  Cut,          \* each name, cut to MAX_SERVER_LEN
  Address,      \* the address of each name
  Local,        \* the address at which s2s accepts connections
  NoIP,         \* INADDR_NONE
  SendBuf,      \* packets a send buffer holds
  AskBuf,       \* questions the send buffer to the resolver holds
  MaxPackets,   \* bound: packets from sm
  MaxAsked      \* questions that the resolver and the network hold

ASSUME S2SAssumption ==
  /\ Servers # {} /\ SendBuf \in Nat \ {0} /\ MaxPackets \in Nat /\ MaxAsked \in Nat
  /\ AskBuf \in Nat
  /\ NoIP # Local /\ (\A n \in Names : Address[n] # NoIP) /\ "" \notin Names
  /\ \A n \in Names : Cut[n] \in Names /\ Cut[Cut[n]] = Cut[n]

VARIABLES
  server,       \* the Server objects
  hash,         \* ServerHash: the chain, newest first
  resolver,     \* the connection to the resolver, until it is lost
  queries,      \* its send buffer
  asked,        \* names on their way to and from the resolver
  sm,           \* sessionManager # NULL
  handed,       \* packets sm has handed over
  heard         \* history: the link whose packet was passed to sm last

resVars == <<resolver, queries, asked>>
vars == <<server, hash, resVars, sm, handed, heard>>

Ips == {Address[n] : n \in Names} \cup {Local, NoIP}
NoName == ""
Status == {"NOT_CONN", "HELLO_WAIT", "HELLO_REPLY", "AUTH", "CONNECTED"}

Hello == <<"S2S_HELLO", 0>>
HelloReply == <<"S2S_HELLO_REPLY", 0>>
Deliver(n) == <<"S2S_DELIVER", n>>

\* ip is serverIP and peer the address at the other end of the socket.  History:
\* sent, given and lost are packets of sm; robbed, an answer for the name went
\* to a newer Server; unasked, the resolver does not have the question; accepted,
\* the other server has connected to us.
Gone == [status |-> "gone", name |-> NoName, ip |-> NoIP, peer |-> NoIP, sock |-> "none",
         packetList |-> <<>>, out |-> <<>>, sent |-> <<>>, given |-> {},
         lost |-> {}, robbed |-> FALSE, unasked |-> FALSE, accepted |-> FALSE]
Nobody == [name |-> NoName, peer |-> NoIP, accepted |-> FALSE]

Live(s) == server[s].status # "gone"
Named(s) == server[s].name # NoName

\* ServerHash::get, as a set of at most one Server.
getServer(n) ==
  LET Found(s) == server[s].name = n
  IN IF \E i \in DOMAIN hash : Found(hash[i])
     THEN {hash[SelectInSeq(hash, Found)]} ELSE {}

\* A Server waits to be told its address.
Waits(s) ==
  \/ server[s].status = "NOT_CONN" /\ server[s].sock = "none"
  \/ server[s].status = "AUTH"

\* Names that s2s does not cut.
Short == {n \in Names : Cut[n] = n}

TypeOK ==
  /\ server \in [Servers ->
       [status : Status \cup {"gone"}, name : Short \cup {NoName}, ip : Ips, peer : Ips,
        sock : {"none", "pending", "failed", "up"},
        packetList : Seq(1 .. MaxPackets), out : Seq({Hello, HelloReply}
          \cup {Deliver(n) : n \in 1 .. MaxPackets}), sent : Seq(1 .. MaxPackets),
        given : SUBSET (1 .. MaxPackets), lost : SUBSET (1 .. MaxPackets),
        robbed : BOOLEAN, unasked : BOOLEAN, accepted : BOOLEAN]]
  /\ hash \in Seq(Servers)
  /\ resolver \in BOOLEAN /\ queries \in Seq(Names) /\ asked \in Seq(Names)
  /\ sm \in BOOLEAN /\ handed \in 0 .. MaxPackets
  /\ heard \in [name : Short \cup {NoName}, peer : Ips, accepted : BOOLEAN]

Init ==
  /\ server = [s \in Servers |-> Gone]
  /\ hash = <<>> /\ resolver = TRUE /\ queries = <<>> /\ asked = <<>>
  /\ sm = FALSE /\ handed = 0 /\ heard = Nobody

-----------------------------------------------------------------------------
(***************************************************************************)
(* Handlers as functions of the Server they change.                        *)
(***************************************************************************)

\* TCPStream::sendPacket: what does not fit into the send buffer is dropped.
Put(r, p) ==
  IF Len(r.out) < SendBuf THEN [r EXCEPT !.out = Append(@, p)]
  ELSE [r EXCEPT !.lost = @ \cup {p[2]}]

\* Server::sendPacket of S2S_DELIVER: it waits in packetList until the other
\* server has said who it is or has accepted us.  (A packet never is longer
\* than MAX_PACKET_SIZE: OutPacket holds no more.)
SendDeliver(r, n) ==
  IF r.status # "CONNECTED" THEN [r EXCEPT !.packetList = Append(@, n)]
                            ELSE Put(r, Deliver(n))

\* Server::deliver
ServerDeliver(r, n) == SendDeliver([r EXCEPT !.given = @ \cup {n}], n)

\* Server::onSocketConnect
Connected(r) == Put([r EXCEPT !.sock = "up", !.status = "HELLO_REPLY"], Hello)

\* TCPStream::connect, on a new socket whatever became of the last one.
Connect(r, ip) ==
  LET q == [r EXCEPT !.ip = ip, !.peer = ip]
  IN {Connected(q)} \cup {[q EXCEPT !.sock = k] : k \in {"pending", "failed"}}

\* Seeded bug: the name that a server claims is not checked.
AcceptAnyIP(r, ip) ==
  IF r.status = "NOT_CONN" /\ ip # NoIP THEN Connect(r, ip)
  ELSE IF r.status = "AUTH" /\ ip # NoIP
       THEN {Put([r EXCEPT !.status = "CONNECTED"], HelloReply)}
       ELSE IF ip = NoIP THEN {Gone} ELSE {r}

\* Server::onResolved.  serverIP of an accepted connection is the address of
\* our own end of it (getsockname), so a server is believed when its name is one
\* of ours, wherever it has connected from.  packetList is left as it is.
OnResolved(r, ip) ==
  IF ip = NoIP \/ (r.status = "AUTH" /\ r.ip # ip) THEN {Gone}
  ELSE CASE r.status = "NOT_CONN" -> Connect(r, ip)
         [] r.status = "AUTH" -> {Put([r EXCEPT !.status = "CONNECTED"], HelloReply)}
         [] OTHER -> {r}

\* TCPStream::sendPacket for each packet of a queue: those that fit, from the
\* first on, and the others are dropped.
PutAll(r, queue) ==
  LET n == Min({SendBuf - Len(r.out), Len(queue)})
  IN [r EXCEPT !.out = @ \o [i \in 1 .. n |-> Deliver(queue[i])],
               !.lost = @ \cup {queue[i] : i \in n + 1 .. Len(queue)}]

\* The other server accepts us.
Accepted(r) == [r EXCEPT !.status = "CONNECTED", !.packetList = <<>>]

\* Seeded bug: the queue is emptied from its newest packet on.
FlushBackwards(r) == PutAll(Accepted(r), Reverse(r.packetList))

\* Seeded bug: the queue stays where it is.
FlushNothing(r) == [r EXCEPT !.status = "CONNECTED"]

\* onHelloReply sends the whole queue at once.
Flush(r) == PutAll(Accepted(r), r.packetList)

-----------------------------------------------------------------------------
\* hash when ~Server has run for s.
Forget(s) == RemoveFirst(hash, s)

\* Server s becomes r, or is deleted.
Becomes(s, r) ==
  /\ server' = [server EXCEPT ![s] = r]
  /\ hash' = IF r = Gone THEN Forget(s) ELSE hash

\* S2S::onSocketRead: one sm at a time, a second one waits to be accepted.
SmConnects == ~sm /\ sm' = TRUE /\ UNCHANGED <<server, hash, resVars, handed, heard>>

\* SessionManager::onSocketClose
SmCloses == sm /\ sm' = FALSE /\ UNCHANGED <<server, hash, resVars, handed, heard>>

\* Resolver::resolve ignores what sendPacket returns: no question is asked when
\* the send buffer is full, and none gets anywhere on a stream that is lost.
CanAsk == resolver /\ Len(queries) < AskBuf

\* Seeded bug: the question is not asked.
AskNothing(n) == queries

\* queries when Resolver::resolve has run for name n.
resolve(n) == IF CanAsk THEN Append(queries, n) ELSE queries

\* A new Server for name n.  Its name is cut; the question is for the whole one,
\* whose answer finds no Server.
NewServer(n) ==
  [Gone EXCEPT !.status = "NOT_CONN", !.name = Cut[n],
               !.unasked = ~CanAsk \/ Cut[n] # n]

\* SessionManager::onPacketReceived, for a user of server n: the Server of that
\* name takes the packet, a new one if there is none.
SmPacket(n) ==
  /\ sm /\ handed < MaxPackets /\ handed' = handed + 1
  /\ \/ \E s \in getServer(n) :
          /\ server' = [server EXCEPT ![s] = ServerDeliver(@, handed')]
          /\ UNCHANGED <<hash, queries>>
     \/ /\ getServer(n) = {}
        /\ \E s \in Servers :
             /\ ~Live(s)
             /\ server' = [server EXCEPT ![s] = ServerDeliver(NewServer(n), handed')]
             /\ hash' = <<s>> \o hash /\ queries' = resolve(n)
  /\ UNCHANGED <<resolver, asked, sm, heard>>

\* onSocketWrite of the stream to the resolver.
Ask ==
  /\ queries # <<>> /\ Len(asked) < MaxAsked
  /\ asked' = Append(asked, Head(queries)) /\ queries' = Tail(queries)
  /\ UNCHANGED <<server, hash, resolver, sm, handed, heard>>

\* A Server that is told an address: its question is of no account any more.
Told(r) == [r EXCEPT !.robbed = FALSE, !.unasked = FALSE]

\* Resolver::onPacketReceived: the answer to the oldest question, right or
\* none, goes to the newest Server of that name, whoever asked.
Answer ==
  /\ asked # <<>> /\ asked' = Tail(asked)
  /\ LET n == Head(asked)
         Other(s, t) == t # s /\ server[t].name = n /\ Waits(t)
     IN \/ getServer(n) = {} /\ UNCHANGED <<server, hash>>
        \/ \E s \in getServer(n), ip \in {Address[n], NoIP} :
             \E r \in OnResolved(Told(server[s]), ip) :
               /\ server' = [t \in Servers |->
                    IF t = s THEN r
                    ELSE IF Other(s, t) THEN [server[t] EXCEPT !.robbed = TRUE]
                    ELSE server[t]]
               /\ hash' = IF r = Gone THEN Forget(s) ELSE hash
  /\ UNCHANGED <<resolver, queries, sm, handed, heard>>

\* The connection to the resolver is lost: onSocketClose of TCPStream does nothing,
\* as the stream has an address to connect to, and no timer runs to do it.
ResolverCloses ==
  /\ resolver /\ resolver' = FALSE /\ queries' = <<>> /\ asked' = <<>>
  /\ server' = [s \in Servers |->
       IF Waits(s) THEN [server[s] EXCEPT !.unasked = TRUE] ELSE server[s]]
  /\ UNCHANGED <<hash, sm, handed, heard>>

\* A pending connection is established: onSocketConnect.
OnSocketConnect(s) ==
  /\ server[s].sock = "pending"
  /\ Becomes(s, Connected(server[s]))
  /\ UNCHANGED <<resVars, sm, handed, heard>>

\* It is refused or takes longer than 60 seconds: onSocketClose,
\* onSocketTimeout.
OnSocketTimeout(s) ==
  /\ server[s].sock = "pending"
  /\ Becomes(s, Gone)
  /\ UNCHANGED <<resVars, sm, handed, heard>>

\* The other server ends a connection: onSocketClose.
OnSocketClose(s) ==
  /\ server[s].sock = "up"
  /\ Becomes(s, Gone)
  /\ UNCHANGED <<resVars, sm, handed, heard>>

\* The poll thread sends the oldest packet of a send buffer.
Write(s) ==
  /\ server[s].sock = "up" /\ server[s].out # <<>>
  /\ LET p == Head(server[s].out)
     IN server' = [server EXCEPT ![s].out = Tail(@),
                     ![s].sent = IF p[1] = "S2S_DELIVER" THEN Append(@, p[2]) ELSE @]
  /\ UNCHANGED <<hash, resVars, sm, handed, heard>>

\* ListenSocket::onSocketRead: anybody may connect, from any address.
Accept(s) ==
  /\ ~Live(s)
  /\ \E peer \in Ips \ {NoIP} : server' = [server EXCEPT ![s] =
       [Gone EXCEPT !.status = "HELLO_WAIT", !.sock = "up", !.ip = Local,
                    !.peer = peer, !.accepted = TRUE]]
  /\ UNCHANGED <<hash, resVars, sm, handed, heard>>

\* Server::onHello: the Server goes in front of one that sm has caused, if there
\* is one.  In any other state it is ignored.  (A name longer than
\* MAX_SERVER_LEN deletes the Server and then goes on in it, which is undefined
\* and left out.)
OnHello(s, n) ==
  /\ server[s].status = "HELLO_WAIT"
  /\ server' = [server EXCEPT ![s].name = n, ![s].status = "AUTH", ![s].unasked = ~CanAsk]
  /\ hash' = <<s>> \o hash /\ queries' = resolve(n)
  /\ UNCHANGED <<resolver, asked, sm, handed, heard>>

\* Server::onHelloReply.  In any other state it is ignored.
OnHelloReply(s) ==
  /\ server[s].sock = "up" /\ server[s].status = "HELLO_REPLY"
  /\ server' = [server EXCEPT ![s] = Flush(@)]
  /\ UNCHANGED <<hash, resVars, sm, handed, heard>>

\* Server::onDeliver passes the packet on as one from serverName.  In any
\* other state, or without an sm, it is ignored.
OnDeliver(s) ==
  /\ server[s].sock = "up" /\ sm /\ server[s].status = "CONNECTED"
  /\ heard' = [name |-> server[s].name, peer |-> server[s].peer,
               accepted |-> server[s].accepted]
  /\ UNCHANGED <<server, hash, resVars, sm, handed>>

Next ==
  \/ SmConnects \/ SmCloses \/ (\E n \in Names : SmPacket(n))
  \/ Ask \/ Answer \/ ResolverCloses
  \/ \E s \in Servers :
       \/ OnSocketConnect(s) \/ OnSocketTimeout(s) \/ OnSocketClose(s)
       \/ Write(s) \/ Accept(s) \/ OnHelloReply(s) \/ OnDeliver(s)
       \/ \E n \in Short : OnHello(s, n)

Spec == Init /\ [][Next]_vars

\* The poll thread writes to the resolver, which answers, and a pending connection
\* comes to an end: it has a timer.  Nobody has to reply to a hello.
FairSpec ==
  /\ Spec
  /\ WF_vars(Ask) /\ WF_vars(Answer)
  /\ \A s \in Servers : WF_vars(OnSocketConnect(s) \/ OnSocketTimeout(s))

-----------------------------------------------------------------------------
(***************************************************************************)
(* Properties.                                                             *)
(***************************************************************************)

\* Everything named can be found and nothing that is gone: the chain holds the
\* Servers that have a name, each once, whatever order they come and go in.
HashExact ==
  /\ IsInjective(hash)
  /\ ToSet(hash) = {s \in Servers : Live(s) /\ Named(s)}
  /\ \A s \in Servers : Live(s) => (Named(s) <=> server[s].status # "HELLO_WAIT")

\* A link carries the packets of sm in the order in which sm handed them over,
\* none twice; each of them is on the link, in the queue, or was refused by a
\* full send buffer.  A link that we opened has an empty queue from the moment
\* the other server accepts us.
InOrder ==
  TypeOK /\ \A s \in Servers :
    LET r == server[s]
        queued == Without(r.out, {Hello, HelloReply})
        line == r.sent \o [i \in DOMAIN queued |-> queued[i][2]]
    IN /\ \A i, j \in DOMAIN line : i < j => line[i] < line[j]
       /\ r.given = ToSet(line) \cup ToSet(r.packetList) \cup r.lost
       /\ Len(line) + Len(r.packetList) + Cardinality(r.lost) = Cardinality(r.given)
       /\ (line # <<>>) => r.status = "CONNECTED"
       /\ (r.status = "CONNECTED" /\ ~r.accepted) => r.packetList = <<>>

\* What is passed to sm as coming from users of a server came over a link that we
\* have opened to the address of that name, or over one that was accepted and whose
\* name is one of our own address: no other name is believed of a server that has
\* connected to us, not even its own.
OriginChecked ==
  heard # Nobody =>
    IF heard.accepted THEN Address[heard.name] = Local
                      ELSE heard.peer = Address[heard.name]

\* A Server that waits for its address can be found when the answer comes and
\* has a question under way, unless the answer went to a newer Server of the
\* same name or the resolver never got the question for that name.
AnswerComes ==
  HashExact /\ \A s \in Servers :
    Waits(s) /\ ~server[s].robbed /\ ~server[s].unasked =>
      server[s].name \in ToSet(queries) \cup ToSet(asked)

\* A packet waits for ever only for the other server, which was told hello and
\* may be silent; or for an address that does not come, since the answer went to
\* another Server or nothing was asked; or since connect() failed at once; or on
\* a Server that connected to us, whose queue nothing empties.
QueueMoves ==
  \A s \in Servers :
    (server[s].packetList # <<>>) ~>
      \/ server[s].packetList = <<>>
      \/ server[s].status = "HELLO_REPLY"
      \/ Waits(s) /\ (server[s].robbed \/ server[s].unasked)
      \/ server[s].sock = "failed" \/ server[s].accepted
=============================================================================
