-------------------------------- MODULE C2S --------------------------------
(***************************************************************************)
(* The c2s front end: one thread that keeps a Session for every client     *)
(* address, the global retransmission queue, and the list of the linqd     *)
(* servers it routes to.  C2S, Session and RealServer share the session    *)
(* hash, sessionList (by expiry) and two views of the packets sent:        *)
(* C2S::sendQueue (by expiry) and each Session's own sendQueue.            *)
(*                                                                         *)
(* A Session is identified by its address, a packet by the address and its *)
(* sequence number.  The window that filters duplicates is in UpLink: here *)
(* a duplicate is a packet that has no effect.  isDead is the negation of  *)
(* isOnline in every state the program reaches, so only the latter is      *)
(* kept.  Expiry times are counted down: ttl is expiry - curTime.          *)
(***************************************************************************)
EXTENDS Integers, FiniteSets, Functions, SequencesExt, Lists

CONSTANTS
  Addrs,              \* client addresses, (ip, port)
  SIDs,               \* session ids that clients draw
  Users,              \* user names
  Servers,            \* connections of linqd servers
  NoUser, NoServer,   \* '\0' in userName, NULL in realServer and curServer
  KA_TIMEOUT,         \* ticks a session lives without a keepalive, 180 s
  SEND_TIMEOUT,       \* ticks before a retransmission, 7 s
  MAX_SEND_ATTEMPTS,  \* retransmissions before a packet is dropped, 2
  SEQ_SPACE,          \* sequence numbers, 0x10000
  MaxQueue,           \* bound: packets one session has in its queue
  Watched             \* the addresses liveness is checked for; all are alike

ASSUME C2SAssumption ==
  /\ NoUser \notin Users /\ NoServer \notin Servers /\ Watched \subseteq Addrs
  /\ KA_TIMEOUT \in Nat \ {0} /\ SEND_TIMEOUT \in Nat \ {0}
  /\ MAX_SEND_ATTEMPTS \in Nat
  /\ MaxQueue \in Nat /\ SEQ_SPACE \in Nat /\ MaxQueue < SEQ_SPACE

VARIABLES
  sessions,    \* SessionHash: address -> Session, for the sessions that exist
  sessionList, \* C2S::sessionList, as addresses
  sendQueue,   \* C2S::sendQueue
  numSessions, \* Session::numSessions
  serverList,  \* RealServer objects, the latest first
  curServer,   \* the server chosen last
  announced    \* sessions of each name a server was told of and not told off

serverVars == <<serverList, curServer>>
vars == <<sessions, sessionList, sendQueue, numSessions, serverVars, announced>>

Seqs == 0 .. SEQ_SPACE - 1
Session == [sid : SIDs, online : BOOLEAN, user : Users \cup {NoUser},
            server : Servers \cup {NoServer}, ttl : Int,
            sendSeq : Seqs, queue : Seq(Seqs)]
Packet == [addr : Addrs, seq : Seqs, attempts : 0 .. MAX_SEND_ATTEMPTS, ttl : Int]

TypeOK ==
  /\ DOMAIN sessions \subseteq Addrs
  /\ \A a \in DOMAIN sessions : sessions[a] \in Session
  /\ sessionList \in Seq(Addrs)
  /\ sendQueue \in Seq(Packet)
  /\ numSessions \in Int
  /\ serverList \in Seq(Servers)
  /\ curServer \in Servers \cup {NoServer}
  /\ announced \in [Servers -> [Users -> Int]]

Init ==
  /\ sessions = <<>> /\ sessionList = <<>> /\ sendQueue = <<>>
  /\ numSessions = 0
  /\ serverList = <<>> /\ curServer = NoServer
  /\ announced = [s \in Servers |-> [u \in Users |-> 0]]

-----------------------------------------------------------------------------
(***************************************************************************)
(* Sessions coming, sending and going.                                     *)
(***************************************************************************)

\* The constructor.
NewSession(sid) ==
  [sid |-> sid, online |-> FALSE, user |-> NoUser, server |-> NoServer,
   ttl |-> KA_TIMEOUT, sendSeq |-> 0, queue |-> <<>>]

\* The table and the list after C2S::onPacketReceived looked up address a
\* and, for a LOGIN or REGISTER, created what it did not find.
TableWith(a, sid) ==
  IF a \in DOMAIN sessions THEN sessions
  ELSE [b \in DOMAIN sessions \cup {a} |->
          IF b = a THEN NewSession(sid) ELSE sessions[b]]

ListWith(a) ==
  IF a \in DOMAIN sessions THEN sessionList ELSE Append(sessionList, a)

\* "To prevent spoofing": a session takes packets of its own id only.
Accepts(a, sid) == a \in DOMAIN sessions => sessions[a].sid = sid

\* Session::deliver to the session of a in table: the new table and the
\* packet to append to C2S::sendQueue.  Nothing is queued when sendto fails.

NextSeq(table, a) == (table[a].sendSeq + 1) % SEQ_SPACE

\* The bound MaxQueue; and 2^16 numbers do not come round while one packet is
\* being retried, although a failing sendto uses them up as well.
Room(table, a) ==
  /\ Len(table[a].queue) < MaxQueue
  /\ ~Contains(table[a].queue, NextSeq(table, a))
Delivered(table, a, ok) ==
  LET seq == NextSeq(table, a) IN
  [table EXCEPT ![a].sendSeq = seq,
                ![a].queue = IF ok THEN Append(@, seq) ELSE @]
Sent(table, a, ok) ==
  IF ok THEN <<[addr |-> a, seq |-> NextSeq(table, a),
                attempts |-> MAX_SEND_ATTEMPTS, ttl |-> SEND_TIMEOUT]>>
        ELSE <<>>

\* RealServer::removeSession for the sessions gone.  announced is what c2s hands to
\* the stream, here and in OnLogin; sendPacket may drop it on a full buffer
\* (realserver.cpp:66, 82), which is in Directory.
Withdrawn(table, gone) ==
  [s \in Servers |-> [u \in Users |-> announced[s][u] -
     Cardinality({a \in gone : table[a].server = s /\ table[a].user = u})]]

\* The packets that ~Session takes off the queue of all.
PacketsOf(packets, gone) == {p \in ToSet(packets) : p.addr \in gone}

\* Seeded bug: ~Session leaves its packets in the global queue.
DestroyLeavingPackets(gone, table, list, packets) ==
  /\ sessions' = Restrict(table, DOMAIN table \ gone)
  /\ sessionList' = Without(list, gone)
  /\ sendQueue' = packets
  /\ numSessions' = numSessions - Cardinality({a \in gone : table[a].online})
  /\ announced' = Withdrawn(table, gone)

\* ~Session, for the sessions gone of a table, list and queue.
Destroy(gone, table, list, packets) ==
  /\ sessions' = Restrict(table, DOMAIN table \ gone)
  /\ sessionList' = Without(list, gone)
  /\ sendQueue' = Without(packets, PacketsOf(packets, gone))
  /\ numSessions' = numSessions - Cardinality({a \in gone : table[a].online})
  /\ announced' = Withdrawn(table, gone)

-----------------------------------------------------------------------------
(***************************************************************************)
(* Packets from clients.                                                   *)
(***************************************************************************)

\* A LOGIN or REGISTER that gets no answer: a bad name or password hash, or
\* registration is disabled.
OnIgnored(a, sid) ==
  /\ a \notin DOMAIN sessions
  /\ sessions' = TableWith(a, sid) /\ sessionList' = ListWith(a)
  /\ UNCHANGED <<sendQueue, numSessions, serverVars, announced>>

\* Seeded bug: every request renews the session.
OnRefusedOrRegisterRenewing(a, sid, ok) ==
  LET table == [TableWith(a, sid) EXCEPT ![a].ttl = KA_TIMEOUT] IN
  /\ Accepts(a, sid) /\ ~table[a].online /\ Room(table, a)
  /\ sessions' = Delivered(table, a, ok)
  /\ sessionList' = Append(Without(sessionList, {a}), a)
  /\ sendQueue' = sendQueue \o Sent(table, a, ok)
  /\ UNCHANGED <<numSessions, serverVars, announced>>

\* onRegister, and onLogin when the name or the password is wrong: a reply,
\* and the session stays dead until that is acknowledged.
OnRefusedOrRegister(a, sid, ok) ==
  LET table == TableWith(a, sid) IN
  /\ Accepts(a, sid) /\ ~table[a].online /\ Room(table, a)
  /\ sessions' = Delivered(table, a, ok) /\ sessionList' = ListWith(a)
  /\ sendQueue' = sendQueue \o Sent(table, a, ok)
  /\ UNCHANGED <<numSessions, serverVars, announced>>

\* Round robin: the server after curServer, or the first one.
After(s) ==
  LET i == SelectInSeq(serverList, LAMBDA t : t = s)
  IN IF i \in 1 .. Len(serverList) - 1 THEN serverList[i + 1] ELSE NoServer
ChooseServer ==
  IF After(curServer) # NoServer THEN After(curServer)
  ELSE IF serverList # <<>> THEN serverList[1] ELSE NoServer

\* Seeded bug: addSession runs before userName is set and announces no one.
OnLoginAnnouncingEarly(a, sid, user, ok) ==
  LET table == TableWith(a, sid)
      server == ChooseServer
  IN /\ Accepts(a, sid) /\ ~table[a].online /\ Room(table, a)
     /\ sessions' = [Delivered(table, a, ok) EXCEPT
          ![a].online = TRUE, ![a].user = user, ![a].server = server]
     /\ sessionList' = ListWith(a)
     /\ sendQueue' = sendQueue \o Sent(table, a, ok)
     /\ numSessions' = numSessions + 1
     /\ curServer' = server
     /\ UNCHANGED <<announced, serverList>>

\* onLogin with the right password.  The expiry set when the session was
\* created is not renewed.
OnLogin(a, sid, user, ok) ==
  LET table == TableWith(a, sid)
      server == ChooseServer
  IN /\ Accepts(a, sid) /\ ~table[a].online /\ Room(table, a)
     /\ sessions' = [Delivered(table, a, ok) EXCEPT
          ![a].online = TRUE, ![a].user = user, ![a].server = server]
     /\ sessionList' = ListWith(a)
     /\ sendQueue' = sendQueue \o Sent(table, a, ok)
     /\ numSessions' = numSessions + 1
     /\ curServer' = server
     /\ announced' = [s \in Servers |-> [u \in Users |->
          announced[s][u] + IF s = server /\ u = user THEN 1 ELSE 0]]
     /\ UNCHANGED serverList

\* onKeepAlive: the session goes to the end of the list, and a message the
\* administrator announced since the last keepalive is sent.
OnKeepAlive(a, announce, ok) ==
  LET table == [sessions EXCEPT ![a].ttl = KA_TIMEOUT] IN
  /\ sessions[a].online
  /\ sessionList' = Append(Without(sessionList, {a}), a)
  /\ IF announce
     THEN /\ Room(table, a)
          /\ sessions' = Delivered(table, a, ok)
          /\ sendQueue' = sendQueue \o Sent(table, a, ok)
     ELSE sessions' = table /\ UNCHANGED sendQueue
  /\ UNCHANGED <<numSessions, serverVars, announced>>

OnLogout(a) ==
  /\ sessions[a].online
  /\ Destroy({a}, sessions, sessionList, sendQueue)
  /\ UNCHANGED serverVars

\* onAck frees the packet in both queues; a dead session ends with it.
OnAck(a, seq) ==
  /\ Contains(sessions[a].queue, seq)
  /\ LET table == [sessions EXCEPT ![a].queue = Without(@, {seq})]
         packets == Without(sendQueue, {p \in PacketsOf(sendQueue, {a}) : p.seq = seq})
     IN IF sessions[a].online
        THEN /\ sessions' = table /\ sendQueue' = packets
             /\ UNCHANGED <<sessionList, numSessions, announced>>
        ELSE Destroy({a}, table, sessionList, packets)
  /\ UNCHANGED serverVars

-----------------------------------------------------------------------------
(***************************************************************************)
(* Servers.                                                                *)
(***************************************************************************)

\* RealServer::onPacketReceived routes by address, whoever logged in there.
OnServerPacket(a, ok) ==
  /\ serverList # <<>> /\ Room(sessions, a)
  /\ sessions' = Delivered(sessions, a, ok)
  /\ sendQueue' = sendQueue \o Sent(sessions, a, ok)
  /\ UNCHANGED <<sessionList, numSessions, serverVars, announced>>

\* ListenSocket::onSocketRead.
AddServer(s) ==
  /\ ~Contains(serverList, s)
  /\ serverList' = <<s>> \o serverList
  /\ UNCHANGED <<sessions, sessionList, sendQueue, numSessions, curServer,
                 announced>>

\* Seeded bug: curServer is left pointing to the server deleted.
RemoveServerStale(s) ==
  LET gone == {a \in DOMAIN sessions : sessions[a].server = s} IN
  /\ Contains(serverList, s)
  /\ serverList' = Without(serverList, {s})
  /\ UNCHANGED curServer
  /\ sessions' = Restrict(sessions, DOMAIN sessions \ gone)
  /\ sessionList' = Without(sessionList, gone)
  /\ sendQueue' = Without(sendQueue, PacketsOf(sendQueue, gone))
  /\ numSessions' = numSessions - Cardinality({a \in gone : sessions[a].online})
  /\ announced' = [announced EXCEPT ![s] = [u \in Users |-> 0]]

\* RealServer::onSocketClose: removeServer deletes the server's sessions,
\* and what that server was told goes with it.
RemoveServer(s) ==
  LET gone == {a \in DOMAIN sessions : sessions[a].server = s} IN
  /\ Contains(serverList, s)
  /\ serverList' = Without(serverList, {s})
  /\ curServer' = IF curServer = s THEN After(s) ELSE curServer
  /\ sessions' = Restrict(sessions, DOMAIN sessions \ gone)
  /\ sessionList' = Without(sessionList, gone)
  /\ sendQueue' = Without(sendQueue, PacketsOf(sendQueue, gone))
  /\ numSessions' = numSessions - Cardinality({a \in gone : sessions[a].online})
  /\ announced' = [announced EXCEPT ![s] = [u \in Users |-> 0]]

-----------------------------------------------------------------------------
(***************************************************************************)
(* The clock: run() calls checkTimeouts whenever time() has moved.         *)
(***************************************************************************)

\* The items both loops take: from the front, up to the first that is not due.
Due(s, late) ==
  LET first == SelectInSeq(s, LAMBDA x : x \notin late)
  IN IF first = 0 THEN s ELSE SubSeq(s, 1, first - 1)

Aged(p, elapsed) == [p EXCEPT !.ttl = @ - elapsed]

\* Seeded bug: a resent packet is put back in front.
CheckSendQueueInFront(due, rest) ==
  LET retried == Without(due, {p \in ToSet(due) : p.attempts = 0})
      Resent(p) == [p EXCEPT !.attempts = @ - 1, !.ttl = SEND_TIMEOUT]
  IN [i \in DOMAIN retried |-> Resent(retried[i])] \o rest

\* Seeded bug: the attempts of a resent packet are not counted.
CheckSendQueueUncounted(due, rest) ==
  LET Resent(p) == [p EXCEPT !.ttl = SEND_TIMEOUT]
  IN rest \o [i \in DOMAIN due |-> Resent(due[i])]

\* checkSendQueue: the packets due are resent and go to the end, or dropped.
CheckSendQueue(due, rest) ==
  LET retried == Without(due, {p \in ToSet(due) : p.attempts = 0})
      Resent(p) == [p EXCEPT !.attempts = @ - 1, !.ttl = SEND_TIMEOUT]
  IN rest \o [i \in DOMAIN retried |-> Resent(retried[i])]

\* A packet that checkSendQueue drops leaves its session's queue too.
Dropped(table, due) ==
  LET dropped == {p \in ToSet(due) : p.attempts = 0}
  IN [a \in DOMAIN table |-> [table[a] EXCEPT !.queue =
        Without(@, {p.seq : p \in {d \in dropped : d.addr = a}})]]

\* checkSendQueue, then checkKeepAlive.
Tick(elapsed) ==
  LET packets == [i \in DOMAIN sendQueue |-> Aged(sendQueue[i], elapsed)]
      table == [a \in DOMAIN sessions |-> Aged(sessions[a], elapsed)]
      due == Due(packets, {p \in ToSet(packets) : p.ttl <= 0})
      rest == SubSeq(packets, Len(due) + 1, Len(packets))
      expired == Due(sessionList, {a \in DOMAIN table : table[a].ttl <= 0})
  IN /\ Destroy(ToSet(expired), Dropped(table, due), sessionList,
                CheckSendQueue(due, rest))
     /\ UNCHANGED serverVars

-----------------------------------------------------------------------------
Next ==
  \/ \E a \in Addrs, sid \in SIDs :
       \/ OnIgnored(a, sid)
       \/ \E ok \in BOOLEAN :
            \/ OnRefusedOrRegister(a, sid, ok)
            \/ \E user \in Users : OnLogin(a, sid, user, ok)
  \/ \E a \in DOMAIN sessions :
       \/ \E announce, ok \in BOOLEAN : OnKeepAlive(a, announce, ok)
       \/ OnLogout(a)
       \/ \E seq \in Seqs : OnAck(a, seq)
       \/ \E ok \in BOOLEAN : OnServerPacket(a, ok)
  \/ \E s \in Servers : AddServer(s) \/ RemoveServer(s)
  \/ \E elapsed \in 1 .. KA_TIMEOUT : Tick(elapsed)

Spec == Init /\ [][Next]_vars

\* The main loop never stops, and time moves on: this is WF_vars of the clock,
\* written out, as time changes something exactly when there is a session.
FairSpec ==
  /\ Spec
  /\ \/ []<>(sessions = <<>>)
     \/ []<><<\E elapsed \in 1 .. KA_TIMEOUT : Tick(elapsed)>>_vars

-----------------------------------------------------------------------------
(***************************************************************************)
(* Properties.                                                             *)
(***************************************************************************)

\* The views of one thing agree.  C2S::sendQueue holds exactly the packets of the
\* sessions' own queues, each once: a packet that outlived its session would be
\* resent through a dangling pointer.  sessionList and the hash hold the same
\* sessions, each once.  No pointer to a deleted RealServer is kept.
QueuesAgree ==
  LET global == [i \in DOMAIN sendQueue |-> <<sendQueue[i].addr, sendQueue[i].seq>>]
      live == ToSet(serverList) \cup {NoServer}
  IN /\ TypeOK
     /\ IsInjective(global)
     /\ ToSet(global) = UNION {{<<a, q>> : q \in ToSet(sessions[a].queue)} :
                                a \in DOMAIN sessions}
     /\ \A a \in DOMAIN sessions : IsInjective(sessions[a].queue)
     /\ IsInjective(sessionList) /\ ToSet(sessionList) = DOMAIN sessions
     /\ curServer \in live /\ \A a \in DOMAIN sessions : sessions[a].server \in live

\* No session and no packet outlives its expiry: what is due is never hidden
\* behind something that is not, in queues that the code trusts to be "sort by
\* expiration time".
NothingOverdue ==
  /\ \A a \in DOMAIN sessions : sessions[a].ttl > 0
  /\ \A i \in DOMAIN sendQueue : sendQueue[i].ttl > 0

\* What others are told of the sessions is true.  c2s has announced to every server
\* exactly the sessions routed to it: each C2S_ADD_SESSION is undone by one
\* C2S_REMOVE_SESSION of the same name, whichever way the session ends (a full
\* stream may still drop either, which is in Directory).  The
\* count sent with every acknowledgement is the number of users online.
AnnouncedExactly ==
  /\ \A s \in Servers, u \in Users : announced[s][u] =
       Cardinality({a \in DOMAIN sessions :
                      sessions[a].server = s /\ sessions[a].user = u})
  /\ numSessions = Cardinality({a \in DOMAIN sessions : sessions[a].online})

\* A packet leaves the queues in the end, acknowledged or not.
PacketsLeave ==
  \A a \in Watched, q \in Seqs :
    LET queued == \E i \in DOMAIN sendQueue :
                    sendQueue[i].addr = a /\ sendQueue[i].seq = q
    IN queued ~> ~queued

\* A session that nobody logged in to does not block its address for ever:
\* nothing a client sends keeps a dead session alive.
DeadSessionEnds ==
  \A a \in Watched :
    (a \in DOMAIN sessions /\ ~sessions[a].online)
      ~> (a \notin DOMAIN sessions \/ sessions[a].online)
=============================================================================
