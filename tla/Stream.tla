------------------------------- MODULE Stream -------------------------------
(***************************************************************************)
(* TCPStream and the socket registry below it: packets of any thread go    *)
(* into one send buffer with their length in front, the poll thread writes *)
(* the buffer to the socket as far as it takes it, and the TCPStream at    *)
(* the other end cuts the bytes into packets again.                        *)
(*                                                                         *)
(* The events a socket waits for are a plain int that the poll thread and  *)
(* the senders change with |= and &=, the senders under the mutex of the   *)
(* stream and the poll thread under none: each change reads the events in  *)
(* one step and writes them back in another.                               *)
(*                                                                         *)
(* One stream is modelled, from the end that called connect(); data flows  *)
(* from there to the other end.  A byte is <<packet, index>>.              *)
(***************************************************************************)
EXTENDS Integers, SequencesExt

CONSTANTS
  Sizes,        \* sizes of packets, in bytes
  SENDBUF_SIZE, RECVBUF_SIZE,
  Wire,         \* bytes the two kernels hold
  FdSets,       \* how poll() is built: "poll" or "select"
  MaxPackets    \* bound: packets sent in a behaviour

Header == 2     \* sizeof(uint16)

ASSUME StreamAssumption ==
  /\ Sizes \subseteq Nat \ {0} /\ Wire \in Nat \ {0} /\ MaxPackets \in Nat
  /\ SENDBUF_SIZE \in Nat /\ RECVBUF_SIZE \in Nat \ {0}
  /\ \A n \in Sizes : n + Header <= RECVBUF_SIZE
  /\ FdSets \subseteq {"poll", "select"}

VARIABLES
  fdSet,        \* the FdSet this build has
  sock,         \* the kernel's side of the socket
  isConnected,
  event,        \* FD_ENTRY.event: events waited for
  timer,        \* FD_ENTRY.timeout is set
  sendBuf,
  wire,         \* bytes on their way
  recvBuf,      \* of the other end
  sender, seen, \* the thread inside sendPacket's lock, and the events it read
  poller, ready, known, written,
                \* the poll thread: where it is, the events FdSet reported,
                \* the events it read, the bytes send() took
  \* history
  accepted,     \* sizes of the packets put into sendBuf
  delivered,    \* packets handed to onPacketReceived, as bytes
  unarmed       \* reconnect() succeeded at once with data waiting

senderVars == <<sender, seen>>
pollVars == <<poller, ready, known, written>>
streamVars == <<fdSet, sock, isConnected, event, timer, sendBuf, wire, recvBuf,
                senderVars, pollVars, accepted, delivered, unarmed>>

READ == "SOCKET_READ"
WRITE == "SOCKET_WRITE"
Events == {READ, WRITE}
BytesOf(i, n) == [k \in 1 .. n + Header |-> <<i, k>>]
Bytes(i) == BytesOf(i, accepted[i])
Byte == (1 .. MaxPackets) \X (1 .. SENDBUF_SIZE)

\* The connection was refused or has ended.
Broken == sock \in {"failed", "refused", "lost"}

\* No buffer is ever filled past its end, and the other end can always read on:
\* an incomplete packet never fills recvBuf, where recv() would be asked for no
\* bytes and its answer be taken for the end of the connection.
StreamTypeOK ==
  /\ fdSet \in FdSets
  /\ sock \in {"none", "pending", "up", "failed", "refused", "lost"}
  /\ isConnected \in BOOLEAN /\ timer \in BOOLEAN /\ unarmed \in BOOLEAN
  /\ {event, seen, ready, known} \subseteq SUBSET Events
  /\ sendBuf \in Seq(Byte) /\ Len(sendBuf) <= SENDBUF_SIZE
  /\ wire \in Seq(Byte) /\ Len(wire) <= Wire
  /\ recvBuf \in Seq(Byte) /\ Len(recvBuf) < RECVBUF_SIZE
  /\ sender \in {"idle", "copied", "arming"}
  /\ poller \in {"poll", "dispatch", "clearing", "connecting", "sending",
                 "sent", "rearm", "rearming"}
  /\ written \in 0 .. SENDBUF_SIZE
  /\ accepted \in Seq(Sizes) /\ Len(accepted) <= MaxPackets
  /\ delivered \in Seq(Seq(Byte))

StreamInit ==
  /\ fdSet \in FdSets
  /\ sock = "none" /\ isConnected = FALSE /\ event = {} /\ timer = FALSE
  /\ sendBuf = <<>> /\ wire = <<>> /\ recvBuf = <<>>
  /\ sender = "idle" /\ seen = {}
  /\ poller = "poll" /\ ready = {} /\ known = {} /\ written = 0
  /\ accepted = <<>> /\ delivered = <<>> /\ unarmed = FALSE

-----------------------------------------------------------------------------
(***************************************************************************)
(* sendPacket, on any thread.                                              *)
(***************************************************************************)

\* The test for overflow.
Fits(n) == n + Header + Len(sendBuf) <= SENDBUF_SIZE

\* sendPacket up to addEvent.  A packet that does not fit is refused, and
\* nothing changes; without a socket there is nothing to arm.
sendPacket(n) ==
  /\ sender = "idle" /\ Len(accepted) < MaxPackets /\ Fits(n)
  /\ accepted' = Append(accepted, n)
  /\ sendBuf' = sendBuf \o BytesOf(Len(accepted'), n)
  /\ sender' = IF sock = "none" THEN "idle" ELSE "copied"
  /\ UNCHANGED <<fdSet, sock, isConnected, event, timer, wire, recvBuf, seen,
                 pollVars, delivered, unarmed>>

\* addEvent(SOCKET_WRITE) reads the events ...
ReadEvents ==
  /\ sender = "copied"
  /\ sender' = "arming" /\ seen' = event
  /\ UNCHANGED <<fdSet, sock, isConnected, event, timer, sendBuf, wire, recvBuf,
                 pollVars, accepted, delivered, unarmed>>

\* ... and writes them back; the lock is released.
Arm ==
  /\ sender = "arming"
  /\ sender' = "idle" /\ seen' = {}
  /\ event' = seen \cup {WRITE} /\ unarmed' = FALSE
  /\ UNCHANGED <<fdSet, sock, isConnected, timer, sendBuf, wire, recvBuf,
                 pollVars, accepted, delivered>>

-----------------------------------------------------------------------------
(***************************************************************************)
(* Connecting.                                                             *)
(***************************************************************************)

\* Seeded bug: reconnect forgets the timer.
ReconnectOnce ==
  /\ wire' = <<>> /\ recvBuf' = <<>> /\ isConnected' = FALSE /\ timer' = FALSE
  /\ sock' = "pending" /\ event' = {WRITE}
  /\ UNCHANGED unarmed

\* reconnect(): closeSocket, and connect on a new socket, which succeeds at
\* once, is pending, or fails.  Neither buffer of the stream is emptied.
Reconnect ==
  /\ wire' = <<>> /\ recvBuf' = <<>>
  /\ \/ /\ sock' = "up" /\ isConnected' = TRUE
        /\ event' = {READ} /\ timer' = FALSE
        /\ unarmed' = (unarmed \/ sendBuf # <<>>)
     \/ /\ sock' = "pending" /\ isConnected' = FALSE
        /\ event' = {WRITE} /\ timer' = TRUE
        /\ UNCHANGED unarmed
     \/ /\ sock' = "failed" /\ isConnected' = FALSE
        /\ event' = {} /\ timer' = FALSE
        /\ UNCHANGED unarmed

\* connect(), by the owner of the stream.
Connect ==
  /\ sock = "none"
  /\ Reconnect
  /\ UNCHANGED <<fdSet, sendBuf, senderVars, pollVars, accepted, delivered>>

\* What the network and the other end do: a connection is established,
\* refused, or ended by the peer.
Establish ==
  /\ sock = "pending" /\ sock' = "up"
  /\ UNCHANGED <<fdSet, isConnected, event, timer, sendBuf, wire, recvBuf,
                 senderVars, pollVars, accepted, delivered, unarmed>>

Refuse ==
  /\ sock = "pending" /\ sock' = "refused"
  /\ UNCHANGED <<fdSet, isConnected, event, timer, sendBuf, wire, recvBuf,
                 senderVars, pollVars, accepted, delivered, unarmed>>

PeerCloses ==
  /\ sock = "up" /\ sock' = "lost"
  /\ wire' = <<>> /\ recvBuf' = <<>>
  /\ UNCHANGED <<fdSet, isConnected, event, timer, sendBuf,
                 senderVars, pollVars, accepted, delivered, unarmed>>

-----------------------------------------------------------------------------
(***************************************************************************)
(* SocketRegistryImpl::poll, on the poll thread.                           *)
(***************************************************************************)

\* The timer of the socket has expired: onSocketTimeout.
PollTimeout ==
  /\ poller = "poll" /\ timer
  /\ Reconnect
  /\ UNCHANGED <<fdSet, sendBuf, senderVars, pollVars, accepted, delivered>>

\* FdSet::getEventsReady for the events waited for: poll() reports an error
\* as readable whether or not that was asked for, select() does not.
EventsReady ==
  CASE sock = "up"      -> IF Len(wire) < Wire THEN event \cap {WRITE} ELSE {}
    [] sock = "lost"    -> event
    [] sock = "refused" -> IF fdSet = "poll" /\ event # {}
                           THEN event \cup {READ} ELSE event
    [] sock = "failed"  -> event \cap {WRITE}
    [] OTHER            -> {}

Poll ==
  /\ poller = "poll" /\ EventsReady # {}
  /\ poller' = "dispatch" /\ ready' = EventsReady
  /\ UNCHANGED <<fdSet, sock, isConnected, event, timer, sendBuf, wire, recvBuf,
                 senderVars, known, written, accepted, delivered, unarmed>>

\* onSocketRead fails: onSocketClose leaves a stream that can reconnect as it
\* is, and poll waits for no more events of this socket.
DispatchRead ==
  /\ poller = "dispatch" /\ READ \in ready
  /\ event' = {} /\ poller' = "poll" /\ ready' = {}
  /\ UNCHANGED <<fdSet, sock, isConnected, timer, sendBuf, wire, recvBuf,
                 senderVars, known, written, accepted, delivered, unarmed>>

\* removeEvent(SOCKET_WRITE) reads the events ...
DispatchWrite ==
  /\ poller = "dispatch" /\ READ \notin ready
  /\ poller' = "clearing" /\ ready' = {} /\ known' = event
  /\ UNCHANGED <<fdSet, sock, isConnected, event, timer, sendBuf, wire, recvBuf,
                 senderVars, written, accepted, delivered, unarmed>>

\* ... and writes them; the timer is off; onSocketWrite: onSocketConnect reads
\* the events if the stream was not connected.
Clear ==
  /\ poller = "clearing"
  /\ event' = known \ {WRITE} /\ timer' = FALSE
  /\ isConnected' = TRUE
  /\ IF isConnected THEN poller' = "sending" /\ known' = {}
                    ELSE poller' = "connecting" /\ known' = event'
  /\ UNCHANGED <<fdSet, sock, sendBuf, wire, recvBuf, senderVars, ready,
                 written, accepted, delivered, unarmed>>

\* addEvent(SOCKET_READ) of onSocketConnect writes the events.
OnSocketConnect ==
  /\ poller = "connecting"
  /\ event' = known \cup {READ} /\ known' = {} /\ poller' = "sending"
  /\ UNCHANGED <<fdSet, sock, isConnected, timer, sendBuf, wire, recvBuf,
                 senderVars, ready, written, accepted, delivered, unarmed>>

\* send() with the sendBufSize of this moment, without the lock.  On a
\* connection that has ended it fails, or its bytes go nowhere.
Send ==
  /\ poller = "sending"
  /\ IF sendBuf = <<>> THEN poller' = "poll" /\ UNCHANGED <<wire, written>>
     ELSE /\ poller' = "sent"
          /\ \/ /\ sock = "up"
                /\ \E n \in 1 .. Wire - Len(wire) :
                     /\ n <= Len(sendBuf)
                     /\ written' = n /\ wire' = wire \o SubSeq(sendBuf, 1, n)
             \/ /\ Broken /\ written' \in {0} \cup {Len(sendBuf) : b \in {sock} \cap {"lost"}}
                /\ UNCHANGED wire
  /\ UNCHANGED <<fdSet, sock, isConnected, event, timer, sendBuf, recvBuf,
                 senderVars, ready, known, accepted, delivered, unarmed>>

\* Seeded bug: the buffer is emptied whatever send() took.
ShrinkAll ==
  /\ poller = "sent" /\ sender = "idle"
  /\ sendBuf' = <<>> /\ written' = 0 /\ poller' = "rearm"
  /\ UNCHANGED <<fdSet, sock, isConnected, event, timer, wire, recvBuf,
                 senderVars, ready, known, accepted, delivered, unarmed>>

\* The bytes sent leave the buffer, under the lock.
Shrink ==
  /\ poller = "sent" /\ (written = 0 \/ sender = "idle")
  /\ sendBuf' = SubSeq(sendBuf, written + 1, Len(sendBuf))
  /\ written' = 0 /\ poller' = "rearm"
  /\ UNCHANGED <<fdSet, sock, isConnected, event, timer, wire, recvBuf,
                 senderVars, ready, known, accepted, delivered, unarmed>>

\* Seeded bug: what send() did not take waits for the next packet.
RearmNever ==
  /\ poller = "rearm" /\ poller' = "poll"
  /\ UNCHANGED <<fdSet, sock, isConnected, event, timer, sendBuf, wire, recvBuf,
                 senderVars, ready, known, written, accepted, delivered, unarmed>>

\* onSocketWrite asks to go on if there is data left.
Rearm ==
  /\ poller = "rearm"
  /\ IF sendBuf = <<>> THEN poller' = "poll" /\ UNCHANGED known
                       ELSE poller' = "rearming" /\ known' = event
  /\ UNCHANGED <<fdSet, sock, isConnected, event, timer, sendBuf, wire, recvBuf,
                 senderVars, ready, written, accepted, delivered, unarmed>>

Rearmed ==
  /\ poller = "rearming"
  /\ event' = known \cup {WRITE} /\ unarmed' = FALSE
  /\ known' = {} /\ poller' = "poll"
  /\ UNCHANGED <<fdSet, sock, isConnected, timer, sendBuf, wire, recvBuf,
                 senderVars, ready, written, accepted, delivered>>

-----------------------------------------------------------------------------
(***************************************************************************)
(* The other end, a TCPStream on an accepted socket.                       *)
(***************************************************************************)

\* One more byte: the length in front of the buffer says where a packet ends.
Cut(acc, b) ==
  LET buf == Append(acc.buf, b)
  IN IF Len(buf) > Header /\ Len(buf) >= accepted[buf[1][1]] + Header
     THEN [buf |-> <<>>, out |-> Append(acc.out, buf)]
     ELSE [acc EXCEPT !.buf = buf]

\* All of bytes, one after the other.
CutAll(start, bytes) ==
  LET cut[i \in 0 .. Len(bytes)] ==
        IF i = 0 THEN start ELSE Cut(cut[i - 1], bytes[i])
  IN  cut[Len(bytes)]

\* onSocketRead, which takes any number of the bytes that have come.
Receive ==
  /\ sock = "up"
  /\ \E n \in 1 .. Len(wire) :
       LET cut == CutAll([buf |-> recvBuf, out |-> delivered], SubSeq(wire, 1, n))
       IN /\ n <= RECVBUF_SIZE - Len(recvBuf)
          /\ wire' = SubSeq(wire, n + 1, Len(wire))
          /\ recvBuf' = cut.buf /\ delivered' = cut.out
  /\ UNCHANGED <<fdSet, sock, isConnected, event, timer, sendBuf, senderVars,
                 pollVars, accepted, unarmed>>

-----------------------------------------------------------------------------
PollThread ==
  \/ Poll \/ DispatchRead \/ DispatchWrite \/ Clear \/ OnSocketConnect
  \/ Send \/ Shrink \/ Rearm \/ Rearmed

StreamNext ==
  \/ Connect \/ Establish \/ Refuse \/ PeerCloses
  \/ (\E n \in Sizes : sendPacket(n)) \/ ReadEvents \/ Arm
  \/ PollTimeout \/ PollThread
  \/ Receive

StreamSpec == StreamInit /\ [][StreamNext]_streamVars

\* Threads go on, timers expire, a stream that is connected is read at its
\* other end, a peer that is tried again and again answers, and not every
\* time so late that the timer is first.
StreamFairSpec ==
  /\ StreamSpec
  /\ WF_streamVars(Connect) /\ WF_streamVars(ReadEvents \/ Arm)
  /\ WF_streamVars(PollThread) /\ WF_streamVars(PollTimeout)
  /\ SF_streamVars(sock = "up" /\ Poll)
  /\ WF_streamVars(Receive) /\ SF_streamVars(Establish)

-----------------------------------------------------------------------------
(***************************************************************************)
(* Properties.                                                             *)
(***************************************************************************)

\* Whatever the threads do, the other end gets the packets as they were put
\* into the buffer: whole, in order and none twice; and while the connection
\* lasts every byte of them is in one of the three buffers.
Whole ==
  /\ StreamTypeOK
  /\ \A i \in DOMAIN delivered : i \in DOMAIN accepted /\ delivered[i] = Bytes(i)
  /\ (sock \in {"none", "pending", "up"}) =>
       FlattenSeq(delivered) \o recvBuf \o wire
         \o SubSeq(sendBuf, written + 1, Len(sendBuf))
       = FlattenSeq([i \in DOMAIN accepted |-> Bytes(i)])

\* Data in the buffer of a live stream is never forgotten, although |= and &=
\* of two threads can undo each other: SOCKET_WRITE is armed, or somebody is
\* about to arm it or to send.  (reconnect() that succeeds at once does not
\* arm it for data that was waiting.)
NoLostWakeup ==
  \/ sendBuf = <<>> \/ sock \in {"none", "failed", "lost", "refused"} \/ unarmed
  \/ WRITE \in event \/ sender # "idle" \/ poller # "poll"

\* A packet put into the buffer is delivered, after as many attempts to
\* connect as it takes, unless a connection is refused or lost for good, or
\* the packet waits for an event that reconnect() did not arm.
Drains ==
  \A n \in 1 .. MaxPackets :
    (Len(accepted) >= n) ~>
      (Len(delivered) >= n \/ unarmed \/ sock \in {"failed", "lost"}
         \/ (sock = "refused" /\ fdSet = "select"))
=============================================================================
