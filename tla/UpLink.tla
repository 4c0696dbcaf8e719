------------------------------- MODULE UpLink -------------------------------
(***************************************************************************)
(* The client-to-server half of one LinQ session.  UDPSession (liblinq)    *)
(* numbers its packets with 15-bit sequence numbers, keeps them in         *)
(* sendQueue until they are acknowledged and gives them up after           *)
(* MAX_SEND_ATTEMPTS; Session (linqd/src/c2s) acknowledges every packet    *)
(* and filters duplicates with a window that slides over seqWindow.        *)
(*                                                                         *)
(* A packet's position in the stream, num, is not on the wire; it is kept  *)
(* beside the sequence number so that properties can speak about it.  The  *)
(* window is the set of its bit positions, a queue entry's expiry is       *)
(* counted down in ttl, and the queue is a set: every entry is appended    *)
(* with the same timeout, so the entries the loop of checkSendQueue takes  *)
(* from the front are those whose time has come.                           *)
(***************************************************************************)
EXTENDS Integers, FiniteSets

CONSTANTS
  MAX_SEQ,            \* number of sequence numbers, 0x8000 in the code
  SEQ_WIN_SIZE,       \* bits in seqWindow, 32 in the code
  MAX_SEND_ATTEMPTS,  \* transmissions before a packet is given up, 3
  SEND_TIMEOUT,       \* ticks before a retransmission, 6 seconds
  InitialSeq,         \* sendSeq as reset() draws it
  KeepAlives,         \* positions of the packets that are keepalives
  MaxAge,             \* a datagram does not outlive this many later packets
  MaxPackets          \* bound: packets the client submits in the session

ASSUME SeqAssumption ==
  /\ MAX_SEQ \in Nat /\ SEQ_WIN_SIZE \in Nat \ {0}
  /\ MaxAge \in Nat \ {0} /\ MaxAge + SEQ_WIN_SIZE < MAX_SEQ
  /\ InitialSeq \in 0 .. MAX_SEQ - 1
ASSUME TimerAssumption ==
  /\ MAX_SEND_ATTEMPTS \in Nat \ {0}
  /\ SEND_TIMEOUT \in Nat \ {0}
  /\ MaxPackets \in Nat

VARIABLES
  \* client: UDPSession
  sendSeq,     \* last sequence number used
  sendQueue,   \* packets sent and not acknowledged
  \* network
  net,         \* datagrams on their way to the server
  acks,        \* CMD_ACK datagrams on their way back
  \* server: Session
  open,        \* the Session object exists
  recvSeq,     \* lowest sequence number not received yet
  seqWindow,   \* bits set: distances from recvSeq already received
  online,      \* isOnline
  routed,      \* realServer is not NULL
  \* history
  sent,        \* packets submitted so far
  recvNum,     \* stream position that recvSeq stands for
  accepted,    \* positions that setSeq let through
  replayed,    \* positions that it let through again
  handled,     \* positions that a handler saw
  acked,       \* positions reported by onAck
  failed,      \* positions reported by onSendError or onConnect(false)
  outran       \* a packet was sent too far ahead of one not let through

clientVars == <<sendSeq, sendQueue, sent, acked, failed, outran>>
serverVars == <<open, recvSeq, seqWindow, online, routed, recvNum, accepted, replayed, handled>>
vars == <<clientVars, serverVars, net, acks>>

Seqs == 0 .. MAX_SEQ - 1
Datagrams == [num : Nat \ {0}, seq : Seqs]
Entries == [num : Nat \ {0}, seq : Seqs, attempts : Nat, ttl : Nat]

\* x & (MAX_SEQ - 1), for the sums that occur: 0 <= x < 2 * MAX_SEQ.
Mask(x) == IF x >= MAX_SEQ THEN x - MAX_SEQ ELSE x

\* The network forgets a datagram before its sequence number comes round:
\* those that are MaxAge packets old when packet num is sent are gone.
Recent(datagrams, num) == {m \in datagrams : num - m.num < MaxAge}

Wire(e) == [num |-> e.num, seq |-> e.seq]

TypeOK ==
  /\ sendSeq \in Seqs
  /\ sendQueue \subseteq Entries
  /\ net \subseteq Datagrams
  /\ acks \subseteq Datagrams
  /\ {open, online, routed} \subseteq BOOLEAN
  /\ recvSeq \in Seqs
  /\ seqWindow \subseteq 0 .. SEQ_WIN_SIZE - 1
  /\ sent \in Nat
  /\ recvNum \in Nat \ {0}
  /\ accepted \subseteq Nat /\ replayed \subseteq Nat /\ handled \subseteq Nat
  /\ acked \subseteq Nat /\ failed \subseteq Nat
  /\ outran \in BOOLEAN

\* reset() has just run: queue empty, a fresh session id on both sides.
Init ==
  /\ sendSeq = InitialSeq /\ sendQueue = {}
  /\ net = {} /\ acks = {}
  /\ open = FALSE /\ recvSeq = 0 /\ seqWindow = {}
  /\ sent = 0 /\ recvNum = 1
  /\ online = FALSE /\ routed = FALSE
  /\ accepted = {} /\ replayed = {} /\ handled = {}
  /\ acked = {} /\ failed = {}
  /\ outran = FALSE

-----------------------------------------------------------------------------
(***************************************************************************)
(* Client.                                                                 *)
(***************************************************************************)

\* Some packet SEQ_WIN_SIZE or more positions before num was not let through.
Outruns(num) == \E k \in 1 .. num - SEQ_WIN_SIZE : k \notin accepted

\* createPacket and sendPacket.  The first packet is the LOGIN.  The windows
\* send the others when the login has succeeded, but a keepalive timer left
\* over from an earlier connection minds nothing.
SendPacket ==
  LET num == sent + 1
      seq == Mask(sendSeq + 1)
  IN /\ sent < MaxPackets
     /\ num = 1 \/ num \in KeepAlives \/ online
     \* the client does not send MaxAge packets within one packet's retries
     /\ \A e \in sendQueue : num - e.num < MaxAge
     /\ sent' = num
     /\ sendSeq' = seq
     /\ sendQueue' = sendQueue \cup
          {[num |-> num, seq |-> seq, attempts |-> 0, ttl |-> SEND_TIMEOUT]}
     /\ net' = Recent(net, num) \cup {[num |-> num, seq |-> seq]}
     /\ acks' = Recent(acks, num)
     /\ outran' = (outran \/ Outruns(num))
     /\ UNCHANGED <<acked, failed, serverVars>>

Aged(e, elapsed) == [e EXCEPT !.ttl = @ - elapsed]
\* Seeded bug: a retransmission is not counted as an attempt.
RetriedUncounted(e) == [num |-> e.num, seq |-> e.seq,
                        attempts |-> e.attempts, ttl |-> SEND_TIMEOUT]
Retried(e) == [num |-> e.num, seq |-> e.seq,
               attempts |-> e.attempts + 1, ttl |-> SEND_TIMEOUT]

\* Seeded bug: the error is reported at every timeout, not at the last.
CheckSendQueueReportingEarly(elapsed) ==
  LET expired == {e \in sendQueue : e.ttl <= elapsed}
      retried == {e \in expired : e.attempts + 1 < MAX_SEND_ATTEMPTS}
  IN /\ sendQueue # {}
     /\ sendQueue' =
          {Aged(e, elapsed) : e \in sendQueue \ expired} \cup
          {Retried(e) : e \in retried}
     /\ net' = net \cup {Wire(e) : e \in retried}
     /\ failed' = failed \cup {e.num : e \in expired}
     /\ UNCHANGED <<sendSeq, sent, acked, outran, acks, serverVars>>

\* The timer callback: elapsed ticks have passed since it last ran.
CheckSendQueue(elapsed) ==
  LET expired == {e \in sendQueue : e.ttl <= elapsed}
      retried == {e \in expired : e.attempts + 1 < MAX_SEND_ATTEMPTS}
  IN /\ sendQueue # {}
     /\ sendQueue' =
          {Aged(e, elapsed) : e \in sendQueue \ expired} \cup
          {Retried(e) : e \in retried}
     /\ net' = net \cup {Wire(e) : e \in retried}
     /\ failed' = failed \cup {e.num : e \in expired \ retried}
     /\ UNCHANGED <<sendSeq, sent, acked, outran, acks, serverVars>>

\* onAck erases the entry with the sequence number and tells the listener.
OnAck(a) ==
  /\ a \in acks
  /\ acks' \in {acks, acks \ {a}}
  /\ LET matching == {e \in sendQueue : e.seq = a.seq}
     IN /\ sendQueue' = sendQueue \ matching
        /\ acked' = acked \cup {e.num : e \in matching}
  /\ UNCHANGED <<sendSeq, sent, failed, outran, net, serverVars>>

-----------------------------------------------------------------------------
(***************************************************************************)
(* Server.                                                                 *)
(***************************************************************************)

\* Seeded bug: numbers that have come round look too far ahead.
DistanceUnwrapped(seq, base) == IF seq < base THEN MAX_SEQ ELSE seq - base

\* How far ahead of base the sequence number lies, counted modulo MAX_SEQ.
Distance(seq, base) == IF seq < base THEN seq - base + MAX_SEQ ELSE seq - base

\* 1 << d.  A shift by the full width is undefined: x86 shifts by 0, other
\* targets give 0.
Shift(d) == IF d < SEQ_WIN_SIZE THEN {{d}} ELSE {{0}, {}}

\* Seeded bug: sliding clears the window instead of shifting it.
SlidByClearing(k, window) == IF k = 0 THEN window ELSE {}

\* The window after the loop that slides it over its low-order ones.
SlidBy(k, window) == {d - k : d \in {w \in window : w >= k}}
LowOnes(k, window) == 0 .. k - 1 \subseteq window /\ k \notin window

\* onLogin: refused, or logged in, if there is no server to send packets to, too.
OnLogin ==
  /\ online' \in BOOLEAN /\ routed' \in {FALSE, online'}
  /\ handled' = handled \cup {1}

\* The two switches of onPacketReceived.  What is not for c2s goes to the server
\* of the session, if it has one; before the login there is no handler.
Handle(num) ==
  IF num = 1 /\ ~online
  THEN OnLogin
  ELSE /\ handled' = handled \cup {n \in {num} : online /\ (n \in KeepAlives \/ routed)}
       /\ UNCHANGED <<online, routed>>

Dispatch(num) ==
  /\ accepted' = accepted \cup {num}
  /\ replayed' = IF num \in accepted THEN replayed \cup {num} ELSE replayed
  /\ Handle(num)

\* setSeq, then the handler when the packet is new.
SetSeq(m, base, window) ==
  LET d == Distance(m.seq, base) IN
  IF d > SEQ_WIN_SIZE
  THEN /\ recvSeq' = base /\ seqWindow' = window
       /\ UNCHANGED <<recvNum, accepted, replayed, online, routed, handled>>
  ELSE \E mask \in Shift(d) :
         IF mask \cap window # {}
         THEN /\ recvSeq' = base /\ seqWindow' = window
              /\ UNCHANGED <<recvNum, accepted, replayed, online, routed, handled>>
         ELSE \E k \in 0 .. SEQ_WIN_SIZE :
                /\ LowOnes(k, window \cup mask)
                /\ recvSeq' = Mask(base + k)
                /\ seqWindow' = SlidBy(k, window \cup mask)
                /\ recvNum' = recvNum + k
                /\ Dispatch(m.num)

\* The datagram is consumed, or the network delivers another copy later.
Arrives(m) == m \in net /\ net' \in {net, net \ {m}}

\* C2S::onPacketReceived for an address without a session: only LOGIN opens
\* one, numbered from that packet; anything else is dropped unanswered.
OnPacketOpening(m) ==
  /\ ~open /\ Arrives(m)
  /\ IF m.num = 1
     THEN /\ open' = TRUE
          /\ acks' = acks \cup {m}
          /\ SetSeq(m, m.seq, {})
     ELSE UNCHANGED <<serverVars, acks>>
  /\ UNCHANGED clientVars

\* Session::onPacketReceived acknowledges before it looks at the window.
OnPacketReceived(m) ==
  /\ open /\ Arrives(m)
  /\ acks' = acks \cup {m}
  /\ SetSeq(m, recvSeq, seqWindow)
  /\ UNCHANGED <<open, clientVars>>

-----------------------------------------------------------------------------
Lose(m) ==
  \/ m \in net /\ net' = net \ {m} /\ UNCHANGED <<acks, clientVars, serverVars>>
  \/ m \in acks /\ acks' = acks \ {m} /\ UNCHANGED <<net, clientVars, serverVars>>

Next ==
  \/ SendPacket
  \/ \E elapsed \in 1 .. SEND_TIMEOUT : CheckSendQueue(elapsed)
  \/ \E a \in acks : OnAck(a)
  \/ \E m \in net : OnPacketOpening(m) \/ OnPacketReceived(m)
  \/ \E m \in net \cup acks : Lose(m)

Spec == Init /\ [][Next]_vars

\* onConnect(false) was called: the LOGIN or a keepalive was given up.
ConnectionLost == failed \cap ({1} \cup KeepAlives) # {}

\* The listener's timer keeps calling checkSendQueue until it is told that the
\* connection is lost.
FairSpec ==
  Spec /\ WF_vars(~ConnectionLost /\
                  \E elapsed \in 1 .. SEND_TIMEOUT : CheckSendQueue(elapsed))

-----------------------------------------------------------------------------
(***************************************************************************)
(* Properties.                                                             *)
(***************************************************************************)

\* While the client never sends a packet SEQ_WIN_SIZE ahead of one that the
\* server has not let through, the sliding window of setSeq lets no packet
\* through twice, however datagrams are duplicated, delayed or retried.
AtMostOnce == outran \/ replayed = {}

\* Logged in while no linqd was there (session.cpp:390): the session never gets
\* a server, and what is sent to it is acknowledged and dropped (session.cpp:501).
Unrouted == online /\ ~routed

\* Under the same condition an acknowledgement means what the sender takes it
\* for, unless the session has no server: although sendAck runs before setSeq,
\* and before anyone looks whether there is a handler, a packet reported by onAck
\* was handled by c2s or given to the server.  (A keepalive asks for nothing but
\* its acknowledgement; before the login nobody handles it.)
AckedMeansProcessed == outran \/ Unrouted \/ acked \ KeepAlives \subseteq handled

\* Each submitted packet is waiting, acknowledged or given up, and only one
\* of the three: a late CMD_ACK does not revive a packet given up and a
\* packet acknowledged is not reported lost by checkSendQueue.
OneOutcome ==
  LET waiting == {e.num : e \in sendQueue} IN
  /\ waiting \cup acked \cup failed = 1 .. sent
  /\ waiting \cap acked = {} /\ waiting \cap failed = {}
  /\ acked \cap failed = {}

\* x is a datagram or a queue entry of an earlier packet: it is at most MaxAge
\* positions old, and its sequence number trails sendSeq by its age, counted
\* modulo MAX_SEQ.
Behind(x) ==
  /\ x.num <= sent /\ sent - x.num < MaxAge
  /\ sendSeq - x.seq \in {sent - x.num, sent - x.num - MAX_SEQ}

SenderInv ==
  /\ \A m \in net \cup acks : Behind(m)
  /\ \A e \in sendQueue : Behind(e)
  /\ \A e, f \in sendQueue : e.num = f.num => e = f

\* What setSeq counts from: LOGIN's number before the session exists.
Origin == IF open THEN recvSeq ELSE Mask(InitialSeq + 1)

\* recvSeq and seqWindow describe exactly the positions let through.
WindowInv ==
  /\ recvNum <= sent + 1 /\ sent < recvNum + SEQ_WIN_SIZE
  /\ 0 \notin seqWindow
  /\ accepted = (1 .. recvNum - 1) \cup {recvNum + d : d \in seqWindow}
  /\ accepted \subseteq 1 .. sent
  /\ (sendSeq - Origin) - (sent - recvNum) \in {-MAX_SEQ, 0, MAX_SEQ}

\* The inductive invariant behind AtMostOnce and AckedMeansProcessed: the
\* numbers in flight are too recent to be taken for later ones, and until
\* the client outruns the window nothing is acknowledged that setSeq rejects.
LinkInv ==
  /\ SenderInv
  /\ ~open => /\ recvNum = 1 /\ seqWindow = {}
              /\ accepted = {} /\ acks = {} /\ acked = {}
  /\ ~outran => /\ WindowInv
                /\ \A a \in acks : a.num \in accepted
                /\ acked \subseteq accepted
                /\ replayed = {}

\* A packet other than a keepalive is sent to a session that is online, and what
\* setSeq lets through there finds its handler.
HeardInv ==
  /\ (2 .. sent) \ KeepAlives # {} => online
  /\ ~Unrouted => accepted \ KeepAlives \subseteq handled

\* Every packet's outcome is reported in the end, or the loss of the whole
\* connection is: retries are bounded, and an acknowledgement that never
\* comes is not waited for.
OutcomeReported ==
  \A n \in 1 .. MaxPackets :
    (\E e \in sendQueue : e.num = n)
      ~> (n \in acked \cup failed \/ ConnectionLost)

\* The link keeps the promises of Delivery.
Promise == INSTANCE Delivery WITH
  submitted <- sent, delivered <- accepted, confirmed <- acked,
  abandoned <- failed, sound <- ~outran
Refines == Promise!Spec
=============================================================================
