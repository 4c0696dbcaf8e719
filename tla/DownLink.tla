------------------------------ MODULE DownLink ------------------------------
(***************************************************************************)
(* The server-to-client half of one LinQ session.  Session (linqd/src/c2s) *)
(* numbers its packets with a plain uint16, queues them until they are     *)
(* acknowledged and drops them silently after MAX_SEND_ATTEMPTS            *)
(* retransmissions or when the session is deleted; UDPSession (liblinq)    *)
(* acknowledges every packet and filters duplicates with a bitmap of all   *)
(* 2^16 numbers, which it clears only in reset(), when a new session       *)
(* begins.                                                                 *)
(*                                                                         *)
(* A packet's position in the stream, num, is not on the wire.  The timer  *)
(* is left to the module C2S: here any packets of the queue may expire.    *)
(***************************************************************************)
EXTENDS Integers, FiniteSets

CONSTANTS
  SEQ_SPACE,          \* values of a uint16, 0x10000 in the code
  MAX_SEND_ATTEMPTS,  \* retransmissions before a packet is dropped, 2
  InitialSeq,         \* sequence number of the client's first packet
  MaxPackets          \* bound: packets the server sends in the session

ASSUME DownLinkAssumption ==
  /\ SEQ_SPACE \in Nat \ {0}
  /\ InitialSeq \in 0 .. SEQ_SPACE - 1
  /\ MAX_SEND_ATTEMPTS \in Nat /\ MaxPackets \in Nat

VARIABLES
  \* server: Session
  open,        \* the Session object exists
  sendSeq,     \* last sequence number used
  sendQueue,   \* packets sent and not acknowledged
  \* network
  net,         \* datagrams on their way to the client
  acks,        \* CMD_ACK datagrams on their way back
  \* client: UDPSession
  seqWindow,   \* numbers whose bit is set
  \* history
  sent,        \* packets submitted so far
  processed,   \* positions dispatched to a handler
  replayed,    \* positions dispatched again
  acked,       \* positions taken off the queue by onAck
  failed       \* positions dropped

serverVars == <<open, sendSeq, sendQueue, sent, acked, failed>>
clientVars == <<seqWindow, processed, replayed>>
vars == <<serverVars, clientVars, net, acks>>

Seqs == 0 .. SEQ_SPACE - 1
Datagrams == [num : Nat \ {0}, seq : Seqs]
Entries == [num : Nat \ {0}, seq : Seqs, attempts : Nat]

Wire(e) == [num |-> e.num, seq |-> e.seq]

TypeOK ==
  /\ open \in BOOLEAN
  /\ sendSeq \in Seqs
  /\ sendQueue \subseteq Entries
  /\ net \subseteq Datagrams /\ acks \subseteq Datagrams
  /\ seqWindow \subseteq Seqs
  /\ sent \in Nat
  /\ processed \subseteq Nat /\ replayed \subseteq Nat
  /\ acked \subseteq Nat /\ failed \subseteq Nat

\* The constructor has run on the client's first packet.
Init ==
  /\ open = TRUE /\ sendSeq = InitialSeq /\ sendQueue = {}
  /\ net = {} /\ acks = {}
  /\ seqWindow = {}
  /\ sent = 0
  /\ processed = {} /\ replayed = {}
  /\ acked = {} /\ failed = {}

-----------------------------------------------------------------------------
(***************************************************************************)
(* Server.                                                                 *)
(***************************************************************************)

\* ++sendSeq on a uint16.
Advanced(seq) == IF seq = SEQ_SPACE - 1 THEN 0 ELSE seq + 1

\* Session::deliver.  When sendto fails the packet is freed, not queued.
Deliver(ok) ==
  LET num == sent + 1
      seq == Advanced(sendSeq)
  IN /\ open /\ sent < MaxPackets
     /\ sent' = num /\ sendSeq' = seq
     /\ IF ok
        THEN /\ sendQueue' = sendQueue \cup
                  {[num |-> num, seq |-> seq, attempts |-> MAX_SEND_ATTEMPTS]}
             /\ net' = net \cup {[num |-> num, seq |-> seq]}
             /\ UNCHANGED failed
        ELSE /\ failed' = failed \cup {num}
             /\ UNCHANGED <<sendQueue, net>>
     /\ UNCHANGED <<open, acked, acks, clientVars>>

Retried(e) == [e EXCEPT !.attempts = @ - 1]

\* C2S::checkSendQueue, as far as this session's packets are concerned.
CheckSendQueue(expired) ==
  LET retried == {e \in expired : e.attempts > 0}
  IN /\ open /\ expired # {}
     /\ sendQueue' = (sendQueue \ expired) \cup {Retried(e) : e \in retried}
     /\ net' = net \cup {Wire(e) : e \in retried}
     /\ failed' = failed \cup {e.num : e \in expired \ retried}
     /\ UNCHANGED <<open, sendSeq, sent, acked, acks, clientVars>>

\* Seeded bug: an acknowledgement covers the lower numbers too.
MatchingCumulative(a) == {e \in sendQueue : e.seq <= a.seq}

\* The packets onAck finds: those numbered as the acknowledgement says.  The
\* loop stops at the oldest one.
Matching(a) == {e \in sendQueue : e.seq = a.seq}
Oldest(entries) == {e \in entries : \A f \in entries : e.num <= f.num}

\* Seeded bug: the acknowledged packet stays in the queue.
OnAckKeepingEntry(a) ==
  /\ open
  /\ acks' \in {acks, acks \ {a}}
  /\ acked' = acked \cup {e.num : e \in Oldest(Matching(a))}
  /\ UNCHANGED <<open, sendQueue, sendSeq, sent, failed, net, clientVars>>

OnAck(a) ==
  /\ open
  /\ acks' \in {acks, acks \ {a}}
  /\ LET done == Oldest(Matching(a)) IN
     /\ sendQueue' = sendQueue \ done
     /\ acked' = acked \cup {e.num : e \in done}
  /\ UNCHANGED <<open, sendSeq, sent, failed, net, clientVars>>

\* ~Session frees the packets still queued.
Close ==
  /\ open /\ open' = FALSE
  /\ sendQueue' = {}
  /\ failed' = failed \cup {e.num : e \in sendQueue}
  /\ UNCHANGED <<sendSeq, sent, acked, net, acks, clientVars>>

-----------------------------------------------------------------------------
(***************************************************************************)
(* Client.                                                                 *)
(***************************************************************************)

\* UDPSession::onPacketReceived acknowledges, then asks checkSeq.
OnPacketReceived(m) ==
  /\ net' \in {net, net \ {m}}
  /\ acks' = acks \cup {m}
  /\ IF m.seq \in seqWindow
     THEN UNCHANGED clientVars
     ELSE /\ seqWindow' = seqWindow \cup {m.seq}
          /\ processed' = processed \cup {m.num}
          /\ replayed' = IF m.num \in processed
                         THEN replayed \cup {m.num} ELSE replayed
  /\ UNCHANGED serverVars

Lose(m) ==
  \/ m \in net /\ net' = net \ {m} /\ UNCHANGED <<acks, serverVars, clientVars>>
  \/ m \in acks /\ acks' = acks \ {m} /\ UNCHANGED <<net, serverVars, clientVars>>

Next ==
  \/ \E ok \in BOOLEAN : Deliver(ok)
  \/ \E expired \in SUBSET sendQueue : CheckSendQueue(expired)
  \/ \E a \in acks : OnAck(a)
  \/ Close
  \/ \E m \in net : OnPacketReceived(m)
  \/ \E m \in net \cup acks : Lose(m)

Spec == Init /\ [][Next]_vars

-----------------------------------------------------------------------------
(***************************************************************************)
(* Properties.                                                             *)
(***************************************************************************)

\* The numbers of the session are still distinct.
Unwrapped == sent <= SEQ_SPACE

\* Until the numbers come round, a packet the server takes off its queue as
\* acknowledged was dispatched by the client, although the client
\* acknowledges before it filters.  (Afterwards the bitmap, never cleared
\* within a session, turns every packet away and still acknowledges it.)
AckedMeansProcessed == Unwrapped => acked \subseteq processed

\* x is numbered by its position.
Numbered(x) ==
  /\ x.num <= sent
  /\ Unwrapped => x.seq - InitialSeq - x.num \in {0, -SEQ_SPACE}

\* The inductive invariant behind AckedMeansProcessed.
DownLinkInv ==
  /\ \A x \in net \cup acks \cup sendQueue : Numbered(x)
  /\ Unwrapped => sendSeq - InitialSeq - sent \in {0, -SEQ_SPACE}
  /\ \A x, y \in net \cup sendQueue : x.num = y.num => x.seq = y.seq
  /\ \A m \in net \cup sendQueue : m.num \in processed => m.seq \in seqWindow
  /\ Unwrapped =>
       /\ \A s \in seqWindow :
            \E n \in processed : s - InitialSeq - n \in {0, -SEQ_SPACE}
       /\ processed \subseteq 1 .. sent
       /\ \A a \in acks : a.num \in processed
       /\ acked \subseteq processed
  /\ \A n \in processed : n <= sent
  /\ replayed = {}

\* Each packet is queued, acknowledged or dropped, and only one of the three.
OneOutcome ==
  LET waiting == {e.num : e \in sendQueue} IN
  /\ waiting \cup acked \cup failed = 1 .. sent
  /\ waiting \cap acked = {} /\ waiting \cap failed = {}
  /\ acked \cap failed = {}

\* The link keeps the promises of Delivery until its numbers come round.
Promise == INSTANCE Delivery WITH
  submitted <- sent, delivered <- processed, confirmed <- acked,
  abandoned <- failed, sound <- Unwrapped
Refines == Promise!Spec
=============================================================================
