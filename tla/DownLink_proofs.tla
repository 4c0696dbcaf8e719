--------------------------- MODULE DownLink_proofs ---------------------------
(***************************************************************************)
(* Proofs about what comes down to the users.  First the server-to-client  *)
(* link: its type invariant, the inductive invariant DownLinkInv, what an  *)
(* acknowledgement means, and that the link implements Delivery.  Then the *)
(* users (Messenger): the two rows of a relation agree, a session tells    *)
(* those and only those who subscribed, and sm has the sessions it should. *)
(* What users see and their messages are in Messenger_proofs.  All for     *)
(* every value of the constants.                                           *)
(***************************************************************************)
EXTENDS DownLink, Messenger, ChainLemmas, TLAPS

\* Advanced counts modulo SEQ_SPACE.
LEMMA AdvancedSeq ==
  ASSUME NEW seq \in Seqs
  PROVE  Advanced(seq) \in Seqs /\ Advanced(seq) - seq \in {1, 1 - SEQ_SPACE}
BY DownLinkAssumption DEF Advanced, Seqs

\* Two numbers that belong to positions of one round are equal only for equal
\* positions.
LEMMA DistinctNumbers ==
  ASSUME NEW m \in Nat, NEW n \in Nat, m \in 1 .. SEQ_SPACE, n \in 1 .. SEQ_SPACE,
         NEW s \in Int,
         s - InitialSeq - m \in {0, -SEQ_SPACE},
         s - InitialSeq - n \in {0, -SEQ_SPACE}
  PROVE  m = n
BY DownLinkAssumption

\* A retransmission changes the attempts only.
LEMMA RetriedEntry ==
  ASSUME NEW e \in Entries, e.attempts > 0
  PROVE  /\ Retried(e) \in Entries
         /\ Retried(e).num = e.num /\ Retried(e).seq = e.seq
         /\ Wire(e) \in Datagrams /\ Wire(e).num = e.num /\ Wire(e).seq = e.seq
BY DEF Entries, Datagrams, Retried, Wire

\* Every reachable state is well typed.
THEOREM TypeCorrect == Spec => []TypeOK
<1>1. Init => TypeOK
  BY DownLinkAssumption DEF Init, TypeOK, Seqs
<1>2. TypeOK /\ [Next]_vars => TypeOK'
  <2> SUFFICES ASSUME TypeOK, [Next]_vars PROVE TypeOK'
    OBVIOUS
  <2>1. ASSUME NEW ok \in BOOLEAN, Deliver(ok) PROVE TypeOK'
    <3> DEFINE entry == [num |-> sent + 1, seq |-> Advanced(sendSeq),
                         attempts |-> MAX_SEND_ATTEMPTS]
               wire == [num |-> sent + 1, seq |-> Advanced(sendSeq)]
    <3>1. Advanced(sendSeq) \in Seqs /\ sent + 1 \in Nat \ {0}
      BY AdvancedSeq DEF TypeOK
    <3>2. entry \in Entries /\ wire \in Datagrams
      BY <3>1, DownLinkAssumption DEF Entries, Datagrams
    <3> QED
      BY <2>1, <3>1, <3>2 DEF Deliver, TypeOK, clientVars
  <2>2. ASSUME NEW expired \in SUBSET sendQueue, CheckSendQueue(expired) PROVE TypeOK'
    <3>1. \A e \in expired : e.attempts > 0 =>
            Retried(e) \in Entries /\ Wire(e) \in Datagrams
      BY RetriedEntry DEF TypeOK
    <3>2. \A e \in expired : e.num \in Nat
      BY DEF TypeOK, Entries
    <3> QED
      BY <2>2, <3>1, <3>2 DEF CheckSendQueue, TypeOK, clientVars
  <2>3. ASSUME NEW a \in acks, OnAck(a) PROVE TypeOK'
    <3>1. \A e \in Oldest(Matching(a)) : e.num \in Nat
      BY DEF TypeOK, Entries, Oldest, Matching
    <3> QED
      BY <2>3, <3>1 DEF OnAck, TypeOK, clientVars
  <2>4. CASE Close
    <3>1. \A e \in sendQueue : e.num \in Nat
      BY DEF TypeOK, Entries
    <3> QED
      BY <2>4, <3>1 DEF Close, TypeOK, clientVars
  <2>5. ASSUME NEW m \in net, OnPacketReceived(m) PROVE TypeOK'
    <3>1. m \in Datagrams /\ m.num \in Nat /\ m.seq \in Seqs
      BY DEF TypeOK, Datagrams
    <3> QED
      BY <2>5, <3>1 DEF OnPacketReceived, TypeOK, clientVars, serverVars
  <2>6. ASSUME NEW m \in net \cup acks, Lose(m) PROVE TypeOK'
    BY <2>6 DEF Lose, TypeOK, clientVars, serverVars
  <2>7. CASE UNCHANGED vars
    BY <2>7 DEF vars, TypeOK, clientVars, serverVars
  <2> QED
    BY <2>1, <2>2, <2>3, <2>4, <2>5, <2>6, <2>7 DEF Next
<1> QED
  BY <1>1, <1>2, PTL DEF Spec

-----------------------------------------------------------------------------
(***************************************************************************)
(* DownLinkInv is inductive.                                               *)
(***************************************************************************)

\* A step that adds no number and changes neither the client nor the history
\* it is compared with, except by removing datagrams and entries or by
\* acknowledging what was dispatched.
LEMMA ShrinkKeeps ==
  ASSUME DownLinkInv,
         \A x \in (net \cup acks \cup sendQueue)' :
            \E y \in net \cup acks \cup sendQueue : x.num = y.num /\ x.seq = y.seq,
         \A x \in (net \cup sendQueue)' :
            \E y \in net \cup sendQueue : x.num = y.num /\ x.seq = y.seq,
         \A a \in acks' : a \in acks,
         Unwrapped => acked' \subseteq acked \cup processed,
         UNCHANGED <<sent, sendSeq, clientVars>>
  PROVE  DownLinkInv'
BY DEF DownLinkInv, Numbered, Unwrapped, clientVars

\* Deliver numbers the new packet by its position.
LEMMA DeliverKeeps ==
  ASSUME TypeOK, DownLinkInv, NEW ok \in BOOLEAN, Deliver(ok)
  PROVE  DownLinkInv'
<1> DEFINE seq == Advanced(sendSeq)
<1>1. /\ sent' = sent + 1 /\ sendSeq' = seq /\ sent \in Nat
      /\ UNCHANGED <<acked, acks, seqWindow, processed, replayed>>
      /\ \A x \in (net \cup sendQueue)' :
           x \in net \cup sendQueue \/ (x.num = sent + 1 /\ x.seq = seq)
  <2> DEFINE entry == [num |-> sent + 1, seq |-> seq,
                       attempts |-> MAX_SEND_ATTEMPTS]
             wire == [num |-> sent + 1, seq |-> seq]
  <2>1. /\ sent' = sent + 1 /\ sendSeq' = seq
        /\ UNCHANGED <<acked, acks, seqWindow, processed, replayed>>
        /\ sendQueue' \subseteq sendQueue \cup {entry}
        /\ net' \subseteq net \cup {wire}
    BY DEF Deliver, clientVars
  <2>2. entry.num = sent + 1 /\ entry.seq = seq /\ wire.num = sent + 1 /\ wire.seq = seq
    OBVIOUS
  <2> HIDE DEF entry, wire, seq
  <2> QED
    BY <2>1, <2>2 DEF TypeOK
<1>2. Unwrapped' => Unwrapped
  BY <1>1, DownLinkAssumption DEF Unwrapped
<1>3. Unwrapped' => seq - InitialSeq - (sent + 1) \in {0, -SEQ_SPACE}
  <2> SUFFICES ASSUME Unwrapped' PROVE seq - InitialSeq - (sent + 1) \in {0, -SEQ_SPACE}
    OBVIOUS
  <2>1. /\ seq \in Seqs /\ sendSeq \in Seqs /\ seq - sendSeq \in {1, 1 - SEQ_SPACE}
        /\ sent + 1 <= SEQ_SPACE
    BY <1>1, AdvancedSeq DEF TypeOK, Unwrapped
  <2>2. sendSeq - InitialSeq - sent \in {0, -SEQ_SPACE}
    BY <1>2 DEF DownLinkInv
  <2> HIDE DEF seq
  <2> QED
    BY <1>1, <2>1, <2>2, DownLinkAssumption DEF Seqs
<1> HIDE DEF seq
<1>4. sent + 1 \notin processed /\ sent + 1 > sent
  BY <1>1 DEF DownLinkInv
<1>5. \A x \in (net \cup acks \cup sendQueue)' : Numbered(x)'
  <2> SUFFICES ASSUME NEW x \in (net \cup acks \cup sendQueue)'
               PROVE  Numbered(x)'
    OBVIOUS
  <2>1. CASE x \in net \cup acks \cup sendQueue
    <3>1. x.num \in Nat /\ Numbered(x)
      BY <2>1 DEF DownLinkInv, TypeOK, Datagrams, Entries
    <3> QED
      BY <1>1, <1>2, <3>1 DEF Numbered
  <2>2. CASE x.num = sent + 1 /\ x.seq = seq
    BY <1>1, <1>3, <2>2 DEF Numbered
  <2> QED
    BY <1>1, <2>1, <2>2
<1>6. \A m \in (net \cup sendQueue)' : m.num \in processed' => m.seq \in seqWindow'
  BY <1>1, <1>4 DEF DownLinkInv
<1>a. \A x, y \in (net \cup sendQueue)' : x.num = y.num => x.seq = y.seq
  <2>1. \A x \in net \cup sendQueue : x.num # sent + 1
    BY <1>1, <1>4 DEF DownLinkInv, Numbered
  <2> QED
    BY <1>1, <2>1 DEF DownLinkInv
<1>7. Unwrapped' =>
        /\ \A s \in seqWindow' :
             \E n \in processed' : s - InitialSeq - n \in {0, -SEQ_SPACE}
        /\ processed' \subseteq 1 .. sent'
        /\ \A a \in acks' : a.num \in processed'
        /\ acked' \subseteq processed'
  <2>1. 1 .. sent \subseteq 1 .. sent'
    BY <1>1
  <2> QED
    BY <1>1, <1>2, <2>1 DEF DownLinkInv
<1>8. \A n \in processed' : n <= sent'
  BY <1>1 DEF DownLinkInv, TypeOK
<1>9. replayed' = {}
  BY <1>1 DEF DownLinkInv
<1> QED
  BY <1>1, <1>3, <1>5, <1>6, <1>a, <1>7, <1>8, <1>9 DEF DownLinkInv

LEMMA CheckSendQueueKeeps ==
  ASSUME TypeOK, DownLinkInv, NEW expired \in SUBSET sendQueue,
         CheckSendQueue(expired)
  PROVE  DownLinkInv'
<1> DEFINE retried == {e \in expired : e.attempts > 0}
<1>1. /\ sendQueue' = (sendQueue \ expired) \cup {Retried(e) : e \in retried}
      /\ net' = net \cup {Wire(e) : e \in retried}
      /\ UNCHANGED <<sent, sendSeq, acked, acks, clientVars>>
  BY DEF CheckSendQueue
<1>2. \A e \in retried :
        /\ e \in sendQueue
        /\ Retried(e).num = e.num /\ Retried(e).seq = e.seq
        /\ Wire(e).num = e.num /\ Wire(e).seq = e.seq
  BY RetriedEntry DEF TypeOK
<1> HIDE DEF retried
<1>3. \A x \in (net \cup sendQueue)' :
        \E y \in net \cup sendQueue : x.num = y.num /\ x.seq = y.seq
  BY <1>1, <1>2
<1> QED
  BY <1>1, <1>3, ShrinkKeeps

\* The entry onAck takes off is the acknowledged packet itself, unless the
\* numbers have come round.
LEMMA OnAckKeeps ==
  ASSUME TypeOK, DownLinkInv, NEW a \in acks, OnAck(a)
  PROVE  /\ Unwrapped => \A e \in Matching(a) : e.num = a.num
         /\ DownLinkInv'
<1>1. ASSUME Unwrapped, NEW e \in Matching(a) PROVE e.num = a.num
  <2>1. e \in sendQueue /\ e.seq = a.seq
    BY DEF Matching
  <2>2. /\ e.num \in Nat \ {0} /\ a.num \in Nat \ {0} /\ a.seq \in Seqs
        /\ sent \in Nat /\ sent <= SEQ_SPACE
    BY <1>1, <2>1 DEF TypeOK, Entries, Datagrams, Unwrapped
  <2>3. Numbered(e) /\ Numbered(a)
    BY <2>1 DEF DownLinkInv
  <2>4. e.num \in 1 .. SEQ_SPACE /\ a.num \in 1 .. SEQ_SPACE /\ a.seq \in Int
    BY <2>2, <2>3, DownLinkAssumption DEF Numbered, Seqs
  <2> QED
    BY <1>1, <2>1, <2>2, <2>3, <2>4, DistinctNumbers DEF Numbered
<1>2. /\ sendQueue' \subseteq sendQueue /\ net' = net /\ acks' \subseteq acks
      /\ acked' = acked \cup {e.num : e \in Oldest(Matching(a))}
      /\ UNCHANGED <<sent, sendSeq, clientVars>>
  BY DEF OnAck
<1>3. Unwrapped => acked' \subseteq acked \cup processed
  BY <1>1, <1>2 DEF DownLinkInv, Oldest
<1>4. DownLinkInv'
  BY <1>2, <1>3, ShrinkKeeps
<1> QED
  BY <1>1, <1>4

\* checkSeq and DownLinkInv.
LEMMA OnPacketReceivedKeeps ==
  ASSUME TypeOK, DownLinkInv, NEW m \in net, OnPacketReceived(m)
  PROVE  DownLinkInv'
<1>1. /\ m.num \in Nat \ {0} /\ m.seq \in Seqs /\ sent \in Nat /\ Numbered(m)
  BY DEF TypeOK, Datagrams, DownLinkInv
<1>2. /\ net' \subseteq net /\ acks' = acks \cup {m}
      /\ UNCHANGED <<sent, sendSeq, sendQueue, acked>>
  BY DEF OnPacketReceived, serverVars
<1>3. \A x \in (net \cup acks \cup sendQueue)' : Numbered(x)'
  BY <1>1, <1>2 DEF DownLinkInv, Numbered, Unwrapped
<1>4. Unwrapped' = Unwrapped
  BY <1>2 DEF Unwrapped
<1>5. CASE m.seq \in seqWindow
  <2>1. UNCHANGED <<seqWindow, processed, replayed>>
    BY <1>5 DEF OnPacketReceived, clientVars
  <2>2. Unwrapped => m.num \in processed
    <3> SUFFICES ASSUME Unwrapped PROVE m.num \in processed
      OBVIOUS
    <3>1. PICK n \in processed : m.seq - InitialSeq - n \in {0, -SEQ_SPACE}
      BY <1>5 DEF DownLinkInv
    <3>2. n \in 1 .. sent /\ sent <= SEQ_SPACE
      BY DEF DownLinkInv, Unwrapped
    <3>3. n \in Nat /\ n \in 1 .. SEQ_SPACE /\ m.num \in 1 .. SEQ_SPACE /\ m.seq \in Int
      BY <1>1, <3>2, DownLinkAssumption DEF Numbered, Seqs
    <3>4. m.seq - InitialSeq - m.num \in {0, -SEQ_SPACE}
      BY <1>1 DEF Numbered
    <3> QED
      BY <1>1, <3>1, <3>3, <3>4, DistinctNumbers
  <2> QED
    BY <1>2, <1>3, <1>4, <2>1, <2>2 DEF DownLinkInv
<1>6. CASE m.seq \notin seqWindow
  <2>1. m.num \notin processed
    BY <1>6 DEF DownLinkInv
  <2>2. /\ seqWindow' = seqWindow \cup {m.seq}
        /\ processed' = processed \cup {m.num}
        /\ replayed' = {}
    BY <1>6, <2>1 DEF OnPacketReceived, DownLinkInv
  <2>3. \A x \in (net \cup sendQueue)' : x.num \in processed' => x.seq \in seqWindow'
    <3> SUFFICES ASSUME NEW x \in net \cup sendQueue, x.num \in processed'
                 PROVE  x.seq \in seqWindow'
      BY <1>2
    <3>1. CASE x.num \in processed
      BY <2>2, <3>1 DEF DownLinkInv
    <3>2. CASE x.num = m.num
      BY <2>2, <3>2 DEF DownLinkInv
    <3> QED
      BY <2>2, <3>1, <3>2
  <2>4. Unwrapped =>
          /\ \A s \in seqWindow' :
               \E n \in processed' : s - InitialSeq - n \in {0, -SEQ_SPACE}
          /\ processed' \subseteq 1 .. sent
          /\ \A a \in acks' : a.num \in processed'
          /\ acked' \subseteq processed'
    <3> SUFFICES ASSUME Unwrapped
                 PROVE  /\ \A s \in seqWindow' :
                             \E n \in processed' : s - InitialSeq - n \in {0, -SEQ_SPACE}
                        /\ processed' \subseteq 1 .. sent
                        /\ \A a \in acks' : a.num \in processed'
                        /\ acked' \subseteq processed'
      OBVIOUS
    <3>1. m.seq - InitialSeq - m.num \in {0, -SEQ_SPACE} /\ m.num \in 1 .. sent
      BY <1>1 DEF Numbered
    <3> QED
      BY <1>2, <2>2, <3>1 DEF DownLinkInv
  <2>5. \A n \in processed' : n <= sent
    BY <1>1, <2>2 DEF DownLinkInv, Numbered
  <2> QED
    BY <1>2, <1>3, <1>4, <2>2, <2>3, <2>4, <2>5 DEF DownLinkInv
<1> QED
  BY <1>5, <1>6

\* DownLinkInv holds in every reachable state.
THEOREM DownLinkInvariant == Spec => []DownLinkInv
<1>1. Init => DownLinkInv
  BY DownLinkAssumption DEF Init, DownLinkInv
<1>2. TypeOK /\ DownLinkInv /\ [Next]_vars => DownLinkInv'
  <2> SUFFICES ASSUME TypeOK, DownLinkInv, [Next]_vars PROVE DownLinkInv'
    OBVIOUS
  <2>1. CASE Close
    BY <2>1, ShrinkKeeps DEF Close
  <2>2. ASSUME NEW m \in net \cup acks, Lose(m) PROVE DownLinkInv'
    <3>1. /\ net' \subseteq net /\ acks' \subseteq acks
          /\ UNCHANGED <<sendQueue, sent, sendSeq, acked, clientVars>>
      BY <2>2 DEF Lose, serverVars
    <3> QED
      BY <3>1, ShrinkKeeps
  <2>3. CASE UNCHANGED vars
    BY <2>3, ShrinkKeeps DEF vars, serverVars
  <2> QED
    BY <2>1, <2>2, <2>3, DeliverKeeps, CheckSendQueueKeeps, OnAckKeeps,
       OnPacketReceivedKeeps DEF Next
<1> QED
  BY <1>1, <1>2, TypeCorrect, PTL DEF Spec

\* An acknowledgement the server receives stands for a dispatched packet
\* until the numbers of the session come round.
THEOREM AcknowledgedWasDispatched == Spec => []AckedMeansProcessed
<1>1. DownLinkInv => AckedMeansProcessed
  BY DEF DownLinkInv, AckedMeansProcessed
<1> QED
  BY <1>1, DownLinkInvariant, PTL

-----------------------------------------------------------------------------
(***************************************************************************)
(* Outcomes.                                                               *)
(***************************************************************************)

Waiting == {e.num : e \in sendQueue}
QueueDistinct == \A e, f \in sendQueue : e.num = f.num => e = f

\* Removing the entries gone and keeping every other entry, possibly with
\* other attempts, removes their positions and no others.
LEMMA QueueStep ==
  ASSUME QueueDistinct, NEW gone \in SUBSET sendQueue,
         NEW kept, kept = sendQueue \ gone,
         \A e \in sendQueue' : \E f \in kept : e.num = f.num,
         \A f \in kept : \E e \in sendQueue' : e.num = f.num
  PROVE  /\ Waiting = Waiting' \cup {e.num : e \in gone}
         /\ Waiting' \cap {e.num : e \in gone} = {}
<1> DEFINE W == {f.num : f \in kept}
<1>1. Waiting' = W
  BY DEF Waiting
<1>2. Waiting = {e.num : e \in sendQueue}
  BY DEF Waiting
<1>3. Waiting = W \cup {e.num : e \in gone}
  BY <1>2
<1>4. W \cap {e.num : e \in gone} = {}
  BY DEF QueueDistinct
<1> QED
  BY <1>1, <1>3, <1>4

\* What each server step does to the queue, in terms of positions.
LEMMA DeliverQueue ==
  ASSUME TypeOK, DownLinkInv, QueueDistinct, NEW ok \in BOOLEAN, Deliver(ok)
  PROVE  /\ QueueDistinct'
         /\ sent' = sent + 1 /\ acked' = acked
         /\ \/ Waiting' = Waiting \cup {sent + 1} /\ failed' = failed
            \/ Waiting' = Waiting /\ failed' = failed \cup {sent + 1}
<1> DEFINE entry == [num |-> sent + 1, seq |-> Advanced(sendSeq),
                     attempts |-> MAX_SEND_ATTEMPTS]
<1>1. /\ sent' = sent + 1 /\ acked' = acked
      /\ \/ sendQueue' = sendQueue \cup {entry} /\ failed' = failed
         \/ sendQueue' = sendQueue /\ failed' = failed \cup {sent + 1}
  BY DEF Deliver
<1>2. entry.num = sent + 1
  OBVIOUS
<1>3. sent \in Nat /\ \A e \in sendQueue : e.num \in Nat /\ e.num <= sent
  BY DEF TypeOK, Entries, DownLinkInv, Numbered
<1> HIDE DEF entry
<1>4. sent + 1 \notin Waiting
  BY <1>3 DEF Waiting
<1>5. CASE sendQueue' = sendQueue \cup {entry} /\ failed' = failed
  <2>1. QueueDistinct'
    BY <1>2, <1>4, <1>5 DEF QueueDistinct, Waiting
  <2>2. Waiting' = Waiting \cup {sent + 1}
    BY <1>2, <1>5 DEF Waiting
  <2> QED
    BY <1>1, <1>5, <2>1, <2>2
<1>6. CASE sendQueue' = sendQueue /\ failed' = failed \cup {sent + 1}
  BY <1>1, <1>6 DEF QueueDistinct, Waiting
<1> QED
  BY <1>1, <1>5, <1>6

LEMMA CheckSendQueueQueue ==
  ASSUME TypeOK, QueueDistinct, NEW expired \in SUBSET sendQueue,
         CheckSendQueue(expired)
  PROVE  /\ QueueDistinct'
         /\ sent' = sent /\ acked' = acked
         /\ \E S : /\ failed' = failed \cup S
                  /\ Waiting = Waiting' \cup S /\ Waiting' \cap S = {}
<1> DEFINE retried == {e \in expired : e.attempts > 0}
           gone == expired \ retried
<1>1. /\ sendQueue' = (sendQueue \ expired) \cup {Retried(e) : e \in retried}
      /\ failed' = failed \cup {e.num : e \in gone}
      /\ sent' = sent /\ acked' = acked
  BY DEF CheckSendQueue
<1>2. \A e \in retried : e \in sendQueue /\ Retried(e).num = e.num
  BY RetriedEntry DEF TypeOK
<1>3. retried \subseteq expired /\ gone \subseteq sendQueue
  OBVIOUS
<1>4. sendQueue \ gone = (sendQueue \ expired) \cup retried
  OBVIOUS
<1> HIDE DEF retried, gone
<1>5. /\ \A e \in sendQueue' : \E f \in sendQueue \ gone : e.num = f.num
      /\ \A f \in sendQueue \ gone : \E e \in sendQueue' : e.num = f.num
  BY <1>1, <1>2, <1>4
<1>6. /\ Waiting = Waiting' \cup {e.num : e \in gone}
      /\ Waiting' \cap {e.num : e \in gone} = {}
  BY <1>3, <1>5, QueueStep
<1>7. QueueDistinct'
  BY <1>1, <1>2, <1>3 DEF QueueDistinct
<1> QED
  BY <1>1, <1>6, <1>7

LEMMA OnAckQueue ==
  ASSUME TypeOK, QueueDistinct, NEW a \in acks, OnAck(a)
  PROVE  /\ QueueDistinct'
         /\ sent' = sent /\ failed' = failed
         /\ \E S : /\ acked' = acked \cup S
                  /\ Waiting = Waiting' \cup S /\ Waiting' \cap S = {}
                  /\ \A m, n \in S : m = n
                  /\ S \subseteq {e.num : e \in Matching(a)}
<1> DEFINE done == Oldest(Matching(a))
<1>1. /\ sendQueue' = sendQueue \ done
      /\ acked' = acked \cup {e.num : e \in done}
      /\ sent' = sent /\ failed' = failed
  BY DEF OnAck
<1>2. done \subseteq sendQueue /\ done \subseteq Matching(a)
  BY DEF Oldest, Matching
<1>3. \A e, f \in done : e.num = f.num
  <2>1. \A e \in sendQueue : e.num \in Nat
    BY DEF TypeOK, Entries
  <2> QED
    BY <1>2, <2>1 DEF Oldest
<1> HIDE DEF done
<1>4. /\ Waiting = Waiting' \cup {e.num : e \in done}
      /\ Waiting' \cap {e.num : e \in done} = {}
  BY <1>1, <1>2, QueueStep
<1>5. QueueDistinct'
  BY <1>1 DEF QueueDistinct
<1>6. /\ \A m, n \in {e.num : e \in done} : m = n
      /\ {e.num : e \in done} \subseteq {e.num : e \in Matching(a)}
  BY <1>2, <1>3
<1> QED
  BY <1>1, <1>4, <1>5, <1>6

LEMMA CloseQueue ==
  ASSUME Close
  PROVE  /\ QueueDistinct' /\ sent' = sent /\ acked' = acked
         /\ Waiting' = {} /\ failed' = failed \cup Waiting
BY DEF Close, QueueDistinct, Waiting

\* Every packet of the session has exactly one outcome, or is still queued.
THEOREM ExactlyOneOutcome == Spec => [](OneOutcome /\ QueueDistinct)
<1> DEFINE Split == /\ Waiting \cup acked \cup failed = 1 .. sent
                    /\ Waiting \cap acked = {} /\ Waiting \cap failed = {}
                    /\ acked \cap failed = {}
<1>1. Init => OneOutcome /\ QueueDistinct
  BY DEF Init, OneOutcome, QueueDistinct
<1>2. TypeOK /\ DownLinkInv /\ OneOutcome /\ QueueDistinct /\ [Next]_vars
        => OneOutcome' /\ QueueDistinct'
  <2> SUFFICES ASSUME TypeOK, DownLinkInv, OneOutcome, QueueDistinct, [Next]_vars
               PROVE  /\ Waiting' \cup acked' \cup failed' = 1 .. sent'
                      /\ Waiting' \cap acked' = {} /\ Waiting' \cap failed' = {}
                      /\ acked' \cap failed' = {}
                      /\ QueueDistinct'
    BY DEF OneOutcome, Waiting
  <2>0. Split
    BY DEF OneOutcome, Waiting
  <2>1. ASSUME NEW ok \in BOOLEAN, Deliver(ok)
        PROVE  Split' /\ QueueDistinct'
    <3>1. 1 .. sent + 1 = (1 .. sent) \cup {sent + 1} /\ sent + 1 \notin 1 .. sent
      BY DEF TypeOK
    <3> QED
      BY <2>0, <2>1, <3>1, DeliverQueue
  <2>2. ASSUME NEW expired \in SUBSET sendQueue, CheckSendQueue(expired)
        PROVE  Split' /\ QueueDistinct'
    BY <2>0, <2>2, CheckSendQueueQueue
  <2>3. ASSUME NEW a \in acks, OnAck(a)
        PROVE  Split' /\ QueueDistinct'
    BY <2>0, <2>3, OnAckQueue
  <2>4. CASE Close
    BY <2>0, <2>4, CloseQueue
  <2>5. CASE UNCHANGED serverVars
    BY <2>0, <2>5 DEF serverVars, Waiting, QueueDistinct
  <2> QED
    BY <2>1, <2>2, <2>3, <2>4, <2>5 DEF Next, OnPacketReceived, Lose, vars
<1> QED
  BY <1>1, <1>2, TypeCorrect, DownLinkInvariant, PTL DEF Spec

\* The server-to-client link keeps every promise of Delivery until the
\* numbers of the session come round, for every value of the constants.
THEOREM LinkImplementsDelivery == Spec => Refines
<1>1. Init => Promise!Init
  BY DownLinkAssumption DEF Init, Promise!Init, Unwrapped
<1>2. TypeOK /\ DownLinkInv /\ OneOutcome /\ QueueDistinct /\ DownLinkInv'
        /\ [Next]_vars => [Promise!Next]_Promise!dvars
  <2> SUFFICES ASSUME TypeOK, DownLinkInv, OneOutcome, QueueDistinct, DownLinkInv',
                      [Next]_vars
               PROVE  [Promise!Next]_Promise!dvars
    OBVIOUS
  <2>0. /\ Waiting \cup acked \cup failed = 1 .. sent
        /\ Waiting \cap acked = {} /\ Waiting \cap failed = {}
        /\ acked \cap failed = {}
    BY DEF OneOutcome, Waiting
  <2>1. ASSUME NEW ok \in BOOLEAN, Deliver(ok)
        PROVE  [Promise!Next]_Promise!dvars
    <3>1. /\ sent' = sent + 1 /\ acked' = acked
          /\ failed' \in {failed, failed \cup {sent + 1}}
          /\ UNCHANGED <<processed, replayed>>
      BY <2>1 DEF Deliver, clientVars
    <3>2. Unwrapped' \in {Unwrapped, FALSE}
      <4>1. sent \in Nat /\ (Unwrapped' => Unwrapped)
        BY <3>1, DownLinkAssumption DEF TypeOK, Unwrapped
      <4>2. Unwrapped \in BOOLEAN /\ Unwrapped' \in BOOLEAN
        BY <3>1, <4>1, DownLinkAssumption DEF Unwrapped
      <4>3. CASE Unwrapped' = FALSE
        BY <4>3
      <4>4. CASE Unwrapped' = TRUE
        <5>1. Unwrapped = TRUE
          BY <4>1, <4>2, <4>4
        <5> QED
          BY <4>4, <5>1
      <4> QED
        BY <4>2, <4>3, <4>4
    <3>3. Promise!Submit
      BY <3>1, <3>2, Zenon DEF Promise!Submit
    <3> QED
      BY <3>3 DEF Promise!Next
  <2>2. ASSUME NEW expired \in SUBSET sendQueue, CheckSendQueue(expired)
        PROVE  [Promise!Next]_Promise!dvars
    <3>1. UNCHANGED <<sent, acked, processed, replayed, Unwrapped>>
      BY <2>2 DEF CheckSendQueue, clientVars, Unwrapped
    <3>2. PICK S : failed' = failed \cup S /\ S \subseteq Waiting
      BY <2>2, CheckSendQueueQueue
    <3>3. S \in SUBSET (1 .. sent) /\ S \cap (acked \cup failed) = {}
      BY <3>2, <2>0
    <3>4. Promise!Abandon(S)
      BY <3>1, <3>2, <3>3 DEF Promise!Abandon
    <3> QED
      BY <3>3, <3>4 DEF Promise!Next
  <2>3. ASSUME NEW a \in acks, OnAck(a)
        PROVE  [Promise!Next]_Promise!dvars
    <3>1. UNCHANGED <<sent, failed, processed, replayed, Unwrapped>>
      BY <2>3 DEF OnAck, clientVars, Unwrapped
    <3>2. PICK S : /\ acked' = acked \cup S /\ S \subseteq Waiting
                   /\ \A m, n \in S : m = n
      BY <2>3, OnAckQueue
    <3>3. CASE S = {}
      BY <3>1, <3>2, <3>3 DEF Promise!dvars
    <3>4. CASE S # {}
      <4>0. PICK n \in S : TRUE
        BY <3>4
      <4>1. S = {n}
        BY <3>2, <4>0
      <4>2. n \in 1 .. sent /\ n \notin acked \cup failed
        BY <3>2, <4>1, <2>0
      <4>3. Unwrapped => n \in processed
        BY <3>1, <3>2, <4>1 DEF DownLinkInv, Unwrapped
      <4>4. Promise!Confirm(n)
        BY <3>1, <3>2, <4>1, <4>2, <4>3 DEF Promise!Confirm
      <4> QED
        BY <4>2, <4>4 DEF Promise!Next
    <3> QED
      BY <3>3, <3>4
  <2>4. CASE Close
    <3>1. UNCHANGED <<sent, acked, processed, replayed, Unwrapped>>
      BY <2>4 DEF Close, clientVars, Unwrapped
    <3>2. Promise!Abandon(Waiting) /\ Waiting \in SUBSET (1 .. sent)
      BY <2>0, <2>4, <3>1, CloseQueue DEF Promise!Abandon
    <3> QED
      BY <3>2 DEF Promise!Next
  <2>5. ASSUME NEW m \in net, OnPacketReceived(m)
        PROVE  [Promise!Next]_Promise!dvars
    <3>1. UNCHANGED <<sent, acked, failed, Unwrapped>>
      BY <2>5 DEF OnPacketReceived, serverVars, Unwrapped
    <3>2. CASE UNCHANGED clientVars
      BY <3>1, <3>2 DEF clientVars, Promise!dvars
    <3>3. CASE m.seq \notin seqWindow
      <4>1. m.num \notin processed
        BY <3>3 DEF DownLinkInv
      <4>2. processed' = processed \cup {m.num} /\ replayed' = replayed
        BY <2>5, <3>3, <4>1 DEF OnPacketReceived
      <4>3. m.num \in 1 .. sent
        BY DEF DownLinkInv, Numbered, TypeOK, Datagrams
      <4> QED
        BY <3>1, <4>1, <4>2, <4>3 DEF Promise!Next, Promise!Deliver
    <3> QED
      BY <2>5, <3>2, <3>3 DEF OnPacketReceived
  <2>6. CASE UNCHANGED <<serverVars, clientVars>>
    BY <2>6 DEF serverVars, clientVars, Promise!dvars, Unwrapped
  <2> QED
    BY <2>1, <2>2, <2>3, <2>4, <2>5, <2>6 DEF Next, Lose, vars
<1> QED
  BY <1>1, <1>2, TypeCorrect, DownLinkInvariant, ExactlyOneOutcome, PTL
     DEF Spec, Refines, Promise!Spec

-----------------------------------------------------------------------------
(***************************************************************************)
(* What is under way, and whose it is.                                     *)
(***************************************************************************)

Shown == Statuses \cup {"OFFLINE"}

Cmds == Notices \cup {"CMD_CHANGE_STATUS", "CMD_ADD_CONTACT", "CMD_DEL_CONTACT",
          "CMD_GET_CONTACT_INFO", "CMD_MESSAGE", "CMD_SRV_MESSAGE", "CMD_SRV_PROBE_STATUS",
          "CMD_SRV_ADD_CONTACT", "CMD_SRV_CONTACT_AUTH", "CMD_SRV_DEL_CONTACT",
          "CMD_SRV_CONTACT_INFO", "CMD_SRV_CONTACT_INFO_REPLY"}
Args == Shown \cup Auths \cup {"", "ADDED", "TEXT", "AUTH_ACCEPT"}

\* What holds of every packet: who sends what to whom.
Sound(e) ==
  /\ e.from = e.to => e.cmd = "CMD_CHANGE_STATUS"
  /\ e.cmd = "CMD_CHANGE_STATUS" => e.ev = "EV_S_OUT" /\ e.arg \in Statuses
  /\ e.cmd \in Notices => e.ev = "EV_S_IN" /\ e.arg \in Shown
  /\ e.cmd \in {"CMD_MESSAGE", "CMD_SRV_MESSAGE"} => ~e.online
  /\ e.cmd = "CMD_SRV_PROBE_STATUS" => e.ev = "EV_S_IN"
  /\ e.id # 0 => e.cmd \in {"CMD_MESSAGE", "CMD_SRV_MESSAGE"}

Packets ==
  {e \in [ev : {"EV_S_IN", "EV_S_OUT"}, cmd : Cmds, from : Users, to : Users,
          online : BOOLEAN, arg : Args, id : {0} \cup Messages] : Sound(e)}
Incoming == {e \in Packets : e.ev = "EV_S_IN"}
Marks == [ev : {"EV_SESSION", "EV_S_END"}, cmd : {"CMD_LOGIN", ""}, from : Users,
          to : {Nobody}, online : {FALSE}, arg : Args, id : {0}]
Reports == [ev : {"SM_ADD_SESSION", "SM_REMOVE_SESSION", "SM_REQUEST"},
            cmd : {"", "CMD_CHANGE_STATUS"}, from : Users, to : {Nobody},
            online : {FALSE}, arg : Args, id : {0}]

Session == [user : Users, status : Statuses, notifySet : SUBSET Users, sweep : BOOLEAN,
            shown : BOOLEAN, view : [Users -> Shown]]

Typed ==
  /\ sess \in Seq(Session) /\ Len(sess) <= MaxSessions
  /\ hash \in [Users -> 0 .. Len(sess)]
  /\ queue \in Seq(Seq(Packets \cup Marks)) /\ Len(queue) = Len(sess)
  /\ IsABag(loose) /\ DOMAIN loose \subseteq Packets
  /\ auth \in [Users -> Auths]
  /\ roster \in [Users -> [Users -> SUBSET Sub]]
  /\ message \in [Users -> Seq({0} \cup Messages)]
  /\ smIn \in Seq(Incoming \cup Reports) /\ smOut \in Seq(Incoming)
  /\ smHash \in Seq([name : Users, status : Args])
  /\ crashed \in BOOLEAN /\ commands \in 0 .. MaxCommands
  /\ got \subseteq Messages /\ lost \subseteq Messages /\ astray \subseteq Users

Starting(i) == \E k \in DOMAIN queue[i] : queue[i][k].ev = "EV_SESSION"

\* Nothing has overtaken the events that begin and end a session.
InLine(i) ==
  /\ \A k \in DOMAIN queue[i] :
       /\ queue[i][k].ev = "EV_SESSION" => k = 1
       /\ queue[i][k].ev = "EV_S_END" => k = Len(queue[i])
  /\ queue[i] # <<>> /\ hash[sess[i].user] # i => queue[i][Len(queue[i])].ev = "EV_S_END"

\* Only what event threads post is before the event that begins a session, or
\* behind the one that ends it.
QueueInv(i) ==
  /\ \A k \in DOMAIN queue[i] :
       /\ Owner(queue[i][k]) = sess[i].user
       /\ queue[i][k].ev = "EV_SESSION" =>
            /\ queue[i][k].arg = sess[i].status /\ sess[i].notifySet = {}
            /\ sess[i].shown = (sess[i].status # "INVIS")
            /\ \A j \in 1 .. k - 1 : Posted(queue[i][j])
       /\ queue[i][k].ev = "EV_S_END" =>
            /\ hash[sess[i].user] # i
            /\ \A j \in k + 1 .. Len(queue[i]) : Posted(queue[i][j])
  /\ sess[i].user \notin astray => InLine(i)

SessionsInv ==
  /\ \A u \in Users : hash[u] # 0 => sess[hash[u]].user = u
  /\ \A i \in DOMAIN queue : QueueInv(i)

NoSelf ==
  /\ \A u \in Users : roster[u][u] = {}
  /\ \A i \in DOMAIN sess : sess[i].user \notin sess[i].notifySet


Base == Typed /\ SessionsInv /\ NoSelf

Outside == BagToSet(loose) \cup ToSet(smIn) \cup ToSet(smOut)

\* What remains in queue i when session s has taken its next event.
Rest(i, s) == IF i = s THEN Tail(queue[i]) ELSE queue[i]

\* Event e is taken by session s, or without one, the requests "req" go to sm and
\* the packets of P to whom they are for.
Moves(s, e, req, P) ==
  /\ s \in {0} \cup DOMAIN queue /\ e \in Packets \cup Marks
  /\ IF s = 0 THEN e \in DOMAIN loose
              ELSE ~sess[s].sweep /\ queue[s] # <<>> /\ e = Head(queue[s])
  /\ P \subseteq Packets
  /\ queue' \in Seq(Seq(Packets \cup Marks)) /\ Len(queue') = Len(queue)
  /\ \A i \in DOMAIN queue : \E h \in Seq(Packets) :
       queue'[i] = Rest(i, s) \o h /\ ToSet(h) = {p \in P : hash[Owner(p)] = i}
  /\ IsABag(loose') /\ DOMAIN loose' \subseteq DOMAIN loose \cup P
  /\ DOMAIN loose \subseteq DOMAIN loose' \cup (IF s = 0 THEN {e} ELSE {})
  /\ \A x : x \notin P => NumberOf(x, loose') + (IF s = 0 /\ x = e THEN 1 ELSE 0)
                           = NumberOf(x, loose)
  /\ \E t \in Seq(Incoming) :
       /\ smIn' = (smIn \o req) \o t
       /\ ToSet(t) = {p \in P : p.ev = "EV_S_IN" /\ hash[p.to] = 0}
  /\ astray' = IF Strays(s, e) THEN astray \cup {Owner(e)} ELSE astray
  /\ UNCHANGED <<hash, smOut, smHash, commands>>

\* Handle moves the event and the packets it delivers, whatever their order.
LEMMA HandleMoves ==
  ASSUME Typed, NEW s \in {0} \cup DOMAIN queue, NEW e, NEW req \in Seq(Reports),
         NEW out \in Seq(Packets), Handle(s, e, req, out)
  PROVE  Moves(s, e, req, ToSet(out))
<1> DEFINE P == ToSet(out)
<1>1. P \subseteq Packets
  BY ElementsSeq
<1>2. /\ queue \in Seq(Seq(Packets \cup Marks)) /\ smIn \in Seq(Incoming \cup Reports)
      /\ IsABag(loose) /\ DOMAIN loose \subseteq Packets
  BY DEF Typed
<1>3. /\ IF s = 0 THEN e \in DOMAIN loose
                  ELSE ~sess[s].sweep /\ queue[s] # <<>> /\ e = Head(queue[s])
      /\ astray' = IF Strays(s, e) THEN astray \cup {Owner(e)} ELSE astray
      /\ UNCHANGED <<hash, smOut, smHash, commands>>
  BY DEF Handle, BagIn, BagToSet
<1>4. \A i \in DOMAIN queue : queue[i] \in Seq(Packets \cup Marks)
  BY <1>2
<1>5. e \in Packets \cup Marks
  <2>1. CASE s = 0
    BY <1>2, <1>3, <2>1
  <2>2. CASE s # 0
    <3>1. queue[s] \in Seq(Packets \cup Marks) /\ queue[s] # <<>> /\ e = Head(queue[s])
      BY <1>3, <1>4, <2>2
    <3> QED
      BY <3>1, TailSeq
  <2> QED
    BY <2>1, <2>2
<1>6. \A i \in DOMAIN queue : Rest(i, s) \in Seq(Packets \cup Marks)
  <2> SUFFICES ASSUME NEW i \in DOMAIN queue
               PROVE  Rest(i, s) \in Seq(Packets \cup Marks)
    OBVIOUS
  <2>1. CASE i = s
    <3>1. s # 0
      BY <1>2, <2>1
    <3>2. queue[i] \in Seq(Packets \cup Marks) /\ queue[i] # <<>>
      BY <1>3, <1>4, <2>1, <3>1
    <3>3. Tail(queue[i]) \in Seq(Packets \cup Marks)
      BY <3>2, TailSeq
    <3> QED
      BY <2>1, <3>3 DEF Rest
  <2>2. CASE i # s
    BY <1>4, <2>2 DEF Rest
  <2> QED
    BY <2>1, <2>2
<1>7. \A i : Here(out, i) \in Seq(Packets) /\ ToSet(Here(out, i)) = {p \in P : hash[Owner(p)] = i}
  <2> SUFFICES ASSUME NEW i
               PROVE  /\ Here(out, i) \in Seq(Packets)
                      /\ ToSet(Here(out, i)) = {p \in P : hash[Owner(p)] = i}
    OBVIOUS
  <2> DEFINE C == {p \in P : hash[Owner(p)] = i}
  <2>1. Here(out, i) = Among(out, C)
    BY DEF Here
  <2>2. P \cap C = C
    OBVIOUS
  <2> HIDE DEF C, P
  <2>3. Among(out, C) \in Seq(Packets) /\ ToSet(Among(out, C)) = ToSet(out) \cap C
    BY AmongSeq
  <2> QED
    BY <2>1, <2>2, <2>3 DEF P, C
<1>8. queue' = [i \in DOMAIN queue |-> Rest(i, s) \o Here(out, i)]
  BY DEF Handle, Rest
<1>9. \A i \in DOMAIN queue : Rest(i, s) \o Here(out, i) \in Seq(Packets \cup Marks)
  <2> SUFFICES ASSUME NEW i \in DOMAIN queue
               PROVE  Rest(i, s) \o Here(out, i) \in Seq(Packets \cup Marks)
    OBVIOUS
  <2>1. Here(out, i) \in Seq(Packets \cup Marks)
    BY <1>7, SeqMonotonic
  <2>2. Rest(i, s) \in Seq(Packets \cup Marks)
    BY <1>6
  <2> QED
    BY <2>1, <2>2, JoinedSeq
<1>10. queue' \in Seq(Seq(Packets \cup Marks)) /\ Len(queue') = Len(queue)
  <2> DEFINE Q == Seq(Packets \cup Marks)
             N == [i \in DOMAIN queue |-> Rest(i, s) \o Here(out, i)]
  <2>1. \A i \in DOMAIN queue : Rest(i, s) \o Here(out, i) \in Q
    BY <1>9
  <2>2. queue \in Seq(Q) /\ DOMAIN queue = 1 .. Len(queue) /\ Len(queue) \in Nat
    BY <1>2
  <2> HIDE DEF Q
  <2>3. N \in [1 .. Len(queue) -> Q]
    BY <2>1, <2>2
  <2> HIDE DEF N
  <2>4. N \in Seq(Q) /\ Len(N) = Len(queue)
    BY <2>2, <2>3
  <2> QED
    BY <1>8, <2>4 DEF N, Q
<1>11. \A i \in DOMAIN queue : \E h \in Seq(Packets) :
         queue'[i] = Rest(i, s) \o h /\ ToSet(h) = {p \in P : hash[Owner(p)] = i}
  <2> SUFFICES ASSUME NEW i \in DOMAIN queue
               PROVE  \E h \in Seq(Packets) :
                  queue'[i] = Rest(i, s) \o h /\ ToSet(h) = {p \in P : hash[Owner(p)] = i}
    OBVIOUS
  <2>1. Here(out, i) \in Seq(Packets) /\ ToSet(Here(out, i)) = {p \in P : hash[Owner(p)] = i}
    BY <1>7
  <2>2. queue'[i] = Rest(i, s) \o Here(out, i)
    BY <1>8
  <2> QED
    BY <2>1, <2>2
<1>12. /\ IsABag(loose') /\ DOMAIN loose' \subseteq DOMAIN loose \cup P
       /\ DOMAIN loose \subseteq DOMAIN loose' \cup (IF s = 0 THEN {e} ELSE {})
       /\ \A x : x \notin P => NumberOf(x, loose') + (IF s = 0 /\ x = e THEN 1 ELSE 0)
                                = NumberOf(x, loose)
  <2> DEFINE B == IF s = 0 THEN loose (-) SetToBag({e}) ELSE loose
             U == Unowned(out)
  <2>1. loose' = B (+) SetToBag(U) /\ U \subseteq P
    BY DEF Handle, Unowned
  <2>2. /\ IsABag(B) /\ DOMAIN B \subseteq DOMAIN loose
        /\ DOMAIN loose \subseteq DOMAIN B \cup (IF s = 0 THEN {e} ELSE {})
        /\ \A x : NumberOf(x, B) + (IF s = 0 /\ x = e THEN 1 ELSE 0) = NumberOf(x, loose)
    <3>1. CASE s = 0
      <4>1. e \in DOMAIN loose /\ B = loose (-) SetToBag({e})
        BY <1>3, <3>1
      <4> HIDE DEF B
      <4>2. BagLess(B, loose, e)
        BY <1>2, <4>1, BagWithout
      <4>3. NumberOf(e, B) + 1 = NumberOf(e, loose) /\ \A x : NumberOf(x, B) \in Nat
        BY <4>1, <4>2 DEF BagLess, NumberOf, IsABag
      <4>4. \A x : NumberOf(x, B) + (IF s = 0 /\ x = e THEN 1 ELSE 0) = NumberOf(x, loose)
        <5>1. \A x : x # e => NumberOf(x, B) = NumberOf(x, loose)
          BY <4>2 DEF BagLess
        <5> QED
          BY <3>1, <4>3, <5>1
      <4>5. /\ IsABag(B) /\ DOMAIN B \subseteq DOMAIN loose
            /\ DOMAIN loose \subseteq DOMAIN B \cup {e}
        BY <4>2 DEF BagLess
      <4> QED
        BY <3>1, <4>4, <4>5
    <3>2. CASE s # 0
      <4>1. \A x : NumberOf(x, loose) \in Nat
        BY <1>2 DEF NumberOf, IsABag
      <4> QED
        BY <1>2, <3>2, <4>1
    <3> QED
      BY <3>1, <3>2
  <2> HIDE DEF B, U, P
  <2>3. BagMore(loose', B, U)
    BY <2>1, <2>2, BagWith
  <2>4. \A x : NumberOf(x, B) \in Nat
    BY <2>2 DEF NumberOf, IsABag
  <2>5. \A x : x \notin P => NumberOf(x, loose') = NumberOf(x, B)
    BY <2>1, <2>3, <2>4 DEF BagMore
  <2> QED
    BY <2>1, <2>2, <2>3, <2>5 DEF BagMore
<1>13. \E t \in Seq(Incoming) :
         /\ smIn' = (smIn \o req) \o t
         /\ ToSet(t) = {p \in P : p.ev = "EV_S_IN" /\ hash[p.to] = 0}
  <2> DEFINE C == {p \in P : p.ev = "EV_S_IN" /\ hash[p.to] = 0}
             t == ToSm(out)
  <2>1. t = Among(out, C)
    BY DEF ToSm
  <2>2. P \cap C = C /\ C \subseteq Incoming
    BY <1>1 DEF Incoming
  <2>3. smIn' = (smIn \o req) \o t
    BY DEF Handle
  <2> HIDE DEF C, P, t
  <2>4. Among(out, C) \in Seq(Packets) /\ ToSet(Among(out, C)) = ToSet(out) \cap C
    BY AmongSeq
  <2>5. t \in Seq(Packets) /\ ToSet(t) = C
    BY <2>1, <2>2, <2>4 DEF P
  <2>6. t \in Seq(C)
    BY <2>5, ElementsSeq
  <2>7. t \in Seq(Incoming)
    BY <2>2, <2>6, SeqMonotonic
  <2> QED
    BY <2>3, <2>5, <2>7 DEF C
<1> HIDE DEF P
<1> QED
  BY <1>1, <1>3, <1>5, <1>10, <1>11, <1>12, <1>13 DEF Moves, P

-----------------------------------------------------------------------------
(***************************************************************************)
(* What each handler sends.                                                *)
(***************************************************************************)

\* The fields of a packet.
LEMMA PacketFields ==
  ASSUME NEW e \in Packets
  PROVE  /\ e.ev \in {"EV_S_IN", "EV_S_OUT"} /\ e.cmd \in Cmds
         /\ e.from \in Users /\ e.to \in Users /\ e.online \in BOOLEAN
         /\ e.arg \in Args /\ e.id \in {0} \cup Messages /\ Sound(e)
BY DEF Packets

\* The fields of the marks that begin and end a session.
LEMMA MarkFields ==
  ASSUME NEW e \in Marks
  PROVE  /\ e.ev \in {"EV_SESSION", "EV_S_END"} /\ e.from \in Users /\ e.to = Nobody
         /\ e.cmd \in {"CMD_LOGIN", ""} /\ e.id = 0 /\ e.arg \in Args
BY DEF Marks

\* What Item makes is a packet if its fields fit.
LEMMA NewPacket ==
  ASSUME NEW ev \in {"EV_S_IN", "EV_S_OUT"}, NEW cmd \in Cmds, NEW from \in Users,
         NEW to \in Users, NEW online \in BOOLEAN, NEW arg \in Args,
         NEW id \in {0} \cup Messages, Sound(Item(ev, cmd, from, to, online, arg, id))
  PROVE  Item(ev, cmd, from, to, online, arg, id) \in Packets
<1> DEFINE F == [ev : {"EV_S_IN", "EV_S_OUT"}, cmd : Cmds, from : Users, to : Users,
                 online : BOOLEAN, arg : Args, id : {0} \cup Messages]
           x == Item(ev, cmd, from, to, online, arg, id)
<1>1. x \in F
  BY Zenon DEF Item
<1> HIDE DEF x, F
<1>2. x \in {e \in F : Sound(e)}
  BY <1>1 DEF x
<1> QED
  BY <1>2 DEF Packets, F, x

\* Packets that the modules write, to another user.
LEMMA NewIn ==
  ASSUME NEW cmd \in Cmds, NEW from \in Users, NEW to \in Users, from # to,
         NEW online \in BOOLEAN, NEW arg \in Args, cmd # "CMD_CHANGE_STATUS",
         cmd \in Notices => arg \in Shown,
         cmd \in {"CMD_MESSAGE", "CMD_SRV_MESSAGE"} => ~online
  PROVE  In(cmd, from, to, online, arg) \in Packets
<1> DEFINE x == Item("EV_S_IN", cmd, from, to, online, arg, 0)
<1>1. Sound(x)
  BY DEF Sound, Item
<1>2. x \in Packets
  BY <1>1, NewPacket
<1> QED
  BY <1>2 DEF In

\* What Item makes for sm is a report if its fields fit.
LEMMA NewReport ==
  ASSUME NEW ev \in {"SM_ADD_SESSION", "SM_REMOVE_SESSION", "SM_REQUEST"},
         NEW cmd \in {"", "CMD_CHANGE_STATUS"}, NEW u \in Users, NEW arg \in Args
  PROVE  Item(ev, cmd, u, Nobody, FALSE, arg, 0) \in Reports
BY Zenon DEF Item, Reports

\* A packet passed on as another event of another kind.
LEMMA Forwarded ==
  ASSUME NEW e \in Packets, e.cmd \in {"CMD_SRV_MESSAGE", "CMD_SRV_CONTACT_AUTH"}
  PROVE  /\ [e EXCEPT !.ev = "EV_S_IN"] \in Packets
         /\ [e EXCEPT !.ev = "EV_S_IN"].ev = "EV_S_IN"
         /\ [e EXCEPT !.ev = "EV_S_IN"].cmd = e.cmd
         /\ [e EXCEPT !.ev = "EV_S_IN"].from = e.from
         /\ [e EXCEPT !.ev = "EV_S_IN"].to = e.to
         /\ [e EXCEPT !.ev = "EV_S_IN"].arg = e.arg
         /\ [e EXCEPT !.ev = "EV_S_IN"].id = e.id
         /\ [e EXCEPT !.ev = "EV_S_IN"].online = e.online
<1> DEFINE F == [ev : {"EV_S_IN", "EV_S_OUT"}, cmd : Cmds, from : Users, to : Users,
                 online : BOOLEAN, arg : Args, id : {0} \cup Messages]
           x == [e EXCEPT !.ev = "EV_S_IN"]
<1>1. e \in F /\ Sound(e)
  BY DEF Packets
<1>2. x \in F
  BY <1>1
<1>3. /\ x.ev = "EV_S_IN" /\ x.cmd = e.cmd /\ x.from = e.from /\ x.to = e.to
      /\ x.arg = e.arg /\ x.id = e.id /\ x.online = e.online
  BY <1>1
<1> HIDE DEF x, F
<1>4. Sound(x)
  BY <1>1, <1>3 DEF Sound, Notices
<1>5. x \in Packets
  BY <1>2, <1>4 DEF Packets, F
<1> QED
  BY <1>3, <1>5 DEF x

\* A message as the message module sends it in the user's name.
LEMMA Submitted ==
  ASSUME NEW e \in Packets, e.cmd = "CMD_MESSAGE"
  PROVE  /\ [e EXCEPT !.cmd = "CMD_SRV_MESSAGE"] \in Packets
         /\ [e EXCEPT !.cmd = "CMD_SRV_MESSAGE"].ev = e.ev
         /\ [e EXCEPT !.cmd = "CMD_SRV_MESSAGE"].cmd = "CMD_SRV_MESSAGE"
         /\ [e EXCEPT !.cmd = "CMD_SRV_MESSAGE"].from = e.from
         /\ [e EXCEPT !.cmd = "CMD_SRV_MESSAGE"].to = e.to
         /\ [e EXCEPT !.cmd = "CMD_SRV_MESSAGE"].arg = e.arg
         /\ [e EXCEPT !.cmd = "CMD_SRV_MESSAGE"].id = e.id
<1> DEFINE F == [ev : {"EV_S_IN", "EV_S_OUT"}, cmd : Cmds, from : Users, to : Users,
                 online : BOOLEAN, arg : Args, id : {0} \cup Messages]
           x == [e EXCEPT !.cmd = "CMD_SRV_MESSAGE"]
<1>1. e \in F /\ Sound(e)
  BY DEF Packets
<1>2. x \in F
  BY <1>1 DEF Cmds
<1>3. /\ x.ev = e.ev /\ x.cmd = "CMD_SRV_MESSAGE" /\ x.from = e.from /\ x.to = e.to
      /\ x.arg = e.arg /\ x.id = e.id /\ x.online = e.online
  BY <1>1 DEF Cmds
<1> HIDE DEF x, F
<1>4. Sound(x)
  BY <1>1, <1>3 DEF Sound, Notices
<1>5. x \in Packets
  BY <1>2, <1>4 DEF Packets, F
<1> QED
  BY <1>3, <1>5 DEF x

\* The session at work, and the event it works on.
LEMMA AtWork ==
  ASSUME Base, NEW s \in DOMAIN queue, queue[s] # <<>>
  PROVE  /\ DOMAIN queue = DOMAIN sess /\ sess[s] \in Session /\ s \in Nat \ {0}
         /\ sess[s].user \in Users /\ sess[s].status \in Statuses
         /\ sess[s].notifySet \subseteq Users /\ sess[s].user \notin sess[s].notifySet
         /\ queue[s] \in Seq(Packets \cup Marks)
         /\ Head(queue[s]) \in Packets \cup Marks
         /\ Owner(Head(queue[s])) = sess[s].user
<1>1. /\ queue \in Seq(Seq(Packets \cup Marks)) /\ sess \in Seq(Session) /\ Len(queue) = Len(sess)
  BY DEF Base, Typed
<1>2. /\ DOMAIN queue = DOMAIN sess /\ s \in Nat \ {0} /\ sess[s] \in Session
      /\ queue[s] \in Seq(Packets \cup Marks)
  BY <1>1
<1>3. /\ sess[s].user \in Users /\ sess[s].status \in Statuses /\ sess[s].notifySet \subseteq Users
  BY <1>2 DEF Session
<1>4. Head(queue[s]) \in Packets \cup Marks /\ Head(queue[s]) = queue[s][1] /\ 1 \in DOMAIN queue[s]
  BY <1>2, TailSeq
<1>5. Owner(queue[s][1]) = sess[s].user
  BY <1>4 DEF Base, SessionsInv, QueueInv
<1> QED
  BY <1>2, <1>3, <1>4, <1>5 DEF Base, NoSelf

\* The event that a handler takes, and the session it belongs to.
LEMMA Taken ==
  ASSUME Base, NEW s \in {0} \cup DOMAIN queue, NEW e, NEW req, NEW out,
         Handle(s, e, req, out)
  PROVE  /\ e \in Packets \cup Marks
         /\ s = 0 => e \in Packets
         /\ s # 0 => /\ s \in DOMAIN queue /\ queue[s] # <<>> /\ e = Head(queue[s])
                     /\ Owner(e) = sess[s].user
                     /\ DOMAIN queue = DOMAIN sess /\ sess[s] \in Session /\ s \in Nat \ {0}
                     /\ sess[s].user \in Users /\ sess[s].status \in Statuses
                     /\ sess[s].notifySet \subseteq Users
                     /\ sess[s].user \notin sess[s].notifySet
<1>1. IF s = 0 THEN e \in DOMAIN loose ELSE queue[s] # <<>> /\ e = Head(queue[s])
  BY DEF Handle, BagIn, BagToSet
<1>2. CASE s = 0
  <2>1. e \in Packets
    BY <1>1, <1>2 DEF Base, Typed
  <2> QED
    BY <1>2, <2>1
<1>3. CASE s # 0
  <2>1. s \in DOMAIN queue /\ queue[s] # <<>> /\ e = Head(queue[s])
    BY <1>1, <1>3
  <2> QED
    BY <1>3, <2>1, AtWork
<1> QED
  BY <1>2, <1>3

Told(s, e) == {c \in Users : "SUB_FROM" \in roster[sess[s].user][c] /\ e.arg # "INVIS"}
Watched(s) == {c \in Users : "SUB_TO" \in roster[sess[s].user][c]}
ProbeTo(s, c) == In("CMD_SRV_PROBE_STATUS", sess[s].user, c, TRUE, "")
OnlineTo(s, c, arg) == In("CMD_SRV_USER_ONLINE", sess[s].user, c, TRUE, arg)
OfflineTo(s, c) == In("CMD_SRV_USER_OFFLINE", sess[s].user, c, TRUE, "OFFLINE")

\* What presence sends about a session are packets.
LEMMA NoticesTyped ==
  ASSUME NEW s, sess[s].user \in Users, NEW c \in Users, c # sess[s].user
  PROVE  /\ ProbeTo(s, c) \in Packets /\ OfflineTo(s, c) \in Packets
         /\ \A arg \in Statuses : OnlineTo(s, c, arg) \in Packets
<1> DEFINE u == sess[s].user
<1>1. "" \in Args /\ "OFFLINE" \in Args /\ "OFFLINE" \in Shown /\ Statuses \subseteq Shown
      /\ Statuses \subseteq Args
  BY DEF Args, Shown
<1>2. {"CMD_SRV_PROBE_STATUS", "CMD_SRV_USER_OFFLINE", "CMD_SRV_USER_ONLINE"} \subseteq Cmds
      /\ "CMD_SRV_PROBE_STATUS" \notin Notices
  BY DEF Cmds, Notices
<1> HIDE DEF u
<1>3. u \in Users /\ c # u
  BY DEF u
<1>4. In("CMD_SRV_PROBE_STATUS", u, c, TRUE, "") \in Packets
  BY <1>1, <1>2, <1>3, NewIn
<1>5. In("CMD_SRV_USER_OFFLINE", u, c, TRUE, "OFFLINE") \in Packets
  BY <1>1, <1>2, <1>3, NewIn
<1>6. ASSUME NEW arg \in Statuses
      PROVE  In("CMD_SRV_USER_ONLINE", u, c, TRUE, arg) \in Packets
  <2>1. arg \in Shown /\ arg \in Args
    BY <1>1
  <2> QED
    BY <1>2, <1>3, <2>1, NewIn
<1> QED
  BY <1>4, <1>5, <1>6 DEF u, ProbeTo, OfflineTo, OnlineTo

\* A session begins: probes, and ONLINE to those who are told.
LEMMA DoSession ==
  ASSUME Base, NEW s \in DOMAIN queue, NEW e, OnSession(s, e)
  PROVE  /\ Moves(s, e, <<Item("SM_ADD_SESSION", "", sess[s].user, Nobody, FALSE, e.arg, 0)>>,
                  {ProbeTo(s, c) : c \in Watched(s)} \cup {OnlineTo(s, c, e.arg) : c \in Told(s, e)})
         /\ e \in Marks /\ e.arg = sess[s].status /\ e.from = sess[s].user
<1> DEFINE u == sess[s].user
           told == {c \in Users : "SUB_FROM" \in roster[u][c] /\ e.arg # "INVIS"}
           Row(c) == (IF "SUB_TO" \in roster[u][c]
                 THEN <<In("CMD_SRV_PROBE_STATUS", u, c, TRUE, "")>> ELSE <<>>)
                \o (IF c \in told
                    THEN <<In("CMD_SRV_USER_ONLINE", u, c, TRUE, e.arg)>> ELSE <<>>)
           contacts == SetToSeq(Users)
           ss == [k \in DOMAIN contacts |-> Row(contacts[k])]
           req == <<Item("SM_ADD_SESSION", "", u, Nobody, FALSE, e.arg, 0)>>
           P == {ProbeTo(s, c) : c \in Watched(s)} \cup {OnlineTo(s, c, e.arg) : c \in Told(s, e)}
           RowSet(c) == (IF c \in Watched(s) THEN {ProbeTo(s, c)} ELSE {})
                        \cup (IF c \in Told(s, e) THEN {OnlineTo(s, c, e.arg)} ELSE {})
<1>1. Handle(s, e, req, FlattenSeq(ss)) /\ e.ev = "EV_SESSION"
  BY DEF OnSession
<1>2. /\ s \in {0} \cup DOMAIN queue /\ s # 0
      /\ e \in Packets \cup Marks /\ queue[s] # <<>> /\ e = Head(queue[s])
      /\ Owner(e) = u /\ u \in Users
  <2>1. s # 0
    BY DEF Base, Typed
  <2> QED
    BY <1>1, <2>1, Taken
<1>3. e \in Marks
  BY <1>1, <1>2, PacketFields
<1>4. e.from = u /\ e.arg \in Args
  BY <1>1, <1>2, <1>3, MarkFields DEF Owner
<1>5. e.arg = sess[s].status /\ e.arg \in Statuses
  <2>1. queue[s] \in Seq(Packets \cup Marks)
    BY DEF Base, Typed
  <2>2. e = queue[s][1] /\ 1 \in DOMAIN queue[s]
    BY <1>2, <2>1, TailSeq
  <2>3. e.arg = sess[s].status
    BY <1>1, <2>2 DEF Base, SessionsInv, QueueInv
  <2> QED
    BY <1>1, <1>2, <2>3, Taken
<1>6. contacts \in Seq(Users) /\ ToSet(contacts) = Users
  BY MessengerAssumption, ListOfSet
<1>7. \A c \in Users : (c \in Watched(s) \/ c \in Told(s, e)) => c # u
  <2>1. roster[u][u] = {}
    BY <1>2 DEF Base, NoSelf
  <2> QED
    BY <2>1 DEF Watched, Told
<1>8. ASSUME NEW c \in Users
      PROVE  Row(c) \in Seq(Packets) /\ ToSet(Row(c)) = RowSet(c)
  <2> DEFINE a == IF c \in Watched(s) THEN <<ProbeTo(s, c)>> ELSE <<>>
             b == IF c \in Told(s, e) THEN <<OnlineTo(s, c, e.arg)>> ELSE <<>>
             A == IF c \in Watched(s) THEN {ProbeTo(s, c)} ELSE {}
             B == IF c \in Told(s, e) THEN {OnlineTo(s, c, e.arg)} ELSE {}
  <2>1. Row(c) = a \o b
    BY DEF Watched, Told, ProbeTo, OnlineTo
  <2>2. a \in Seq(Packets) /\ ToSet(a) = A
    <3>1. CASE c \in Watched(s)
      <4>1. ProbeTo(s, c) \in Packets
        BY <1>2, <1>7, <3>1, NoticesTyped
      <4> QED
        BY <3>1, <4>1, OneSet
    <3>2. CASE c \notin Watched(s)
      BY <3>2, EmptySet
    <3> QED
      BY <3>1, <3>2
  <2>3. b \in Seq(Packets) /\ ToSet(b) = B
    <3>1. CASE c \in Told(s, e)
      <4>1. OnlineTo(s, c, e.arg) \in Packets
        BY <1>2, <1>5, <1>7, <3>1, NoticesTyped
      <4> QED
        BY <3>1, <4>1, OneSet
    <3>2. CASE c \notin Told(s, e)
      BY <3>2, EmptySet
    <3> QED
      BY <3>1, <3>2
  <2> HIDE DEF a, b, A, B, Row
  <2>4. a \o b \in Seq(Packets) /\ ToSet(a \o b) = A \cup B
    BY <2>2, <2>3, JoinedSeq
  <2> QED
    BY <2>1, <2>4 DEF A, B
<1> HIDE DEF Row, contacts, RowSet
<1>9. /\ DOMAIN contacts = 1 .. Len(contacts) /\ Len(contacts) \in Nat
      /\ \A k \in DOMAIN contacts : contacts[k] \in Users
      /\ \A c \in Users : \E k \in DOMAIN contacts : contacts[k] = c
  BY <1>6 DEF ToSet
<1>10. /\ ss \in Seq(Seq(Packets)) /\ Len(ss) = Len(contacts)
       /\ \A k \in 1 .. Len(contacts) : ss[k] = Row(contacts[k])
  <2> DEFINE Q == Seq(Packets)
  <2>1. \A k \in DOMAIN contacts : Row(contacts[k]) \in Q
    BY <1>8, <1>9
  <2> HIDE DEF Q
  <2>2. ss \in [1 .. Len(contacts) -> Q]
    BY <1>9, <2>1
  <2>3. \A k \in 1 .. Len(contacts) : ss[k] = Row(contacts[k])
    BY <1>9
  <2> HIDE DEF ss
  <2>4. ss \in Seq(Q) /\ Len(ss) = Len(contacts)
    BY <1>9, <2>2
  <2> QED
    BY <2>3, <2>4 DEF Q
<1> HIDE DEF ss
<1>11. /\ FlattenSeq(ss) \in Seq(Packets)
       /\ ToSet(FlattenSeq(ss)) = UNION {ToSet(ss[k]) : k \in 1 .. Len(ss)}
  BY <1>10, FlatSet
<1>12. UNION {ToSet(ss[k]) : k \in 1 .. Len(ss)} = UNION {RowSet(c) : c \in Users}
  <2>1. \A k \in 1 .. Len(ss) : ToSet(ss[k]) = RowSet(contacts[k]) /\ contacts[k] \in Users
    BY <1>8, <1>9, <1>10
  <2>2. \A c \in Users : \E k \in 1 .. Len(ss) : ToSet(ss[k]) = RowSet(c)
    <3> SUFFICES ASSUME NEW c \in Users
                 PROVE  \E k \in 1 .. Len(ss) : ToSet(ss[k]) = RowSet(c)
      OBVIOUS
    <3>1. PICK k \in DOMAIN contacts : contacts[k] = c
      BY <1>9
    <3>2. k \in 1 .. Len(ss)
      BY <1>9, <1>10
    <3> QED
      BY <2>1, <3>1, <3>2
  <2> QED
    BY <2>1, <2>2
<1>13. UNION {RowSet(c) : c \in Users} = P
  <2>1. Watched(s) \subseteq Users /\ Told(s, e) \subseteq Users
    BY DEF Watched, Told
  <2> QED
    BY <2>1 DEF RowSet
<1>14. req \in Seq(Reports)
  <2>1. Item("SM_ADD_SESSION", "", u, Nobody, FALSE, e.arg, 0) \in Reports
    BY <1>2, <1>4, NewReport
  <2> QED
    BY <2>1, OneSet
<1> HIDE DEF req, P
<1>15. Moves(s, e, req, ToSet(FlattenSeq(ss)))
  <2>1. Typed
    BY DEF Base
  <2> DEFINE f == FlattenSeq(ss)
  <2>2. f \in Seq(Packets) /\ Handle(s, e, req, f)
    BY <1>1, <1>11
  <2> HIDE DEF f
  <2>3. Moves(s, e, req, ToSet(f))
    BY <1>2, <1>14, <2>1, <2>2, HandleMoves
  <2> QED
    BY <2>3 DEF f
<1>16. ToSet(FlattenSeq(ss)) = P
  BY <1>11, <1>12, <1>13
<1>17. Moves(s, e, req, P)
  BY <1>15, <1>16
<1> QED
  BY <1>3, <1>4, <1>5, <1>17 DEF req, P

\* Who is told that a session ends.
Parting(s) == IF sess[s].status = "INVIS" THEN {} ELSE sess[s].notifySet

\* OnSessionEnd tells everyone in notifySet that the user is OFFLINE.
LEMMA DoSessionEnd ==
  ASSUME Base, NEW s \in DOMAIN queue, NEW e, OnSessionEnd(s, e)
  PROVE  /\ Moves(s, e, <<Item("SM_REMOVE_SESSION", "", sess[s].user, Nobody, FALSE, "", 0)>>,
                  {OfflineTo(s, c) : c \in Parting(s)})
         /\ e \in Marks /\ e.from = sess[s].user
<1> DEFINE u == sess[s].user
           S == Parting(s)
           f == [c \in S |-> OfflineTo(s, c)]
           out == [k \in DOMAIN SetToSeq(S) |-> In("CMD_SRV_USER_OFFLINE", u, SetToSeq(S)[k], TRUE, "OFFLINE")]
           req == <<Item("SM_REMOVE_SESSION", "", u, Nobody, FALSE, "", 0)>>
<1>1. Handle(s, e, req, out) /\ e.ev = "EV_S_END"
  BY DEF OnSessionEnd, Parting
<1>2. /\ s \in {0} \cup DOMAIN queue /\ s # 0
      /\ e \in Packets \cup Marks /\ Owner(e) = u /\ u \in Users
      /\ sess[s].notifySet \subseteq Users /\ u \notin sess[s].notifySet
  <2>1. s # 0
    BY DEF Base, Typed
  <2> HIDE DEF out, req
  <2> QED
    BY <1>1, <2>1, Taken
<1>3. e \in Marks
  BY <1>1, <1>2, PacketFields
<1>4. e.from = u
  BY <1>1, <1>2, <1>3, MarkFields DEF Owner
<1>5. S \subseteq Users /\ u \notin S
  BY <1>2 DEF Parting
<1>6. IsFiniteSet(S)
  BY <1>5, MessengerAssumption, FS_Subset
<1>7. \A c \in S : OfflineTo(s, c) \in Packets
  BY <1>2, <1>5, NoticesTyped
<1> HIDE DEF S
<1>8. f \in [S -> Packets] /\ \A c \in S : f[c] = OfflineTo(s, c)
  BY <1>7
<1>9. out = [k \in DOMAIN SetToSeq(S) |-> f[SetToSeq(S)[k]]]
  <2>1. SetToSeq(S) \in Seq(S)
    BY <1>6, ListOfSet
  <2>2. \A k \in DOMAIN SetToSeq(S) : SetToSeq(S)[k] \in S
    BY <2>1
  <2>3. \A k \in DOMAIN SetToSeq(S) :
          In("CMD_SRV_USER_OFFLINE", u, SetToSeq(S)[k], TRUE, "OFFLINE") = f[SetToSeq(S)[k]]
    BY <1>8, <2>2 DEF OfflineTo
  <2> QED
    BY <2>3, Zenon
<1> HIDE DEF f, out, req
<1>10. out \in Seq(Packets) /\ ToSet(out) = {f[c] : c \in S}
  <2> DEFINE B == Packets
             T == S
  <2>1. IsFiniteSet(T) /\ f \in [T -> B] /\ out = [k \in DOMAIN SetToSeq(T) |-> f[SetToSeq(T)[k]]]
    BY <1>6, <1>8, <1>9
  <2> HIDE DEF B, T
  <2>2. out \in Seq(B) /\ ToSet(out) = {f[c] : c \in T}
    BY <2>1, EachOf
  <2> QED
    BY <2>2 DEF B, T
<1>11. ToSet(out) = {OfflineTo(s, c) : c \in S}
  BY <1>8, <1>10
<1>12. req \in Seq(Reports)
  <2> USE DEF req
  <2>1. "" \in Args
    BY DEF Args
  <2>2. Item("SM_REMOVE_SESSION", "", u, Nobody, FALSE, "", 0) \in Reports
    BY <1>2, <2>1, NewReport
  <2> QED
    BY <2>2, OneSet
<1>13. Moves(s, e, req, ToSet(out))
  BY <1>1, <1>2, <1>10, <1>12, HandleMoves DEF Base
<1> QED
  BY <1>3, <1>4, <1>11, <1>13 DEF req, S

\* Who is told of a change of status, and what.
Noticed(s, e) == IF e.arg = sess[s].status THEN {} ELSE sess[s].notifySet
Notice(s, e, c, online) == StatusNotice(sess[s].user, c, sess[s].status, e.arg, online)

\* The notice of a change of status is a packet, and what it says.
LEMMA NoticeTyped ==
  ASSUME NEW s, sess[s].user \in Users, NEW c \in Users, c # sess[s].user, NEW e,
         e.arg \in Statuses, e.arg # sess[s].status, NEW online \in BOOLEAN
  PROVE  /\ Notice(s, e, c, online) \in Packets
         /\ Notice(s, e, c, online).ev = "EV_S_IN" /\ Notice(s, e, c, online).cmd \in Notices
         /\ Notice(s, e, c, online).from = sess[s].user /\ Notice(s, e, c, online).to = c
         /\ Notice(s, e, c, online).arg = IF e.arg = "INVIS" THEN "OFFLINE" ELSE e.arg
<1>1. "OFFLINE" \in Args /\ "OFFLINE" \in Shown /\ Statuses \subseteq Shown /\ Statuses \subseteq Args
  BY DEF Args, Shown
<1>2. Notices \subseteq Cmds /\ "CMD_CHANGE_STATUS" \notin Notices
      /\ "CMD_MESSAGE" \notin Notices /\ "CMD_SRV_MESSAGE" \notin Notices
  BY DEF Cmds, Notices
<1>3. {"CMD_SRV_USER_OFFLINE", "CMD_SRV_USER_ONLINE", "CMD_SRV_USER_STATUS"} \subseteq Notices
  BY DEF Notices
<1> DEFINE u == sess[s].user
           Fit(n, x) == /\ n \in Packets /\ n.ev = "EV_S_IN" /\ n.cmd \in Notices
                        /\ n.from = u /\ n.to = c /\ n.arg = x
<1>4. \A cmd \in Notices, o \in BOOLEAN, arg \in Shown : Fit(In(cmd, u, c, o, arg), arg)
  <2> SUFFICES ASSUME NEW cmd \in Notices, NEW o \in BOOLEAN, NEW arg \in Shown
               PROVE  Fit(In(cmd, u, c, o, arg), arg)
    BY Zenon
  <2>1. arg \in Args /\ cmd \in Cmds
    BY <1>2 DEF Args
  <2>2. In(cmd, u, c, o, arg) \in Packets
    BY <1>2, <2>1, NewIn
  <2> QED
    BY <2>2 DEF In, Item
<1> HIDE DEF Fit, u
<1>5. \A cmd \in Notices, arg \in Shown : Fit(In(cmd, u, c, TRUE, arg), arg)
  BY <1>4, Zenon
<1>6. u = sess[s].user
  BY DEF u
<1>7. Fit(Notice(s, e, c, online), IF e.arg = "INVIS" THEN "OFFLINE" ELSE e.arg)
  <2>1. CASE sess[s].status = "INVIS"
    <3>1. Notice(s, e, c, online) = In("CMD_SRV_USER_ONLINE", u, c, TRUE, e.arg)
      BY <1>6, <2>1 DEF Notice, StatusNotice
    <3>2. Fit(In("CMD_SRV_USER_ONLINE", u, c, TRUE, e.arg), e.arg)
      BY <1>1, <1>3, <1>5
    <3> QED
      BY <2>1, <3>1, <3>2
  <2>2. CASE sess[s].status # "INVIS" /\ e.arg = "INVIS"
    <3>1. Notice(s, e, c, online) = In("CMD_SRV_USER_OFFLINE", u, c, TRUE, "OFFLINE")
      BY <1>6, <2>2 DEF Notice, StatusNotice
    <3>2. Fit(In("CMD_SRV_USER_OFFLINE", u, c, TRUE, "OFFLINE"), "OFFLINE")
      BY <1>1, <1>3, <1>5
    <3> QED
      BY <2>2, <3>1, <3>2
  <2>3. CASE sess[s].status # "INVIS" /\ e.arg # "INVIS"
    <3>1. Notice(s, e, c, online) = In("CMD_SRV_USER_STATUS", u, c, online, e.arg)
      BY <1>6, <2>3 DEF Notice, StatusNotice
    <3>2. Fit(In("CMD_SRV_USER_STATUS", u, c, online, e.arg), e.arg)
      <4>1. "CMD_SRV_USER_STATUS" \in Notices /\ e.arg \in Shown
        BY <1>1, <1>3
      <4> QED
        BY <1>4, <4>1, Zenon
    <3> QED
      BY <2>3, <3>1, <3>2
  <2> QED
    BY <2>1, <2>2, <2>3
<1> QED
  BY <1>6, <1>7 DEF Fit

\* OnChangeStatus sends a notice to everyone in notifySet.
LEMMA DoChangeStatus ==
  ASSUME Base, NEW s \in DOMAIN queue, NEW e, OnChangeStatus(s, e)
  PROVE  /\ \E online \in BOOLEAN :
              Moves(s, e, <<Item("SM_REQUEST", e.cmd, sess[s].user, Nobody, FALSE, e.arg, 0)>>,
                  {Notice(s, e, c, online) : c \in Noticed(s, e)})
         /\ e \in Packets /\ e.from = sess[s].user /\ e.arg \in Statuses
<1> DEFINE u == sess[s].user
           S == sess[s].notifySet
           req == <<Item("SM_REQUEST", e.cmd, u, Nobody, FALSE, e.arg, 0)>>
<1>1. PICK online \in BOOLEAN :
        Handle(s, e, req,
                 IF e.arg = sess[s].status THEN <<>>
                 ELSE [k \in DOMAIN SetToSeq(S) |->
                         StatusNotice(u, SetToSeq(S)[k], sess[s].status, e.arg, online)])
  BY DEF OnChangeStatus
<1>2. e.ev = "EV_S_OUT" /\ e.cmd = "CMD_CHANGE_STATUS"
  BY DEF OnChangeStatus
<1> DEFINE f == [c \in S |-> Notice(s, e, c, online)]
           q == [k \in DOMAIN SetToSeq(S) |->
                         StatusNotice(u, SetToSeq(S)[k], sess[s].status, e.arg, online)]
           out == IF e.arg = sess[s].status THEN <<>> ELSE q
           P == {Notice(s, e, c, online) : c \in Noticed(s, e)}
<1>3. Handle(s, e, req, out)
  BY <1>1
<1>4. /\ s \in {0} \cup DOMAIN queue /\ s # 0
      /\ e \in Packets \cup Marks /\ Owner(e) = u /\ u \in Users
      /\ S \subseteq Users /\ u \notin S
  <2>1. s # 0
    BY DEF Base, Typed
  <2> HIDE DEF out, req
  <2> QED
    BY <1>3, <2>1, Taken
<1>5. e \in Packets
  BY <1>2, <1>4, MarkFields
<1>6. e.arg \in Statuses /\ e.arg \in Args /\ e.from = u
  BY <1>2, <1>4, <1>5, PacketFields DEF Sound, Owner
<1>7. IsFiniteSet(S)
  BY <1>4, MessengerAssumption, FS_Subset
<1>8. S = sess[s].notifySet
  OBVIOUS
<1>9. out \in Seq(Packets) /\ ToSet(out) = P
  <2>1. CASE e.arg = sess[s].status
    <3>1. P = {} /\ out = <<>>
      BY <2>1 DEF Noticed
    <3> QED
      BY <3>1, EmptySet
  <2>2. CASE e.arg # sess[s].status
    <3>1. \A c \in S : Notice(s, e, c, online) \in Packets
      BY <1>4, <1>6, <2>2, NoticeTyped
    <3> HIDE DEF S
    <3>2. f \in [S -> Packets] /\ \A c \in S : f[c] = Notice(s, e, c, online)
      BY <3>1
    <3>3. q = [k \in DOMAIN SetToSeq(S) |-> f[SetToSeq(S)[k]]]
      <4>1. SetToSeq(S) \in Seq(S)
        BY <1>7, ListOfSet
      <4>2. \A k \in DOMAIN SetToSeq(S) : SetToSeq(S)[k] \in S
        BY <4>1
      <4>3. \A k \in DOMAIN SetToSeq(S) :
              StatusNotice(u, SetToSeq(S)[k], sess[s].status, e.arg, online) = f[SetToSeq(S)[k]]
        BY <3>2, <4>2 DEF Notice
      <4> QED
        BY <4>3, Zenon
    <3> HIDE DEF f, q
    <3>4. q \in Seq(Packets) /\ ToSet(q) = {f[c] : c \in S}
      BY <1>7, <3>2, <3>3, EachOf
    <3>5. ToSet(q) = {Notice(s, e, c, online) : c \in S}
      BY <3>2, <3>4
    <3>6. Noticed(s, e) = S /\ out = q
      BY <1>8, <2>2 DEF Noticed
    <3> QED
      BY <3>4, <3>5, <3>6
  <2> QED
    BY <2>1, <2>2
<1>10. req \in Seq(Reports)
  <2>1. Item("SM_REQUEST", e.cmd, u, Nobody, FALSE, e.arg, 0) \in Reports
    BY <1>2, <1>4, <1>6, NewReport
  <2> QED
    BY <2>1, OneSet
<1> HIDE DEF req, out, P
<1>11. Moves(s, e, req, ToSet(out))
  BY <1>3, <1>4, <1>9, <1>10, HandleMoves DEF Base
<1>12. Moves(s, e, req, P)
  BY <1>9, <1>11
<1> QED
  BY <1>5, <1>6, <1>12 DEF req, P

-----------------------------------------------------------------------------
(***************************************************************************)
(* What each handler changes of its session and of the tables.             *)
(***************************************************************************)

\* A handler changes its own session, the rows of its own user, and no user or
\* row becomes a contact of himself.
Acts(s, e) ==
  /\ sess' \in Seq(Session) /\ Len(sess') = Len(sess)
  /\ \A i \in DOMAIN sess : /\ sess'[i].user = sess[i].user
                            /\ i # s => sess'[i] = sess[i]
                            /\ sess'[i].user \notin sess'[i].notifySet
  /\ roster' \in [Users -> [Users -> SUBSET Sub]]
  /\ \A x \in Users : roster'[x][x] = {} /\ (x # Owner(e) => roster'[x] = roster[x])
  /\ auth' = auth /\ message' \in [Users -> Seq({0} \cup Messages)]
  /\ crashed' \in BOOLEAN /\ got' \subseteq Messages /\ lost' \subseteq Messages

\* Session s becomes r.
Turned(s, r) ==
  /\ sess' \in Seq(Session) /\ Len(sess') = Len(sess)
  /\ sess'[s] = r
  /\ \A i \in DOMAIN sess : /\ sess'[i].user = sess[i].user
                            /\ i # s => sess'[i] = sess[i]
                            /\ sess'[i].user \notin sess'[i].notifySet

\* One session is replaced by another of the same user.
LEMMA Revised ==
  ASSUME Base, NEW s \in DOMAIN sess, NEW r \in Session, r.user = sess[s].user,
         r.user \notin r.notifySet, sess' = [sess EXCEPT ![s] = r]
  PROVE  Turned(s, r)
<1>1. sess \in Seq(Session) /\ DOMAIN sess = 1 .. Len(sess) /\ Len(sess) \in Nat
  BY DEF Base, Typed
<1>2. sess' \in [1 .. Len(sess) -> Session]
  BY <1>1
<1>3. sess' \in Seq(Session) /\ Len(sess') = Len(sess)
  BY <1>1, <1>2
<1>4. sess'[s] = r /\ \A i \in DOMAIN sess : i # s => sess'[i] = sess[i]
  OBVIOUS
<1>5. \A i \in DOMAIN sess : sess[i].user \notin sess[i].notifySet
  BY DEF Base, NoSelf
<1> QED
  BY <1>3, <1>4, <1>5 DEF Turned

\* The fields of a session; a user does not notify himself.
LEMMA SessionFields ==
  ASSUME Base, NEW i \in DOMAIN sess
  PROVE  /\ sess[i] \in Session /\ sess[i].user \in Users /\ sess[i].status \in Statuses
         /\ sess[i].notifySet \subseteq Users /\ sess[i].user \notin sess[i].notifySet
         /\ sess[i].sweep \in BOOLEAN /\ sess[i].shown \in BOOLEAN
         /\ sess[i].view \in [Users -> Shown]
<1>1. sess[i] \in Session
  BY DEF Base, Typed
<1> QED
  BY <1>1 DEF Session, Base, NoSelf

\* A handler that leaves the sessions alone keeps their types.
LEMMA SessKept ==
  ASSUME Base, sess' = sess
  PROVE  /\ sess' \in Seq(Session) /\ Len(sess') = Len(sess)
         /\ \A i \in DOMAIN sess : sess'[i] = sess[i] /\ sess'[i].user \notin sess'[i].notifySet
BY DEF Base, Typed, NoSelf

\* The set of users whom a session tells changes.
LEMMA Renotified ==
  ASSUME Base, NEW s \in DOMAIN sess, NEW N \in SUBSET Users, sess[s].user \notin N,
         sess' = [sess EXCEPT ![s].notifySet = N]
  PROVE  Turned(s, [sess[s] EXCEPT !.notifySet = N])
<1> DEFINE r == [sess[s] EXCEPT !.notifySet = N]
<1>1. sess[s] \in Session
  BY SessionFields
<1>2. r \in Session /\ r.user = sess[s].user /\ r.notifySet = N
  BY <1>1 DEF Session
<1>3. sess' = [sess EXCEPT ![s] = r]
  OBVIOUS
<1> HIDE DEF r
<1>4. Turned(s, r)
  BY <1>2, <1>3, Revised
<1> QED
  BY <1>4 DEF r

\* The row of x about y becomes X.
RowIs(x, y, X) ==
  /\ roster' \in [Users -> [Users -> SUBSET Sub]] /\ roster'[x][y] = X
  /\ \A a \in Users : roster'[a][a] = {} /\ (a # x => roster'[a] = roster[a])
  /\ \A a, b \in Users : ~(a = x /\ b = y) => roster'[a][b] = roster[a][b]

\* A row of the table is replaced, and no other.
LEMMA RosterRow ==
  ASSUME Base, NEW x \in Users, NEW y \in Users, x # y, NEW X \in SUBSET Sub,
         roster' = [roster EXCEPT ![x][y] = X]
  PROVE  RowIs(x, y, X)
<1>1. roster \in [Users -> [Users -> SUBSET Sub]] /\ \A u \in Users : roster[u][u] = {}
  BY DEF Base, Typed, NoSelf
<1>2. roster' \in [Users -> [Users -> SUBSET Sub]]
  BY <1>1
<1>3. roster'[x][y] = X /\ \A a, b \in Users : ~(a = x /\ b = y) => roster'[a][b] = roster[a][b]
  BY <1>1
<1>4. \A a \in Users : a # x => roster'[a] = roster[a]
  BY <1>1
<1>5. \A a \in Users : roster'[a][a] = {}
  BY <1>1, <1>3
<1> QED
  BY <1>2, <1>3, <1>4, <1>5 DEF RowIs

\* DbAddContact changes one row.
LEMMA Added ==
  ASSUME Base, NEW x \in Users, NEW y \in Users, x # y, NEW sub \in Sub, DbAddContact(x, y, sub)
  PROVE  RowIs(x, y, roster[x][y] \cup {sub})
<1> DEFINE X == roster[x][y] \cup {sub}
<1>1. roster \in [Users -> [Users -> SUBSET Sub]]
  BY DEF Base, Typed
<1>2. X \in SUBSET Sub
  BY <1>1
<1>3. roster' = [roster EXCEPT ![x][y] = X]
  BY <1>1 DEF DbAddContact
<1> HIDE DEF X
<1>4. RowIs(x, y, X)
  BY <1>2, <1>3, RosterRow
<1> QED
  BY <1>4 DEF X

\* DbDelContact changes one row.
LEMMA Deleted ==
  ASSUME Base, NEW x \in Users, NEW y \in Users, x # y, NEW sub \in Sub, DbDelContact(x, y, sub)
  PROVE  RowIs(x, y, roster[x][y] \ {sub})
<1> DEFINE X == roster[x][y] \ {sub}
<1>1. roster \in [Users -> [Users -> SUBSET Sub]]
  BY DEF Base, Typed
<1>2. X \in SUBSET Sub
  BY <1>1
<1>3. roster' = [roster EXCEPT ![x][y] = X]
  BY <1>1 DEF DbDelContact
<1> HIDE DEF X
<1>4. RowIs(x, y, X)
  BY <1>2, <1>3, RosterRow
<1> QED
  BY <1>4 DEF X

\* A handler that leaves the table alone keeps its type.
LEMMA RosterKept ==
  ASSUME Base, roster' = roster
  PROVE  roster' \in [Users -> [Users -> SUBSET Sub]] /\ \A x \in Users : roster'[x][x] = {}
BY DEF Base, Typed, NoSelf

\* A handler that changes neither sessions nor tables.
LEMMA Unchanged ==
  ASSUME Base, sess' = sess, roster' = roster, UNCHANGED <<auth, message, got, lost>>,
         crashed' \in BOOLEAN, NEW s, NEW e
  PROVE  Acts(s, e)
<1>1. /\ message \in [Users -> Seq({0} \cup Messages)] /\ got \subseteq Messages
      /\ lost \subseteq Messages
  BY DEF Base, Typed
<1> QED
  BY <1>1, SessKept, RosterKept DEF Acts

\* Messages given to a client, or lost with its session.
LEMMA GivenTyped ==
  ASSUME Base, NEW s, NEW ms, ms \subseteq {0} \cup Messages, Given(s, ms)
  PROVE  got' \subseteq Messages /\ lost' \subseteq Messages
<1>1. got \subseteq Messages /\ lost \subseteq Messages
  BY DEF Base, Typed
<1>2. CASE hash[sess[s].user] = s
  BY <1>1, <1>2 DEF Given
<1>3. CASE hash[sess[s].user] # s
  BY <1>1, <1>3 DEF Given
<1> QED
  BY <1>2, <1>3

\* A handler that sends one packet.
LEMMA Sent ==
  ASSUME Base, NEW s \in {0} \cup DOMAIN queue, NEW e, NEW p \in Packets,
         Handle(s, e, <<>>, <<p>>)
  PROVE  Moves(s, e, <<>>, {p})
<1> DEFINE out == <<p>>
           req == <<>>
<1>1. out \in Seq(Packets) /\ ToSet(out) = {p} /\ req \in Seq(Reports)
  BY OneSet, EmptySet
<1>2. Typed /\ Handle(s, e, req, out)
  BY DEF Base
<1> HIDE DEF out, req
<1>3. Moves(s, e, req, ToSet(out))
  BY <1>1, <1>2, HandleMoves
<1> QED
  BY <1>1, <1>3 DEF req

\* A handler that sends nothing.
LEMMA SentNone ==
  ASSUME Base, NEW s \in {0} \cup DOMAIN queue, NEW e, Handle(s, e, <<>>, <<>>)
  PROVE  Moves(s, e, <<>>, {})
<1> DEFINE out == <<>>
           req == <<>>
<1>1. out \in Seq(Packets) /\ ToSet(out) = {} /\ req \in Seq(Reports)
  BY EmptySet
<1>2. Typed /\ Handle(s, e, req, out)
  BY DEF Base
<1> HIDE DEF out, req
<1>3. Moves(s, e, req, ToSet(out))
  BY <1>1, <1>2, HandleMoves
<1> QED
  BY <1>1, <1>3 DEF req

\* Whose packet it is that a session, or none, handles.
LEMMA Handled ==
  ASSUME Base, NEW s \in {0} \cup DOMAIN queue, NEW e, NEW req, NEW out,
         Handle(s, e, req, out), e.ev \in {"EV_S_IN", "EV_S_OUT"}
  PROVE  /\ e \in Packets /\ e.from \in Users /\ e.to \in Users /\ Sound(e)
         /\ e.cmd # "CMD_CHANGE_STATUS" => e.from # e.to
         /\ s # 0 => /\ s \in DOMAIN sess /\ s \in DOMAIN queue /\ sess[s].user = Owner(e)
                     /\ queue[s] # <<>> /\ e = Head(queue[s])
<1>1. e \in Packets
  BY Taken, MarkFields
<1>2. /\ e.from \in Users /\ e.to \in Users /\ Sound(e)
  BY <1>1, PacketFields
<1>3. e.cmd # "CMD_CHANGE_STATUS" => e.from # e.to
  BY <1>2 DEF Sound
<1>4. s # 0 => /\ s \in DOMAIN sess /\ s \in DOMAIN queue /\ sess[s].user = Owner(e)
               /\ queue[s] # <<>> /\ e = Head(queue[s])
  BY Taken
<1> QED
  BY <1>1, <1>2, <1>3, <1>4

\* OnSession gives the session the set of its subscribers, and nothing else
\* changes.
LEMMA ActsSession ==
  ASSUME Base, NEW s \in DOMAIN queue, NEW e, OnSession(s, e)
  PROVE  /\ Acts(s, e) /\ roster' = roster /\ s \in DOMAIN sess
         /\ sess'[s].notifySet = Told(s, e) /\ sess'[s].status = sess[s].status
         /\ sess'[s].shown = sess[s].shown /\ sess'[s].view = sess[s].view
<1> DEFINE u == sess[s].user
           fetched == SubSeq(message[u], 1, Min({FETCH_LIMIT, Len(message[u])}))
           b == fetched # <<>>
           N == Told(s, e)
           r == [sess[s] EXCEPT !.notifySet = N, !.sweep = b]
<1>1. s \in DOMAIN sess
  BY DEF Base, Typed
<1>2. sess[s] \in Session /\ u \in Users
  BY <1>1, SessionFields
<1>3. N \subseteq Users /\ u \notin N
  BY <1>2 DEF Told, Base, NoSelf
<1>4. /\ sess' = [sess EXCEPT ![s] = r] /\ roster' = roster /\ auth' = auth /\ message' = message
      /\ crashed' = crashed /\ Given(s, ToSet(fetched))
  BY DEF OnSession, Told, tables
<1>5. message \in [Users -> Seq({0} \cup Messages)] /\ crashed \in BOOLEAN
  BY DEF Base, Typed
<1>6. ToSet(fetched) \subseteq {0} \cup Messages
  <2> DEFINE m == message[u]
             l == Min({FETCH_LIMIT, Len(m)})
  <2>1. m \in Seq({0} \cup Messages)
    BY <1>2, <1>5
  <2>2. DOMAIN SubSeq(m, 1, l) \subseteq DOMAIN m /\ \A k \in DOMAIN SubSeq(m, 1, l) : SubSeq(m, 1, l)[k] = m[k]
    <3>1. Len(m) \in Nat /\ FETCH_LIMIT \in Nat
      BY <2>1, MessengerAssumption
    <3>2. l \in Nat /\ l <= Len(m)
      <4>1. l = IF FETCH_LIMIT <= Len(m) THEN FETCH_LIMIT ELSE Len(m)
        BY <3>1 DEF Min
      <4> QED
        BY <3>1, <4>1
    <3> HIDE DEF l, m
    <3> QED
      BY <2>1, <3>1, <3>2
  <2>3. fetched = SubSeq(m, 1, l)
    OBVIOUS
  <2> HIDE DEF fetched, m, l
  <2> DEFINE q == SubSeq(m, 1, l)
  <2>4. DOMAIN q \subseteq DOMAIN m /\ \A k \in DOMAIN q : q[k] = m[k]
    BY <2>2
  <2>5. \A k \in DOMAIN m : m[k] \in {0} \cup Messages
    BY <2>1
  <2> HIDE DEF q
  <2>6. \A k \in DOMAIN q : q[k] \in {0} \cup Messages
    BY <2>4, <2>5
  <2>7. fetched = q
    BY <2>3 DEF q
  <2> QED
    BY <2>6, <2>7 DEF ToSet
<1>7. got' \subseteq Messages /\ lost' \subseteq Messages
  BY <1>4, <1>6, GivenTyped
<1> HIDE DEF N
<1>8. b \in BOOLEAN
  OBVIOUS
<1> HIDE DEF b, fetched
<1>9. /\ r \in Session /\ r.user = u /\ r.notifySet = N /\ r.status = sess[s].status
      /\ r.shown = sess[s].shown /\ r.view = sess[s].view
  BY <1>2, <1>3, <1>8 DEF Session
<1> HIDE DEF r
<1>10. Turned(s, r)
  BY <1>1, <1>3, <1>4, <1>9, Revised
<1>11. Acts(s, e)
  BY <1>4, <1>5, <1>7, <1>10, RosterKept DEF Acts, Turned
<1> QED
  BY <1>1, <1>4, <1>9, <1>10, <1>11 DEF Turned, N

\* OnSessionEnd keeps status and notifySet.
LEMMA ActsSessionEnd ==
  ASSUME Base, NEW s \in DOMAIN queue, NEW e, OnSessionEnd(s, e)
  PROVE  /\ Acts(s, e) /\ roster' = roster /\ s \in DOMAIN sess
         /\ sess'[s].notifySet = sess[s].notifySet /\ sess'[s].status = sess[s].status
         /\ sess'[s].shown = sess[s].shown
<1> DEFINE v == [c \in Users |-> "OFFLINE"]
           r == [sess[s] EXCEPT !.view = v]
<1>1. s \in DOMAIN sess
  BY DEF Base, Typed
<1>2. sess[s] \in Session /\ sess[s].user \notin sess[s].notifySet
  BY <1>1, SessionFields
<1>3. /\ sess' = [sess EXCEPT ![s] = r] /\ roster' = roster /\ UNCHANGED <<auth, message, crashed, got, lost>>
  BY DEF OnSessionEnd, tables
<1>4. v \in [Users -> Shown]
  BY DEF Shown
<1> HIDE DEF v
<1>5. /\ r \in Session /\ r.user = sess[s].user /\ r.notifySet = sess[s].notifySet
      /\ r.status = sess[s].status /\ r.shown = sess[s].shown
  BY <1>2, <1>4 DEF Session
<1> HIDE DEF r
<1>6. Turned(s, r)
  BY <1>1, <1>2, <1>3, <1>5, Revised
<1>7. /\ message \in [Users -> Seq({0} \cup Messages)] /\ crashed \in BOOLEAN
      /\ got \subseteq Messages /\ lost \subseteq Messages
  BY DEF Base, Typed
<1>8. Acts(s, e)
  BY <1>3, <1>6, <1>7, RosterKept DEF Acts, Turned
<1> QED
  BY <1>1, <1>3, <1>5, <1>6, <1>8 DEF Turned

\* OnChangeStatus changes the status.
LEMMA ActsChangeStatus ==
  ASSUME Base, NEW s \in DOMAIN queue, NEW e, OnChangeStatus(s, e)
  PROVE  /\ Acts(s, e) /\ roster' = roster /\ s \in DOMAIN sess
         /\ sess'[s].notifySet = sess[s].notifySet /\ sess'[s].status = e.arg
         /\ sess'[s].shown = (sess[s].shown /\ e.arg # "INVIS") /\ sess'[s].view = sess[s].view
<1> DEFINE b == sess[s].shown /\ e.arg # "INVIS"
           r == [sess[s] EXCEPT !.status = e.arg, !.shown = b]
<1>1. s \in DOMAIN sess /\ e.arg \in Statuses
  <2>1. s \in DOMAIN sess
    BY DEF Base, Typed
  <2> QED
    BY <2>1, DoChangeStatus
<1>2. sess[s] \in Session /\ sess[s].user \notin sess[s].notifySet
  BY <1>1, SessionFields
<1>3. /\ sess' = [sess EXCEPT ![s] = r] /\ roster' = roster /\ UNCHANGED <<auth, message, crashed, got, lost>>
  BY DEF OnChangeStatus, tables
<1>4. b \in BOOLEAN
  OBVIOUS
<1>5. b = (sess[s].shown /\ e.arg # "INVIS")
  OBVIOUS
<1> HIDE DEF b
<1>6. /\ r \in Session /\ r.user = sess[s].user /\ r.notifySet = sess[s].notifySet
      /\ r.status = e.arg /\ r.shown = b /\ r.view = sess[s].view
  BY <1>1, <1>2, <1>4 DEF Session
<1> HIDE DEF r
<1>7. Turned(s, r)
  BY <1>1, <1>2, <1>3, <1>6, Revised
<1>8. /\ message \in [Users -> Seq({0} \cup Messages)] /\ crashed \in BOOLEAN
      /\ got \subseteq Messages /\ lost \subseteq Messages
  BY DEF Base, Typed
<1>9. Acts(s, e)
  BY <1>3, <1>7, <1>8, RosterKept DEF Acts, Turned
<1> QED
  BY <1>1, <1>3, <1>5, <1>6, <1>7, <1>9 DEF Turned

Request(e) == In(IF e.cmd = "CMD_ADD_CONTACT" THEN "CMD_SRV_ADD_CONTACT"
                                              ELSE "CMD_SRV_CONTACT_INFO", e.from, e.to, FALSE, "")

\* OnRequest sends one packet to the other user.
LEMMA DoRequest ==
  ASSUME Base, NEW s \in DOMAIN queue, NEW e, OnRequest(s, e)
  PROVE  /\ Moves(s, e, <<>>, {Request(e)}) /\ Acts(s, e) /\ roster' = roster /\ sess' = sess
         /\ Request(e) \in Packets /\ e \in Packets /\ e.ev = "EV_S_OUT"
         /\ e.cmd \in {"CMD_ADD_CONTACT", "CMD_GET_CONTACT_INFO"}
<1> DEFINE cmd == IF e.cmd = "CMD_ADD_CONTACT" THEN "CMD_SRV_ADD_CONTACT"
                                               ELSE "CMD_SRV_CONTACT_INFO"
           p == In(cmd, sess[s].user, e.to, FALSE, "")
<1>1. /\ Handle(s, e, <<>>, <<p>>) /\ e.ev = "EV_S_OUT"
      /\ e.cmd \in {"CMD_ADD_CONTACT", "CMD_GET_CONTACT_INFO"}
      /\ sess' = sess /\ roster' = roster /\ UNCHANGED <<auth, message, crashed, got, lost>>
  BY DEF OnRequest, tables
<1>2. s # 0 /\ s \in {0} \cup DOMAIN queue /\ crashed' \in BOOLEAN
  <2>1. s # 0
    BY DEF Base, Typed
  <2>2. crashed \in BOOLEAN /\ crashed' = crashed
    BY <1>1 DEF Base, Typed
  <2> QED
    BY <2>1, <2>2
<1> HIDE DEF p
<1>3. e \in Packets /\ e.from \in Users /\ e.to \in Users /\ sess[s].user = Owner(e) /\ e.from # e.to
  BY <1>1, <1>2, Handled
<1>4. sess[s].user = e.from
  BY <1>1, <1>3 DEF Owner
<1>5. cmd \in Cmds /\ cmd \notin Notices /\ cmd \notin {"CMD_CHANGE_STATUS", "CMD_MESSAGE", "CMD_SRV_MESSAGE"}
      /\ "" \in Args
  BY DEF Cmds, Notices, Args
<1> HIDE DEF cmd
<1>6. In(cmd, e.from, e.to, FALSE, "") \in Packets
  BY <1>3, <1>5, NewIn
<1>7. p = In(cmd, e.from, e.to, FALSE, "") /\ p = Request(e)
  BY <1>4 DEF p, cmd, Request
<1>8. Moves(s, e, <<>>, {p})
  BY <1>1, <1>2, <1>6, <1>7, Sent
<1>9. Acts(s, e)
  BY <1>1, <1>2, Unchanged
<1> QED
  BY <1>1, <1>3, <1>6, <1>7, <1>8, <1>9

Removal(e) == In("CMD_SRV_DEL_CONTACT", e.from, e.to, FALSE, "")

\* OnDelContact takes SUB_TO from the row, and tells the contact if there was
\* one.
LEMMA DoDelContact ==
  ASSUME Base, NEW s \in DOMAIN queue, NEW e, OnDelContact(s, e)
  PROVE  /\ \E P \in SUBSET {Removal(e)} : Moves(s, e, <<>>, P)
         /\ Acts(s, e) /\ sess' = sess /\ RowIs(e.from, e.to, roster[e.from][e.to] \ {"SUB_TO"})
         /\ e \in Packets /\ e.ev = "EV_S_OUT" /\ e.cmd = "CMD_DEL_CONTACT"
<1> DEFINE u == sess[s].user
           p == In("CMD_SRV_DEL_CONTACT", u, e.to, FALSE, "")
           out == IF roster[u][e.to] = {} THEN <<>> ELSE <<p>>
<1>1. /\ Handle(s, e, <<>>, out) /\ e.ev = "EV_S_OUT" /\ e.cmd = "CMD_DEL_CONTACT"
      /\ DbDelContact(u, e.to, "SUB_TO") /\ sess' = sess /\ UNCHANGED <<auth, message, crashed, got, lost>>
  BY DEF OnDelContact
<1>2. s # 0 /\ s \in {0} \cup DOMAIN queue
  BY DEF Base, Typed
<1> HIDE DEF p, out
<1>3. e \in Packets /\ e.from \in Users /\ e.to \in Users /\ u = Owner(e) /\ e.from # e.to
  BY <1>1, <1>2, Handled
<1>4. u = e.from
  BY <1>1, <1>3 DEF Owner
<1>5. "CMD_SRV_DEL_CONTACT" \in Cmds /\ "CMD_SRV_DEL_CONTACT" \notin Notices /\ "" \in Args
  BY DEF Cmds, Notices, Args
<1>6. Removal(e) \in Packets
  BY <1>3, <1>5, NewIn DEF Removal
<1>7. p = Removal(e)
  BY <1>4 DEF p, Removal
<1>8. \E P \in SUBSET {Removal(e)} : Moves(s, e, <<>>, P)
  <2>1. CASE roster[u][e.to] = {}
    <3>1. Handle(s, e, <<>>, <<>>)
      BY <1>1, <2>1 DEF out
    <3>2. Moves(s, e, <<>>, {})
      BY <1>2, <3>1, SentNone
    <3> QED
      BY <3>2
  <2>2. CASE roster[u][e.to] # {}
    <3>1. Handle(s, e, <<>>, <<p>>)
      BY <1>1, <2>2 DEF out
    <3>2. Moves(s, e, <<>>, {p})
      BY <1>2, <1>6, <1>7, <3>1, Sent
    <3> QED
      BY <1>7, <3>2
  <2> QED
    BY <2>1, <2>2
<1>9. RowIs(e.from, e.to, roster[e.from][e.to] \ {"SUB_TO"})
  BY <1>1, <1>3, <1>4, Deleted DEF Sub
<1>10. Acts(s, e)
  <2>1. /\ message' \in [Users -> Seq({0} \cup Messages)] /\ crashed' \in BOOLEAN
        /\ got' \subseteq Messages /\ lost' \subseteq Messages /\ auth' = auth
    BY <1>1 DEF Base, Typed
  <2> QED
    BY <1>1, <1>3, <1>4, <1>9, <2>1, SessKept DEF Acts, RowIs
<1> QED
  BY <1>1, <1>3, <1>8, <1>9, <1>10

Letter(e) == [e EXCEPT !.cmd = "CMD_SRV_MESSAGE"]

\* OnMessage sends the message in the user's name.
LEMMA DoMessage ==
  ASSUME Base, NEW s \in DOMAIN queue, NEW e, OnMessage(s, e)
  PROVE  /\ Moves(s, e, <<>>, {Letter(e)}) /\ Acts(s, e) /\ roster' = roster /\ sess' = sess
         /\ Letter(e) \in Packets /\ e \in Packets /\ e.ev = "EV_S_OUT" /\ e.cmd = "CMD_MESSAGE"
<1>1. /\ Handle(s, e, <<>>, <<Letter(e)>>) /\ e.ev = "EV_S_OUT" /\ e.cmd = "CMD_MESSAGE"
      /\ sess' = sess /\ roster' = roster /\ UNCHANGED <<auth, message, crashed, got, lost>>
  BY DEF OnMessage, tables, Letter
<1>2. s # 0 /\ s \in {0} \cup DOMAIN queue /\ crashed' \in BOOLEAN
  <2>1. s # 0
    BY DEF Base, Typed
  <2>2. crashed \in BOOLEAN /\ crashed' = crashed
    BY <1>1 DEF Base, Typed
  <2> QED
    BY <2>1, <2>2
<1>3. e \in Packets
  BY <1>1, <1>2, Handled
<1>4. Letter(e) \in Packets
  BY <1>1, <1>3, Submitted DEF Letter
<1>5. Moves(s, e, <<>>, {Letter(e)})
  BY <1>1, <1>2, <1>4, Sent
<1>6. Acts(s, e)
  BY <1>1, <1>2, Unchanged
<1> QED
  BY <1>1, <1>3, <1>4, <1>5, <1>6

\* Who is told by addAndNotify, the answer that goes on, and the message that a
\* user was added.
Welcome(s, c) == IF ~Attended(s) \/ c \in sess[s].notifySet THEN {} ELSE {OnlineTo(s, c, sess[s].status)}
Passed(e) == [e EXCEPT !.ev = "EV_S_IN"]
AddedNote(e) == In("CMD_SRV_MESSAGE", e.to, e.from, FALSE, "ADDED")
Sees(s) == Attended(s) /\ sess[s].status # "INVIS"
Answers(s, e) == (IF e.arg = "ACCEPT" /\ Sees(s) THEN Welcome(s, e.to) ELSE {})
                 \cup (IF e.arg = "ACCEPT" /\ s = 0 THEN {AddedNote(e)} ELSE {})
                 \cup {Passed(e)}

\* AddAndNotify sends the status to a user who does not get it yet.
LEMMA WelcomeSeq ==
  ASSUME Base, NEW s \in {0} \cup DOMAIN queue, NEW c \in Users,
         s # 0 => s \in DOMAIN sess /\ sess[s].user # c
  PROVE  AddAndNotify(s, c) \in Seq(Packets) /\ ToSet(AddAndNotify(s, c)) = Welcome(s, c)
<1>1. CASE ~Attended(s) \/ c \in sess[s].notifySet
  <2>1. AddAndNotify(s, c) = <<>> /\ Welcome(s, c) = {}
    BY <1>1 DEF AddAndNotify, Welcome
  <2> QED
    BY <2>1, EmptySet
<1>2. CASE ~(~Attended(s) \/ c \in sess[s].notifySet)
  <2> DEFINE p == OnlineTo(s, c, sess[s].status)
  <2>1. s \in DOMAIN sess /\ sess[s].user # c
    BY <1>2 DEF Attended
  <2>2. sess[s].user \in Users /\ sess[s].status \in Statuses
    BY <2>1, SessionFields
  <2>3. p \in Packets
    BY <2>1, <2>2, NoticesTyped
  <2>4. AddAndNotify(s, c) = <<p>> /\ Welcome(s, c) = {p}
    BY <1>2 DEF AddAndNotify, Welcome, OnlineTo
  <2> HIDE DEF p
  <2> QED
    BY <2>3, <2>4, OneSet
<1> QED
  BY <1>1, <1>2

\* One more user is told by the session.
LEMMA OneMoreTold ==
  ASSUME Base, NEW s \in {0} \cup DOMAIN queue, NEW c \in Users,
         s # 0 => s \in DOMAIN sess /\ sess[s].user # c, Notifies(s, c)
  PROVE  /\ ~Attended(s) => sess' = sess
         /\ Attended(s) => Turned(s, [sess[s] EXCEPT !.notifySet = sess[s].notifySet \cup {c}])
<1>1. CASE ~Attended(s)
  BY <1>1 DEF Notifies
<1>2. CASE Attended(s)
  <2> DEFINE N == sess[s].notifySet \cup {c}
  <2>1. s \in DOMAIN sess /\ sess[s].user # c
    BY <1>2 DEF Attended
  <2>2. N \in SUBSET Users /\ sess[s].user \notin N
    BY <2>1, SessionFields
  <2>3. sess' = [sess EXCEPT ![s].notifySet = N]
    BY <1>2 DEF Notifies
  <2> HIDE DEF N
  <2>4. Turned(s, [sess[s] EXCEPT !.notifySet = N])
    BY <2>1, <2>2, <2>3, Renotified
  <2> QED
    BY <1>2, <2>4 DEF N
<1> QED
  BY <1>1, <1>2

\* The frame of a handler that may change the sets of its session and a row of
\* its user.
LEMMA ActsOn ==
  ASSUME Base, NEW s, NEW e, Owner(e) \in Users,
         sess' = sess \/ \E N : Turned(s, [sess[s] EXCEPT !.notifySet = N]),
         roster' = roster \/ \E y \in Users : \E X : RowIs(Owner(e), y, X),
         UNCHANGED <<auth, message, crashed, got, lost>>
  PROVE  Acts(s, e)
<1>1. /\ message' \in [Users -> Seq({0} \cup Messages)] /\ crashed' \in BOOLEAN
      /\ got' \subseteq Messages /\ lost' \subseteq Messages /\ auth' = auth
  BY DEF Base, Typed
<1>2. /\ roster' \in [Users -> [Users -> SUBSET Sub]]
      /\ \A x \in Users : roster'[x][x] = {} /\ (x # Owner(e) => roster'[x] = roster[x])
  BY RosterKept DEF RowIs
<1>3. /\ sess' \in Seq(Session) /\ Len(sess') = Len(sess)
      /\ \A i \in DOMAIN sess : /\ sess'[i].user = sess[i].user
                                /\ i # s => sess'[i] = sess[i]
                                /\ sess'[i].user \notin sess'[i].notifySet
  BY SessKept DEF Turned
<1> QED
  BY <1>1, <1>2, <1>3 DEF Acts

\* OnContactAuthOut: an answer that accepts adds SUB_FROM and notifies, unless
\* invisible.
LEMMA DoAuthOut ==
  ASSUME Base, NEW s \in {0} \cup DOMAIN queue, NEW e, OnContactAuthOut(s, e)
  PROVE  /\ Moves(s, e, <<>>, Answers(s, e)) /\ Acts(s, e)
         /\ e \in Packets /\ e.ev = "EV_S_OUT" /\ e.cmd = "CMD_SRV_CONTACT_AUTH"
         /\ roster' = roster \/ RowIs(e.from, e.to, roster[e.from][e.to] \cup {"SUB_FROM"})
         /\ IF e.arg = "ACCEPT"
            THEN RowIs(e.from, e.to, roster[e.from][e.to] \cup {"SUB_FROM"}) ELSE roster' = roster
         /\ IF e.arg = "ACCEPT" /\ Sees(s)
            THEN Turned(s, [sess[s] EXCEPT !.notifySet = sess[s].notifySet \cup {e.to}])
            ELSE sess' = sess
<1> DEFINE visible == Attended(s) /\ sess[s].status # "INVIS"
           a == IF visible THEN AddAndNotify(s, e.to) ELSE <<>>
           b == IF s = 0 THEN <<AddedNote(e)>> ELSE <<>>
           c == Onward(e)
           out == a \o b \o c
<1>1. /\ e.ev = "EV_S_OUT" /\ e.cmd = "CMD_SRV_CONTACT_AUTH"
      /\ e.arg = "ACCEPT" => /\ Handle(s, e, <<>>, out)
                             /\ IF visible THEN Notifies(s, e.to) ELSE sess' = sess
                             /\ DbAddContact(e.from, e.to, "SUB_FROM")
      /\ e.arg # "ACCEPT" => Handle(s, e, <<>>, c) /\ sess' = sess /\ roster' = roster
      /\ UNCHANGED <<auth, message, crashed, got, lost>>
  BY DEF OnContactAuthOut, AddedNote
<1> HIDE DEF out
<1>2. \E req, o : Handle(s, e, req, o)
  BY <1>1
<1>3. /\ e \in Packets /\ e.from \in Users /\ e.to \in Users /\ e.from # e.to
      /\ s # 0 => s \in DOMAIN sess /\ sess[s].user = Owner(e)
  BY <1>1, <1>2, Handled
<1>4. Owner(e) = e.from
  BY <1>1 DEF Owner
<1>5. Passed(e) \in Packets /\ c = <<Passed(e)>>
  BY <1>1, <1>3, Forwarded DEF Passed, Onward
<1>6. CASE e.arg = "ACCEPT"
  <2>1. AddedNote(e) \in Packets
    <3>1. "CMD_SRV_MESSAGE" \in Cmds /\ "CMD_SRV_MESSAGE" \notin Notices /\ "ADDED" \in Args
      BY DEF Cmds, Notices, Args
    <3> QED
      BY <1>3, <3>1, NewIn DEF AddedNote
  <2> DEFINE A == IF Sees(s) THEN Welcome(s, e.to) ELSE {}
             B == IF s = 0 THEN {AddedNote(e)} ELSE {}
  <2>2. a \in Seq(Packets) /\ ToSet(a) = A
    <3>1. AddAndNotify(s, e.to) \in Seq(Packets) /\ ToSet(AddAndNotify(s, e.to)) = Welcome(s, e.to)
      BY <1>3, <1>4, WelcomeSeq
    <3> QED
      BY <3>1, EmptySet DEF Sees
  <2>3. b \in Seq(Packets) /\ ToSet(b) = B
    BY <2>1, OneSet, EmptySet
  <2>4. c \in Seq(Packets) /\ ToSet(c) = {Passed(e)}
    BY <1>5, OneSet
  <2>5. Answers(s, e) = A \cup B \cup {Passed(e)}
    BY <1>6 DEF Answers
  <2>6. out = (a \o b) \o c
    BY DEF out
  <2> HIDE DEF a, b, c, A, B
  <2>7. a \o b \in Seq(Packets) /\ ToSet(a \o b) = A \cup B
    BY <2>2, <2>3, JoinedSeq
  <2>8. out \in Seq(Packets) /\ ToSet(out) = Answers(s, e)
    <3> DEFINE d == a \o b
    <3>1. d \in Seq(Packets) /\ ToSet(d) = A \cup B /\ out = d \o c
      BY <2>6, <2>7
    <3> HIDE DEF d
    <3>2. d \o c \in Seq(Packets) /\ ToSet(d \o c) = ToSet(d) \cup ToSet(c)
      BY <2>4, <3>1, JoinedSeq
    <3> QED
      BY <2>4, <2>5, <3>1, <3>2
  <2>9. Moves(s, e, <<>>, Answers(s, e))
    <3> DEFINE req == <<>>
    <3>1. req \in Seq(Reports) /\ Handle(s, e, req, out) /\ Typed
      BY <1>1, <1>6, EmptySet DEF Base
    <3> HIDE DEF req
    <3>2. Moves(s, e, req, ToSet(out))
      BY <2>8, <3>1, HandleMoves
    <3> QED
      BY <2>8, <3>2 DEF req
  <2>10. RowIs(e.from, e.to, roster[e.from][e.to] \cup {"SUB_FROM"})
    BY <1>1, <1>3, <1>6, Added DEF Sub
  <2>11. IF Sees(s) THEN Turned(s, [sess[s] EXCEPT !.notifySet = sess[s].notifySet \cup {e.to}])
                    ELSE sess' = sess
    <3>1. CASE Sees(s)
      <4>1. Attended(s) /\ Notifies(s, e.to)
        BY <1>1, <1>6, <3>1 DEF Sees
      <4>2. Turned(s, [sess[s] EXCEPT !.notifySet = sess[s].notifySet \cup {e.to}])
        BY <1>3, <1>4, <4>1, OneMoreTold
      <4> QED
        BY <3>1, <4>2
    <3>2. CASE ~Sees(s)
      BY <1>1, <1>6, <3>2 DEF Sees
    <3> QED
      BY <3>1, <3>2
  <2>12. Acts(s, e)
    <3>1. sess' = sess \/ \E N : Turned(s, [sess[s] EXCEPT !.notifySet = N])
      BY <2>11
    <3>2. \E y \in Users : \E X : RowIs(Owner(e), y, X)
      BY <1>3, <1>4, <2>10
    <3>3. Owner(e) \in Users /\ UNCHANGED <<auth, message, crashed, got, lost>>
      BY <1>1, <1>3, <1>4
    <3> QED
      BY <3>1, <3>2, <3>3, ActsOn
  <2> QED
    BY <1>1, <1>3, <1>6, <2>9, <2>10, <2>11, <2>12
<1>7. CASE e.arg # "ACCEPT"
  <2>1. Answers(s, e) = {Passed(e)}
    BY <1>7 DEF Answers
  <2>2. Handle(s, e, <<>>, <<Passed(e)>>)
    BY <1>1, <1>5, <1>7
  <2>3. Moves(s, e, <<>>, {Passed(e)})
    BY <1>5, <2>2, Sent
  <2>4. Acts(s, e)
    <3>1. sess' = sess /\ roster' = roster /\ UNCHANGED <<auth, message, crashed, got, lost>>
      BY <1>1, <1>7
    <3>2. Owner(e) \in Users
      BY <1>3, <1>4
    <3> QED
      BY <3>1, <3>2, ActsOn
  <2> QED
    BY <1>1, <1>3, <1>7, <2>1, <2>3, <2>4
<1> QED
  BY <1>6, <1>7

Accepts(s, e) == s # 0 /\ e.arg = "AUTH_ACCEPT"

\* OnMessageOut: a message that accepts adds SUB_FROM and notifies.
LEMMA DoMessageOut ==
  ASSUME Base, NEW s \in {0} \cup DOMAIN queue, NEW e, OnMessageOut(s, e)
  PROVE  /\ Moves(s, e, <<>>, (IF Accepts(s, e) THEN Welcome(s, e.to) ELSE {}) \cup {Passed(e)})
         /\ Acts(s, e)
         /\ e \in Packets /\ e.ev = "EV_S_OUT" /\ e.cmd = "CMD_SRV_MESSAGE"
         /\ IF Accepts(s, e)
            THEN /\ RowIs(e.from, e.to, roster[e.from][e.to] \cup {"SUB_FROM"})
                 /\ IF Attended(s)
                    THEN Turned(s, [sess[s] EXCEPT !.notifySet = sess[s].notifySet \cup {e.to}])
                    ELSE sess' = sess
            ELSE roster' = roster /\ sess' = sess
<1> DEFINE a == AddAndNotify(s, e.to)
           c == Onward(e)
           out == a \o c
<1>1. /\ e.ev = "EV_S_OUT" /\ e.cmd = "CMD_SRV_MESSAGE"
      /\ Accepts(s, e) => /\ Handle(s, e, <<>>, out) /\ Notifies(s, e.to)
                          /\ DbAddContact(e.from, e.to, "SUB_FROM")
      /\ ~Accepts(s, e) => Handle(s, e, <<>>, c) /\ sess' = sess /\ roster' = roster
      /\ UNCHANGED <<auth, message, crashed, got, lost>>
  BY DEF OnMessageOut, Accepts
<1> HIDE DEF out
<1>2. \E req, o : Handle(s, e, req, o)
  BY <1>1
<1>3. /\ e \in Packets /\ e.from \in Users /\ e.to \in Users /\ e.from # e.to
      /\ s # 0 => s \in DOMAIN sess /\ sess[s].user = Owner(e)
  BY <1>1, <1>2, Handled
<1>4. Owner(e) = e.from
  BY <1>1 DEF Owner
<1>5. Passed(e) \in Packets /\ c = <<Passed(e)>>
  BY <1>1, <1>3, Forwarded DEF Passed, Onward
<1>6. CASE Accepts(s, e)
  <2>1. a \in Seq(Packets) /\ ToSet(a) = Welcome(s, e.to)
    BY <1>3, <1>4, WelcomeSeq
  <2>2. c \in Seq(Packets) /\ ToSet(c) = {Passed(e)}
    BY <1>5, OneSet
  <2>3. out = a \o c
    BY DEF out
  <2> HIDE DEF a, c
  <2>4. out \in Seq(Packets) /\ ToSet(out) = Welcome(s, e.to) \cup {Passed(e)}
    BY <2>1, <2>2, <2>3, JoinedSeq
  <2>5. Moves(s, e, <<>>, Welcome(s, e.to) \cup {Passed(e)})
    <3> DEFINE req == <<>>
    <3>1. req \in Seq(Reports) /\ Handle(s, e, req, out) /\ Typed
      BY <1>1, <1>6, EmptySet DEF Base
    <3> HIDE DEF req
    <3>2. Moves(s, e, req, ToSet(out))
      BY <2>4, <3>1, HandleMoves
    <3> QED
      BY <2>4, <3>2 DEF req
  <2>6. RowIs(e.from, e.to, roster[e.from][e.to] \cup {"SUB_FROM"})
    BY <1>1, <1>3, <1>6, Added DEF Sub
  <2>7. IF Attended(s)
        THEN Turned(s, [sess[s] EXCEPT !.notifySet = sess[s].notifySet \cup {e.to}])
        ELSE sess' = sess
    <3>1. Notifies(s, e.to)
      BY <1>1, <1>6 DEF Accepts
    <3> QED
      BY <1>3, <1>4, <3>1, OneMoreTold
  <2>8. Acts(s, e)
    <3>1. sess' = sess \/ \E N : Turned(s, [sess[s] EXCEPT !.notifySet = N])
      BY <2>7
    <3>2. \E y \in Users : \E X : RowIs(Owner(e), y, X)
      BY <1>3, <1>4, <2>6
    <3>3. Owner(e) \in Users /\ UNCHANGED <<auth, message, crashed, got, lost>>
      BY <1>1, <1>3, <1>4
    <3> QED
      BY <3>1, <3>2, <3>3, ActsOn
  <2> QED
    BY <1>1, <1>3, <1>6, <2>5, <2>6, <2>7, <2>8
<1>7. CASE ~Accepts(s, e)
  <2>1. Handle(s, e, <<>>, <<Passed(e)>>)
    BY <1>1, <1>5, <1>7
  <2>2. Moves(s, e, <<>>, {Passed(e)})
    BY <1>5, <2>1, Sent
  <2>3. Acts(s, e)
    <3>1. sess' = sess /\ roster' = roster /\ UNCHANGED <<auth, message, crashed, got, lost>>
      BY <1>1, <1>7
    <3>2. Owner(e) \in Users
      BY <1>3, <1>4
    <3> QED
      BY <3>1, <3>2, ActsOn
  <2> QED
    BY <1>1, <1>3, <1>7, <2>2, <2>3
<1> QED
  BY <1>6, <1>7

\* OnUserStatus changes what the client shows of the sender.
LEMMA DoUserStatus ==
  ASSUME Base, NEW s \in {0} \cup DOMAIN queue, NEW e, OnUserStatus(s, e)
  PROVE  /\ Moves(s, e, <<>>, {}) /\ Acts(s, e) /\ roster' = roster
         /\ e \in Packets /\ e.ev = "EV_S_IN" /\ e.cmd \in Notices
         /\ ~Attended(s) => sess' = sess
         /\ Attended(s) => /\ sess'[s].notifySet = sess[s].notifySet /\ sess'[s].status = sess[s].status
                            /\ sess'[s].shown = sess[s].shown /\ s \in DOMAIN sess
                            /\ sess'[s].view = [sess[s].view EXCEPT ![e.from] = e.arg]
<1>1. /\ Handle(s, e, <<>>, <<>>) /\ e.ev = "EV_S_IN" /\ e.cmd \in Notices
      /\ sess' = IF Attended(s) THEN [sess EXCEPT ![s].view[e.from] = e.arg] ELSE sess
      /\ roster' = roster /\ UNCHANGED <<auth, message, crashed, got, lost>>
  BY DEF OnUserStatus, tables, Notices
<1>2. /\ e \in Packets /\ e.from \in Users /\ e.to \in Users /\ Sound(e)
      /\ s # 0 => s \in DOMAIN sess /\ sess[s].user = Owner(e)
  BY <1>1, Handled
<1>3. Moves(s, e, <<>>, {})
  BY <1>1, SentNone
<1>4. CASE ~Attended(s)
  <2>1. crashed' \in BOOLEAN
    BY <1>1 DEF Base, Typed
  <2>2. Acts(s, e)
    BY <1>1, <1>4, <2>1, Unchanged
  <2> QED
    BY <1>1, <1>2, <1>3, <1>4, <2>2
<1>5. CASE Attended(s)
  <2> DEFINE v == [sess[s].view EXCEPT ![e.from] = e.arg]
             r == [sess[s] EXCEPT !.view = v]
  <2>1. s \in DOMAIN sess /\ e.arg \in Shown
    BY <1>1, <1>2, <1>5 DEF Sound, Attended
  <2>2. /\ sess[s] \in Session /\ sess[s].user \notin sess[s].notifySet
        /\ sess[s].view \in [Users -> Shown]
    BY <2>1, SessionFields
  <2>3. v \in [Users -> Shown]
    BY <2>1, <2>2
  <2>4. sess' = [sess EXCEPT ![s] = r]
    BY <1>1, <1>5
  <2>5. v = [sess[s].view EXCEPT ![e.from] = e.arg]
    OBVIOUS
  <2> HIDE DEF v
  <2>6. /\ r \in Session /\ r.user = sess[s].user /\ r.notifySet = sess[s].notifySet
        /\ r.status = sess[s].status /\ r.shown = sess[s].shown /\ r.view = v
    BY <2>2, <2>3 DEF Session
  <2> HIDE DEF r
  <2>7. Turned(s, r)
    BY <2>1, <2>2, <2>4, <2>6, Revised
  <2>8. /\ message' \in [Users -> Seq({0} \cup Messages)] /\ crashed' \in BOOLEAN
        /\ got' \subseteq Messages /\ lost' \subseteq Messages /\ auth' = auth
    BY <1>1 DEF Base, Typed
  <2>9. Acts(s, e)
    BY <1>1, <2>7, <2>8, RosterKept DEF Acts, Turned
  <2> QED
    BY <1>1, <1>2, <1>3, <1>5, <2>1, <2>5, <2>6, <2>7, <2>9 DEF Turned
<1> QED
  BY <1>4, <1>5

\* Whether a session answers a probe.
Answering(s, e) == Attended(s) /\ e.from \in sess[s].notifySet /\ sess[s].status # "INVIS"

\* OnProbeStatus answers a user in notifySet unless the session is invisible.
LEMMA DoProbeStatus ==
  ASSUME Base, NEW s \in {0} \cup DOMAIN queue, NEW e, OnProbeStatus(s, e)
  PROVE  /\ Moves(s, e, <<>>, IF Answering(s, e) THEN {OnlineTo(s, e.from, sess[s].status)} ELSE {})
         /\ Acts(s, e) /\ roster' = roster /\ sess' = sess
         /\ e \in Packets /\ e.ev = "EV_S_IN" /\ e.cmd = "CMD_SRV_PROBE_STATUS"
<1> DEFINE p == OnlineTo(s, e.from, sess[s].status)
           out == IF Answering(s, e) THEN <<p>> ELSE <<>>
<1>1. /\ Handle(s, e, <<>>, out) /\ e.ev = "EV_S_IN" /\ e.cmd = "CMD_SRV_PROBE_STATUS"
      /\ sess' = sess /\ roster' = roster /\ UNCHANGED <<auth, message, crashed, got, lost>>
  BY DEF OnProbeStatus, tables, Answering, OnlineTo
<1> HIDE DEF out, p
<1>2. /\ e \in Packets /\ e.from \in Users /\ e.to \in Users /\ e.from # e.to
      /\ s # 0 => s \in DOMAIN sess /\ sess[s].user = Owner(e)
  BY <1>1, Handled
<1>3. Moves(s, e, <<>>, IF Answering(s, e) THEN {p} ELSE {})
  <2>1. CASE Answering(s, e)
    <3>1. s # 0
      BY <2>1 DEF Answering, Attended
    <3>2. s \in DOMAIN sess /\ sess[s].user = e.to
      BY <1>1, <1>2, <3>1 DEF Owner
    <3>3. sess[s].user \in Users /\ sess[s].status \in Statuses
      BY <3>2, SessionFields
    <3>4. p \in Packets
      BY <1>2, <3>2, <3>3, NoticesTyped DEF p
    <3>5. Handle(s, e, <<>>, <<p>>)
      BY <1>1, <2>1 DEF out
    <3>6. Moves(s, e, <<>>, {p})
      BY <3>4, <3>5, Sent
    <3> QED
      BY <2>1, <3>6
  <2>2. CASE ~Answering(s, e)
    <3>1. Handle(s, e, <<>>, <<>>)
      BY <1>1, <2>2 DEF out
    <3>2. Moves(s, e, <<>>, {})
      BY <3>1, SentNone
    <3> QED
      BY <2>2, <3>2
  <2> QED
    BY <2>1, <2>2
<1>4. Acts(s, e)
  <2>1. crashed' \in BOOLEAN
    BY <1>1 DEF Base, Typed
  <2> QED
    BY <1>1, <2>1, Unchanged
<1> QED
  BY <1>1, <1>2, <1>3, <1>4 DEF p

Answer(e) == Out("CMD_SRV_CONTACT_AUTH", e.to, e.from, TRUE, auth[e.to])

\* OnAddContactIn answers a request in the user's name.
LEMMA DoAddContactIn ==
  ASSUME Base, NEW s \in {0} \cup DOMAIN queue, NEW e, OnAddContactIn(s, e)
  PROVE  /\ Moves(s, e, <<>>, {Answer(e)}) /\ Acts(s, e) /\ roster' = roster /\ sess' = sess
         /\ e \in Packets /\ e.ev = "EV_S_IN" /\ e.cmd = "CMD_SRV_ADD_CONTACT"
<1>1. /\ Handle(s, e, <<>>, <<Answer(e)>>) /\ e.ev = "EV_S_IN" /\ e.cmd = "CMD_SRV_ADD_CONTACT"
      /\ sess' = sess /\ roster' = roster /\ UNCHANGED <<auth, message, crashed, got, lost>>
  BY DEF OnAddContactIn, tables, Answer
<1>2. e \in Packets /\ e.from \in Users /\ e.to \in Users /\ e.from # e.to
  BY <1>1, Handled
<1>3. Answer(e) \in Packets
  <2> DEFINE a == auth[e.to]
             x == Item("EV_S_OUT", "CMD_SRV_CONTACT_AUTH", e.to, e.from, TRUE, a, 0)
  <2>1. a \in Args
    BY <1>2 DEF Args, Base, Typed
  <2>2. "CMD_SRV_CONTACT_AUTH" \in Cmds
    BY DEF Cmds
  <2> HIDE DEF a
  <2>3. Sound(x)
    BY <1>2 DEF Sound, Item, Notices
  <2>4. x \in Packets
    BY <1>2, <2>1, <2>2, <2>3, NewPacket
  <2> QED
    BY <2>4 DEF Answer, Out, a
<1>4. Moves(s, e, <<>>, {Answer(e)})
  BY <1>1, <1>3, Sent
<1>5. Acts(s, e)
  <2>1. crashed' \in BOOLEAN
    BY <1>1 DEF Base, Typed
  <2> QED
    BY <1>1, <2>1, Unchanged
<1> QED
  BY <1>1, <1>2, <1>4, <1>5

\* OnContactAuthIn may add SUB_TO.
LEMMA DoAuthIn ==
  ASSUME Base, NEW s \in {0} \cup DOMAIN queue, NEW e, OnContactAuthIn(s, e)
  PROVE  /\ Moves(s, e, <<>>, {}) /\ Acts(s, e) /\ sess' = sess
         /\ e \in Packets /\ e.ev = "EV_S_IN" /\ e.cmd = "CMD_SRV_CONTACT_AUTH"
         /\ \/ roster' = roster
            \/ e.arg = "ACCEPT" /\ RowIs(e.to, e.from, roster[e.to][e.from] \cup {"SUB_TO"})
<1>1. /\ Handle(s, e, <<>>, <<>>) /\ e.ev = "EV_S_IN" /\ e.cmd = "CMD_SRV_CONTACT_AUTH"
      /\ sess' = sess /\ UNCHANGED <<auth, message, crashed, got, lost>>
      /\ \/ roster' = roster
         \/ e.arg = "ACCEPT" /\ DbAddContact(e.to, e.from, "SUB_TO")
  BY DEF OnContactAuthIn
<1>2. e \in Packets /\ e.from \in Users /\ e.to \in Users /\ e.from # e.to
  BY <1>1, Handled
<1>3. Moves(s, e, <<>>, {})
  BY <1>1, SentNone
<1>4. Owner(e) = e.to
  BY <1>1 DEF Owner
<1>5. \/ roster' = roster
      \/ e.arg = "ACCEPT" /\ RowIs(e.to, e.from, roster[e.to][e.from] \cup {"SUB_TO"})
  BY <1>1, <1>2, Added DEF Sub
<1>6. Acts(s, e)
  <2>1. roster' = roster \/ \E y \in Users : \E X : RowIs(Owner(e), y, X)
    BY <1>2, <1>4, <1>5
  <2>2. Owner(e) \in Users
    BY <1>2, <1>4
  <2> QED
    BY <1>1, <2>1, <2>2, ActsOn
<1> QED
  BY <1>1, <1>2, <1>3, <1>5, <1>6

\* OnDelContactIn takes SUB_FROM from the row and the user from notifySet.
LEMMA DoDelContactIn ==
  ASSUME Base, NEW s \in {0} \cup DOMAIN queue, NEW e, OnDelContactIn(s, e)
  PROVE  /\ Moves(s, e, <<>>, {}) /\ Acts(s, e)
         /\ e \in Packets /\ e.ev = "EV_S_IN" /\ e.cmd = "CMD_SRV_DEL_CONTACT"
         /\ RowIs(e.to, e.from, roster[e.to][e.from] \ {"SUB_FROM"})
         /\ ~Attended(s) => sess' = sess
         /\ Attended(s) => Turned(s, [sess[s] EXCEPT !.notifySet = sess[s].notifySet \ {e.from}])
<1>1. /\ Handle(s, e, <<>>, <<>>) /\ e.ev = "EV_S_IN" /\ e.cmd = "CMD_SRV_DEL_CONTACT"
      /\ UNCHANGED <<auth, message, crashed, got, lost>>
      /\ ~Attended(s) => sess' = sess
      /\ Attended(s) => sess' = [sess EXCEPT ![s].notifySet = @ \ {e.from}]
      /\ DbDelContact(e.to, e.from, "SUB_FROM")
  BY DEF OnDelContactIn
<1>2. /\ e \in Packets /\ e.from \in Users /\ e.to \in Users /\ e.from # e.to
      /\ s # 0 => s \in DOMAIN sess /\ sess[s].user = Owner(e)
  BY <1>1, Handled
<1>3. Moves(s, e, <<>>, {})
  BY <1>1, SentNone
<1>4. Owner(e) = e.to
  BY <1>1 DEF Owner
<1>5. RowIs(e.to, e.from, roster[e.to][e.from] \ {"SUB_FROM"})
  BY <1>1, <1>2, Deleted DEF Sub
<1>6. Attended(s) => Turned(s, [sess[s] EXCEPT !.notifySet = sess[s].notifySet \ {e.from}])
  <2> SUFFICES ASSUME Attended(s)
               PROVE  Turned(s, [sess[s] EXCEPT !.notifySet = sess[s].notifySet \ {e.from}])
    OBVIOUS
  <2> DEFINE N == sess[s].notifySet \ {e.from}
  <2>1. s \in DOMAIN sess
    BY <1>2 DEF Attended
  <2>2. N \in SUBSET Users /\ sess[s].user \notin N
    BY <2>1, SessionFields
  <2>3. sess' = [sess EXCEPT ![s].notifySet = N]
    BY <1>1
  <2> HIDE DEF N
  <2>4. Turned(s, [sess[s] EXCEPT !.notifySet = N])
    BY <2>1, <2>2, <2>3, Renotified
  <2> QED
    BY <2>4 DEF N
<1>7. Acts(s, e)
  <2>1. \E y \in Users : \E X : RowIs(Owner(e), y, X)
    BY <1>2, <1>4, <1>5
  <2>2. Owner(e) \in Users
    BY <1>2, <1>4
  <2>3. sess' = sess \/ \E N : Turned(s, [sess[s] EXCEPT !.notifySet = N])
    BY <1>1, <1>6
  <2> QED
    BY <1>1, <2>1, <2>2, <2>3, ActsOn
<1> QED
  BY <1>1, <1>2, <1>3, <1>5, <1>6, <1>7

\* OnMessageIn adds SUB_TO only if it accepts a contact and finds no session.
LEMMA DoMessageIn ==
  ASSUME Base, NEW s \in {0} \cup DOMAIN queue, NEW e, OnMessageIn(s, e)
  PROVE  /\ Moves(s, e, <<>>, {}) /\ Acts(s, e) /\ sess' = sess
         /\ e \in Packets /\ e.ev = "EV_S_IN" /\ e.cmd = "CMD_SRV_MESSAGE"
         /\ IF s = 0 /\ e.arg = "AUTH_ACCEPT"
            THEN RowIs(e.to, e.from, roster[e.to][e.from] \cup {"SUB_TO"}) ELSE roster' = roster
<1>1. /\ Handle(s, e, <<>>, <<>>) /\ e.ev = "EV_S_IN" /\ e.cmd = "CMD_SRV_MESSAGE"
      /\ sess' = sess /\ auth' = auth /\ crashed' = crashed
      /\ s # 0 => Given(s, {e.id}) /\ roster' = roster /\ message' = message
      /\ s = 0 => /\ message' = [message EXCEPT ![e.to] = Append(@, e.id)]
                  /\ got' = got /\ lost' = lost
                  /\ IF e.arg = "AUTH_ACCEPT" THEN DbAddContact(e.to, e.from, "SUB_TO")
                                              ELSE roster' = roster
  BY DEF OnMessageIn
<1>2. e \in Packets /\ e.from \in Users /\ e.to \in Users /\ e.from # e.to
  BY <1>1, Handled
<1>3. Moves(s, e, <<>>, {})
  BY <1>1, SentNone
<1>4. Owner(e) = e.to
  BY <1>1 DEF Owner
<1>5. IF s = 0 /\ e.arg = "AUTH_ACCEPT"
      THEN RowIs(e.to, e.from, roster[e.to][e.from] \cup {"SUB_TO"}) ELSE roster' = roster
  BY <1>1, <1>2, Added DEF Sub
<1>6. e.id \in {0} \cup Messages
  BY <1>2, PacketFields
<1>7. message \in [Users -> Seq({0} \cup Messages)] /\ got \subseteq Messages /\ lost \subseteq Messages
      /\ crashed \in BOOLEAN
  BY DEF Base, Typed
<1>8. got' \subseteq Messages /\ lost' \subseteq Messages
  <2>1. CASE s = 0
    BY <1>1, <1>7, <2>1
  <2>2. CASE s # 0
    <3>1. {e.id} \subseteq {0} \cup Messages
      BY <1>6
    <3> QED
      BY <1>1, <2>2, <3>1, GivenTyped
  <2> QED
    BY <2>1, <2>2
<1>9. message' \in [Users -> Seq({0} \cup Messages)]
  <2>1. CASE s = 0
    <3> DEFINE S == {0} \cup Messages
               i == e.id
               m == message[e.to]
    <3>1. i \in S /\ m \in Seq(S) /\ message \in [Users -> Seq(S)]
      BY <1>2, <1>6, <1>7
    <3>2. message' = [message EXCEPT ![e.to] = Append(m, i)]
      BY <1>1, <2>1
    <3> HIDE DEF S, i, m
    <3>3. Append(m, i) \in Seq(S)
      BY <3>1
    <3>4. message' \in [Users -> Seq(S)]
      BY <3>1, <3>2, <3>3
    <3> QED
      BY <3>4 DEF S
  <2>2. CASE s # 0
    BY <1>1, <1>7, <2>2
  <2> QED
    BY <2>1, <2>2
<1>10. crashed' \in BOOLEAN
  BY <1>1, <1>7
<1>11. /\ roster' \in [Users -> [Users -> SUBSET Sub]]
       /\ \A x \in Users : roster'[x][x] = {} /\ (x # Owner(e) => roster'[x] = roster[x])
  BY <1>4, <1>5, RosterKept DEF RowIs
<1>12. Acts(s, e)
  BY <1>1, <1>8, <1>9, <1>10, <1>11, SessKept DEF Acts
<1> QED
  BY <1>1, <1>2, <1>3, <1>5, <1>12

Reply(e) == In("CMD_SRV_CONTACT_INFO_REPLY", e.to, e.from, TRUE, "")

\* OnContactInfoIn answers in the user's name.
LEMMA DoInfoIn ==
  ASSUME Base, NEW s \in {0} \cup DOMAIN queue, NEW e, OnContactInfoIn(s, e)
  PROVE  /\ Moves(s, e, <<>>, {Reply(e)}) /\ Acts(s, e) /\ roster' = roster /\ sess' = sess
         /\ e \in Packets /\ e.ev = "EV_S_IN" /\ e.cmd = "CMD_SRV_CONTACT_INFO"
<1>1. /\ Handle(s, e, <<>>, <<Reply(e)>>) /\ e.ev = "EV_S_IN" /\ e.cmd = "CMD_SRV_CONTACT_INFO"
      /\ sess' = sess /\ roster' = roster /\ UNCHANGED <<auth, message, crashed, got, lost>>
  BY DEF OnContactInfoIn, tables, Reply
<1>2. e \in Packets /\ e.from \in Users /\ e.to \in Users /\ e.from # e.to
  BY <1>1, Handled
<1>3. Reply(e) \in Packets
  <2>1. "CMD_SRV_CONTACT_INFO_REPLY" \in Cmds /\ "CMD_SRV_CONTACT_INFO_REPLY" \notin Notices /\ "" \in Args
    BY DEF Cmds, Notices, Args
  <2> QED
    BY <1>2, <2>1, NewIn DEF Reply
<1>4. Moves(s, e, <<>>, {Reply(e)})
  BY <1>1, <1>3, Sent
<1>5. Acts(s, e)
  <2>1. crashed' \in BOOLEAN
    BY <1>1 DEF Base, Typed
  <2> QED
    BY <1>1, <2>1, Unchanged
<1> QED
  BY <1>1, <1>2, <1>4, <1>5

\* OnContactInfoReply changes neither sessions nor tables.
LEMMA DoInfoReply ==
  ASSUME Base, NEW s \in {0} \cup DOMAIN queue, NEW e, OnContactInfoReply(s, e)
  PROVE  /\ Moves(s, e, <<>>, {}) /\ Acts(s, e) /\ roster' = roster /\ sess' = sess
         /\ e \in Packets /\ e.ev = "EV_S_IN" /\ e.cmd = "CMD_SRV_CONTACT_INFO_REPLY"
<1>1. /\ Handle(s, e, <<>>, <<>>) /\ e.ev = "EV_S_IN" /\ e.cmd = "CMD_SRV_CONTACT_INFO_REPLY"
      /\ sess' = sess /\ roster' = roster /\ UNCHANGED <<auth, message, got, lost>>
      /\ crashed' = (s = 0)
  BY DEF OnContactInfoReply, tables
<1>2. e \in Packets
  BY <1>1, Handled
<1>3. Moves(s, e, <<>>, {})
  BY <1>1, SentNone
<1>4. crashed' \in BOOLEAN
  BY <1>1
<1>5. Acts(s, e)
  BY <1>1, <1>4, Unchanged
<1> QED
  BY <1>1, <1>2, <1>3, <1>5

-----------------------------------------------------------------------------
(***************************************************************************)
(* Types, queues and sessions.                                             *)
(***************************************************************************)

\* Sessions and queues have the same numbers; the hash refers to sessions of
\* its users.
LEMMA Shapes ==
  ASSUME Base
  PROVE  /\ queue \in Seq(Seq(Packets \cup Marks)) /\ sess \in Seq(Session)
         /\ Len(queue) = Len(sess) /\ Len(sess) \in Nat
         /\ DOMAIN queue = 1 .. Len(sess) /\ DOMAIN sess = 1 .. Len(sess)
         /\ \A i \in DOMAIN queue : queue[i] \in Seq(Packets \cup Marks)
         /\ hash \in [Users -> 0 .. Len(sess)]
         /\ \A u \in Users : hash[u] # 0 => hash[u] \in DOMAIN sess /\ sess[hash[u]].user = u
<1>1. /\ queue \in Seq(Seq(Packets \cup Marks)) /\ sess \in Seq(Session)
      /\ Len(queue) = Len(sess) /\ hash \in [Users -> 0 .. Len(sess)]
  BY DEF Base, Typed
<1>2. /\ Len(sess) \in Nat /\ DOMAIN queue = 1 .. Len(sess) /\ DOMAIN sess = 1 .. Len(sess)
      /\ \A i \in DOMAIN queue : queue[i] \in Seq(Packets \cup Marks)
  BY <1>1
<1>3. \A u \in Users : hash[u] # 0 => hash[u] \in DOMAIN sess /\ sess[hash[u]].user = u
  BY <1>1, <1>2 DEF Base, SessionsInv
<1> QED
  BY <1>1, <1>2, <1>3

\* A queue that loses its head, or not, and gets packets of its session.
LEMMA QueueGrows ==
  ASSUME Base, NEW i \in DOMAIN queue, NEW s, s = i => queue[i] # <<>>,
         NEW h \in Seq(Packets), \A p \in ToSet(h) : hash[Owner(p)] = i,
         queue'[i] = Rest(i, s) \o h, hash' = hash, sess'[i].user = sess[i].user,
         astray \subseteq astray',
         (\E k \in DOMAIN Rest(i, s) : Rest(i, s)[k].ev = "EV_SESSION") =>
           /\ sess'[i].status = sess[i].status /\ sess'[i].shown = sess[i].shown
           /\ sess'[i].notifySet = sess[i].notifySet
  PROVE  QueueInv(i)'
<1> DEFINE q == queue[i]
           K == Rest(i, s)
           n == queue'[i]
           d == IF i = s THEN 1 ELSE 0
           S == Packets \cup Marks
<1>1. q \in Seq(Packets \cup Marks) /\ i \in DOMAIN sess /\ QueueInv(i) /\ i # 0
  BY Shapes DEF Base, SessionsInv
<1>2. /\ K \in Seq(Packets \cup Marks) /\ Len(q) \in Nat /\ Len(K) = Len(q) - d /\ Len(K) \in Nat
      /\ \A k \in 1 .. Len(K) : K[k] = q[k + d] /\ k + d \in DOMAIN q
      /\ DOMAIN q = 1 .. Len(q)
  <2>1. CASE i = s
    <3>1. K = Tail(q) /\ q # <<>>
      BY <2>1 DEF Rest
    <3>2. /\ Tail(q) \in Seq(Packets \cup Marks) /\ Len(q) \in Nat \ {0} /\ Len(Tail(q)) = Len(q) - 1
          /\ \A k \in 1 .. Len(q) - 1 : Tail(q)[k] = q[k + 1]
          /\ DOMAIN q = 1 .. Len(q)
      BY <1>1, <3>1, TailSeq
    <3>3. \A k \in 1 .. Len(q) - 1 : k + 1 \in 1 .. Len(q)
      BY <3>2
    <3> HIDE DEF q, K
    <3> QED
      BY <2>1, <3>1, <3>2, <3>3
  <2>2. CASE i # s
    <3>1. K = q
      BY <2>2 DEF Rest
    <3> HIDE DEF K, q
    <3> QED
      BY <1>1, <2>2, <3>1
  <2> QED
    BY <2>1, <2>2
<1>3. n = K \o h
  OBVIOUS
<1>4. h # <<>> => hash[sess[i].user] = i
  <2> SUFFICES ASSUME h # <<>>
               PROVE  hash[sess[i].user] = i
    OBVIOUS
  <2>1. PICK p : p \in ToSet(h)
    BY ElementsSeq
  <2>2. p \in Packets
    BY <2>1, ElementsSeq
  <2>3. Owner(p) \in Users
    BY <2>2, PacketFields DEF Owner
  <2>4. hash[Owner(p)] = i /\ i # 0
    BY <1>1, <2>1
  <2> QED
    BY <2>3, <2>4, Shapes
<1>5. \A k \in DOMAIN q :
       /\ Owner(q[k]) = sess[i].user
       /\ q[k].ev = "EV_SESSION" =>
            /\ q[k].arg = sess[i].status /\ sess[i].notifySet = {}
            /\ sess[i].shown = (sess[i].status # "INVIS")
            /\ \A j \in 1 .. k - 1 : Posted(q[j])
       /\ q[k].ev = "EV_S_END" =>
            /\ hash[sess[i].user] # i
            /\ \A j \in k + 1 .. Len(q) : Posted(q[j])
  BY <1>1 DEF QueueInv
<1>6. sess[i].user \notin astray =>
        /\ \A k \in DOMAIN q :
             /\ q[k].ev = "EV_SESSION" => k = 1
             /\ q[k].ev = "EV_S_END" => k = Len(q)
        /\ q # <<>> /\ hash[sess[i].user] # i => q[Len(q)].ev = "EV_S_END"
  BY <1>1 DEF QueueInv, InLine
<1>61. (\E k \in DOMAIN K : K[k].ev = "EV_SESSION") =>
         /\ sess'[i].status = sess[i].status /\ sess'[i].shown = sess[i].shown
         /\ sess'[i].notifySet = sess[i].notifySet
  OBVIOUS
<1>7. h \in Seq(S) /\ (s = i <=> d = 1) /\ (s # i <=> d = 0) /\ d \in {0, 1}
  BY SeqMonotonic
<1>71. q \in Seq(S) /\ K \in Seq(S)
  BY <1>1, <1>2
<1> HIDE DEF q, K, n, d, S
<1>8. /\ Len(n) = Len(K) + Len(h) /\ Len(h) \in Nat /\ DOMAIN n = 1 .. Len(K) + Len(h)
      /\ \A k \in 1 .. Len(K) : n[k] = K[k]
      /\ \A k \in 1 .. Len(h) : n[Len(K) + k] = h[k]
  BY <1>3, <1>7, <1>71, JoinedSeq
<1>81. DOMAIN K = 1 .. Len(K)
  BY <1>71
<1>9. ASSUME NEW k \in DOMAIN n
      PROVE  /\ Owner(n[k]) = sess[i].user
             /\ n[k].ev \in {"EV_SESSION", "EV_S_END"} =>
                  k \in 1 .. Len(K) /\ n[k] = q[k + d] /\ k + d \in DOMAIN q
  <2>1. CASE k \in 1 .. Len(K)
    <3>1. n[k] = q[k + d] /\ k + d \in DOMAIN q
      BY <1>2, <1>8, <2>1
    <3> QED
      BY <1>5, <2>1, <3>1
  <2>2. CASE k \notin 1 .. Len(K)
    <3>1. k - Len(K) \in 1 .. Len(h) /\ Len(K) + (k - Len(K)) = k
      BY <1>2, <1>8, <2>2
    <3>2. n[k] = h[k - Len(K)]
      BY <1>8, <3>1
    <3>3. n[k] \in ToSet(h)
      BY <3>1, <3>2 DEF ToSet
    <3>4. n[k] \in Packets /\ hash[Owner(n[k])] = i
      BY <3>3, ElementsSeq
    <3>5. n[k].ev \in {"EV_S_IN", "EV_S_OUT"} /\ Owner(n[k]) \in Users
      BY <3>4, PacketFields DEF Owner
    <3>6. Owner(n[k]) = sess[i].user
      BY <1>1, <3>4, <3>5, Shapes
    <3> QED
      BY <3>5, <3>6
  <2> QED
    BY <2>1, <2>2
<1>91. \A j \in 1 .. Len(K) : n[j] = q[j + d] /\ j + d \in DOMAIN q
  BY <1>2, <1>8
<1>92. ASSUME NEW k \in DOMAIN n, n[k].ev = "EV_SESSION"
       PROVE  /\ n[k].arg = sess'[i].status /\ sess'[i].notifySet = {}
              /\ sess'[i].shown = (sess'[i].status # "INVIS")
              /\ \A j \in 1 .. k - 1 : Posted(n[j])
  <2>1. k \in 1 .. Len(K) /\ n[k] = q[k + d] /\ k + d \in DOMAIN q
    BY <1>9, <1>92
  <2>2. /\ sess'[i].status = sess[i].status /\ sess'[i].shown = sess[i].shown
        /\ sess'[i].notifySet = sess[i].notifySet
    <3>1. k \in DOMAIN K /\ K[k].ev = "EV_SESSION"
      BY <1>8, <1>81, <1>92, <2>1
    <3> QED
      BY <1>61, <3>1
  <2>3. /\ n[k].arg = sess[i].status /\ sess[i].notifySet = {}
        /\ sess[i].shown = (sess[i].status # "INVIS")
        /\ \A j \in 1 .. (k + d) - 1 : Posted(q[j])
    BY <1>5, <1>92, <2>1
  <2>4. ASSUME NEW j \in 1 .. k - 1
        PROVE  Posted(n[j])
    <3>1. j \in 1 .. Len(K) /\ j + d \in 1 .. (k + d) - 1
      BY <1>2, <1>7, <2>1
    <3>2. n[j] = q[j + d]
      BY <1>91, <3>1
    <3> QED
      BY <2>3, <3>1, <3>2
  <2> QED
    BY <2>2, <2>3, <2>4
<1>93. ASSUME NEW k \in DOMAIN n, n[k].ev = "EV_S_END"
       PROVE  /\ hash[sess[i].user] # i /\ h = <<>> /\ Len(n) = Len(K)
              /\ \A j \in k + 1 .. Len(n) : Posted(n[j])
  <2>1. k \in 1 .. Len(K) /\ n[k] = q[k + d] /\ k + d \in DOMAIN q
    BY <1>9, <1>93
  <2>2. hash[sess[i].user] # i /\ \A j \in (k + d) + 1 .. Len(q) : Posted(q[j])
    BY <1>5, <1>93, <2>1
  <2>3. h = <<>>
    BY <1>4, <2>2
  <2>4. Len(n) = Len(K)
    <3>1. n \in Seq(S)
      BY <1>3, <1>7, <1>71, JoinedSeq
    <3> QED
      BY <1>2, <1>8, <2>3, <3>1
  <2>5. ASSUME NEW j \in k + 1 .. Len(n)
        PROVE  Posted(n[j])
    <3>1. j \in 1 .. Len(K) /\ j + d \in (k + d) + 1 .. Len(q)
      BY <1>2, <1>7, <2>1, <2>4
    <3>2. n[j] = q[j + d]
      BY <1>91, <3>1
    <3> QED
      BY <2>2, <3>1, <3>2
  <2> QED
    BY <2>2, <2>3, <2>4, <2>5
<1>10. ASSUME sess[i].user \notin astray, n # <<>>, hash[sess[i].user] # i
       PROVE  n[Len(n)].ev = "EV_S_END"
  <2>1. h = <<>>
    BY <1>4, <1>10
  <2>2. Len(n) = Len(K) /\ Len(n) # 0
    <3>1. n \in Seq(S)
      BY <1>3, <1>7, <1>71, JoinedSeq
    <3>2. Len(n) = Len(K) /\ Len(n) \in Nat
      BY <1>2, <1>8, <2>1
    <3> QED
      BY <1>10, <3>1, <3>2
  <2>3. Len(n) \in 1 .. Len(K) /\ Len(n) + d = Len(q)
    BY <1>2, <1>7, <2>2
  <2>4. n[Len(n)] = q[Len(q)]
    BY <1>2, <1>8, <2>3
  <2>5. q # <<>>
    <3>1. Len(q) # 0
      BY <1>2, <1>7, <2>2, <2>3
    <3> QED
      BY <3>1
  <2> QED
    BY <1>6, <1>10, <2>4, <2>5
<1>101. ASSUME sess[i].user \notin astray, NEW k \in DOMAIN n
        PROVE  /\ n[k].ev = "EV_SESSION" => k = 1
               /\ n[k].ev = "EV_S_END" => k = Len(n)
  <2>1. n[k].ev \in {"EV_SESSION", "EV_S_END"} =>
          k \in 1 .. Len(K) /\ n[k] = q[k + d] /\ k + d \in DOMAIN q
    BY <1>9
  <2>2. ASSUME n[k].ev = "EV_SESSION"
        PROVE  k + d = 1
    <3> DEFINE j == k + d
    <3>1. j \in DOMAIN q /\ q[j].ev = "EV_SESSION"
      BY <2>1, <2>2
    <3> HIDE DEF j
    <3>2. j = 1
      BY <1>6, <1>101, <3>1
    <3> QED
      BY <3>2 DEF j
  <2>3. n[k].ev = "EV_S_END" => k + d = Len(q)
    BY <1>6, <1>101, <2>1
  <2>4. n[k].ev = "EV_S_END" => Len(n) = Len(K)
    BY <1>93
  <2> QED
    BY <1>2, <1>7, <2>1, <2>2, <2>3, <2>4
<1>11. queue'[i] = n
  BY DEF n
<1>12. sess'[i].user \notin astray' => InLine(i)'
  BY <1>10, <1>101, <1>11 DEF InLine
<1> QED
  BY <1>9, <1>92, <1>93, <1>11, <1>12 DEF QueueInv

\* A session that has not begun is left alone by what overtook its first event.
Spares(s, e) == ~Attended(s) /\ Posted(e) => sess' = sess

\* A handler keeps the base.
LEMMA BaseMoves ==
  ASSUME Base, NEW s, NEW e, NEW req \in Seq(Reports), NEW P, Moves(s, e, req, P), Acts(s, e),
         Spares(s, e)
  PROVE  Base'
<1>1. /\ hash' = hash /\ commands' = commands /\ smOut' = smOut /\ smHash' = smHash
      /\ queue' \in Seq(Seq(Packets \cup Marks)) /\ Len(queue') = Len(queue)
      /\ e \in Packets \cup Marks /\ P \subseteq Packets
      /\ s \in {0} \cup DOMAIN queue /\ (s # 0 => queue[s] # <<>>)
  BY DEF Moves
<1>2. Owner(e) \in Users
  BY <1>1, PacketFields, MarkFields DEF Owner
<1>3. Typed'
  <2>1. IsABag(loose') /\ DOMAIN loose' \subseteq Packets
    BY <1>1 DEF Moves, Base, Typed
  <2>2. astray' \subseteq Users
    BY <1>2 DEF Moves, Base, Typed
  <2>3. smIn' \in Seq(Incoming \cup Reports)
    <3> DEFINE S == Incoming \cup Reports
    <3>1. PICK t \in Seq(Incoming) : smIn' = (smIn \o req) \o t
      BY DEF Moves
    <3>2. t \in Seq(S) /\ req \in Seq(S)
      BY SeqMonotonic
    <3>3. smIn \in Seq(S)
      BY DEF Base, Typed
    <3> HIDE DEF S
    <3> DEFINE m == smIn \o req
    <3>4. m \in Seq(S) /\ smIn' = m \o t
      BY <3>1, <3>2, <3>3, JoinedSeq
    <3> HIDE DEF m
    <3>5. smIn' \in Seq(S)
      BY <3>2, <3>4, JoinedSeq
    <3> QED
      BY <3>5 DEF S
  <2>4. /\ sess' \in Seq(Session) /\ Len(sess') <= MaxSessions
        /\ hash' \in [Users -> 0 .. Len(sess')]
        /\ Len(queue') = Len(sess')
    BY <1>1 DEF Acts, Base, Typed
  <2>5. /\ auth' \in [Users -> Auths] /\ roster' \in [Users -> [Users -> SUBSET Sub]]
        /\ message' \in [Users -> Seq({0} \cup Messages)]
        /\ crashed' \in BOOLEAN /\ got' \subseteq Messages /\ lost' \subseteq Messages
    BY DEF Acts, Base, Typed
  <2>6. /\ smOut' \in Seq(Incoming) /\ smHash' \in Seq([name : Users, status : Args])
        /\ commands' \in 0 .. MaxCommands
    BY <1>1 DEF Base, Typed
  <2> QED
    BY <1>1, <2>1, <2>2, <2>3, <2>4, <2>5, <2>6 DEF Typed
<1>4. DOMAIN queue' = DOMAIN queue /\ DOMAIN queue = DOMAIN sess /\ DOMAIN sess' = DOMAIN sess
  BY <1>1, Shapes DEF Acts
<1>5. \A u \in Users : hash'[u] # 0 => sess'[hash'[u]].user = u
  BY <1>1, Shapes DEF Acts
<1>6. ASSUME NEW i \in DOMAIN queue
      PROVE  QueueInv(i)'
  <2>1. PICK h \in Seq(Packets) :
          queue'[i] = Rest(i, s) \o h /\ ToSet(h) = {p \in P : hash[Owner(p)] = i}
    BY DEF Moves
  <2>2. \A p \in ToSet(h) : hash[Owner(p)] = i
    BY <2>1
  <2>3. s = i => queue[i] # <<>>
    BY <1>1, Shapes
  <2>4. sess'[i].user = sess[i].user /\ (s # i => sess'[i] = sess[i])
    BY <1>4 DEF Acts
  <2>5. astray \subseteq astray'
    BY DEF Moves
  <2>6. ASSUME NEW k \in DOMAIN Rest(i, s), Rest(i, s)[k].ev = "EV_SESSION"
        PROVE  sess'[i] = sess[i]
    <3>1. CASE s # i
      BY <2>4, <3>1
    <3>2. CASE s = i
      <4>1. /\ queue[i] \in Seq(Packets \cup Marks) /\ queue[i] # <<>>
            /\ Rest(i, s) = Tail(queue[i]) /\ e = Head(queue[i]) /\ i # 0
        BY <1>1, <3>2, Shapes DEF Moves, Rest
      <4>2. /\ k + 1 \in DOMAIN queue[i] /\ queue[i][k + 1].ev = "EV_SESSION"
            /\ e = queue[i][1] /\ 1 \in 1 .. (k + 1) - 1
        BY <2>6, <4>1, TailSeq
      <4>3. Posted(e)
        BY <4>2 DEF Base, SessionsInv, QueueInv
      <4>4. ~Attended(s)
        BY <3>2, <4>2 DEF Attended
      <4> QED
        BY <4>3, <4>4 DEF Spares
    <3> QED
      BY <3>1, <3>2
  <2> QED
    BY <1>1, <2>1, <2>2, <2>3, <2>4, <2>5, <2>6, QueueGrows
<1>7. SessionsInv'
  BY <1>4, <1>5, <1>6 DEF SessionsInv
<1>8. NoSelf'
  BY <1>4 DEF Acts, NoSelf
<1> QED
  BY <1>3, <1>7, <1>8 DEF Base

BeginMark(u, status) == Item("EV_SESSION", "CMD_LOGIN", u, Nobody, FALSE, status, 0)
EndMark(u) == Item("EV_S_END", "", u, Nobody, FALSE, "", 0)

\* What a login does: session n begins.
Begins(u, status, n) ==
  /\ n = Len(sess) + 1 /\ hash[u] = 0 /\ Len(sess) < MaxSessions
  /\ sess' \in Seq(Session) /\ Len(sess') = n
  /\ \A i \in DOMAIN sess : sess'[i] = sess[i]
  /\ sess'[n].user = u /\ sess'[n].status = status /\ sess'[n].notifySet = {}
  /\ sess'[n].shown = (status # "INVIS") /\ sess'[n].view = [c \in Users |-> "OFFLINE"]
  /\ queue' \in Seq(Seq(Packets \cup Marks)) /\ Len(queue') = n
  /\ \A i \in DOMAIN queue : queue'[i] = queue[i]
  /\ queue'[n] = <<BeginMark(u, status)>>
  /\ hash' = [hash EXCEPT ![u] = n]
  /\ UNCHANGED <<loose, auth, roster, message, smIn, smOut, smHash, crashed, commands, got,
                 lost, astray>>

\* The marks that begin and end a session.
LEMMA MarksTyped ==
  ASSUME NEW u \in Users, NEW status \in Statuses
  PROVE  /\ BeginMark(u, status) \in Marks /\ EndMark(u) \in Marks
         /\ Owner(BeginMark(u, status)) = u /\ Owner(EndMark(u)) = u
         /\ BeginMark(u, status).ev = "EV_SESSION" /\ EndMark(u).ev = "EV_S_END"
         /\ BeginMark(u, status).arg = status
         /\ BeginMark(u, status).cmd = "CMD_LOGIN" /\ EndMark(u).cmd = ""
<1>1. status \in Args /\ "" \in Args
  BY DEF Args, Shown
<1>2. BeginMark(u, status) \in Marks
  BY <1>1, Zenon DEF Marks, BeginMark, Item
<1>3. EndMark(u) \in Marks
  BY <1>1, Zenon DEF Marks, EndMark, Item
<1> QED
  BY <1>2, <1>3 DEF BeginMark, EndMark, Item, Owner

\* Login begins a session.
LEMMA LoginBegins ==
  ASSUME Base, NEW u \in Users, NEW status \in Statuses, Login(u, status)
  PROVE  Begins(u, status, Len(sess) + 1)
<1> DEFINE n == Len(sess) + 1
           v == [c \in Users |-> "OFFLINE"]
           b == status # "INVIS"
           r == [user |-> u, status |-> status, notifySet |-> {}, sweep |-> FALSE, shown |-> b,
                 view |-> v]
           m == BeginMark(u, status)
           q == <<m>>
           S == Seq(Packets \cup Marks)
<1>1. /\ hash[u] = 0 /\ Len(sess) < MaxSessions /\ sess' = Append(sess, r)
      /\ hash' = [hash EXCEPT ![u] = n] /\ queue' = Append(queue, q)
      /\ UNCHANGED <<loose, auth, roster, message, smIn, smOut, smHash, crashed, commands, got,
                     lost, astray>>
  BY DEF Login, tables, streams, BeginMark
<1>2. v \in [Users -> Shown] /\ b \in BOOLEAN /\ b = (status # "INVIS")
  BY DEF Shown
<1>3. v = [c \in Users |-> "OFFLINE"]
  OBVIOUS
<1> HIDE DEF v, b
<1>4. r \in Session
  <2>1. u \in Users /\ status \in Statuses /\ {} \in SUBSET Users /\ FALSE \in BOOLEAN
    OBVIOUS
  <2> QED
    BY <1>2, <2>1, Zenon DEF Session
<1>5. q \in S
  <2>1. m \in Packets \cup Marks
    BY MarksTyped
  <2> HIDE DEF m
  <2> QED
    BY <2>1, OneSet
<1>6. /\ r.user = u /\ r.status = status /\ r.notifySet = {} /\ r.shown = b /\ r.view = v
  OBVIOUS
<1>7. sess \in Seq(Session) /\ queue \in Seq(S) /\ Len(queue) = Len(sess)
  BY Shapes
<1> HIDE DEF r, q, S
<1>8. /\ sess' \in Seq(Session) /\ Len(sess') = n /\ sess'[n] = r
      /\ \A i \in DOMAIN sess : sess'[i] = sess[i]
  BY <1>1, <1>4, <1>7, AppendSeq
<1>9. /\ queue' \in Seq(S) /\ Len(queue') = n /\ queue'[n] = q
      /\ \A i \in DOMAIN queue : queue'[i] = queue[i]
  BY <1>1, <1>5, <1>7, AppendSeq
<1> HIDE DEF n
<1>10. n = Len(sess) + 1 /\ Begins(u, status, n)
  BY <1>1, <1>2, <1>3, <1>6, <1>8, <1>9 DEF n, Begins, q, S
<1> QED
  BY <1>10

\* The beginning of a session keeps the base of the invariants.
LEMMA BaseBegins ==
  ASSUME Base, NEW u \in Users, NEW status \in Statuses, NEW n, Begins(u, status, n)
  PROVE  Base'
<1>1. /\ n = Len(sess) + 1 /\ Len(sess) < MaxSessions /\ hash[u] = 0
      /\ sess' \in Seq(Session) /\ Len(sess') = n /\ hash' = [hash EXCEPT ![u] = n]
      /\ queue' \in Seq(Seq(Packets \cup Marks)) /\ Len(queue') = n
  BY DEF Begins
<1>2. /\ Len(sess) \in Nat /\ DOMAIN queue = 1 .. Len(sess) /\ DOMAIN sess = 1 .. Len(sess)
      /\ hash \in [Users -> 0 .. Len(sess)]
      /\ \A x \in Users : hash[x] # 0 => hash[x] \in DOMAIN sess /\ sess[hash[x]].user = x
  BY Shapes
<1>3. DOMAIN queue' = 1 .. n /\ DOMAIN sess' = 1 .. n /\ n \in DOMAIN queue' /\ n \notin DOMAIN queue
      /\ (\A i \in 1 .. n : i = n \/ i \in DOMAIN queue)
      /\ hash' \in [Users -> 0 .. n] /\ n \in Nat \ {0}
      /\ hash'[u] = n /\ \A x \in Users : x # u => hash'[x] = hash[x]
  BY <1>1, <1>2
<1>4. Typed'
  <2>1. Len(sess') <= MaxSessions
    BY <1>1, <1>2, MessengerAssumption
  <2>2. hash' \in [Users -> 0 .. Len(sess')] /\ Len(queue') = Len(sess')
    BY <1>1, <1>3
  <2> QED
    BY <1>1, <2>1, <2>2 DEF Begins, Base, Typed
<1>5. \A x \in Users : hash'[x] # 0 => sess'[hash'[x]].user = x
  BY <1>2, <1>3 DEF Begins
<1>6. ASSUME NEW i \in DOMAIN queue'
      PROVE  QueueInv(i)'
  <2>1. CASE i = n
    <3> DEFINE m == BeginMark(u, status)
    <3>1. queue'[i] = <<m>> /\ sess'[i].user = u
      BY <2>1 DEF Begins
    <3>2. Owner(m) = u /\ m.ev = "EV_SESSION" /\ m.arg = status
      BY MarksTyped
    <3>3. sess'[i].status = status /\ sess'[i].notifySet = {} /\ sess'[i].shown = (status # "INVIS")
      BY <2>1 DEF Begins
    <3>4. hash'[sess'[i].user] = i
      BY <1>3, <2>1, <3>1
    <3> HIDE DEF m
    <3> DEFINE q == <<m>>
    <3>5. DOMAIN q = {1} /\ q[1] = m
      OBVIOUS
    <3> HIDE DEF q
    <3>6. queue'[i] = q
      BY <3>1 DEF q
    <3>7. \A k \in DOMAIN q : k = 1 /\ q[k] = m
      BY <3>5
    <3> QED
      BY <3>1, <3>2, <3>3, <3>4, <3>6, <3>7 DEF QueueInv, InLine
  <2>2. CASE i # n
    <3>1. i \in DOMAIN queue /\ queue'[i] = queue[i] /\ sess'[i] = sess[i] /\ QueueInv(i)
      BY <1>2, <1>3, <2>2 DEF Begins, Base, SessionsInv
    <3>2. sess[i].user \in Users
      BY <1>2, <3>1, SessionFields
    <3>3. hash'[sess[i].user] # i <=> hash[sess[i].user] # i
      BY <1>1, <1>2, <1>3, <2>2, <3>1, <3>2
    <3> QED
      BY <3>1, <3>3 DEF QueueInv, InLine, Begins
  <2> QED
    BY <2>1, <2>2
<1>7. SessionsInv'
  BY <1>5, <1>6 DEF SessionsInv
<1>8. NoSelf'
  <2>1. \A x \in Users : roster'[x][x] = {}
    BY DEF Begins, Base, NoSelf
  <2>2. ASSUME NEW i \in DOMAIN sess'
        PROVE  sess'[i].user \notin sess'[i].notifySet
    <3>1. CASE i = n
      BY <3>1 DEF Begins
    <3>2. CASE i # n
      <4>1. i \in DOMAIN sess /\ sess'[i] = sess[i]
        BY <1>2, <1>3, <3>2 DEF Begins
      <4> QED
        BY <4>1, SessionFields
    <3> QED
      BY <3>1, <3>2
  <2> QED
    BY <2>1, <2>2 DEF NoSelf
<1> QED
  BY <1>4, <1>7, <1>8 DEF Base

\* What a logout and a command do: something more comes to the session's queue.
Comes(i, x) ==
  /\ i \in DOMAIN queue /\ queue' = [queue EXCEPT ![i] = Append(queue[i], x)]
  /\ UNCHANGED <<sess, loose, auth, roster, message, smIn, smOut, smHash, crashed, got,
                 lost, astray>>

\* An event joins a queue: the queues afterwards.
LEMMA ComesTyped ==
  ASSUME Base, NEW i, NEW x \in Packets \cup Marks, Comes(i, x)
  PROVE  /\ queue' \in Seq(Seq(Packets \cup Marks)) /\ Len(queue') = Len(queue)
         /\ DOMAIN queue' = DOMAIN queue /\ i \in DOMAIN queue /\ sess' = sess
         /\ queue'[i] = Append(queue[i], x) /\ \A j \in DOMAIN queue : j # i => queue'[j] = queue[j]
         /\ ToSet(queue'[i]) = ToSet(queue[i]) \cup {x}
<1> DEFINE S == Seq(Packets \cup Marks)
           q == Append(queue[i], x)
<1>1. /\ queue \in Seq(S) /\ queue[i] \in Seq(Packets \cup Marks) /\ i \in DOMAIN queue
      /\ queue' = [queue EXCEPT ![i] = q] /\ sess' = sess
  BY Shapes DEF Comes
<1>2. q \in S /\ ToSet(q) = ToSet(queue[i]) \cup {x}
  <2> DEFINE T == Packets \cup Marks
             p == queue[i]
  <2>1. p \in Seq(T) /\ x \in T
    BY <1>1
  <2> HIDE DEF T, p
  <2>2. Append(p, x) \in Seq(T) /\ ToSet(Append(p, x)) = ToSet(p) \cup {x}
    BY <2>1, AppendSeq
  <2> QED
    BY <2>2 DEF T, p
<1>3. q = Append(queue[i], x)
  OBVIOUS
<1> HIDE DEF q, S
<1>4. /\ queue' \in Seq(S) /\ Len(queue') = Len(queue) /\ DOMAIN queue' = DOMAIN queue
      /\ queue'[i] = q /\ \A j \in DOMAIN queue : j # i => queue'[j] = queue[j]
  BY <1>1, <1>2
<1> QED
  BY <1>1, <1>2, <1>3, <1>4 DEF S

Leaves(u) ==
  /\ hash[u] # 0 /\ Comes(hash[u], EndMark(u)) /\ hash' = [hash EXCEPT ![u] = 0]
  /\ commands' = commands

\* Logout ends a session's place in the hash.
LEMMA LogoutLeaves ==
  ASSUME Base, NEW u \in Users, Logout(u)
  PROVE  Leaves(u)
<1>1. hash[u] # 0 /\ hash[u] \in DOMAIN queue
  BY Shapes DEF Logout
<1>2. queue' = [queue EXCEPT ![hash[u]] = Append(queue[hash[u]], EndMark(u))]
  BY <1>1 DEF Logout, EndMark
<1> QED
  BY <1>1, <1>2 DEF Logout, Leaves, Comes, tables, streams

\* The end of a session's place in the hash keeps the base of the invariants.
LEMMA BaseLeaves ==
  ASSUME Base, NEW u \in Users, Leaves(u)
  PROVE  Base'
<1> DEFINE s == hash[u]
           x == EndMark(u)
<1>1. Comes(s, x) /\ s # 0 /\ hash' = [hash EXCEPT ![u] = 0] /\ commands' = commands
  BY DEF Leaves
<1>2. /\ x.ev = "EV_S_END" /\ Owner(x) = u /\ x \in Packets \cup Marks
  <2>1. "" \in Args
    BY DEF Args
  <2>2. x \in Marks
    BY <2>1, Zenon DEF Marks, EndMark, Item
  <2> QED
    BY <2>2 DEF EndMark, Item, Owner
<1>3. /\ Len(sess) \in Nat /\ DOMAIN queue = 1 .. Len(sess) /\ DOMAIN sess = 1 .. Len(sess)
      /\ hash \in [Users -> 0 .. Len(sess)]
      /\ \A y \in Users : hash[y] # 0 => hash[y] \in DOMAIN sess /\ sess[hash[y]].user = y
      /\ s \in DOMAIN sess /\ sess[s].user = u
      /\ \A i \in DOMAIN queue : queue[i] \in Seq(Packets \cup Marks)
  BY <1>1, Shapes
<1> HIDE DEF x
<1>4. /\ queue' \in Seq(Seq(Packets \cup Marks)) /\ Len(queue') = Len(queue)
      /\ DOMAIN queue' = DOMAIN queue /\ sess' = sess
      /\ queue'[s] = Append(queue[s], x) /\ \A j \in DOMAIN queue : j # s => queue'[j] = queue[j]
  BY <1>1, <1>2, ComesTyped
<1>5. hash' \in [Users -> 0 .. Len(sess)] /\ hash'[u] = 0
      /\ \A y \in Users : y # u => hash'[y] = hash[y]
  BY <1>1, <1>3
<1>6. Typed'
  BY <1>1, <1>4, <1>5 DEF Comes, Base, Typed
<1>7. \A y \in Users : hash'[y] # 0 => sess'[hash'[y]].user = y
  BY <1>3, <1>4, <1>5
<1>8. ASSUME NEW i \in DOMAIN queue
      PROVE  QueueInv(i)'
  <2>1. QueueInv(i) /\ sess[i].user \in Users
    BY <1>3, SessionFields DEF Base, SessionsInv
  <2>2. CASE i = s
    <3> DEFINE q == queue[s]
               n == Append(q, x)
    <3>1. QueueInv(s) /\ hash[sess[s].user] = s /\ hash'[sess[s].user] # s
      BY <1>1, <1>3, <1>5, <2>1, <2>2
    <3>2. \A k \in DOMAIN q :
            /\ Owner(q[k]) = u
            /\ q[k].ev = "EV_SESSION" =>
                 /\ q[k].arg = sess[s].status /\ sess[s].notifySet = {}
                 /\ sess[s].shown = (sess[s].status # "INVIS")
                 /\ \A j \in 1 .. k - 1 : Posted(q[j])
                 /\ sess[s].user \notin astray => k = 1
            /\ q[k].ev # "EV_S_END"
      BY <1>3, <3>1 DEF QueueInv, InLine
    <3>3. q \in Seq(Packets \cup Marks)
      BY <1>3
    <3> HIDE DEF q
    <3>4. /\ Len(n) = Len(q) + 1 /\ Len(q) \in Nat /\ DOMAIN q = 1 .. Len(q)
          /\ DOMAIN n = 1 .. Len(q) + 1 /\ (\A k \in 1 .. Len(q) : n[k] = q[k]) /\ n[Len(q) + 1] = x
      BY <1>2, <3>3, AppendSeq
    <3>5. queue'[i] = n
      BY <1>4, <2>2 DEF q
    <3> HIDE DEF n
    <3>6. \A k \in DOMAIN n : k = Len(q) + 1 \/ k \in DOMAIN q
      BY <3>4
    <3>7. ASSUME NEW k \in DOMAIN n
          PROVE  /\ Owner(n[k]) = u
                 /\ n[k].ev = "EV_SESSION" =>
                      /\ n[k].arg = sess[s].status /\ sess[s].notifySet = {}
                      /\ sess[s].shown = (sess[s].status # "INVIS")
                      /\ \A j \in 1 .. k - 1 : Posted(n[j])
                      /\ sess[s].user \notin astray => k = 1
                 /\ n[k].ev = "EV_S_END" => k = Len(n) /\ \A j \in k + 1 .. Len(n) : Posted(n[j])
      <4>1. CASE k \in DOMAIN q
        <5>1. k \in 1 .. Len(q) /\ n[k] = q[k] /\ \A j \in 1 .. k - 1 : n[j] = q[j]
          BY <3>4, <4>1
        <5> QED
          BY <3>2, <4>1, <5>1
      <4>2. CASE k = Len(q) + 1
        BY <1>2, <3>4, <4>2
      <4> QED
        BY <3>6, <4>1, <4>2
    <3>8. n[Len(n)].ev = "EV_S_END"
      BY <1>2, <3>4
    <3> QED
      BY <1>1, <1>3, <1>4, <2>2, <3>1, <3>5, <3>7, <3>8 DEF QueueInv, InLine, Comes
  <2>3. CASE i # s
    <3>1. queue'[i] = queue[i] /\ sess'[i] = sess[i]
      BY <1>4, <2>3
    <3>2. i # 0
      BY <1>3
    <3>3. hash'[sess[i].user] # i <=> hash[sess[i].user] # i
      BY <1>5, <2>1, <2>3, <3>2
    <3> QED
      BY <1>1, <2>1, <3>1, <3>3 DEF QueueInv, InLine, Comes
  <2> QED
    BY <2>2, <2>3
<1>9. SessionsInv'
  BY <1>4, <1>7, <1>8 DEF SessionsInv
<1>10. NoSelf'
  BY <1>1, <1>4 DEF Comes, Base, NoSelf
<1> QED
  BY <1>6, <1>9, <1>10 DEF Base

Clicked == {"CMD_CHANGE_STATUS", "CMD_ADD_CONTACT", "CMD_DEL_CONTACT", "CMD_GET_CONTACT_INFO",
            "CMD_MESSAGE"}

\* A command e of u's client comes to his session.
Enters(u, e) ==
  /\ hash[u] # 0 /\ Comes(hash[u], e) /\ hash' = hash /\ commands' \in 0 .. MaxCommands
  /\ commands' = commands + 1 /\ e.id \in {0, commands'}
  /\ e \in Packets /\ e.ev = "EV_S_OUT" /\ e.from = u /\ e.cmd \in Clicked

\* Command puts an event of its user into the queue of his session.
LEMMA CommandEnters ==
  ASSUME Base, NEW u \in Users, NEW to \in Users, NEW cmd \in Clicked, NEW arg \in Args,
         u = to => cmd = "CMD_CHANGE_STATUS", cmd = "CMD_CHANGE_STATUS" => arg \in Statuses,
         Command(u, cmd, to, arg)
  PROVE  \E e : Enters(u, e)
<1> DEFINE id == IF cmd = "CMD_MESSAGE" THEN commands + 1 ELSE 0
           e == Item("EV_S_OUT", cmd, u, to, FALSE, arg, id)
<1>1. /\ hash[u] # 0 /\ commands < MaxCommands /\ commands' = commands + 1 /\ hash' = hash
      /\ UNCHANGED <<sess, loose, auth, roster, message, smIn, smOut, smHash, crashed, got,
                     lost, astray>>
  BY DEF Command, tables, streams
<1>2. hash[u] \in DOMAIN queue
  BY <1>1, Shapes
<1>3. queue' = [queue EXCEPT ![hash[u]] = Append(queue[hash[u]], e)]
  BY <1>2 DEF Command
<1>4. commands \in 0 .. MaxCommands /\ MaxCommands \in Nat
  BY MessengerAssumption DEF Base, Typed
<1>5. id \in {0} \cup Messages /\ commands' \in 0 .. MaxCommands
  BY <1>1, <1>4 DEF Messages
<1>10. id \in {0, commands'} /\ (id # 0 => cmd = "CMD_MESSAGE")
  BY <1>1
<1> HIDE DEF id
<1>6. e.ev = "EV_S_OUT" /\ e.from = u /\ e.cmd = cmd /\ e.id = id
  BY DEF Item
<1>7. Sound(e)
  BY <1>10 DEF Sound, Item, Clicked, Notices
<1>8. e \in Packets
  <2>1. cmd \in Cmds
    BY DEF Clicked, Cmds
  <2> QED
    BY <1>5, <1>7, <2>1, NewPacket
<1> HIDE DEF e
<1>9. Enters(u, e)
  BY <1>1, <1>2, <1>3, <1>5, <1>6, <1>8, <1>10 DEF Enters, Comes
<1> QED
  BY <1>9

\* A command keeps the base of the invariants.
LEMMA BaseEnters ==
  ASSUME Base, NEW u \in Users, NEW e, Enters(u, e)
  PROVE  Base'
<1> DEFINE s == hash[u]
<1>1. /\ Comes(s, e) /\ hash' = hash /\ e \in Packets /\ Owner(e) = u /\ s \in DOMAIN queue /\ s # 0
      /\ commands' \in 0 .. MaxCommands
  BY Shapes DEF Enters, Owner
<1>2. /\ queue' \in Seq(Seq(Packets \cup Marks)) /\ Len(queue') = Len(queue)
      /\ DOMAIN queue' = DOMAIN queue /\ sess' = sess
      /\ queue'[s] = Append(queue[s], e) /\ \A j \in DOMAIN queue : j # s => queue'[j] = queue[j]
  BY <1>1, ComesTyped
<1>3. Typed'
  BY <1>1, <1>2 DEF Comes, Base, Typed
<1>4. ASSUME NEW i \in DOMAIN queue
      PROVE  QueueInv(i)'
  <2>1. queue[i] \in Seq(Packets \cup Marks) /\ sess'[i] = sess[i]
    BY <1>2, Shapes
  <2>2. CASE i = s
    <3> DEFINE h == <<e>>
    <3>1. h \in Seq(Packets) /\ ToSet(h) = {e}
      BY <1>1, OneSet
    <3>2. queue'[i] = Rest(i, 0) \o h
      BY <1>1, <1>2, <2>1, <2>2 DEF Rest
    <3>3. \A p \in ToSet(h) : hash[Owner(p)] = i
      BY <1>1, <2>2, <3>1
    <3> HIDE DEF h
    <3>4. 0 # i
      BY <1>1, <2>2
    <3>5. astray \subseteq astray'
      BY <1>1 DEF Comes
    <3> QED
      BY <1>1, <2>1, <3>1, <3>2, <3>3, <3>4, <3>5, QueueGrows
  <2>3. CASE i # s
    <3>1. queue'[i] = queue[i] /\ QueueInv(i)
      BY <1>2, <2>3 DEF Base, SessionsInv
    <3> QED
      BY <1>1, <2>1, <3>1 DEF QueueInv, InLine, Comes
  <2> QED
    BY <2>2, <2>3
<1>5. SessionsInv'
  BY <1>1, <1>2, <1>4 DEF SessionsInv, Base
<1>6. NoSelf'
  BY <1>1, <1>2 DEF Comes, Base, NoSelf
<1> QED
  BY <1>3, <1>5, <1>6 DEF Base

\* The DELETE of the offline module.
Sweeps(s) ==
  /\ s \in DOMAIN sess /\ sess' \in Seq(Session) /\ Len(sess') = Len(sess)
  /\ \A i \in DOMAIN sess : /\ i # s => sess'[i] = sess[i]
                            /\ sess'[i].user = sess[i].user /\ sess'[i].status = sess[i].status
                            /\ sess'[i].notifySet = sess[i].notifySet
                            /\ sess'[i].shown = sess[i].shown /\ sess'[i].view = sess[i].view
  /\ message' = [message EXCEPT ![sess[s].user] = <<>>]
  /\ lost' = lost \cup (ToSet(message[sess[s].user]) \ (got \cup {0}))
  /\ UNCHANGED <<hash, queue, loose, auth, roster, smIn, smOut, smHash, crashed, commands, got,
                 astray>>

\* Sweep changes the stored messages only, and keeps the base of the
\* invariants.
LEMMA SweepSweeps ==
  ASSUME Base, NEW s \in DOMAIN queue, Sweep(s)
  PROVE  Sweeps(s) /\ Base'
<1> DEFINE r == [sess[s] EXCEPT !.sweep = FALSE]
<1>1. s \in DOMAIN sess /\ DOMAIN queue = DOMAIN sess
  BY Shapes
<1>2. sess[s] \in Session /\ sess[s].user \in Users /\ sess[s].user \notin sess[s].notifySet
  BY <1>1, SessionFields
<1>3. /\ sess' = [sess EXCEPT ![s] = r] /\ message' = [message EXCEPT ![sess[s].user] = <<>>]
      /\ lost' = lost \cup (ToSet(message[sess[s].user]) \ (got \cup {0}))
      /\ UNCHANGED <<hash, queue, loose, auth, roster, smIn, smOut, smHash, crashed, commands, got,
                     astray>>
  BY DEF Sweep, streams
<1>4. /\ r \in Session /\ r.user = sess[s].user /\ r.notifySet = sess[s].notifySet
      /\ r.status = sess[s].status /\ r.shown = sess[s].shown /\ r.view = sess[s].view
  BY <1>2 DEF Session
<1> HIDE DEF r
<1>5. Turned(s, r)
  BY <1>1, <1>2, <1>3, <1>4, Revised
<1>6. /\ sess' \in Seq(Session) /\ Len(sess') = Len(sess) /\ DOMAIN sess' = DOMAIN sess
      /\ \A i \in DOMAIN sess : /\ i # s => sess'[i] = sess[i]
                                /\ sess'[i].user = sess[i].user /\ sess'[i].status = sess[i].status
                                /\ sess'[i].notifySet = sess[i].notifySet
                                /\ sess'[i].shown = sess[i].shown /\ sess'[i].view = sess[i].view
  BY <1>4, <1>5 DEF Turned
<1>7. Typed'
  <2>1. message \in [Users -> Seq({0} \cup Messages)] /\ lost \subseteq Messages
    BY DEF Base, Typed
  <2>2. message' \in [Users -> Seq({0} \cup Messages)]
    <3> DEFINE S == Seq({0} \cup Messages)
    <3>1. <<>> \in S /\ message \in [Users -> S]
      BY <2>1, EmptySet
    <3> HIDE DEF S
    <3>2. message' \in [Users -> S]
      BY <1>3, <3>1
    <3> QED
      BY <3>2 DEF S
  <2>3. lost' \subseteq Messages
    <3>1. message[sess[s].user] \in Seq({0} \cup Messages)
      BY <1>2, <2>1
    <3>2. ToSet(message[sess[s].user]) \subseteq {0} \cup Messages
      BY <3>1, ElementsSeq
    <3> QED
      BY <1>3, <2>1, <3>2
  <2> QED
    BY <1>3, <1>6, <2>2, <2>3 DEF Base, Typed
<1>8. SessionsInv'
  <2>1. \A i \in DOMAIN queue : QueueInv(i)'
    BY <1>1, <1>3, <1>6 DEF Base, SessionsInv, QueueInv, InLine
  <2>2. \A u \in Users : hash'[u] # 0 => sess'[hash'[u]].user = u
    BY <1>3, <1>6, Shapes
  <2> QED
    BY <1>3, <2>1, <2>2 DEF SessionsInv
<1>9. NoSelf'
  BY <1>3, <1>6 DEF Base, NoSelf
<1>10. Sweeps(s)
  BY <1>1, <1>3, <1>6 DEF Sweeps
<1> QED
  BY <1>7, <1>8, <1>9, <1>10 DEF Base

\* Two neighbours of queue s change places; the rest of it stays.
Swapped(s, k) ==
  /\ queue' \in Seq(Seq(Packets \cup Marks)) /\ Len(queue') = Len(queue)
  /\ \A i \in DOMAIN queue : i # s => queue'[i] = queue[i]
  /\ Len(queue'[s]) = Len(queue[s]) /\ DOMAIN queue'[s] = DOMAIN queue[s]
  /\ queue'[s][k] = queue[s][k + 1] /\ queue'[s][k + 1] = queue[s][k]
  /\ \A j \in DOMAIN queue[s] : j \notin {k, k + 1} => queue'[s][j] = queue[s][j]
  /\ ToSet(queue'[s]) = ToSet(queue[s])

\* A packet overtakes the first event of session s or is overtaken by its last.
Overtakes(s, k) ==
  /\ s \in DOMAIN queue /\ k \in 1 .. Len(queue[s]) - 1
  /\ \/ queue[s][k].ev = "EV_SESSION" /\ Posted(queue[s][k + 1])
     \/ Posted(queue[s][k]) /\ queue[s][k + 1].ev = "EV_S_END"
  /\ Swapped(s, k)
  /\ astray' = astray \cup {sess[s].user}
  /\ UNCHANGED <<hash, sess, loose, auth, roster, message, smIn, smOut, smHash, crashed, commands,
                 got, lost>>

\* Overtake swaps two neighbours of one queue.
LEMMA OvertakeOvertakes ==
  ASSUME Base, NEW s \in DOMAIN queue, Overtake(s)
  PROVE  \E k : Overtakes(s, k)
<1> DEFINE S == Packets \cup Marks
           q == queue[s]
<1>1. PICK k \in 1 .. Len(q) - 1 :
        /\ (q[k].ev = "EV_SESSION" /\ Posted(q[k + 1])) \/ (Posted(q[k]) /\ q[k + 1].ev = "EV_S_END")
        /\ queue' = [queue EXCEPT ![s] = [q EXCEPT ![k] = q[k + 1], ![k + 1] = q[k]]]
        /\ astray' = astray \cup {sess[s].user}
        /\ UNCHANGED <<hash, sess, loose, auth, roster, message, smIn, smOut, smHash, crashed,
                       commands, got, lost>>
  BY DEF Overtake, tables, streams
<1>2. q \in Seq(S) /\ queue \in Seq(Seq(S))
  BY Shapes
<1> DEFINE n == [q EXCEPT ![k] = q[k + 1], ![k + 1] = q[k]]
           Q == Seq(S)
<1>3. n = [q EXCEPT ![k] = q[k + 1], ![k + 1] = q[k]] /\ queue' = [queue EXCEPT ![s] = n]
  BY <1>1
<1>4. queue \in Seq(Q) /\ q = queue[s]
  BY <1>2
<1> HIDE DEF n, q, S
<1>5. /\ n \in Seq(S) /\ Len(n) = Len(q) /\ DOMAIN n = DOMAIN q /\ DOMAIN q = 1 .. Len(q)
      /\ k \in DOMAIN q /\ k + 1 \in DOMAIN q /\ n[k] = q[k + 1] /\ n[k + 1] = q[k]
      /\ \A j \in DOMAIN q : j \notin {k, k + 1} => n[j] = q[j]
  BY <1>1, <1>2, <1>3
<1>6. ToSet(n) = ToSet(q)
  <2>1. \A j \in DOMAIN n : \E m \in DOMAIN q : n[j] = q[m]
    BY <1>5
  <2>2. \A j \in DOMAIN q : \E m \in DOMAIN n : q[j] = n[m]
    BY <1>5
  <2> QED
    BY <2>1, <2>2 DEF ToSet
<1>7. n \in Q
  BY <1>5
<1> HIDE DEF Q
<1>8. /\ queue' \in Seq(Q) /\ Len(queue') = Len(queue) /\ queue'[s] = n
      /\ \A i \in DOMAIN queue : i # s => queue'[i] = queue[i]
  BY <1>3, <1>4, <1>7
<1>9. Swapped(s, k)
  BY <1>4, <1>5, <1>6, <1>8 DEF Swapped, Q, S
<1> QED
  BY <1>1, <1>4, <1>9 DEF Overtakes, q

\* What event threads post neither begins nor ends a session.
LEMMA PostedPacket ==
  ASSUME NEW e \in Packets \cup Marks, Posted(e)
  PROVE  e \in Packets /\ e.ev \in {"EV_S_IN", "EV_S_OUT"}
<1>1. e \in Packets
  BY MarkFields DEF Posted
<1> QED
  BY <1>1, PacketFields

\* An overtaking keeps the base of the invariants.
LEMMA BaseOvertakes ==
  ASSUME Base, NEW s, NEW k, Overtakes(s, k)
  PROVE  Base'
<1>1. /\ s \in DOMAIN queue /\ hash' = hash /\ sess' = sess /\ roster' = roster
      /\ queue' \in Seq(Seq(Packets \cup Marks)) /\ Len(queue') = Len(queue)
      /\ \A i \in DOMAIN queue : i # s => queue'[i] = queue[i]
      /\ astray' = astray \cup {sess[s].user}
  BY DEF Overtakes, Swapped
<1>2. /\ DOMAIN queue' = DOMAIN queue /\ DOMAIN queue = DOMAIN sess
      /\ queue[s] \in Seq(Packets \cup Marks)
      /\ sess[s].user \in Users
  BY <1>1, Shapes, SessionFields
<1>3. Typed'
  BY <1>1, <1>2 DEF Overtakes, Base, Typed
<1>4. QueueInv(s)'
  <2> DEFINE q == queue[s]
             n == queue'[s]
  <2>1. /\ q \in Seq(Packets \cup Marks) /\ k \in 1 .. Len(q) - 1
        /\ Len(n) = Len(q) /\ DOMAIN n = DOMAIN q
        /\ n[k] = q[k + 1] /\ n[k + 1] = q[k]
        /\ \A j \in DOMAIN q : j \notin {k, k + 1} => n[j] = q[j]
    BY <1>2 DEF Overtakes, Swapped
  <2>2. \/ q[k].ev = "EV_SESSION" /\ Posted(q[k + 1])
        \/ Posted(q[k]) /\ q[k + 1].ev = "EV_S_END"
    BY DEF Overtakes
  <2>3. \A j \in DOMAIN q :
         /\ Owner(q[j]) = sess[s].user
         /\ q[j].ev = "EV_SESSION" =>
              /\ q[j].arg = sess[s].status /\ sess[s].notifySet = {}
              /\ sess[s].shown = (sess[s].status # "INVIS")
              /\ \A m \in 1 .. j - 1 : Posted(q[m])
         /\ q[j].ev = "EV_S_END" =>
              /\ hash[sess[s].user] # s
              /\ \A m \in j + 1 .. Len(q) : Posted(q[m])
    BY <1>1 DEF Base, SessionsInv, QueueInv
  <2> HIDE DEF q, n
  <2>4. /\ Len(q) \in Nat /\ DOMAIN q = 1 .. Len(q) /\ k \in DOMAIN q /\ k + 1 \in DOMAIN q
        /\ \A j \in DOMAIN q : q[j] \in Packets \cup Marks
    BY <2>1
  <2>5. \A j \in DOMAIN q : Posted(q[j]) => q[j].ev \notin {"EV_SESSION", "EV_S_END"}
    BY <2>4, PostedPacket
  <2>6. ASSUME NEW j \in DOMAIN n
        PROVE  Owner(n[j]) = sess[s].user
    BY <2>1, <2>3, <2>4
  <2>7. ASSUME NEW j \in DOMAIN n, n[j].ev = "EV_SESSION"
        PROVE  /\ n[j].arg = sess[s].status /\ sess[s].notifySet = {}
               /\ sess[s].shown = (sess[s].status # "INVIS")
               /\ \A m \in 1 .. j - 1 : Posted(n[m])
    <3>1. CASE q[k].ev = "EV_SESSION" /\ Posted(q[k + 1])
      <4>1. j = k + 1
        <5>1. j # k
          BY <2>1, <2>4, <2>5, <2>7, <3>1
        <5>2. CASE j \notin {k, k + 1}
          <6>1. q[j].ev = "EV_SESSION" /\ (j \in 1 .. k - 1 \/ k \in 1 .. j - 1)
            BY <2>1, <2>4, <2>7, <5>2
          <6> QED
            BY <2>1, <2>3, <2>4, <2>5, <3>1, <6>1
        <5> QED
          BY <5>1, <5>2
      <4>2. /\ q[k].arg = sess[s].status /\ sess[s].notifySet = {}
            /\ sess[s].shown = (sess[s].status # "INVIS")
            /\ \A m \in 1 .. k - 1 : Posted(q[m])
        BY <2>3, <2>4, <3>1
      <4>3. ASSUME NEW m \in 1 .. j - 1
            PROVE  Posted(n[m])
        <5>1. m = k \/ (m \in 1 .. k - 1 /\ m \in DOMAIN q /\ m \notin {k, k + 1})
          BY <2>1, <2>4, <4>1
        <5> QED
          BY <2>1, <3>1, <4>2, <5>1
      <4> QED
        BY <2>1, <4>1, <4>2, <4>3
    <3>2. CASE Posted(q[k]) /\ q[k + 1].ev = "EV_S_END"
      <4>1. j \notin {k, k + 1}
        BY <2>1, <2>4, <2>5, <2>7, <3>2
      <4>2. q[j].ev = "EV_SESSION" /\ n[j] = q[j]
        BY <2>1, <2>7, <4>1
      <4>3. j < k
        <5>1. ~(k + 1 \in 1 .. j - 1)
          BY <2>1, <2>3, <2>4, <2>5, <3>2, <4>2
        <5> QED
          BY <2>1, <2>4, <4>1, <5>1
      <4>4. \A m \in 1 .. j - 1 : n[m] = q[m]
        BY <2>1, <2>4, <4>3
      <4> QED
        BY <2>1, <2>3, <4>2, <4>4
    <3> QED
      BY <2>2, <3>1, <3>2
  <2>8. ASSUME NEW j \in DOMAIN n, n[j].ev = "EV_S_END"
        PROVE  /\ hash[sess[s].user] # s
               /\ \A m \in j + 1 .. Len(n) : Posted(n[m])
    <3>1. CASE Posted(q[k]) /\ q[k + 1].ev = "EV_S_END"
      <4>1. j = k
        <5>1. j # k + 1
          BY <2>1, <2>4, <2>5, <2>8, <3>1
        <5>2. CASE j \notin {k, k + 1}
          <6>1. q[j].ev = "EV_S_END" /\ (j \in k + 2 .. Len(q) \/ k + 1 \in j + 1 .. Len(q))
            BY <2>1, <2>4, <2>8, <5>2
          <6>2. k + 2 = (k + 1) + 1
            BY <2>1, <2>4
          <6> QED
            BY <2>1, <2>3, <2>4, <2>5, <3>1, <6>1, <6>2
        <5> QED
          BY <5>1, <5>2
      <4>2. hash[sess[s].user] # s /\ \A m \in (k + 1) + 1 .. Len(q) : Posted(q[m])
        BY <2>3, <2>4, <3>1
      <4>3. ASSUME NEW m \in j + 1 .. Len(n)
            PROVE  Posted(n[m])
        <5>1. m = k + 1 \/ (m \in (k + 1) + 1 .. Len(q) /\ m \in DOMAIN q /\ m \notin {k, k + 1})
          BY <2>1, <2>4, <4>1
        <5> QED
          BY <2>1, <3>1, <4>2, <5>1
      <4> QED
        BY <4>2, <4>3
    <3>2. CASE q[k].ev = "EV_SESSION" /\ Posted(q[k + 1])
      <4>1. j \notin {k, k + 1}
        BY <2>1, <2>4, <2>5, <2>8, <3>2
      <4>2. q[j].ev = "EV_S_END" /\ n[j] = q[j]
        BY <2>1, <2>8, <4>1
      <4>3. j > k + 1
        <5>1. ~(k \in j + 1 .. Len(q))
          BY <2>1, <2>3, <2>4, <2>5, <3>2, <4>2
        <5> QED
          BY <2>1, <2>4, <4>1, <5>1
      <4>4. \A m \in j + 1 .. Len(q) : n[m] = q[m]
        BY <2>1, <2>4, <4>3
      <4> QED
        BY <2>1, <2>3, <4>2, <4>4
    <3> QED
      BY <2>2, <3>1, <3>2
  <2>9. sess[s].user \in astray'
    BY <1>1
  <2> QED
    BY <1>1, <2>6, <2>7, <2>8, <2>9 DEF QueueInv, n
<1>5. ASSUME NEW i \in DOMAIN queue
      PROVE  QueueInv(i)'
  <2>1. CASE i = s
    BY <1>4, <2>1
  <2>2. CASE i # s
    BY <1>1, <2>2 DEF Base, SessionsInv, QueueInv, InLine
  <2> QED
    BY <2>1, <2>2
<1>6. SessionsInv'
  BY <1>1, <1>2, <1>5 DEF Base, SessionsInv
<1>7. NoSelf'
  BY <1>1 DEF Base, NoSelf
<1> QED
  BY <1>3, <1>6, <1>7 DEF Base

-----------------------------------------------------------------------------
(***************************************************************************)
(* The sessions of the session manager.                                    *)
(***************************************************************************)

SmEntry == [name : Users, status : Args]
Known(u) == Cardinality(NamedIn(smHash, u))

\* What a report changes, if there is a session to remove.
LEMMA Registered ==
  ASSUME smHash \in Seq(SmEntry), NEW e \in Reports, SmRegister(e)
  PROVE  /\ smHash' \in Seq(SmEntry)
         /\ \A u \in Users : Known(u) \in Nat /\ (Known(u) + Change(e, u) >= 0 => Known(u)' = Known(u) + Change(e, u))
<1>1. /\ e.ev \in {"SM_ADD_SESSION", "SM_REMOVE_SESSION", "SM_REQUEST"}
      /\ e.from \in Users /\ e.arg \in Args
  BY DEF Reports
<1>2. \A u : Known(u) \in Nat
  BY NamedFinite DEF Known
<1>3. Len(smHash) \in Nat /\ DOMAIN smHash = 1 .. Len(smHash)
  OBVIOUS
<1>4. CASE e.ev = "SM_ADD_SESSION"
  <2> DEFINE r == [name |-> e.from, status |-> e.arg]
  <2>1. smHash' = Append(smHash, r)
    BY <1>4 DEF SmRegister
  <2>2. r \in SmEntry /\ r.name = e.from
    BY <1>1 DEF SmEntry
  <2> HIDE DEF r
  <2>3. /\ smHash' \in Seq(SmEntry)
        /\ \A u : Cardinality(NamedIn(smHash', u)) =
              Cardinality(NamedIn(smHash, u)) + (IF r.name = u THEN 1 ELSE 0)
    BY <2>1, <2>2, NamedAppend
  <2>4. \A u : Change(e, u) = IF r.name = u THEN 1 ELSE 0
    BY <1>4, <2>2 DEF Change
  <2> QED
    BY <1>2, <2>3, <2>4 DEF Known
<1>5. CASE e.ev = "SM_REMOVE_SESSION"
  <2> DEFINE I == NamedIn(smHash, e.from)
  <2>1. smHash' = IF I # {} THEN RemoveAt(smHash, Min(I)) ELSE smHash
    BY <1>5 DEF SmRegister, SmRemove, RemoveFirstMatch, SelectInSeq, NamedIn
  <2>2. \A u : Change(e, u) = IF e.from = u THEN -1 ELSE 0
    BY <1>5 DEF Change
  <2>3. CASE I = {}
    <3>1. Known(e.from) = 0
      BY <2>3, FS_EmptySet DEF Known
    <3>2. smHash' = smHash
      BY <2>1, <2>3
    <3>3. \A u \in Users : Known(u)' = Known(u)
      BY <3>2 DEF Known
    <3> QED
      BY <1>2, <2>2, <3>1, <3>2, <3>3
  <2>4. CASE I # {}
    <3> DEFINE i == Min(I)
    <3>1. I \in SUBSET Nat /\ I \subseteq 1 .. Len(smHash) /\ \A k \in I : smHash[k].name = e.from
      BY DEF NamedIn
    <3> HIDE DEF I
    <3>2. i \in I
      BY <2>4, <3>1, MinExists
    <3>3. i \in 1 .. Len(smHash) /\ smHash[i].name = e.from /\ smHash' = RemoveAt(smHash, i)
      BY <2>1, <2>4, <3>1, <3>2
    <3> HIDE DEF i
    <3>4. /\ smHash' \in Seq(SmEntry)
          /\ \A u : Cardinality(NamedIn(smHash', u)) =
                Cardinality(NamedIn(smHash, u)) - (IF smHash[i].name = u THEN 1 ELSE 0)
      BY <3>3, NamedRemoved
    <3> QED
      BY <1>2, <2>2, <3>3, <3>4 DEF Known
  <2> QED
    BY <2>3, <2>4
<1>6. CASE e.ev = "SM_REQUEST"
  <2> DEFINE I == NamedIn(smHash, e.from)
             k == IF I # {} THEN Min(I) ELSE 0
  <2>1. smHash' = IF k = 0 THEN smHash ELSE [smHash EXCEPT ![k].status = e.arg]
    BY <1>6 DEF SmRegister, SelectInSeq, NamedIn
  <2>2. \A u : Change(e, u) = 0
    BY <1>6 DEF Change
  <2>3. k = 0 \/ k \in 1 .. Len(smHash)
    <3>1. I \in SUBSET Nat /\ I \subseteq 1 .. Len(smHash)
      BY DEF NamedIn
    <3> HIDE DEF I
    <3> QED
      BY <3>1, MinExists
  <2> HIDE DEF k, I
  <2>4. CASE k = 0
    <3>1. smHash' = smHash
      BY <2>1, <2>4
    <3> QED
      BY <1>2, <2>2, <3>1 DEF Known
  <2>5. CASE k # 0
    <3> DEFINE r == [smHash[k] EXCEPT !.status = e.arg]
    <3>1. smHash[k] \in SmEntry
      BY <2>3, <2>5
    <3>2. r \in SmEntry /\ r.name = smHash[k].name
      BY <1>1, <3>1 DEF SmEntry
    <3>3. smHash' = [smHash EXCEPT ![k] = r]
      BY <2>1, <2>5
    <3> HIDE DEF r
    <3>4. smHash' \in [1 .. Len(smHash) -> SmEntry]
      <4> DEFINE S == SmEntry
      <4>1. smHash \in [1 .. Len(smHash) -> S] /\ r \in S
        BY <3>2
      <4> HIDE DEF S
      <4>2. smHash' \in [1 .. Len(smHash) -> S]
        BY <3>3, <4>1
      <4> QED
        BY <4>2 DEF S
    <3>5. smHash' \in Seq(SmEntry) /\ Len(smHash') = Len(smHash)
      BY <1>3, <3>4
    <3>6. \A j \in 1 .. Len(smHash) : smHash'[j].name = smHash[j].name
      BY <1>3, <3>2, <3>3
    <3>7. \A u : NamedIn(smHash', u) = NamedIn(smHash, u)
      BY <3>5, <3>6 DEF NamedIn
    <3>8. \A u \in Users : Known(u)' = Known(u)
      BY <3>7 DEF Known
    <3> QED
      BY <1>2, <2>2, <3>5, <3>8
  <2> QED
    BY <2>4, <2>5
<1> QED
  BY <1>1, <1>4, <1>5, <1>6

\* What sm does with the head of its stream.
Reads(e) ==
  /\ smIn # <<>> /\ e = Head(smIn) /\ smIn' = Tail(smIn)
  /\ \/ /\ e.ev # "EV_S_IN" /\ SmRegister(e) /\ e \in Reports
     \/ /\ e \in Incoming /\ smHash' = smHash
        /\ smOut' = smOut \/ smOut' = Append(smOut, e)
        /\ ~e.online => smOut' = Append(smOut, e)
  /\ UNCHANGED <<hash, sess, queue, loose, auth, roster, message, crashed, commands, got, lost,
                 astray>>

\* SmReceives reads a report or passes a packet on, and keeps the base of the
\* invariants.
LEMMA SmReads ==
  ASSUME Base, SmReceives
  PROVE  Reads(Head(smIn)) /\ Base'
<1> DEFINE e == Head(smIn)
<1>1. /\ smIn # <<>> /\ smIn' = Tail(smIn)
      /\ (e.ev # "EV_S_IN" /\ SmRegister(e)) \/ SmDeliver(e)
      /\ UNCHANGED <<hash, sess, queue, loose, auth, roster, message, crashed, commands, got, lost,
                     astray>>
  BY DEF SmReceives, tables
<1>2. smIn \in Seq(Incoming \cup Reports) /\ smOut \in Seq(Incoming)
      /\ smHash \in Seq([name : Users, status : Args])
  BY DEF Base, Typed
<1>3. e \in Incoming \cup Reports /\ Tail(smIn) \in Seq(Incoming \cup Reports)
  BY <1>1, <1>2, TailSeq
<1> HIDE DEF e
<1>4. CASE SmDeliver(e)
  <2>1. /\ e.ev = "EV_S_IN" /\ smHash' = smHash
        /\ smOut' = smOut \/ smOut' = Append(smOut, e)
        /\ ~e.online => smOut' = Append(smOut, e)
    BY <1>4 DEF SmDeliver
  <2>2. e \in Incoming
    BY <1>3, <2>1 DEF Reports
  <2>3. smOut' \in Seq(Incoming)
    <3>1. Append(smOut, e) \in Seq(Incoming)
      BY <1>2, <2>2, AppendSeq
    <3> QED
      BY <1>2, <2>1, <3>1
  <2>4. Typed'
    BY <1>1, <1>2, <1>3, <2>1, <2>3 DEF Base, Typed
  <2>5. SessionsInv' /\ NoSelf'
    BY <1>1 DEF Base, SessionsInv, QueueInv, InLine, NoSelf
  <2> QED
    BY <1>1, <2>1, <2>2, <2>4, <2>5 DEF Base, Reads, e
<1>5. CASE e.ev # "EV_S_IN" /\ SmRegister(e)
  <2>1. e \in Reports
    BY <1>3, <1>5 DEF Incoming
  <2>2. e.from \in Users /\ e.arg \in Args
    BY <2>1 DEF Reports
  <2>3. smOut' = smOut
    BY <1>5 DEF SmRegister
  <2>4. smHash' \in Seq([name : Users, status : Args])
    <3>1. smHash \in Seq(SmEntry)
      BY <1>2 DEF SmEntry
    <3>2. smHash' \in Seq(SmEntry)
      BY <1>5, <2>1, <3>1, Registered
    <3> QED
      BY <3>2 DEF SmEntry
  <2>5. Typed'
    BY <1>1, <1>2, <1>3, <2>3, <2>4 DEF Base, Typed
  <2>6. SessionsInv' /\ NoSelf'
    BY <1>1 DEF Base, SessionsInv, QueueInv, InLine, NoSelf
  <2> QED
    BY <1>1, <1>5, <2>1, <2>5, <2>6 DEF Base, Reads, e
<1> QED
  BY <1>1, <1>4, <1>5

\* A packet that comes back from sm is delivered.
Arrives(e) ==
  /\ smOut # <<>> /\ e = Head(smOut) /\ smOut' = Tail(smOut) /\ e \in Incoming
  /\ queue' \in Seq(Seq(Packets \cup Marks)) /\ Len(queue') = Len(queue)
  /\ \A i \in DOMAIN queue : \E h \in Seq(Packets) :
       /\ queue'[i] = Rest(i, 0) \o h /\ ToSet(h) = {p \in {e} : hash[Owner(p)] = i}
       /\ \A m : OnceId(h, m)
  /\ IsABag(loose') /\ DOMAIN loose' = DOMAIN loose \cup (IF hash[e.to] = 0 THEN {e} ELSE {})
  /\ \A x : NumberOf(x, loose')
             = NumberOf(x, loose) + (IF x = e /\ hash[e.to] = 0 THEN 1 ELSE 0)
  /\ astray' = IF hash[e.to] # 0 THEN astray \cup {e.to} ELSE astray
  /\ UNCHANGED <<hash, sess, auth, roster, message, smIn, smHash, crashed, commands, got, lost>>

\* DeliverLocal gives a packet to the session of its addressee, or to none.
LEMMA LocalArrives ==
  ASSUME Base, DeliverLocal
  PROVE  Arrives(Head(smOut))
<1> DEFINE e == Head(smOut)
           out == <<e>>
<1>1. /\ smOut # <<>> /\ smOut' = Tail(smOut)
      /\ queue' = [i \in DOMAIN queue |-> queue[i] \o Here(out, i)]
      /\ loose' = IF hash[e.to] = 0 THEN loose (+) SetToBag({e}) ELSE loose
      /\ astray' = astray \cup {u \in {e.to} : hash[u] # 0}
      /\ UNCHANGED <<hash, sess, auth, roster, message, smIn, smHash, crashed, commands, got, lost>>
  BY DEF DeliverLocal, tables
<1>2. smOut \in Seq(Incoming)
  BY DEF Base, Typed
<1>3. e \in Incoming /\ e \in Packets /\ e.ev = "EV_S_IN"
  BY <1>1, <1>2, TailSeq DEF Incoming
<1>4. Owner(e) = e.to
  BY <1>3 DEF Owner
<1> HIDE DEF e
<1>5. out \in Seq(Packets) /\ ToSet(out) = {e} /\ \A m : OnceId(out, m)
  BY <1>3, OneSet, OnceOne
<1> HIDE DEF out
<1>6. \A i : /\ Here(out, i) \in Seq(Packets) /\ (\A m : OnceId(Here(out, i), m))
             /\ ToSet(Here(out, i)) = {p \in {e} : hash[Owner(p)] = i}
  <2> SUFFICES ASSUME NEW i
               PROVE  /\ Here(out, i) \in Seq(Packets) /\ (\A m : OnceId(Here(out, i), m))
                      /\ ToSet(Here(out, i)) = {p \in {e} : hash[Owner(p)] = i}
    OBVIOUS
  <2> DEFINE C == {p \in ToSet(out) : hash[Owner(p)] = i}
  <2>1. Here(out, i) = Among(out, C)
    BY DEF Here
  <2>2. {e} \cap C = C /\ C = {p \in {e} : hash[Owner(p)] = i}
    BY <1>5
  <2> HIDE DEF C
  <2>3. Among(out, C) \in Seq(Packets) /\ ToSet(Among(out, C)) = ToSet(out) \cap C
    BY <1>5, AmongSeq
  <2>4. \A m : OnceId(Among(out, C), m)
    BY <1>5, AmongOnce
  <2> QED
    BY <1>5, <2>1, <2>2, <2>3, <2>4
<1>7. \A i \in DOMAIN queue : queue'[i] = Rest(i, 0) \o Here(out, i)
  <2>1. \A i \in DOMAIN queue : i # 0
    BY Shapes
  <2> QED
    BY <1>1, <2>1 DEF Rest
<1>8. queue' \in Seq(Seq(Packets \cup Marks)) /\ Len(queue') = Len(queue)
  <2> DEFINE S == Packets \cup Marks
             Q == Seq(S)
             N == [i \in DOMAIN queue |-> queue[i] \o Here(out, i)]
  <2>1. \A i \in DOMAIN queue : queue[i] \in Q /\ Here(out, i) \in Q
    BY <1>6, Shapes, SeqMonotonic
  <2> HIDE DEF S
  <2>2. \A i \in DOMAIN queue : queue[i] \o Here(out, i) \in Q
    BY <2>1, JoinedSeq
  <2>3. queue \in Seq(Q) /\ DOMAIN queue = 1 .. Len(queue) /\ Len(queue) \in Nat
    BY Shapes DEF S
  <2> HIDE DEF Q
  <2>4. N \in [1 .. Len(queue) -> Q]
    BY <2>2, <2>3
  <2> HIDE DEF N
  <2>5. N \in Seq(Q) /\ Len(N) = Len(queue)
    BY <2>3, <2>4
  <2> QED
    BY <1>1, <2>5 DEF N, Q, S
<1>9. \A i \in DOMAIN queue : \E h \in Seq(Packets) :
        /\ queue'[i] = Rest(i, 0) \o h /\ ToSet(h) = {p \in {e} : hash[Owner(p)] = i}
        /\ \A m : OnceId(h, m)
  BY <1>6, <1>7
<1>10. /\ IsABag(loose')
       /\ DOMAIN loose' = DOMAIN loose \cup (IF hash[e.to] = 0 THEN {e} ELSE {})
       /\ \A x : NumberOf(x, loose')
                  = NumberOf(x, loose) + (IF x = e /\ hash[e.to] = 0 THEN 1 ELSE 0)
  <2>1. IsABag(loose)
    BY DEF Base, Typed
  <2>2. CASE hash[e.to] = 0
    <3>1. loose' = loose (+) SetToBag({e})
      BY <1>1, <2>2
    <3>2. BagMore(loose', loose, {e})
      BY <2>1, <3>1, BagWith
    <3> QED
      BY <2>2, <3>2 DEF BagMore
  <2>3. CASE hash[e.to] # 0
    <3>1. \A x : NumberOf(x, loose) \in Nat
      BY <2>1 DEF NumberOf, IsABag
    <3> QED
      BY <1>1, <2>1, <2>3, <3>1
  <2> QED
    BY <2>2, <2>3
<1>11. astray' = IF hash[e.to] # 0 THEN astray \cup {e.to} ELSE astray
  BY <1>1
<1> QED
  BY <1>1, <1>3, <1>8, <1>9, <1>10, <1>11 DEF Arrives, e

\* A packet from sm keeps the base of the invariants.
LEMMA BaseArrives ==
  ASSUME Base, NEW e, Arrives(e)
  PROVE  Base'
<1>1. /\ hash' = hash /\ sess' = sess /\ e \in Packets /\ e.to \in Users
      /\ queue' \in Seq(Seq(Packets \cup Marks)) /\ Len(queue') = Len(queue)
      /\ smOut' = Tail(smOut) /\ smOut # <<>>
  BY PacketFields DEF Arrives, Incoming
<1>2. Typed'
  <2>1. smOut \in Seq(Incoming)
    BY DEF Base, Typed
  <2>2. smOut' \in Seq(Incoming)
    BY <1>1, <2>1, TailSeq
  <2>3. IsABag(loose') /\ DOMAIN loose' \subseteq Packets /\ astray' \subseteq Users
    BY <1>1 DEF Arrives, Base, Typed
  <2> QED
    BY <1>1, <2>2, <2>3 DEF Arrives, Base, Typed
<1>3. DOMAIN queue' = DOMAIN queue /\ DOMAIN queue = DOMAIN sess /\ \A i \in DOMAIN queue : i # 0
  BY <1>1, Shapes
<1>4. ASSUME NEW i \in DOMAIN queue
      PROVE  QueueInv(i)'
  <2>1. PICK h \in Seq(Packets) :
          queue'[i] = Rest(i, 0) \o h /\ ToSet(h) = {p \in {e} : hash[Owner(p)] = i}
    BY DEF Arrives
  <2>2. \A p \in ToSet(h) : hash[Owner(p)] = i
    BY <2>1
  <2>3. 0 # i /\ sess'[i] = sess[i]
    BY <1>1, <1>3
  <2>4. astray \subseteq astray'
    BY DEF Arrives
  <2> QED
    BY <1>1, <2>1, <2>2, <2>3, <2>4, QueueGrows
<1>5. SessionsInv'
  BY <1>1, <1>3, <1>4 DEF SessionsInv, Base
<1>6. NoSelf'
  BY <1>1 DEF Arrives, Base, NoSelf
<1> QED
  BY <1>2, <1>5, <1>6 DEF Base

\* The base of the invariants holds initially.
LEMMA BaseInit == MessengerInit => Base
<1> SUFFICES ASSUME MessengerInit
             PROVE  Base
  OBVIOUS
<1>1. /\ hash = [u \in Users |-> 0] /\ sess = <<>> /\ queue = <<>> /\ loose = EmptyBag
      /\ auth \in [Users -> Auths] /\ message \in [Users -> {<<>>, <<0>>}]
      /\ smIn = <<>> /\ smOut = <<>> /\ smHash = <<>>
      /\ crashed = FALSE /\ commands = 0 /\ got = {} /\ lost = {} /\ astray = {}
  BY DEF MessengerInit
<1>2. PICK to \in SUBSET {p \in Users \X Users : p[1] # p[2]} :
       roster = [u \in Users |-> [c \in Users |->
                  {x \in Sub : \/ <<u, c>> \in to /\ x = "SUB_TO"
                               \/ <<c, u>> \in to /\ x = "SUB_FROM"}]]
  BY DEF MessengerInit
<1>3. roster \in [Users -> [Users -> SUBSET Sub]]
  BY <1>2
<1>4. \A u \in Users : roster[u][u] = {}
  <2>1. \A u \in Users : <<u, u>> \notin to
    BY <1>2
  <2> QED
    BY <1>2, <2>1
<1>5. message \in [Users -> Seq({0} \cup Messages)]
  <2> DEFINE S == {0} \cup Messages
  <2>1. <<>> \in Seq(S) /\ <<0>> \in Seq(S)
    BY OneSet, EmptySet
  <2> HIDE DEF S
  <2>2. message \in [Users -> Seq(S)]
    BY <1>1, <2>1
  <2> QED
    BY <2>2 DEF S
<1>6. IsABag(loose) /\ DOMAIN loose = {}
  BY <1>1 DEF EmptyBag, SetToBag, IsABag
<1>7. Typed
  <2>1. /\ <<>> \in Seq(Session) /\ <<>> \in Seq(Seq(Packets \cup Marks))
        /\ <<>> \in Seq(Incoming \cup Reports) /\ <<>> \in Seq(Incoming)
        /\ <<>> \in Seq([name : Users, status : Args]) /\ Len(<<>>) = 0
    OBVIOUS
  <2>2. hash \in [Users -> 0 .. Len(sess)] /\ Len(sess) <= MaxSessions
    BY <1>1, MessengerAssumption
  <2>3. commands \in 0 .. MaxCommands /\ crashed \in BOOLEAN
    <3>1. commands \in 0 .. MaxCommands
      BY <1>1, MessengerAssumption
    <3>2. crashed \in BOOLEAN
      BY <1>1
    <3> QED
      BY <3>1, <3>2
  <2> QED
    BY <1>1, <1>3, <1>5, <1>6, <2>1, <2>2, <2>3 DEF Typed
<1>8. SessionsInv /\ NoSelf
  BY <1>1, <1>4 DEF SessionsInv, NoSelf
<1> QED
  BY <1>7, <1>8 DEF Base

\* A step, by what it does.
Handles(s, e) ==
  \/ s \in DOMAIN queue /\ SessionStep(s, e)
  \/ s \in {0} \cup DOMAIN queue /\ EventStep(s, e)

Stepped ==
  \/ \E u \in Users, status \in Statuses : \E n : Begins(u, status, n)
  \/ \E u \in Users : Leaves(u)
  \/ \E u \in Users : \E e : Enters(u, e)
  \/ \E s \in DOMAIN queue : Sweeps(s)
  \/ \E s, k : Overtakes(s, k)
  \/ \E s, e : Handles(s, e)
  \/ \E e : Reads(e)
  \/ \E e : Arrives(e)
  \/ UNCHANGED messengerVars

\* Every handler moves events and acts on one session, and keeps the base of
\* the invariants.
LEMMA BaseHandles ==
  ASSUME Base, NEW s, NEW e, Handles(s, e)
  PROVE  /\ Base' /\ Acts(s, e)
         /\ \E req, P : Moves(s, e, req, P) /\ req \in Seq(Reports)
<1> SUFFICES Spares(s, e) /\ \E req \in Seq(Reports) : \E P : Moves(s, e, req, P) /\ Acts(s, e)
  BY BaseMoves
<1>1. <<>> \in Seq(Reports)
  OBVIOUS
<1>2. CASE s \in DOMAIN queue /\ SessionStep(s, e)
  <2>1. CASE OnSession(s, e)
    <3> DEFINE r == Item("SM_ADD_SESSION", "", sess[s].user, Nobody, FALSE, e.arg, 0)
    <3>1. sess[s].user \in Users /\ e.arg \in Args
      BY <1>2, <2>1, DoSession, Shapes, SessionFields, MarkFields
    <3>2. r \in Reports
      BY <3>1, NewReport
    <3>3. \E P : Moves(s, e, <<r>>, P)
      BY <1>2, <2>1, DoSession
    <3>4. Acts(s, e)
      BY <1>2, <2>1, ActsSession
    <3>5. ~Posted(e)
      BY <1>2, <2>1, DoSession, MarkFields DEF OnSession, Posted
    <3> HIDE DEF r
    <3> QED
      BY <3>2, <3>3, <3>4, <3>5, OneSet DEF Spares
  <2>2. CASE OnSessionEnd(s, e)
    <3> DEFINE r == Item("SM_REMOVE_SESSION", "", sess[s].user, Nobody, FALSE, "", 0)
    <3>1. sess[s].user \in Users /\ "" \in Args
      BY <1>2, Shapes, SessionFields DEF Args
    <3>2. r \in Reports
      BY <3>1, NewReport
    <3>3. \E P : Moves(s, e, <<r>>, P)
      BY <1>2, <2>2, DoSessionEnd
    <3>4. Acts(s, e)
      BY <1>2, <2>2, ActsSessionEnd
    <3>5. ~Posted(e)
      BY <1>2, <2>2, DoSessionEnd, MarkFields DEF OnSessionEnd, Posted
    <3> HIDE DEF r
    <3> QED
      BY <3>2, <3>3, <3>4, <3>5, OneSet DEF Spares
  <2>3. CASE OnChangeStatus(s, e)
    <3> DEFINE r == Item("SM_REQUEST", e.cmd, sess[s].user, Nobody, FALSE, e.arg, 0)
    <3>1. sess[s].user \in Users /\ e.arg \in Args /\ e.cmd = "CMD_CHANGE_STATUS"
      <4>1. e.arg \in Args
        BY <1>2, <2>3, DoChangeStatus, PacketFields
      <4>2. e.cmd = "CMD_CHANGE_STATUS"
        BY <2>3 DEF OnChangeStatus
      <4> QED
        BY <1>2, <4>1, <4>2, Shapes, SessionFields
    <3>2. r \in Reports
      BY <3>1, NewReport
    <3>3. \E P : Moves(s, e, <<r>>, P)
      BY <1>2, <2>3, DoChangeStatus
    <3>4. Acts(s, e)
      BY <1>2, <2>3, ActsChangeStatus
    <3>5. ~Posted(e)
      BY <2>3 DEF OnChangeStatus, Posted
    <3> HIDE DEF r
    <3> QED
      BY <3>2, <3>3, <3>4, <3>5, OneSet DEF Spares
  <2>4. CASE OnRequest(s, e)
    BY <1>1, <1>2, <2>4, DoRequest DEF Spares
  <2>5. CASE OnDelContact(s, e)
    BY <1>1, <1>2, <2>5, DoDelContact DEF Spares
  <2>6. CASE OnMessage(s, e)
    BY <1>1, <1>2, <2>6, DoMessage DEF Spares
  <2> QED
    BY <1>2, <2>1, <2>2, <2>3, <2>4, <2>5, <2>6 DEF SessionStep
<1>3. CASE s \in {0} \cup DOMAIN queue /\ EventStep(s, e)
  <2> SUFFICES Spares(s, e) /\ Acts(s, e) /\ \E P : Moves(s, e, <<>>, P)
    BY <1>1
  <2>1. CASE OnContactAuthOut(s, e)
    BY <1>3, <2>1, DoAuthOut DEF Spares, Sees
  <2>2. CASE OnMessageOut(s, e)
    BY <1>3, <2>2, DoMessageOut DEF Spares
  <2>3. CASE OnUserStatus(s, e)
    BY <1>3, <2>3, DoUserStatus DEF Spares
  <2>4. CASE OnProbeStatus(s, e)
    BY <1>3, <2>4, DoProbeStatus DEF Spares
  <2>5. CASE OnAddContactIn(s, e)
    BY <1>3, <2>5, DoAddContactIn DEF Spares
  <2>6. CASE OnContactAuthIn(s, e)
    BY <1>3, <2>6, DoAuthIn DEF Spares
  <2>7. CASE OnDelContactIn(s, e)
    BY <1>3, <2>7, DoDelContactIn DEF Spares
  <2>8. CASE OnMessageIn(s, e)
    BY <1>3, <2>8, DoMessageIn DEF Spares
  <2>9. CASE OnContactInfoIn(s, e)
    BY <1>3, <2>9, DoInfoIn DEF Spares
  <2>10. CASE OnContactInfoReply(s, e)
    BY <1>3, <2>10, DoInfoReply DEF Spares
  <2> QED
    BY <1>3, <2>1, <2>2, <2>3, <2>4, <2>5, <2>6, <2>7, <2>8, <2>9, <2>10 DEF EventStep
<1> QED
  BY <1>2, <1>3 DEF Handles

\* Every step is of one of the kinds above, and keeps the base of the
\* invariants.
LEMMA Steps ==
  ASSUME Base, [MessengerNext]_messengerVars
  PROVE  Stepped /\ Base'
<1>1. CASE \E u \in Users, status \in Statuses : Login(u, status)
  BY <1>1, LoginBegins, BaseBegins DEF Stepped
<1>2. CASE \E u \in Users : Logout(u)
  BY <1>2, LogoutLeaves, BaseLeaves DEF Stepped
<1>3. CASE \E u \in Users, to \in Users, cmd \in Clicked, arg \in Args :
             /\ u = to => cmd = "CMD_CHANGE_STATUS"
             /\ cmd = "CMD_CHANGE_STATUS" => arg \in Statuses
             /\ Command(u, cmd, to, arg)
  <2>1. PICK u \in Users, to \in Users, cmd \in Clicked, arg \in Args :
             /\ u = to => cmd = "CMD_CHANGE_STATUS"
             /\ cmd = "CMD_CHANGE_STATUS" => arg \in Statuses
             /\ Command(u, cmd, to, arg)
    BY <1>3
  <2>2. \E e : Enters(u, e)
    BY <2>1, CommandEnters
  <2> QED
    BY <2>2, BaseEnters DEF Stepped
<1>4. CASE \E s \in DOMAIN queue : Sweep(s)
  BY <1>4, SweepSweeps DEF Stepped
<1>41. CASE \E s \in DOMAIN queue : Overtake(s)
  BY <1>41, OvertakeOvertakes, BaseOvertakes DEF Stepped
<1>5. CASE \E s, e : Handles(s, e)
  BY <1>5, BaseHandles DEF Stepped
<1>6. CASE SmReceives
  BY <1>6, SmReads DEF Stepped
<1>7. CASE DeliverLocal
  BY <1>7, LocalArrives, BaseArrives DEF Stepped
<1>8. CASE UNCHANGED messengerVars
  <2>1. /\ UNCHANGED <<hash, sess, queue, loose, auth, roster, message, smIn, smOut, smHash,
                       crashed, commands, got, lost, astray>>
    BY <1>8 DEF messengerVars, tables, streams
  <2>2. Typed'
    BY <2>1 DEF Base, Typed
  <2>3. SessionsInv' /\ NoSelf'
    BY <2>1 DEF Base, SessionsInv, QueueInv, InLine, NoSelf
  <2> QED
    BY <1>8, <2>2, <2>3 DEF Base, Stepped
<1>9. CASE MessengerNext
  <2>1. CASE \E u \in Users : \E status \in Statuses : Command(u, "CMD_CHANGE_STATUS", u, status)
    <3>1. PICK u \in Users, status \in Statuses : Command(u, "CMD_CHANGE_STATUS", u, status)
      BY <2>1
    <3>2. "CMD_CHANGE_STATUS" \in Clicked /\ status \in Args
      BY DEF Clicked, Args, Shown
    <3> QED
      BY <1>3, <3>1, <3>2
  <2>2. CASE \E u \in Users : \E to \in Users \ {u} :
               \E cmd \in {"CMD_ADD_CONTACT", "CMD_DEL_CONTACT", "CMD_GET_CONTACT_INFO"} :
                 Command(u, cmd, to, "")
    <3>1. PICK u \in Users, to \in Users,
               cmd \in {"CMD_ADD_CONTACT", "CMD_DEL_CONTACT", "CMD_GET_CONTACT_INFO"} :
                 u # to /\ Command(u, cmd, to, "")
      BY <2>2
    <3>2. cmd \in Clicked /\ "" \in Args /\ cmd # "CMD_CHANGE_STATUS"
      BY DEF Clicked, Args
    <3> QED
      BY <1>3, <3>1, <3>2
  <2>3. CASE \E u \in Users : \E to \in Users \ {u} :
               \E type \in {"TEXT", "AUTH_ACCEPT"} : Command(u, "CMD_MESSAGE", to, type)
    <3>1. PICK u \in Users, to \in Users, type \in {"TEXT", "AUTH_ACCEPT"} :
                 u # to /\ Command(u, "CMD_MESSAGE", to, type)
      BY <2>3
    <3>2. "CMD_MESSAGE" \in Clicked /\ type \in Args /\ "CMD_MESSAGE" # "CMD_CHANGE_STATUS"
      BY DEF Clicked, Args
    <3> QED
      BY <1>3, <3>1, <3>2
  <2>4. CASE \E s \in DOMAIN queue : \E e \in ToSet(queue[s]) : SessionStep(s, e) \/ EventStep(s, e)
    <3>0. PICK s \in DOMAIN queue : \E e : SessionStep(s, e) \/ EventStep(s, e)
      BY <2>4
    <3>1. PICK e : SessionStep(s, e) \/ EventStep(s, e)
      BY <3>0
    <3>2. Handles(s, e)
      BY <3>1 DEF Handles
    <3> QED
      BY <1>5, <3>2
  <2>5. CASE \E e \in BagToSet(loose) : EventStep(0, e)
    <3>1. PICK e : EventStep(0, e)
      BY <2>5
    <3>2. Handles(0, e)
      BY <3>1 DEF Handles
    <3> QED
      BY <1>5, <3>2
  <2> QED
    BY <1>1, <1>2, <1>4, <1>41, <1>6, <1>7, <1>9, <2>1, <2>2, <2>3, <2>4, <2>5 DEF MessengerNext
<1> QED
  BY <1>8, <1>9

\* An answer of c's that puts him on u's list, or a message that does.
Granted(f, u, c) ==
  /\ f.ev = "EV_S_IN" /\ f.from = c /\ f.to = u
  /\ \/ f.cmd = "CMD_SRV_CONTACT_AUTH" /\ f.arg = "ACCEPT"
     \/ f.cmd = "CMD_SRV_MESSAGE" /\ f.arg = "AUTH_ACCEPT"

Related(u, c) ==
  /\ "SUB_TO" \in roster[u][c] =>
       "SUB_FROM" \in roster[c][u] /\ \A f \in UnderWay : ~Withdraws(f, u, c)
  /\ \A f \in UnderWay : Granted(f, u, c) => "SUB_FROM" \in roster[c][u]
  /\ \A f, g \in UnderWay : ~(Withdraws(f, u, c) /\ Grants(g, u, c))

RosterInv == \A u, c \in Users : InOrder(u) /\ InOrder(c) => Related(u, c)

\* f is neither a request nor an answer, nor a deletion.
Idle(f) == \A u, c \in Users : ~Grants(f, u, c) /\ ~Withdraws(f, u, c)

\* What has been granted is a grant.
LEMMA GrantedGrants == \A f, u, c : Granted(f, u, c) => Grants(f, u, c)
  BY DEF Granted, Grants

\* What is under way: packets, marks and reports.
LEMMA UnderWayTyped ==
  ASSUME Base
  PROVE  /\ UnderWay \subseteq Packets \cup Marks \cup Reports
         /\ \A i \in DOMAIN queue : ToSet(queue[i]) \subseteq UnderWay
         /\ DOMAIN loose \subseteq UnderWay /\ ToSet(smIn) \subseteq UnderWay
         /\ ToSet(smOut) \subseteq UnderWay
<1>1. \A i \in DOMAIN queue : ToSet(queue[i]) \subseteq Packets \cup Marks
  <2> DEFINE S == Packets \cup Marks
  <2>1. \A i \in DOMAIN queue : queue[i] \in Seq(S)
    BY Shapes
  <2> HIDE DEF S
  <2>2. \A i \in DOMAIN queue : ToSet(queue[i]) \subseteq S
    BY <2>1, ElementsSeq, Zenon
  <2> QED
    BY <2>2 DEF S
<1>2. ToSet(smIn) \subseteq Packets \cup Reports
  <2> DEFINE S == Incoming \cup Reports
  <2>1. smIn \in Seq(S)
    BY DEF Base, Typed
  <2> HIDE DEF S
  <2>2. ToSet(smIn) \subseteq S
    BY <2>1, ElementsSeq
  <2> QED
    BY <2>2 DEF S, Incoming
<1>3. ToSet(smOut) \subseteq Packets
  <2>1. smOut \in Seq(Incoming)
    BY DEF Base, Typed
  <2>2. ToSet(smOut) \subseteq Incoming
    BY <2>1, ElementsSeq
  <2> QED
    BY <2>2 DEF Incoming
<1>4. BagToSet(loose) = DOMAIN loose /\ DOMAIN loose \subseteq Packets
  BY DEF Base, Typed, BagToSet
<1> DEFINE Q == UNION {ToSet(queue[i]) : i \in DOMAIN queue}
<1>5. UnderWay = Q \cup BagToSet(loose) \cup ToSet(smIn) \cup ToSet(smOut)
  BY DEF UnderWay
<1>6. Q \subseteq Packets \cup Marks /\ \A i \in DOMAIN queue : ToSet(queue[i]) \subseteq Q
  BY <1>1, Zenon
<1> HIDE DEF Q
<1> QED
  BY <1>2, <1>3, <1>4, <1>5, <1>6

\* Reports and marks neither grant nor withdraw.
LEMMA ReportIdle == \A f \in Reports \cup Marks : Idle(f)
  BY MessengerAssumption DEF Reports, Marks, Idle, Grants, Withdraws

\* A handler takes an event that is under way, and adds what it sends.
LEMMA MovesAdd ==
  ASSUME Base, NEW s, NEW e, NEW req \in Seq(Reports), NEW P, Moves(s, e, req, P)
  PROVE  UnderWay' \subseteq UnderWay \cup ToSet(req) \cup P /\ e \in UnderWay
<1>1. DOMAIN queue' = DOMAIN queue
  BY Shapes DEF Moves
<1>2. ASSUME NEW i \in DOMAIN queue
      PROVE  ToSet(queue'[i]) \subseteq UnderWay \cup P
  <2> DEFINE S == Packets \cup Marks
  <2>1. PICK h \in Seq(Packets) : queue'[i] = Rest(i, s) \o h
                                  /\ ToSet(h) = {p \in P : hash[Owner(p)] = i}
    BY <1>2 DEF Moves
  <2>2. queue[i] \in Seq(S)
    BY Shapes
  <2>3. h \in Seq(S)
    BY ElementsSeq
  <2>4. i = s => queue[i] # <<>>
    BY <1>2, Shapes DEF Moves
  <2> HIDE DEF S
  <2>5. Rest(i, s) \in Seq(S) /\ ToSet(Rest(i, s)) \subseteq ToSet(queue[i])
    <3>1. CASE i = s
      BY <3>1, <2>2, <2>4, TailSeq DEF Rest
    <3>2. CASE i # s
      BY <3>2, <2>2 DEF Rest
    <3> QED
      BY <3>1, <3>2
  <2>6. ToSet(queue'[i]) = ToSet(Rest(i, s)) \cup ToSet(h)
    BY <2>1, <2>3, <2>5, JoinedSeq
  <2> QED
    BY <1>2, <2>1, <2>5, <2>6, UnderWayTyped
<1>3. BagToSet(loose') \subseteq UnderWay \cup P
  BY UnderWayTyped DEF Moves, BagToSet
<1>4. ToSet(smIn') \subseteq UnderWay \cup ToSet(req) \cup P
  <2> DEFINE S == Incoming \cup Reports
  <2>1. PICK t \in Seq(Incoming) : smIn' = (smIn \o req) \o t
                                   /\ ToSet(t) = {p \in P : p.ev = "EV_S_IN" /\ hash[p.to] = 0}
    BY DEF Moves
  <2>2. smIn \in Seq(S) /\ req \in Seq(S) /\ t \in Seq(S)
    BY ElementsSeq DEF Base, Typed
  <2> HIDE DEF S
  <2> DEFINE q == smIn \o req
  <2>3. q \in Seq(S) /\ ToSet(q) = ToSet(smIn) \cup ToSet(req)
    BY <2>2, JoinedSeq
  <2>4. smIn' = q \o t
    BY <2>1
  <2> HIDE DEF q
  <2>5. ToSet(smIn') = ToSet(q) \cup ToSet(t)
    BY <2>2, <2>3, <2>4, JoinedSeq
  <2> QED
    BY <2>1, <2>3, <2>5, UnderWayTyped
<1>5. smOut' = smOut
  BY DEF Moves
<1>6. UnderWay' \subseteq UnderWay \cup ToSet(req) \cup P
  <2> DEFINE Q == UNION {ToSet(queue'[i]) : i \in DOMAIN queue'}
  <2>1. UnderWay' = Q \cup BagToSet(loose') \cup ToSet(smIn') \cup ToSet(smOut')
    BY DEF UnderWay
  <2>2. Q \subseteq UnderWay \cup P
    BY <1>1, <1>2, Zenon
  <2>3. ToSet(smOut') \subseteq UnderWay
    BY <1>5, UnderWayTyped
  <2> HIDE DEF Q
  <2> QED
    BY <1>3, <1>4, <2>1, <2>2, <2>3
<1>7. e \in UnderWay
  <2>1. CASE s = 0
    BY <2>1, UnderWayTyped DEF Moves
  <2>2. CASE s # 0
    <3> DEFINE S == Packets \cup Marks
    <3>1. s \in DOMAIN queue /\ queue[s] # <<>> /\ e = Head(queue[s]) /\ queue[s] \in Seq(S)
      BY <2>2, Shapes DEF Moves
    <3> HIDE DEF S
    <3>2. e \in ToSet(queue[s])
      BY <3>1, TailSeq
    <3> QED
      BY <3>1, <3>2, UnderWayTyped
  <2> QED
    BY <2>1, <2>2
<1> QED
  BY <1>6, <1>7

\* The sessions of a user are finitely many.
LEMMA SessionsFinite ==
  ASSUME Base, NEW u
  PROVE  IsFiniteSet(SessionsOf(u)) /\ Cardinality(SessionsOf(u)) \in Nat
         /\ \A T \in SUBSET SessionsOf(u) : Cardinality(T) <= Cardinality(SessionsOf(u))
<1>1. SessionsOf(u) \subseteq 1 .. Len(sess) /\ Len(sess) \in Nat
  BY Shapes DEF SessionsOf
<1>2. IsFiniteSet(1 .. Len(sess))
  BY <1>1, FS_Interval
<1>3. IsFiniteSet(SessionsOf(u))
  BY <1>1, <1>2, FS_Subset
<1> QED
  BY <1>3, FS_Subset, FS_CardinalityType

\* A user for whom things are in order has been in order.
LEMMA OrderBefore ==
  ASSUME Base, Base', astray \subseteq astray', Len(sess) <= Len(sess'),
         \A i \in DOMAIN sess : sess'[i].user = sess[i].user
  PROVE  \A u \in Users : InOrder(u)' => InOrder(u)
<1> TAKE u \in Users
<1>1. SessionsOf(u) \subseteq SessionsOf(u)'
  <2>1. DOMAIN sess = 1 .. Len(sess) /\ Len(sess) \in Nat
    BY Shapes
  <2>2. DOMAIN sess' = 1 .. Len(sess')
    BY DEF Base, Typed
  <2>3. Len(sess') \in Nat
    BY DEF Base, Typed
  <2>4. DOMAIN sess \subseteq DOMAIN sess'
    BY <2>1, <2>2, <2>3
  <2> QED
    BY <2>4 DEF SessionsOf
<1>2. Cardinality(SessionsOf(u)) \in Nat
  BY SessionsFinite
<1>3. Base' => (IsFiniteSet(SessionsOf(u)) /\ Cardinality(SessionsOf(u)) \in Nat
         /\ \A T \in SUBSET SessionsOf(u) : Cardinality(T) <= Cardinality(SessionsOf(u)))'
  BY SessionsFinite, PTL
<1>4. Cardinality(SessionsOf(u)') \in Nat /\ Cardinality(SessionsOf(u)) <= Cardinality(SessionsOf(u)')
  BY <1>1, <1>3
<1> QED
  BY <1>2, <1>4 DEF InOrder

\* Two rows stay related if new packets neither withdraw nor grant too early.
LEMMA RelatedMore ==
  ASSUME NEW u, NEW c, NEW N, Related(u, c), UnderWay' \subseteq UnderWay \cup N,
         "SUB_TO" \in roster'[u][c] => "SUB_TO" \in roster[u][c],
         "SUB_FROM" \in roster[c][u] => "SUB_FROM" \in roster'[c][u],
         \A f \in N : ~Withdraws(f, u, c),
         \A f \in N : Granted(f, u, c) => "SUB_FROM" \in roster'[c][u],
         \A f \in N, g \in UnderWay : ~(Grants(f, u, c) /\ Withdraws(g, u, c))
  PROVE  Related(u, c)'
<1>1. \A f \in UnderWay' : f \in UnderWay \/ f \in N
  OBVIOUS
<1>2. ASSUME "SUB_TO" \in roster'[u][c]
      PROVE  "SUB_FROM" \in roster'[c][u] /\ \A f \in UnderWay' : ~Withdraws(f, u, c)
  BY <1>1, <1>2 DEF Related
<1>3. \A f \in UnderWay' : Granted(f, u, c) => "SUB_FROM" \in roster'[c][u]
  BY <1>1 DEF Related
<1>4. \A f, g \in UnderWay' : ~(Withdraws(f, u, c) /\ Grants(g, u, c))
  BY <1>1 DEF Related
<1> QED
  BY <1>2, <1>3, <1>4 DEF Related

\* Two rows stay related if nothing new is under way.
LEMMA RelatedSame ==
  ASSUME NEW u, NEW c, Related(u, c), UnderWay' \subseteq UnderWay,
         "SUB_TO" \in roster'[u][c] => "SUB_TO" \in roster[u][c],
         "SUB_FROM" \in roster[c][u] => "SUB_FROM" \in roster'[c][u]
  PROVE  Related(u, c)'
<1> DEFINE N == {}
<1>1. UnderWay' \subseteq UnderWay \cup N
  OBVIOUS
<1>2. \A f \in N : FALSE
  OBVIOUS
<1> HIDE DEF N
<1> QED
  BY <1>1, <1>2, RelatedMore

\* c is withdrawn while nothing grants him.
LEMMA RelatedLess ==
  ASSUME NEW u, NEW c, NEW N, UnderWay' \subseteq UnderWay \cup N,
         "SUB_TO" \notin roster'[u][c], \A f \in UnderWay \cup N : ~Grants(f, u, c)
  PROVE  Related(u, c)'
<1>1. \A f \in UnderWay' : ~Grants(f, u, c)
  OBVIOUS
<1> QED
  BY <1>1, GrantedGrants DEF Related

\* What was granted takes effect.
LEMMA RelatedNow ==
  ASSUME NEW u, NEW c, NEW e \in UnderWay, Related(u, c), UnderWay' \subseteq UnderWay,
         Granted(e, u, c), roster'[c][u] = roster[c][u]
  PROVE  Related(u, c)'
<1>1. "SUB_FROM" \in roster'[c][u] /\ Grants(e, u, c)
  BY GrantedGrants DEF Related
<1>2. \A f \in UnderWay : ~Withdraws(f, u, c)
  BY <1>1 DEF Related
<1>3. \A f \in UnderWay' : ~Withdraws(f, u, c)
  BY <1>2
<1> QED
  BY <1>1, <1>3 DEF Related

\* The withdrawal reaches c.
LEMMA RelatedNoMore ==
  ASSUME NEW u, NEW c, NEW e \in UnderWay, Related(u, c), UnderWay' \subseteq UnderWay,
         Withdraws(e, u, c), roster'[u][c] = roster[u][c]
  PROVE  Related(u, c)'
<1>1. "SUB_TO" \notin roster'[u][c]
  BY DEF Related
<1>2. \A f \in UnderWay : ~Grants(f, u, c)
  BY DEF Related
<1> QED
  BY <1>1, <1>2, RelatedLess

\* Nothing is under way from a user to himself, and he is not on his own list.
LEMMA RelatedSelf ==
  ASSUME Base, NEW u \in Users
  PROVE  Related(u, u)
<1>1. roster[u][u] = {}
  BY DEF Base, NoSelf
<1>2. \A f \in UnderWay : ~Grants(f, u, u) /\ ~Withdraws(f, u, u)
  <2> SUFFICES ASSUME NEW f \in UnderWay PROVE ~Grants(f, u, u) /\ ~Withdraws(f, u, u)
    OBVIOUS
  <2>1. CASE f \in Packets
    BY <2>1, PacketFields DEF Sound, Grants, Withdraws
  <2>2. CASE f \in Reports \cup Marks
    BY <2>2, ReportIdle DEF Idle
  <2> QED
    BY <2>1, <2>2, UnderWayTyped
<1> QED
  BY <1>1, <1>2, GrantedGrants DEF Related

\* What a handler may count on: the other users' relation, and that it did not stray.
LEMMA HandlesOrder ==
  ASSUME Base, NEW s, NEW e, Handles(s, e), NEW u \in Users, InOrder(u)'
  PROVE  InOrder(u) /\ (Strays(s, e) => u # Owner(e)) /\ Base'
<1>1. Base' /\ Acts(s, e)
  BY BaseHandles
<1>2. PICK req, P : Moves(s, e, req, P) /\ req \in Seq(Reports)
  BY BaseHandles
<1>3. astray' = IF Strays(s, e) THEN astray \cup {Owner(e)} ELSE astray
  BY <1>2 DEF Moves
<1>4. Len(sess') = Len(sess) /\ \A i \in DOMAIN sess : sess'[i].user = sess[i].user
  BY <1>1 DEF Acts
<1>5. Len(sess) \in Nat
  BY Shapes
<1>6. InOrder(u)
  BY <1>1, <1>3, <1>4, <1>5, OrderBefore
<1>7. u \notin astray'
  BY DEF InOrder
<1> QED
  BY <1>1, <1>3, <1>6, <1>7

\* Two rows stay related when a handler leaves the table alone and sends idle
\* packets.
LEMMA RelatedQuiet ==
  ASSUME Base, NEW s, NEW e, NEW req \in Seq(Reports), NEW P, Moves(s, e, req, P),
         \A f \in P : Idle(f), roster' = roster, NEW u \in Users, NEW c \in Users, Related(u, c)
  PROVE  Related(u, c)'
<1>1. ToSet(req) \subseteq Reports
  BY ElementsSeq
<1>2. \A f \in ToSet(req) \cup P : Idle(f)
  BY <1>1, ReportIdle
<1>3. UnderWay' \subseteq UnderWay \cup (ToSet(req) \cup P)
  BY MovesAdd
<1>4. \A f \in ToSet(req) \cup P : ~Grants(f, u, c) /\ ~Withdraws(f, u, c) /\ ~Granted(f, u, c)
  BY <1>2, GrantedGrants DEF Idle
<1> DEFINE N == ToSet(req) \cup P
<1> HIDE DEF N
<1>5. UnderWay' \subseteq UnderWay \cup N /\ \A f \in N : ~Grants(f, u, c) /\ ~Withdraws(f, u, c) /\ ~Granted(f, u, c)
  BY <1>3, <1>4 DEF N
<1> QED
  BY <1>5, RelatedMore

\* Probes and notices neither grant nor withdraw.
LEMMA IdleNotices ==
  \A s, x, arg : Idle(ProbeTo(s, x)) /\ Idle(OnlineTo(s, x, arg)) /\ Idle(OfflineTo(s, x))
<1>1. \A f : f.cmd \in Notices \cup {"CMD_SRV_PROBE_STATUS"} => Idle(f)
  BY DEF Notices, Idle, Grants, Withdraws
<1>2. \A s, x, arg : /\ ProbeTo(s, x).cmd = "CMD_SRV_PROBE_STATUS"
                      /\ OnlineTo(s, x, arg).cmd = "CMD_SRV_USER_ONLINE"
                      /\ OfflineTo(s, x).cmd = "CMD_SRV_USER_OFFLINE"
  BY DEF ProbeTo, OnlineTo, OfflineTo, In, Item
<1> QED
  BY <1>1, <1>2 DEF Notices

\* The handlers that begin, end or change a session keep two rows related.
LEMMA RelatedSession ==
  ASSUME Base, NEW s \in DOMAIN queue, NEW e, NEW u \in Users, NEW c \in Users, Related(u, c),
         OnSession(s, e) \/ OnSessionEnd(s, e) \/ OnChangeStatus(s, e)
  PROVE  Related(u, c)'
<1>1. sess[s].user \in Users
  BY Shapes, SessionFields
<1>2. CASE OnSession(s, e)
  <2> DEFINE P == {ProbeTo(s, x) : x \in Watched(s)} \cup {OnlineTo(s, x, e.arg) : x \in Told(s, e)}
             r == Item("SM_ADD_SESSION", "", sess[s].user, Nobody, FALSE, e.arg, 0)
             req == <<r>>
  <2>1. Moves(s, e, req, P) /\ e \in Marks
    BY <1>2, DoSession
  <2>2. r \in Reports
    BY <1>1, <2>1, MarkFields, NewReport
  <2>3. \A f \in P : Idle(f)
    BY IdleNotices
  <2>4. roster' = roster
    BY <1>2 DEF OnSession, tables
  <2>5. req \in Seq(Reports)
    BY <2>2, OneSet
  <2> HIDE DEF P, req
  <2> QED
    BY <2>1, <2>3, <2>4, <2>5, RelatedQuiet
<1>3. CASE OnSessionEnd(s, e)
  <2> DEFINE P == {OfflineTo(s, x) : x \in Parting(s)}
             r == Item("SM_REMOVE_SESSION", "", sess[s].user, Nobody, FALSE, "", 0)
             req == <<r>>
  <2>1. Moves(s, e, req, P)
    BY <1>3, DoSessionEnd
  <2>2. r \in Reports
    BY <1>1, NewReport DEF Args
  <2>3. \A f \in P : Idle(f)
    BY IdleNotices
  <2>4. roster' = roster
    BY <1>3 DEF OnSessionEnd, tables
  <2>5. req \in Seq(Reports)
    BY <2>2, OneSet
  <2> HIDE DEF P, req
  <2> QED
    BY <2>1, <2>3, <2>4, <2>5, RelatedQuiet
<1>4. CASE OnChangeStatus(s, e)
  <2>1. PICK online \in BOOLEAN :
              Moves(s, e, <<Item("SM_REQUEST", e.cmd, sess[s].user, Nobody, FALSE, e.arg, 0)>>,
                  {Notice(s, e, x, online) : x \in Noticed(s, e)})
    BY <1>4, DoChangeStatus
  <2> DEFINE P == {Notice(s, e, x, online) : x \in Noticed(s, e)}
             r == Item("SM_REQUEST", e.cmd, sess[s].user, Nobody, FALSE, e.arg, 0)
             req == <<r>>
  <2>2. e \in Packets /\ e.cmd = "CMD_CHANGE_STATUS"
    BY <1>4, DoChangeStatus DEF OnChangeStatus
  <2>3. r \in Reports
    BY <1>1, <2>2, PacketFields, NewReport
  <2>4. \A f \in P : Idle(f)
    <3> SUFFICES ASSUME NEW x PROVE Idle(Notice(s, e, x, online))
      OBVIOUS
    <3>1. Notice(s, e, x, online).cmd \in Notices
      BY DEF Notice, StatusNotice, In, Item, Notices
    <3> QED
      BY <3>1 DEF Notices, Idle, Grants, Withdraws
  <2>5. roster' = roster
    BY <1>4 DEF OnChangeStatus, tables
  <2>6. req \in Seq(Reports)
    BY <2>3, OneSet
  <2>7. Moves(s, e, req, P)
    BY <2>1
  <2> HIDE DEF P, req
  <2> QED
    BY <2>4, <2>5, <2>6, <2>7, RelatedQuiet
<1> QED
  BY <1>2, <1>3, <1>4

\* The handlers of commands keep two rows related, unless the command crosses
\* another.
LEMMA RelatedCommand ==
  ASSUME Base, NEW s \in DOMAIN queue, NEW e, NEW u \in Users, NEW c \in Users, Related(u, c),
         Strays(s, e) => u # Owner(e) /\ c # Owner(e), u # c,
         OnRequest(s, e) \/ OnDelContact(s, e) \/ OnMessage(s, e)
  PROVE  Related(u, c)'
<1>1. <<>> \in Seq(Reports) /\ ToSet(<<>>) = {}
  BY EmptySet
<1>2. CASE OnRequest(s, e)
  <2> DEFINE N == {Request(e)}
  <2>1. /\ Moves(s, e, <<>>, N) /\ roster' = roster /\ e \in Packets /\ e.ev = "EV_S_OUT"
        /\ e.cmd \in {"CMD_ADD_CONTACT", "CMD_GET_CONTACT_INFO"}
    BY <1>2, DoRequest
  <2>2. UnderWay' \subseteq UnderWay \cup N
    BY <1>1, <2>1, MovesAdd
  <2>3. ~Withdraws(Request(e), u, c) /\ ~Granted(Request(e), u, c)
    BY DEF Request, In, Item, Withdraws, Granted
  <2>4. ASSUME Grants(Request(e), u, c)
        PROVE  \A g \in UnderWay : ~Withdraws(g, u, c)
    <3>1. e.from = u /\ e.to = c /\ e.cmd = "CMD_ADD_CONTACT"
      <4>1. sess[s].user = e.from
        <5>1. s # 0
          BY Shapes
        <5>2. queue[s] # <<>> /\ e = Head(queue[s])
          BY <2>1, <5>1 DEF Moves
        <5> QED
          BY <2>1, <5>2, AtWork DEF Owner
      <4> QED
        BY <2>4, <4>1 DEF Request, In, Item, Grants
    <3>2. ~Strays(s, e)
      BY <2>1, <3>1 DEF Owner
    <3> QED
      BY <3>1, <3>2 DEF Strays, Crosses
  <2>5. \A f \in N, g \in UnderWay : ~(Grants(f, u, c) /\ Withdraws(g, u, c))
    BY <2>4
  <2>6. \A f \in N : ~Withdraws(f, u, c) /\ ~Granted(f, u, c)
    BY <2>3
  <2> HIDE DEF N
  <2> QED
    BY <2>1, <2>2, <2>5, <2>6, RelatedMore
<1>3. CASE OnDelContact(s, e)
  <2>1. /\ RowIs(e.from, e.to, roster[e.from][e.to] \ {"SUB_TO"})
        /\ e \in Packets /\ e.ev = "EV_S_OUT" /\ e.cmd = "CMD_DEL_CONTACT"
    BY <1>3, DoDelContact
  <2>2. PICK N \in SUBSET {Removal(e)} : Moves(s, e, <<>>, N)
    BY <1>3, DoDelContact
  <2>3. UnderWay' \subseteq UnderWay \cup N
    BY <1>1, <2>2, MovesAdd
  <2>4. \A f \in N : ~Grants(f, u, c) /\ ~Granted(f, u, c)
    <3>1. ~Grants(Removal(e), u, c) /\ ~Granted(Removal(e), u, c)
      BY DEF Removal, In, Item, Grants, Granted
    <3> QED
      BY <3>1
  <2>5. CASE e.from = u /\ e.to = c
    <3>1. "SUB_TO" \notin roster'[u][c]
      BY <2>1, <2>5 DEF RowIs
    <3>2. ~Strays(s, e)
      BY <2>1, <2>5 DEF Owner
    <3>3. \A g \in UnderWay : ~Grants(g, u, c)
      BY <2>1, <2>5, <3>2 DEF Strays, Crosses
    <3>4. \A f \in UnderWay \cup N : ~Grants(f, u, c)
      BY <2>4, <3>3
    <3> QED
      BY <2>3, <3>1, <3>4, RelatedLess
  <2>6. CASE ~(e.from = u /\ e.to = c)
    <3>1. \A f \in N : ~Withdraws(f, u, c)
      <4>1. ~Withdraws(Removal(e), u, c)
        BY <2>6 DEF Removal, In, Item, Withdraws
      <4> QED
        BY <4>1
    <3>2. roster'[u][c] = roster[u][c]
      BY <2>1, <2>6 DEF RowIs
    <3>3. "SUB_FROM" \in roster[c][u] => "SUB_FROM" \in roster'[c][u]
      <4>1. CASE e.from = c /\ e.to = u
        BY <2>1, <4>1 DEF RowIs
      <4>2. CASE ~(e.from = c /\ e.to = u)
        BY <2>1, <4>2 DEF RowIs
      <4> QED
        BY <4>1, <4>2
    <3> QED
      BY <2>3, <2>4, <3>1, <3>2, <3>3, RelatedMore
  <2> QED
    BY <2>5, <2>6
<1>4. CASE OnMessage(s, e)
  <2>1. /\ Moves(s, e, <<>>, {Letter(e)}) /\ roster' = roster
        /\ e \in Packets /\ e.ev = "EV_S_OUT" /\ e.cmd = "CMD_MESSAGE"
    BY <1>4, DoMessage
  <2>2. Letter(e).ev = "EV_S_OUT" /\ Letter(e).cmd = "CMD_SRV_MESSAGE"
    BY <2>1, Submitted DEF Letter
  <2>3. \A f \in {Letter(e)} : Idle(f)
    BY <2>2 DEF Idle, Grants, Withdraws
  <2> QED
    BY <1>1, <2>1, <2>3, RelatedQuiet
<1> QED
  BY <1>2, <1>3, <1>4

\* The handlers of what is sent in a user's name keep two rows related.
LEMMA RelatedOut ==
  ASSUME Base, NEW s \in {0} \cup DOMAIN queue, NEW e, NEW u \in Users, NEW c \in Users,
         Related(u, c), Strays(s, e) => u # Owner(e) /\ c # Owner(e), u # c,
         OnContactAuthOut(s, e) \/ OnMessageOut(s, e)
  PROVE  Related(u, c)'
<1>1. <<>> \in Seq(Reports) /\ ToSet(<<>>) = {}
  BY EmptySet
<1>2. e \in Packets /\ e.ev = "EV_S_OUT" /\ e.cmd \in {"CMD_SRV_CONTACT_AUTH", "CMD_SRV_MESSAGE"}
  BY DoAuthOut, DoMessageOut
<1>3. /\ Passed(e).ev = "EV_S_IN" /\ Passed(e).cmd = e.cmd /\ Passed(e).from = e.from
      /\ Passed(e).to = e.to /\ Passed(e).arg = e.arg
  BY <1>2, Forwarded DEF Passed
<1>4. ~Withdraws(Passed(e), u, c)
  BY <1>2, <1>3 DEF Withdraws
<1>5. \A x : \A f \in Welcome(s, x) : Idle(f)
  BY IdleNotices DEF Welcome
<1>6. CASE OnContactAuthOut(s, e)
  <2> DEFINE N == Answers(s, e)
  <2>1. /\ Moves(s, e, <<>>, N) /\ e.cmd = "CMD_SRV_CONTACT_AUTH"
        /\ IF e.arg = "ACCEPT"
           THEN RowIs(e.from, e.to, roster[e.from][e.to] \cup {"SUB_FROM"}) ELSE roster' = roster
    BY <1>6, DoAuthOut
  <2>2. UnderWay' \subseteq UnderWay \cup N /\ e \in UnderWay
    BY <1>1, <2>1, MovesAdd
  <2>3. \A f \in N : f = Passed(e) \/ Idle(f)
    <3>1. Idle(AddedNote(e))
      BY DEF AddedNote, In, Item, Idle, Grants, Withdraws
    <3> QED
      BY <1>5, <3>1 DEF Answers
  <2>4. \A f \in N : f = Passed(e) \/ (~Grants(f, u, c) /\ ~Withdraws(f, u, c) /\ ~Granted(f, u, c))
    BY <2>3, GrantedGrants DEF Idle
  <2>5. Grants(Passed(e), u, c) => Grants(e, u, c)
    BY <1>3, <2>1 DEF Grants
  <2>6. \A g \in UnderWay : ~(Grants(Passed(e), u, c) /\ Withdraws(g, u, c))
    BY <2>2, <2>5 DEF Related
  <2>7. Granted(Passed(e), u, c) => "SUB_FROM" \in roster'[c][u]
    BY <1>2, <1>3, <2>1 DEF Granted, RowIs
  <2>8. "SUB_TO" \in roster'[u][c] => "SUB_TO" \in roster[u][c]
    BY <1>2, <2>1, SMTT(30) DEF RowIs
  <2>9. "SUB_FROM" \in roster[c][u] => "SUB_FROM" \in roster'[c][u]
    BY <1>2, <2>1, SMTT(30) DEF RowIs
  <2>10. \A f \in N : ~Withdraws(f, u, c) /\ (Granted(f, u, c) => "SUB_FROM" \in roster'[c][u])
    BY <1>4, <2>4, <2>7
  <2>11. \A f \in N, g \in UnderWay : ~(Grants(f, u, c) /\ Withdraws(g, u, c))
    BY <2>4, <2>6
  <2> HIDE DEF N
  <2> QED
    BY <2>2, <2>8, <2>9, <2>10, <2>11, RelatedMore
<1>7. CASE OnMessageOut(s, e)
  <2> DEFINE N == (IF Accepts(s, e) THEN Welcome(s, e.to) ELSE {}) \cup {Passed(e)}
  <2>1. /\ Moves(s, e, <<>>, N) /\ e.cmd = "CMD_SRV_MESSAGE"
        /\ IF Accepts(s, e)
           THEN RowIs(e.from, e.to, roster[e.from][e.to] \cup {"SUB_FROM"}) ELSE roster' = roster
    BY <1>7, DoMessageOut
  <2>2. UnderWay' \subseteq UnderWay \cup N
    BY <1>1, <2>1, MovesAdd
  <2>3. \A f \in N : f = Passed(e) \/ Idle(f)
    BY <1>5
  <2>4. \A f \in N : f = Passed(e) \/ (~Grants(f, u, c) /\ ~Withdraws(f, u, c) /\ ~Granted(f, u, c))
    BY <2>3, GrantedGrants DEF Idle
  <2>5. ASSUME Grants(Passed(e), u, c)
        PROVE  e.from = c /\ e.to = u /\ e.arg = "AUTH_ACCEPT" /\ ~Strays(s, e)
    <3>1. e.from = c /\ e.to = u /\ e.arg = "AUTH_ACCEPT"
      BY <1>3, <2>1, <2>5 DEF Grants
    <3> QED
      BY <1>2, <3>1 DEF Owner
  <2>6. \A g \in UnderWay : ~(Grants(Passed(e), u, c) /\ Withdraws(g, u, c))
    BY <1>2, <2>1, <2>5 DEF Strays, Crosses
  <2>7. Granted(Passed(e), u, c) => "SUB_FROM" \in roster'[c][u]
    <3>1. SUFFICES ASSUME Granted(Passed(e), u, c) PROVE "SUB_FROM" \in roster'[c][u]
      OBVIOUS
    <3>2. Accepts(s, e) /\ e.from = c /\ e.to = u
      BY <1>2, <2>1, <2>5, <3>1, GrantedGrants DEF Strays, AcceptsUnseen, Accepts
    <3> QED
      BY <2>1, <3>2 DEF RowIs
  <2>8. "SUB_TO" \in roster'[u][c] => "SUB_TO" \in roster[u][c]
    BY <1>2, <2>1, SMTT(30) DEF RowIs
  <2>9. "SUB_FROM" \in roster[c][u] => "SUB_FROM" \in roster'[c][u]
    BY <1>2, <2>1, SMTT(30) DEF RowIs
  <2>10. \A f \in N : ~Withdraws(f, u, c) /\ (Granted(f, u, c) => "SUB_FROM" \in roster'[c][u])
    BY <1>4, <2>4, <2>7
  <2>11. \A f \in N, g \in UnderWay : ~(Grants(f, u, c) /\ Withdraws(g, u, c))
    BY <2>4, <2>6
  <2> HIDE DEF N
  <2> QED
    BY <2>2, <2>8, <2>9, <2>10, <2>11, RelatedMore
<1> QED
  BY <1>6, <1>7

\* The handlers of what comes for a user keep two rows related.
LEMMA RelatedIn ==
  ASSUME Base, NEW s \in {0} \cup DOMAIN queue, NEW e, NEW u \in Users, NEW c \in Users,
         Related(u, c), u # c,
         \/ OnUserStatus(s, e) \/ OnProbeStatus(s, e) \/ OnAddContactIn(s, e)
         \/ OnContactAuthIn(s, e) \/ OnDelContactIn(s, e) \/ OnMessageIn(s, e)
         \/ OnContactInfoIn(s, e) \/ OnContactInfoReply(s, e)
  PROVE  Related(u, c)'
<1>1. <<>> \in Seq(Reports) /\ ToSet(<<>>) = {}
  BY EmptySet
<1>2. ASSUME Moves(s, e, <<>>, {})
      PROVE  UnderWay' \subseteq UnderWay /\ e \in UnderWay
  BY <1>1, <1>2, MovesAdd
<1>3. ASSUME Moves(s, e, <<>>, {}), e.ev = "EV_S_IN", e.to \in Users, e.from \in Users, e.from # e.to,
             Granted(e, e.to, e.from), RowIs(e.to, e.from, roster[e.to][e.from] \cup {"SUB_TO"})
      PROVE  Related(u, c)'
  <2>1. UnderWay' \subseteq UnderWay /\ e \in UnderWay
    BY <1>2, <1>3
  <2>2. CASE e.to = u /\ e.from = c
    <3>1. roster'[c][u] = roster[c][u]
      BY <1>3, <2>2 DEF RowIs
    <3> QED
      BY <1>3, <2>1, <2>2, <3>1, RelatedNow
  <2>3. CASE ~(e.to = u /\ e.from = c)
    <3>1. roster'[u][c] = roster[u][c]
      BY <1>3, <2>3 DEF RowIs
    <3>2. "SUB_FROM" \in roster[c][u] => "SUB_FROM" \in roster'[c][u]
      BY <1>3, SMTT(30) DEF RowIs
    <3> QED
      BY <2>1, <3>1, <3>2, RelatedSame
  <2> QED
    BY <2>2, <2>3
<1>4. ASSUME e \in Packets, e.cmd # "CMD_CHANGE_STATUS"
      PROVE  e.to \in Users /\ e.from \in Users /\ e.from # e.to
  BY <1>4, PacketFields DEF Sound
<1>5. CASE OnUserStatus(s, e)
  <2>1. Moves(s, e, <<>>, {}) /\ roster' = roster
    BY <1>5, DoUserStatus
  <2> QED
    BY <1>1, <2>1, RelatedQuiet
<1>6. CASE OnProbeStatus(s, e)
  <2> DEFINE P == IF Answering(s, e) THEN {OnlineTo(s, e.from, sess[s].status)} ELSE {}
  <2>1. Moves(s, e, <<>>, P) /\ roster' = roster
    BY <1>6, DoProbeStatus
  <2>2. \A f \in P : Idle(f)
    BY IdleNotices
  <2> HIDE DEF P
  <2> QED
    BY <1>1, <2>1, <2>2, RelatedQuiet
<1>7. CASE OnAddContactIn(s, e)
  <2> DEFINE N == {Answer(e)}
  <2>1. /\ Moves(s, e, <<>>, N) /\ roster' = roster
        /\ e \in Packets /\ e.cmd = "CMD_SRV_ADD_CONTACT"
    BY <1>7, DoAddContactIn
  <2>2. UnderWay' \subseteq UnderWay \cup N /\ e \in UnderWay
    BY <1>1, <2>1, MovesAdd
  <2>3. /\ Answer(e).ev = "EV_S_OUT" /\ Answer(e).cmd = "CMD_SRV_CONTACT_AUTH"
        /\ Answer(e).from = e.to /\ Answer(e).to = e.from
    BY DEF Answer, Out, Item
  <2>4. ~Withdraws(Answer(e), u, c) /\ ~Granted(Answer(e), u, c)
    BY <2>3 DEF Withdraws, Granted
  <2>5. Grants(Answer(e), u, c) => Grants(e, u, c)
    BY <2>1, <2>3 DEF Grants
  <2>6. \A g \in UnderWay : ~(Grants(Answer(e), u, c) /\ Withdraws(g, u, c))
    BY <2>2, <2>5 DEF Related
  <2>7. \A f \in N : ~Withdraws(f, u, c) /\ ~Granted(f, u, c)
    BY <2>4
  <2>8. \A f \in N, g \in UnderWay : ~(Grants(f, u, c) /\ Withdraws(g, u, c))
    BY <2>6
  <2> HIDE DEF N
  <2> QED
    BY <2>1, <2>2, <2>7, <2>8, RelatedMore
<1>8. CASE OnContactAuthIn(s, e)
  <2>1. /\ Moves(s, e, <<>>, {}) /\ e \in Packets /\ e.ev = "EV_S_IN"
        /\ e.cmd = "CMD_SRV_CONTACT_AUTH"
        /\ \/ roster' = roster
           \/ e.arg = "ACCEPT" /\ RowIs(e.to, e.from, roster[e.to][e.from] \cup {"SUB_TO"})
    BY <1>8, DoAuthIn
  <2>2. CASE roster' = roster
    BY <1>1, <2>1, <2>2, RelatedQuiet
  <2>3. CASE e.arg = "ACCEPT" /\ RowIs(e.to, e.from, roster[e.to][e.from] \cup {"SUB_TO"})
    <3>1. Granted(e, e.to, e.from)
      BY <2>1, <2>3 DEF Granted
    <3> QED
      BY <1>3, <1>4, <2>1, <2>3, <3>1
  <2> QED
    BY <2>1, <2>2, <2>3
<1>9. CASE OnDelContactIn(s, e)
  <2>1. /\ Moves(s, e, <<>>, {}) /\ e \in Packets /\ e.cmd = "CMD_SRV_DEL_CONTACT"
        /\ RowIs(e.to, e.from, roster[e.to][e.from] \ {"SUB_FROM"})
    BY <1>9, DoDelContactIn
  <2>2. UnderWay' \subseteq UnderWay /\ e \in UnderWay
    BY <1>2, <2>1
  <2>3. e.to \in Users /\ e.from \in Users
    BY <1>4, <2>1
  <2>4. CASE e.to = c /\ e.from = u
    <3>1. roster'[u][c] = roster[u][c]
      BY <2>1, <2>4 DEF RowIs
    <3>2. Withdraws(e, u, c)
      BY <2>1, <2>4 DEF Withdraws
    <3> QED
      BY <2>2, <3>1, <3>2, RelatedNoMore
  <2>5. CASE ~(e.to = c /\ e.from = u)
    <3>1. roster'[c][u] = roster[c][u]
      BY <2>1, <2>5 DEF RowIs
    <3>2. "SUB_TO" \in roster'[u][c] => "SUB_TO" \in roster[u][c]
      BY <2>1, <2>3, SMTT(30) DEF RowIs
    <3> QED
      BY <2>2, <3>1, <3>2, RelatedSame
  <2> QED
    BY <2>4, <2>5
<1>10. CASE OnMessageIn(s, e)
  <2>1. /\ Moves(s, e, <<>>, {}) /\ e \in Packets /\ e.ev = "EV_S_IN" /\ e.cmd = "CMD_SRV_MESSAGE"
        /\ IF s = 0 /\ e.arg = "AUTH_ACCEPT"
           THEN RowIs(e.to, e.from, roster[e.to][e.from] \cup {"SUB_TO"}) ELSE roster' = roster
    BY <1>10, DoMessageIn
  <2>2. CASE roster' = roster
    BY <1>1, <2>1, <2>2, RelatedQuiet
  <2>3. CASE e.arg = "AUTH_ACCEPT" /\ RowIs(e.to, e.from, roster[e.to][e.from] \cup {"SUB_TO"})
    <3>1. Granted(e, e.to, e.from)
      BY <2>1, <2>3 DEF Granted
    <3> QED
      BY <1>3, <1>4, <2>1, <2>3, <3>1
  <2> QED
    BY <2>1, <2>2, <2>3
<1>11. CASE OnContactInfoIn(s, e)
  <2>1. Moves(s, e, <<>>, {Reply(e)}) /\ roster' = roster
    BY <1>11, DoInfoIn
  <2>2. Reply(e).cmd = "CMD_SRV_CONTACT_INFO_REPLY"
    BY DEF Reply, In, Item
  <2>3. \A f \in {Reply(e)} : Idle(f)
    BY <2>2 DEF Idle, Grants, Withdraws
  <2> QED
    BY <1>1, <2>1, <2>3, RelatedQuiet
<1>12. CASE OnContactInfoReply(s, e)
  <2>1. Moves(s, e, <<>>, {}) /\ roster' = roster
    BY <1>12, DoInfoReply
  <2> QED
    BY <1>1, <2>1, RelatedQuiet
<1> QED
  BY <1>5, <1>6, <1>7, <1>8, <1>9, <1>10, <1>11, <1>12

\* Every handler keeps the rows of users who are in order related.
LEMMA RosterHandles ==
  ASSUME Base, RosterInv, NEW s, NEW e, Handles(s, e)
  PROVE  RosterInv'
<1>1. SUFFICES ASSUME NEW u \in Users, NEW c \in Users, InOrder(u)', InOrder(c)'
               PROVE  Related(u, c)'
  BY DEF RosterInv
<1>2. /\ InOrder(u) /\ InOrder(c) /\ Base'
      /\ Strays(s, e) => u # Owner(e) /\ c # Owner(e)
  BY <1>1, HandlesOrder
<1>3. Related(u, c)
  BY <1>2 DEF RosterInv
<1>4. CASE u = c
  <2>1. Base' => Related(u, u)'
    BY RelatedSelf, PTL
  <2> QED
    BY <1>2, <1>4, <2>1 DEF Related
<1>5. CASE u # c
  <2>1. CASE s \in DOMAIN queue /\ SessionStep(s, e)
    BY <1>2, <1>3, <1>5, <2>1, RelatedSession, RelatedCommand DEF SessionStep
  <2>2. CASE s \in {0} \cup DOMAIN queue /\ EventStep(s, e)
    BY <1>2, <1>3, <1>5, <2>2, RelatedOut, RelatedIn DEF EventStep
  <2> QED
    BY <2>1, <2>2 DEF Handles
<1> QED
  BY <1>4, <1>5

Calm ==
  /\ roster' = roster /\ \A u \in Users : InOrder(u)' => InOrder(u)
  /\ \E x : Idle(x) /\ UnderWay' \subseteq UnderWay \cup {x}

\* What is under way afterwards, from what each place holds.
LEMMA UnderWayIs ==
  ASSUME Base, NEW N, DOMAIN queue' = DOMAIN queue,
         \A i \in DOMAIN queue : ToSet(queue'[i]) \subseteq UnderWay \cup N,
         BagToSet(loose') \subseteq UnderWay \cup N, ToSet(smIn') \subseteq UnderWay \cup N,
         ToSet(smOut') \subseteq UnderWay \cup N
  PROVE  UnderWay' \subseteq UnderWay \cup N
<1> DEFINE Q == UNION {ToSet(queue'[i]) : i \in DOMAIN queue'}
<1>1. UnderWay' = Q \cup BagToSet(loose') \cup ToSet(smIn') \cup ToSet(smOut')
  BY DEF UnderWay
<1>2. Q \subseteq UnderWay \cup N
  BY Zenon
<1> HIDE DEF Q
<1> QED
  BY <1>1, <1>2

\* The beginning of a session is calm.
LEMMA CalmBegins ==
  ASSUME Base, Base', NEW u \in Users, NEW status \in Statuses, NEW n, Begins(u, status, n)
  PROVE  Calm
<1>1. /\ n = Len(sess) + 1 /\ Len(sess) \in Nat /\ DOMAIN queue = 1 .. Len(sess)
      /\ Len(queue) = Len(sess)
  BY Shapes DEF Begins
<1>2. DOMAIN queue' = 1 .. n
  BY DEF Begins
<1>3. DOMAIN queue' = DOMAIN queue \cup {n} /\ n \notin DOMAIN queue
  BY <1>1, <1>2
<1> DEFINE x == BeginMark(u, status)
<1>4. x \in Marks
  BY MarksTyped
<1>5. Idle(x)
  BY <1>4, ReportIdle
<1>6. ToSet(queue'[n]) = {x}
  BY <1>4, OneSet DEF Begins
<1>7. \A i \in DOMAIN queue : queue'[i] = queue[i]
  BY DEF Begins
<1> HIDE DEF x
<1>8. UnderWay' \subseteq UnderWay \cup {x}
  <2> DEFINE Q == UNION {ToSet(queue'[i]) : i \in DOMAIN queue'}
  <2>1. UnderWay' = Q \cup BagToSet(loose) \cup ToSet(smIn) \cup ToSet(smOut)
    BY DEF UnderWay, Begins
  <2>2. BagToSet(loose) = DOMAIN loose
    BY DEF BagToSet
  <2>3. \A i \in DOMAIN queue' : ToSet(queue'[i]) \subseteq UnderWay \cup {x}
    BY <1>3, <1>6, <1>7, UnderWayTyped
  <2>4. Q \subseteq UnderWay \cup {x}
    BY <2>3, Zenon
  <2> HIDE DEF Q
  <2> QED
    BY <2>1, <2>2, <2>4, UnderWayTyped
<1>9. Len(sess) <= Len(sess') /\ astray \subseteq astray' /\ \A i \in DOMAIN sess : sess'[i].user = sess[i].user
  BY <1>1 DEF Begins
<1>10. \A v \in Users : InOrder(v)' => InOrder(v)
  BY <1>9, OrderBefore
<1> QED
  BY <1>5, <1>8, <1>10 DEF Calm, Begins

\* A command or a mark that joins a queue is calm.
LEMMA CalmComes ==
  ASSUME Base, Base', NEW i, NEW x \in Packets \cup Marks, Comes(i, x), Idle(x)
  PROVE  Calm
<1>1. \A j \in DOMAIN queue : ToSet(queue'[j]) \subseteq UnderWay \cup {x}
  BY ComesTyped, UnderWayTyped
<1>2. DOMAIN queue' = DOMAIN queue /\ sess' = sess
  BY ComesTyped
<1>3. BagToSet(loose') = DOMAIN loose /\ smIn' = smIn /\ smOut' = smOut /\ astray' = astray
  BY DEF Comes, BagToSet
<1>4. UnderWay' \subseteq UnderWay \cup {x}
  BY <1>1, <1>2, <1>3, UnderWayTyped, UnderWayIs
<1>5. \A u \in Users : InOrder(u)' => InOrder(u)
  BY <1>2, <1>3, Shapes, OrderBefore
<1> QED
  BY <1>4, <1>5 DEF Calm, Comes

\* A packet read by sm leaves the table alone and adds nothing to what is under
\* way.
LEMMA CalmReads ==
  ASSUME Base, Base', NEW e, Reads(e)
  PROVE  roster' = roster /\ UnderWay' \subseteq UnderWay /\ \A u \in Users : InOrder(u)' => InOrder(u)
<1> DEFINE S == Incoming \cup Reports
<1>1. smIn \in Seq(S) /\ smIn # <<>> /\ e = Head(smIn) /\ smIn' = Tail(smIn) /\ smOut \in Seq(Incoming)
  BY DEF Base, Typed, Reads
<1>2. UnderWay' \subseteq UnderWay
  <2> HIDE DEF S
  <2>1. ToSet(smIn') \subseteq UnderWay /\ e \in UnderWay
    BY <1>1, TailSeq, UnderWayTyped
  <2>2. ToSet(smOut') \subseteq UnderWay
    <3>1. CASE e.ev # "EV_S_IN" /\ SmRegister(e)
      BY <3>1, UnderWayTyped DEF SmRegister
    <3>2. CASE e \in Incoming /\ smOut' = smOut
      BY <3>2, UnderWayTyped
    <3>3. CASE e \in Incoming /\ smOut' = Append(smOut, e)
      BY <1>1, <2>1, <3>3, AppendSeq, UnderWayTyped
    <3> QED
      BY <3>1, <3>2, <3>3 DEF Reads
  <2>3. DOMAIN queue' = DOMAIN queue /\ \A i \in DOMAIN queue : ToSet(queue'[i]) \subseteq UnderWay
    BY UnderWayTyped DEF Reads
  <2>4. BagToSet(loose') = DOMAIN loose
    BY DEF BagToSet, Reads
  <2> DEFINE N == {}
  <2>5. \A i \in DOMAIN queue : ToSet(queue'[i]) \subseteq UnderWay \cup N
    BY <2>3
  <2>6. UnderWay' \subseteq UnderWay \cup N
    BY <2>1, <2>2, <2>3, <2>4, <2>5, UnderWayTyped, UnderWayIs
  <2> QED
    BY <2>6
<1>3. \A u \in Users : InOrder(u)' => InOrder(u)
  BY Shapes, OrderBefore DEF Reads
<1> QED
  BY <1>2, <1>3 DEF Reads

\* A packet from sm leaves the table alone and adds nothing to what is under
\* way.
LEMMA CalmArrives ==
  ASSUME Base, Base', NEW e, Arrives(e)
  PROVE  roster' = roster /\ UnderWay' \subseteq UnderWay /\ \A u \in Users : InOrder(u)' => InOrder(u)
<1>1. smOut \in Seq(Incoming) /\ smOut # <<>> /\ e = Head(smOut) /\ smOut' = Tail(smOut)
  BY DEF Base, Typed, Arrives
<1>2. ToSet(smOut') \subseteq UnderWay /\ e \in UnderWay
  BY <1>1, TailSeq, UnderWayTyped
<1>3. DOMAIN queue' = DOMAIN queue
  BY Shapes DEF Arrives
<1>4. ASSUME NEW i \in DOMAIN queue
      PROVE  ToSet(queue'[i]) \subseteq UnderWay
  <2> DEFINE S == Packets \cup Marks
  <2>1. PICK h \in Seq(Packets) : queue'[i] = Rest(i, 0) \o h
                                  /\ ToSet(h) = {p \in {e} : hash[Owner(p)] = i}
    BY <1>4 DEF Arrives
  <2>2. i # 0
    BY <1>4, Shapes
  <2>3. Rest(i, 0) = queue[i] /\ queue[i] \in Seq(S) /\ h \in Seq(S)
    BY <1>4, <2>2, Shapes, ElementsSeq DEF Rest
  <2> HIDE DEF S
  <2>4. ToSet(queue'[i]) = ToSet(queue[i]) \cup ToSet(h)
    BY <2>1, <2>3, JoinedSeq
  <2> QED
    BY <1>2, <1>4, <2>1, <2>4, UnderWayTyped
<1>5. BagToSet(loose') \subseteq UnderWay
  BY <1>2, UnderWayTyped DEF Arrives, BagToSet
<1> DEFINE N == {}
<1>6. \A i \in DOMAIN queue : ToSet(queue'[i]) \subseteq UnderWay \cup N
  BY <1>4
<1>7. smIn' = smIn
  BY DEF Arrives
<1>8. UnderWay' \subseteq UnderWay \cup N
  BY <1>2, <1>3, <1>5, <1>6, <1>7, UnderWayTyped, UnderWayIs
<1>9. \A u \in Users : InOrder(u)' => InOrder(u)
  BY Shapes, OrderBefore DEF Arrives
<1> QED
  BY <1>8, <1>9 DEF Arrives

\* An overtaking leaves the table and what is under way alone.
LEMMA CalmOvertakes ==
  ASSUME Base, Base', NEW s, NEW k, Overtakes(s, k)
  PROVE  /\ roster' = roster /\ UnderWay' \subseteq UnderWay
         /\ \A u \in Users : InOrder(u)' => InOrder(u)
         /\ DOMAIN queue' = DOMAIN queue
         /\ \A i \in DOMAIN queue : ToSet(queue'[i]) = ToSet(queue[i])
<1>1. /\ s \in DOMAIN queue /\ sess' = sess /\ astray \subseteq astray' /\ roster' = roster
      /\ loose' = loose /\ smIn' = smIn /\ smOut' = smOut
  BY DEF Overtakes
<1>2. DOMAIN queue' = DOMAIN queue
  BY Shapes DEF Overtakes, Swapped
<1>3. \A i \in DOMAIN queue : ToSet(queue'[i]) = ToSet(queue[i])
  BY DEF Overtakes, Swapped
<1>4. BagToSet(loose') = DOMAIN loose
  BY <1>1 DEF BagToSet
<1> DEFINE N == {}
<1>5. UnderWay' \subseteq UnderWay \cup N
  BY <1>1, <1>2, <1>3, <1>4, UnderWayTyped, UnderWayIs
<1>6. \A u \in Users : InOrder(u)' => InOrder(u)
  BY <1>1, Shapes, OrderBefore
<1> QED
  BY <1>1, <1>2, <1>3, <1>5, <1>6

\* A calm step keeps the rows related.
LEMMA RosterCalm ==
  ASSUME RosterInv, Calm
  PROVE  RosterInv'
<1>1. SUFFICES ASSUME NEW u \in Users, NEW c \in Users, InOrder(u)', InOrder(c)'
               PROVE  Related(u, c)'
  BY DEF RosterInv
<1>2. Related(u, c)
  BY <1>1 DEF RosterInv, Calm
<1>3. PICK x : Idle(x) /\ UnderWay' \subseteq UnderWay \cup {x}
  BY DEF Calm
<1>4. \A f \in {x} : ~Grants(f, u, c) /\ ~Withdraws(f, u, c) /\ ~Granted(f, u, c)
  BY <1>3, GrantedGrants DEF Idle
<1> DEFINE N == {x}
<1> HIDE DEF N
<1>5. UnderWay' \subseteq UnderWay \cup N /\ \A f \in N : ~Grants(f, u, c) /\ ~Withdraws(f, u, c) /\ ~Granted(f, u, c)
  BY <1>3, <1>4 DEF N
<1> QED
  BY <1>2, <1>5, RelatedMore DEF Calm

\* A step that adds nothing to what is under way keeps the rows related.
LEMMA RosterStill ==
  ASSUME RosterInv, roster' = roster, UnderWay' \subseteq UnderWay,
         \A u \in Users : InOrder(u)' => InOrder(u)
  PROVE  RosterInv'
<1>1. SUFFICES ASSUME NEW u \in Users, NEW c \in Users, InOrder(u)', InOrder(c)'
               PROVE  Related(u, c)'
  BY DEF RosterInv
<1>2. Related(u, c)
  BY <1>1 DEF RosterInv
<1> QED
  BY <1>2, RelatedSame

\* Every step keeps the rows of users who are in order related.
LEMMA RosterSteps ==
  ASSUME Base, Base', RosterInv, Stepped
  PROVE  RosterInv'
<1>1. CASE \E u \in Users, status \in Statuses : \E n : Begins(u, status, n)
  BY <1>1, CalmBegins, RosterCalm
<1>2. CASE \E u \in Users : Leaves(u)
  <2>1. PICK u \in Users : Leaves(u)
    BY <1>2
  <2>2. EndMark(u) \in Marks
    BY DEF EndMark, Item, Marks, Args
  <2>3. Idle(EndMark(u)) /\ Comes(hash[u], EndMark(u))
    BY <2>1, <2>2, ReportIdle DEF Leaves
  <2> QED
    BY <2>2, <2>3, CalmComes, RosterCalm
<1>3. CASE \E u \in Users : \E e : Enters(u, e)
  <2>0. PICK u \in Users : \E e : Enters(u, e)
    BY <1>3
  <2>1. PICK e : Enters(u, e)
    BY <2>0
  <2>2. e \in Packets /\ e.cmd \in Clicked /\ e.ev = "EV_S_OUT" /\ Comes(hash[u], e)
    BY <2>1 DEF Enters
  <2>3. Idle(e)
    BY <2>2 DEF Clicked, Idle, Grants, Withdraws
  <2> QED
    BY <2>2, <2>3, CalmComes, RosterCalm
<1>4. CASE \E s \in DOMAIN queue : Sweeps(s)
  <2>1. PICK s \in DOMAIN queue : Sweeps(s)
    BY <1>4
  <2>2. UnderWay' = UnderWay
    BY <2>1 DEF Sweeps, UnderWay
  <2>3. Len(sess') = Len(sess) /\ \A i \in DOMAIN sess : sess'[i].user = sess[i].user
    BY <2>1 DEF Sweeps
  <2>4. astray' = astray /\ roster' = roster
    BY <2>1 DEF Sweeps
  <2>5. \A u \in Users : InOrder(u)' => InOrder(u)
    BY <2>3, <2>4, Shapes, OrderBefore
  <2> QED
    BY <2>2, <2>4, <2>5, RosterStill
<1>5. CASE \E s, e : Handles(s, e)
  BY <1>5, RosterHandles
<1>6. CASE \E e : Reads(e)
  BY <1>6, CalmReads, RosterStill
<1>7. CASE \E e : Arrives(e)
  BY <1>7, CalmArrives, RosterStill
<1>71. CASE \E s, k : Overtakes(s, k)
  BY <1>71, CalmOvertakes, RosterStill
<1>8. CASE UNCHANGED messengerVars
  <2>1. UnderWay' = UnderWay /\ roster' = roster
    BY <1>8 DEF messengerVars, tables, streams, UnderWay
  <2>2. \A u \in Users : InOrder(u)' => InOrder(u)
    BY <1>8 DEF messengerVars, InOrder, SessionsOf
  <2> QED
    BY <2>1, <2>2, RosterStill
<1> QED
  BY <1>1, <1>2, <1>3, <1>4, <1>5, <1>6, <1>7, <1>71, <1>8 DEF Stepped

\* Nothing is under way at first.
LEMMA UnderWayInit == MessengerInit => UnderWay = {}
<1> SUFFICES ASSUME MessengerInit PROVE UnderWay = {}
  OBVIOUS
<1>1. queue = <<>> /\ loose = EmptyBag /\ smIn = <<>> /\ smOut = <<>>
  BY DEF MessengerInit
<1>2. BagToSet(loose) = {}
  BY <1>1 DEF BagToSet, EmptyBag, SetToBag
<1>3. ToSet(smIn) = {} /\ ToSet(smOut) = {} /\ DOMAIN queue = {}
  BY <1>1, EmptySet
<1> QED
  BY <1>2, <1>3 DEF UnderWay

\* The rows are related initially.
LEMMA RosterFirst == MessengerInit => RosterInv
<1> SUFFICES ASSUME MessengerInit, NEW u \in Users, NEW c \in Users PROVE Related(u, c)
  BY DEF RosterInv
<1>1. PICK to \in SUBSET {p \in Users \X Users : p[1] # p[2]} :
       roster = [v \in Users |-> [x \in Users |->
                  {s \in Sub : \/ <<v, x>> \in to /\ s = "SUB_TO"
                               \/ <<x, v>> \in to /\ s = "SUB_FROM"}]]
  BY DEF MessengerInit
<1>2. roster[u][c] = {s \in Sub : \/ <<u, c>> \in to /\ s = "SUB_TO"
                                  \/ <<c, u>> \in to /\ s = "SUB_FROM"}
  BY <1>1
<1>3. roster[c][u] = {s \in Sub : \/ <<c, u>> \in to /\ s = "SUB_TO"
                                  \/ <<u, c>> \in to /\ s = "SUB_FROM"}
  BY <1>1
<1>4. "SUB_TO" \in roster[u][c] => "SUB_FROM" \in roster[c][u]
  BY <1>2, <1>3 DEF Sub
<1> QED
  BY <1>4, UnderWayInit DEF Related

\* Whoever is on a user's list has that user among those he tells.
THEOREM WatchedAlwaysKnows == MessengerSpec => []WatchedKnows
<1>1. MessengerInit => Base /\ RosterInv
  BY BaseInit, RosterFirst
<1>2. Base /\ RosterInv /\ [MessengerNext]_messengerVars => Base' /\ RosterInv'
  BY Steps, RosterSteps
<1>3. RosterInv => WatchedKnows
  BY DEF RosterInv, Related, WatchedKnows
<1> QED
  BY <1>1, <1>2, <1>3, PTL DEF MessengerSpec

Subscribers(c) == {u \in Users : "SUB_FROM" \in roster[c][u]}

\* Session s tells the subscribers of its user c.
Tells(s, c) ==
  /\ sess[s].notifySet \subseteq Subscribers(c)
  /\ sess[s].shown => sess[s].notifySet = Subscribers(c) /\ sess[s].status # "INVIS"

NotifyInv ==
  \A c \in Users, i \in Nat \ {0} :
    hash[c] = i /\ InOrder(c) /\ ~Starting(i) => Tells(i, c)

\* A user who is in order has one session at most.
LEMMA OneSession ==
  ASSUME Base, NEW c \in Users, InOrder(c), NEW i \in SessionsOf(c), NEW j \in SessionsOf(c)
  PROVE  i = j
<1>1. SUFFICES ASSUME i # j PROVE FALSE
  OBVIOUS
<1>2. Cardinality({i}) = 1 /\ IsFiniteSet({i})
  BY FS_Singleton
<1>3. Cardinality({i} \cup {j}) = 2
  <2> DEFINE T == {i}
  <2>1. j \notin T
    BY <1>1
  <2>2. Cardinality(T) = 1 /\ IsFiniteSet(T)
    BY <1>2
  <2> HIDE DEF T
  <2>3. Cardinality(T \cup {j}) = Cardinality(T) + 1
    BY <2>1, <2>2, FS_AddElement
  <2> QED
    BY <2>2, <2>3 DEF T
<1>4. Cardinality({i} \cup {j}) <= Cardinality(SessionsOf(c))
  BY SessionsFinite
<1>5. Cardinality(SessionsOf(c)) \in Nat
  BY SessionsFinite
<1> QED
  BY <1>3, <1>4, <1>5 DEF InOrder

\* A session begins with EV_SESSION unless something has overtaken it.
LEMMA StartingFirst ==
  ASSUME Base, NEW i \in DOMAIN queue, Starting(i), sess[i].user \notin astray
  PROVE  /\ queue[i] # <<>> /\ queue[i][1].ev = "EV_SESSION" /\ Head(queue[i]) = queue[i][1]
         /\ 1 \in DOMAIN queue[i]
<1>1. queue[i] \in Seq(Packets \cup Marks)
  BY Shapes
<1>2. PICK k \in DOMAIN queue[i] : queue[i][k].ev = "EV_SESSION"
  BY DEF Starting
<1>3. k = 1
  BY <1>2 DEF Base, SessionsInv, QueueInv, InLine
<1> QED
  BY <1>1, <1>2, <1>3

\* Whether a session is to begin, by what its queue holds.
LEMMA StartingSet ==
  ASSUME NEW i
  PROVE  /\ Starting(i) <=> \E x \in ToSet(queue[i]) : x.ev = "EV_SESSION"
         /\ Starting(i)' <=> \E x \in ToSet(queue'[i]) : x.ev = "EV_SESSION"
  BY DEF Starting, ToSet

\* A session begins when its EV_SESSION is handled.
LEMMA StartingBefore ==
  ASSUME Base, NEW s, NEW e, NEW req, NEW P, Moves(s, e, req, P), NEW i \in DOMAIN queue,
         Starting(i), ~Starting(i)'
  PROVE  i = s /\ e.ev = "EV_SESSION"
<1> DEFINE S == Packets \cup Marks
<1>1. PICK h \in Seq(Packets) : queue'[i] = Rest(i, s) \o h
  BY DEF Moves
<1>2. h \in Seq(S) /\ queue[i] \in Seq(S)
  BY ElementsSeq, Shapes
<1>3. PICK x \in ToSet(queue[i]) : x.ev = "EV_SESSION"
  BY StartingSet
<1>4. x \notin ToSet(queue'[i])
  BY <1>3, StartingSet
<1> HIDE DEF S
<1>5. CASE i # s
  <2>1. queue'[i] = queue[i] \o h
    BY <1>1, <1>5 DEF Rest
  <2> QED
    BY <1>2, <1>3, <1>4, <2>1, JoinedSeq
<1>6. CASE i = s
  <2>1. s # 0
    BY <1>6, Shapes
  <2>2. queue[i] # <<>> /\ e = Head(queue[i]) /\ queue'[i] = Tail(queue[i]) \o h
    BY <1>1, <1>6, <2>1 DEF Moves, Rest
  <2>3. Tail(queue[i]) \in Seq(S) /\ ToSet(queue[i]) = {Head(queue[i])} \cup ToSet(Tail(queue[i]))
    BY <1>2, <2>2, TailSeq
  <2> DEFINE t == Tail(queue[i])
  <2>4. t \in Seq(S) /\ queue'[i] = t \o h
    BY <2>2, <2>3
  <2> HIDE DEF t
  <2>5. ToSet(queue'[i]) = ToSet(t) \cup ToSet(h)
    BY <1>2, <2>4, JoinedSeq
  <2>6. x \notin ToSet(t)
    BY <1>4, <2>5
  <2> QED
    BY <1>3, <1>6, <2>2, <2>3, <2>6 DEF t
<1> QED
  BY <1>5, <1>6

\* A handler that leaves the sessions' sets and the subscriptions as they are.
LEMMA TellsStill ==
  ASSUME NEW s, NEW c, Tells(s, c), Subscribers(c)' = Subscribers(c),
         sess'[s].notifySet = sess[s].notifySet, sess'[s].shown = sess[s].shown,
         sess'[s].status = sess[s].status
  PROVE  Tells(s, c)'
  BY DEF Tells

\* A row that keeps SUB_FROM keeps the subscribers.
LEMMA SameSubscribers ==
  ASSUME NEW x \in Users, NEW y \in Users, NEW c \in Users, roster \in [Users -> [Users -> SUBSET Sub]],
         \/ roster' = roster
         \/ \E X : RowIs(x, y, X) /\ (c = x => ("SUB_FROM" \in X <=> "SUB_FROM" \in roster[x][y]))
  PROVE  Subscribers(c)' = Subscribers(c)
<1>1. CASE roster' = roster
  BY <1>1 DEF Subscribers
<1>2. CASE \E X : RowIs(x, y, X) /\ (c = x => ("SUB_FROM" \in X <=> "SUB_FROM" \in roster[x][y]))
  <2>1. PICK X : RowIs(x, y, X) /\ (c = x => ("SUB_FROM" \in X <=> "SUB_FROM" \in roster[x][y]))
    BY <1>2
  <2>2. \A u \in Users : "SUB_FROM" \in roster'[c][u] <=> "SUB_FROM" \in roster[c][u]
    <3> TAKE u \in Users
    <3>1. CASE c = x /\ u = y
      BY <2>1, <3>1 DEF RowIs
    <3>2. CASE ~(c = x /\ u = y)
      BY <2>1, <3>2 DEF RowIs
    <3> QED
      BY <3>1, <3>2
  <2> QED
    BY <2>2 DEF Subscribers
<1> QED
  BY <1>1, <1>2

\* A row that gains or loses SUB_FROM.
LEMMA SubscribersRow ==
  ASSUME NEW x \in Users, NEW y \in Users, NEW X, RowIs(x, y, X)
  PROVE  /\ "SUB_FROM" \in X => Subscribers(x)' = Subscribers(x) \cup {y}
         /\ "SUB_FROM" \notin X => Subscribers(x)' = Subscribers(x) \ {y}
<1>1. \A u \in Users : "SUB_FROM" \in roster'[x][u] <=> IF u = y THEN "SUB_FROM" \in X
                                                           ELSE "SUB_FROM" \in roster[x][u]
  BY DEF RowIs
<1> QED
  BY <1>1 DEF Subscribers

\* A session begins by telling its subscribers.
LEMMA TellsSession ==
  ASSUME Base, NEW s \in DOMAIN queue, NEW e, NEW c \in Users, c = sess[s].user,
         OnSession(s, e)
  PROVE  Tells(s, c)'
<1>2. /\ sess'[s].notifySet = Told(s, e) /\ sess'[s].shown = sess[s].shown
      /\ sess'[s].status = sess[s].status
  BY ActsSession
<1>3. roster' = roster
  BY DEF OnSession, tables
<1>4. e.arg = sess[s].status /\ e.ev = "EV_SESSION"
  BY DoSession DEF OnSession
<1>5. s # 0 /\ queue[s] \in Seq(Packets \cup Marks)
  BY Shapes
<1>6. queue[s] # <<>> /\ e = Head(queue[s])
  BY <1>5 DEF OnSession, Handle
<1>7. 1 \in DOMAIN queue[s] /\ queue[s][1] = e
  BY <1>5, <1>6
<1>8. sess[s].shown = (sess[s].status # "INVIS")
  BY <1>4, <1>7 DEF Base, SessionsInv, QueueInv
<1>9. Subscribers(c)' = Subscribers(c)
  BY <1>3 DEF Subscribers
<1>10. Told(s, e) \subseteq Subscribers(c) /\ (e.arg # "INVIS" => Told(s, e) = Subscribers(c))
  BY DEF Told, Subscribers
<1> QED
  BY <1>2, <1>4, <1>8, <1>9, <1>10 DEF Tells

\* Commands keep notifySet and the subscribers together.
LEMMA TellsCommand ==
  ASSUME Base, NEW s \in DOMAIN queue, NEW e, NEW c \in Users, c = sess[s].user, Tells(s, c),
         OnChangeStatus(s, e) \/ OnRequest(s, e) \/ OnDelContact(s, e) \/ OnMessage(s, e)
  PROVE  Tells(s, c)'
<1>r. roster \in [Users -> [Users -> SUBSET Sub]]
  BY DEF Base, Typed
<1>s. s \in DOMAIN sess /\ s # 0
  BY Shapes
<1>1. s \in DOMAIN sess /\ sess[s] \in Session /\ roster \in [Users -> [Users -> SUBSET Sub]]
  BY <1>r, <1>s, SessionFields
<1>2. CASE OnChangeStatus(s, e)
  <2>1. sess' = [sess EXCEPT ![s].status = e.arg, ![s].shown = @ /\ e.arg # "INVIS"]
    BY <1>2 DEF OnChangeStatus
  <2>2. /\ sess'[s].notifySet = sess[s].notifySet /\ sess'[s].status = e.arg
        /\ sess'[s].shown => sess[s].shown /\ e.arg # "INVIS"
    BY <1>1, <2>1, Shapes DEF Session
  <2>3. Subscribers(c)' = Subscribers(c)
    BY <1>2 DEF OnChangeStatus, tables, Subscribers
  <2> QED
    BY <2>2, <2>3 DEF Tells
<1>3. CASE OnRequest(s, e)
  <2>1. sess' = sess /\ roster' = roster
    BY <1>3, DoRequest
  <2> QED
    BY <2>1 DEF Tells, Subscribers
<1>4. CASE OnDelContact(s, e)
  <2>1. /\ sess' = sess /\ RowIs(e.from, e.to, roster[e.from][e.to] \ {"SUB_TO"})
        /\ e \in Packets
    BY <1>4, DoDelContact
  <2>2. e.from \in Users /\ e.to \in Users
    BY <2>1, PacketFields
  <2> DEFINE X == roster[e.from][e.to] \ {"SUB_TO"}
  <2>3. "SUB_FROM" \in X <=> "SUB_FROM" \in roster[e.from][e.to]
    OBVIOUS
  <2>4. RowIs(e.from, e.to, X)
    BY <2>1
  <2> HIDE DEF X
  <2>5. Subscribers(c)' = Subscribers(c)
    BY <1>1, <2>2, <2>3, <2>4, SameSubscribers
  <2> QED
    BY <2>1, <2>5, TellsStill
<1>5. CASE OnMessage(s, e)
  <2>1. sess' = sess /\ roster' = roster
    BY <1>5, DoMessage
  <2> QED
    BY <2>1 DEF Tells, Subscribers
<1> QED
  BY <1>2, <1>3, <1>4, <1>5

\* Packets for or from a user keep notifySet and the subscribers together.
LEMMA TellsEvent ==
  ASSUME Base, NEW s \in DOMAIN queue, NEW e, NEW c \in Users, c = sess[s].user, Tells(s, c),
         Owner(e) = c, Attended(s), EventStep(s, e)
  PROVE  Tells(s, c)'
<1>r. roster \in [Users -> [Users -> SUBSET Sub]]
  BY DEF Base, Typed
<1>s. s \in DOMAIN sess /\ s # 0
  BY Shapes
<1>1. /\ s \in DOMAIN sess /\ sess[s] \in Session /\ roster \in [Users -> [Users -> SUBSET Sub]]
      /\ s # 0 /\ sess[s].notifySet \subseteq Users
  BY <1>r, <1>s, SessionFields
<1>2. CASE OnContactAuthOut(s, e)
  <2>1. /\ e \in Packets /\ e.ev = "EV_S_OUT"
        /\ IF e.arg = "ACCEPT"
           THEN RowIs(e.from, e.to, roster[e.from][e.to] \cup {"SUB_FROM"}) ELSE roster' = roster
        /\ IF e.arg = "ACCEPT" /\ Sees(s)
           THEN Turned(s, [sess[s] EXCEPT !.notifySet = sess[s].notifySet \cup {e.to}])
           ELSE sess' = sess
    BY <1>2, DoAuthOut
  <2>2. e.from = c /\ e.to \in Users
    BY <2>1, PacketFields DEF Owner
  <2>3. CASE e.arg = "ACCEPT"
    <3>1. RowIs(c, e.to, roster[c][e.to] \cup {"SUB_FROM"})
      BY <2>1, <2>2, <2>3
    <3> DEFINE X == roster[c][e.to] \cup {"SUB_FROM"}
    <3>2. "SUB_FROM" \in X /\ RowIs(c, e.to, X)
      BY <3>1
    <3> HIDE DEF X
    <3>3. Subscribers(c)' = Subscribers(c) \cup {e.to}
      BY <2>2, <3>2, SubscribersRow
    <3>4. CASE Sees(s)
      <4>1. sess'[s] = [sess[s] EXCEPT !.notifySet = sess[s].notifySet \cup {e.to}]
        BY <2>1, <2>3, <3>4 DEF Turned
      <4>2. /\ sess'[s].notifySet = sess[s].notifySet \cup {e.to}
            /\ sess'[s].shown = sess[s].shown /\ sess'[s].status = sess[s].status
        BY <1>1, <4>1 DEF Session
      <4> QED
        BY <3>3, <4>2 DEF Tells
    <3>5. CASE ~Sees(s)
      <4>1. sess' = sess /\ sess[s].status = "INVIS"
        BY <1>1, <2>1, <3>5 DEF Sees
      <4> QED
        BY <3>3, <4>1 DEF Tells
    <3> QED
      BY <3>4, <3>5
  <2>4. CASE e.arg # "ACCEPT"
    <3>1. sess' = sess /\ roster' = roster
      BY <2>1, <2>4
    <3> QED
      BY <3>1 DEF Tells, Subscribers
  <2> QED
    BY <2>3, <2>4
<1>3. CASE OnMessageOut(s, e)
  <2>1. /\ e \in Packets /\ e.ev = "EV_S_OUT"
        /\ IF Accepts(s, e)
           THEN /\ RowIs(e.from, e.to, roster[e.from][e.to] \cup {"SUB_FROM"})
                /\ Turned(s, [sess[s] EXCEPT !.notifySet = sess[s].notifySet \cup {e.to}])
           ELSE roster' = roster /\ sess' = sess
    <3>1. /\ e \in Packets /\ e.ev = "EV_S_OUT"
          /\ IF Accepts(s, e)
             THEN /\ RowIs(e.from, e.to, roster[e.from][e.to] \cup {"SUB_FROM"})
                  /\ IF Attended(s)
                     THEN Turned(s, [sess[s] EXCEPT !.notifySet = sess[s].notifySet \cup {e.to}])
                     ELSE sess' = sess
             ELSE roster' = roster /\ sess' = sess
      BY <1>3, DoMessageOut
    <3> QED
      BY <3>1
  <2>2. e.from = c /\ e.to \in Users
    BY <2>1, PacketFields DEF Owner
  <2>3. CASE Accepts(s, e)
    <3> DEFINE X == roster[c][e.to] \cup {"SUB_FROM"}
    <3>1. "SUB_FROM" \in X /\ RowIs(c, e.to, X)
      BY <2>1, <2>2, <2>3
    <3> HIDE DEF X
    <3>2. Subscribers(c)' = Subscribers(c) \cup {e.to}
      BY <2>2, <3>1, SubscribersRow
    <3>3. sess'[s] = [sess[s] EXCEPT !.notifySet = sess[s].notifySet \cup {e.to}]
      BY <2>1, <2>3 DEF Turned
    <3>4. /\ sess'[s].notifySet = sess[s].notifySet \cup {e.to}
          /\ sess'[s].shown = sess[s].shown /\ sess'[s].status = sess[s].status
      BY <1>1, <3>3 DEF Session
    <3> QED
      BY <3>2, <3>4 DEF Tells
  <2>4. CASE ~Accepts(s, e)
    <3>1. sess' = sess /\ roster' = roster
      BY <2>1, <2>4
    <3> QED
      BY <3>1 DEF Tells, Subscribers
  <2> QED
    BY <2>3, <2>4
<1>4. CASE OnUserStatus(s, e)
  <2>1. /\ roster' = roster /\ sess'[s].notifySet = sess[s].notifySet
        /\ sess'[s].status = sess[s].status /\ sess'[s].shown = sess[s].shown
    BY <1>1, <1>4, DoUserStatus
  <2>2. Subscribers(c)' = Subscribers(c)
    BY <2>1 DEF Subscribers
  <2> QED
    BY <2>1, <2>2, TellsStill
<1>5. CASE OnProbeStatus(s, e)
  <2>1. sess' = sess /\ roster' = roster
    BY <1>5, DoProbeStatus
  <2> QED
    BY <2>1 DEF Tells, Subscribers
<1>6. CASE OnAddContactIn(s, e)
  <2>1. sess' = sess /\ roster' = roster
    BY <1>6, DoAddContactIn
  <2> QED
    BY <2>1 DEF Tells, Subscribers
<1>7. ASSUME e \in Packets, sess' = sess,
             roster' = roster \/ RowIs(e.to, e.from, roster[e.to][e.from] \cup {"SUB_TO"})
      PROVE  Tells(s, c)'
  <2>1. e.from \in Users /\ e.to \in Users
    BY <1>7, PacketFields
  <2> DEFINE X == roster[e.to][e.from] \cup {"SUB_TO"}
  <2>2. "SUB_FROM" \in X <=> "SUB_FROM" \in roster[e.to][e.from]
    OBVIOUS
  <2>3. roster' = roster \/ RowIs(e.to, e.from, X)
    BY <1>7
  <2> HIDE DEF X
  <2>4. Subscribers(c)' = Subscribers(c)
    BY <1>1, <2>1, <2>2, <2>3, SameSubscribers
  <2> QED
    BY <1>7, <2>4, TellsStill
<1>8. CASE OnContactAuthIn(s, e)
  <2>1. /\ e \in Packets /\ sess' = sess
        /\ roster' = roster \/ RowIs(e.to, e.from, roster[e.to][e.from] \cup {"SUB_TO"})
    BY <1>8, DoAuthIn
  <2> QED
    BY <1>7, <2>1
<1>9. CASE OnDelContactIn(s, e)
  <2>1. /\ e \in Packets /\ e.ev = "EV_S_IN"
        /\ RowIs(e.to, e.from, roster[e.to][e.from] \ {"SUB_FROM"})
        /\ Turned(s, [sess[s] EXCEPT !.notifySet = sess[s].notifySet \ {e.from}])
    BY <1>1, <1>9, DoDelContactIn
  <2>2. e.to = c /\ e.from \in Users
    BY <2>1, PacketFields DEF Owner
  <2> DEFINE X == roster[c][e.from] \ {"SUB_FROM"}
  <2>3. "SUB_FROM" \notin X /\ RowIs(c, e.from, X)
    BY <2>1, <2>2
  <2> HIDE DEF X
  <2>4. Subscribers(c)' = Subscribers(c) \ {e.from}
    BY <2>2, <2>3, SubscribersRow
  <2>5. sess'[s] = [sess[s] EXCEPT !.notifySet = sess[s].notifySet \ {e.from}]
    BY <2>1 DEF Turned
  <2>6. /\ sess'[s].notifySet = sess[s].notifySet \ {e.from}
        /\ sess'[s].shown = sess[s].shown /\ sess'[s].status = sess[s].status
    BY <1>1, <2>5 DEF Session
  <2> QED
    BY <2>4, <2>6 DEF Tells
<1>10. CASE OnMessageIn(s, e)
  <2>1. e \in Packets /\ sess' = sess
        /\ (roster' = roster \/ RowIs(e.to, e.from, roster[e.to][e.from] \cup {"SUB_TO"}))
    BY <1>10, DoMessageIn
  <2> QED
    BY <1>7, <2>1
<1>11. CASE OnContactInfoIn(s, e)
  <2>1. sess' = sess /\ roster' = roster
    BY <1>11, DoInfoIn
  <2> QED
    BY <2>1 DEF Tells, Subscribers
<1>12. CASE OnContactInfoReply(s, e)
  <2>1. sess' = sess /\ roster' = roster
    BY <1>12, DoInfoReply
  <2> QED
    BY <2>1 DEF Tells, Subscribers
<1> QED
  BY <1>2, <1>3, <1>4, <1>5, <1>6, <1>8, <1>9, <1>10, <1>11, <1>12 DEF EventStep

\* A handler of a user who is in order and in the hash has his session, which is there.
LEMMA HandlesOwn ==
  ASSUME Base, NEW s, NEW e, Handles(s, e), NEW c \in Users, hash[c] # 0, InOrder(c)'
  PROVE  /\ s = hash[c] <=> Owner(e) = c
         /\ hash' = hash /\ hash[c] \in DOMAIN sess /\ sess[hash[c]].user = c
         /\ hash[c] \in DOMAIN queue /\ InOrder(c)
<1>1. PICK req, P : Moves(s, e, req, P) /\ req \in Seq(Reports)
  BY BaseHandles
<1>2. hash' = hash /\ s \in {0} \cup DOMAIN queue
  BY <1>1 DEF Moves
<1>3. hash[c] \in DOMAIN sess /\ sess[hash[c]].user = c /\ hash[c] \in DOMAIN queue
  BY Shapes
<1>4. InOrder(c) /\ (Strays(s, e) => c # Owner(e))
  BY HandlesOrder
<1>5. ASSUME s # 0
      PROVE  s \in DOMAIN sess /\ Owner(e) = sess[s].user
  <2>1. s \in DOMAIN queue /\ queue[s] # <<>> /\ e = Head(queue[s])
    BY <1>1, <1>2, <1>5 DEF Moves
  <2> QED
    BY <2>1, AtWork
<1>6. ASSUME Owner(e) = c
      PROVE  s = hash[c]
  <2>1. s # 0
    BY <1>4, <1>6 DEF Strays
  <2>2. s \in SessionsOf(c) /\ hash[c] \in SessionsOf(c)
    BY <1>3, <1>5, <1>6, <2>1 DEF SessionsOf
  <2> QED
    BY <1>4, <2>2, OneSession
<1>7. s = hash[c] => Owner(e) = c
  BY <1>3, <1>5
<1> QED
  BY <1>2, <1>3, <1>4, <1>6, <1>7

\* Every handler keeps notifySet and the subscribers together.
LEMMA NotifyHandles ==
  ASSUME Base, NotifyInv, NEW s, NEW e, Handles(s, e)
  PROVE  NotifyInv'
<1>1. SUFFICES ASSUME NEW c \in Users, NEW i \in Nat \ {0}, hash'[c] = i, InOrder(c)', ~Starting(i)'
               PROVE  Tells(i, c)'
  BY DEF NotifyInv
<1>2. PICK req, P : Moves(s, e, req, P) /\ req \in Seq(Reports)
  BY BaseHandles
<1>3. hash[c] = i
  BY <1>1, <1>2 DEF Moves
<1>4. /\ s = i <=> Owner(e) = c
      /\ i \in DOMAIN sess /\ sess[i].user = c /\ i \in DOMAIN queue /\ InOrder(c)
  <2>1. hash[c] # 0
    BY <1>3
  <2> QED
    BY <1>1, <1>3, <2>1, HandlesOwn
<1>5. Starting(i) => i = s /\ e.ev = "EV_SESSION"
  BY <1>1, <1>2, <1>4, StartingBefore
<1>6. ~Starting(i) => Tells(i, c)
  BY <1>3, <1>4 DEF NotifyInv
<1>7. Acts(s, e)
  BY BaseHandles
<1>8. CASE s # i
  <2>1. Tells(i, c) /\ Owner(e) # c
    BY <1>4, <1>5, <1>6, <1>8
  <2>2. sess'[i] = sess[i] /\ roster'[c] = roster[c]
    BY <1>4, <1>7, <1>8, <2>1 DEF Acts
  <2>3. Subscribers(c)' = Subscribers(c)
    BY <2>2 DEF Subscribers
  <2> QED
    BY <2>1, <2>2, <2>3, TellsStill
<1>9. CASE s = i
  <2>1. s \in DOMAIN queue /\ c = sess[s].user /\ Owner(e) = c /\ s # 0
    BY <1>4, <1>9
  <2>2. e.ev # "EV_SESSION" => Tells(s, c)
    BY <1>5, <1>6, <1>9
  <2> SUFFICES Tells(s, c)'
    BY <1>9
  <2>3. CASE OnSession(s, e)
    BY <2>1, <2>3, TellsSession
  <2>4. CASE OnSessionEnd(s, e)
    <3>1. queue[s] \in Seq(Packets \cup Marks) /\ queue[s] # <<>> /\ e = Head(queue[s]) /\ e.ev = "EV_S_END"
      BY <2>1, <2>4, Shapes DEF OnSessionEnd, Handle
    <3>2. 1 \in DOMAIN queue[s] /\ queue[s][1] = e
      BY <3>1
    <3>3. hash[sess[s].user] # s
      BY <2>1, <3>1, <3>2 DEF Base, SessionsInv, QueueInv
    <3> QED
      BY <1>3, <1>9, <2>1, <3>3
  <2>5. CASE OnChangeStatus(s, e) \/ OnRequest(s, e) \/ OnDelContact(s, e) \/ OnMessage(s, e)
    <3>1. e.ev # "EV_SESSION"
      BY <2>5 DEF OnChangeStatus, OnRequest, OnDelContact, OnMessage
    <3> QED
      BY <2>1, <2>2, <2>5, <3>1, TellsCommand
  <2>6. CASE EventStep(s, e)
    <3>1. e.ev # "EV_SESSION"
      BY <2>6 DEF EventStep, OnContactAuthOut, OnMessageOut, OnUserStatus, OnProbeStatus,
                  OnAddContactIn, OnContactAuthIn, OnDelContactIn, OnMessageIn,
                  OnContactInfoIn, OnContactInfoReply
    <3>2. Attended(s)
      BY <1>5, <1>9, <2>1, <3>1 DEF Attended, Starting
    <3> QED
      BY <2>1, <2>2, <2>6, <3>1, <3>2, TellsEvent
  <2> QED
    BY <2>3, <2>4, <2>5, <2>6 DEF Handles, SessionStep
<1> QED
  BY <1>8, <1>9

\* A step that changes neither the sessions nor their sets, nor makes a session begin.
LEMMA NotifyStill ==
  ASSUME NotifyInv, roster' = roster, \A u \in Users : InOrder(u)' => InOrder(u),
         \A c \in Users, i \in Nat \ {0} : hash'[c] = i /\ ~Starting(i)' =>
             /\ hash[c] = i /\ ~Starting(i)
             /\ sess'[i].notifySet = sess[i].notifySet
             /\ sess'[i].shown = sess[i].shown
             /\ sess'[i].status = sess[i].status
  PROVE  NotifyInv'
<1> SUFFICES ASSUME NEW c \in Users, NEW i \in Nat \ {0}, hash'[c] = i, InOrder(c)', ~Starting(i)'
             PROVE  Tells(i, c)'
  BY DEF NotifyInv
<1>1. Tells(i, c)
  BY DEF NotifyInv
<1>2. Subscribers(c)' = Subscribers(c)
  BY DEF Subscribers
<1> QED
  BY <1>1, <1>2, TellsStill

\* Every step keeps notifySet and the subscribers together.
LEMMA NotifySteps ==
  ASSUME Base, Base', NotifyInv, Stepped
  PROVE  NotifyInv'
<1>1. ASSUME NEW u \in Users, NEW status \in Statuses, NEW n, Begins(u, status, n)
      PROVE  NotifyInv'
  <2>1. roster' = roster /\ \A v \in Users : InOrder(v)' => InOrder(v)
    BY <1>1, CalmBegins DEF Calm
  <2>2. SUFFICES ASSUME NEW c \in Users, NEW i \in Nat \ {0}, hash'[c] = i, ~Starting(i)'
                 PROVE  /\ hash[c] = i /\ ~Starting(i)
                        /\ sess'[i].notifySet = sess[i].notifySet
                        /\ sess'[i].shown = sess[i].shown /\ sess'[i].status = sess[i].status
    BY <2>1, NotifyStill
  <2>3. i # n
    <3>1. queue'[n] = <<BeginMark(u, status)>> /\ BeginMark(u, status).ev = "EV_SESSION"
      BY <1>1, MarksTyped DEF Begins
    <3>2. Starting(n)'
      BY <3>1 DEF Starting
    <3> QED
      BY <2>2, <3>2 DEF Starting
  <2>4. hash[c] = i
    BY <1>1, <2>2, <2>3, Shapes DEF Begins
  <2>5. i \in DOMAIN sess /\ i \in DOMAIN queue
    BY <2>4, Shapes
  <2>6. sess'[i] = sess[i] /\ queue'[i] = queue[i]
    BY <1>1, <2>5 DEF Begins
  <2> QED
    BY <2>2, <2>4, <2>6 DEF Starting
<1>2. ASSUME NEW j, NEW x \in Packets \cup Marks, Comes(j, x), Idle(x),
             \A c \in Users : hash'[c] # 0 => hash'[c] = hash[c]
      PROVE  NotifyInv'
  <2>1. roster' = roster /\ \A v \in Users : InOrder(v)' => InOrder(v)
    BY <1>2, CalmComes DEF Calm
  <2>2. SUFFICES ASSUME NEW c \in Users, NEW i \in Nat \ {0}, hash'[c] = i, ~Starting(i)'
                 PROVE  hash[c] = i /\ ~Starting(i) /\ sess' = sess
    BY <2>1, NotifyStill
  <2>3. hash[c] = i
    BY <1>2, <2>2
  <2>4. i \in DOMAIN queue
    BY <2>3, Shapes
  <2>5. CASE i # j
    <3>1. queue'[i] = queue[i] /\ sess' = sess
      BY <1>2, <2>4, <2>5, ComesTyped
    <3> QED
      BY <2>2, <2>3, <3>1 DEF Starting
  <2>6. CASE i = j
    <3> DEFINE S == Packets \cup Marks
    <3>1. queue'[i] = Append(queue[i], x) /\ sess' = sess
      BY <1>2, <2>6, ComesTyped
    <3>2. queue[i] \in Seq(S)
      BY <2>4, Shapes
    <3> HIDE DEF S
    <3>3. /\ Len(queue[i]) \in Nat /\ DOMAIN queue[i] = 1 .. Len(queue[i])
          /\ DOMAIN Append(queue[i], x) = 1 .. Len(queue[i]) + 1
          /\ \A k \in 1 .. Len(queue[i]) : Append(queue[i], x)[k] = queue[i][k]
      BY <1>2, <3>2, AppendSeq DEF S
    <3>4. \A k \in DOMAIN queue[i] : k \in DOMAIN queue'[i] /\ queue'[i][k] = queue[i][k]
      BY <3>1, <3>3
    <3>5. ~Starting(i)
      BY <2>2, <3>4 DEF Starting
    <3> QED
      BY <2>3, <3>1, <3>5
  <2> QED
    BY <2>5, <2>6
<1>3. ASSUME NEW u \in Users, Leaves(u)
      PROVE  NotifyInv'
  <2>1. EndMark(u) \in Marks
    BY DEF EndMark, Item, Marks, Args
  <2>2. Idle(EndMark(u)) /\ Comes(hash[u], EndMark(u))
    BY <1>3, <2>1, ReportIdle DEF Leaves
  <2>3. \A c \in Users : hash'[c] # 0 => hash'[c] = hash[c]
    BY <1>3, Shapes DEF Leaves
  <2> QED
    BY <1>2, <2>1, <2>2, <2>3
<1>4. ASSUME NEW u \in Users, NEW e, Enters(u, e)
      PROVE  NotifyInv'
  <2>1. e \in Packets /\ e.cmd \in Clicked /\ e.ev = "EV_S_OUT" /\ Comes(hash[u], e) /\ hash' = hash
    BY <1>4 DEF Enters
  <2>2. Idle(e)
    BY <2>1 DEF Clicked, Idle, Grants, Withdraws
  <2> QED
    BY <1>2, <2>1, <2>2
<1>5. ASSUME NEW s \in DOMAIN queue, Sweeps(s)
      PROVE  NotifyInv'
  <2>1. Len(sess') = Len(sess) /\ \A i \in DOMAIN sess : sess'[i].user = sess[i].user
    BY <1>5 DEF Sweeps
  <2>2. astray' = astray /\ roster' = roster /\ queue' = queue /\ hash' = hash
    BY <1>5 DEF Sweeps
  <2>3. \A u \in Users : InOrder(u)' => InOrder(u)
    BY <2>1, <2>2, Shapes, OrderBefore
  <2>4. SUFFICES ASSUME NEW c \in Users, NEW i \in Nat \ {0}, hash'[c] = i, ~Starting(i)'
                 PROVE  /\ hash[c] = i /\ ~Starting(i)
                        /\ sess'[i].notifySet = sess[i].notifySet
                        /\ sess'[i].shown = sess[i].shown /\ sess'[i].status = sess[i].status
    BY <2>2, <2>3, NotifyStill
  <2>5. hash[c] = i
    BY <2>2, <2>4
  <2>6. i \in DOMAIN sess
    BY <2>5, Shapes
  <2> QED
    BY <1>5, <2>2, <2>4, <2>5, <2>6 DEF Sweeps, Starting
<1>6. ASSUME NEW e, Reads(e)
      PROVE  NotifyInv'
  <2>1. roster' = roster /\ \A v \in Users : InOrder(v)' => InOrder(v)
    BY <1>6, CalmReads
  <2>2. hash' = hash /\ sess' = sess /\ queue' = queue
    BY <1>6 DEF Reads
  <2> QED
    BY <2>1, <2>2, NotifyStill DEF Starting
<1>7. ASSUME NEW e, Arrives(e)
      PROVE  NotifyInv'
  <2>1. roster' = roster /\ \A v \in Users : InOrder(v)' => InOrder(v)
    BY <1>7, CalmArrives
  <2>2. hash' = hash /\ sess' = sess
    BY <1>7 DEF Arrives
  <2>3. SUFFICES ASSUME NEW c \in Users, NEW i \in Nat \ {0}, hash'[c] = i, ~Starting(i)', Starting(i)
                 PROVE  FALSE
    BY <2>1, <2>2, NotifyStill
  <2>4. i \in DOMAIN queue
    BY <2>2, <2>3, Shapes
  <2> DEFINE S == Packets \cup Marks
  <2>5. PICK h \in Seq(Packets) : queue'[i] = Rest(i, 0) \o h
    BY <1>7, <2>4 DEF Arrives
  <2>6. Rest(i, 0) = queue[i] /\ h \in Seq(S) /\ queue[i] \in Seq(S)
    BY <2>4, ElementsSeq, Shapes DEF Rest
  <2> HIDE DEF S
  <2>7. ToSet(queue[i]) \subseteq ToSet(queue'[i])
    BY <2>5, <2>6, JoinedSeq
  <2> QED
    BY <2>3, <2>7, StartingSet
<1>71. ASSUME NEW s, NEW k, Overtakes(s, k)
       PROVE  NotifyInv'
  <2>1. roster' = roster /\ \A v \in Users : InOrder(v)' => InOrder(v)
    BY <1>71, CalmOvertakes
  <2>2. hash' = hash /\ sess' = sess
    BY <1>71 DEF Overtakes
  <2>3. SUFFICES ASSUME NEW c \in Users, NEW i \in Nat \ {0}, hash'[c] = i, ~Starting(i)', Starting(i)
                 PROVE  FALSE
    BY <2>1, <2>2, NotifyStill
  <2>4. i \in DOMAIN queue
    BY <2>2, <2>3, Shapes
  <2>5. ToSet(queue'[i]) = ToSet(queue[i])
    BY <1>71, <2>4, CalmOvertakes
  <2> QED
    BY <2>3, <2>5, StartingSet
<1>8. CASE UNCHANGED messengerVars
  <2>1. /\ roster' = roster /\ hash' = hash /\ sess' = sess /\ queue' = queue /\ astray' = astray
    BY <1>8 DEF messengerVars, tables, streams
  <2>2. \A u \in Users : InOrder(u)' => InOrder(u)
    BY <2>1 DEF InOrder, SessionsOf
  <2> QED
    BY <2>1, <2>2, NotifyStill DEF Starting
<1>9. CASE \E s, e : Handles(s, e)
  BY <1>9, NotifyHandles
<1> QED
  BY <1>1, <1>3, <1>4, <1>5, <1>6, <1>7, <1>71, <1>8, <1>9 DEF Stepped

\* Initially nobody is logged in.
LEMMA NotifyFirst == MessengerInit => NotifyInv
  BY DEF MessengerInit, NotifyInv

\* Presence tells the subscribers, and only them.
THEOREM NotifiesAllSubscribers == MessengerSpec => []NotifiesSubscribers
<1>1. MessengerInit => Base /\ NotifyInv
  BY BaseInit, NotifyFirst
<1>2. Base /\ NotifyInv /\ [MessengerNext]_messengerVars => Base' /\ NotifyInv'
  BY Steps, NotifySteps
<1>3. Base /\ NotifyInv => NotifiesSubscribers
  <2> SUFFICES ASSUME Base, NotifyInv, NEW c \in Users, hash[c] # 0, InOrder(c),
                      ~Starting(hash[c])
               PROVE  Tells(hash[c], c)
    BY DEF NotifiesSubscribers, Tells, Subscribers, Starting
  <2>1. hash[c] \in Nat \ {0}
    BY Shapes
  <2> QED
    BY <2>1 DEF NotifyInv
<1> QED
  BY <1>1, <1>2, <1>3, PTL DEF MessengerSpec

\* Session i is in the hash, or its end is still to be handled.
Present(i) ==
  hash[sess[i].user] = i \/ \E k \in DOMAIN queue[i] : queue[i][k].ev = "EV_S_END"
Live(u) == {i \in DOMAIN sess : sess[i].user = u /\ ~Starting(i) /\ Present(i)}

\* The end of a session is not handled before its beginning.
EndsLater == \A i \in DOMAIN sess : Starting(i) => Present(i)

SmInv == EndsLater /\ \A u \in Users : Tally(smIn, u, Known(u), Cardinality(Live(u)))

\* Whether a session is present, by what its queue holds.
LEMMA PresentSet ==
  ASSUME NEW i
  PROVE  /\ Present(i) <=> \/ hash[sess[i].user] = i
                           \/ \E x \in ToSet(queue[i]) : x.ev = "EV_S_END"
         /\ Present(i)' <=> \/ hash'[sess'[i].user] = i
                            \/ \E x \in ToSet(queue'[i]) : x.ev = "EV_S_END"
  BY DEF Present, ToSet

\* Whether a session begins, ends or is there, after a step that appends packets to its queue.
LEMMA PresentGrows ==
  ASSUME Base, NEW i \in DOMAIN queue, NEW h \in Seq(Packets), queue'[i] = queue[i] \o h,
         hash' = hash, sess'[i].user = sess[i].user
  PROVE  (Present(i)' <=> Present(i)) /\ (Starting(i)' <=> Starting(i))
<1> DEFINE S == Packets \cup Marks
<1>1. queue[i] \in Seq(S) /\ h \in Seq(S)
  BY Shapes, ElementsSeq
<1>2. \A x \in ToSet(h) : x.ev \notin {"EV_SESSION", "EV_S_END"}
  BY ElementsSeq, PacketFields
<1> HIDE DEF S
<1>3. ToSet(queue'[i]) = ToSet(queue[i]) \cup ToSet(h)
  BY <1>1, JoinedSeq
<1> QED
  BY <1>2, <1>3, PresentSet, StartingSet

\* Sessions stay live if neither their beginning nor their end is handled.
LEMMA LiveSame ==
  ASSUME DOMAIN sess' = DOMAIN sess,
         \A i \in DOMAIN sess : /\ sess'[i].user = sess[i].user
                                /\ Starting(i)' <=> Starting(i)
                                /\ Present(i)' <=> Present(i)
  PROVE  (\A u : Live(u)' = Live(u)) /\ (EndsLater => EndsLater')
  BY DEF Live, EndsLater

\* The live sessions of a user are finitely many.
LEMMA LiveFinite ==
  ASSUME Base, NEW u
  PROVE  IsFiniteSet(Live(u)) /\ Cardinality(Live(u)) \in Nat
<1>1. Live(u) \subseteq 1 .. Len(sess) /\ Len(sess) \in Nat
  BY Shapes DEF Live
<1>2. IsFiniteSet(1 .. Len(sess))
  BY <1>1, FS_Interval
<1> QED
  BY <1>1, <1>2, FS_Subset, FS_CardinalityType

\* The queue of session s once it has taken its head.
LEMMA TailTaken ==
  ASSUME Base, NEW s \in DOMAIN queue, queue[s] # <<>>, NEW h \in Seq(Packets),
         queue'[s] = Tail(queue[s]) \o h, hash' = hash, sess'[s].user = sess[s].user
  PROVE  /\ Head(queue[s]).ev # "EV_SESSION" => (Starting(s)' <=> Starting(s))
         /\ Head(queue[s]).ev = "EV_SESSION" => Starting(s) /\ ~Starting(s)'
         /\ Head(queue[s]).ev # "EV_S_END" => (Present(s)' <=> Present(s))
         /\ Head(queue[s]).ev = "EV_S_END" => Present(s) /\ ~Present(s)'
<1> DEFINE S == Packets \cup Marks
           q == queue[s]
           t == Tail(q)
<1>1. q \in Seq(S) /\ h \in Seq(S)
  BY Shapes, ElementsSeq
<1>2. \A x \in ToSet(h) : x.ev \notin {"EV_SESSION", "EV_S_END"}
  BY ElementsSeq, PacketFields
<1>3. QueueInv(s)
  BY DEF Base, SessionsInv
<1>4. q # <<>> /\ queue'[s] = t \o h
  OBVIOUS
<1> HIDE DEF S, q
<1>5. /\ Head(q) = q[1] /\ Len(q) \in Nat \ {0} /\ Len(t) = Len(q) - 1 /\ t \in Seq(S)
      /\ DOMAIN t = 1 .. Len(q) - 1
      /\ \A k \in 1 .. Len(q) - 1 : t[k] = q[k + 1]
      /\ ToSet(q) = {Head(q)} \cup ToSet(t)
  BY <1>1, <1>4, TailSeq
<1>6. DOMAIN q = 1 .. Len(q) /\ 1 \in DOMAIN q /\ \A k \in 1 .. Len(q) - 1 : k + 1 \in 2 .. Len(q)
  BY <1>1, <1>5
<1>7. \A x \in ToSet(t) : \E k \in 2 .. Len(q) : x = q[k]
  <2> SUFFICES ASSUME NEW k \in DOMAIN t PROVE \E m \in 2 .. Len(q) : t[k] = q[m]
    BY DEF ToSet
  <2> QED
    BY <1>5, <1>6
<1>8. \A k \in DOMAIN q : q[k] \in S
  BY <1>1
<1>9. \A k \in DOMAIN q : Posted(q[k]) => q[k].ev \notin {"EV_SESSION", "EV_S_END"}
  BY <1>8, PostedPacket DEF S
<1>10. Head(q).ev = "EV_SESSION" => \A x \in ToSet(t) : x.ev # "EV_SESSION"
  <2> SUFFICES ASSUME Head(q).ev = "EV_SESSION", NEW k \in 2 .. Len(q), q[k].ev = "EV_SESSION"
               PROVE  FALSE
    BY <1>7
  <2>1. k \in DOMAIN q /\ 1 \in 1 .. k - 1
    BY <1>5, <1>6
  <2>2. Posted(q[1])
    BY <1>3, <2>1 DEF QueueInv, q
  <2> QED
    BY <1>5, <1>6, <1>9, <2>2
<1>11. Head(q).ev = "EV_S_END" => hash[sess[s].user] # s /\ \A x \in ToSet(t) : x.ev # "EV_S_END"
  <2> SUFFICES ASSUME Head(q).ev = "EV_S_END"
               PROVE  hash[sess[s].user] # s /\ \A k \in 2 .. Len(q) : q[k].ev # "EV_S_END"
    BY <1>7
  <2>1. hash[sess[s].user] # s /\ \A j \in 2 .. Len(q) : Posted(q[j])
    BY <1>3, <1>5, <1>6 DEF QueueInv, q
  <2>2. \A j \in 2 .. Len(q) : j \in DOMAIN q
    BY <1>5, <1>6
  <2> QED
    BY <1>9, <2>1, <2>2
<1> HIDE DEF t
<1>12. ToSet(queue'[s]) = ToSet(t) \cup ToSet(h)
  <2>1. t \in Seq(S) /\ h \in Seq(S)
    BY <1>1, <1>5
  <2>2. ToSet(t \o h) = ToSet(t) \cup ToSet(h)
    BY <2>1, JoinedSeq
  <2> QED
    BY <1>4, <2>2
<1>13. /\ Starting(s) <=> \E x \in ToSet(q) : x.ev = "EV_SESSION"
       /\ Present(s) <=> hash[sess[s].user] = s \/ \E x \in ToSet(q) : x.ev = "EV_S_END"
  BY PresentSet, StartingSet DEF q
<1>14. /\ Starting(s)' <=> \E x \in ToSet(t) : x.ev = "EV_SESSION"
       /\ Present(s)' <=> hash[sess[s].user] = s \/ \E x \in ToSet(t) : x.ev = "EV_S_END"
  BY <1>2, <1>12, PresentSet, StartingSet
<1>15. /\ Head(q).ev # "EV_SESSION" => (Starting(s)' <=> Starting(s))
       /\ Head(q).ev = "EV_SESSION" => Starting(s) /\ ~Starting(s)'
  BY <1>5, <1>10, <1>13, <1>14
<1>16. /\ Head(q).ev # "EV_S_END" => (Present(s)' <=> Present(s))
       /\ Head(q).ev = "EV_S_END" => Present(s) /\ ~Present(s)'
  BY <1>5, <1>11, <1>13, <1>14
<1> QED
  BY <1>15, <1>16 DEF q

\* The end of a session is not the first event of one that is to begin.
LEMMA EndNotFirst ==
  ASSUME Base, NEW s \in DOMAIN queue, queue[s] # <<>>, Head(queue[s]).ev = "EV_S_END"
  PROVE  ~Starting(s)
<1>1. queue[s] \in Seq(Packets \cup Marks)
  BY Shapes
<1>2. 1 \in DOMAIN queue[s] /\ queue[s][1].ev = "EV_S_END"
  BY <1>1
<1> SUFFICES ASSUME NEW k \in DOMAIN queue[s], queue[s][k].ev = "EV_SESSION" PROVE FALSE
  BY DEF Starting
<1>3. 1 \in 1 .. k - 1
  BY <1>1, <1>2
<1>4. Posted(queue[s][1])
  BY <1>3 DEF Base, SessionsInv, QueueInv
<1>5. queue[s][1] \in Packets \cup Marks
  BY <1>1, <1>2
<1> QED
  BY <1>2, <1>4, <1>5, PostedPacket

\* What a handler does to the sessions that are live.
LEMMA LiveMoves ==
  ASSUME Base, NEW s, NEW e, NEW req, NEW P, Moves(s, e, req, P), Acts(s, e)
  PROVE  /\ DOMAIN sess' = DOMAIN sess /\ \A i \in DOMAIN sess : sess'[i].user = sess[i].user
         /\ \A i \in DOMAIN sess : i # s => /\ Starting(i)' <=> Starting(i)
                                            /\ Present(i)' <=> Present(i)
         /\ s # 0 => /\ s \in DOMAIN sess
                     /\ e.ev # "EV_SESSION" => (Starting(s)' <=> Starting(s))
                     /\ e.ev = "EV_SESSION" => Starting(s) /\ ~Starting(s)'
                     /\ e.ev # "EV_S_END" => (Present(s)' <=> Present(s))
                     /\ e.ev = "EV_S_END" => ~Starting(s) /\ Present(s) /\ ~Present(s)'
<1>1. DOMAIN sess' = DOMAIN sess
  <2>1. DOMAIN sess = 1 .. Len(sess)
    BY Shapes
  <2>2. DOMAIN sess' = 1 .. Len(sess')
    BY DEF Acts
  <2> QED
    BY <2>1, <2>2 DEF Acts
<1>2. \A i \in DOMAIN sess : sess'[i].user = sess[i].user
  BY DEF Acts
<1>3. ASSUME NEW i \in DOMAIN queue
      PROVE  \E h \in Seq(Packets) : queue'[i] = Rest(i, s) \o h
  BY <1>3 DEF Moves
<1>4. DOMAIN queue = DOMAIN sess /\ hash' = hash
  BY Shapes DEF Moves
<1>5. ASSUME NEW i \in DOMAIN sess, i # s
      PROVE  (Starting(i)' <=> Starting(i)) /\ (Present(i)' <=> Present(i))
  <2>1. PICK h \in Seq(Packets) : queue'[i] = Rest(i, s) \o h
    BY <1>3, <1>4, <1>5
  <2>2. queue'[i] = queue[i] \o h
    BY <1>5, <2>1 DEF Rest
  <2> QED
    BY <1>2, <1>4, <1>5, <2>1, <2>2, PresentGrows
<1>6. ASSUME s # 0
      PROVE  /\ s \in DOMAIN sess
             /\ e.ev # "EV_SESSION" => (Starting(s)' <=> Starting(s))
             /\ e.ev = "EV_SESSION" => Starting(s) /\ ~Starting(s)'
             /\ e.ev # "EV_S_END" => (Present(s)' <=> Present(s))
             /\ e.ev = "EV_S_END" => ~Starting(s) /\ Present(s) /\ ~Present(s)'
  <2>1. s \in DOMAIN queue /\ queue[s] # <<>> /\ e = Head(queue[s])
    BY <1>6 DEF Moves
  <2>2. PICK h \in Seq(Packets) : queue'[s] = Rest(s, s) \o h
    BY <1>3, <2>1
  <2>3. queue'[s] = Tail(queue[s]) \o h /\ sess'[s].user = sess[s].user
    BY <1>2, <1>4, <2>1, <2>2 DEF Rest
  <2>4. /\ e.ev # "EV_SESSION" => (Starting(s)' <=> Starting(s))
        /\ e.ev = "EV_SESSION" => Starting(s) /\ ~Starting(s)'
        /\ e.ev # "EV_S_END" => (Present(s)' <=> Present(s))
        /\ e.ev = "EV_S_END" => Present(s) /\ ~Present(s)'
    BY <1>4, <2>1, <2>2, <2>3, TailTaken
  <2> QED
    BY <1>4, <2>1, <2>4, EndNotFirst
<1> QED
  BY <1>1, <1>2, <1>5, <1>6

\* No handler ends a session before its beginning.
LEMMA EndsHandles ==
  ASSUME EndsLater, Base, NEW s, NEW e, Handles(s, e)
  PROVE  EndsLater'
<1>1. PICK req, P : Moves(s, e, req, P) /\ req \in Seq(Reports)
  BY BaseHandles
<1>2. Acts(s, e)
  BY BaseHandles
<1>3. DOMAIN sess' = DOMAIN sess
  BY <1>1, <1>2, LiveMoves
<1> SUFFICES ASSUME NEW i \in DOMAIN sess, Starting(i)' PROVE Present(i)'
  BY <1>3 DEF EndsLater
<1>4. CASE i # s
  BY <1>1, <1>2, <1>4, LiveMoves DEF EndsLater
<1>5. CASE i = s
  <2>1. s # 0
    BY <1>5, Shapes
  <2>2. e.ev # "EV_SESSION" /\ Starting(s)
    BY <1>1, <1>2, <1>5, <2>1, LiveMoves
  <2>3. e.ev # "EV_S_END"
    BY <1>1, <1>2, <1>5, <2>1, <2>2, LiveMoves
  <2> QED
    BY <1>1, <1>2, <1>5, <2>1, <2>2, <2>3, LiveMoves DEF EndsLater
<1> QED
  BY <1>4, <1>5

\* How many there are then.
LEMMA LiveCount ==
  ASSUME EndsLater, Base, NEW s, NEW e, NEW req, NEW P, Moves(s, e, req, P), Acts(s, e), NEW u \in Users,
         s = 0 => e.ev \notin {"EV_SESSION", "EV_S_END"}
  PROVE  /\ Cardinality(Live(u)') \in Nat
         /\ Cardinality(Live(u)') =
              IF e.ev \notin {"EV_SESSION", "EV_S_END"} \/ sess[s].user # u THEN Cardinality(Live(u))
              ELSE IF e.ev = "EV_SESSION" THEN Cardinality(Live(u)) + 1 ELSE Cardinality(Live(u)) - 1
<1>1. IsFiniteSet(Live(u)) /\ Cardinality(Live(u)) \in Nat
  BY LiveFinite
<1>2. CASE e.ev \notin {"EV_SESSION", "EV_S_END"} \/ sess[s].user # u
  <2>1. \A i \in DOMAIN sess : sess[i].user = u =>
          /\ Starting(i)' <=> Starting(i)
          /\ Present(i)' <=> Present(i)
    <3> SUFFICES ASSUME NEW i \in DOMAIN sess, sess[i].user = u
                 PROVE  (Starting(i)' <=> Starting(i)) /\ (Present(i)' <=> Present(i))
      OBVIOUS
    <3>1. CASE i # s
      BY <3>1, LiveMoves
    <3>2. CASE i = s
      <4>1. s # 0 /\ e.ev \notin {"EV_SESSION", "EV_S_END"}
        BY <1>2, <3>2, Shapes
      <4> QED
        BY <3>2, <4>1, LiveMoves
    <3> QED
      BY <3>1, <3>2
  <2>2. Live(u)' = Live(u)
    BY <2>1, LiveMoves DEF Live
  <2> QED
    BY <1>1, <1>2, <2>2
<1>3. CASE e.ev = "EV_SESSION" /\ sess[s].user = u
  <2>1. s # 0
    BY <1>3
  <2>2. Live(u)' = Live(u) \cup {s} /\ s \notin Live(u)
    <3>1. s \in DOMAIN sess /\ Starting(s) /\ ~Starting(s)' /\ (Present(s)' <=> Present(s))
      BY <1>3, <2>1, LiveMoves
    <3>2. Present(s)'
      BY <3>1 DEF EndsLater
    <3>3. /\ DOMAIN sess' = DOMAIN sess /\ \A i \in DOMAIN sess : sess'[i].user = sess[i].user
          /\ \A i \in DOMAIN sess : i # s => /\ Starting(i)' <=> Starting(i)
                                             /\ Present(i)' <=> Present(i)
      BY LiveMoves
    <3> QED
      BY <1>3, <3>1, <3>2, <3>3 DEF Live
  <2>3. Cardinality(Live(u) \cup {s}) = Cardinality(Live(u)) + 1
    BY <1>1, <2>2, FS_AddElement
  <2> QED
    BY <1>1, <1>3, <2>2, <2>3
<1>4. CASE e.ev = "EV_S_END" /\ sess[s].user = u
  <2>1. s # 0
    BY <1>4
  <2>2. Live(u)' = Live(u) \ {s} /\ s \in Live(u)
    BY <1>4, <2>1, LiveMoves DEF Live
  <2>3. Cardinality(Live(u) \ {s}) = Cardinality(Live(u)) - 1 /\ IsFiniteSet(Live(u) \ {s})
    BY <1>1, <2>2, FS_RemoveElement
  <2>4. Cardinality(Live(u) \ {s}) \in Nat
    BY <2>3, FS_CardinalityType
  <2> QED
    BY <1>1, <1>4, <2>2, <2>3, <2>4
<1> QED
  BY <1>2, <1>3, <1>4

\* A handler that reports the change of the number of live sessions keeps the
\* tally.
LEMMA SmMoves ==
  ASSUME Base, SmInv, NEW s, NEW e, NEW req \in Seq(Reports), NEW P, Moves(s, e, req, P),
         Len(req) <= 1, NEW u \in Users, NEW d \in Int,
         req # <<>> => Change(req[1], u) = d, req = <<>> => d = 0,
         Cardinality(Live(u)') = Cardinality(Live(u)) + d, Cardinality(Live(u)') \in Nat
  PROVE  Tally(smIn, u, Known(u), Cardinality(Live(u)))'
<1> DEFINE S == Incoming \cup Reports
           q == smIn \o req
<1>1. PICK t \in Seq(Incoming) : smIn' = q \o t
  BY DEF Moves
<1>2. smIn \in Seq(S) /\ req \in Seq(S) /\ t \in Seq(S)
  BY ElementsSeq DEF Base, Typed
<1>3. \A k \in 1 .. Len(t) : Change(t[k], u) = 0
  <2> SUFFICES ASSUME NEW k \in 1 .. Len(t) PROVE Change(t[k], u) = 0
    OBVIOUS
  <2>1. t[k] \in Incoming
    OBVIOUS
  <2> QED
    BY <2>1, ChangeInt DEF Incoming
<1>4. Cardinality(Live(u)) \in Nat
  BY LiveFinite
<1>5. Tally(smIn, u, Known(u), Cardinality(Live(u)))
  BY DEF SmInv
<1>6. \A k \in 2 .. Len(req) : Change(req[k], u) = 0
  OBVIOUS
<1> HIDE DEF S
<1> DEFINE b == Cardinality(Live(u)) + d
<1>7. Tally(q, u, Known(u), b) /\ q \in Seq(S) /\ b \in Nat
  BY <1>2, <1>4, <1>5, <1>6, TallyGrows
<1> HIDE DEF q, b
<1>8. t # <<>> => Change(t[1], u) = 0
  BY <1>3
<1>9. \A k \in 2 .. Len(t) : Change(t[k], u) = 0
  BY <1>3
<1>10. b + 0 = b
  BY <1>7
<1>11. Tally(q \o t, u, Known(u), b)
  <2> DEFINE z == 0
  <2>1. z \in Int /\ b + z = b /\ (t # <<>> => Change(t[1], u) = z) /\ (t = <<>> => z = 0)
        /\ \A k \in 2 .. Len(t) : Change(t[k], u) = z
    BY <1>8, <1>9, <1>10
  <2>2. \A k \in 2 .. Len(t) : Change(t[k], u) = 0
    BY <1>9
  <2> HIDE DEF z
  <2>3. Tally(q \o t, u, Known(u), b + z)
    BY <1>2, <1>7, <2>1, <2>2, TallyGrows
  <2> QED
    BY <2>1, <2>3
<1>12. Known(u)' = Known(u)
  BY DEF Moves, Known
<1>13. Cardinality(Live(u)') = b
  BY DEF b
<1> QED
  BY <1>1, <1>11, <1>12, <1>13

\* Every handler keeps the tally.
LEMMA SmHandles ==
  ASSUME Base, SmInv, NEW s, NEW e, Handles(s, e)
  PROVE  SmInv'
<1>0. EndsLater /\ EndsLater'
  BY EndsHandles DEF SmInv
<1> SUFFICES ASSUME NEW u \in Users PROVE Tally(smIn, u, Known(u), Cardinality(Live(u)))'
  BY <1>0 DEF SmInv
<1>1. Acts(s, e)
  BY BaseHandles
<1>2. ASSUME NEW req \in Seq(Reports), NEW P, Moves(s, e, req, P), Len(req) <= 1, e \in Packets,
             req # <<>> => req[1].ev = "SM_REQUEST"
      PROVE  Tally(smIn, u, Known(u), Cardinality(Live(u)))'
  <2>1. e.ev \notin {"EV_SESSION", "EV_S_END"}
    BY <1>2, PacketFields
  <2>2. Cardinality(Live(u)') = Cardinality(Live(u)) /\ Cardinality(Live(u)') \in Nat
    BY <1>0, <1>1, <1>2, <2>1, LiveCount
  <2> DEFINE d == 0
  <2>3. /\ d \in Int /\ Cardinality(Live(u)') = Cardinality(Live(u)) + d
        /\ req # <<>> => Change(req[1], u) = d
        /\ req = <<>> => d = 0
    BY <1>2, <2>2 DEF Change
  <2> HIDE DEF d
  <2> QED
    BY <1>2, <2>2, <2>3, SmMoves
<1>3. <<>> \in Seq(Reports) /\ Len(<<>>) <= 1
  OBVIOUS
<1>4. CASE OnSession(s, e) /\ s \in DOMAIN queue
  <2> DEFINE P == {ProbeTo(s, x) : x \in Watched(s)} \cup {OnlineTo(s, x, e.arg) : x \in Told(s, e)}
             r == Item("SM_ADD_SESSION", "", sess[s].user, Nobody, FALSE, e.arg, 0)
             req == <<r>>
             d == IF sess[s].user = u THEN 1 ELSE 0
  <2>1. Moves(s, e, req, P) /\ e \in Marks /\ e.ev = "EV_SESSION" /\ s # 0
    <3>1. s # 0
      BY <1>4, Shapes
    <3>2. e.ev = "EV_SESSION"
      BY <1>4 DEF OnSession
    <3> QED
      BY <1>4, <3>1, <3>2, DoSession
  <2>2. r \in Reports
    <3>1. sess[s].user \in Users
      BY <1>4, Shapes, SessionFields
    <3> QED
      BY <2>1, <3>1, MarkFields, NewReport
  <2>3. req \in Seq(Reports) /\ Len(req) = 1 /\ req[1] = r /\ req # <<>>
    BY <2>2, OneSet
  <2>4. Change(r, u) = d
    BY DEF Change, Item
  <2>5. Cardinality(Live(u)') = Cardinality(Live(u)) + d /\ Cardinality(Live(u)') \in Nat
    <3>1. Cardinality(Live(u)) \in Nat
      BY LiveFinite
    <3> HIDE DEF req, P
    <3>2. /\ Cardinality(Live(u)') \in Nat
          /\ Cardinality(Live(u)') =
              IF e.ev \notin {"EV_SESSION", "EV_S_END"} \/ sess[s].user # u THEN Cardinality(Live(u))
              ELSE IF e.ev = "EV_SESSION" THEN Cardinality(Live(u)) + 1 ELSE Cardinality(Live(u)) - 1
      BY <1>0, <1>1, <2>1, LiveCount
    <3> QED
      BY <2>1, <3>1, <3>2
  <2>6. d \in Int
    OBVIOUS
  <2> HIDE DEF req, P, r, d
  <2>7. Len(req) <= 1 /\ (req # <<>> => Change(req[1], u) = d) /\ (req = <<>> => d = 0)
    BY <2>3, <2>4
  <2> QED
    BY <2>1, <2>3, <2>5, <2>6, <2>7, SmMoves
<1>5. CASE OnSessionEnd(s, e) /\ s \in DOMAIN queue
  <2> DEFINE P == {OfflineTo(s, x) : x \in Parting(s)}
             r == Item("SM_REMOVE_SESSION", "", sess[s].user, Nobody, FALSE, "", 0)
             req == <<r>>
             d == IF sess[s].user = u THEN -1 ELSE 0
  <2>1. Moves(s, e, req, P) /\ e.ev = "EV_S_END" /\ s # 0
    <3>1. s # 0
      BY <1>5, Shapes
    <3>2. e.ev = "EV_S_END"
      BY <1>5 DEF OnSessionEnd
    <3> QED
      BY <1>5, <3>1, <3>2, DoSessionEnd
  <2>2. r \in Reports
    <3>1. sess[s].user \in Users
      BY <1>5, Shapes, SessionFields
    <3> QED
      BY <3>1, NewReport DEF Args
  <2>3. req \in Seq(Reports) /\ Len(req) = 1 /\ req[1] = r /\ req # <<>>
    BY <2>2, OneSet
  <2>4. Change(r, u) = d
    BY DEF Change, Item
  <2>5. Cardinality(Live(u)') = Cardinality(Live(u)) + d /\ Cardinality(Live(u)') \in Nat
    <3>1. Cardinality(Live(u)) \in Nat
      BY LiveFinite
    <3> HIDE DEF req, P
    <3>2. /\ Cardinality(Live(u)') \in Nat
          /\ Cardinality(Live(u)') =
              IF e.ev \notin {"EV_SESSION", "EV_S_END"} \/ sess[s].user # u THEN Cardinality(Live(u))
              ELSE IF e.ev = "EV_SESSION" THEN Cardinality(Live(u)) + 1 ELSE Cardinality(Live(u)) - 1
      BY <1>0, <1>1, <2>1, LiveCount
    <3> QED
      BY <2>1, <3>1, <3>2
  <2>6. d \in Int
    OBVIOUS
  <2> HIDE DEF req, P, r, d
  <2>7. Len(req) <= 1 /\ (req # <<>> => Change(req[1], u) = d) /\ (req = <<>> => d = 0)
    BY <2>3, <2>4
  <2> QED
    BY <2>1, <2>3, <2>5, <2>6, <2>7, SmMoves
<1>6. CASE OnChangeStatus(s, e) /\ s \in DOMAIN queue
  <2>1. PICK online \in BOOLEAN :
              Moves(s, e, <<Item("SM_REQUEST", e.cmd, sess[s].user, Nobody, FALSE, e.arg, 0)>>,
                  {Notice(s, e, x, online) : x \in Noticed(s, e)})
    BY <1>6, DoChangeStatus
  <2> DEFINE P == {Notice(s, e, x, online) : x \in Noticed(s, e)}
             r == Item("SM_REQUEST", e.cmd, sess[s].user, Nobody, FALSE, e.arg, 0)
             req == <<r>>
  <2>2. e \in Packets /\ e.cmd = "CMD_CHANGE_STATUS"
    BY <1>6, DoChangeStatus DEF OnChangeStatus
  <2>3. r \in Reports
    <3>1. sess[s].user \in Users
      BY <1>6, Shapes, SessionFields
    <3> QED
      BY <2>2, <3>1, PacketFields, NewReport
  <2>4. req \in Seq(Reports) /\ Len(req) <= 1 /\ req[1].ev = "SM_REQUEST"
    <3>1. r.ev = "SM_REQUEST"
      BY DEF Item
    <3>2. Len(req) = 1 /\ req[1] = r
      OBVIOUS
    <3> HIDE DEF r
    <3> QED
      BY <2>3, <3>1, <3>2, OneSet
  <2>5. Moves(s, e, req, P)
    BY <2>1
  <2> HIDE DEF req, P
  <2> QED
    BY <1>2, <2>2, <2>4, <2>5
<1>7. ASSUME \E P : Moves(s, e, <<>>, P), e \in Packets
      PROVE  Tally(smIn, u, Known(u), Cardinality(Live(u)))'
  BY <1>2, <1>3, <1>7
<1>8. CASE s \in DOMAIN queue /\ (OnRequest(s, e) \/ OnDelContact(s, e) \/ OnMessage(s, e))
  <2>1. (\E P : Moves(s, e, <<>>, P)) /\ e \in Packets
    <3>1. CASE OnRequest(s, e)
      BY <1>8, <3>1, DoRequest
    <3>2. CASE OnDelContact(s, e)
      BY <1>8, <3>2, DoDelContact
    <3>3. CASE OnMessage(s, e)
      BY <1>8, <3>3, DoMessage
    <3> QED
      BY <1>8, <3>1, <3>2, <3>3
  <2> QED
    BY <1>7, <2>1
<1>9. CASE s \in {0} \cup DOMAIN queue /\ EventStep(s, e)
  <2>1. (\E P : Moves(s, e, <<>>, P)) /\ e \in Packets
    <3>1. CASE OnContactAuthOut(s, e)
      BY <1>9, <3>1, DoAuthOut
    <3>2. CASE OnMessageOut(s, e)
      BY <1>9, <3>2, DoMessageOut
    <3>3. CASE OnUserStatus(s, e)
      BY <1>9, <3>3, DoUserStatus
    <3>4. CASE OnProbeStatus(s, e)
      BY <1>9, <3>4, DoProbeStatus
    <3>5. CASE OnAddContactIn(s, e)
      BY <1>9, <3>5, DoAddContactIn
    <3>6. CASE OnContactAuthIn(s, e)
      BY <1>9, <3>6, DoAuthIn
    <3>7. CASE OnDelContactIn(s, e)
      BY <1>9, <3>7, DoDelContactIn
    <3>8. CASE OnMessageIn(s, e)
      BY <1>9, <3>8, DoMessageIn
    <3>9. CASE OnContactInfoIn(s, e)
      BY <1>9, <3>9, DoInfoIn
    <3>10. CASE OnContactInfoReply(s, e)
      BY <1>9, <3>10, DoInfoReply
    <3> QED
      BY <1>9, <3>1, <3>2, <3>3, <3>4, <3>5, <3>6, <3>7, <3>8, <3>9, <3>10 DEF EventStep
  <2> QED
    BY <1>7, <2>1
<1> QED
  BY <1>4, <1>5, <1>6, <1>8, <1>9 DEF Handles, SessionStep

\* What sm reads keeps the tally.
LEMMA SmReading ==
  ASSUME Base, SmInv, NEW e, Reads(e)
  PROVE  SmInv'
<1>0. EndsLater'
  BY DEF SmInv, EndsLater, Reads, Starting, Present
<1> SUFFICES ASSUME NEW u \in Users PROVE Tally(smIn, u, Known(u), Cardinality(Live(u)))'
  BY <1>0 DEF SmInv
<1> DEFINE S == Incoming \cup Reports
           b == Cardinality(Live(u))
<1>1. smIn \in Seq(S) /\ smIn # <<>> /\ e = Head(smIn) /\ smIn' = Tail(smIn)
  BY DEF Base, Typed, Reads
<1>2. Live(u)' = Live(u)
  BY DEF Reads, Live, Starting, Present
<1>3. Tally(smIn, u, Known(u), b)
  BY DEF SmInv
<1> HIDE DEF S, b
<1>4. Known(u) + Change(e, u) \in Nat /\ Tally(Tail(smIn), u, Known(u) + Change(e, u), b)
  BY <1>1, <1>3, TallyShrinks
<1>5. Known(u)' = Known(u) + Change(e, u)
  <2>1. Known(u) \in Nat
    BY NamedFinite DEF Known, Base, Typed, SmEntry
  <2>2. CASE e.ev # "EV_S_IN" /\ SmRegister(e) /\ e \in Reports
    <3>1. smHash \in Seq(SmEntry)
      BY DEF Base, Typed, SmEntry
    <3> QED
      BY <1>4, <2>2, <3>1, Registered
  <2>3. CASE e \in Incoming /\ smHash' = smHash
    BY <2>1, <2>3, ChangeInt DEF Incoming, Known
  <2> QED
    BY <2>2, <2>3 DEF Reads
<1>6. Cardinality(Live(u)') = b
  BY <1>2 DEF b
<1> QED
  BY <1>1, <1>4, <1>5, <1>6

\* A step without reports that keeps the live sessions keeps the tally.
LEMMA SmStill ==
  ASSUME SmInv, smIn' = smIn, smHash' = smHash, EndsLater', \A u \in Users : Live(u)' = Live(u)
  PROVE  SmInv'
  BY DEF SmInv, Known

\* A command or the mark of the end keeps the tally.
LEMMA SmComes ==
  ASSUME Base, SmInv, NEW j, NEW x \in Packets \cup Marks, x.ev # "EV_SESSION", Comes(j, x),
         smHash' = smHash,
         \A i \in DOMAIN sess : i # j => (hash'[sess[i].user] = i <=> hash[sess[i].user] = i),
         hash[sess[j].user] = j, hash'[sess[j].user] = j \/ x.ev = "EV_S_END"
  PROVE  SmInv'
<1> DEFINE S == Packets \cup Marks
<1>1. /\ sess' = sess /\ DOMAIN queue = DOMAIN sess /\ j \in DOMAIN queue
      /\ queue'[j] = Append(queue[j], x)
      /\ \A i \in DOMAIN queue : i # j => queue'[i] = queue[i]
  BY Shapes, ComesTyped
<1>2. ASSUME NEW i \in DOMAIN sess, i # j
      PROVE  (Starting(i)' <=> Starting(i)) /\ (Present(i)' <=> Present(i))
  BY <1>1, <1>2 DEF Starting, Present
<1>3. queue[j] \in Seq(S)
  BY <1>1, Shapes
<1> HIDE DEF S
<1>4. /\ DOMAIN queue[j] = 1 .. Len(queue[j]) /\ Len(queue[j]) \in Nat
      /\ DOMAIN Append(queue[j], x) = 1 .. Len(queue[j]) + 1
      /\ \A k \in 1 .. Len(queue[j]) : Append(queue[j], x)[k] = queue[j][k]
      /\ Append(queue[j], x)[Len(queue[j]) + 1] = x
  BY <1>3, AppendSeq DEF S
<1>5. Starting(j)' <=> Starting(j)
  <2>1. ASSUME Starting(j) PROVE Starting(j)'
    <3>1. PICK k \in DOMAIN queue[j] : queue[j][k].ev = "EV_SESSION"
      BY <2>1 DEF Starting
    <3>2. k \in DOMAIN queue'[j] /\ queue'[j][k] = queue[j][k]
      BY <1>1, <1>4, <3>1
    <3> QED
      BY <3>1, <3>2 DEF Starting
  <2>2. ASSUME Starting(j)' PROVE Starting(j)
    <3>1. PICK k \in DOMAIN queue'[j] : queue'[j][k].ev = "EV_SESSION"
      BY <2>2 DEF Starting
    <3>2. k \in 1 .. Len(queue[j]) + 1
      BY <1>1, <1>4, <3>1
    <3>3. k # Len(queue[j]) + 1
      BY <1>1, <1>4, <3>1
    <3>4. k \in 1 .. Len(queue[j])
      BY <1>4, <3>2, <3>3
    <3> QED
      BY <1>1, <1>4, <3>1, <3>4 DEF Starting
  <2> QED
    BY <2>1, <2>2
<1>6. Present(j)' /\ Present(j)
  <2>1. Present(j) /\ (hash'[sess[j].user] = j => Present(j)')
    BY <1>1 DEF Present
  <2>2. Len(queue[j]) + 1 \in DOMAIN queue'[j] /\ queue'[j][Len(queue[j]) + 1] = x
    BY <1>1, <1>4
  <2>3. x.ev = "EV_S_END" => Present(j)'
    BY <2>2 DEF Present
  <2> QED
    BY <2>1, <2>3
<1>7. (\A u : Live(u)' = Live(u)) /\ EndsLater'
  <2>1. DOMAIN sess' = DOMAIN sess /\ \A i \in DOMAIN sess : sess'[i].user = sess[i].user
    BY <1>1
  <2>2. \A i \in DOMAIN sess : (Starting(i)' <=> Starting(i)) /\ (Present(i)' <=> Present(i))
    BY <1>2, <1>5, <1>6
  <2> QED
    BY <2>1, <2>2, LiveSame DEF SmInv
<1> QED
  BY <1>7, SmStill DEF Comes

\* A user who leaves does not touch the places of other sessions in the hash.
LEMMA LeavesHash ==
  ASSUME Base, NEW u \in Users, Leaves(u)
  PROVE  \A i \in DOMAIN sess : i # hash[u] => (hash'[sess[i].user] = i <=> hash[sess[i].user] = i)
<1> SUFFICES ASSUME NEW i \in DOMAIN sess, i # hash[u]
             PROVE  hash'[sess[i].user] = i <=> hash[sess[i].user] = i
  OBVIOUS
<1>1. hash' = [hash EXCEPT ![u] = 0] /\ hash \in [Users -> 0 .. Len(sess)]
  BY Shapes DEF Leaves
<1>2. i # 0 /\ sess[i].user \in Users
  BY Shapes, SessionFields
<1>3. CASE sess[i].user = u
  BY <1>1, <1>2, <1>3
<1>4. CASE sess[i].user # u
  BY <1>1, <1>2, <1>4
<1> QED
  BY <1>3, <1>4

\* Every step keeps the tally.
LEMMA SmSteps ==
  ASSUME Base, Base', SmInv, Stepped
  PROVE  SmInv'
<1>1. ASSUME NEW u \in Users, NEW status \in Statuses, NEW n, Begins(u, status, n)
      PROVE  SmInv'
  <2>1. /\ n = Len(sess) + 1 /\ Len(sess) \in Nat /\ DOMAIN queue = 1 .. Len(sess)
        /\ DOMAIN sess = 1 .. Len(sess) /\ DOMAIN sess' = 1 .. n
    BY <1>1, Shapes DEF Begins
  <2>2. DOMAIN sess' = DOMAIN sess \cup {n} /\ n \notin DOMAIN sess
    BY <2>1
  <2>3. Starting(n)'
    <3>1. queue'[n] = <<BeginMark(u, status)>> /\ BeginMark(u, status).ev = "EV_SESSION"
      BY <1>1, MarksTyped DEF Begins
    <3> QED
      BY <3>1 DEF Starting
  <2>4. ASSUME NEW i \in DOMAIN sess
        PROVE  /\ sess'[i] = sess[i] /\ (Starting(i)' <=> Starting(i)) /\ (Present(i)' <=> Present(i))
    <3>1. sess'[i] = sess[i] /\ queue'[i] = queue[i]
      BY <1>1, <2>1, <2>4 DEF Begins
    <3>2. hash'[sess[i].user] = i <=> hash[sess[i].user] = i
      <4>1. sess[i].user \in Users /\ i # 0 /\ i # n
        BY <2>1, <2>2, <2>4, SessionFields
      <4>2. hash' = [hash EXCEPT ![u] = n] /\ hash[u] = 0 /\ hash \in [Users -> 0 .. Len(sess)]
        BY <1>1, Shapes DEF Begins
      <4>3. CASE sess[i].user = u
        BY <1>1, <4>1, <4>2, <4>3
      <4>4. CASE sess[i].user # u
        BY <1>1, <4>1, <4>2, <4>4
      <4> QED
        BY <4>3, <4>4
    <3> QED
      BY <3>1, <3>2 DEF Starting, Present
  <2>5. \A v : Live(v)' = Live(v)
    BY <2>2, <2>3, <2>4 DEF Live
  <2>6. Present(n)'
    BY <1>1, Shapes DEF Begins, Present
  <2>7. EndsLater'
    BY <2>2, <2>4, <2>6 DEF SmInv, EndsLater
  <2> QED
    BY <1>1, <2>5, <2>7, SmStill DEF Begins
<1>2. ASSUME NEW u \in Users, Leaves(u)
      PROVE  SmInv'
  <2>1. EndMark(u) \in Marks /\ EndMark(u).ev = "EV_S_END"
    BY DEF EndMark, Item, Marks, Args
  <2>2. Comes(hash[u], EndMark(u)) /\ smHash' = smHash /\ hash' = [hash EXCEPT ![u] = 0] /\ hash[u] # 0
    BY <1>2 DEF Leaves, Comes
  <2>3. sess[hash[u]].user = u /\ hash \in [Users -> 0 .. Len(sess)] /\ DOMAIN sess = 1 .. Len(sess)
    BY <2>2, Shapes
  <2>4. \A i \in DOMAIN sess : i # hash[u] => (hash'[sess[i].user] = i <=> hash[sess[i].user] = i)
    BY <1>2, LeavesHash
  <2> DEFINE j == hash[u]
             x == EndMark(u)
  <2>5. /\ x \in Packets \cup Marks /\ x.ev = "EV_S_END" /\ Comes(j, x)
        /\ \A i \in DOMAIN sess : i # j => (hash'[sess[i].user] = i <=> hash[sess[i].user] = i)
        /\ hash[sess[j].user] = j
    BY <2>1, <2>2, <2>3, <2>4
  <2> HIDE DEF j, x
  <2> QED
    BY <2>2, <2>5, SmComes
<1>3. ASSUME NEW u \in Users, NEW e, Enters(u, e)
      PROVE  SmInv'
  <2> DEFINE j == hash[u]
  <2>1. e \in Packets \cup Marks /\ e.ev # "EV_SESSION" /\ Comes(j, e) /\ hash' = hash /\ hash[u] # 0
    BY <1>3 DEF Enters
  <2>2. hash[sess[j].user] = j
    BY <2>1, Shapes
  <2>3. smHash' = smHash
    BY <2>1 DEF Comes
  <2> HIDE DEF j
  <2> QED
    BY <2>1, <2>2, <2>3, SmComes
<1>4. ASSUME NEW s \in DOMAIN queue, Sweeps(s)
      PROVE  SmInv'
  <2>1. DOMAIN sess' = DOMAIN sess
    <3>1. DOMAIN sess = 1 .. Len(sess) /\ DOMAIN sess' = 1 .. Len(sess')
      BY <1>4, Shapes DEF Sweeps
    <3> QED
      BY <1>4, <3>1 DEF Sweeps
  <2>2. \A i \in DOMAIN sess : sess'[i].user = sess[i].user
    BY <1>4 DEF Sweeps
  <2>3. hash' = hash /\ queue' = queue /\ smIn' = smIn /\ smHash' = smHash
    BY <1>4 DEF Sweeps
  <2>4. \A i \in DOMAIN sess : (Starting(i)' <=> Starting(i)) /\ (Present(i)' <=> Present(i))
    BY <2>2, <2>3 DEF Starting, Present
  <2> QED
    BY <2>1, <2>2, <2>3, <2>4, LiveSame, SmStill DEF SmInv
<1>5. ASSUME NEW e, Arrives(e)
      PROVE  SmInv'
  <2>1. hash' = hash /\ sess' = sess /\ smIn' = smIn /\ smHash' = smHash /\ e \in Incoming
    BY <1>5 DEF Arrives
  <2>2. ASSUME NEW i \in DOMAIN sess
        PROVE  (Starting(i)' <=> Starting(i)) /\ (Present(i)' <=> Present(i))
    <3>1. i \in DOMAIN queue /\ i # 0
      BY <2>2, Shapes
    <3>2. PICK h \in Seq(Packets) : /\ queue'[i] = Rest(i, 0) \o h
                                    /\ ToSet(h) = {p \in {e} : hash[Owner(p)] = i}
      BY <1>5, <3>1 DEF Arrives
    <3>3. queue'[i] = queue[i] \o h
      BY <3>1, <3>2 DEF Rest
    <3> QED
      BY <2>1, <3>1, <3>3, PresentGrows
  <2> QED
    BY <2>1, <2>2, LiveSame, SmStill DEF SmInv
<1>51. ASSUME NEW s, NEW k, Overtakes(s, k)
       PROVE  SmInv'
  <2>1. hash' = hash /\ sess' = sess /\ smIn' = smIn /\ smHash' = smHash
    BY <1>51 DEF Overtakes
  <2>2. \A i \in DOMAIN sess : ToSet(queue'[i]) = ToSet(queue[i])
    BY <1>51, CalmOvertakes, Shapes
  <2>3. \A i \in DOMAIN sess : (Starting(i)' <=> Starting(i)) /\ (Present(i)' <=> Present(i))
    BY <2>1, <2>2, PresentSet, StartingSet
  <2> QED
    BY <2>1, <2>3, LiveSame, SmStill DEF SmInv
<1>6. CASE UNCHANGED messengerVars
  <2>1. hash' = hash /\ sess' = sess /\ queue' = queue /\ smIn' = smIn /\ smHash' = smHash
    BY <1>6 DEF messengerVars, tables, streams
  <2>2. (\A u : Live(u)' = Live(u)) /\ EndsLater'
    BY <2>1 DEF Live, Starting, Present, SmInv, EndsLater
  <2> QED
    BY <2>1, <2>2, SmStill
<1>7. CASE \E s, e : Handles(s, e)
  BY <1>7, SmHandles
<1>8. CASE \E e : Reads(e)
  BY <1>8, SmReading
<1> QED
  BY <1>1, <1>2, <1>3, <1>4, <1>5, <1>51, <1>6, <1>7, <1>8 DEF Stepped

\* Initially there are no sessions.
LEMMA SmFirst == MessengerInit => SmInv
<1> SUFFICES ASSUME MessengerInit PROVE SmInv
  OBVIOUS
<1>0. EndsLater
  <2>1. sess = <<>>
    BY DEF MessengerInit
  <2> QED
    BY <2>1 DEF EndsLater
<1> SUFFICES ASSUME NEW u \in Users PROVE Tally(smIn, u, Known(u), Cardinality(Live(u)))
  BY <1>0 DEF SmInv
<1>1. smIn = <<>> /\ smHash = <<>> /\ sess = <<>>
  BY DEF MessengerInit
<1>2. Live(u) = {} /\ NamedIn(smHash, u) = {}
  BY <1>1 DEF Live, NamedIn
<1>3. Known(u) = 0 /\ Cardinality(Live(u)) = 0
  BY <1>2, FS_EmptySet DEF Known
<1> DEFINE n == [k \in 0 .. Len(smIn) |-> 0]
<1>4. /\ n \in [0 .. Len(smIn) -> Nat] /\ n[0] = 0 /\ n[Len(smIn)] = 0
      /\ \A k \in 1 .. Len(smIn) : n[k] = n[k - 1] + Change(smIn[k], u)
  BY <1>1
<1> HIDE DEF n
<1> QED
  BY <1>3, <1>4 DEF Tally

\* At rest sm has one session of each user in the hash, and no other.
LEMMA SmAtRest ==
  ASSUME Base, SmInv, Quiet, NEW u \in Users
  PROVE  Cardinality({k \in DOMAIN smHash : smHash[k].name = u}) = IF hash[u] = 0 THEN 0 ELSE 1
<1>1. smIn = <<>> /\ \A s \in DOMAIN sess : queue[s] = <<>>
  BY Shapes DEF Quiet
<1>2. Known(u) = Cardinality(Live(u))
  <2>1. PICK n \in [0 .. Len(smIn) -> Nat] : n[0] = Known(u) /\ n[Len(smIn)] = Cardinality(Live(u))
    BY DEF SmInv, Tally
  <2> QED
    BY <1>1, <2>1
<1>3. \A s \in DOMAIN sess : ~Starting(s)
  BY <1>1 DEF Starting
<1>4. Live(u) = {s \in DOMAIN sess : sess[s].user = u /\ hash[u] = s}
  BY <1>1, <1>3 DEF Live, Present
<1>5. CASE hash[u] = 0
  <2>1. Live(u) = {}
    BY <1>4, <1>5, Shapes
  <2>2. Cardinality(Live(u)) = 0
    BY <2>1, FS_EmptySet
  <2>3. NamedIn(smHash, u) = {k \in DOMAIN smHash : smHash[k].name = u}
    BY DEF NamedIn, Base, Typed
  <2> QED
    BY <1>2, <1>5, <2>2, <2>3 DEF Known
<1>6. CASE hash[u] # 0
  <2>1. Live(u) = {hash[u]}
    BY <1>4, <1>6, Shapes
  <2>2. Cardinality(Live(u)) = 1
    BY <2>1, FS_Singleton
  <2>3. NamedIn(smHash, u) = {k \in DOMAIN smHash : smHash[k].name = u}
    BY DEF NamedIn, Base, Typed
  <2> QED
    BY <1>2, <1>6, <2>2, <2>3 DEF Known
<1> QED
  BY <1>5, <1>6
=============================================================================
