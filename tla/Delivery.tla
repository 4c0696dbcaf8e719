------------------------------ MODULE Delivery ------------------------------
(***************************************************************************)
(* What the LinQ datagram transport promises the layer above it, in either *)
(* direction, whatever the sequence numbers, windows and timers that keep  *)
(* the promise: a packet is handed over at most once, a confirmation is    *)
(* given only for a packet that was handed over, and a packet whose        *)
(* outcome was reported is not reported again.                             *)
(*                                                                         *)
(* Packets are the numbers 1, 2, ... in the order they were submitted; the *)
(* transport does not keep that order.  "sound" is TRUE while the sender   *)
(* respects the limits of the duplicate filter.  Once it does not, the     *)
(* promise lapses for good.                                                *)
(***************************************************************************)
EXTENDS Integers, FiniteSets

VARIABLES
  submitted,   \* how many packets the application has submitted
  delivered,   \* numbers of the packets handed over to the other side
  replayed,    \* numbers handed over a second time
  confirmed,   \* numbers whose acknowledgement reached the sender
  abandoned,   \* numbers the sender gave up
  sound        \* FALSE once the sender has left the limits of the filter

dvars == <<submitted, delivered, replayed, confirmed, abandoned, sound>>

Init ==
  /\ submitted = 0
  /\ delivered = {} /\ replayed = {}
  /\ confirmed = {} /\ abandoned = {}
  /\ sound = TRUE

\* A packet that cannot be sent at all is given up on the spot.
Submit ==
  /\ submitted' = submitted + 1
  /\ sound' \in {sound, FALSE}
  /\ abandoned' \in {abandoned, abandoned \cup {submitted + 1}}
  /\ UNCHANGED <<delivered, replayed, confirmed>>

Deliver(n) ==
  /\ n \notin delivered
  /\ delivered' = delivered \cup {n}
  /\ UNCHANGED <<submitted, replayed, confirmed, abandoned, sound>>

\* Only an unsound sender can make the receiver process a packet twice.
Replay(n) ==
  /\ ~sound
  /\ n \in delivered
  /\ replayed' = replayed \cup {n}
  /\ UNCHANGED <<submitted, delivered, confirmed, abandoned, sound>>

Confirm(n) ==
  /\ n \notin confirmed \cup abandoned
  /\ sound => n \in delivered
  /\ confirmed' = confirmed \cup {n}
  /\ UNCHANGED <<submitted, delivered, replayed, abandoned, sound>>

\* One pass of the retransmission timer can give up several packets.
Abandon(S) ==
  /\ S \cap (confirmed \cup abandoned) = {}
  /\ abandoned' = abandoned \cup S
  /\ UNCHANGED <<submitted, delivered, replayed, confirmed, sound>>

Next ==
  \/ Submit
  \/ \E n \in 1 .. submitted : Deliver(n) \/ Replay(n) \/ Confirm(n)
  \/ \E S \in SUBSET (1 .. submitted) : Abandon(S)

Spec == Init /\ [][Next]_dvars
=============================================================================
