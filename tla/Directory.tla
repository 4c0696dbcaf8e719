----------------------------- MODULE Directory -----------------------------
(***************************************************************************)
(* The directory of who is online, kept twice: c2s knows which user is     *)
(* logged in at which address, and tells a linqd server over a TCP stream, *)
(* which keeps the same in its SessionHash.  The hash is keyed by name     *)
(* only, while C2S_REMOVE_SESSION names no address; packets come back      *)
(* addressed to (ip, port) and are handed to whoever is logged in there.   *)
(*                                                                         *)
(* The stream keeps the order, and TCPStream::sendPacket drops a packet    *)
(* that does not fit its send buffer; addSession and removeSession ignore  *)
(* that.  The sessions of one server are modelled; the event threads       *)
(* between SessionHash and the modules are in EventCore.                   *)
(***************************************************************************)
EXTENDS Integers, FiniteSets, Functions, SequencesExt

CONSTANTS
  Users, Addrs,
  Capacity,   \* packets that fit the send buffer of c2s's stream, SENDBUF_SIZE
  MaxLogins,  \* bound: logins in a behaviour
  MaxReplies  \* bound: packets on their way from linqd to c2s

ASSUME DirectoryAssumption ==
  Capacity \in Nat \ {0} /\ MaxLogins \in Nat /\ MaxReplies \in Nat

VARIABLES
  online,      \* c2s: address -> user, the sessions routed to this server
  toLinqd,     \* the stream to linqd
  hash,        \* linqd: SessionHash, the latest session first
  toC2s,       \* the stream back
  \* history
  logins,      \* logins so far
  twice,       \* a user logged in while online at another address
  overflowed,  \* a packet to linqd was dropped
  reused,      \* a user logged in where another one was logged in before
  misrouted,   \* a packet for one user was handed to another
  owners       \* users that have been logged in at each address

c2sVars == <<online, logins, twice, reused, owners>>
vars == <<c2sVars, toLinqd, hash, toC2s, overflowed, misrouted>>

Entry == [user : Users, addr : Addrs]
Message == [cmd : {"C2S_ADD_SESSION"}, user : Users, addr : Addrs]
             \cup [cmd : {"C2S_REMOVE_SESSION", "C2S_DELIVER"}, user : Users]

TypeOK ==
  /\ online \in UNION {[A -> Users] : A \in SUBSET Addrs}
  /\ toLinqd \in Seq(Message) /\ Len(toLinqd) <= Capacity
  /\ hash \in Seq(Entry)
  /\ toC2s \in Seq(Entry) /\ Len(toC2s) <= MaxReplies
  /\ logins \in 0 .. MaxLogins
  /\ {twice, overflowed, reused, misrouted} \subseteq BOOLEAN
  /\ owners \in [Addrs -> SUBSET Users]

Init ==
  /\ online = <<>> /\ toLinqd = <<>> /\ hash = <<>> /\ toC2s = <<>>
  /\ logins = 0 /\ twice = FALSE /\ overflowed = FALSE /\ reused = FALSE /\ misrouted = FALSE
  /\ owners = [a \in Addrs |-> {}]

\* Seeded bug: the oldest packet makes room.
SendPacketOverwriting(m) ==
  /\ toLinqd' = IF Len(toLinqd) < Capacity THEN Append(toLinqd, m)
                ELSE Append(Tail(toLinqd), m)
  /\ UNCHANGED overflowed

\* TCPStream::sendPacket.
SendPacket(m) ==
  IF Len(toLinqd) < Capacity
  THEN toLinqd' = Append(toLinqd, m) /\ UNCHANGED overflowed
  ELSE overflowed' = TRUE /\ UNCHANGED toLinqd

-----------------------------------------------------------------------------
(***************************************************************************)
(* c2s.                                                                    *)
(***************************************************************************)

\* Session::onLogin and RealServer::addSession.
Login(a, u) ==
  /\ a \notin DOMAIN online /\ logins < MaxLogins
  /\ logins' = logins + 1
  /\ online' = [b \in DOMAIN online \cup {a} |-> IF b = a THEN u ELSE online[b]]
  /\ SendPacket([cmd |-> "C2S_ADD_SESSION", user |-> u, addr |-> a])
  /\ twice' = (twice \/ u \in Range(online))
  /\ reused' = (reused \/ owners[a] \ {u} # {})
  /\ owners' = [owners EXCEPT ![a] = @ \cup {u}]
  /\ UNCHANGED <<hash, toC2s, misrouted>>

\* ~Session and RealServer::removeSession: a logout, or the session expired.
End(a) ==
  /\ a \in DOMAIN online
  /\ online' = Restrict(online, DOMAIN online \ {a})
  /\ SendPacket([cmd |-> "C2S_REMOVE_SESSION", user |-> online[a]])
  /\ UNCHANGED <<hash, toC2s, logins, twice, reused, misrouted, owners>>

\* RealServer::deliver: a client's packet goes on under the user's name.
Forward(a) ==
  /\ a \in DOMAIN online
  /\ SendPacket([cmd |-> "C2S_DELIVER", user |-> online[a]])
  /\ UNCHANGED <<c2sVars, hash, toC2s, misrouted>>

\* RealServer::onPacketReceived: the packet goes to whoever is at the address.
Route ==
  /\ toC2s # <<>>
  /\ toC2s' = Tail(toC2s)
  /\ LET p == Head(toC2s) IN
     misrouted' = (misrouted \/
       (p.addr \in DOMAIN online /\ online[p.addr] # p.user))
  /\ UNCHANGED <<c2sVars, toLinqd, hash, overflowed>>

-----------------------------------------------------------------------------
(***************************************************************************)
(* linqd.                                                                  *)
(***************************************************************************)

\* SessionHash::put.
Put(entries, m) == <<[user |-> m.user, addr |-> m.addr]>> \o entries

\* SessionHash::remove: the first of that name, which is the latest.
RemoveByName(entries, u) == RemoveFirstMatch(entries, LAMBDA e : e.user = u)

\* What a packet from c2s does to the hash.
Applied(entries, m) ==
  CASE m.cmd = "C2S_ADD_SESSION"    -> Put(entries, m)
    [] m.cmd = "C2S_REMOVE_SESSION" -> RemoveByName(entries, m.user)
    [] OTHER                        -> entries

\* C2S::onPacketReceived of linqd.
OnC2sPacket ==
  /\ toLinqd # <<>>
  /\ toLinqd' = Tail(toLinqd)
  /\ hash' = Applied(hash, Head(toLinqd))
  /\ UNCHANGED <<c2sVars, toC2s, overflowed, misrouted>>

\* Seeded bug: a packet without a session goes to the latest login.
DeliverToAny(u) ==
  /\ hash # <<>> /\ Len(toC2s) < MaxReplies
  /\ toC2s' = Append(toC2s, [user |-> u, addr |-> hash[1].addr])
  /\ UNCHANGED <<c2sVars, toLinqd, hash, overflowed, misrouted>>

\* ICQMain::deliver and ClientSession::deliver, for a module with a packet
\* for user u: the first session of that name gets it.
Deliver(u) ==
  LET i == SelectInSeq(hash, LAMBDA e : e.user = u)
  IN /\ i # 0 /\ Len(toC2s) < MaxReplies
     /\ toC2s' = Append(toC2s, hash[i])
     /\ UNCHANGED <<c2sVars, toLinqd, hash, overflowed, misrouted>>

Next ==
  \/ \E a \in Addrs :
       (\E u \in Users : Login(a, u)) \/ End(a) \/ Forward(a)
  \/ Route \/ OnC2sPacket
  \/ \E u \in Users : Deliver(u)

Spec == Init /\ [][Next]_vars

-----------------------------------------------------------------------------
(***************************************************************************)
(* Properties.                                                             *)
(***************************************************************************)

\* The hash h once linqd has read packets q.
After(h, q) ==
  LET after[i \in 0 .. Len(q)] == IF i = 0 THEN h ELSE Applied(after[i - 1], q[i])
  IN  after[Len(q)]
Coming == After(hash, toLinqd)
Entries(s) == {s[i] : i \in DOMAIN s}
Count(s, u) == Cardinality({i \in DOMAIN s : s[i].user = u})

\* As long as no packet is dropped, linqd comes to know of as many sessions of
\* each user as c2s has, even when the user is logged in twice, and, while no
\* user ever was, of exactly the users online and their addresses.  (With two
\* logins of one user the first of them to end takes the other's entry along.)
DirectoriesAgree ==
  /\ TypeOK
  /\ overflowed \/ \A u \in Users :
       Count(Coming, u) = Cardinality({a \in DOMAIN online : online[a] = u})
  /\ overflowed \/ twice \/
       Entries(Coming) = {[user |-> online[a], addr |-> a] : a \in DOMAIN online}

\* A packet is handed to another user only where the two have had the same
\* address: packets in the streams outlive the session they are meant for.
NoMisrouting == misrouted => reused
=============================================================================
