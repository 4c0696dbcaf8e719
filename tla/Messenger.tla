----------------------------- MODULE Messenger -----------------------------
(***************************************************************************)
(* What users see of each other: one linqd server with the modules search, *)
(* vcard, presence, message, roster and offline, and the session manager   *)
(* sm.                                                                     *)
(*                                                                         *)
(* A packet for a user is an event.  If the user has a session in the      *)
(* hash, the event goes to the end of that session's queue; otherwise the  *)
(* search module hands the packet to sm, which drops it, or sends it back  *)
(* to the server, where it is looked up again and, if the user is still    *)
(* not there, handled as an event without a session on any thread.  A      *)
(* handler is one step: what each module does, in start_order, and the     *)
(* packets it sends.  The exceptions are the offline module, which reads   *)
(* the stored messages and deletes them in two statements, and the main    *)
(* thread, which adds and removes a session between a handler's look into  *)
(* the hash and its postEvent (Overtake).                                  *)
(*                                                                         *)
(* A session outlives its place in the hash until its queue is drained, so *)
(* two sessions of one user may be at work on two threads.                 *)
(***************************************************************************)
EXTENDS Integers, FiniteSets, Bags, SequencesExt, Lists

CONSTANTS
  Users, Nobody,
  Statuses,     \* STATUS_ONLINE, STATUS_AWAY, STATUS_INVIS
  Auths,        \* how the users answer requests: AUTH_ACCEPT, ...
  Commands,     \* bound: commands and types of messages that clients send
  FETCH_LIMIT,  \* LIMIT of the offline module's query
  MaxSessions,  \* bound: logins in a behaviour
  MaxCommands   \* bound: commands of clients

ASSUME MessengerAssumption ==
  /\ IsFiniteSet(Users) /\ Nobody \notin Users
  /\ Statuses \subseteq {"ONLINE", "AWAY", "INVIS"}
  /\ FETCH_LIMIT \in Nat \ {0} /\ MaxSessions \in Nat /\ MaxCommands \in Nat

VARIABLES
  hash,      \* SessionHash: the session of a user, or 0
  sess,      \* every session so far: PRES, and what its client knows
  queue,     \* events of each session
  loose,     \* events without a session
  auth,      \* user_basic.auth
  roster,    \* roster.subscrpt
  message,   \* table of stored messages
  smIn,      \* stream from linqd to sm
  smOut,     \* stream from sm to linqd
  smHash,    \* sm's sessions
  crashed,   \* a handler followed a null pointer
  \* history
  commands,  \* commands so far; they number the messages
  got,       \* messages given to the client of their addressee
  lost,      \* messages deleted unread, or given to a session that ended
  astray     \* users for whom something went a way the handlers do not expect

tables == <<auth, roster, message>>
streams == <<smIn, smOut, smHash>>
messengerVars == <<hash, sess, queue, loose, tables, streams, crashed, commands, got, lost, astray>>

Sessions == 1 .. MaxSessions
Messages == 1 .. MaxCommands
Sub == {"SUB_TO", "SUB_FROM"}

\* A PACKET and the event it is posted with.  "arg" is the status, the
\* authorisation or the type of message it carries.
Item(ev, cmd, from, to, online, arg, id) ==
  [ev |-> ev, cmd |-> cmd, from |-> from, to |-> to, online |-> online,
   arg |-> arg, id |-> id]
In(cmd, from, to, online, arg) == Item("EV_S_IN", cmd, from, to, online, arg, 0)
Out(cmd, from, to, online, arg) == Item("EV_S_OUT", cmd, from, to, online, arg, 0)

\* The type of every variable; sessions in the hash exist, queues belong to sessions.
MessengerTypeOK ==
  /\ hash \in [Users -> 0 .. Len(sess)] /\ Len(sess) <= MaxSessions
  /\ \A i \in DOMAIN sess :
       /\ sess[i].user \in Users /\ sess[i].status \in Statuses
       /\ sess[i].notifySet \subseteq Users
       /\ {sess[i].sweep, sess[i].shown} \subseteq BOOLEAN
       /\ sess[i].view \in [Users -> Statuses \cup {"OFFLINE"}]
  /\ DOMAIN queue = DOMAIN sess
  /\ \A e \in (UNION {ToSet(queue[i]) : i \in DOMAIN queue})
              \cup BagToSet(loose) \cup ToSet(smIn) \cup ToSet(smOut) :
       {e.from, e.to} \subseteq Users \cup {Nobody} /\ e.id \in {0} \cup Messages
  /\ auth \in [Users -> Auths]
  /\ roster \in [Users -> [Users -> SUBSET Sub]]
  /\ DOMAIN message = Users
  /\ crashed \in BOOLEAN /\ commands \in 0 .. MaxCommands
  /\ got \subseteq Messages /\ lost \subseteq Messages
  /\ astray \subseteq Users

\* Contacts are added and deleted in pairs of rows; any such state.  A message
\* of an earlier day may be stored (its number, like that of the messages
\* the modules write themselves, is 0).
MessengerInit ==
  /\ hash = [u \in Users |-> 0] /\ sess = <<>> /\ queue = <<>> /\ loose = EmptyBag
  /\ auth \in [Users -> Auths]
  /\ \E to \in SUBSET {p \in Users \X Users : p[1] # p[2]} :
       roster = [u \in Users |-> [c \in Users |->
                  {s \in Sub : \/ <<u, c>> \in to /\ s = "SUB_TO"
                               \/ <<c, u>> \in to /\ s = "SUB_FROM"}]]
  /\ message \in [Users -> {<<>>, <<0>>}]
  /\ smIn = <<>> /\ smOut = <<>> /\ smHash = <<>>
  /\ crashed = FALSE /\ commands = 0 /\ got = {} /\ lost = {} /\ astray = {}

-----------------------------------------------------------------------------
(***************************************************************************)
(* Delivery.                                                               *)
(***************************************************************************)

\* The user whose session handles an event.
Owner(e) == IF e.ev = "EV_S_IN" THEN e.to ELSE e.from

\* ICQMain::deliver and deliverFrom: the packets whose user is here.
Here(out, i) == Among(out, {e \in ToSet(out) : hash[Owner(e)] = i})

\* The rest: EV_DELIVER lets the search module send a packet to sm, while
\* deliverFrom posts an event without a session.
ToSm(out) == Among(out, {e \in ToSet(out) : e.ev = "EV_S_IN" /\ hash[e.to] = 0})
Unowned(out) == {e \in ToSet(out) : e.ev = "EV_S_OUT" /\ hash[e.from] = 0}

UnderWay == (UNION {ToSet(queue[i]) : i \in DOMAIN queue})
            \cup BagToSet(loose) \cup ToSet(smIn) \cup ToSet(smOut)

\* f is a request of u to have c on his list, or an answer of c that grants it;
\* f takes c off his list.
Grants(f, u, c) ==
  \/ f.cmd = "CMD_SRV_ADD_CONTACT" /\ f.from = u /\ f.to = c
  \/ f.cmd = "CMD_SRV_CONTACT_AUTH" /\ f.from = c /\ f.to = u
  \/ /\ f.ev = "EV_S_IN" /\ f.cmd = "CMD_SRV_MESSAGE" /\ f.arg = "AUTH_ACCEPT"
     /\ f.from = c /\ f.to = u
Withdraws(f, u, c) == f.cmd = "CMD_SRV_DEL_CONTACT" /\ f.from = u /\ f.to = c

\* A contact is deleted while he is being granted, or asked for or granted while
\* his deletion is under way: the one may overtake the other.
Crosses(e) ==
  \E f \in UnderWay :
    \/ e.cmd = "CMD_DEL_CONTACT" /\ Grants(f, e.from, e.to)
    \/ e.cmd = "CMD_ADD_CONTACT" /\ Withdraws(f, e.from, e.to)
    \/ /\ e.ev = "EV_S_OUT" /\ e.cmd = "CMD_SRV_MESSAGE" /\ e.arg = "AUTH_ACCEPT"
       /\ Withdraws(f, e.to, e.from)

\* A user accepts a contact by a message, but is invisible or gone when it leaves.
AcceptsUnseen(s, e) ==
  /\ e.ev = "EV_S_OUT" /\ e.cmd = "CMD_SRV_MESSAGE" /\ e.arg = "AUTH_ACCEPT"
  /\ s = 0 \/ sess[s].status = "INVIS"

\* What the handlers do not provide for.
Strays(s, e) ==
  \/ s = 0 /\ hash[Owner(e)] # 0
  \/ Crosses(e)
  \/ AcceptsUnseen(s, e)

\* Event e of session s, or without a session for s = 0, is handled, and
\* the packets "out" are delivered; "req" goes to sm first, as the search
\* module comes before the others.
Handle(s, e, req, out) ==
  /\ ~crashed
  /\ IF s = 0 THEN BagIn(e, loose)
              ELSE ~sess[s].sweep /\ queue[s] # <<>> /\ e = Head(queue[s])
  /\ queue' = [i \in DOMAIN queue |->
                (IF i = s THEN Tail(queue[i]) ELSE queue[i]) \o Here(out, i)]
  /\ loose' = (IF s = 0 THEN loose (-) SetToBag({e}) ELSE loose)
              (+) SetToBag(Unowned(out))
  /\ smIn' = smIn \o req \o ToSm(out)
  /\ astray' = IF Strays(s, e) THEN astray \cup {Owner(e)} ELSE astray
  /\ UNCHANGED <<hash, smOut, smHash, commands>>

\* EventItem::run delivers what no module stopped.
Onward(e) == <<[e EXCEPT !.ev = "EV_S_IN"]>>

\* Messages for the client reach it if it is still logged in.
Given(s, ms) ==
  IF hash[sess[s].user] = s THEN got' = got \cup (ms \ {0}) /\ UNCHANGED lost
                            ELSE lost' = lost \cup (ms \ (got \cup {0})) /\ UNCHANGED got

\* dbAddContact and dbDelContact.
DbAddContact(u, c, sub) == roster' = [roster EXCEPT ![u][c] = @ \cup {sub}]
DbDelContact(u, c, sub) == roster' = [roster EXCEPT ![u][c] = @ \ {sub}]

-----------------------------------------------------------------------------
(***************************************************************************)
(* Sessions.                                                               *)
(***************************************************************************)

\* ICQMain::addSession.
Login(u, status) ==
  /\ ~crashed /\ hash[u] = 0 /\ Len(sess) < MaxSessions
  /\ sess' = Append(sess, [user |-> u, status |-> status, notifySet |-> {},
                           sweep |-> FALSE, shown |-> status # "INVIS",
                           view |-> [c \in Users |-> "OFFLINE"]])
  /\ hash' = [hash EXCEPT ![u] = Len(sess) + 1]
  /\ queue' = Append(queue, <<Item("EV_SESSION", "CMD_LOGIN", u, Nobody, FALSE, status, 0)>>)
  /\ UNCHANGED <<loose, tables, streams, crashed, commands, got, lost, astray>>

\* ICQMain::removeSession.
Logout(u) ==
  /\ ~crashed /\ hash[u] # 0
  /\ hash' = [hash EXCEPT ![u] = 0]
  /\ queue' = [queue EXCEPT ![hash[u]] =
                 Append(@, Item("EV_S_END", "", u, Nobody, FALSE, "", 0))]
  /\ UNCHANGED <<sess, loose, tables, streams, crashed, commands, got, lost, astray>>

\* A session begins and ends, and its client's commands are posted, on the main
\* thread; the other packets are posted by the event threads.
Posted(e) == e.ev = "EV_S_IN" \/ e.cmd \in {"CMD_SRV_CONTACT_AUTH", "CMD_SRV_MESSAGE"}

\* deliver and deliverFrom look the session up and then post, each a step.  A
\* thread that has found it may post before addSession, which has put it into the
\* hash, posts EV_SESSION, and after removeSession posted EV_S_END.
Overtake(s) ==
  \E k \in 1 .. Len(queue[s]) - 1 :
    LET a == queue[s][k]
        b == queue[s][k + 1]
    IN /\ ~crashed
       /\ (a.ev = "EV_SESSION" /\ Posted(b)) \/ (Posted(a) /\ b.ev = "EV_S_END")
       /\ queue' = [queue EXCEPT ![s] = [@ EXCEPT ![k] = b, ![k + 1] = a]]
       /\ astray' = astray \cup {sess[s].user}
       /\ UNCHANGED <<hash, sess, loose, tables, streams, crashed, commands, got, lost>>

\* presence looks after a session from its EV_SESSION on.
Attended(s) == s # 0 /\ \A k \in DOMAIN queue[s] : queue[s][k].ev # "EV_SESSION"

\* onSessionEvent of search, presence and offline.
OnSession(s, e) ==
  LET u == sess[s].user
      told == {c \in Users : "SUB_FROM" \in roster[u][c] /\ e.arg # "INVIS"}
      Row(c) == (IF "SUB_TO" \in roster[u][c]
                 THEN <<In("CMD_SRV_PROBE_STATUS", u, c, TRUE, "")>> ELSE <<>>)
                \o (IF c \in told
                    THEN <<In("CMD_SRV_USER_ONLINE", u, c, TRUE, e.arg)>> ELSE <<>>)
      contacts == SetToSeq(Users)
      fetched == SubSeq(message[u], 1, Min({FETCH_LIMIT, Len(message[u])}))
  IN /\ e.ev = "EV_SESSION"
     /\ Handle(s, e, <<Item("SM_ADD_SESSION", "", u, Nobody, FALSE, e.arg, 0)>>,
               FlattenSeq([k \in DOMAIN contacts |-> Row(contacts[k])]))
     /\ sess' = [sess EXCEPT ![s].notifySet = told, ![s].sweep = fetched # <<>>]
     /\ Given(s, ToSet(fetched))
     /\ UNCHANGED <<tables, crashed>>

\* The offline module's DELETE, after its SELECT.
Sweep(s) ==
  /\ ~crashed /\ sess[s].sweep
  /\ sess' = [sess EXCEPT ![s].sweep = FALSE]
  /\ message' = [message EXCEPT ![sess[s].user] = <<>>]
  /\ lost' = lost \cup (ToSet(message[sess[s].user]) \ (got \cup {0}))
  /\ UNCHANGED <<hash, queue, loose, auth, roster, streams, crashed, commands, got, astray>>

\* onSessionEnd of presence, EV_S_END of search.
OnSessionEnd(s, e) ==
  LET u == sess[s].user
      told == SetToSeq(IF sess[s].status = "INVIS" THEN {} ELSE sess[s].notifySet)
  IN /\ e.ev = "EV_S_END"
     /\ Handle(s, e, <<Item("SM_REMOVE_SESSION", "", u, Nobody, FALSE, "", 0)>>,
               [k \in DOMAIN told |-> In("CMD_SRV_USER_OFFLINE", u, told[k], TRUE, "OFFLINE")])
     /\ sess' = [sess EXCEPT ![s].view = [c \in Users |-> "OFFLINE"]]
     /\ UNCHANGED <<tables, crashed, got, lost>>

-----------------------------------------------------------------------------
(***************************************************************************)
(* The session manager.                                                    *)
(***************************************************************************)

SmKnows(u) == \E k \in DOMAIN smHash : smHash[k].name = u

\* Seeded bug: removes every session of that name.
SmRemoveAll(name) == SelectSeq(smHash, LAMBDA r : r.name # name)

\* onRemoveSession: the first session of that name.
SmRemove(name) == RemoveFirstMatch(smHash, LAMBDA r : r.name = name)

\* onAddSession, onRemoveSession and the two requests that change a session.
SmRegister(e) ==
  /\ smHash' =
       CASE e.ev = "SM_ADD_SESSION" ->
              Append(smHash, [name |-> e.from, status |-> e.arg])
         [] e.ev = "SM_REMOVE_SESSION" -> SmRemove(e.from)
         [] e.ev = "SM_REQUEST" ->
              LET k == SelectInSeq(smHash, LAMBDA r : r.name = e.from)
              IN IF k = 0 THEN smHash ELSE [smHash EXCEPT ![k].status = e.arg]
  /\ UNCHANGED smOut

\* Seeded bug: a packet for a user who is not there is always dropped.
SmDrops(e) ==
  /\ e.ev = "EV_S_IN"
  /\ smOut' = IF SmKnows(e.to) THEN Append(smOut, e) ELSE smOut
  /\ UNCHANGED smHash

\* SessionManager::deliverPacket: to the server of the session, or back.
SmDeliver(e) ==
  /\ e.ev = "EV_S_IN"
  /\ smOut' = IF SmKnows(e.to) \/ ~e.online THEN Append(smOut, e) ELSE smOut
  /\ UNCHANGED smHash

SmReceives ==
  /\ ~crashed /\ smIn # <<>> /\ smIn' = Tail(smIn)
  /\ LET e == Head(smIn) IN
       \/ e.ev # "EV_S_IN" /\ SmRegister(e)
       \/ SmDeliver(e)
  /\ UNCHANGED <<hash, sess, queue, loose, tables, crashed, commands, got, lost, astray>>

\* SessionManager::onPacketReceived of the search module: deliverLocal.
DeliverLocal ==
  /\ ~crashed /\ smOut # <<>> /\ smOut' = Tail(smOut)
  /\ LET e == Head(smOut) IN
       /\ queue' = [i \in DOMAIN queue |-> queue[i] \o Here(<<e>>, i)]
       /\ loose' = IF hash[e.to] = 0 THEN loose (+) SetToBag({e}) ELSE loose
       /\ astray' = astray \cup {u \in {e.to} : hash[u] # 0}
  /\ UNCHANGED <<hash, sess, tables, smIn, smHash, crashed, commands, got, lost>>

-----------------------------------------------------------------------------
(***************************************************************************)
(* Events out of a session, EV_S_OUT: the commands of its client, and what *)
(* is sent in its user's name.                                             *)
(***************************************************************************)

\* ICQMain::onPacketReceived.
Command(u, cmd, to, arg) ==
  /\ ~crashed /\ hash[u] # 0 /\ commands < MaxCommands
  /\ {cmd, arg} \cap Commands # {}
  /\ commands' = commands + 1
  /\ queue' = [queue EXCEPT ![hash[u]] =
                 Append(@, Item("EV_S_OUT", cmd, u, to, FALSE, arg,
                                 IF cmd = "CMD_MESSAGE" THEN commands + 1 ELSE 0))]
  /\ UNCHANGED <<hash, sess, loose, tables, streams, crashed, got, lost, astray>>

\* Seeded bug: the two changes from and to invisible are taken for each other.
StatusNoticeSwapped(u, c, old, new, online) ==
  CASE old = "INVIS" -> In("CMD_SRV_USER_OFFLINE", u, c, TRUE, "OFFLINE")
    [] new = "INVIS" -> In("CMD_SRV_USER_ONLINE", u, c, TRUE, new)
    [] OTHER         -> In("CMD_SRV_USER_STATUS", u, c, online, new)

StatusNotice(u, c, old, new, online) ==
  CASE old = "INVIS" -> In("CMD_SRV_USER_ONLINE", u, c, TRUE, new)
    [] new = "INVIS" -> In("CMD_SRV_USER_OFFLINE", u, c, TRUE, "OFFLINE")
    [] OTHER         -> In("CMD_SRV_USER_STATUS", u, c, online, new)

\* search passes it on, presence tells the users in notifySet.  statusNotify
\* leaves PACKET.online uninitialised.
OnChangeStatus(s, e) ==
  LET u == sess[s].user
      old == sess[s].status
      told == SetToSeq(sess[s].notifySet)
  IN /\ e.ev = "EV_S_OUT" /\ e.cmd = "CMD_CHANGE_STATUS"
     /\ \E online \in BOOLEAN :
          Handle(s, e, <<Item("SM_REQUEST", e.cmd, u, Nobody, FALSE, e.arg, 0)>>,
                 IF e.arg = old THEN <<>>
                 ELSE [k \in DOMAIN told |-> StatusNotice(u, told[k], old, e.arg, online)])
     /\ sess' = [sess EXCEPT ![s].status = e.arg,
                             ![s].shown = @ /\ e.arg # "INVIS"]
     /\ UNCHANGED <<tables, crashed, got, lost>>

\* roster and vcard: a request to the other user's modules.
OnRequest(s, e) ==
  /\ e.ev = "EV_S_OUT" /\ e.cmd \in {"CMD_ADD_CONTACT", "CMD_GET_CONTACT_INFO"}
  /\ Handle(s, e, <<>>,
       <<In(IF e.cmd = "CMD_ADD_CONTACT" THEN "CMD_SRV_ADD_CONTACT"
                                         ELSE "CMD_SRV_CONTACT_INFO",
            sess[s].user, e.to, FALSE, "")>>)
  /\ UNCHANGED <<sess, tables, crashed, got, lost>>

\* Seeded bug: deletes the wrong half of the relation.
OnDelContactWrongHalf(s, e) ==
  LET u == sess[s].user IN
  /\ e.ev = "EV_S_OUT" /\ e.cmd = "CMD_DEL_CONTACT"
  /\ Handle(s, e, <<>>, IF roster[u][e.to] = {} THEN <<>>
                        ELSE <<In("CMD_SRV_DEL_CONTACT", u, e.to, FALSE, "")>>)
  /\ DbDelContact(u, e.to, "SUB_FROM")
  /\ UNCHANGED <<sess, auth, message, crashed, got, lost>>

\* dbDelContact fails only if there is no row at all.
OnDelContact(s, e) ==
  LET u == sess[s].user IN
  /\ e.ev = "EV_S_OUT" /\ e.cmd = "CMD_DEL_CONTACT"
  /\ Handle(s, e, <<>>, IF roster[u][e.to] = {} THEN <<>>
                        ELSE <<In("CMD_SRV_DEL_CONTACT", u, e.to, FALSE, "")>>)
  /\ DbDelContact(u, e.to, "SUB_TO")
  /\ UNCHANGED <<sess, auth, message, crashed, got, lost>>

\* The message module sends it in the user's name.
OnMessage(s, e) ==
  /\ e.ev = "EV_S_OUT" /\ e.cmd = "CMD_MESSAGE"
  /\ Handle(s, e, <<>>, <<[e EXCEPT !.cmd = "CMD_SRV_MESSAGE"]>>)
  /\ UNCHANGED <<sess, tables, crashed, got, lost>>

\* addAndNotify of presence.
AddAndNotify(s, c) ==
  IF ~Attended(s) \/ c \in sess[s].notifySet THEN <<>>
  ELSE <<In("CMD_SRV_USER_ONLINE", sess[s].user, c, TRUE, sess[s].status)>>

Notifies(s, c) == sess' = IF Attended(s) THEN [sess EXCEPT ![s].notifySet = @ \cup {c}]
                          ELSE sess

\* presence, message and roster see the answer to a request to add a contact
\* leave; the user who accepts is told that he was added.
OnContactAuthOut(s, e) ==
  LET visible == Attended(s) /\ sess[s].status # "INVIS"
      added == In("CMD_SRV_MESSAGE", e.to, e.from, FALSE, "ADDED")
  IN /\ e.ev = "EV_S_OUT" /\ e.cmd = "CMD_SRV_CONTACT_AUTH"
     /\ IF e.arg = "ACCEPT"
        THEN /\ Handle(s, e, <<>>, (IF visible THEN AddAndNotify(s, e.to) ELSE <<>>)
                 \o (IF s = 0 THEN <<added>> ELSE <<>>) \o Onward(e))
             /\ IF visible THEN Notifies(s, e.to) ELSE UNCHANGED sess
             /\ DbAddContact(e.from, e.to, "SUB_FROM")
        ELSE Handle(s, e, <<>>, Onward(e)) /\ UNCHANGED <<sess, roster>>
     /\ UNCHANGED <<auth, message, crashed, got, lost>>

\* presence and roster see a message leave that accepts a contact.
OnMessageOut(s, e) ==
  LET accepts == s # 0 /\ e.arg = "AUTH_ACCEPT" IN
  /\ e.ev = "EV_S_OUT" /\ e.cmd = "CMD_SRV_MESSAGE"
  /\ IF accepts
     THEN /\ Handle(s, e, <<>>, AddAndNotify(s, e.to) \o Onward(e))
          /\ Notifies(s, e.to)
          /\ DbAddContact(e.from, e.to, "SUB_FROM")
     ELSE Handle(s, e, <<>>, Onward(e)) /\ UNCHANGED <<sess, roster>>
  /\ UNCHANGED <<auth, message, crashed, got, lost>>

-----------------------------------------------------------------------------
(***************************************************************************)
(* Events into a session, EV_S_IN, or for a user without one.              *)
(***************************************************************************)

\* onUserStatus: the client learns the status.
OnUserStatus(s, e) ==
  /\ e.ev = "EV_S_IN"
  /\ e.cmd \in {"CMD_SRV_USER_ONLINE", "CMD_SRV_USER_OFFLINE", "CMD_SRV_USER_STATUS"}
  /\ Handle(s, e, <<>>, <<>>)
  /\ sess' = IF Attended(s) THEN [sess EXCEPT ![s].view[e.from] = e.arg] ELSE sess
  /\ UNCHANGED <<tables, crashed, got, lost>>

OnProbeStatus(s, e) ==
  LET answers == Attended(s) /\ e.from \in sess[s].notifySet /\ sess[s].status # "INVIS" IN
  /\ e.ev = "EV_S_IN" /\ e.cmd = "CMD_SRV_PROBE_STATUS"
  /\ Handle(s, e, <<>>, IF answers
       THEN <<In("CMD_SRV_USER_ONLINE", sess[s].user, e.from, TRUE, sess[s].status)>>
       ELSE <<>>)
  /\ UNCHANGED <<sess, tables, crashed, got, lost>>

\* vcard answers in the user's name.
OnAddContactIn(s, e) ==
  /\ e.ev = "EV_S_IN" /\ e.cmd = "CMD_SRV_ADD_CONTACT"
  /\ Handle(s, e, <<>>, <<Out("CMD_SRV_CONTACT_AUTH", e.to, e.from, TRUE, auth[e.to])>>)
  /\ UNCHANGED <<sess, tables, crashed, got, lost>>

OnContactAuthIn(s, e) ==
  /\ e.ev = "EV_S_IN" /\ e.cmd = "CMD_SRV_CONTACT_AUTH"
  /\ Handle(s, e, <<>>, <<>>)
  /\ IF s # 0 /\ e.arg = "ACCEPT" THEN DbAddContact(e.to, e.from, "SUB_TO")
                                  ELSE UNCHANGED roster
  /\ UNCHANGED <<sess, auth, message, crashed, got, lost>>

\* Seeded bug: presence goes on notifying him who deleted the contact.
OnDelContactInRosterOnly(s, e) ==
  /\ e.ev = "EV_S_IN" /\ e.cmd = "CMD_SRV_DEL_CONTACT"
  /\ Handle(s, e, <<>>, <<>>)
  /\ DbDelContact(e.to, e.from, "SUB_FROM")
  /\ UNCHANGED <<sess, auth, message, crashed, got, lost>>

\* presence and roster.
OnDelContactIn(s, e) ==
  /\ e.ev = "EV_S_IN" /\ e.cmd = "CMD_SRV_DEL_CONTACT"
  /\ Handle(s, e, <<>>, <<>>)
  /\ sess' = IF Attended(s) THEN [sess EXCEPT ![s].notifySet = @ \ {e.from}] ELSE sess
  /\ DbDelContact(e.to, e.from, "SUB_FROM")
  /\ UNCHANGED <<auth, message, crashed, got, lost>>

\* The message module stops it for a session; roster and offline see the rest.
OnMessageIn(s, e) ==
  /\ e.ev = "EV_S_IN" /\ e.cmd = "CMD_SRV_MESSAGE"
  /\ Handle(s, e, <<>>, <<>>)
  /\ IF s # 0
     THEN Given(s, {e.id}) /\ UNCHANGED <<roster, message>>
     ELSE /\ message' = [message EXCEPT ![e.to] = Append(@, e.id)]
          /\ IF e.arg = "AUTH_ACCEPT" THEN DbAddContact(e.to, e.from, "SUB_TO")
                                      ELSE UNCHANGED roster
          /\ UNCHANGED <<got, lost>>
  /\ UNCHANGED <<sess, auth, crashed>>

OnContactInfoIn(s, e) ==
  /\ e.ev = "EV_S_IN" /\ e.cmd = "CMD_SRV_CONTACT_INFO"
  /\ Handle(s, e, <<>>, <<In("CMD_SRV_CONTACT_INFO_REPLY", e.to, e.from, TRUE, "")>>)
  /\ UNCHANGED <<sess, tables, crashed, got, lost>>

\* onContactInfoReply uses ev->s.
OnContactInfoReply(s, e) ==
  /\ e.ev = "EV_S_IN" /\ e.cmd = "CMD_SRV_CONTACT_INFO_REPLY"
  /\ Handle(s, e, <<>>, <<>>)
  /\ crashed' = (s = 0)
  /\ UNCHANGED <<sess, tables, got, lost>>

-----------------------------------------------------------------------------
SessionStep(s, e) ==
  \/ OnSession(s, e)
  \/ OnSessionEnd(s, e)
  \/ OnChangeStatus(s, e)
  \/ OnRequest(s, e)
  \/ OnDelContact(s, e)
  \/ OnMessage(s, e)

EventStep(s, e) ==
  \/ OnContactAuthOut(s, e)
  \/ OnMessageOut(s, e)
  \/ OnUserStatus(s, e)
  \/ OnProbeStatus(s, e)
  \/ OnAddContactIn(s, e)
  \/ OnContactAuthIn(s, e)
  \/ OnDelContactIn(s, e)
  \/ OnMessageIn(s, e)
  \/ OnContactInfoIn(s, e)
  \/ OnContactInfoReply(s, e)

MessengerNext ==
  \/ \E u \in Users :
       \/ \E status \in Statuses : Login(u, status)
       \/ Logout(u)
       \/ \E status \in Statuses : Command(u, "CMD_CHANGE_STATUS", u, status)
       \/ \E to \in Users \ {u} :
            \/ \E cmd \in {"CMD_ADD_CONTACT", "CMD_DEL_CONTACT", "CMD_GET_CONTACT_INFO"} :
                 Command(u, cmd, to, "")
            \/ \E type \in {"TEXT", "AUTH_ACCEPT"} : Command(u, "CMD_MESSAGE", to, type)
  \/ \E s \in DOMAIN queue : Sweep(s) \/ Overtake(s)
  \/ \E s \in DOMAIN queue : \E e \in ToSet(queue[s]) : SessionStep(s, e) \/ EventStep(s, e)
  \/ \E e \in BagToSet(loose) : EventStep(0, e)
  \/ SmReceives
  \/ DeliverLocal

MessengerSpec == MessengerInit /\ [][MessengerNext]_messengerVars

-----------------------------------------------------------------------------
(***************************************************************************)
(* Properties.                                                             *)
(***************************************************************************)

\* Nothing is under way: the system is at rest.
Quiet ==
  /\ ~crashed /\ loose = EmptyBag /\ smIn = <<>> /\ smOut = <<>>
  /\ \A s \in DOMAIN queue : queue[s] = <<>> /\ ~sess[s].sweep

SessionsOf(u) == {s \in DOMAIN sess : sess[s].user = u}

\* Where the promises end: the user logged in again, so that two threads worked
\* for him, or something went astray, as a packet behind his last event does.
InOrder(u) == u \notin astray /\ Cardinality(SessionsOf(u)) <= 1

\* The status of c as his contacts should see it.
Visible(c) == IF hash[c] = 0 \/ sess[hash[c]].status = "INVIS" THEN "OFFLINE"
              ELSE sess[hash[c]].status

\* At rest, a client that some session of a contact tells of its status shows the
\* status the contact last chose, and OFFLINE once he has left or turned invisible,
\* whatever answers to probes, changes and logins of others crossed on the way and
\* whether he is on the client's list or not (presence.cpp).  Excepted (astray) are,
\* among others, users for whom a packet was posted before EV_SESSION or behind
\* EV_S_END: a probe that comes so late is answered with the ONLINE of a user who
\* is gone (icqmain.cpp:312, presence.cpp:183).
\* And sm has one session of each user who is logged in and none of the others,
\* even if the end of an old session and the start of the next one are handled
\* on two threads and reported the wrong way round (client.cpp:46).
ViewsAgree ==
  /\ MessengerTypeOK
  /\ Quiet => \A u, c \in Users :
       /\ InOrder(u) /\ InOrder(c) /\ hash[u] # 0
       /\ \E s \in SessionsOf(c) : u \in sess[s].notifySet
       => sess[hash[u]].view[c] = Visible(c)
  /\ Quiet => \A u \in Users :
       Cardinality({k \in DOMAIN smHash : smHash[k].name = u}) = IF hash[u] = 0 THEN 0 ELSE 1

\* Whoever is on a user's contact list has that user among those he tells of his
\* status, at any time: the two rows of a relation, written by handlers of two
\* users on different threads, agree (roster.cpp, dbAddContact, dbDelContact).
WatchedKnows ==
  \A u, c \in Users :
    InOrder(u) /\ InOrder(c) /\ "SUB_TO" \in roster[u][c] => "SUB_FROM" \in roster[c][u]

\* From its first event on, the set of users whom a session tells of its status
\* holds only users who subscribed, and all of them if its user was never
\* invisible: the copy that presence keeps for a session follows the table that
\* roster writes (presence.cpp:162, 236, 295).
NotifiesSubscribers ==
  \A c \in Users : hash[c] # 0 /\ InOrder(c) =>
    LET s == hash[c]
        subscribers == {u \in Users : "SUB_FROM" \in roster[c][u]}
    IN (\A k \in DOMAIN queue[s] : queue[s][k].ev # "EV_SESSION") =>
         /\ sess[s].notifySet \subseteq subscribers
         /\ sess[s].shown => sess[s].notifySet = subscribers

Copies(m) ==
  Cardinality({u \in Users : m \in ToSet(message[u])})
    + Cardinality({e \in UnderWay : e.id = m})

\* A message is always in one place, an event, a packet or a row of the table,
\* until its addressee is given it; it is lost only with a session that has left
\* the hash, or when the offline module deletes rows it did not read
\* (offline.cpp:63).
NoMessageVanishes ==
  [][\A m \in Messages :
       Copies(m) = 1 => Copies(m)' = 1 \/ m \in got' \cup lost']_messengerVars
=============================================================================
