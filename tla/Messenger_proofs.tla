-------------------------- MODULE Messenger_proofs --------------------------
(***************************************************************************)
(* More about the users, from the invariants of DownLink_proofs: at rest   *)
(* clients show the right status, and a message is in one place until it   *)
(* is given or lost.  For every value of the constants.                    *)
(***************************************************************************)
EXTENDS DownLink_proofs

-----------------------------------------------------------------------------
(***************************************************************************)
(* What a handler sends, and who is asked.                                 *)
(***************************************************************************)

\* A step adds to what is under way nothing, a mark or a command; or it is a handler's.
LEMMA StepsCalm ==
  ASSUME Base, Base', Stepped
  PROVE  Calm \/ UnderWay' \subseteq UnderWay \/ \E s, e : Handles(s, e)
<1>1. CASE \E u \in Users, status \in Statuses : \E n : Begins(u, status, n)
  BY <1>1, CalmBegins
<1>2. CASE \E u \in Users : Leaves(u)
  <2>1. PICK u \in Users : Leaves(u)
    BY <1>2
  <2>2. EndMark(u) \in Marks
    BY DEF EndMark, Item, Marks, Args
  <2>3. Idle(EndMark(u)) /\ Comes(hash[u], EndMark(u))
    BY <2>1, <2>2, ReportIdle DEF Leaves
  <2> QED
    BY <2>2, <2>3, CalmComes
<1>3. CASE \E u \in Users : \E e : Enters(u, e)
  <2>0. PICK u \in Users : \E e : Enters(u, e)
    BY <1>3
  <2>1. PICK e : Enters(u, e)
    BY <2>0
  <2>2. e \in Packets /\ e.cmd \in Clicked /\ e.ev = "EV_S_OUT" /\ Comes(hash[u], e)
    BY <2>1 DEF Enters
  <2>3. Idle(e)
    BY <2>2 DEF Clicked, Idle, Grants, Withdraws
  <2> QED
    BY <2>2, <2>3, CalmComes
<1>4. CASE \E s \in DOMAIN queue : Sweeps(s)
  BY <1>4 DEF Sweeps, UnderWay
<1>5. CASE \E e : Reads(e)
  BY <1>5, CalmReads
<1>6. CASE \E e : Arrives(e)
  BY <1>6, CalmArrives
<1>7. CASE UNCHANGED messengerVars
  BY <1>7 DEF messengerVars, tables, streams, UnderWay
<1>8. CASE \E s, k : Overtakes(s, k)
  BY <1>8, CalmOvertakes
<1> QED
  BY <1>1, <1>2, <1>3, <1>4, <1>5, <1>6, <1>7, <1>8 DEF Stepped

\* What the packets a handler sends have to do with it.
Fair(s, e, p) ==
  /\ p.cmd \in Notices => s # 0 /\ p.from = sess[s].user
  /\ p.cmd = "CMD_SRV_ADD_CONTACT" => s # 0 /\ p.from = sess[s].user
  /\ p.cmd = "CMD_SRV_CONTACT_AUTH" =>
       \/ e.cmd = "CMD_SRV_ADD_CONTACT" /\ p.to = e.from
       \/ e.cmd = "CMD_SRV_CONTACT_AUTH" /\ p.to = e.to
  /\ p.id # 0 => p.id = e.id

\* The event of a session belongs to its user.
LEMMA OwnerAt ==
  ASSUME Base, NEW s, NEW e, NEW req, NEW P, Moves(s, e, req, P), s # 0
  PROVE  /\ s \in DOMAIN queue /\ s \in DOMAIN sess /\ queue[s] # <<>> /\ e = Head(queue[s])
         /\ Owner(e) = sess[s].user
<1>1. s \in DOMAIN queue /\ queue[s] # <<>> /\ e = Head(queue[s])
  BY DEF Moves
<1> QED
  BY <1>1, AtWork

\* Probes and notices are sent in the name of the session's user.
LEMMA FairNotices ==
  ASSUME NEW s, s # 0, NEW e
  PROVE  \A x, arg : /\ Fair(s, e, ProbeTo(s, x)) /\ Fair(s, e, OnlineTo(s, x, arg))
                     /\ Fair(s, e, OfflineTo(s, x))
<1>1. \A x, arg :
        /\ ProbeTo(s, x).cmd = "CMD_SRV_PROBE_STATUS" /\ ProbeTo(s, x).from = sess[s].user
        /\ OnlineTo(s, x, arg).cmd = "CMD_SRV_USER_ONLINE" /\ OnlineTo(s, x, arg).from = sess[s].user
        /\ OfflineTo(s, x).cmd = "CMD_SRV_USER_OFFLINE" /\ OfflineTo(s, x).from = sess[s].user
        /\ ProbeTo(s, x).id = 0 /\ OnlineTo(s, x, arg).id = 0 /\ OfflineTo(s, x).id = 0
  BY DEF ProbeTo, OnlineTo, OfflineTo, In, Item
<1> QED
  BY <1>1 DEF Fair, Notices

\* The handlers of a session's own events send only what is fair.
LEMMA FairSession ==
  ASSUME Base, NEW s \in DOMAIN queue, NEW e, SessionStep(s, e)
  PROVE  \E req, P : Moves(s, e, req, P) /\ req \in Seq(Reports) /\ \A p \in P : Fair(s, e, p)
<1>1. s # 0 /\ sess[s].user \in Users
  BY Shapes, SessionFields
<1>2. <<>> \in Seq(Reports)
  BY EmptySet
<1>3. CASE OnSession(s, e)
  <2> DEFINE P == {ProbeTo(s, x) : x \in Watched(s)} \cup {OnlineTo(s, x, e.arg) : x \in Told(s, e)}
             r == Item("SM_ADD_SESSION", "", sess[s].user, Nobody, FALSE, e.arg, 0)
  <2>1. Moves(s, e, <<r>>, P) /\ e \in Marks
    BY <1>3, DoSession
  <2>2. r \in Reports
    BY <1>1, <2>1, MarkFields, NewReport
  <2>3. \A f \in P : Fair(s, e, f)
    BY <1>1, FairNotices
  <2>4. <<r>> \in Seq(Reports)
    BY <2>2, OneSet
  <2> HIDE DEF P, r
  <2> QED
    BY <2>1, <2>3, <2>4
<1>4. CASE OnSessionEnd(s, e)
  <2> DEFINE P == {OfflineTo(s, x) : x \in Parting(s)}
             r == Item("SM_REMOVE_SESSION", "", sess[s].user, Nobody, FALSE, "", 0)
  <2>1. Moves(s, e, <<r>>, P)
    BY <1>4, DoSessionEnd
  <2>2. r \in Reports
    BY <1>1, NewReport DEF Args
  <2>3. \A f \in P : Fair(s, e, f)
    BY <1>1, FairNotices
  <2>4. <<r>> \in Seq(Reports)
    BY <2>2, OneSet
  <2> HIDE DEF P, r
  <2> QED
    BY <2>1, <2>3, <2>4
<1>5. CASE OnChangeStatus(s, e)
  <2>1. PICK online \in BOOLEAN :
              Moves(s, e, <<Item("SM_REQUEST", e.cmd, sess[s].user, Nobody, FALSE, e.arg, 0)>>,
                  {Notice(s, e, x, online) : x \in Noticed(s, e)})
    BY <1>5, DoChangeStatus
  <2> DEFINE P == {Notice(s, e, x, online) : x \in Noticed(s, e)}
             r == Item("SM_REQUEST", e.cmd, sess[s].user, Nobody, FALSE, e.arg, 0)
  <2>2. e \in Packets /\ e.cmd = "CMD_CHANGE_STATUS"
    BY <1>5, DoChangeStatus DEF OnChangeStatus
  <2>3. r \in Reports
    BY <1>1, <2>2, PacketFields, NewReport
  <2>4. \A f \in P : Fair(s, e, f)
    <3> SUFFICES ASSUME NEW x PROVE Fair(s, e, Notice(s, e, x, online))
      OBVIOUS
    <3>1. Notice(s, e, x, online).cmd \in Notices /\ Notice(s, e, x, online).from = sess[s].user
          /\ Notice(s, e, x, online).id = 0
      BY DEF Notice, StatusNotice, In, Item, Notices
    <3> QED
      BY <1>1, <3>1 DEF Notices, Fair
  <2>5. <<r>> \in Seq(Reports)
    BY <2>3, OneSet
  <2>6. Moves(s, e, <<r>>, P)
    BY <2>1
  <2> HIDE DEF P, r
  <2> QED
    BY <2>4, <2>5, <2>6
<1>6. CASE OnRequest(s, e)
  <2>1. Moves(s, e, <<>>, {Request(e)}) /\ e.ev = "EV_S_OUT"
    BY <1>6, DoRequest
  <2>2. e.from = sess[s].user
    BY <1>1, <2>1, OwnerAt DEF Owner
  <2>3. /\ Request(e).cmd \in {"CMD_SRV_ADD_CONTACT", "CMD_SRV_CONTACT_INFO"}
        /\ Request(e).from = e.from /\ Request(e).id = 0
    BY DEF Request, In, Item
  <2>4. \A p \in {Request(e)} : Fair(s, e, p)
    BY <1>1, <2>2, <2>3 DEF Fair, Notices
  <2> DEFINE P == {Request(e)}
             req == <<>>
  <2>5. Moves(s, e, req, P) /\ req \in Seq(Reports) /\ \A p \in P : Fair(s, e, p)
    BY <1>2, <2>1, <2>4
  <2> HIDE DEF P, req
  <2> QED
    BY <2>5
<1>7. CASE OnDelContact(s, e)
  <2>1. PICK P \in SUBSET {Removal(e)} : Moves(s, e, <<>>, P)
    BY <1>7, DoDelContact
  <2>2. Removal(e).cmd = "CMD_SRV_DEL_CONTACT" /\ Removal(e).id = 0
    BY DEF Removal, In, Item
  <2>3. \A p \in P : Fair(s, e, p)
    BY <2>2 DEF Fair, Notices
  <2> QED
    BY <1>2, <2>1, <2>3
<1>8. CASE OnMessage(s, e)
  <2>1. Moves(s, e, <<>>, {Letter(e)}) /\ e \in Packets /\ e.cmd = "CMD_MESSAGE"
    BY <1>8, DoMessage
  <2>2. Letter(e).cmd = "CMD_SRV_MESSAGE" /\ Letter(e).id = e.id
    BY <2>1, Submitted DEF Letter
  <2>3. \A p \in {Letter(e)} : Fair(s, e, p)
    BY <2>2 DEF Fair, Notices
  <2> DEFINE P == {Letter(e)}
             req == <<>>
  <2>4. Moves(s, e, req, P) /\ req \in Seq(Reports) /\ \A p \in P : Fair(s, e, p)
    BY <1>2, <2>1, <2>3
  <2> HIDE DEF P, req
  <2> QED
    BY <2>4
<1> QED
  BY <1>3, <1>4, <1>5, <1>6, <1>7, <1>8 DEF SessionStep

\* The handlers of all other events send only what is fair.
LEMMA FairEvent ==
  ASSUME Base, NEW s \in {0} \cup DOMAIN queue, NEW e, EventStep(s, e)
  PROVE  \E P : Moves(s, e, <<>>, P) /\ \A p \in P : Fair(s, e, p)
<1>1. \A x : \A p \in Welcome(s, x) : Fair(s, e, p)
  BY FairNotices DEF Welcome, Attended
<1>3. CASE OnContactAuthOut(s, e)
  <2>1. Moves(s, e, <<>>, Answers(s, e)) /\ e \in Packets /\ e.cmd = "CMD_SRV_CONTACT_AUTH"
    BY <1>3, DoAuthOut
  <2>2. Passed(e).cmd = "CMD_SRV_CONTACT_AUTH" /\ Passed(e).to = e.to /\ Passed(e).id = e.id
    BY <2>1, Forwarded DEF Passed
  <2>3. Fair(s, e, Passed(e))
    BY <2>1, <2>2 DEF Fair, Notices
  <2>4. AddedNote(e).cmd = "CMD_SRV_MESSAGE" /\ AddedNote(e).id = 0
    BY DEF AddedNote, In, Item
  <2>5. Fair(s, e, AddedNote(e))
    BY <2>4 DEF Fair, Notices
  <2>6. \A p \in Answers(s, e) : Fair(s, e, p)
    BY <1>1, <2>3, <2>5 DEF Answers
  <2> QED
    BY <2>1, <2>6
<1>4. CASE OnMessageOut(s, e)
  <2> DEFINE P == (IF Accepts(s, e) THEN Welcome(s, e.to) ELSE {}) \cup {Passed(e)}
  <2>1. Moves(s, e, <<>>, P) /\ e \in Packets /\ e.cmd = "CMD_SRV_MESSAGE"
    BY <1>4, DoMessageOut
  <2>2. Passed(e).cmd = "CMD_SRV_MESSAGE" /\ Passed(e).id = e.id
    BY <2>1, Forwarded DEF Passed
  <2>3. Fair(s, e, Passed(e))
    BY <2>2 DEF Fair, Notices
  <2>4. \A p \in P : Fair(s, e, p)
    BY <1>1, <2>3
  <2> HIDE DEF P
  <2> QED
    BY <2>1, <2>4
<1>5. CASE OnUserStatus(s, e)
  <2>1. Moves(s, e, <<>>, {})
    BY <1>5, DoUserStatus
  <2> QED
    BY <2>1
<1>6. CASE OnProbeStatus(s, e)
  <2> DEFINE P == IF Answering(s, e) THEN {OnlineTo(s, e.from, sess[s].status)} ELSE {}
  <2>1. Moves(s, e, <<>>, P)
    BY <1>6, DoProbeStatus
  <2>2. \A p \in P : Fair(s, e, p)
    BY FairNotices DEF Answering, Attended
  <2> HIDE DEF P
  <2> QED
    BY <2>1, <2>2
<1>7. CASE OnAddContactIn(s, e)
  <2>1. Moves(s, e, <<>>, {Answer(e)}) /\ e.cmd = "CMD_SRV_ADD_CONTACT"
    BY <1>7, DoAddContactIn
  <2>2. Answer(e).cmd = "CMD_SRV_CONTACT_AUTH" /\ Answer(e).to = e.from /\ Answer(e).id = 0
    BY DEF Answer, Out, Item
  <2>3. \A p \in {Answer(e)} : Fair(s, e, p)
    BY <2>1, <2>2 DEF Fair, Notices
  <2> QED
    BY <2>1, <2>3
<1>8. CASE OnContactAuthIn(s, e)
  <2>1. Moves(s, e, <<>>, {})
    BY <1>8, DoAuthIn
  <2> QED
    BY <2>1
<1>9. CASE OnDelContactIn(s, e)
  <2>1. Moves(s, e, <<>>, {})
    BY <1>9, DoDelContactIn
  <2> QED
    BY <2>1
<1>10. CASE OnMessageIn(s, e)
  <2>1. Moves(s, e, <<>>, {})
    BY <1>10, DoMessageIn
  <2> QED
    BY <2>1
<1>11. CASE OnContactInfoIn(s, e)
  <2>1. Moves(s, e, <<>>, {Reply(e)})
    BY <1>11, DoInfoIn
  <2>2. Reply(e).cmd = "CMD_SRV_CONTACT_INFO_REPLY" /\ Reply(e).id = 0
    BY DEF Reply, In, Item
  <2>3. \A p \in {Reply(e)} : Fair(s, e, p)
    BY <2>2 DEF Fair, Notices
  <2> QED
    BY <2>1, <2>3
<1>12. CASE OnContactInfoReply(s, e)
  <2>1. Moves(s, e, <<>>, {})
    BY <1>12, DoInfoReply
  <2> QED
    BY <2>1
<1> QED
  BY <1>3, <1>4, <1>5, <1>6, <1>7, <1>8, <1>9, <1>10, <1>11, <1>12 DEF EventStep

\* Every handler sends only what is fair.
LEMMA HandlesFair ==
  ASSUME Base, NEW s, NEW e, Handles(s, e)
  PROVE  \E req, P : Moves(s, e, req, P) /\ req \in Seq(Reports) /\ \A p \in P : Fair(s, e, p)
<1>1. CASE s \in DOMAIN queue /\ SessionStep(s, e)
  BY <1>1, FairSession
<1>2. CASE s \in {0} \cup DOMAIN queue /\ EventStep(s, e)
  <2>1. <<>> \in Seq(Reports)
    BY EmptySet
  <2> QED
    BY <1>2, <2>1, FairEvent
<1> QED
  BY <1>1, <1>2 DEF Handles

AskedInv ==
  \A e \in UnderWay :
    /\ e.cmd = "CMD_SRV_ADD_CONTACT" => SessionsOf(e.from) # {}
    /\ e.cmd = "CMD_SRV_CONTACT_AUTH" => SessionsOf(e.to) # {}

\* Sessions are never forgotten.
LEMMA SessionsStay ==
  ASSUME Base, Base', Stepped
  PROVE  \A u : SessionsOf(u) # {} => SessionsOf(u)' # {}
<1>1. Len(sess') >= Len(sess) /\ \A i \in DOMAIN sess : sess'[i].user = sess[i].user
  <2>1. CASE \E u \in Users, status \in Statuses : \E n : Begins(u, status, n)
    BY <2>1, Shapes DEF Begins
  <2>2. CASE \E s, e : Handles(s, e)
    BY <2>2, BaseHandles, Shapes DEF Acts
  <2>3. CASE \E s \in DOMAIN queue : Sweeps(s)
    BY <2>3, Shapes DEF Sweeps
  <2>4. CASE sess' = sess
    BY <2>4, Shapes
  <2>5. (\E u \in Users : Leaves(u)) \/ (\E u \in Users : \E e : Enters(u, e)) \/ (\E e : Reads(e))
        \/ (\E e : Arrives(e)) \/ UNCHANGED messengerVars \/ (\E s, k : Overtakes(s, k)) => sess' = sess
    BY DEF Leaves, Enters, Comes, Reads, Arrives, Overtakes, messengerVars
  <2> QED
    BY <2>1, <2>2, <2>3, <2>4, <2>5 DEF Stepped
<1>2. DOMAIN sess \subseteq DOMAIN sess'
  <2>1. DOMAIN sess = 1 .. Len(sess) /\ Len(sess) \in Nat
    BY Shapes
  <2>2. DOMAIN sess' = 1 .. Len(sess') /\ Len(sess') \in Nat
    BY DEF Base, Typed
  <2> QED
    BY <1>1, <2>1, <2>2
<1> QED
  BY <1>1, <1>2 DEF SessionsOf

\* Every step keeps AskedInv.
LEMMA AskedSteps ==
  ASSUME Base, Base', AskedInv, Stepped
  PROVE  AskedInv'
<1> SUFFICES ASSUME NEW f \in UnderWay'
             PROVE  /\ f.cmd = "CMD_SRV_ADD_CONTACT" => SessionsOf(f.from)' # {}
                    /\ f.cmd = "CMD_SRV_CONTACT_AUTH" => SessionsOf(f.to)' # {}
  BY DEF AskedInv
<1>1. CASE f \in UnderWay
  BY <1>1, SessionsStay DEF AskedInv
<1>2. ASSUME Idle(f)
      PROVE  f.cmd \notin {"CMD_SRV_ADD_CONTACT", "CMD_SRV_CONTACT_AUTH"}
  <2>1. f \in Packets \cup Marks \cup Reports
    <3>1. Base' => (UnderWay \subseteq Packets \cup Marks \cup Reports)'
      BY UnderWayTyped, PTL
    <3> QED
      BY <3>1
  <2>2. CASE f \in Packets
    BY <1>2, <2>2, PacketFields DEF Idle, Grants
  <2>3. CASE f \in Marks \cup Reports
    BY <2>3 DEF Marks, Reports
  <2> QED
    BY <2>1, <2>2, <2>3
<1>3. CASE Calm
  BY <1>1, <1>2, <1>3 DEF Calm
<1>4. CASE UnderWay' \subseteq UnderWay
  BY <1>1, <1>4
<1>5. CASE \E s, e : Handles(s, e)
  <2>1. PICK s, e : Handles(s, e)
    BY <1>5
  <2>2. PICK req, P : Moves(s, e, req, P) /\ req \in Seq(Reports) /\ \A p \in P : Fair(s, e, p)
    BY <2>1, HandlesFair
  <2>3. UnderWay' \subseteq UnderWay \cup ToSet(req) \cup P /\ e \in UnderWay
    BY <2>2, MovesAdd
  <2>4. CASE f \in ToSet(req)
    BY <1>2, <2>2, <2>4, ElementsSeq, ReportIdle
  <2>5. CASE f \in P
    <3>1. Fair(s, e, f)
      BY <2>2, <2>5
    <3>2. f.cmd = "CMD_SRV_ADD_CONTACT" => SessionsOf(f.from) # {}
      BY <2>2, <3>1, OwnerAt DEF Fair, SessionsOf
    <3>3. f.cmd = "CMD_SRV_CONTACT_AUTH" => SessionsOf(f.to) # {}
      BY <2>3, <3>1 DEF Fair, AskedInv
    <3> QED
      BY <3>2, <3>3, SessionsStay
  <2> QED
    BY <1>1, <2>3, <2>4, <2>5
<1> QED
  BY <1>3, <1>4, <1>5, StepsCalm


\* Initially nothing is under way.
LEMMA AskedFirst == MessengerInit => AskedInv
  BY UnderWayInit DEF AskedInv

-----------------------------------------------------------------------------
(***************************************************************************)
(* Who is watched has his watcher on his list, before the watcher's first  *)
(* session.                                                                *)
(***************************************************************************)

\* A message by which c puts himself on u's list.
Accepted(f, u, c) ==
  /\ f.ev = "EV_S_IN" /\ f.cmd = "CMD_SRV_MESSAGE" /\ f.arg = "AUTH_ACCEPT"
  /\ f.from = c /\ f.to = u

\* One is on its way outside the queues, so that it may be handled without a session.
Accepting(u, c) == \E f \in Outside : Accepted(f, u, c)

\* c has u down as one who is told of his status.
Watches(c, u) ==
  "SUB_FROM" \in roster[c][u] \/ \E s \in SessionsOf(c) : u \in sess[s].notifySet

NewcomerInv ==
  \A u, c \in Users : SessionsOf(u) = {} /\ Watches(c, u) =>
                        "SUB_TO" \in roster[u][c] \/ Accepting(u, c)

\* A user who never had a session is not in the hash.
LEMMA NewcomerAway ==
  ASSUME Base, NEW u \in Users, SessionsOf(u) = {}
  PROVE  hash[u] = 0
  BY Shapes DEF SessionsOf

\* What a handler leaves outside the queues, and what it adds there.
LEMMA OutsideKept ==
  ASSUME Base, NEW s, NEW e, NEW req \in Seq(Reports), NEW P, Moves(s, e, req, P)
  PROVE  /\ Outside \subseteq Outside' \cup (IF s = 0 THEN {e} ELSE {})
         /\ {p \in P : p.ev = "EV_S_IN" /\ hash[p.to] = 0} \subseteq Outside'
<1> DEFINE S == Incoming \cup Reports
<1>1. PICK t \in Seq(Incoming) : smIn' = (smIn \o req) \o t
                                 /\ ToSet(t) = {p \in P : p.ev = "EV_S_IN" /\ hash[p.to] = 0}
  BY DEF Moves
<1>2. smIn \in Seq(S) /\ req \in Seq(S) /\ t \in Seq(S)
  BY ElementsSeq DEF Base, Typed
<1> HIDE DEF S
<1> DEFINE q == smIn \o req
<1>3. q \in Seq(S) /\ ToSet(q) = ToSet(smIn) \cup ToSet(req)
  BY <1>2, JoinedSeq
<1>4. smIn' = q \o t
  BY <1>1
<1> HIDE DEF q
<1>5. ToSet(smIn') = ToSet(q) \cup ToSet(t)
  BY <1>2, <1>3, <1>4, JoinedSeq
<1>6. smOut' = smOut /\ DOMAIN loose \subseteq DOMAIN loose' \cup (IF s = 0 THEN {e} ELSE {})
  BY DEF Moves
<1>7. Outside' = DOMAIN loose' \cup ToSet(smIn') \cup ToSet(smOut')
  BY DEF Outside, BagToSet
<1>8. Outside = DOMAIN loose \cup ToSet(smIn) \cup ToSet(smOut)
  BY DEF Outside, BagToSet
<1> QED
  BY <1>1, <1>3, <1>5, <1>6, <1>7, <1>8

\* Handlers of events take nobody off the list of the event's user.
LEMMA EventKeepsTo ==
  ASSUME Base, NEW s \in {0} \cup DOMAIN queue, NEW e, EventStep(s, e), NEW u \in Users,
         NEW c \in Users, "SUB_TO" \in roster[u][c]
  PROVE  "SUB_TO" \in roster'[u][c]
<1>1. CASE roster' = roster
  BY <1>1
<1>2. ASSUME NEW x \in Users, NEW y \in Users, NEW X, RowIs(x, y, X),
             "SUB_TO" \in roster[x][y] => "SUB_TO" \in X
      PROVE  "SUB_TO" \in roster'[u][c]
  BY <1>2 DEF RowIs
<1>3. \A x \in Packets : x.from \in Users /\ x.to \in Users
  BY PacketFields
<1>4. CASE OnContactAuthOut(s, e)
  <2>1. e \in Packets /\ (roster' = roster \/ RowIs(e.from, e.to, roster[e.from][e.to] \cup {"SUB_FROM"}))
    BY <1>4, DoAuthOut
  <2> QED
    BY <1>1, <1>2, <1>3, <2>1
<1>5. CASE OnMessageOut(s, e)
  <2>1. e \in Packets /\ (roster' = roster \/ RowIs(e.from, e.to, roster[e.from][e.to] \cup {"SUB_FROM"}))
    BY <1>5, DoMessageOut
  <2> QED
    BY <1>1, <1>2, <1>3, <2>1
<1>6. CASE OnContactAuthIn(s, e)
  <2>1. e \in Packets /\ (roster' = roster \/ RowIs(e.to, e.from, roster[e.to][e.from] \cup {"SUB_TO"}))
    BY <1>6, DoAuthIn
  <2> QED
    BY <1>1, <1>2, <1>3, <2>1
<1>7. CASE OnDelContactIn(s, e)
  <2>1. e \in Packets /\ RowIs(e.to, e.from, roster[e.to][e.from] \ {"SUB_FROM"})
    BY <1>7, DoDelContactIn
  <2> QED
    BY <1>2, <1>3, <2>1
<1>8. CASE OnMessageIn(s, e)
  <2>1. e \in Packets /\ (roster' = roster \/ RowIs(e.to, e.from, roster[e.to][e.from] \cup {"SUB_TO"}))
    BY <1>8, DoMessageIn
  <2> QED
    BY <1>1, <1>2, <1>3, <2>1
<1>9. CASE OnUserStatus(s, e) \/ OnProbeStatus(s, e) \/ OnAddContactIn(s, e)
           \/ OnContactInfoIn(s, e) \/ OnContactInfoReply(s, e)
  BY <1>1, <1>9, DoUserStatus, DoProbeStatus, DoAddContactIn, DoInfoIn, DoInfoReply
<1> QED
  BY <1>4, <1>5, <1>6, <1>7, <1>8, <1>9 DEF EventStep

\* An accepting message that is handled without a session puts its sender on the list.
LEMMA AcceptedNow ==
  ASSUME Base, NEW e, EventStep(0, e), NEW u \in Users, NEW c \in Users, Accepted(e, u, c)
  PROVE  "SUB_TO" \in roster'[u][c]
<1>1. e.ev = "EV_S_IN" /\ e.cmd = "CMD_SRV_MESSAGE" /\ e.arg = "AUTH_ACCEPT" /\ e.from = c /\ e.to = u
  BY DEF Accepted
<1>2. OnMessageIn(0, e)
  BY <1>1 DEF EventStep, OnContactAuthOut, OnMessageOut, OnUserStatus, OnProbeStatus, OnAddContactIn,
              OnContactAuthIn, OnDelContactIn, OnContactInfoIn, OnContactInfoReply
<1>3. RowIs(u, c, roster[u][c] \cup {"SUB_TO"})
  BY <1>1, <1>2, DoMessageIn
<1> QED
  BY <1>3 DEF RowIs

\* c watches u afterwards only if he did before, or the step made him.
LEMMA WatchesBefore ==
  ASSUME Base, NEW s, NEW e, Acts(s, e), NEW u \in Users, NEW c \in Users, Watches(c, u)',
         "SUB_FROM" \in roster'[c][u] => Watches(c, u),
         s \in SessionsOf(c) /\ u \in sess'[s].notifySet => Watches(c, u)
  PROVE  Watches(c, u)
<1>1. CASE "SUB_FROM" \in roster'[c][u]
  BY <1>1
<1>2. ASSUME NEW i \in SessionsOf(c)', u \in sess'[i].notifySet
      PROVE  Watches(c, u)
  <2>1. i \in DOMAIN sess /\ sess'[i].user = sess[i].user /\ sess[i].user = c
    <3>1. DOMAIN sess' = DOMAIN sess
      BY Shapes DEF Acts
    <3>2. i \in DOMAIN sess' /\ sess'[i].user = c
      BY <1>2 DEF SessionsOf
    <3> QED
      BY <3>1, <3>2 DEF Acts
  <2>2. i \in SessionsOf(c)
    BY <2>1 DEF SessionsOf
  <2>3. CASE i = s
    BY <1>2, <2>2, <2>3
  <2>4. CASE i # s
    <3>1. sess'[i] = sess[i]
      BY <2>1, <2>4 DEF Acts
    <3> QED
      BY <1>2, <2>2, <3>1 DEF Watches
  <2> QED
    BY <2>3, <2>4
<1> QED
  BY <1>1, <1>2 DEF Watches

\* The handlers of a session's own events add no watcher.
LEMMA WatchesSession ==
  ASSUME Base, NEW s \in DOMAIN queue, NEW e, SessionStep(s, e), NEW u \in Users, NEW c \in Users,
         Watches(c, u)'
  PROVE  Watches(c, u)
<1>1. Acts(s, e) /\ s \in DOMAIN sess
  BY BaseHandles, Shapes DEF Handles
<1>2. ASSUME "SUB_FROM" \in roster'[c][u] => "SUB_FROM" \in roster[c][u],
             sess'[s].notifySet = sess[s].notifySet
      PROVE  Watches(c, u)
  BY <1>1, <1>2, WatchesBefore DEF Watches
<1>3. CASE OnSession(s, e)
  <2>1. roster' = roster /\ sess'[s].notifySet = Told(s, e)
    BY <1>3, ActsSession
  <2>2. s \in SessionsOf(c) /\ u \in sess'[s].notifySet => Watches(c, u)
    BY <2>1 DEF SessionsOf, Told, Watches
  <2>3. "SUB_FROM" \in roster'[c][u] => Watches(c, u)
    BY <2>1 DEF Watches
  <2> QED
    BY <1>1, <2>2, <2>3, WatchesBefore
<1>4. CASE OnSessionEnd(s, e)
  BY <1>2, <1>4, ActsSessionEnd
<1>5. CASE OnChangeStatus(s, e)
  BY <1>2, <1>5, ActsChangeStatus
<1>6. CASE OnRequest(s, e)
  BY <1>2, <1>6, DoRequest
<1>7. CASE OnDelContact(s, e)
  <2>1. sess' = sess /\ RowIs(e.from, e.to, roster[e.from][e.to] \ {"SUB_TO"}) /\ e \in Packets
    BY <1>7, DoDelContact
  <2>2. "SUB_FROM" \in roster'[c][u] => "SUB_FROM" \in roster[c][u]
    BY <2>1, PacketFields DEF RowIs
  <2> QED
    BY <1>2, <2>1, <2>2
<1>8. CASE OnMessage(s, e)
  BY <1>2, <1>8, DoMessage
<1> QED
  BY <1>3, <1>4, <1>5, <1>6, <1>7, <1>8 DEF SessionStep

\* A message that puts its sender on the list of a user without a session leaves
\* on the way by sm.
LEMMA AcceptsBySm ==
  ASSUME Base, NEW s \in {0} \cup DOMAIN queue, NEW e, OnMessageOut(s, e), Accepts(s, e),
         NEW u \in Users, SessionsOf(u) = {}, e.to = u
  PROVE  Accepting(u, e.from)'
<1> DEFINE P == (IF Accepts(s, e) THEN Welcome(s, e.to) ELSE {}) \cup {Passed(e)}
           req == <<>>
<1>1. Moves(s, e, req, P) /\ e \in Packets /\ e.cmd = "CMD_SRV_MESSAGE"
  BY DoMessageOut
<1>2. /\ Passed(e).ev = "EV_S_IN" /\ Passed(e).cmd = "CMD_SRV_MESSAGE" /\ Passed(e).arg = e.arg
      /\ Passed(e).from = e.from /\ Passed(e).to = e.to
  BY <1>1, Forwarded DEF Passed
<1>3. Passed(e) \in P
  OBVIOUS
<1>4. req \in Seq(Reports)
  BY EmptySet
<1> HIDE DEF P, req
<1>5. Passed(e) \in Outside'
  BY <1>1, <1>2, <1>3, <1>4, NewcomerAway, OutsideKept
<1>6. Accepted(Passed(e), u, e.from)
  BY <1>2 DEF Accepted, Accepts
<1> QED
  BY <1>5, <1>6 DEF Accepting

\* A watcher is added by an answer to his request, or by a message that accepts
\* him.
LEMMA WatchesEvent ==
  ASSUME Base, NEW s \in {0} \cup DOMAIN queue, NEW e, EventStep(s, e), NEW u \in Users,
         NEW c \in Users, SessionsOf(u) = {}, Watches(c, u)'
  PROVE  Watches(c, u) \/ (e.cmd = "CMD_SRV_CONTACT_AUTH" /\ e.to = u) \/ Accepting(u, c)'
<1>1. Acts(s, e)
  BY BaseHandles DEF Handles
<1>2. ASSUME "SUB_FROM" \in roster'[c][u] => "SUB_FROM" \in roster[c][u],
             s \in DOMAIN sess => sess'[s].notifySet \subseteq sess[s].notifySet
      PROVE  Watches(c, u)
  <2>1. s \in SessionsOf(c) /\ u \in sess'[s].notifySet => Watches(c, u)
    BY <1>2 DEF SessionsOf, Watches
  <2>2. "SUB_FROM" \in roster'[c][u] => Watches(c, u)
    BY <1>2 DEF Watches
  <2> QED
    BY <1>1, <2>1, <2>2, WatchesBefore
<1>3. \A x \in Packets : x.from \in Users /\ x.to \in Users
  BY PacketFields
<1>4. s # 0 => s \in DOMAIN sess
  BY Shapes
<1>5. CASE OnContactAuthOut(s, e)
  <2>1. /\ e \in Packets /\ e.cmd = "CMD_SRV_CONTACT_AUTH"
        /\ roster' = roster \/ RowIs(e.from, e.to, roster[e.from][e.to] \cup {"SUB_FROM"})
        /\ sess' = sess \/ Turned(s, [sess[s] EXCEPT !.notifySet = sess[s].notifySet \cup {e.to}])
    BY <1>5, DoAuthOut
  <2>2. CASE e.to # u
    <3>1. "SUB_FROM" \in roster'[c][u] => "SUB_FROM" \in roster[c][u]
      BY <1>3, <2>1, <2>2 DEF RowIs
    <3>2. s \in DOMAIN sess /\ u \in sess'[s].notifySet => u \in sess[s].notifySet
      <4>1. s \in DOMAIN sess => sess[s] \in Session
        BY SessionFields
      <4> QED
        BY <2>1, <2>2, <4>1 DEF Turned, Session
    <3>3. s \in SessionsOf(c) /\ u \in sess'[s].notifySet => Watches(c, u)
      BY <3>2 DEF SessionsOf, Watches
    <3>4. "SUB_FROM" \in roster'[c][u] => Watches(c, u)
      BY <3>1 DEF Watches
    <3> QED
      BY <1>1, <3>3, <3>4, WatchesBefore
  <2> QED
    BY <2>1, <2>2
<1>6. CASE OnMessageOut(s, e)
  <2>1. e \in Packets
    BY <1>6, DoMessageOut
  <2>2. CASE ~Accepts(s, e)
    <3>1. roster' = roster /\ sess' = sess
      BY <1>6, <2>2, DoMessageOut
    <3> QED
      BY <1>2, <3>1
  <2>3. CASE Accepts(s, e)
    <3>1. /\ RowIs(e.from, e.to, roster[e.from][e.to] \cup {"SUB_FROM"})
          /\ \/ Turned(s, [sess[s] EXCEPT !.notifySet = sess[s].notifySet \cup {e.to}])
             \/ sess' = sess
          /\ e.ev = "EV_S_OUT" /\ s # 0
      BY <1>6, <2>3, DoMessageOut DEF Accepts
    <3>2. CASE e.to = u /\ e.from = c
      BY <1>6, <2>3, <3>2, AcceptsBySm
    <3>3. CASE ~(e.to = u /\ e.from = c)
      <4>1. "SUB_FROM" \in roster'[c][u] => Watches(c, u)
        BY <1>3, <2>1, <3>1, <3>3 DEF RowIs, Watches
      <4>2. s \in SessionsOf(c) /\ u \in sess'[s].notifySet => Watches(c, u)
        <5>1. sess[s].user = e.from /\ s \in DOMAIN sess
          BY <1>4, <1>6, <3>1, Handled DEF OnMessageOut, Owner
        <5>2. sess[s] \in Session
          BY <5>1, SessionFields
        <5>3. \/ sess'[s] = [sess[s] EXCEPT !.notifySet = sess[s].notifySet \cup {e.to}]
              \/ sess'[s] = sess[s]
          BY <3>1 DEF Turned
        <5>4. sess'[s].notifySet \subseteq sess[s].notifySet \cup {e.to}
          BY <5>2, <5>3 DEF Session
        <5> QED
          BY <3>3, <5>1, <5>4 DEF SessionsOf, Watches
      <4> QED
        BY <1>1, <4>1, <4>2, WatchesBefore
    <3> QED
      BY <3>2, <3>3
  <2> QED
    BY <2>2, <2>3
<1>7. CASE OnUserStatus(s, e)
  <2>1. roster' = roster /\ (sess' = sess \/ sess'[s].notifySet = sess[s].notifySet)
    BY <1>7, DoUserStatus
  <2> QED
    BY <1>2, <2>1
<1>8. CASE OnContactAuthIn(s, e)
  <2>1. /\ e \in Packets /\ sess' = sess
        /\ roster' = roster \/ RowIs(e.to, e.from, roster[e.to][e.from] \cup {"SUB_TO"})
    BY <1>8, DoAuthIn
  <2>2. "SUB_FROM" \in roster'[c][u] => "SUB_FROM" \in roster[c][u]
    BY <1>3, <2>1 DEF RowIs
  <2> QED
    BY <1>2, <2>1, <2>2
<1>9. CASE OnDelContactIn(s, e)
  <2>1. /\ e \in Packets /\ RowIs(e.to, e.from, roster[e.to][e.from] \ {"SUB_FROM"})
        /\ \/ sess' = sess
           \/ Turned(s, [sess[s] EXCEPT !.notifySet = sess[s].notifySet \ {e.from}])
    BY <1>9, DoDelContactIn
  <2>2. "SUB_FROM" \in roster'[c][u] => "SUB_FROM" \in roster[c][u]
    BY <1>3, <2>1 DEF RowIs
  <2>3. s \in DOMAIN sess => sess'[s].notifySet \subseteq sess[s].notifySet
    <3>1. s \in DOMAIN sess => sess[s] \in Session
      BY SessionFields
    <3> QED
      BY <2>1, <3>1 DEF Turned, Session
  <2> QED
    BY <1>2, <2>2, <2>3
<1>10. CASE OnMessageIn(s, e)
  <2>1. /\ e \in Packets /\ sess' = sess
        /\ roster' = roster \/ RowIs(e.to, e.from, roster[e.to][e.from] \cup {"SUB_TO"})
    BY <1>10, DoMessageIn
  <2>2. "SUB_FROM" \in roster'[c][u] => "SUB_FROM" \in roster[c][u]
    BY <1>3, <2>1 DEF RowIs
  <2> QED
    BY <1>2, <2>1, <2>2
<1>11. CASE OnProbeStatus(s, e) \/ OnAddContactIn(s, e) \/ OnContactInfoIn(s, e) \/ OnContactInfoReply(s, e)
  <2>1. roster' = roster /\ sess' = sess
    BY <1>11, DoProbeStatus, DoAddContactIn, DoInfoIn, DoInfoReply
  <2> QED
    BY <1>2, <2>1
<1> QED
  BY <1>5, <1>6, <1>7, <1>8, <1>9, <1>10, <1>11 DEF EventStep

\* Every handler keeps NewcomerInv.
LEMMA NewcomerHandles ==
  ASSUME Base, AskedInv, NewcomerInv, NEW s, NEW e, Handles(s, e), NEW u \in Users, NEW c \in Users,
         SessionsOf(u) = {}, Watches(c, u)'
  PROVE  "SUB_TO" \in roster'[u][c] \/ Accepting(u, c)'
<1>1. PICK req, P : Moves(s, e, req, P) /\ req \in Seq(Reports)
  BY BaseHandles
<1>2. Acts(s, e) /\ e \in UnderWay
  BY <1>1, BaseHandles, MovesAdd
<1>3. ASSUME s # 0
      PROVE  roster'[u] = roster[u]
  <2>1. s \in DOMAIN sess /\ Owner(e) = sess[s].user
    BY <1>1, <1>3, OwnerAt
  <2>2. Owner(e) # u
    BY <2>1 DEF SessionsOf
  <2> QED
    BY <1>2, <2>2 DEF Acts
<1>4. "SUB_TO" \in roster[u][c] => "SUB_TO" \in roster'[u][c]
  <2>1. CASE s # 0
    BY <1>3, <2>1
  <2>2. CASE s = 0
    <3>1. EventStep(s, e)
      BY <2>2, Shapes DEF Handles
    <3> QED
      BY <2>2, <3>1, EventKeepsTo
  <2> QED
    BY <2>1, <2>2
<1>5. Accepting(u, c) => Accepting(u, c)' \/ "SUB_TO" \in roster'[u][c]
  <2> SUFFICES ASSUME NEW f \in Outside, Accepted(f, u, c)
               PROVE  Accepting(u, c)' \/ "SUB_TO" \in roster'[u][c]
    BY DEF Accepting
  <2>1. CASE f \in Outside'
    BY <2>1 DEF Accepting
  <2>2. CASE s = 0 /\ f = e
    <3>1. EventStep(0, e)
      BY <2>2, Shapes DEF Handles
    <3> QED
      BY <2>2, <3>1, AcceptedNow
  <2> QED
    BY <1>1, <2>1, <2>2, OutsideKept
<1>6. Watches(c, u) \/ (e.cmd = "CMD_SRV_CONTACT_AUTH" /\ e.to = u) \/ Accepting(u, c)'
  BY WatchesSession, WatchesEvent DEF Handles
<1>7. ~(e.cmd = "CMD_SRV_CONTACT_AUTH" /\ e.to = u)
  BY <1>2 DEF AskedInv
<1> QED
  BY <1>4, <1>5, <1>6, <1>7 DEF NewcomerInv

\* Steps that change neither the lists nor who is told of what.
LEMMA NewcomerStill ==
  ASSUME NewcomerInv, roster' = roster,
         \A u, c \in Users : SessionsOf(u)' = {} =>
           /\ SessionsOf(u) = {} /\ (Watches(c, u)' => Watches(c, u))
           /\ Accepting(u, c) => Accepting(u, c)'
  PROVE  NewcomerInv'
  BY DEF NewcomerInv

\* sm passes on a message that accepts a contact: it is never dropped.
LEMMA ReadsKeep ==
  ASSUME Base, NEW e, Reads(e)
  PROVE  \A u, c : Accepting(u, c) => Accepting(u, c)'
<1> DEFINE S == Incoming \cup Reports
<1>2. smIn \in Seq(S) /\ smIn # <<>> /\ e = Head(smIn) /\ smIn' = Tail(smIn) /\ smOut \in Seq(Incoming)
  BY DEF Base, Typed, Reads
<1> HIDE DEF S
<1>3. ToSet(smIn) = {e} \cup ToSet(smIn')
  BY <1>2, TailSeq
<1>4. ASSUME NEW u, NEW c, NEW f \in Outside, Accepted(f, u, c)
      PROVE  f \in Outside'
  <2>1. DOMAIN loose' = DOMAIN loose
    BY DEF Reads
  <2>4. ToSet(smOut) \subseteq ToSet(smOut')
    <3>1. CASE SmRegister(e)
      BY <3>1 DEF SmRegister
    <3>2. CASE smOut' = smOut
      BY <3>2
    <3>3. CASE e \in Incoming /\ smOut' = Append(smOut, e)
      BY <1>2, <3>3, AppendSeq
    <3>4. SmRegister(e) \/ smOut' = smOut \/ (e \in Incoming /\ smOut' = Append(smOut, e))
      BY DEF Reads
    <3> QED
      BY <3>1, <3>2, <3>3, <3>4
  <2>2. CASE f = e
    <3>1. e.ev = "EV_S_IN" /\ e.cmd = "CMD_SRV_MESSAGE"
      BY <1>4, <2>2 DEF Accepted
    <3>2. e \in Incoming
      BY <3>1 DEF Reads
    <3>3. ~e.online
      BY <3>1, <3>2, PacketFields DEF Incoming, Sound
    <3>4. smOut' = Append(smOut, e)
      BY <3>1, <3>3 DEF Reads
    <3>5. e \in ToSet(smOut')
      BY <1>2, <3>2, <3>4, AppendSeq
    <3> QED
      BY <2>2, <3>5 DEF Outside
  <2>3. CASE f # e
    BY <1>3, <1>4, <2>1, <2>3, <2>4 DEF Outside, BagToSet
  <2> QED
    BY <2>2, <2>3
<1> QED
  BY <1>4 DEF Accepting

\* Every step keeps NewcomerInv.
LEMMA NewcomerSteps ==
  ASSUME Base, Base', AskedInv, NewcomerInv, Stepped
  PROVE  NewcomerInv'
<1>1. \A u : SessionsOf(u)' = {} => SessionsOf(u) = {}
  BY SessionsStay
<1>2. CASE \E u \in Users, status \in Statuses : \E n : Begins(u, status, n)
  <2>0. PICK u \in Users, status \in Statuses : \E n : Begins(u, status, n)
    BY <1>2
  <2>1. PICK n : Begins(u, status, n)
    BY <2>0
  <2>2. roster' = roster /\ Outside' = Outside
    BY <2>1 DEF Begins, Outside
  <2>3. DOMAIN sess' = DOMAIN sess \cup {n}
    <3>1. n = Len(sess) + 1 /\ Len(sess) \in Nat /\ DOMAIN sess = 1 .. Len(sess) /\ DOMAIN sess' = 1 .. n
      BY <2>1, Shapes DEF Begins
    <3> QED
      BY <3>1
  <2>4. \A c, v \in Users : Watches(c, v)' => Watches(c, v)
    <3> SUFFICES ASSUME NEW c \in Users, NEW v \in Users, Watches(c, v)' PROVE Watches(c, v)
      OBVIOUS
    <3>1. ASSUME NEW i \in SessionsOf(c)', v \in sess'[i].notifySet
          PROVE  i \in SessionsOf(c) /\ v \in sess[i].notifySet
      <4>1. i \in DOMAIN sess' /\ sess'[i].user = c
        BY <3>1 DEF SessionsOf
      <4>2. i # n
        BY <2>1, <3>1 DEF Begins
      <4>3. i \in DOMAIN sess /\ sess'[i] = sess[i]
        BY <2>1, <2>3, <4>1, <4>2 DEF Begins
      <4> QED
        BY <3>1, <4>1, <4>3 DEF SessionsOf
    <3> QED
      BY <2>2, <3>1 DEF Watches
  <2> QED
    BY <1>1, <2>2, <2>4, NewcomerStill DEF Accepting
<1>3. ASSUME sess' = sess, roster' = roster, Outside' = Outside
      PROVE  NewcomerInv'
  BY <1>1, <1>3, NewcomerStill DEF Watches, SessionsOf, Accepting
<1>4. CASE \E u \in Users : Leaves(u)
  BY <1>3, <1>4 DEF Leaves, Comes, Outside
<1>5. CASE \E u \in Users : \E e : Enters(u, e)
  BY <1>3, <1>5 DEF Enters, Comes, Outside
<1>6. CASE \E s \in DOMAIN queue : Sweeps(s)
  <2>1. PICK s \in DOMAIN queue : Sweeps(s)
    BY <1>6
  <2>2. roster' = roster /\ Outside' = Outside
    BY <2>1 DEF Sweeps, Outside
  <2>3. DOMAIN sess' = DOMAIN sess
    BY <2>1, Shapes DEF Sweeps
  <2>4. \A c, v \in Users : Watches(c, v)' => Watches(c, v)
    BY <2>1, <2>2, <2>3 DEF Watches, SessionsOf, Sweeps
  <2> QED
    BY <1>1, <2>2, <2>4, NewcomerStill DEF Accepting
<1>7. CASE \E s, e : Handles(s, e)
  BY <1>1, <1>7, NewcomerHandles DEF NewcomerInv
<1>8. ASSUME NEW e, Reads(e)
      PROVE  NewcomerInv'
  <2>1. sess' = sess /\ roster' = roster
    BY <1>8 DEF Reads
  <2>5. \A u, c : Accepting(u, c) => Accepting(u, c)'
    BY <1>8, ReadsKeep
  <2> QED
    BY <1>1, <2>1, <2>5, NewcomerStill DEF Watches, SessionsOf
<1>9. ASSUME NEW e, Arrives(e)
      PROVE  NewcomerInv'
  <2>1. sess' = sess /\ roster' = roster /\ smIn' = smIn
    BY <1>9 DEF Arrives
  <2>2. smOut \in Seq(Incoming) /\ smOut # <<>> /\ e = Head(smOut) /\ smOut' = Tail(smOut)
    BY <1>9 DEF Base, Typed, Arrives
  <2>3. ToSet(smOut) = {e} \cup ToSet(smOut')
    BY <2>2, TailSeq
  <2>4. ASSUME NEW u \in Users, NEW c, NEW f \in Outside, Accepted(f, u, c), SessionsOf(u) = {}
        PROVE  f \in Outside'
    <3>1. DOMAIN loose' = DOMAIN loose \cup (IF hash[e.to] = 0 THEN {e} ELSE {})
      BY <1>9 DEF Arrives
    <3>2. f = e => hash[e.to] = 0
      BY <2>4, NewcomerAway DEF Accepted
    <3> QED
      BY <2>1, <2>3, <2>4, <3>1, <3>2 DEF Outside, BagToSet
  <2>5. \A u, c \in Users : SessionsOf(u) = {} /\ Accepting(u, c) => Accepting(u, c)'
    BY <2>4 DEF Accepting
  <2> QED
    BY <1>1, <2>1, <2>5, NewcomerStill DEF Watches, SessionsOf
<1>10. CASE UNCHANGED messengerVars
  BY <1>3, <1>10 DEF messengerVars, tables, streams, Outside
<1>11. CASE \E s, k : Overtakes(s, k)
  BY <1>3, <1>11 DEF Overtakes, Outside
<1> QED
  BY <1>2, <1>4, <1>5, <1>6, <1>7, <1>8, <1>9, <1>10, <1>11 DEF Stepped

\* Contacts are stored in pairs of rows initially.
LEMMA NewcomerFirst == MessengerInit => NewcomerInv
<1> SUFFICES ASSUME MessengerInit, NEW u \in Users, NEW c \in Users, Watches(c, u)
             PROVE  "SUB_TO" \in roster[u][c]
  BY DEF NewcomerInv
<1>1. SessionsOf(c) = {}
  BY DEF MessengerInit, SessionsOf
<1>2. "SUB_FROM" \in roster[c][u]
  BY <1>1 DEF Watches
<1>3. PICK to \in SUBSET {p \in Users \X Users : p[1] # p[2]} :
         roster = [x \in Users |-> [y \in Users |->
                    {s \in Sub : \/ <<x, y>> \in to /\ s = "SUB_TO"
                                 \/ <<y, x>> \in to /\ s = "SUB_FROM"}]]
  BY DEF MessengerInit
<1>4. <<u, c>> \in to
  BY <1>2, <1>3
<1> QED
  BY <1>3, <1>4 DEF Sub

-----------------------------------------------------------------------------
(***************************************************************************)
(* What a client shows of a contact, once it has read its queue.           *)
(***************************************************************************)

-----------------------------------------------------------------------------
(***************************************************************************)
(* Every client shows of those who tell it what it should, or will.        *)
(***************************************************************************)

\* What the others should see of session s.
Target(s) == IF Present(s) /\ sess[s].status # "INVIS" THEN sess[s].status ELSE "OFFLINE"

\* Session s will answer a probe of session r, or end.
Awaits(r, s) ==
  \E p \in ToSet(queue[s]) : \/ p.cmd = "CMD_SRV_PROBE_STATUS" /\ p.from = sess[r].user
                             \/ p.ev = "EV_S_END"
Pending(r, s) ==
  \/ Starting(r) /\ "SUB_TO" \in roster[sess[r].user][sess[s].user]
  \/ Awaits(r, s)

Shows(r, s, x) == Says(queue[r], sess[s].user, sess[r].view[sess[s].user], x)
Right(r, s) == Shows(r, s, Target(s)) \/ (Shows(r, s, "OFFLINE") /\ Pending(r, s))

\* Sessions of two users for whom nothing went astray, the first in the hash.
Apart(r, s, u, c) ==
  /\ r \in DOMAIN sess /\ s \in DOMAIN sess /\ sess[r].user = u /\ sess[s].user = c /\ u # c
  /\ hash[u] = r /\ InOrder(u) /\ InOrder(c) /\ ~Accepting(u, c)

ViewsInv == \A r, s, u, c : Apart(r, s, u, c) /\ u \in sess[s].notifySet => Right(r, s)

\* Queue i loses event e if it is s's, and gets the packets of P for its user.
Gains(i, s, e, P) ==
  \E h \in Seq(Packets) :
    /\ h \in Seq(Packets \cup Marks) /\ queue'[i] = Rest(i, s) \o h
    /\ ToSet(h) = {p \in P : Owner(p) = sess[i].user /\ hash[Owner(p)] = i}
    /\ Rest(i, s) \in Seq(Packets \cup Marks)
    /\ ToSet(queue[i]) \subseteq ToSet(Rest(i, s)) \cup (IF i = s THEN {e} ELSE {})
    /\ ToSet(queue'[i]) = ToSet(Rest(i, s)) \cup ToSet(h)
    /\ h # <<>> => hash[sess[i].user] = i

\* What a handler's packets do to queue i.
LEMMA MovesAt ==
  ASSUME Base, NEW s, NEW e, NEW req, NEW P, Moves(s, e, req, P), NEW i \in DOMAIN queue
  PROVE  Gains(i, s, e, P)
<1> DEFINE S == Packets \cup Marks
<1>1. PICK h \in Seq(Packets) : queue'[i] = Rest(i, s) \o h /\ ToSet(h) = {p \in P : hash[Owner(p)] = i}
  BY DEF Moves
<1>2. h \in Seq(S) /\ queue[i] \in Seq(S) /\ i # 0 /\ sess[i].user \in Users
  BY ElementsSeq, Shapes, SessionFields
<1> HIDE DEF S
<1>3. Rest(i, s) \in Seq(S) /\ ToSet(queue[i]) \subseteq ToSet(Rest(i, s)) \cup (IF i = s THEN {e} ELSE {})
  <2>1. CASE i = s
    <3>1. queue[i] # <<>> /\ e = Head(queue[i])
      BY <1>2, <2>1 DEF Moves
    <3>2. Tail(queue[i]) \in Seq(S) /\ ToSet(queue[i]) = {Head(queue[i])} \cup ToSet(Tail(queue[i]))
      BY <1>2, <3>1, TailSeq
    <3> QED
      BY <2>1, <3>1, <3>2 DEF Rest
  <2>2. CASE i # s
    BY <1>2, <2>2 DEF Rest
  <2> QED
    BY <2>1, <2>2
<1>4. ToSet(queue'[i]) = ToSet(Rest(i, s)) \cup ToSet(h)
  BY <1>1, <1>2, <1>3, JoinedSeq
<1>5. \A p \in P : hash[Owner(p)] = i => Owner(p) = sess[i].user
  <2> SUFFICES ASSUME NEW p \in P, hash[Owner(p)] = i PROVE Owner(p) = sess[i].user
    OBVIOUS
  <2>1. p \in Packets
    BY DEF Moves
  <2>2. Owner(p) \in Users
    BY <2>1, PacketFields DEF Owner
  <2> QED
    BY <1>2, <2>2, Shapes
<1>6. ToSet(h) = {p \in P : Owner(p) = sess[i].user /\ hash[Owner(p)] = i}
  BY <1>1, <1>5
<1>7. h # <<>> => hash[sess[i].user] = i
  <2>1. h # <<>> => ToSet(h) # {}
    BY <1>1, ElementsSeq
  <2> QED
    BY <1>6, <2>1
<1> QED
  BY <1>1, <1>2, <1>3, <1>4, <1>6, <1>7 DEF S, Gains

\* Queue r gets the packets of P that are for r's user.
Heard(r, P) ==
  /\ \E h \in Seq(Packets) :
       /\ h \in Seq(Packets \cup Marks) /\ queue[r] \in Seq(Packets \cup Marks)
       /\ queue'[r] = queue[r] \o h /\ ToSet(h) = {p \in P : Owner(p) = sess[r].user}
  /\ sess'[r] = sess[r] /\ (Starting(r)' <=> Starting(r))

\* A handler of another session's event leaves what r shows, but for new packets.
LEMMA Hears ==
  ASSUME Base, NEW s0, NEW e, NEW req, NEW P, Moves(s0, e, req, P), Acts(s0, e),
         NEW r \in DOMAIN sess, r # s0, hash[sess[r].user] = r
  PROVE  Heard(r, P)
<1>1. r \in DOMAIN queue /\ queue[r] \in Seq(Packets \cup Marks)
  BY Shapes
<1>10. Gains(r, s0, e, P)
  BY <1>1, MovesAt
<1>2. PICK h \in Seq(Packets) :
           /\ h \in Seq(Packets \cup Marks) /\ queue'[r] = Rest(r, s0) \o h
           /\ ToSet(h) = {p \in P : Owner(p) = sess[r].user /\ hash[Owner(p)] = r}
           /\ h # <<>> => hash[sess[r].user] = r
  BY <1>10 DEF Gains
<1>3. queue'[r] = queue[r] \o h
  BY <1>2 DEF Rest
<1>4. sess'[r] = sess[r] /\ hash' = hash
  BY DEF Acts, Moves
<1>5. Starting(r)' <=> Starting(r)
  BY <1>1, <1>2, <1>3, <1>4, PresentGrows
<1>6. ToSet(h) = {p \in P : Owner(p) = sess[r].user}
  BY <1>2
<1> QED
  BY <1>1, <1>2, <1>3, <1>4, <1>5, <1>6 DEF Heard

\* Where session s stands with the others after a handler.
LEMMA TargetOther ==
  ASSUME Base, NEW s0, NEW e, NEW req, NEW P, Moves(s0, e, req, P), Acts(s0, e),
         NEW s \in DOMAIN sess, s # s0
  PROVE  Target(s)' = Target(s)
<1>1. s \in DOMAIN queue
  BY Shapes
<1>g. Gains(s, s0, e, P)
  BY <1>1, MovesAt
<1>2. PICK h \in Seq(Packets) : queue'[s] = Rest(s, s0) \o h /\ (h # <<>> => hash[sess[s].user] = s)
  BY <1>g DEF Gains
<1>3. queue'[s] = queue[s] \o h
  BY <1>2 DEF Rest
<1>4. sess'[s] = sess[s] /\ hash' = hash
  BY DEF Acts, Moves
<1>5. Present(s)' <=> Present(s)
  BY <1>1, <1>2, <1>3, <1>4, PresentGrows
<1> QED
  BY <1>4, <1>5 DEF Target

\* A session at work that nothing overtook is there, and presence looks after it
\* unless it is about to begin.
LEMMA InLineAt ==
  ASSUME Base, NEW s \in DOMAIN queue, queue[s] # <<>>, sess[s].user \notin astray
  PROVE  Present(s) /\ (Head(queue[s]).ev # "EV_SESSION" => Attended(s))
<1>1. queue[s] \in Seq(Packets \cup Marks) /\ s # 0
  BY Shapes
<1>2. QueueInv(s) /\ InLine(s)
  BY DEF Base, SessionsInv, QueueInv
<1>3. Len(queue[s]) \in DOMAIN queue[s]
  BY <1>1
<1>4. Present(s)
  BY <1>2, <1>3 DEF InLine, Present
<1>5. Head(queue[s]).ev # "EV_SESSION" => ~Starting(s)
  BY StartingFirst
<1> QED
  BY <1>1, <1>4, <1>5 DEF Attended, Starting

\* The same of a session that a handler works for.
LEMMA HandledInLine ==
  ASSUME Base, NEW s, s # 0, NEW e, NEW req, NEW P, Moves(s, e, req, P), sess[s].user \notin astray
  PROVE  Present(s) /\ (e.ev # "EV_SESSION" => Attended(s))
<1>1. s \in DOMAIN queue /\ queue[s] # <<>> /\ e = Head(queue[s])
  BY OwnerAt
<1> QED
  BY <1>1, InLineAt

\* Where a session stands with the others before and after a handler of its
\* own.
LEMMA TargetOwn ==
  ASSUME Base, NEW s, s # 0, NEW e, NEW req, NEW P, Moves(s, e, req, P), Acts(s, e),
         sess[s].user \notin astray
  PROVE  /\ Target(s) = IF sess[s].status # "INVIS" THEN sess[s].status ELSE "OFFLINE"
         /\ e.ev # "EV_S_END" =>
              Target(s)' = IF sess'[s].status # "INVIS" THEN sess'[s].status ELSE "OFFLINE"
         /\ e.ev = "EV_S_END" => Target(s)' = "OFFLINE"
<1>1. s \in DOMAIN queue /\ s \in DOMAIN sess /\ queue[s] # <<>> /\ e = Head(queue[s])
  BY OwnerAt
<1>g. Gains(s, s, e, P)
  BY <1>1, MovesAt
<1>2. PICK h \in Seq(Packets) : queue'[s] = Rest(s, s) \o h /\ (h # <<>> => hash[sess[s].user] = s)
  BY <1>g DEF Gains
<1>3. queue'[s] = Tail(queue[s]) \o h
  BY <1>2 DEF Rest
<1>4. sess'[s].user = sess[s].user /\ hash' = hash
  BY <1>1 DEF Acts, Moves
<1>6. Present(s)
  BY HandledInLine
<1>5. /\ Present(s)
      /\ Head(queue[s]).ev # "EV_S_END" => Present(s)'
      /\ Head(queue[s]).ev = "EV_S_END" => ~Present(s)'
  BY <1>1, <1>2, <1>3, <1>4, <1>6, TailTaken
<1> QED
  BY <1>1, <1>5 DEF Target

\* What session s still has to do for r, unless it did it now.
LEMMA AwaitsKept ==
  ASSUME Base, NEW s0, NEW e, NEW req, NEW P, Moves(s0, e, req, P), Acts(s0, e),
         NEW r \in DOMAIN sess, NEW s \in DOMAIN sess, Awaits(r, s),
         s = s0 => e.ev # "EV_S_END" /\ ~(e.cmd = "CMD_SRV_PROBE_STATUS" /\ e.from = sess[r].user)
  PROVE  Awaits(r, s)'
<1>1. s \in DOMAIN queue
  BY Shapes
<1>g. Gains(s, s0, e, P)
  BY <1>1, MovesAt
<1>2. ToSet(queue[s]) \subseteq ToSet(queue'[s]) \cup (IF s = s0 THEN {e} ELSE {})
  BY <1>g DEF Gains
<1>3. sess'[r].user = sess[r].user
  BY DEF Acts
<1>4. PICK p \in ToSet(queue[s]) : \/ p.cmd = "CMD_SRV_PROBE_STATUS" /\ p.from = sess[r].user
                                   \/ p.ev = "EV_S_END"
  BY DEF Awaits
<1>5. p \in ToSet(queue'[s])
  BY <1>2, <1>4
<1> QED
  BY <1>3, <1>4, <1>5 DEF Awaits

\* The handler of an event of another session than r tells r's client the news of
\* session s.
LEMMA RightNews ==
  ASSUME Base, NEW s0, NEW e, NEW req, NEW P, Moves(s0, e, req, P), Acts(s0, e),
         NEW r \in DOMAIN sess, NEW s \in DOMAIN sess, r # s0, hash[sess[r].user] = r,
         \E p \in P : IsNotice(p, sess[s].user) /\ Owner(p) = sess[r].user,
         \A p \in P : IsNotice(p, sess[s].user) /\ Owner(p) = sess[r].user => p.arg = Target(s)'
  PROVE  Right(r, s)'
<1>9. Heard(r, P)
  BY Hears
<1>0. PICK h \in Seq(Packets) :
         /\ h \in Seq(Packets \cup Marks) /\ queue[r] \in Seq(Packets \cup Marks)
         /\ queue'[r] = queue[r] \o h /\ ToSet(h) = {p \in P : Owner(p) = sess[r].user}
  BY <1>9 DEF Heard
<1> DEFINE S == Packets \cup Marks
           q == queue[r]
           c == sess[s].user
           x == Target(s)'
<1>1. /\ h \in Seq(S) /\ q \in Seq(S)
      /\ queue'[r] = q \o h /\ ToSet(h) = {p \in P : Owner(p) = sess[r].user}
      /\ sess'[r] = sess[r]
  BY <1>9, <1>0 DEF Heard
<1>2. sess'[s].user = c
  BY DEF Acts
<1>3. (\E p \in ToSet(h) : IsNotice(p, c)) /\ (\A p \in ToSet(h) : IsNotice(p, c) => p.arg = x)
  BY <1>1
<1> DEFINE v == sess'[r].view[c]
<1> HIDE DEF S, q, c, x, v
<1>4. Says(q \o h, c, v, x)
  BY <1>1, <1>3, SaysNew
<1>5. Says(queue'[r], sess'[s].user, sess'[r].view[sess'[s].user], x)
  BY <1>1, <1>2, <1>4 DEF q, v
<1> QED
  BY <1>5 DEF Right, Shows, x

\* It tells r's client nothing about session s.
LEMMA ShowsStill ==
  ASSUME Base, NEW s0, NEW e, NEW req, NEW P, Moves(s0, e, req, P), Acts(s0, e),
         NEW r \in DOMAIN sess, NEW s \in DOMAIN sess, r # s0, hash[sess[r].user] = r,
         \A p \in P : ~(IsNotice(p, sess[s].user) /\ Owner(p) = sess[r].user), NEW x, Shows(r, s, x)
  PROVE  Says(queue'[r], sess'[s].user, sess'[r].view[sess'[s].user], x)
<1>9. Heard(r, P)
  BY Hears
<1>0. PICK h \in Seq(Packets) :
         /\ h \in Seq(Packets \cup Marks) /\ queue[r] \in Seq(Packets \cup Marks)
         /\ queue'[r] = queue[r] \o h /\ ToSet(h) = {p \in P : Owner(p) = sess[r].user}
  BY <1>9 DEF Heard
<1> DEFINE S == Packets \cup Marks
           q == queue[r]
           c == sess[s].user
           v == sess[r].view[sess[s].user]
<1>1. /\ h \in Seq(S) /\ q \in Seq(S)
      /\ queue'[r] = q \o h /\ ToSet(h) = {p \in P : Owner(p) = sess[r].user}
      /\ sess'[r] = sess[r]
  BY <1>9, <1>0 DEF Heard
<1>2. sess'[s].user = c
  BY DEF Acts
<1>3. \A p \in ToSet(h) : IsNotice(p, c) => p.arg = x
  BY <1>1
<1>4. Says(q, c, v, x)
  BY DEF Shows
<1> HIDE DEF S, q, c, v
<1>5. Says(q \o h, c, v, x)
  BY <1>1, <1>3, <1>4, SaysJoin
<1> QED
  BY <1>1, <1>2, <1>5 DEF q, v, c

\* It tells r's client nothing, and session s stands as before.
LEMMA RightStill ==
  ASSUME Base, NEW s0, NEW e, NEW req, NEW P, Moves(s0, e, req, P), Acts(s0, e),
         NEW r \in DOMAIN sess, NEW s \in DOMAIN sess, r # s0, hash[sess[r].user] = r,
         Owner(e) # sess[r].user,
         \A p \in P : ~(IsNotice(p, sess[s].user) /\ Owner(p) = sess[r].user), Right(r, s),
         Target(s)' = Target(s),
         s = s0 => e.ev # "EV_S_END" /\ ~(e.cmd = "CMD_SRV_PROBE_STATUS" /\ e.from = sess[r].user)
  PROVE  Right(r, s)'
<1>1. Shows(r, s, Target(s)) => Shows(r, s, Target(s))'
  BY ShowsStill DEF Shows
<1>2. Shows(r, s, "OFFLINE") => Shows(r, s, "OFFLINE")'
  BY ShowsStill DEF Shows
<1>3. Pending(r, s) => Pending(r, s)'
  <2>1. sess[r].user \in Users /\ sess'[r].user = sess[r].user /\ sess'[s].user = sess[s].user
    BY SessionFields DEF Acts
  <2>2. roster'[sess[r].user] = roster[sess[r].user]
    BY <2>1 DEF Acts
  <2>3. Starting(r)' <=> Starting(r)
    BY Hears DEF Heard
  <2>4. Awaits(r, s) => Awaits(r, s)'
    BY AwaitsKept
  <2> QED
    BY <2>1, <2>2, <2>3, <2>4 DEF Pending
<1> QED
  BY <1>1, <1>2, <1>3 DEF Right

\* A session that others should see OFFLINE, before and after.
LEMMA RightHidden ==
  ASSUME Base, NEW s0, NEW e, NEW req, NEW P, Moves(s0, e, req, P), Acts(s0, e),
         NEW r \in DOMAIN sess, NEW s \in DOMAIN sess, r # s0, hash[sess[r].user] = r,
         \A p \in P : ~(IsNotice(p, sess[s].user) /\ Owner(p) = sess[r].user), Right(r, s),
         Target(s) = "OFFLINE", Target(s)' = "OFFLINE"
  PROVE  Right(r, s)'
<1>1. Shows(r, s, "OFFLINE")
  BY DEF Right
<1>2. Shows(r, s, "OFFLINE")'
  BY <1>1, ShowsStill DEF Shows
<1> QED
  BY <1>2 DEF Right

\* What a handler makes of what the client shows.
LEMMA ViewRead ==
  ASSUME Base, NEW s, s # 0, NEW e, Handles(s, e), e.ev # "EV_S_END", NEW c \in Users,
         sess[s].user \notin astray
  PROVE  sess'[s].view[c] = IF IsNotice(e, c) THEN e.arg ELSE sess[s].view[c]
<1>1. s \in DOMAIN queue /\ s \in DOMAIN sess /\ (SessionStep(s, e) \/ EventStep(s, e))
  BY Shapes DEF Handles
<1>2. sess[s] \in Session /\ sess[s].view \in [Users -> Shown]
  BY <1>1, SessionFields
<1>3. ASSUME sess'[s].view = sess[s].view, e.cmd \notin Notices
      PROVE  sess'[s].view[c] = IF IsNotice(e, c) THEN e.arg ELSE sess[s].view[c]
  BY <1>3 DEF IsNotice
<1>4. \A N : [sess[s] EXCEPT !.notifySet = N].view = sess[s].view
  BY <1>2 DEF Session
<1>5. CASE OnSession(s, e)
  <2>1. sess'[s].view = sess[s].view /\ e \in Marks
    BY <1>1, <1>5, ActsSession, DoSession
  <2>2. e.cmd \notin Notices
    BY <2>1, MarkFields DEF Notices
  <2> QED
    BY <1>3, <2>1, <2>2
<1>6. CASE OnChangeStatus(s, e)
  BY <1>1, <1>3, <1>6, ActsChangeStatus DEF OnChangeStatus, Notices
<1>7. CASE OnRequest(s, e) \/ OnDelContact(s, e) \/ OnMessage(s, e)
  <2>1. sess' = sess
    BY <1>1, <1>7, DoRequest, DoDelContact, DoMessage
  <2>2. e.cmd \notin Notices
    BY <1>7 DEF OnRequest, OnDelContact, OnMessage, Notices
  <2> QED
    BY <1>3, <2>1, <2>2
<1>8. CASE OnContactAuthOut(s, e)
  <2>1. sess' = sess \/ \E N : sess'[s] = [sess[s] EXCEPT !.notifySet = N]
    BY <1>1, <1>8, DoAuthOut DEF Turned
  <2>2. sess'[s].view = sess[s].view
    BY <1>4, <2>1
  <2>3. e.cmd \notin Notices
    BY <1>8 DEF OnContactAuthOut, Notices
  <2> QED
    BY <1>3, <2>2, <2>3
<1>9. CASE OnMessageOut(s, e)
  <2>1. sess' = sess \/ \E N : sess'[s] = [sess[s] EXCEPT !.notifySet = N]
    BY <1>1, <1>9, DoMessageOut DEF Turned
  <2>2. sess'[s].view = sess[s].view
    BY <1>4, <2>1
  <2>3. e.cmd \notin Notices
    BY <1>9 DEF OnMessageOut, Notices
  <2> QED
    BY <1>3, <2>2, <2>3
<1>10. CASE OnUserStatus(s, e)
  <2>2. Moves(s, e, <<>>, {}) /\ e.ev = "EV_S_IN"
    BY <1>1, <1>10, DoUserStatus
  <2>3. Attended(s)
    BY <2>2, HandledInLine
  <2>1. sess'[s].view = [sess[s].view EXCEPT ![e.from] = e.arg] /\ e.cmd \in Notices
    BY <1>1, <1>10, <2>3, DoUserStatus
  <2> QED
    BY <1>2, <2>1 DEF IsNotice
<1>11. CASE OnProbeStatus(s, e) \/ OnAddContactIn(s, e) \/ OnContactAuthIn(s, e) \/ OnMessageIn(s, e)
            \/ OnContactInfoIn(s, e) \/ OnContactInfoReply(s, e)
  <2>1. sess' = sess
    BY <1>1, <1>11, DoProbeStatus, DoAddContactIn, DoAuthIn, DoMessageIn, DoInfoIn, DoInfoReply
  <2>2. e.cmd \notin Notices
    BY <1>11 DEF OnProbeStatus, OnAddContactIn, OnContactAuthIn, OnMessageIn, OnContactInfoIn,
                 OnContactInfoReply, Notices
  <2> QED
    BY <1>3, <2>1, <2>2
<1>12. CASE OnDelContactIn(s, e)
  <2>1. sess' = sess \/ \E N : sess'[s] = [sess[s] EXCEPT !.notifySet = N]
    BY <1>1, <1>12, DoDelContactIn DEF Turned
  <2>2. sess'[s].view = sess[s].view
    BY <1>4, <2>1
  <2>3. e.cmd \notin Notices
    BY <1>12 DEF OnDelContactIn, Notices
  <2> QED
    BY <1>3, <2>2, <2>3
<1>13. ~OnSessionEnd(s, e)
  BY DEF OnSessionEnd
<1> QED
  BY <1>1, <1>5, <1>6, <1>7, <1>8, <1>9, <1>10, <1>11, <1>12, <1>13 DEF SessionStep, EventStep

\* A session that is no longer in the hash awaits its end, or had it.
LEMMA GoneAwaits ==
  ASSUME Base, NEW r, NEW s \in DOMAIN sess, hash[sess[s].user] # s
  PROVE  Target(s) = "OFFLINE" \/ Awaits(r, s)
<1>1. Present(s) => \E x \in ToSet(queue[s]) : x.ev = "EV_S_END"
  BY PresentSet
<1> QED
  BY <1>1 DEF Target, Awaits

\* The first event of a session is the one that makes it ask its contacts.
LEMMA BeginsAsking ==
  ASSUME Base, NEW r \in DOMAIN sess, NEW e, Handles(r, e), Starting(r), NEW s \in DOMAIN sess,
         hash[sess[s].user] = s, "SUB_TO" \in roster[sess[r].user][sess[s].user],
         sess[r].user \notin astray
  PROVE  Awaits(r, s)'
<1>1. r \in DOMAIN queue /\ s \in DOMAIN queue /\ r # 0
  BY Shapes
<1>2. PICK req, P : Moves(r, e, req, P)
  BY BaseHandles
<1>3. e.ev = "EV_SESSION"
  <2>1. queue[r] # <<>> /\ e = Head(queue[r])
    BY <1>1, <1>2 DEF Moves
  <2> QED
    BY <1>1, <2>1, StartingFirst
<1>4. OnSession(r, e)
  <2>1. SessionStep(r, e) \/ EventStep(r, e)
    BY DEF Handles
  <2>2. ~EventStep(r, e)
    BY <1>3 DEF EventStep, OnContactAuthOut, OnMessageOut, OnUserStatus, OnProbeStatus, OnAddContactIn,
                OnContactAuthIn, OnDelContactIn, OnMessageIn, OnContactInfoIn, OnContactInfoReply
  <2> QED
    BY <1>3, <2>1, <2>2 DEF SessionStep, OnSessionEnd, OnChangeStatus, OnRequest, OnDelContact, OnMessage
<1> DEFINE N == {ProbeTo(r, c) : c \in Watched(r)} \cup {OnlineTo(r, c, e.arg) : c \in Told(r, e)}
           c0 == sess[s].user
<1>5. \E q : Moves(r, e, q, N)
  BY <1>1, <1>4, DoSession
<1>6. ProbeTo(r, c0) \in N
  <2>1. c0 \in Watched(r)
    BY SessionFields DEF Watched
  <2> QED
    BY <2>1
<1>7. /\ Owner(ProbeTo(r, c0)) = c0 /\ ProbeTo(r, c0).cmd = "CMD_SRV_PROBE_STATUS"
      /\ ProbeTo(r, c0).from = sess[r].user
  BY DEF ProbeTo, In, Item, Owner
<1>8. hash[c0] = s
  OBVIOUS
<1> HIDE DEF N
<1>9. ProbeTo(r, c0) \in ToSet(queue'[s])
  <2>1. PICK q : Moves(r, e, q, N)
    BY <1>5
  <2>2. PICK h : /\ ToSet(h) = {p \in N : Owner(p) = sess[s].user /\ hash[Owner(p)] = s}
                 /\ ToSet(queue'[s]) = ToSet(Rest(s, r)) \cup ToSet(h)
    <3>1. Gains(s, r, e, N)
      BY <1>1, <2>1, MovesAt
    <3> QED
      BY <3>1 DEF Gains
  <2> QED
    BY <1>6, <1>7, <1>8, <2>2
<1>10. sess'[r].user = sess[r].user
  <2>1. Acts(r, e)
    BY BaseHandles
  <2> QED
    BY <2>1 DEF Acts
<1> QED
  BY <1>7, <1>9, <1>10 DEF Awaits

\* The client of r reads on.
LEMMA RightReader ==
  ASSUME Base, NEW r \in DOMAIN sess, NEW s \in DOMAIN sess, NEW e, Handles(r, e),
         hash[sess[r].user] = r, sess[r].user # sess[s].user, sess[r].user \notin astray, Right(r, s)
  PROVE  Right(r, s)'
<1>1. r \in DOMAIN queue /\ s \in DOMAIN queue /\ r # 0 /\ r # s /\ sess[s].user \in Users
  BY Shapes, SessionFields
<1>2. PICK req, P : Moves(r, e, req, P) /\ req \in Seq(Reports) /\ \A p \in P : Fair(r, e, p)
  BY HandlesFair
<1>3. Acts(r, e) /\ hash' = hash
  BY <1>2, BaseHandles DEF Moves
<1>4. queue[r] # <<>> /\ e = Head(queue[r]) /\ queue[r] \in Seq(Packets \cup Marks)
  BY <1>1, <1>2, Shapes DEF Moves
<1>5. e.ev # "EV_S_END"
  <2>1. e = queue[r][1] /\ 1 \in DOMAIN queue[r]
    BY <1>4, TailSeq
  <2> QED
    BY <1>1, <2>1 DEF Base, SessionsInv, QueueInv
<1> DEFINE S == Packets \cup Marks
           q == queue[r]
           c == sess[s].user
           v == sess[r].view[c]
           w == sess'[r].view[c]
<1>6. w = IF IsNotice(Head(q), c) THEN Head(q).arg ELSE v
  BY <1>1, <1>4, <1>5, ViewRead
<1>7. PICK h \in Seq(Packets) : h \in Seq(S) /\ queue'[r] = Rest(r, r) \o h /\ ToSet(h) \subseteq P
  <2>1. PICK h \in Seq(Packets) :
          /\ h \in Seq(Packets \cup Marks) /\ queue'[r] = Rest(r, r) \o h
          /\ ToSet(h) = {p \in P : Owner(p) = sess[r].user /\ hash[Owner(p)] = r}
    <3>1. Gains(r, r, e, P)
      BY <1>1, <1>2, MovesAt
    <3> QED
      BY <3>1 DEF Gains
  <2> QED
    BY <2>1
<1>8. \A p \in ToSet(h) : ~IsNotice(p, c)
  BY <1>2, <1>7 DEF Fair, IsNotice
<1>9. sess'[s].user = c
  BY <1>3 DEF Acts
<1> HIDE DEF S, c, v, w
<1>10. ASSUME NEW x, Shows(r, s, x) PROVE Says(queue'[r], sess'[s].user, sess'[r].view[sess'[s].user], x)
  <2>1. Says(q, c, v, x)
    BY <1>10 DEF Shows, c, v
  <2>2. Says(Tail(q), c, w, x)
    BY <1>4, <1>6, <2>1, SaysTail
  <2>3. Tail(q) \in Seq(S)
    BY <1>4, TailSeq DEF S
  <2>4. Says(Tail(q) \o h, c, w, x)
    BY <1>7, <1>8, <2>2, <2>3, SaysJoin
  <2> QED
    BY <1>7, <1>9, <2>4 DEF Rest, w
<1>11. Target(s)' = Target(s)
  BY <1>1, <1>2, <1>3, TargetOther
<1>12. Awaits(r, s) => Awaits(r, s)'
  BY <1>1, <1>2, <1>3, AwaitsKept
<1>13. CASE Shows(r, s, Target(s))
  <2>1. Shows(r, s, Target(s))'
    BY <1>10, <1>11, <1>13 DEF Shows
  <2> QED
    BY <1>11, <2>1 DEF Right
<1>14. CASE Shows(r, s, "OFFLINE") /\ Pending(r, s)
  <2>1. Shows(r, s, "OFFLINE")'
    BY <1>10, <1>14 DEF Shows
  <2>2. Awaits(r, s)' \/ Target(s)' = "OFFLINE"
    <3>1. CASE hash[sess[s].user] # s
      BY <1>11, <1>12, <3>1, GoneAwaits
    <3>2. CASE hash[sess[s].user] = s
      BY <1>12, <1>14, <3>2, BeginsAsking DEF Pending
    <3> QED
      BY <3>1, <3>2
  <2>3. Target(s)' = "OFFLINE" => Right(r, s)'
    BY <2>1 DEF Right
  <2> QED
    BY <2>1, <2>2, <2>3 DEF Right, Pending
<1> QED
  BY <1>13, <1>14 DEF Right

\* What the notices of a session say, and to whom; a probe is none.
LEMMA NoticesSay ==
  ASSUME NEW s, NEW x, NEW a
  PROVE  /\ IsNotice(OnlineTo(s, x, a), sess[s].user) /\ Owner(OnlineTo(s, x, a)) = x
         /\ OnlineTo(s, x, a).arg = a
         /\ IsNotice(OfflineTo(s, x), sess[s].user) /\ Owner(OfflineTo(s, x)) = x
         /\ OfflineTo(s, x).arg = "OFFLINE"
         /\ ProbeTo(s, x).cmd \notin Notices
  BY DEF OnlineTo, OfflineTo, ProbeTo, In, Item, Owner, IsNotice, Notices

\* A handler of the events of session s whose user u watches: u has news of s, or
\* nothing changed.
Writes(s, e, P, u) ==
  \/ /\ \E p \in P : IsNotice(p, sess[s].user) /\ Owner(p) = u
     /\ \A p \in P : IsNotice(p, sess[s].user) /\ Owner(p) = u => p.arg = Target(s)'
  \/ /\ u \in sess[s].notifySet /\ \A p \in P : ~(IsNotice(p, sess[s].user) /\ Owner(p) = u)
     /\ \/ /\ Target(s)' = Target(s) /\ e.ev # "EV_S_END"
           /\ ~(e.cmd = "CMD_SRV_PROBE_STATUS" /\ e.from = u)
        \/ Target(s) = "OFFLINE" /\ Target(s)' = "OFFLINE"

\* Whatever a handler of session s writes, r's client comes to show it.
LEMMA RightWrites ==
  ASSUME Base, NEW r \in DOMAIN sess, NEW s \in DOMAIN sess, NEW e, NEW req, NEW P,
         Moves(s, e, req, P), Acts(s, e), Writes(s, e, P, sess[r].user),
         hash[sess[r].user] = r, sess[r].user # sess[s].user,
         sess[r].user \in sess[s].notifySet => Right(r, s)
  PROVE  Right(r, s)'
<1>1. s # 0 /\ r # s
  BY Shapes
<1>2. Owner(e) # sess[r].user
  BY <1>1, OwnerAt
<1>3. CASE /\ \E p \in P : IsNotice(p, sess[s].user) /\ Owner(p) = sess[r].user
           /\ \A p \in P : IsNotice(p, sess[s].user) /\ Owner(p) = sess[r].user => p.arg = Target(s)'
  BY <1>1, <1>3, RightNews
<1>4. CASE /\ sess[r].user \in sess[s].notifySet
           /\ \A p \in P : ~(IsNotice(p, sess[s].user) /\ Owner(p) = sess[r].user)
           /\ Target(s)' = Target(s) /\ e.ev # "EV_S_END"
           /\ ~(e.cmd = "CMD_SRV_PROBE_STATUS" /\ e.from = sess[r].user)
  BY <1>1, <1>2, <1>4, RightStill
<1>5. CASE /\ sess[r].user \in sess[s].notifySet
           /\ \A p \in P : ~(IsNotice(p, sess[s].user) /\ Owner(p) = sess[r].user)
           /\ Target(s) = "OFFLINE" /\ Target(s)' = "OFFLINE"
  BY <1>1, <1>5, RightHidden
<1> QED
  BY <1>3, <1>4, <1>5 DEF Writes

\* No notices, and the status stays.
LEMMA WritesNone ==
  ASSUME Base, NEW s \in DOMAIN sess, NEW e, NEW req, NEW P, Moves(s, e, req, P), Acts(s, e), NEW u,
         u \in sess[s].notifySet, sess'[s].status = sess[s].status, e.ev # "EV_S_END",
         ~(e.cmd = "CMD_SRV_PROBE_STATUS" /\ e.from = u), sess[s].user \notin astray,
         \A p \in P : ~(IsNotice(p, sess[s].user) /\ Owner(p) = u)
  PROVE  Writes(s, e, P, u)
<1>1. s # 0
  BY Shapes
<1>2. Target(s)' = Target(s)
  BY <1>1, TargetOwn
<1> QED
  BY <1>2 DEF Writes

\* ONLINE for u.
LEMMA WritesOnline ==
  ASSUME Base, NEW s \in DOMAIN sess, NEW e, NEW req, NEW P, Moves(s, e, req, P), Acts(s, e), NEW u,
         sess[s].status # "INVIS", sess'[s].status = sess[s].status, e.ev # "EV_S_END",
         OnlineTo(s, u, sess[s].status) \in P, sess[s].user \notin astray,
         \A p \in P : IsNotice(p, sess[s].user) /\ Owner(p) = u => p = OnlineTo(s, u, sess[s].status)
  PROVE  Writes(s, e, P, u)
<1>1. s # 0
  BY Shapes
<1>2. Target(s)' = sess[s].status
  BY <1>1, TargetOwn
<1>3. /\ IsNotice(OnlineTo(s, u, sess[s].status), sess[s].user)
      /\ Owner(OnlineTo(s, u, sess[s].status)) = u
      /\ OnlineTo(s, u, sess[s].status).arg = sess[s].status
  BY NoticesSay
<1> QED
  BY <1>2, <1>3 DEF Writes

\* The handlers that begin, end or change a session tell every user it
\* notifies.
LEMMA WritesSession ==
  ASSUME Base, NEW s \in DOMAIN queue, NEW e, NEW u \in Users, u \in sess'[s].notifySet,
         u # sess[s].user, OnSession(s, e) \/ OnSessionEnd(s, e) \/ OnChangeStatus(s, e),
         sess[s].user \notin astray
  PROVE  \E req, P : Moves(s, e, req, P) /\ Writes(s, e, P, u)
<1>1. s \in DOMAIN sess /\ s # 0
  BY Shapes
<1>2. CASE OnSession(s, e)
  <2> DEFINE P == {ProbeTo(s, c) : c \in Watched(s)} \cup {OnlineTo(s, c, e.arg) : c \in Told(s, e)}
             req == <<Item("SM_ADD_SESSION", "", sess[s].user, Nobody, FALSE, e.arg, 0)>>
  <2>10. Moves(s, e, req, P)
    BY <1>2, DoSession
  <2>11. e.arg = sess[s].status
    BY <1>2, DoSession
  <2>12. Acts(s, e)
    BY <1>2, ActsSession
  <2>13. e.ev # "EV_S_END"
    BY <1>2 DEF OnSession
  <2>1. Moves(s, e, req, P) /\ e.arg = sess[s].status /\ Acts(s, e) /\ e.ev # "EV_S_END"
    BY <2>10, <2>11, <2>12, <2>13
  <2>2. u \in Told(s, e) /\ sess'[s].status = sess[s].status
    BY <1>2, ActsSession
  <2>3. sess[s].status # "INVIS"
    BY <2>1, <2>2 DEF Told
  <2>4. OnlineTo(s, u, sess[s].status) \in P
    BY <2>1, <2>2
  <2>5. ASSUME NEW p \in P, IsNotice(p, sess[s].user), Owner(p) = u
        PROVE  p = OnlineTo(s, u, sess[s].status)
    <3>1. PICK c \in Users : p = ProbeTo(s, c) \/ p = OnlineTo(s, c, e.arg)
      BY <2>5 DEF Told, Watched
    <3>2. p # ProbeTo(s, c)
      BY <2>5, NoticesSay DEF IsNotice
    <3>3. c = u
      BY <2>5, <3>1, <3>2, NoticesSay
    <3> QED
      BY <2>1, <3>1, <3>2, <3>3
  <2> HIDE DEF P, req
  <2>6. Writes(s, e, P, u)
    BY <1>1, <2>1, <2>2, <2>3, <2>4, <2>5, WritesOnline
  <2> QED
    BY <2>1, <2>6
<1>3. CASE OnSessionEnd(s, e)
  <2> DEFINE P == {OfflineTo(s, c) : c \in Parting(s)}
             req == <<Item("SM_REMOVE_SESSION", "", sess[s].user, Nobody, FALSE, "", 0)>>
  <2>1. Moves(s, e, req, P) /\ Acts(s, e) /\ e.ev = "EV_S_END"
    BY <1>3, DoSessionEnd, ActsSessionEnd DEF OnSessionEnd
  <2>2. u \in sess[s].notifySet
    BY <1>3, ActsSessionEnd
  <2>3. CASE sess[s].status = "INVIS"
    <3>1. P = {}
      BY <2>3 DEF Parting
    <3> HIDE DEF P, req
    <3>2. Target(s) = "OFFLINE" /\ Target(s)' = "OFFLINE"
      BY <1>1, <2>1, <2>3, TargetOwn
    <3>3. Writes(s, e, P, u)
      BY <2>2, <3>1, <3>2 DEF Writes
    <3> QED
      BY <2>1, <3>3
  <2>4. CASE sess[s].status # "INVIS"
    <3>1. OfflineTo(s, u) \in P
      BY <2>2, <2>4 DEF Parting
    <3>9. \A c : OfflineTo(s, c).arg = "OFFLINE"
      BY DEF OfflineTo, In, Item
    <3>2. \A p \in P : IsNotice(p, sess[s].user) /\ Owner(p) = u => p.arg = "OFFLINE"
      BY <3>9
    <3> HIDE DEF P, req
    <3>3. Target(s)' = "OFFLINE"
      BY <1>1, <2>1, TargetOwn
    <3>4. Writes(s, e, P, u)
      BY <3>1, <3>2, <3>3, NoticesSay DEF Writes
    <3> QED
      BY <2>1, <3>4
  <2> QED
    BY <2>3, <2>4
<1>4. CASE OnChangeStatus(s, e)
  <2>1. PICK online \in BOOLEAN :
              Moves(s, e, <<Item("SM_REQUEST", e.cmd, sess[s].user, Nobody, FALSE, e.arg, 0)>>,
                  {Notice(s, e, c, online) : c \in Noticed(s, e)})
    BY <1>4, DoChangeStatus
  <2> DEFINE P == {Notice(s, e, c, online) : c \in Noticed(s, e)}
             req == <<Item("SM_REQUEST", e.cmd, sess[s].user, Nobody, FALSE, e.arg, 0)>>
  <2>2. Moves(s, e, req, P) /\ Acts(s, e)
    BY <1>4, <2>1, ActsChangeStatus
  <2>3. /\ u \in sess[s].notifySet /\ sess'[s].status = e.arg /\ e.arg \in Statuses
        /\ e.ev = "EV_S_OUT" /\ e.cmd = "CMD_CHANGE_STATUS"
    BY <1>4, ActsChangeStatus, DoChangeStatus DEF OnChangeStatus
  <2>4. CASE e.arg = sess[s].status
    <3>1. \A p \in P : ~(IsNotice(p, sess[s].user) /\ Owner(p) = u)
      BY <2>4 DEF Noticed
    <3> HIDE DEF P, req
    <3>2. Writes(s, e, P, u)
      BY <1>1, <2>2, <2>3, <2>4, <3>1, WritesNone
    <3> QED
      BY <2>2, <3>2
  <2>5. CASE e.arg # sess[s].status
    <3>1. ASSUME NEW c \in sess[s].notifySet
          PROVE  /\ IsNotice(Notice(s, e, c, online), sess[s].user)
                 /\ Owner(Notice(s, e, c, online)) = c
                 /\ Notice(s, e, c, online).arg = IF e.arg = "INVIS" THEN "OFFLINE" ELSE e.arg
      <4>1. sess[s].user \in Users /\ c \in Users /\ c # sess[s].user
        BY <1>1, <3>1, SessionFields
      <4> QED
        BY <2>1, <2>3, <2>5, <4>1, NoticeTyped DEF IsNotice, Owner
    <3>2. Notice(s, e, u, online) \in P
      BY <2>3, <2>5 DEF Noticed
    <3>3. \A p \in P : p.arg = IF e.arg = "INVIS" THEN "OFFLINE" ELSE e.arg
      BY <3>1 DEF Noticed
    <3> HIDE DEF P, req
    <3>4. Target(s)' = IF e.arg = "INVIS" THEN "OFFLINE" ELSE e.arg
      BY <1>1, <2>2, <2>3, TargetOwn
    <3>5. IsNotice(Notice(s, e, u, online), sess[s].user) /\ Owner(Notice(s, e, u, online)) = u
      BY <2>3, <3>1
    <3>6. Writes(s, e, P, u)
      BY <3>2, <3>3, <3>4, <3>5 DEF Writes
    <3> QED
      BY <2>2, <3>6
  <2> QED
    BY <2>4, <2>5
<1> QED
  BY <1>2, <1>3, <1>4

\* A handler that keeps the sessions and sends no notice for u.
LEMMA WritesKept ==
  ASSUME Base, NEW s \in DOMAIN sess, NEW e, NEW req, NEW P, Moves(s, e, req, P), Acts(s, e), NEW u,
         sess' = sess, u \in sess'[s].notifySet, e.ev # "EV_S_END",
         e.cmd # "CMD_SRV_PROBE_STATUS", sess[s].user \notin astray,
         \A p \in P : ~(IsNotice(p, sess[s].user) /\ Owner(p) = u)
  PROVE  Writes(s, e, P, u)
  BY WritesNone

\* The commands of a client that go to other modules tell nobody of its status.
LEMMA WritesCommand ==
  ASSUME Base, NEW s \in DOMAIN queue, NEW e, NEW u \in Users, u \in sess'[s].notifySet,
         OnRequest(s, e) \/ OnDelContact(s, e) \/ OnMessage(s, e), sess[s].user \notin astray
  PROVE  \E req, P : Moves(s, e, req, P) /\ Writes(s, e, P, u)
<1>1. s \in DOMAIN sess
  BY Shapes
<1>2. CASE OnRequest(s, e)
  <2>1. /\ Moves(s, e, <<>>, {Request(e)}) /\ Acts(s, e) /\ sess' = sess /\ e.ev = "EV_S_OUT"
        /\ e.cmd \in {"CMD_ADD_CONTACT", "CMD_GET_CONTACT_INFO"}
    BY <1>2, DoRequest
  <2>2. Request(e).cmd \notin Notices
    BY DEF Request, In, Item, Notices
  <2>3. \A p \in {Request(e)} : ~(IsNotice(p, sess[s].user) /\ Owner(p) = u)
    BY <2>2 DEF IsNotice
  <2>4. Writes(s, e, {Request(e)}, u)
    BY <1>1, <2>1, <2>3, WritesKept
  <2> QED
    BY <2>1, <2>4
<1>3. CASE OnDelContact(s, e)
  <2>1. PICK P \in SUBSET {Removal(e)} : Moves(s, e, <<>>, P)
    BY <1>3, DoDelContact
  <2>2. Acts(s, e) /\ sess' = sess /\ e.ev = "EV_S_OUT" /\ e.cmd = "CMD_DEL_CONTACT"
    BY <1>3, DoDelContact
  <2>3. Removal(e).cmd \notin Notices
    BY DEF Removal, In, Item, Notices
  <2>4. \A p \in P : ~(IsNotice(p, sess[s].user) /\ Owner(p) = u)
    BY <2>3 DEF IsNotice
  <2>5. Writes(s, e, P, u)
    BY <1>1, <2>1, <2>2, <2>4, WritesKept
  <2> QED
    BY <2>1, <2>5
<1>4. CASE OnMessage(s, e)
  <2>1. /\ Moves(s, e, <<>>, {Letter(e)}) /\ Acts(s, e) /\ sess' = sess /\ e.ev = "EV_S_OUT"
        /\ e.cmd = "CMD_MESSAGE" /\ e \in Packets
    BY <1>4, DoMessage
  <2>2. Letter(e).cmd \notin Notices
    BY <2>1, Submitted DEF Letter, Notices
  <2>3. \A p \in {Letter(e)} : ~(IsNotice(p, sess[s].user) /\ Owner(p) = u)
    BY <2>2 DEF IsNotice
  <2>4. Writes(s, e, {Letter(e)}, u)
    BY <1>1, <2>1, <2>3, WritesKept
  <2> QED
    BY <2>1, <2>4
<1> QED
  BY <1>2, <1>3, <1>4

\* A session that accepts u, or whose user does, tells u its status unless u knows it.
LEMMA WritesWelcome ==
  ASSUME Base, NEW s \in DOMAIN sess, NEW e \in Packets, NEW u \in Users, NEW req, NEW P,
         Moves(s, e, req, P), Acts(s, e), e.ev = "EV_S_OUT",
         Turned(s, [sess[s] EXCEPT !.notifySet = sess[s].notifySet \cup {e.to}]),
         sess[s].status # "INVIS", u \in sess'[s].notifySet, e.cmd # "CMD_SRV_PROBE_STATUS",
         NEW x, x.cmd \notin Notices, P = Welcome(s, e.to) \cup {x}, sess[s].user \notin astray
  PROVE  Writes(s, e, P, u)
<1>1. s # 0 /\ sess[s] \in Session
  BY Shapes, SessionFields
<1>2. /\ sess'[s].status = sess[s].status
      /\ sess'[s].notifySet = sess[s].notifySet \cup {e.to}
  BY <1>1 DEF Turned, Session
<1>3. ~IsNotice(x, sess[s].user)
  BY DEF IsNotice
<1>4. CASE u \in sess[s].notifySet
  <2>1. ASSUME NEW p \in Welcome(s, e.to)
        PROVE  Owner(p) # u
    <3>1. p = OnlineTo(s, e.to, sess[s].status) /\ e.to \notin sess[s].notifySet
      BY <2>1 DEF Welcome
    <3> QED
      BY <1>4, <3>1, NoticesSay
  <2>2. \A p \in P : ~(IsNotice(p, sess[s].user) /\ Owner(p) = u)
    BY <1>3, <2>1
  <2> QED
    BY <1>2, <1>4, <2>2, WritesNone
<1>5. CASE u \notin sess[s].notifySet
  <2>1. u = e.to
    BY <1>2, <1>5
  <2>3. Attended(s)
    BY <1>1, HandledInLine
  <2>2. Welcome(s, e.to) = {OnlineTo(s, u, sess[s].status)}
    BY <1>5, <2>1, <2>3 DEF Welcome
  <2> QED
    BY <1>2, <1>3, <2>2, WritesOnline
<1> QED
  BY <1>4, <1>5

\* The handlers of what is sent in a user's name tell a user who is accepted.
LEMMA WritesOut ==
  ASSUME Base, NEW s \in DOMAIN queue, NEW e, NEW u \in Users, u \in sess'[s].notifySet,
         ~Strays(s, e), sess[s].user \notin astray, OnContactAuthOut(s, e) \/ OnMessageOut(s, e)
  PROVE  \E req, P : Moves(s, e, req, P) /\ Writes(s, e, P, u)
<1>1. s \in DOMAIN sess /\ s # 0 /\ s \in {0} \cup DOMAIN queue
  BY Shapes
<1>2. CASE OnContactAuthOut(s, e)
  <2>1. /\ Moves(s, e, <<>>, Answers(s, e)) /\ Acts(s, e)
        /\ e \in Packets /\ e.ev = "EV_S_OUT" /\ e.cmd = "CMD_SRV_CONTACT_AUTH"
    BY <1>1, <1>2, DoAuthOut
  <2>2. Passed(e).cmd \notin Notices
    BY <2>1, Forwarded DEF Passed, Notices
  <2>3. CASE e.arg = "ACCEPT" /\ Sees(s)
    <3>1. Turned(s, [sess[s] EXCEPT !.notifySet = sess[s].notifySet \cup {e.to}])
      BY <1>1, <1>2, <2>3, DoAuthOut
    <3>2. Answers(s, e) = Welcome(s, e.to) \cup {Passed(e)}
      BY <1>1, <2>3 DEF Answers
    <3>3. sess[s].status # "INVIS"
      BY <2>3 DEF Sees
    <3>4. Writes(s, e, Answers(s, e), u)
      BY <1>1, <2>1, <2>2, <3>1, <3>2, <3>3, WritesWelcome
    <3> QED
      BY <2>1, <3>4
  <2>4. CASE ~(e.arg = "ACCEPT" /\ Sees(s))
    <3>1. sess' = sess
      BY <1>1, <1>2, <2>4, DoAuthOut
    <3>2. Answers(s, e) = {Passed(e)}
      BY <1>1, <2>4 DEF Answers
    <3>3. \A p \in Answers(s, e) : ~(IsNotice(p, sess[s].user) /\ Owner(p) = u)
      BY <2>2, <3>2 DEF IsNotice
    <3>4. Writes(s, e, Answers(s, e), u)
      BY <1>1, <2>1, <3>1, <3>3, WritesKept
    <3> QED
      BY <2>1, <3>4
  <2> QED
    BY <2>3, <2>4
<1>3. CASE OnMessageOut(s, e)
  <2> DEFINE P == (IF Accepts(s, e) THEN Welcome(s, e.to) ELSE {}) \cup {Passed(e)}
  <2>1. /\ Moves(s, e, <<>>, P) /\ Acts(s, e)
        /\ e \in Packets /\ e.ev = "EV_S_OUT" /\ e.cmd = "CMD_SRV_MESSAGE"
    BY <1>1, <1>3, DoMessageOut
  <2>2. Passed(e).cmd \notin Notices
    BY <2>1, Forwarded DEF Passed, Notices
  <2>3. CASE Accepts(s, e)
    <3>5. Attended(s)
      BY <1>1, <2>1, HandledInLine
    <3>1. Turned(s, [sess[s] EXCEPT !.notifySet = sess[s].notifySet \cup {e.to}])
      BY <1>1, <1>3, <2>3, <3>5, DoMessageOut
    <3>2. P = Welcome(s, e.to) \cup {Passed(e)}
      BY <2>3
    <3>3. sess[s].status # "INVIS"
      BY <2>1, <2>3 DEF Accepts, Strays, AcceptsUnseen
    <3> HIDE DEF P
    <3>4. Writes(s, e, P, u)
      BY <1>1, <2>1, <2>2, <3>1, <3>2, <3>3, WritesWelcome
    <3> QED
      BY <2>1, <3>4
  <2>4. CASE ~Accepts(s, e)
    <3>1. sess' = sess
      BY <1>1, <1>3, <2>4, DoMessageOut
    <3>2. P = {Passed(e)}
      BY <2>4
    <3> HIDE DEF P
    <3>3. \A p \in P : ~(IsNotice(p, sess[s].user) /\ Owner(p) = u)
      BY <2>2, <3>2 DEF IsNotice
    <3>4. Writes(s, e, P, u)
      BY <1>1, <2>1, <3>1, <3>3, WritesKept
    <3> QED
      BY <2>1, <3>4
  <2> QED
    BY <2>3, <2>4
<1> QED
  BY <1>2, <1>3

\* The handlers of what comes for a user: a probe is answered, all others tell
\* nobody.
LEMMA WritesIn ==
  ASSUME Base, NEW s \in DOMAIN queue, NEW e, NEW u \in Users, u \in sess'[s].notifySet,
         u # sess[s].user, sess[s].user \notin astray,
         \/ OnUserStatus(s, e) \/ OnProbeStatus(s, e) \/ OnAddContactIn(s, e)
         \/ OnContactAuthIn(s, e) \/ OnDelContactIn(s, e) \/ OnMessageIn(s, e)
         \/ OnContactInfoIn(s, e) \/ OnContactInfoReply(s, e)
  PROVE  \E req, P : Moves(s, e, req, P) /\ Writes(s, e, P, u)
<1>1. s \in DOMAIN sess /\ s # 0 /\ s \in {0} \cup DOMAIN queue
  BY Shapes
<1>2. CASE OnUserStatus(s, e)
  <2>1. /\ Moves(s, e, <<>>, {}) /\ Acts(s, e) /\ e.ev = "EV_S_IN" /\ e.cmd \in Notices
        /\ sess'[s].notifySet = sess[s].notifySet /\ sess'[s].status = sess[s].status
    BY <1>1, <1>2, DoUserStatus DEF Attended
  <2>2. Writes(s, e, {}, u)
    BY <1>1, <2>1, WritesNone DEF Notices
  <2> QED
    BY <2>1, <2>2
<1>3. CASE OnProbeStatus(s, e)
  <2> DEFINE P == IF Answering(s, e) THEN {OnlineTo(s, e.from, sess[s].status)} ELSE {}
  <2>1. /\ Moves(s, e, <<>>, P) /\ Acts(s, e) /\ sess' = sess
        /\ e \in Packets /\ e.ev = "EV_S_IN" /\ e.cmd = "CMD_SRV_PROBE_STATUS"
    BY <1>1, <1>3, DoProbeStatus
  <2>2. CASE e.from # u
    <3>1. \A p \in P : ~(IsNotice(p, sess[s].user) /\ Owner(p) = u)
      BY <2>2, NoticesSay
    <3> HIDE DEF P
    <3>2. Writes(s, e, P, u)
      BY <1>1, <2>1, <2>2, <3>1, WritesNone
    <3> QED
      BY <2>1, <3>2
  <2>3. CASE e.from = u /\ Answering(s, e)
    <3>1. P = {OnlineTo(s, u, sess[s].status)} /\ sess[s].status # "INVIS"
      BY <2>3 DEF Answering
    <3> HIDE DEF P
    <3>2. Writes(s, e, P, u)
      BY <1>1, <2>1, <3>1, WritesOnline
    <3> QED
      BY <2>1, <3>2
  <2>4. CASE e.from = u /\ ~Answering(s, e)
    <3>4. Attended(s)
      BY <1>1, <2>1, HandledInLine
    <3>1. P = {} /\ sess[s].status = "INVIS"
      BY <1>1, <2>1, <2>4, <3>4 DEF Answering
    <3> HIDE DEF P
    <3>2. Target(s) = "OFFLINE" /\ Target(s)' = "OFFLINE"
      BY <1>1, <2>1, <3>1, TargetOwn
    <3>3. Writes(s, e, P, u)
      BY <2>1, <3>1, <3>2 DEF Writes
    <3> QED
      BY <2>1, <3>3
  <2> QED
    BY <2>2, <2>3, <2>4
<1>4. CASE OnAddContactIn(s, e)
  <2>1. /\ Moves(s, e, <<>>, {Answer(e)}) /\ Acts(s, e) /\ sess' = sess
        /\ e.ev = "EV_S_IN" /\ e.cmd = "CMD_SRV_ADD_CONTACT"
    BY <1>1, <1>4, DoAddContactIn
  <2>2. Answer(e).cmd \notin Notices
    BY DEF Answer, Out, Item, Notices
  <2>3. \A p \in {Answer(e)} : ~(IsNotice(p, sess[s].user) /\ Owner(p) = u)
    BY <2>2 DEF IsNotice
  <2>4. Writes(s, e, {Answer(e)}, u)
    BY <1>1, <2>1, <2>3, WritesKept
  <2> QED
    BY <2>1, <2>4
<1>5. CASE OnContactAuthIn(s, e) \/ OnMessageIn(s, e) \/ OnContactInfoReply(s, e)
  <2>1. /\ Moves(s, e, <<>>, {}) /\ Acts(s, e) /\ sess' = sess
        /\ e.ev = "EV_S_IN" /\ e.cmd # "CMD_SRV_PROBE_STATUS"
    BY <1>1, <1>5, DoAuthIn, DoMessageIn, DoInfoReply
  <2>2. Writes(s, e, {}, u)
    BY <1>1, <2>1, WritesKept
  <2> QED
    BY <2>1, <2>2
<1>6. CASE OnDelContactIn(s, e)
  <2>1. /\ Moves(s, e, <<>>, {}) /\ Acts(s, e)
        /\ e.ev = "EV_S_IN" /\ e.cmd = "CMD_SRV_DEL_CONTACT"
    BY <1>1, <1>6, DoDelContactIn
  <2>4. Attended(s)
    BY <1>1, <2>1, HandledInLine
  <2>5. Turned(s, [sess[s] EXCEPT !.notifySet = sess[s].notifySet \ {e.from}])
    BY <1>1, <1>6, <2>4, DoDelContactIn
  <2>2. sess'[s].status = sess[s].status /\ sess'[s].notifySet = sess[s].notifySet \ {e.from}
    BY <1>1, <2>5, SessionFields DEF Turned, Session
  <2>3. Writes(s, e, {}, u)
    BY <1>1, <2>1, <2>2, WritesNone
  <2> QED
    BY <2>1, <2>3
<1>7. CASE OnContactInfoIn(s, e)
  <2>1. /\ Moves(s, e, <<>>, {Reply(e)}) /\ Acts(s, e) /\ sess' = sess
        /\ e.ev = "EV_S_IN" /\ e.cmd = "CMD_SRV_CONTACT_INFO"
    BY <1>1, <1>7, DoInfoIn
  <2>2. Reply(e).cmd \notin Notices
    BY DEF Reply, In, Item, Notices
  <2>3. \A p \in {Reply(e)} : ~(IsNotice(p, sess[s].user) /\ Owner(p) = u)
    BY <2>2 DEF IsNotice
  <2>4. Writes(s, e, {Reply(e)}, u)
    BY <1>1, <2>1, <2>3, WritesKept
  <2> QED
    BY <2>1, <2>4
<1> QED
  BY <1>2, <1>3, <1>4, <1>5, <1>6, <1>7

\* Whatever session s handles: a user it watches has news of it or nothing changed.
LEMMA HandlesWrites ==
  ASSUME Base, NEW s \in DOMAIN queue, NEW e, Handles(s, e), NEW u \in Users,
         u \in sess'[s].notifySet, u # sess[s].user, ~Strays(s, e), sess[s].user \notin astray
  PROVE  \E req, P : Moves(s, e, req, P) /\ Writes(s, e, P, u)
<1>1. SessionStep(s, e) \/ EventStep(s, e)
  BY DEF Handles
<1>2. CASE SessionStep(s, e)
  <2>1. CASE OnSession(s, e) \/ OnSessionEnd(s, e) \/ OnChangeStatus(s, e)
    BY <2>1, WritesSession
  <2>2. CASE OnRequest(s, e) \/ OnDelContact(s, e) \/ OnMessage(s, e)
    BY <2>2, WritesCommand
  <2> QED
    BY <1>2, <2>1, <2>2 DEF SessionStep
<1>3. CASE EventStep(s, e)
  <2>1. CASE OnContactAuthOut(s, e) \/ OnMessageOut(s, e)
    BY <2>1, WritesOut
  <2>2. CASE \/ OnUserStatus(s, e) \/ OnProbeStatus(s, e) \/ OnAddContactIn(s, e)
             \/ OnContactAuthIn(s, e) \/ OnDelContactIn(s, e) \/ OnMessageIn(s, e)
             \/ OnContactInfoIn(s, e) \/ OnContactInfoReply(s, e)
    BY <2>2, WritesIn
  <2> QED
    BY <1>3, <2>1, <2>2 DEF EventStep
<1> QED
  BY <1>1, <1>2, <1>3

\* A step of a handler keeps two sessions apart only if they were.
LEMMA ApartHandles ==
  ASSUME Base, NEW s0, NEW e, Handles(s0, e), NEW r, NEW s, NEW u, NEW c, Apart(r, s, u, c)'
  PROVE  /\ Apart(r, s, u, c) /\ u \in Users /\ c \in Users /\ r # s
         /\ r = s0 <=> Owner(e) = u
         /\ Strays(s0, e) => Owner(e) # c
         /\ s0 # 0 => s0 \in DOMAIN queue /\ (sess[s0].user = c => s0 = s)
<1>1. PICK req, P : Moves(s0, e, req, P) /\ req \in Seq(Reports)
  BY BaseHandles
<1>2. Acts(s0, e)
  BY BaseHandles
<1>3. hash' = hash /\ DOMAIN sess' = DOMAIN sess
  BY <1>1, <1>2, Shapes DEF Moves, Acts
<1>4. r \in DOMAIN sess /\ s \in DOMAIN sess /\ sess[r].user = u /\ sess[s].user = c /\ u # c
  BY <1>2, <1>3 DEF Apart, Acts
<1>5. u \in Users /\ c \in Users /\ r # s
  BY <1>4, SessionFields
<1>6. InOrder(u)' /\ InOrder(c)' /\ hash[u] = r
  BY <1>3 DEF Apart
<1>7. /\ InOrder(u) /\ (Strays(s0, e) => u # Owner(e))
      /\ InOrder(c) /\ (Strays(s0, e) => c # Owner(e))
  BY <1>5, <1>6, HandlesOrder
<1>8. hash[u] # 0
  BY <1>4, <1>6, Shapes
<1>9. r = s0 <=> Owner(e) = u
  BY <1>5, <1>6, <1>8, HandlesOwn
<1>10. ~Accepting(u, c)
  <2>1. ASSUME NEW f \in Outside, Accepted(f, u, c)
        PROVE  f \in Outside'
    <3>1. CASE s0 = 0 /\ f = e
      <4>1. Owner(e) = u
        BY <2>1, <3>1 DEF Accepted, Owner
      <4>2. Strays(s0, e)
        BY <1>8, <3>1, <4>1 DEF Strays
      <4> QED
        BY <1>7, <4>1, <4>2
    <3> QED
      BY <1>1, <3>1, OutsideKept
  <2>2. ~Accepting(u, c)'
    BY DEF Apart
  <2> QED
    BY <2>1, <2>2 DEF Accepting
<1>11. ASSUME s0 # 0
       PROVE  s0 \in DOMAIN queue /\ (sess[s0].user = c => s0 = s)
  <2>1. s0 \in DOMAIN queue /\ s0 \in DOMAIN sess
    BY <1>1, <1>11, OwnerAt
  <2>2. ASSUME sess[s0].user = c
        PROVE  s0 = s
    <3>1. s0 \in SessionsOf(c) /\ s \in SessionsOf(c)
      BY <1>4, <2>1, <2>2 DEF SessionsOf
    <3> QED
      BY <1>5, <1>7, <3>1, OneSession
  <2> QED
    BY <2>1, <2>2
<1> QED
  BY <1>4, <1>5, <1>6, <1>7, <1>9, <1>10, <1>11 DEF Apart

\* Every handler keeps ViewsInv.
LEMMA ViewsHandles ==
  ASSUME Base, ViewsInv, NEW s0, NEW e, Handles(s0, e)
  PROVE  ViewsInv'
<1> SUFFICES ASSUME NEW r, NEW s, NEW u, NEW c, Apart(r, s, u, c)', u \in sess'[s].notifySet
             PROVE  Right(r, s)'
  BY DEF ViewsInv
<1>1. /\ Apart(r, s, u, c) /\ u \in Users /\ c \in Users /\ r # s
      /\ r = s0 <=> Owner(e) = u
      /\ Strays(s0, e) => Owner(e) # c
      /\ s0 # 0 => s0 \in DOMAIN queue /\ (sess[s0].user = c => s0 = s)
  BY ApartHandles
<1>2. /\ r \in DOMAIN sess /\ s \in DOMAIN sess /\ sess[r].user = u /\ sess[s].user = c /\ u # c
      /\ hash[u] = r /\ u \notin astray /\ c \notin astray
  BY <1>1 DEF Apart, InOrder
<1>3. u \in sess[s].notifySet => Right(r, s)
  BY <1>1 DEF ViewsInv
<1>4. Acts(s0, e)
  BY BaseHandles
<1>5. CASE s0 = r
  <2>1. u \in sess[s].notifySet
    BY <1>1, <1>2, <1>4, <1>5 DEF Acts
  <2>2. Handles(r, e)
    BY <1>5
  <2> QED
    BY <1>2, <1>3, <2>1, <2>2, RightReader
<1>6. CASE s0 = s
  <2>1. s \in DOMAIN queue /\ s # 0
    BY <1>2, Shapes
  <2>2. Handles(s, e) /\ Acts(s, e)
    BY <1>4, <1>6
  <2>3. PICK req, P : Moves(s, e, req, P)
    BY <2>2, BaseHandles
  <2>4. Owner(e) = c
    BY <1>2, <2>1, <2>3, OwnerAt
  <2>5. ~Strays(s, e)
    BY <1>1, <1>6, <2>4
  <2>6. PICK req1, P1 : Moves(s, e, req1, P1) /\ Writes(s, e, P1, u)
    BY <1>1, <1>2, <2>1, <2>2, <2>5, HandlesWrites
  <2> QED
    BY <1>2, <1>3, <2>2, <2>6, RightWrites
<1>7. CASE s0 # r /\ s0 # s
  <2>1. PICK req, P : Moves(s0, e, req, P) /\ req \in Seq(Reports) /\ \A p \in P : Fair(s0, e, p)
    BY HandlesFair
  <2>2. u \in sess[s].notifySet
    BY <1>2, <1>4, <1>7 DEF Acts
  <2>3. \A p \in P : ~(IsNotice(p, sess[s].user) /\ Owner(p) = sess[r].user)
    BY <1>1, <1>2, <1>7, <2>1 DEF IsNotice, Fair
  <2>4. Target(s)' = Target(s)
    BY <1>2, <1>4, <1>7, <2>1, TargetOther
  <2>5. Owner(e) # sess[r].user
    BY <1>1, <1>2, <1>7
  <2> QED
    BY <1>2, <1>3, <1>4, <1>7, <2>1, <2>2, <2>3, <2>4, <2>5, RightStill
<1> QED
  BY <1>5, <1>6, <1>7

\* Nothing that concerns the sessions r and s changes but that events may join their
\* queues.
Undisturbed(r, s, c) ==
  /\ sess'[r].user = sess[r].user /\ sess'[s].user = sess[s].user
  /\ sess'[r].view = sess[r].view
  /\ roster' = roster /\ Target(s)' = Target(s)
  /\ Starting(r) => Starting(r)'
  /\ ToSet(queue[s]) \subseteq ToSet(queue'[s])
  /\ \/ queue'[r] = queue[r]
     \/ \E z \in Packets \cup Marks : ~IsNotice(z, c) /\ queue'[r] = Append(queue[r], z)

\* A client that is left undisturbed shows what it should, or will.
LEMMA RightUndisturbed ==
  ASSUME Base, NEW r \in DOMAIN sess, NEW s \in DOMAIN sess, Right(r, s),
         Undisturbed(r, s, sess[s].user)
  PROVE  Right(r, s)'
<1> DEFINE S == Packets \cup Marks
           c == sess[s].user
           v == sess[r].view[sess[s].user]
           q == queue[r]
<1>1. /\ sess'[r].user = sess[r].user /\ sess'[s].user = c /\ sess'[r].view = sess[r].view
      /\ roster' = roster /\ Target(s)' = Target(s)
      /\ Starting(r) => Starting(r)'
      /\ ToSet(queue[s]) \subseteq ToSet(queue'[s])
  BY DEF Undisturbed
<1>2. \/ queue'[r] = q
      \/ \E z \in S : ~IsNotice(z, c) /\ queue'[r] = Append(q, z)
  BY DEF Undisturbed
<1>3. q \in Seq(S)
  BY Shapes
<1>4. ASSUME NEW x, Shows(r, s, x)
      PROVE  Says(queue'[r], sess'[s].user, sess'[r].view[sess'[s].user], x)
  <2>1. Says(q, c, v, x)
    BY <1>4 DEF Shows
  <2>2. sess'[r].view[sess'[s].user] = v
    BY <1>1
  <2> HIDE DEF S, c, v, q
  <2>3. Says(queue'[r], c, v, x)
    <3>1. CASE queue'[r] = q
      BY <2>1, <3>1
    <3>2. CASE \E z \in S : ~IsNotice(z, c) /\ queue'[r] = Append(q, z)
      BY <1>3, <2>1, <3>2, SaysAppend
    <3> QED
      BY <1>2, <3>1, <3>2
  <2> QED
    BY <1>1, <2>2, <2>3
<1>5. Shows(r, s, Target(s)) => Shows(r, s, Target(s))'
  BY <1>1, <1>4 DEF Shows
<1>6. Shows(r, s, "OFFLINE") => Shows(r, s, "OFFLINE")'
  BY <1>4 DEF Shows
<1>7. Awaits(r, s) => Awaits(r, s)'
  BY <1>1 DEF Awaits
<1>8. Pending(r, s) => Pending(r, s)'
  BY <1>1, <1>7 DEF Pending
<1> QED
  BY <1>5, <1>6, <1>8 DEF Right

\* A step between two handlers that leaves every pair of sessions undisturbed.
LEMMA ViewsStill ==
  ASSUME Base, ViewsInv,
         \A r, s, u, c : Apart(r, s, u, c)' /\ u \in sess'[s].notifySet =>
           Apart(r, s, u, c) /\ u \in sess[s].notifySet /\ Undisturbed(r, s, c)
  PROVE  ViewsInv'
<1> SUFFICES ASSUME NEW r, NEW s, NEW u, NEW c, Apart(r, s, u, c)', u \in sess'[s].notifySet
             PROVE  Right(r, s)'
  BY DEF ViewsInv
<1>1. Apart(r, s, u, c) /\ u \in sess[s].notifySet /\ Undisturbed(r, s, c)
  OBVIOUS
<1>2. r \in DOMAIN sess /\ s \in DOMAIN sess /\ sess[s].user = c
  BY <1>1 DEF Apart
<1>3. Right(r, s)
  BY <1>1 DEF ViewsInv
<1> QED
  BY <1>1, <1>2, <1>3, RightUndisturbed

\* A session that has not begun has not begun when another event joins its
\* queue.
LEMMA StartingStays ==
  ASSUME Base, NEW r \in DOMAIN queue, NEW z \in Packets \cup Marks, queue'[r] = Append(queue[r], z),
         Starting(r)
  PROVE  Starting(r)'
<1> DEFINE S == Packets \cup Marks
<1>1. queue[r] \in Seq(S) /\ z \in S
  BY Shapes
<1> HIDE DEF S
<1>2. /\ Len(queue[r]) \in Nat /\ DOMAIN queue[r] = 1 .. Len(queue[r])
      /\ DOMAIN Append(queue[r], z) = 1 .. Len(queue[r]) + 1
      /\ \A k \in 1 .. Len(queue[r]) : Append(queue[r], z)[k] = queue[r][k]
  BY <1>1, AppendSeq
<1>3. \A k \in DOMAIN queue[r] : k \in DOMAIN queue'[r] /\ queue'[r][k] = queue[r][k]
  BY <1>2
<1> QED
  BY <1>3 DEF Starting

\* A command of a client, or the mark that ends its session, joins the queue of its
\* session.
LEMMA ViewsComes ==
  ASSUME Base, Base', ViewsInv, NEW i, NEW x \in Packets \cup Marks, x.cmd \notin Notices, Comes(i, x),
         Idle(x), hash[sess[i].user] = i, hash'[sess[i].user] = i \/ x.ev = "EV_S_END",
         \A s \in DOMAIN sess : s # i => (hash'[sess[s].user] = s <=> hash[sess[s].user] = s),
         \A u \in Users : hash'[u] # 0 => hash'[u] = hash[u]
  PROVE  ViewsInv'
<1>1. \A u \in Users : InOrder(u)' => InOrder(u)
  BY CalmComes DEF Calm
<1>2. /\ queue' \in Seq(Seq(Packets \cup Marks)) /\ DOMAIN queue' = DOMAIN queue
      /\ i \in DOMAIN queue /\ sess' = sess
      /\ queue'[i] = Append(queue[i], x) /\ \A j \in DOMAIN queue : j # i => queue'[j] = queue[j]
      /\ ToSet(queue'[i]) = ToSet(queue[i]) \cup {x}
  BY ComesTyped
<1>3. roster' = roster /\ Outside' = Outside
  BY DEF Comes, Outside
<1>4. DOMAIN queue = DOMAIN sess
  BY Shapes
<1>5. ASSUME NEW r, NEW s, NEW u, NEW c, Apart(r, s, u, c)', u \in sess'[s].notifySet
      PROVE  Apart(r, s, u, c) /\ u \in sess[s].notifySet /\ Undisturbed(r, s, c)
  <2>1. /\ r \in DOMAIN sess /\ s \in DOMAIN sess /\ sess[r].user = u /\ sess[s].user = c /\ u # c
        /\ hash'[u] = r
    BY <1>2, <1>5 DEF Apart
  <2>2. u \in Users /\ c \in Users
    BY <2>1, SessionFields
  <2>3. hash[u] = r
    BY <1>4, <2>1, <2>2, Shapes
  <2>4. InOrder(u) /\ InOrder(c)
    BY <1>1, <1>5, <2>2 DEF Apart
  <2>5. ~Accepting(u, c)
    BY <1>3, <1>5 DEF Apart, Accepting
  <2>6. Apart(r, s, u, c)
    BY <2>1, <2>3, <2>4, <2>5 DEF Apart
  <2>7. Present(s)' <=> Present(s)
    <3>1. CASE s = i
      <4>1. Present(i)
        BY DEF Present
      <4>2. x \in ToSet(queue'[i]) /\ sess'[i].user = sess[i].user
        BY <1>2
      <4>3. Present(i)'
        BY <4>2, PresentSet
      <4> QED
        BY <3>1, <4>1, <4>3
    <3>2. CASE s # i
      BY <1>2, <1>4, <2>1, <3>2 DEF Present
    <3> QED
      BY <3>1, <3>2
  <2>8. Target(s)' = Target(s)
    BY <1>2, <2>7 DEF Target
  <2>9. Starting(r) => Starting(r)'
    <3>1. CASE r = i
      BY <1>2, <3>1, StartingStays
    <3>2. CASE r # i
      BY <1>2, <1>4, <2>1, <3>2 DEF Starting
    <3> QED
      BY <3>1, <3>2
  <2>10. ToSet(queue[s]) \subseteq ToSet(queue'[s])
    BY <1>2, <1>4, <2>1
  <2>11. \/ queue'[r] = queue[r]
         \/ \E z \in Packets \cup Marks : ~IsNotice(z, c) /\ queue'[r] = Append(queue[r], z)
    BY <1>2, <1>4, <2>1 DEF IsNotice
  <2> QED
    BY <1>2, <1>3, <1>5, <2>6, <2>8, <2>9, <2>10, <2>11 DEF Undisturbed
<1> QED
  BY <1>5, ViewsStill

\* OneSession as a formula.
LEMMA OneSessionOf ==
  Base => \A v \in Users : InOrder(v) => \A i, k \in SessionsOf(v) : i = k
  BY OneSession

\* A user who logs in shows everyone OFFLINE and asks those who watch him: they are on
\* his list, or their answer is not yet there.
LEMMA ViewsNewcomer ==
  ASSUME Base, Base', NewcomerInv, NEW u \in Users, NEW status \in Statuses, NEW n,
         Begins(u, status, n), NEW s \in DOMAIN sess, NEW c, Apart(n, s, u, c)',
         u \in sess[s].notifySet
  PROVE  Right(n, s)'
<1>1. /\ n = Len(sess) + 1 /\ Len(sess) \in Nat /\ DOMAIN sess = 1 .. Len(sess)
      /\ DOMAIN sess' = 1 .. n /\ \A i \in DOMAIN sess : sess'[i] = sess[i]
  BY Shapes DEF Begins
<1>2. n \notin DOMAIN sess /\ n \in DOMAIN sess' /\ DOMAIN sess \subseteq DOMAIN sess'
  BY <1>1
<1>3. sess[s].user = c /\ c \in Users
  BY <1>1, SessionFields DEF Apart
<1>4. SessionsOf(u) = {}
  <2> SUFFICES ASSUME NEW j \in SessionsOf(u) PROVE FALSE
    OBVIOUS
  <2>1. j \in DOMAIN sess /\ sess[j].user = u
    BY DEF SessionsOf
  <2>2. j \in SessionsOf(u)' /\ n \in SessionsOf(u)'
    BY <1>1, <1>2, <2>1 DEF SessionsOf, Begins
  <2>3. Base' => (\A v \in Users : InOrder(v) => \A i, k \in SessionsOf(v) : i = k)'
    BY OneSessionOf, PTL
  <2>4. InOrder(u)' => \A i, k \in SessionsOf(u)' : i = k
    BY <2>3
  <2>5. InOrder(u)'
    BY DEF Apart
  <2>6. j = n
    BY <2>2, <2>4, <2>5
  <2> QED
    BY <1>2, <2>1, <2>6
<1>5. Watches(c, u)
  BY <1>3 DEF Watches, SessionsOf
<1>6. Outside' = Outside /\ roster' = roster
  BY DEF Begins, Outside
<1>7. ~Accepting(u, c)
  BY <1>6 DEF Apart, Accepting
<1>8. "SUB_TO" \in roster[u][c]
  BY <1>3, <1>4, <1>5, <1>7 DEF NewcomerInv
<1>9. /\ sess'[n].user = u /\ sess'[n].view = [x \in Users |-> "OFFLINE"] /\ sess'[s].user = c
      /\ queue'[n] = <<BeginMark(u, status)>>
  BY <1>1, <1>3 DEF Begins
<1>10. Starting(n)'
  <2>1. BeginMark(u, status).ev = "EV_SESSION"
    BY MarksTyped
  <2> QED
    BY <1>9, <2>1 DEF Starting
<1>11. Pending(n, s)'
  BY <1>6, <1>8, <1>9, <1>10 DEF Pending
<1>12. Says(queue'[n], sess'[s].user, sess'[n].view[sess'[s].user], "OFFLINE")
  <2> DEFINE z == BeginMark(u, status)
             q == <<z>>
             v == [x \in Users |-> "OFFLINE"][c]
  <2>1. z.cmd \notin Notices
    BY MarksTyped DEF Notices
  <2>2. v = "OFFLINE"
    BY <1>3
  <2> HIDE DEF z, v
  <2>3. Len(q) \in Nat /\ \A k \in 1 .. Len(q) : ~IsNotice(q[k], c)
    BY <2>1 DEF IsNotice
  <2> HIDE DEF q
  <2>4. Says(q, c, v, "OFFLINE")
    BY <2>2, <2>3, SaysNone
  <2> QED
    BY <1>9, <2>4 DEF q, z, v
<1> QED
  BY <1>11, <1>12 DEF Right, Shows

\* The beginning of a session keeps ViewsInv.
LEMMA ViewsBegins ==
  ASSUME Base, Base', NewcomerInv, ViewsInv, NEW u0 \in Users, NEW status \in Statuses, NEW n,
         Begins(u0, status, n)
  PROVE  ViewsInv'
<1>1. /\ n = Len(sess) + 1 /\ Len(sess) \in Nat /\ DOMAIN sess = 1 .. Len(sess)
      /\ DOMAIN queue = DOMAIN sess
      /\ DOMAIN sess' = 1 .. n /\ \A i \in DOMAIN sess : sess'[i] = sess[i]
  BY Shapes DEF Begins
<1>2. n \notin DOMAIN sess /\ DOMAIN sess' = DOMAIN sess \cup {n}
  BY <1>1
<1>3. \A v \in Users : InOrder(v)' => InOrder(v)
  BY CalmBegins DEF Calm
<1>4. roster' = roster /\ Outside' = Outside /\ hash[u0] = 0 /\ hash' = [hash EXCEPT ![u0] = n]
  BY DEF Begins, Outside
<1> SUFFICES ASSUME NEW r, NEW s, NEW u, NEW c, Apart(r, s, u, c)', u \in sess'[s].notifySet
             PROVE  Right(r, s)'
  BY DEF ViewsInv
<1>5. s \in DOMAIN sess /\ sess'[s] = sess[s] /\ queue'[s] = queue[s]
  <2>1. s # n
    BY DEF Begins
  <2>2. s \in DOMAIN sess'
    BY DEF Apart
  <2> QED
    BY <1>1, <1>2, <2>1, <2>2 DEF Begins
<1>6. CASE r = n
  <2>1. u = u0
    BY <1>6 DEF Apart, Begins
  <2>2. Right(n, s)'
    BY <1>5, <1>6, <2>1, ViewsNewcomer
  <2> QED
    BY <1>6, <2>2
<1>7. CASE r # n
  <2>1. r \in DOMAIN sess /\ sess'[r] = sess[r] /\ queue'[r] = queue[r]
    BY <1>1, <1>2, <1>7 DEF Begins, Apart
  <2>2. sess[r].user = u /\ sess[s].user = c /\ u # c /\ hash'[u] = r
    BY <1>5, <2>1 DEF Apart
  <2>3. u \in Users /\ c \in Users
    BY <1>5, <2>1, <2>2, SessionFields
  <2>4. hash[u] = r
    BY <1>4, <1>7, <2>2, <2>3, Shapes
  <2>5. InOrder(u) /\ InOrder(c) /\ ~Accepting(u, c)
    BY <1>3, <1>4, <2>3 DEF Apart, Accepting
  <2>6. Apart(r, s, u, c)
    BY <1>5, <2>1, <2>2, <2>4, <2>5 DEF Apart
  <2>7. Right(r, s)
    BY <1>5, <2>6 DEF ViewsInv
  <2>8. hash'[c] = s <=> hash[c] = s
    <3>1. s # 0 /\ s # n
      BY <1>1, <1>2, <1>5
    <3> QED
      BY <1>4, <2>3, <3>1, Shapes
  <2>9. Target(s)' = Target(s)
    BY <1>5, <2>2, <2>8 DEF Target, Present
  <2>10. Undisturbed(r, s, sess[s].user)
    BY <1>4, <1>5, <2>1, <2>9 DEF Undisturbed, Starting
  <2> QED
    BY <1>5, <2>1, <2>7, <2>10, RightUndisturbed
<1> QED
  BY <1>6, <1>7

\* A packet from sm reaches neither of two sessions that are in order, and takes no
\* acceptance away: whoever has a session it finds there is astray.
LEMMA ViewsArrives ==
  ASSUME Base, Base', ViewsInv, NEW e, Arrives(e)
  PROVE  ViewsInv'
<1>1. /\ hash' = hash /\ sess' = sess /\ roster' = roster /\ e \in Incoming /\ smIn' = smIn
      /\ smOut \in Seq(Incoming) /\ smOut # <<>> /\ e = Head(smOut) /\ smOut' = Tail(smOut)
      /\ DOMAIN loose' = DOMAIN loose \cup (IF hash[e.to] = 0 THEN {e} ELSE {})
      /\ astray' = IF hash[e.to] # 0 THEN astray \cup {e.to} ELSE astray
  BY DEF Arrives, Base, Typed
<1>2. \A v \in Users : InOrder(v)' => InOrder(v)
  BY CalmArrives
<1>3. ToSet(smOut) = {e} \cup ToSet(smOut')
  BY <1>1, TailSeq
<1>4. e.to \in Users /\ Owner(e) = e.to
  BY <1>1, PacketFields DEF Incoming, Owner
<1>5. ASSUME NEW i \in DOMAIN queue, NEW v, sess[i].user = v, InOrder(v)'
      PROVE  queue'[i] = queue[i]
  <2>1. PICK h \in Seq(Packets) : /\ queue'[i] = Rest(i, 0) \o h
                                  /\ ToSet(h) = {p \in {e} : hash[Owner(p)] = i}
    BY <1>5 DEF Arrives
  <2>2. hash[e.to] # i
    <3>1. i # 0 /\ (hash[e.to] # 0 => sess[hash[e.to]].user = e.to)
      BY <1>4, <1>5, Shapes
    <3> QED
      BY <1>1, <1>5, <3>1 DEF InOrder
  <2>3. h = <<>>
    BY <1>4, <2>1, <2>2, ElementsSeq
  <2>4. i # 0 /\ queue[i] \in Seq(Packets \cup Marks)
    BY <1>5, Shapes
  <2> QED
    BY <2>1, <2>3, <2>4 DEF Rest
<1>6. ASSUME NEW r, NEW s, NEW u, NEW c, Apart(r, s, u, c)', u \in sess'[s].notifySet
      PROVE  Apart(r, s, u, c) /\ u \in sess[s].notifySet /\ Undisturbed(r, s, c)
  <2>1. /\ r \in DOMAIN sess /\ s \in DOMAIN sess /\ sess[r].user = u /\ sess[s].user = c /\ u # c
        /\ hash[u] = r
    BY <1>1, <1>6 DEF Apart
  <2>2. u \in Users /\ c \in Users /\ r \in DOMAIN queue /\ s \in DOMAIN queue
    BY <2>1, SessionFields, Shapes
  <2>3. InOrder(u) /\ InOrder(c) /\ InOrder(u)' /\ InOrder(c)'
    BY <1>2, <1>6, <2>2 DEF Apart
  <2>4. ~Accepting(u, c)
    <3>1. ASSUME NEW f \in Outside, Accepted(f, u, c)
          PROVE  f \in Outside'
      <4>1. f # e
        <5>1. hash[u] # 0
          BY <2>1, Shapes
        <5>2. e.to # u
          BY <1>1, <2>3, <5>1 DEF InOrder
        <5> QED
          BY <3>1, <5>2 DEF Accepted
      <4> QED
        BY <1>1, <1>3, <3>1, <4>1 DEF Outside, BagToSet
    <3>2. ~Accepting(u, c)'
      BY <1>6 DEF Apart
    <3> QED
      BY <3>1, <3>2 DEF Accepting
  <2>5. Apart(r, s, u, c)
    BY <2>1, <2>3, <2>4 DEF Apart
  <2>6. queue'[r] = queue[r] /\ queue'[s] = queue[s]
    BY <1>5, <2>1, <2>2, <2>3
  <2>7. Target(s)' = Target(s)
    BY <1>1, <2>6 DEF Target, Present
  <2>8. Starting(r) => Starting(r)'
    BY <2>6 DEF Starting
  <2> QED
    BY <1>1, <1>6, <2>5, <2>6, <2>7, <2>8 DEF Undisturbed
<1> QED
  BY <1>6, ViewsStill

\* A packet that overtakes a session's first event or is overtaken by its last leaves
\* two sessions that are in order as they are: that session's user is astray.
LEMMA ViewsOvertakes ==
  ASSUME Base, Base', ViewsInv, NEW i, NEW k, Overtakes(i, k)
  PROVE  ViewsInv'
<1>1. /\ hash' = hash /\ sess' = sess /\ roster' = roster /\ Outside' = Outside
      /\ \A j \in DOMAIN queue : j # i => queue'[j] = queue[j]
      /\ astray' = astray \cup {sess[i].user}
  BY DEF Overtakes, Swapped, Outside
<1>2. \A v \in Users : InOrder(v)' => InOrder(v)
  BY CalmOvertakes
<1>3. ASSUME NEW r, NEW s, NEW u, NEW c, Apart(r, s, u, c)', u \in sess'[s].notifySet
      PROVE  Apart(r, s, u, c) /\ u \in sess[s].notifySet /\ Undisturbed(r, s, c)
  <2>1. /\ r \in DOMAIN sess /\ s \in DOMAIN sess /\ sess[r].user = u /\ sess[s].user = c /\ u # c
        /\ hash[u] = r /\ u \notin astray' /\ c \notin astray'
    BY <1>1, <1>3 DEF Apart, InOrder
  <2>2. u \in Users /\ c \in Users /\ r \in DOMAIN queue /\ s \in DOMAIN queue
    BY <2>1, SessionFields, Shapes
  <2>3. InOrder(u) /\ InOrder(c) /\ ~Accepting(u, c)
    BY <1>1, <1>2, <1>3, <2>2 DEF Apart, Accepting
  <2>4. Apart(r, s, u, c)
    BY <2>1, <2>3 DEF Apart
  <2>5. queue'[r] = queue[r] /\ queue'[s] = queue[s]
    BY <1>1, <2>1, <2>2
  <2>6. Target(s)' = Target(s)
    BY <1>1, <2>5 DEF Target, Present
  <2>7. Starting(r) => Starting(r)'
    BY <2>5 DEF Starting
  <2> QED
    BY <1>1, <1>3, <2>4, <2>5, <2>6, <2>7 DEF Undisturbed
<1> QED
  BY <1>3, ViewsStill

\* A step that changes no queue, nor who shows what to whom.
LEMMA ViewsRest ==
  ASSUME Base, ViewsInv, queue' = queue, hash' = hash, roster' = roster,
         DOMAIN sess' = DOMAIN sess,
         \A i \in DOMAIN sess : /\ sess'[i].user = sess[i].user /\ sess'[i].status = sess[i].status
                                /\ sess'[i].notifySet = sess[i].notifySet
                                /\ sess'[i].view = sess[i].view,
         \A v \in Users : InOrder(v)' => InOrder(v),
         \A u, c : Accepting(u, c) => Accepting(u, c)'
  PROVE  ViewsInv'
<1>1. ASSUME NEW r, NEW s, NEW u, NEW c, Apart(r, s, u, c)', u \in sess'[s].notifySet
      PROVE  Apart(r, s, u, c) /\ u \in sess[s].notifySet /\ Undisturbed(r, s, c)
  <2>1. /\ r \in DOMAIN sess /\ s \in DOMAIN sess /\ sess[r].user = u /\ sess[s].user = c /\ u # c
        /\ hash[u] = r
    BY <1>1 DEF Apart
  <2>2. u \in Users /\ c \in Users
    BY <2>1, SessionFields
  <2>3. InOrder(u) /\ InOrder(c) /\ ~Accepting(u, c)
    BY <1>1, <2>2 DEF Apart
  <2>4. Apart(r, s, u, c)
    BY <2>1, <2>3 DEF Apart
  <2>5. Target(s)' = Target(s)
    BY <2>1 DEF Target, Present
  <2> QED
    BY <1>1, <2>1, <2>4, <2>5 DEF Undisturbed, Starting
<1> QED
  BY <1>1, ViewsStill

\* Every step keeps ViewsInv.
LEMMA ViewsSteps ==
  ASSUME Base, Base', NewcomerInv, ViewsInv, Stepped
  PROVE  ViewsInv'
<1>1. CASE \E u \in Users, status \in Statuses : \E n : Begins(u, status, n)
  BY <1>1, ViewsBegins
<1>2. ASSUME NEW u \in Users, Leaves(u)
      PROVE  ViewsInv'
  <2> DEFINE i == hash[u]
             x == EndMark(u)
  <2>1. x \in Marks /\ x.cmd = "" /\ x.ev = "EV_S_END"
    BY DEF EndMark, Item, Marks, Args
  <2>2. x \in Packets \cup Marks /\ x.cmd \notin Notices /\ Idle(x)
    BY <2>1, ReportIdle DEF Notices
  <2>3. Comes(i, x) /\ hash[sess[i].user] = i
    BY <1>2, Shapes DEF Leaves
  <2>4. \A s \in DOMAIN sess : s # i => (hash'[sess[s].user] = s <=> hash[sess[s].user] = s)
    BY <1>2, LeavesHash
  <2>5. \A v \in Users : hash'[v] # 0 => hash'[v] = hash[v]
    BY <1>2, Shapes DEF Leaves
  <2> HIDE DEF i, x
  <2> QED
    BY <2>1, <2>2, <2>3, <2>4, <2>5, ViewsComes
<1>3. ASSUME NEW u \in Users, NEW e, Enters(u, e)
      PROVE  ViewsInv'
  <2> DEFINE i == hash[u]
  <2>1. e \in Packets \cup Marks /\ e.cmd \in Clicked /\ e.ev = "EV_S_OUT" /\ Comes(i, e) /\ hash' = hash
    BY <1>3 DEF Enters
  <2>2. e.cmd \notin Notices /\ Idle(e)
    BY <2>1 DEF Clicked, Idle, Grants, Withdraws, Notices
  <2>3. hash[sess[i].user] = i
    BY <1>3, Shapes DEF Enters
  <2> HIDE DEF i
  <2> QED
    BY <2>1, <2>2, <2>3, ViewsComes
<1>4. ASSUME NEW s \in DOMAIN queue, Sweeps(s)
      PROVE  ViewsInv'
  <2>1. /\ astray' = astray /\ roster' = roster /\ queue' = queue /\ hash' = hash
        /\ Len(sess') = Len(sess) /\ Outside' = Outside
    BY <1>4 DEF Sweeps, Outside
  <2>2. \A i \in DOMAIN sess :
          /\ sess'[i].user = sess[i].user /\ sess'[i].status = sess[i].status
          /\ sess'[i].notifySet = sess[i].notifySet /\ sess'[i].view = sess[i].view
    BY <1>4 DEF Sweeps
  <2>3. DOMAIN sess' = DOMAIN sess
    <3>1. DOMAIN sess = 1 .. Len(sess) /\ DOMAIN sess' = 1 .. Len(sess')
      BY <1>4, Shapes DEF Sweeps
    <3> QED
      BY <2>1, <3>1
  <2>4. \A v \in Users : InOrder(v)' => InOrder(v)
    BY <2>1, <2>2, Shapes, OrderBefore
  <2>5. \A u, c : Accepting(u, c) => Accepting(u, c)'
    BY <2>1 DEF Accepting
  <2> QED
    BY <2>1, <2>2, <2>3, <2>4, <2>5, ViewsRest
<1>5. ASSUME NEW e, Reads(e)
      PROVE  ViewsInv'
  <2>1. hash' = hash /\ sess' = sess /\ queue' = queue
    BY <1>5 DEF Reads
  <2>2. roster' = roster /\ \A v \in Users : InOrder(v)' => InOrder(v)
    BY <1>5, CalmReads
  <2>3. \A u, c : Accepting(u, c) => Accepting(u, c)'
    BY <1>5, ReadsKeep
  <2> QED
    BY <2>1, <2>2, <2>3, ViewsRest
<1>6. CASE \E e : Arrives(e)
  BY <1>6, ViewsArrives
<1>7. CASE UNCHANGED messengerVars
  <2>1. /\ roster' = roster /\ hash' = hash /\ sess' = sess /\ queue' = queue /\ astray' = astray
        /\ Outside' = Outside
    BY <1>7 DEF messengerVars, tables, streams, Outside
  <2>2. \A v \in Users : InOrder(v)' => InOrder(v)
    BY <2>1 DEF InOrder, SessionsOf
  <2>3. \A u, c : Accepting(u, c) => Accepting(u, c)'
    BY <2>1 DEF Accepting
  <2> QED
    BY <2>1, <2>2, <2>3, ViewsRest
<1>8. CASE \E s, e : Handles(s, e)
  BY <1>8, ViewsHandles
<1>9. CASE \E s, k : Overtakes(s, k)
  BY <1>9, ViewsOvertakes
<1> QED
  BY <1>1, <1>2, <1>3, <1>4, <1>5, <1>6, <1>7, <1>8, <1>9 DEF Stepped

\* Initially there are no sessions.
LEMMA ViewsFirst == MessengerInit => ViewsInv
  BY DEF MessengerInit, ViewsInv, Apart

\* At rest, what is right is shown.
LEMMA ViewsAtRest ==
  ASSUME Base, ViewsInv, Quiet, NEW u \in Users, NEW c \in Users, InOrder(u), InOrder(c),
         hash[u] # 0, NEW s \in SessionsOf(c), u \in sess[s].notifySet
  PROVE  sess[hash[u]].view[c] = Visible(c)
<1> DEFINE r == hash[u]
<1>1. r \in DOMAIN sess /\ sess[r].user = u /\ s \in DOMAIN sess /\ sess[s].user = c
  BY Shapes DEF SessionsOf
<1>2. u # c
  BY <1>1, SessionFields
<1>3. queue[r] = <<>> /\ queue[s] = <<>>
  BY <1>1, Shapes DEF Quiet
<1>4. Outside = {}
  BY EmptySet DEF Quiet, Outside, EmptyBag, SetToBag, BagToSet
<1>5. Apart(r, s, u, c)
  BY <1>1, <1>2, <1>4 DEF Apart, Accepting
<1>6. Right(r, s)
  BY <1>5 DEF ViewsInv
<1>7. ~Pending(r, s)
  BY <1>3, EmptySet DEF Pending, Starting, Awaits
<1>8. Shows(r, s, Target(s))
  BY <1>6, <1>7 DEF Right
<1>9. Says(<<>>, c, sess[r].view[c], Target(s))
  BY <1>1, <1>3, <1>8 DEF Shows
<1>10. sess[r].view[c] = Target(s)
  <2> DEFINE q == <<>>
  <2>1. Len(q) \in Nat /\ \A k \in 1 .. Len(q) : ~IsNotice(q[k], c)
    OBVIOUS
  <2> HIDE DEF q, r
  <2>2. Says(q, c, sess[r].view[c], Target(s)) <=> sess[r].view[c] = Target(s)
    BY <2>1, SaysNone
  <2> QED
    BY <1>9, <2>2 DEF q
<1>11. Target(s) = Visible(c)
  <2>1. s # 0 /\ (Present(s) <=> hash[c] = s)
    BY <1>1, <1>3, Shapes, PresentSet, EmptySet
  <2>2. hash[c] # 0 => hash[c] = s
    <3> SUFFICES ASSUME hash[c] # 0 PROVE hash[c] = s
      OBVIOUS
    <3>1. hash[c] \in SessionsOf(c)
      BY Shapes DEF SessionsOf
    <3> QED
      BY <3>1, OneSession
  <2> QED
    BY <2>1, <2>2 DEF Target, Visible
<1> QED
  BY <1>10, <1>11

\* The base of the invariants implies the type invariant.
LEMMA BaseTyped == Base => MessengerTypeOK
<1> SUFFICES ASSUME Base PROVE MessengerTypeOK
  OBVIOUS
<1>t. Len(sess) <= MaxSessions
  BY DEF Base, Typed
<1>1. /\ hash \in [Users -> 0 .. Len(sess)] /\ Len(sess) <= MaxSessions
      /\ DOMAIN queue = DOMAIN sess
  BY <1>t, Shapes
<1>2. \A i \in DOMAIN sess :
        /\ sess[i].user \in Users /\ sess[i].status \in Statuses
        /\ sess[i].notifySet \subseteq Users
        /\ {sess[i].sweep, sess[i].shown} \subseteq BOOLEAN
        /\ sess[i].view \in [Users -> Statuses \cup {"OFFLINE"}]
  BY SessionFields DEF Shown
<1>3. \A e \in UnderWay : {e.from, e.to} \subseteq Users \cup {Nobody} /\ e.id \in {0} \cup Messages
  <2> SUFFICES ASSUME NEW e \in UnderWay
               PROVE  {e.from, e.to} \subseteq Users \cup {Nobody} /\ e.id \in {0} \cup Messages
    OBVIOUS
  <2>1. e \in Packets \cup Marks \cup Reports
    BY UnderWayTyped
  <2>2. CASE e \in Packets
    BY <2>2, PacketFields
  <2>3. CASE e \in Marks
    BY <2>3, MarkFields
  <2>4. CASE e \in Reports
    BY <2>4 DEF Reports
  <2> QED
    BY <2>1, <2>2, <2>3, <2>4
<1>4. /\ auth \in [Users -> Auths]
      /\ roster \in [Users -> [Users -> SUBSET Sub]]
      /\ DOMAIN message = Users
      /\ crashed \in BOOLEAN /\ commands \in 0 .. MaxCommands
      /\ got \subseteq Messages /\ lost \subseteq Messages
      /\ astray \subseteq Users
  BY DEF Base, Typed
<1> QED
  BY <1>1, <1>2, <1>3, <1>4 DEF MessengerTypeOK, UnderWay

\* ViewsAgree: at rest, every client shows of a contact who tells it his status
\* the status he last chose, and sm has one session of each user who is logged
\* in. Packets that are on their way when the sessions begin, change or end do
\* not matter as long as they are posted between a session's first event and its
\* last: the last notice in a queue says what the contact chose, or its own
\* request for the status is still to be answered (presence.cpp, and client.cpp
\* of sm). A user for whom a packet is posted too early or too late, so that a
\* probe is answered for one who is gone, is in astray and excepted.
THEOREM ViewsAlwaysAgree == MessengerSpec => []ViewsAgree
<1> DEFINE Inv == Base /\ AskedInv /\ NewcomerInv /\ ViewsInv /\ SmInv
<1>1. MessengerInit => Inv
  BY BaseInit, AskedFirst, NewcomerFirst, ViewsFirst, SmFirst
<1>2. Inv /\ [MessengerNext]_messengerVars => Inv'
  BY Steps, AskedSteps, NewcomerSteps, ViewsSteps, SmSteps
<1>3. Inv => ViewsAgree
  <2> SUFFICES ASSUME Inv PROVE ViewsAgree
    OBVIOUS
  <2>1. MessengerTypeOK
    BY BaseTyped
  <2>2. Quiet => \A u, c \in Users :
          /\ InOrder(u) /\ InOrder(c) /\ hash[u] # 0
          /\ \E s \in SessionsOf(c) : u \in sess[s].notifySet
          => sess[hash[u]].view[c] = Visible(c)
    BY ViewsAtRest
  <2>3. Quiet => \A u \in Users :
          Cardinality({k \in DOMAIN smHash : smHash[k].name = u}) = IF hash[u] = 0 THEN 0 ELSE 1
    BY SmAtRest
  <2> QED
    BY <2>1, <2>2, <2>3 DEF ViewsAgree
<1> QED
  BY <1>1, <1>2, <1>3, PTL DEF MessengerSpec

-----------------------------------------------------------------------------
(***************************************************************************)
(* A message is in one place.                                              *)
(***************************************************************************)

\* Where the message numbered m is: in queue x, as the packet x without a session,
\* in a stream (x is 0), or in the row of user x.
Holds(w, x, m) ==
  \/ w = "queue" /\ x \in DOMAIN queue /\ HasId(queue[x], m)
  \/ w = "loose" /\ x \in DOMAIN loose /\ x.id = m
  \/ w = "smIn" /\ x = 0 /\ HasId(smIn, m)
  \/ w = "smOut" /\ x = 0 /\ HasId(smOut, m)
  \/ w = "row" /\ x \in Users /\ m \in ToSet(message[x])
Held(m) == \E w, x : Holds(w, x, m)

\* No queue, stream or bag has it twice.
Alone(m) ==
  /\ \A i \in DOMAIN queue : OnceId(queue[i], m)
  /\ OnceId(smIn, m) /\ OnceId(smOut, m)
  /\ \A x \in DOMAIN loose : x.id = m => loose[x] = 1
Single(m) ==
  Alone(m) /\ \A w, x, v, y : Holds(w, x, m) /\ Holds(v, y, m) => w = v /\ x = y

OneCopy == \A m \in Messages : Single(m) /\ (m > commands => ~Held(m))

\* What a step does to a message.
Follows(m) ==
  /\ Single(m)' /\ (m > commands' => ~Held(m)')
  /\ Held(m) => Held(m)' \/ m \in got' \cup lost'

\* No place is new to it.
LEMMA FollowsSame ==
  ASSUME NEW m, Single(m), m > commands => ~Held(m), Alone(m)', commands' = commands,
         \A w, x : Holds(w, x, m)' => Holds(w, x, m),
         (\A w, x : Holds(w, x, m) => Holds(w, x, m)') \/ m \in got' \cup lost'
  PROVE  Follows(m)
BY DEF Follows, Single, Held

\* It goes from one place to another.
LEMMA FollowsMove ==
  ASSUME NEW m, Held(m), m > commands => ~Held(m), Alone(m)', commands' = commands, NEW v, NEW y,
         \A w, x : Holds(w, x, m)' => w = v /\ x = y,
         Holds(v, y, m)' \/ m \in got' \cup lost'
  PROVE  Follows(m)
BY DEF Follows, Single, Held

\* The sequences and the bag have their types.
LEMMA PlacesTyped ==
  ASSUME Base
  PROVE  /\ \A i \in DOMAIN queue : queue[i] \in Seq(Packets \cup Marks)
         /\ smIn \in Seq(Incoming \cup Reports) /\ smOut \in Seq(Incoming)
         /\ IsABag(loose) /\ DOMAIN loose \subseteq Packets
         /\ message \in [Users -> Seq({0} \cup Messages)] /\ 0 \notin DOMAIN queue
<1>1. 0 \notin DOMAIN queue
  BY Shapes
<1> QED
  BY <1>1, Shapes DEF Base, Typed

\* An event with the number of a message is a message.
LEMMA NumberedIs ==
  ASSUME NEW m \in Messages
  PROVE  /\ \A f \in Marks \cup Reports : f.id # m
         /\ \A f \in Packets : f.id = m => f.cmd \in {"CMD_MESSAGE", "CMD_SRV_MESSAGE"} /\ ~f.online
<1>1. m # 0
  BY MessengerAssumption DEF Messages
<1>2. \A f \in Marks \cup Reports : f.id = 0
  BY DEF Marks, Reports
<1>3. ASSUME NEW f \in Packets, f.id = m
      PROVE  f.cmd \in {"CMD_MESSAGE", "CMD_SRV_MESSAGE"} /\ ~f.online
  BY <1>1, <1>3, PacketFields DEF Sound
<1> QED
  BY <1>1, <1>2, <1>3

\* Nothing moves.
LEMMA FollowsStill ==
  ASSUME NEW m, Single(m), m > commands => ~Held(m),
         UNCHANGED <<queue, loose, smIn, smOut, message, commands>>
  PROVE  Follows(m)
<1>1. \A w, x : Holds(w, x, m)' <=> Holds(w, x, m)
  BY DEF Holds
<1>2. Alone(m)'
  BY DEF Single, Alone
<1> QED
  BY <1>1, <1>2, FollowsSame

\* A session begins.
LEMMA FollowsBegins ==
  ASSUME Base, NEW m \in Messages, Single(m), m > commands => ~Held(m),
         NEW u \in Users, NEW status \in Statuses, NEW n, Begins(u, status, n)
  PROVE  Follows(m)
<1>1. /\ DOMAIN queue = 1 .. Len(sess) /\ Len(sess) \in Nat /\ n = Len(sess) + 1
      /\ DOMAIN queue' = 1 .. n /\ queue'[n] = <<BeginMark(u, status)>>
      /\ \A i \in DOMAIN queue : queue'[i] = queue[i]
      /\ UNCHANGED <<loose, smIn, smOut, message, commands>>
  BY Shapes DEF Begins
<1>2. \A i : i \in DOMAIN queue' <=> i \in DOMAIN queue \/ i = n
  BY <1>1
<1>3. BeginMark(u, status).id = 0 /\ m # 0
  BY MessengerAssumption DEF BeginMark, Item, Messages
<1>4. ~HasId(queue'[n], m) /\ OnceId(queue'[n], m)
  BY <1>1, <1>3, OnceOne DEF HasId
<1>5. \A w, x : Holds(w, x, m)' <=> Holds(w, x, m)
  <2>1. \A x : (x \in DOMAIN queue' /\ HasId(queue'[x], m)) <=> (x \in DOMAIN queue /\ HasId(queue[x], m))
    BY <1>1, <1>2, <1>4
  <2> QED
    BY <1>1, <2>1 DEF Holds
<1>6. Alone(m)'
  BY <1>1, <1>2, <1>4 DEF Single, Alone
<1> QED
  BY <1>1, <1>5, <1>6, FollowsSame

\* A command or a mark comes to the end of a queue.
LEMMA HoldsComes ==
  ASSUME Base, NEW m, Alone(m), NEW i, NEW x \in Packets \cup Marks, Comes(i, x),
         x.id = m => ~Held(m)
  PROVE  /\ Alone(m)' /\ i \in DOMAIN queue
         /\ \A w, y : Holds(w, y, m)' <=> Holds(w, y, m) \/ (w = "queue" /\ y = i /\ x.id = m)
<1>1. /\ i \in DOMAIN queue /\ queue' = [queue EXCEPT ![i] = Append(queue[i], x)]
      /\ UNCHANGED <<loose, smIn, smOut, message>>
  BY DEF Comes
<1>2. DOMAIN queue' = DOMAIN queue /\ queue'[i] = Append(queue[i], x)
      /\ \A j \in DOMAIN queue : j # i => queue'[j] = queue[j]
  BY <1>1
<1>3. x.id = m => ~HasId(queue[i], m)
  BY <1>1 DEF Held, Holds
<1>4. HasId(queue'[i], m) <=> HasId(queue[i], m) \/ x.id = m
  BY <1>1, <1>2, PlacesTyped, OnceAppend
<1>5. OnceId(queue'[i], m)
  BY <1>1, <1>2, <1>3, PlacesTyped, OnceAppend DEF Alone
<1>6. Alone(m)'
  BY <1>1, <1>2, <1>5 DEF Alone
<1>7. \A y : (y \in DOMAIN queue' /\ HasId(queue'[y], m))
               <=> (y \in DOMAIN queue /\ HasId(queue[y], m)) \/ (y = i /\ x.id = m)
  BY <1>1, <1>2, <1>4
<1>8. \A w, y : Holds(w, y, m)' <=> Holds(w, y, m) \/ (w = "queue" /\ y = i /\ x.id = m)
  BY <1>1, <1>7 DEF Holds
<1> QED
  BY <1>1, <1>6, <1>8

\* A session leaves the hash.
LEMMA FollowsLeaves ==
  ASSUME Base, NEW m \in Messages, Single(m), m > commands => ~Held(m), NEW u \in Users, Leaves(u)
  PROVE  Follows(m)
<1>1. Comes(hash[u], EndMark(u)) /\ commands' = commands
  BY DEF Leaves
<1>2. EndMark(u) \in Marks /\ EndMark(u).id # m
  <2>1. EndMark(u) \in Marks
    BY DEF EndMark, Item, Marks, Args
  <2> QED
    BY <2>1, NumberedIs
<1>3. Alone(m)' /\ \A w, y : Holds(w, y, m)' <=> Holds(w, y, m)
  BY <1>1, <1>2, HoldsComes DEF Single
<1> QED
  BY <1>1, <1>3, FollowsSame

\* A client gives a command; if it is a message, it gets a number of its own.
LEMMA FollowsEnters ==
  ASSUME Base, NEW m \in Messages, Single(m), m > commands => ~Held(m), NEW u \in Users, NEW e,
         Enters(u, e)
  PROVE  Follows(m)
<1>1. /\ Comes(hash[u], e) /\ commands' = commands + 1 /\ e.id \in {0, commands'} /\ e \in Packets
  BY DEF Enters
<1>2. m \in Nat \ {0} /\ commands \in Nat
  BY MessengerAssumption DEF Messages, Base, Typed
<1>3. e.id = m => ~Held(m)
  BY <1>1, <1>2
<1>4. /\ Alone(m)'
      /\ \A w, y : Holds(w, y, m)' <=> Holds(w, y, m) \/ (w = "queue" /\ y = hash[u] /\ e.id = m)
  BY <1>1, <1>3, HoldsComes DEF Single
<1>5. CASE e.id = m
  <2>1. m = commands'
    BY <1>1, <1>2, <1>5
  <2>2. \A w, y : Holds(w, y, m)' <=> (w = "queue" /\ y = hash[u])
    BY <1>3, <1>4, <1>5 DEF Held
  <2> QED
    BY <1>2, <1>3, <1>4, <1>5, <2>1, <2>2 DEF Follows, Single
<1>6. CASE e.id # m
  <2>1. \A w, y : Holds(w, y, m)' <=> Holds(w, y, m)
    BY <1>4, <1>6
  <2>2. m > commands' => ~Held(m)
    BY <1>1, <1>2
  <2> QED
    BY <1>4, <2>1, <2>2 DEF Follows, Single, Held
<1> QED
  BY <1>5, <1>6

\* The offline module deletes the rows of a user.
LEMMA FollowsSweeps ==
  ASSUME Base, NEW m \in Messages, Single(m), m > commands => ~Held(m),
         NEW s \in DOMAIN queue, Sweeps(s)
  PROVE  Follows(m)
<1> DEFINE u == sess[s].user
<1>1. /\ message' = [message EXCEPT ![u] = <<>>]
      /\ lost' = lost \cup (ToSet(message[u]) \ (got \cup {0})) /\ got' = got
      /\ UNCHANGED <<queue, loose, smIn, smOut, commands>>
  BY DEF Sweeps
<1>2. u \in Users /\ message \in [Users -> Seq({0} \cup Messages)] /\ m # 0
  BY Shapes, SessionFields, PlacesTyped, MessengerAssumption DEF Messages
<1> HIDE DEF u
<1>3. message'[u] = <<>> /\ \A v \in Users : v # u => message'[v] = message[v]
  BY <1>1, <1>2
<1>4. \A w, x : Holds(w, x, m)' => Holds(w, x, m)
  BY <1>1, <1>3, EmptySet DEF Holds
<1>5. Alone(m)'
  BY <1>1 DEF Single, Alone
<1>6. CASE m \in ToSet(message[u])
  <2>1. m \in got' \cup lost'
    BY <1>1, <1>2, <1>6
  <2> QED
    BY <1>1, <1>4, <1>5, <2>1, FollowsSame
<1>7. CASE m \notin ToSet(message[u])
  <2>1. \A w, x : Holds(w, x, m) => Holds(w, x, m)'
    BY <1>1, <1>3, <1>7 DEF Holds
  <2> QED
    BY <1>1, <1>4, <1>5, <2>1, FollowsSame
<1> QED
  BY <1>6, <1>7

\* How often an event is among those without a session.
LEMMA InBag ==
  ASSUME NEW B, IsABag(B)
  PROVE  \A x : /\ NumberOf(x, B) \in Nat /\ (x \in DOMAIN B <=> NumberOf(x, B) # 0)
                /\ x \in DOMAIN B => NumberOf(x, B) = B[x]
BY DEF IsABag, NumberOf

\* sm reads a packet and passes a message on, whoever its addressee is.
LEMMA FollowsReads ==
  ASSUME Base, NEW m \in Messages, Single(m), m > commands => ~Held(m), NEW e, Reads(e)
  PROVE  Follows(m)
<1>1. /\ smIn # <<>> /\ e = Head(smIn) /\ smIn' = Tail(smIn)
      /\ UNCHANGED <<queue, loose, message, commands>>
  BY DEF Reads
<1>2. /\ HasId(smIn, m) <=> e.id = m \/ HasId(smIn', m)
      /\ OnceId(smIn', m) /\ (e.id = m => ~HasId(smIn', m))
  BY <1>1, PlacesTyped, OnceTail DEF Single, Alone
<1>3. /\ e \in Reports \cup Packets
      /\ smOut' = smOut \/ (e \in Incoming /\ smOut' = Append(smOut, e))
      /\ e \in Packets /\ ~e.online => e \in Incoming /\ smOut' = Append(smOut, e)
  <2>1. \A f \in Reports : f \notin Packets
    BY DEF Reports, Packets
  <2> QED
    BY <2>1 DEF Reads, SmRegister, Incoming
<1>4. CASE e.id # m
  <2>1. (HasId(smOut', m) <=> HasId(smOut, m)) /\ OnceId(smOut', m)
    <3>1. CASE smOut' = smOut
      BY <3>1 DEF Single, Alone
    <3>2. CASE e \in Incoming /\ smOut' = Append(smOut, e)
      BY <1>4, <3>2, PlacesTyped, OnceAppend DEF Single, Alone
    <3> QED
      BY <1>3, <3>1, <3>2
  <2>2. \A w, x : Holds(w, x, m)' <=> Holds(w, x, m)
    BY <1>1, <1>2, <1>4, <2>1 DEF Holds
  <2>3. Alone(m)'
    BY <1>1, <1>2, <2>1 DEF Single, Alone
  <2> QED
    BY <1>1, <2>2, <2>3, FollowsSame
<1>5. CASE e.id = m
  <2>1. e \in Packets /\ ~e.online
    BY <1>3, <1>5, NumberedIs
  <2>2. e \in Incoming /\ smOut' = Append(smOut, e)
    BY <1>3, <2>1
  <2>3. Holds("smIn", 0, m)
    BY <1>2, <1>5 DEF Holds
  <2>4. \A w, x : Holds(w, x, m) => w = "smIn" /\ x = 0
    BY <2>3 DEF Single
  <2>5. ~HasId(smOut, m)
    BY <2>4 DEF Holds
  <2>6. HasId(smOut', m) /\ OnceId(smOut', m)
    BY <1>5, <2>2, <2>5, PlacesTyped, OnceAppend DEF Single, Alone
  <2>7. Alone(m)'
    BY <1>1, <1>2, <2>6 DEF Single, Alone
  <2>8. Holds("smOut", 0, m)'
    BY <2>6 DEF Holds
  <2>9. \A w, x : Holds(w, x, m)' => w = "smOut" /\ x = 0
    BY <1>1, <1>2, <1>5, <2>4 DEF Holds
  <2> QED
    BY <1>1, <2>3, <2>7, <2>8, <2>9, FollowsMove DEF Held
<1> QED
  BY <1>4, <1>5

\* linqd takes a packet from the stream of sm.
LEMMA FollowsArrives ==
  ASSUME Base, Base', NEW m \in Messages, Single(m), m > commands => ~Held(m), NEW e, Arrives(e)
  PROVE  Follows(m)
<1>1. /\ smOut # <<>> /\ e = Head(smOut) /\ smOut' = Tail(smOut) /\ e \in Incoming
      /\ UNCHANGED <<smIn, message, commands>>
  BY DEF Arrives
<1>2. /\ HasId(smOut, m) <=> e.id = m \/ HasId(smOut', m)
      /\ OnceId(smOut', m) /\ (e.id = m => ~HasId(smOut', m))
  BY <1>1, PlacesTyped, OnceTail DEF Single, Alone
<1>11. Owner(e) = e.to /\ e \in Packets /\ hash[e.to] \in 0 .. Len(sess)
  BY <1>1, PacketFields, Shapes DEF Owner, Incoming
<1> PICK j \in 0 .. Len(sess) : j = hash[e.to]
  BY <1>11
<1>3. Owner(e) = e.to /\ e \in Packets
  BY <1>11
<1>4. DOMAIN queue' = DOMAIN queue /\ DOMAIN queue = 1 .. Len(sess) /\ Len(sess) \in Nat
  <2>1. queue' \in Seq(Seq(Packets \cup Marks)) /\ Len(queue') = Len(queue)
    BY DEF Arrives
  <2> QED
    BY <2>1, Shapes
<1>5. ASSUME NEW i \in DOMAIN queue, e.id = m => ~HasId(queue[i], m)
      PROVE  OnceId(queue'[i], m) /\ (HasId(queue'[i], m) <=> HasId(queue[i], m) \/ (j = i /\ e.id = m))
  <2>1. PICK h \in Seq(Packets) :
          /\ queue'[i] = Rest(i, 0) \o h /\ ToSet(h) = {p \in {e} : hash[Owner(p)] = i}
          /\ \A n : OnceId(h, n)
    BY DEF Arrives
  <2>2. Rest(i, 0) = queue[i] /\ queue[i] \in Seq(Packets \cup Marks) /\ h \in Seq(Packets \cup Marks)
    <3>1. i # 0
      BY PlacesTyped
    <3> QED
      BY <3>1, PlacesTyped, SeqMonotonic DEF Rest
  <2>3. HasId(h, m) <=> j = i /\ e.id = m
    BY <1>3, <2>1, <2>2, OnceSet
  <2>4. OnceId(queue[i], m) /\ OnceId(h, m)
    BY <2>1 DEF Single, Alone
  <2>5. /\ HasId(queue[i] \o h, m) <=> HasId(queue[i], m) \/ HasId(h, m)
        /\ OnceId(queue[i], m) /\ OnceId(h, m) /\ ~(HasId(queue[i], m) /\ HasId(h, m)) => OnceId(queue[i] \o h, m)
    BY <2>2, OnceJoin
  <2> QED
    BY <1>5, <2>1, <2>2, <2>3, <2>4, <2>5
<1>6. /\ IsABag(loose') /\ DOMAIN loose' = DOMAIN loose \cup (IF j = 0 THEN {e} ELSE {})
      /\ \A x : NumberOf(x, loose') = NumberOf(x, loose) + (IF x = e /\ j = 0 THEN 1 ELSE 0)
  BY DEF Arrives
<1>7. \A x : /\ NumberOf(x, loose) \in Nat /\ (x \in DOMAIN loose <=> NumberOf(x, loose) # 0)
             /\ x \in DOMAIN loose => NumberOf(x, loose) = loose[x]
  BY PlacesTyped, InBag
<1>8. \A x : x \in DOMAIN loose' => NumberOf(x, loose') = loose'[x]
  BY <1>6, InBag
<1>9. CASE e.id # m
  <2>1. \A i \in DOMAIN queue : OnceId(queue'[i], m) /\ (HasId(queue'[i], m) <=> HasId(queue[i], m))
    BY <1>5, <1>9
  <2>2. \A x : x.id = m => (x \in DOMAIN loose' <=> x \in DOMAIN loose)
    BY <1>6, <1>9
  <2>3. \A x \in DOMAIN loose' : x.id = m => loose'[x] = 1
    BY <1>6, <1>7, <1>8, <1>9, <2>2 DEF Single, Alone
  <2>4. \A w, x : Holds(w, x, m)' <=> Holds(w, x, m)
    BY <1>1, <1>2, <1>4, <1>9, <2>1, <2>2 DEF Holds
  <2>5. Alone(m)'
    BY <1>1, <1>2, <1>4, <2>1, <2>3 DEF Single, Alone
  <2> QED
    BY <1>1, <2>4, <2>5, FollowsSame
<1>10. CASE e.id = m
  <2>1. Holds("smOut", 0, m)
    BY <1>2, <1>10 DEF Holds
  <2>2. \A w, x : Holds(w, x, m) => w = "smOut" /\ x = 0
    BY <2>1 DEF Single
  <2>3. \A i \in DOMAIN queue : ~HasId(queue[i], m)
    BY <2>2 DEF Holds
  <2>4. \A i \in DOMAIN queue : OnceId(queue'[i], m) /\ (HasId(queue'[i], m) <=> j = i)
    BY <1>5, <1>10, <2>3
  <2>5. \A x \in DOMAIN loose : x.id # m
    BY <2>2 DEF Holds
  <2>6. \A x \in DOMAIN loose' : x.id = m => x = e /\ j = 0 /\ loose'[x] = 1
    BY <1>6, <1>7, <1>8, <2>5
  <2>7. Alone(m)'
    BY <1>1, <1>2, <1>4, <2>4, <2>6 DEF Single, Alone
  <2>8. \A w, x : Holds(w, x, m)' => \/ w = "queue" /\ x = j /\ j # 0
                                     \/ w = "loose" /\ x = e /\ j = 0
    <3>1. 0 \notin DOMAIN queue
      BY PlacesTyped
    <3>2. \A x \in DOMAIN queue' : HasId(queue'[x], m) => x = j /\ j # 0
      BY <1>4, <2>4, <3>1
    <3>3. ~HasId(smIn, m) /\ ~HasId(smOut', m) /\ \A u \in Users : m \notin ToSet(message[u])
      BY <1>2, <1>10, <2>2 DEF Holds
    <3> QED
      BY <1>1, <2>6, <3>2, <3>3 DEF Holds
  <2>9. CASE j = 0
    <3>1. Holds("loose", e, m)'
      BY <1>6, <1>10, <2>9 DEF Holds
    <3> QED
      BY <1>1, <2>1, <2>7, <2>8, <2>9, <3>1, FollowsMove DEF Held
  <2>10. CASE j # 0
    <3>1. j \in DOMAIN queue' /\ j \in DOMAIN queue
      BY <1>3, <1>4, <2>10
    <3>2. HasId(queue'[j], m)
      BY <2>4, <3>1
    <3>3. Holds("queue", j, m)'
      BY <3>1, <3>2 DEF Holds
    <3> QED
      BY <1>1, <2>1, <2>7, <2>8, <2>10, <3>3, FollowsMove DEF Held
  <2> QED
    BY <2>9, <2>10
<1> QED
  BY <1>9, <1>10

\* A message that e is not stays where it is.
LEMMA MovesOthers ==
  ASSUME Base, NEW s, NEW e, NEW req \in Seq(Reports), NEW P, Moves(s, e, req, P),
         NEW m \in Messages, e.id # m, \A p \in P : p.id # m, Alone(m)
  PROVE  /\ Alone(m)' /\ smOut' = smOut
         /\ \A w, x : w # "row" => (Holds(w, x, m)' <=> Holds(w, x, m))
<1> DEFINE S == Packets \cup Marks
<1>1. \A q : ~HasId(q, m) => OnceId(q, m)
  BY DEF HasId, OnceId
<1>2. DOMAIN queue' = DOMAIN queue
  <2>1. queue' \in Seq(Seq(Packets \cup Marks)) /\ Len(queue') = Len(queue)
    BY DEF Moves
  <2> QED
    BY <2>1, Shapes
<1>3. ASSUME NEW i \in DOMAIN queue
      PROVE  OnceId(queue'[i], m) /\ (HasId(queue'[i], m) <=> HasId(queue[i], m))
  <2>1. PICK h \in Seq(Packets) :
          queue'[i] = Rest(i, s) \o h /\ ToSet(h) = {p \in P : hash[Owner(p)] = i}
    BY <1>3 DEF Moves
  <2>2. ~HasId(h, m) /\ OnceId(h, m) /\ h \in Seq(S)
    <3>1. ~HasId(h, m)
      BY <2>1, OnceSet
    <3> QED
      BY <1>1, <3>1, SeqMonotonic
  <2>3. queue[i] \in Seq(S) /\ OnceId(queue[i], m)
    BY PlacesTyped DEF Alone
  <2> HIDE DEF S
  <2>4. Rest(i, s) \in Seq(S) /\ OnceId(Rest(i, s), m) /\ (HasId(Rest(i, s), m) <=> HasId(queue[i], m))
    <3>1. CASE i = s
      <4>1. i # 0
        BY PlacesTyped
      <4>2. queue[i] # <<>> /\ e = Head(queue[i]) /\ Rest(i, s) = Tail(queue[i])
        BY <3>1, <4>1 DEF Moves, Rest
      <4>3. Tail(queue[i]) \in Seq(S)
        BY <2>3, <4>2, TailSeq
      <4>4. /\ HasId(queue[i], m) <=> Head(queue[i]).id = m \/ HasId(Tail(queue[i]), m)
            /\ OnceId(Tail(queue[i]), m)
        BY <2>3, <4>2, OnceTail
      <4> QED
        BY <4>2, <4>3, <4>4
    <3>2. CASE i # s
      BY <2>3, <3>2 DEF Rest
    <3> QED
      BY <3>1, <3>2
  <2>5. /\ HasId(Rest(i, s) \o h, m) <=> HasId(Rest(i, s), m) \/ HasId(h, m)
        /\ OnceId(Rest(i, s) \o h, m)
    BY <2>2, <2>4, OnceJoin
  <2> QED
    BY <2>1, <2>2, <2>4, <2>5
<1>4. OnceId(smIn', m) /\ (HasId(smIn', m) <=> HasId(smIn, m))
  <2> DEFINE R == Incoming \cup Reports
  <2>1. PICK t \in Seq(Incoming) :
          /\ smIn' = (smIn \o req) \o t
          /\ ToSet(t) = {p \in P : p.ev = "EV_S_IN" /\ hash[p.to] = 0}
    BY DEF Moves
  <2>2. smIn \in Seq(R) /\ req \in Seq(R) /\ t \in Seq(R)
    BY PlacesTyped, SeqMonotonic
  <2>3. ~HasId(t, m) /\ ~HasId(req, m)
    <3>1. ToSet(req) \subseteq Reports
      BY ElementsSeq
    <3>2. \A f \in ToSet(req) : f.id # m
      BY <3>1, NumberedIs
    <3> QED
      BY <2>1, <3>2, OnceSet
  <2> HIDE DEF R
  <2>4. smIn \o req \in Seq(R)
    BY <2>2, JoinedSeq
  <2>5. OnceId(smIn \o req, m) /\ (HasId(smIn \o req, m) <=> HasId(smIn, m))
    BY <1>1, <2>2, <2>3, OnceJoin DEF Alone
  <2> DEFINE q == smIn \o req
  <2>6. q \in Seq(R) /\ smIn' = q \o t /\ OnceId(q, m) /\ (HasId(q, m) <=> HasId(smIn, m))
    BY <2>1, <2>4, <2>5
  <2> HIDE DEF q
  <2>7. /\ HasId(q \o t, m) <=> HasId(q, m) \/ HasId(t, m)
        /\ OnceId(q, m) /\ OnceId(t, m) /\ ~(HasId(q, m) /\ HasId(t, m)) => OnceId(q \o t, m)
    BY <2>2, <2>6, OnceJoin
  <2> QED
    BY <1>1, <2>3, <2>6, <2>7
<1>5. \A x : x.id = m => NumberOf(x, loose') = NumberOf(x, loose)
  <2> SUFFICES ASSUME NEW x, x.id = m
               PROVE  NumberOf(x, loose') = NumberOf(x, loose)
    OBVIOUS
  <2>1. x \notin P /\ x # e
    OBVIOUS
  <2>2. NumberOf(x, loose') + (IF s = 0 /\ x = e THEN 1 ELSE 0) = NumberOf(x, loose)
    BY <2>1 DEF Moves
  <2>3. NumberOf(x, loose') \in Nat
    BY InBag DEF Moves
  <2> QED
    BY <2>1, <2>2, <2>3
<1>6. /\ \A x : x.id = m => (x \in DOMAIN loose' <=> x \in DOMAIN loose)
      /\ \A x \in DOMAIN loose' : x.id = m => loose'[x] = 1
  <2>1. \A x : /\ NumberOf(x, loose) \in Nat /\ (x \in DOMAIN loose <=> NumberOf(x, loose) # 0)
               /\ x \in DOMAIN loose => NumberOf(x, loose) = loose[x]
    BY PlacesTyped, InBag
  <2>2. \A x : /\ NumberOf(x, loose') \in Nat /\ (x \in DOMAIN loose' <=> NumberOf(x, loose') # 0)
               /\ x \in DOMAIN loose' => NumberOf(x, loose') = loose'[x]
    BY InBag DEF Moves
  <2> QED
    BY <1>5, <2>1, <2>2 DEF Alone
<1>7. smOut' = smOut
  BY DEF Moves
<1>8. Alone(m)'
  BY <1>2, <1>3, <1>4, <1>6, <1>7 DEF Alone
<1>9. \A w, x : w # "row" => (Holds(w, x, m)' <=> Holds(w, x, m))
  BY <1>2, <1>3, <1>4, <1>6, <1>7 DEF Holds
<1> QED
  BY <1>7, <1>8, <1>9

\* The message e was in one place, which it leaves.
Gone(s, e, m) ==
  /\ \A i \in DOMAIN queue : ~HasId(Rest(i, s), m)
  /\ ~HasId(smIn, m) /\ ~HasId(smOut, m) /\ \A u \in Users : m \notin ToSet(message[u])
  /\ \A x : x.id = m => NumberOf(x, loose) = (IF s = 0 /\ x = e THEN 1 ELSE 0)

LEMMA HandledGone ==
  ASSUME Base, NEW s \in {0} \cup DOMAIN queue, NEW e, NEW req, NEW out, Handle(s, e, req, out),
         NEW m \in Messages, Single(m), e.id = m
  PROVE  Gone(s, e, m) /\ Held(m)
<1>1. \A x : /\ NumberOf(x, loose) \in Nat /\ (x \in DOMAIN loose <=> NumberOf(x, loose) # 0)
             /\ x \in DOMAIN loose => NumberOf(x, loose) = loose[x]
  BY PlacesTyped, InBag
<1>2. CASE s = 0
  <2>1. e \in DOMAIN loose /\ loose[e] = 1
    BY <1>2 DEF Handle, BagIn, BagToSet, Single, Alone
  <2>2. Holds("loose", e, m)
    BY <2>1 DEF Holds
  <2>3. \A w, x : Holds(w, x, m) => w = "loose" /\ x = e
    BY <2>2 DEF Single
  <2>4. \A i \in DOMAIN queue : ~HasId(Rest(i, s), m)
    <3>1. 0 \notin DOMAIN queue
      BY PlacesTyped
    <3>2. \A i \in DOMAIN queue : ~HasId(queue[i], m)
      BY <2>3 DEF Holds
    <3> QED
      BY <1>2, <3>1, <3>2 DEF Rest
  <2>5. ~HasId(smIn, m) /\ ~HasId(smOut, m) /\ \A u \in Users : m \notin ToSet(message[u])
    BY <2>3 DEF Holds
  <2>6. \A x \in DOMAIN loose : x.id = m => x = e
    BY <2>3 DEF Holds
  <2>7. \A x : x.id = m => NumberOf(x, loose) = (IF s = 0 /\ x = e THEN 1 ELSE 0)
    BY <1>1, <1>2, <2>1, <2>6
  <2> QED
    BY <2>2, <2>4, <2>5, <2>7 DEF Gone, Held
<1>3. CASE s # 0
  <2>1. s \in DOMAIN queue /\ queue[s] # <<>> /\ e = Head(queue[s])
    BY <1>3 DEF Handle
  <2>2. HasId(queue[s], m) /\ ~HasId(Tail(queue[s]), m)
    BY <2>1, PlacesTyped, OnceTail DEF Single, Alone
  <2>3. Holds("queue", s, m)
    BY <2>1, <2>2 DEF Holds
  <2>4. \A w, x : Holds(w, x, m) => w = "queue" /\ x = s
    BY <2>3 DEF Single
  <2>5. \A i \in DOMAIN queue : ~HasId(Rest(i, s), m)
    BY <2>2, <2>4 DEF Rest, Holds
  <2>6. ~HasId(smIn, m) /\ ~HasId(smOut, m) /\ \A u \in Users : m \notin ToSet(message[u])
    BY <2>4 DEF Holds
  <2>7. \A x \in DOMAIN loose : x.id # m
    BY <2>4 DEF Holds
  <2>8. \A x : x.id = m => NumberOf(x, loose) = (IF s = 0 /\ x = e THEN 1 ELSE 0)
    BY <1>1, <1>3, <2>7
  <2> QED
    BY <2>3, <2>5, <2>6, <2>8 DEF Gone, Held
<1> QED
  BY <1>2, <1>3

\* The places to which the packets sent have brought the message.
Lands(out, m) ==
  /\ DOMAIN queue' = DOMAIN queue /\ smOut' = smOut /\ IsABag(loose') /\ commands' = commands
  /\ \A i \in DOMAIN queue : /\ OnceId(queue'[i], m)
                             /\ HasId(queue'[i], m)
                                  <=> \E p \in ToSet(out) : p.id = m /\ hash[Owner(p)] = i
  /\ OnceId(smIn', m)
  /\ HasId(smIn', m) <=> \E p \in ToSet(out) : p.id = m /\ p.ev = "EV_S_IN" /\ hash[p.to] = 0
  /\ \A x : x.id = m => NumberOf(x, loose') = (IF x \in Unowned(out) THEN 1 ELSE 0)

LEMMA HandledLands ==
  ASSUME Base, NEW s \in {0} \cup DOMAIN queue, NEW e, NEW req \in Seq(Reports),
         NEW out \in Seq(Packets), Handle(s, e, req, out), NEW m \in Messages, Gone(s, e, m),
         OnceId(out, m)
  PROVE  Lands(out, m)
<1> DEFINE S == Packets \cup Marks
           P == ToSet(out)
<1>1. \A q : ~HasId(q, m) => OnceId(q, m)
  BY DEF HasId, OnceId
<1>2. /\ queue' = [i \in DOMAIN queue |-> Rest(i, s) \o Here(out, i)]
      /\ smIn' = (smIn \o req) \o ToSm(out) /\ smOut' = smOut /\ commands' = commands
      /\ IF s = 0 THEN e \in DOMAIN loose ELSE queue[s] # <<>>
  BY DEF Handle, Rest, BagIn, BagToSet
<1>3. ASSUME NEW i \in DOMAIN queue
      PROVE  /\ OnceId(queue'[i], m)
             /\ HasId(queue'[i], m) <=> \E p \in P : p.id = m /\ hash[Owner(p)] = i
  <2> DEFINE C == {f \in ToSet(out) : hash[Owner(f)] = i}
             h == Among(out, C)
  <2>1. queue'[i] = Rest(i, s) \o h
    BY <1>2 DEF Here
  <2>2. h \in Seq(Packets) /\ ToSet(h) = P \cap C /\ OnceId(h, m)
    BY AmongSeq, AmongOnce
  <2>3. P \cap C = {p \in P : hash[Owner(p)] = i}
    OBVIOUS
  <2> HIDE DEF h, C, P
  <2>4. HasId(h, m) <=> \E p \in P : p.id = m /\ hash[Owner(p)] = i
    BY <2>2, <2>3, OnceSet
  <2>5. h \in Seq(S)
    BY <2>2, SeqMonotonic
  <2>6. Rest(i, s) \in Seq(S)
    <3>1. queue[i] \in Seq(S) /\ i # 0
      BY PlacesTyped
    <3> HIDE DEF S
    <3>2. CASE i = s
      <4>1. queue[i] # <<>>
        BY <1>2, <3>1, <3>2
      <4> QED
        BY <3>1, <3>2, <4>1, TailSeq DEF Rest
    <3>3. CASE i # s
      BY <3>1, <3>3 DEF Rest
    <3> QED
      BY <3>2, <3>3
  <2> HIDE DEF S
  <2>7. ~HasId(Rest(i, s), m)
    BY DEF Gone
  <2>8. /\ HasId(Rest(i, s) \o h, m) <=> HasId(h, m)
        /\ OnceId(Rest(i, s) \o h, m)
    BY <1>1, <2>2, <2>5, <2>6, <2>7, OnceJoin
  <2> QED
    BY <2>1, <2>4, <2>8
<1>4. DOMAIN queue' = DOMAIN queue
  BY <1>2
<1>5. /\ OnceId(smIn', m)
      /\ HasId(smIn', m) <=> \E p \in P : p.id = m /\ p.ev = "EV_S_IN" /\ hash[p.to] = 0
  <2> DEFINE R == Incoming \cup Reports
             C == {f \in ToSet(out) : f.ev = "EV_S_IN" /\ hash[f.to] = 0}
             t == Among(out, C)
             q == smIn \o req
  <2>1. smIn' = q \o t
    BY <1>2 DEF ToSm
  <2>2. t \in Seq(Packets) /\ ToSet(t) = P \cap C /\ OnceId(t, m)
    BY AmongSeq, AmongOnce
  <2>3. P \cap C = {p \in P : p.ev = "EV_S_IN" /\ hash[p.to] = 0} /\ P \cap C \subseteq Incoming
    BY ElementsSeq DEF Incoming
  <2>4. smIn \in Seq(R) /\ req \in Seq(R)
    BY PlacesTyped, SeqMonotonic
  <2>5. ~HasId(req, m) /\ ~HasId(smIn, m)
    <3>1. ToSet(req) \subseteq Reports
      BY ElementsSeq
    <3>2. \A f \in ToSet(req) : f.id # m
      BY <3>1, NumberedIs
    <3> QED
      BY <3>2, OnceSet DEF Gone
  <2> HIDE DEF t, C, P
  <2>6. HasId(t, m) <=> \E p \in P : p.id = m /\ p.ev = "EV_S_IN" /\ hash[p.to] = 0
    BY <2>2, <2>3, OnceSet
  <2>7. t \in Seq(R)
    <3>1. t \in Seq(ToSet(t)) /\ ToSet(t) \subseteq R
      BY <2>2, <2>3, ElementsSeq
    <3> QED
      BY <3>1, SeqMonotonic
  <2> HIDE DEF R
  <2>8. q \in Seq(R) /\ ~HasId(q, m)
    BY <2>4, <2>5, JoinedSeq, OnceJoin
  <2> HIDE DEF q
  <2>9. /\ HasId(q \o t, m) <=> HasId(t, m)
        /\ OnceId(q \o t, m)
    BY <1>1, <2>2, <2>7, <2>8, OnceJoin
  <2> QED
    BY <2>1, <2>6, <2>9
<1>6. /\ IsABag(loose')
      /\ \A x : x.id = m => NumberOf(x, loose') = (IF x \in Unowned(out) THEN 1 ELSE 0)
  <2> DEFINE B == IF s = 0 THEN loose (-) SetToBag({e}) ELSE loose
             U == Unowned(out)
  <2>1. loose' = B (+) SetToBag(U)
    BY DEF Handle
  <2>2. IsABag(B) /\ \A x : x.id = m => NumberOf(x, B) = 0
    <3>1. CASE s = 0
      <4>1. IsABag(loose) /\ e \in DOMAIN loose /\ B = loose (-) SetToBag({e})
        BY <1>2, <3>1, PlacesTyped
      <4> HIDE DEF B
      <4>2. BagLess(B, loose, e)
        BY <4>1, BagWithout
      <4>3. \A x : NumberOf(x, B) \in Nat
        BY <4>2, InBag DEF BagLess
      <4>4. ASSUME NEW x, x.id = m
            PROVE  NumberOf(x, B) = 0
        <5>1. NumberOf(x, loose) = (IF x = e THEN 1 ELSE 0)
          BY <3>1, <4>4 DEF Gone
        <5>2. CASE x = e
          <6>1. NumberOf(x, B) + 1 = 1
            BY <4>1, <4>2, <5>1, <5>2 DEF BagLess
          <6> QED
            BY <4>3, <6>1
        <5>3. CASE x # e
          BY <4>2, <5>1, <5>3 DEF BagLess
        <5> QED
          BY <5>2, <5>3
      <4> QED
        BY <4>2, <4>4 DEF BagLess
    <3>2. CASE s # 0
      BY <3>2, PlacesTyped DEF Gone
    <3> QED
      BY <3>1, <3>2
  <2> HIDE DEF B, U
  <2>3. BagMore(loose', B, U)
    BY <2>1, <2>2, BagWith
  <2> QED
    BY <2>2, <2>3 DEF BagMore, U
<1> QED
  BY <1>2, <1>3, <1>4, <1>5, <1>6 DEF Lands

\* The one packet with the number of the message brings it to one place.
LEMMA OneLands ==
  ASSUME Base, NEW s, NEW e, NEW m \in Messages, Held(m), m > commands => ~Held(m),
         NEW out \in Seq(Packets), Gone(s, e, m), Lands(out, m), message' = message,
         NEW p \in ToSet(out), p.id = m, \A x \in ToSet(out) : x.id = m => x = p
  PROVE  Follows(m)
<1>1. /\ p \in Packets /\ p.ev \in {"EV_S_IN", "EV_S_OUT"}
      /\ Owner(p) = (IF p.ev = "EV_S_IN" THEN p.to ELSE p.from)
      /\ hash[Owner(p)] \in {0} \cup DOMAIN queue
  <2>1. p \in Packets
    BY ElementsSeq
  <2>2. p.ev \in {"EV_S_IN", "EV_S_OUT"} /\ Owner(p) \in Users
    BY <2>1, PacketFields DEF Owner
  <2> QED
    BY <2>1, <2>2, Shapes DEF Owner
<1> PICK j \in {0} \cup DOMAIN queue : j = hash[Owner(p)]
  BY <1>1
<1>2. 0 \notin DOMAIN queue /\ DOMAIN queue' = DOMAIN queue /\ commands' = commands
  BY PlacesTyped DEF Lands
<1>3. \A i \in DOMAIN queue : HasId(queue'[i], m) <=> i = j
  BY DEF Lands
<1>4. HasId(smIn', m) <=> p.ev = "EV_S_IN" /\ j = 0
  BY <1>1 DEF Lands
<1>5. ~HasId(smOut', m) /\ \A u \in Users : m \notin ToSet(message'[u])
  BY DEF Lands, Gone
<1>6. \A x : x.id = m => (x \in Unowned(out) <=> x = p /\ p.ev = "EV_S_OUT" /\ j = 0)
  BY <1>1 DEF Unowned
<1>7. \A x : /\ x \in DOMAIN loose' <=> NumberOf(x, loose') # 0
             /\ x \in DOMAIN loose' => NumberOf(x, loose') = loose'[x]
  BY InBag DEF Lands
<1>8. \A x : x.id = m => /\ x \in DOMAIN loose' <=> x \in Unowned(out)
                         /\ x \in DOMAIN loose' => loose'[x] = 1
  BY <1>7 DEF Lands
<1>9. Alone(m)'
  <2>1. OnceId(smOut', m)
    BY <1>5 DEF HasId, OnceId
  <2> QED
    BY <1>2, <1>8, <2>1 DEF Lands, Alone
<1>10. CASE j # 0
  <2>1. Holds("queue", j, m)'
    BY <1>2, <1>3, <1>10 DEF Holds
  <2>2. \A w, x : Holds(w, x, m)' => w = "queue" /\ x = j
    BY <1>2, <1>3, <1>4, <1>5, <1>6, <1>8, <1>10 DEF Holds
  <2> QED
    BY <1>2, <1>9, <2>1, <2>2, FollowsMove
<1>11. CASE j = 0 /\ p.ev = "EV_S_IN"
  <2>1. Holds("smIn", 0, m)'
    BY <1>4, <1>11 DEF Holds
  <2>2. \A w, x : Holds(w, x, m)' => w = "smIn" /\ x = 0
    BY <1>2, <1>3, <1>5, <1>6, <1>8, <1>11 DEF Holds
  <2> QED
    BY <1>2, <1>9, <2>1, <2>2, FollowsMove
<1>12. CASE j = 0 /\ p.ev # "EV_S_IN"
  <2>1. Holds("loose", p, m)'
    BY <1>1, <1>6, <1>8, <1>12 DEF Holds
  <2>2. \A w, x : Holds(w, x, m)' => w = "loose" /\ x = p
    BY <1>2, <1>3, <1>4, <1>5, <1>6, <1>8, <1>12 DEF Holds
  <2> QED
    BY <1>2, <1>9, <2>1, <2>2, FollowsMove
<1> QED
  BY <1>10, <1>11, <1>12

\* The event is no message, and leaves the stored ones alone.
NoMessage(e) ==
  /\ message' = message
  /\ e.ev \in {"EV_S_IN", "EV_S_OUT"} => e.cmd \notin {"CMD_MESSAGE", "CMD_SRV_MESSAGE"}

\* Three handlers deal with messages.
LEMMA HandlesKind ==
  ASSUME NEW s, NEW e, Handles(s, e)
  PROVE  \/ NoMessage(e)
         \/ s \in DOMAIN queue /\ OnMessage(s, e)
         \/ s \in {0} \cup DOMAIN queue /\ (OnMessageOut(s, e) \/ OnMessageIn(s, e))
<1>1. CASE s \in DOMAIN queue /\ SessionStep(s, e)
  <2>1. CASE OnSession(s, e)
    BY <2>1 DEF OnSession, tables, NoMessage
  <2>2. CASE OnSessionEnd(s, e)
    BY <2>2 DEF OnSessionEnd, tables, NoMessage
  <2>3. CASE OnChangeStatus(s, e)
    BY <2>3 DEF OnChangeStatus, tables, NoMessage
  <2>4. CASE OnRequest(s, e)
    BY <2>4 DEF OnRequest, tables, NoMessage
  <2>5. CASE OnDelContact(s, e)
    BY <2>5 DEF OnDelContact, tables, NoMessage
  <2> QED
    BY <1>1, <2>1, <2>2, <2>3, <2>4, <2>5 DEF SessionStep
<1>2. CASE s \in {0} \cup DOMAIN queue /\ EventStep(s, e)
  <2>1. CASE OnContactAuthOut(s, e)
    BY <2>1 DEF OnContactAuthOut, tables, NoMessage
  <2>2. CASE OnUserStatus(s, e)
    BY <2>2 DEF OnUserStatus, tables, NoMessage, Notices
  <2>3. CASE OnProbeStatus(s, e)
    BY <2>3 DEF OnProbeStatus, tables, NoMessage
  <2>4. CASE OnAddContactIn(s, e)
    BY <2>4 DEF OnAddContactIn, tables, NoMessage
  <2>5. CASE OnContactAuthIn(s, e)
    BY <2>5 DEF OnContactAuthIn, tables, NoMessage
  <2>6. CASE OnDelContactIn(s, e)
    BY <2>6 DEF OnDelContactIn, tables, NoMessage
  <2>7. CASE OnContactInfoIn(s, e)
    BY <2>7 DEF OnContactInfoIn, tables, NoMessage
  <2>8. CASE OnContactInfoReply(s, e)
    BY <2>8 DEF OnContactInfoReply, tables, NoMessage
  <2> QED
    BY <1>2, <2>1, <2>2, <2>3, <2>4, <2>5, <2>6, <2>7, <2>8 DEF EventStep
<1> QED
  BY <1>1, <1>2 DEF Handles

\* Another event leaves the message where it is.
LEMMA FollowsOthers ==
  ASSUME Base, NEW m \in Messages, Single(m), m > commands => ~Held(m), NEW s, NEW e,
         Handles(s, e), e.id # m
  PROVE  Follows(m)
<1>1. PICK req, P : Moves(s, e, req, P) /\ req \in Seq(Reports) /\ \A p \in P : Fair(s, e, p)
  BY HandlesFair
<1>2. m # 0 /\ commands' = commands
  BY <1>1, MessengerAssumption DEF Messages, Moves
<1>3. \A p \in P : p.id # m
  BY <1>1, <1>2 DEF Fair
<1>4. /\ Alone(m)'
      /\ \A w, x : w # "row" => (Holds(w, x, m)' <=> Holds(w, x, m))
  BY <1>1, <1>3, MovesOthers DEF Single
<1>5. \A u \in Users : m \in ToSet(message'[u]) <=> m \in ToSet(message[u])
  <2>1. CASE message' = message
    BY <2>1
  <2>2. CASE s \in {0} \cup DOMAIN queue /\ OnMessageIn(s, e) /\ message' # message
    <3>1. message' = [message EXCEPT ![e.to] = Append(message[e.to], e.id)]
      BY <2>2 DEF OnMessageIn
    <3>2. e \in Packets
      BY <2>2, DoMessageIn
    <3>3. e.to \in Users /\ e.id \in {0} \cup Messages
      BY <3>2, PacketFields
    <3> PICK c \in Users : c = e.to
      BY <3>3
    <3>4. message \in [Users -> Seq({0} \cup Messages)]
      BY PlacesTyped
    <3>5. message'[c] = Append(message[c], e.id) /\ message[c] \in Seq({0} \cup Messages)
      BY <3>1, <3>4
    <3>6. ToSet(message'[c]) = ToSet(message[c]) \cup {e.id}
      BY <3>3, <3>5, AppendSeq
    <3>7. \A u \in Users : u # c => message'[u] = message[u]
      BY <3>1, <3>4
    <3> QED
      BY <3>6, <3>7
  <2>3. message' = message \/ (s \in {0} \cup DOMAIN queue /\ OnMessageIn(s, e))
    <3>1. OnMessage(s, e) \/ OnMessageOut(s, e) => message' = message
      BY DEF OnMessage, OnMessageOut, tables
    <3> QED
      BY <3>1, HandlesKind DEF NoMessage
  <2> QED
    BY <2>1, <2>2, <2>3
<1>6. \A x : Holds("row", x, m)' <=> Holds("row", x, m)
  BY <1>5 DEF Holds
<1>7. \A w, x : Holds(w, x, m)' <=> Holds(w, x, m)
  BY <1>4, <1>6
<1> QED
  BY <1>2, <1>4, <1>7, FollowsSame

\* The message is sent on, and nothing else with its number.
LEMMA FollowsSent ==
  ASSUME Base, NEW m \in Messages, Single(m), m > commands => ~Held(m),
         NEW s \in {0} \cup DOMAIN queue, NEW e, e.id = m, NEW out \in Seq(Packets),
         Handle(s, e, <<>>, out), message' = message, OnceId(out, m), HasId(out, m)
  PROVE  Follows(m)
<1> DEFINE req == <<>>
<1>1. req \in Seq(Reports) /\ Handle(s, e, req, out)
  BY EmptySet
<1> HIDE DEF req
<1>2. Gone(s, e, m) /\ Held(m)
  BY <1>1, HandledGone
<1>3. Lands(out, m)
  BY <1>1, <1>2, HandledLands
<1>4. PICK p \in ToSet(out) : p.id = m
  BY OnceSet
<1>5. \A x \in ToSet(out) : x.id = m => x = p
  BY <1>4, OnceSet
<1> QED
  BY <1>2, <1>3, <1>4, <1>5, OneLands

\* The message module sends it in the user's name.
LEMMA FollowsMessage ==
  ASSUME Base, NEW m \in Messages, Single(m), m > commands => ~Held(m), NEW s \in DOMAIN queue,
         NEW e, e.id = m, OnMessage(s, e)
  PROVE  Follows(m)
<1> DEFINE p == Letter(e)
           out == <<p>>
<1>1. Handle(s, e, <<>>, out) /\ message' = message
  BY DEF OnMessage, tables, Letter
<1>2. e \in Packets /\ p \in Packets
  BY DoMessage
<1>3. p.id = m
  BY <1>2 DEF Letter, Packets
<1> HIDE DEF p
<1>4. out \in Seq(Packets) /\ ToSet(out) = {p} /\ OnceId(out, m)
  BY <1>2, OneSet, OnceOne
<1> HIDE DEF out
<1>5. HasId(out, m)
  BY <1>3, <1>4, OnceSet
<1> QED
  BY <1>1, <1>4, <1>5, FollowsSent

\* It goes on to its addressee, after a status for him.
LEMMA FollowsOut ==
  ASSUME Base, NEW m \in Messages, Single(m), m > commands => ~Held(m),
         NEW s \in {0} \cup DOMAIN queue, NEW e, e.id = m, OnMessageOut(s, e)
  PROVE  Follows(m)
<1> DEFINE a == AddAndNotify(s, e.to)
           p == Passed(e)
           c == <<p>>
           out == a \o c
<1>1. /\ Handle(s, e, <<>>, out) \/ Handle(s, e, <<>>, c)
      /\ message' = message
  BY DEF OnMessageOut, Onward, Passed
<1>2. /\ e \in Packets /\ e.ev = "EV_S_OUT" /\ e.cmd = "CMD_SRV_MESSAGE"
  BY DoMessageOut
<1>3. \E req, o : Handle(s, e, req, o)
  BY <1>1
<1>4. /\ e.from \in Users /\ e.to \in Users /\ e.from # e.to
      /\ s # 0 => s \in DOMAIN sess /\ sess[s].user = Owner(e)
  BY <1>2, <1>3, Handled
<1>5. Owner(e) = e.from
  BY <1>2 DEF Owner
<1>6. p \in Packets
  BY <1>2, <1>4, Forwarded DEF Passed
<1>7. p.id = m
  BY <1>2 DEF Passed, Packets
<1>8. a \in Seq(Packets) /\ ToSet(a) = Welcome(s, e.to)
  BY <1>4, <1>5, WelcomeSeq
<1>9. ~HasId(a, m) /\ OnceId(a, m)
  <2>1. m # 0
    BY MessengerAssumption DEF Messages
  <2>2. \A f \in ToSet(a) : f.id = 0
    BY <1>8 DEF Welcome, OnlineTo, In, Item
  <2>3. ~HasId(a, m)
    BY <1>8, <2>1, <2>2, OnceSet
  <2> QED
    BY <2>3 DEF HasId, OnceId
<1> HIDE DEF a, p
<1>10. c \in Seq(Packets) /\ ToSet(c) = {p} /\ OnceId(c, m)
  BY <1>6, OneSet, OnceOne
<1> HIDE DEF c
<1>11. HasId(c, m)
  BY <1>7, <1>10, OnceSet
<1>12. out \in Seq(Packets) /\ HasId(out, m) /\ OnceId(out, m)
  BY <1>8, <1>9, <1>10, <1>11, JoinedSeq, OnceJoin
<1> HIDE DEF out
<1> QED
  BY <1>1, <1>10, <1>11, <1>12, FollowsSent

\* The addressee is given it, or it is stored for him.
LEMMA FollowsIn ==
  ASSUME Base, NEW m \in Messages, Single(m), m > commands => ~Held(m),
         NEW s \in {0} \cup DOMAIN queue, NEW e, e.id = m, OnMessageIn(s, e)
  PROVE  Follows(m)
<1> DEFINE req == <<>>
           out == <<>>
<1>1. /\ req \in Seq(Reports) /\ out \in Seq(Packets) /\ ToSet(out) = {} /\ OnceId(out, m)
      /\ Handle(s, e, req, out)
  BY EmptySet, OnceEmpty DEF OnMessageIn
<1> HIDE DEF req, out
<1>2. Gone(s, e, m) /\ Held(m)
  BY <1>1, HandledGone
<1>3. Lands(out, m)
  BY <1>1, <1>2, HandledLands
<1>4. m # 0 /\ e \in Packets
  <2>1. m # 0
    BY MessengerAssumption DEF Messages
  <2> QED
    BY <2>1, DoMessageIn
<1> PICK c \in Users : c = e.to
  BY <1>4, PacketFields
<1>5. /\ DOMAIN queue' = DOMAIN queue /\ commands' = commands
      /\ \A i \in DOMAIN queue : ~HasId(queue'[i], m)
      /\ ~HasId(smIn', m) /\ ~HasId(smOut', m)
  BY <1>1, <1>2, <1>3 DEF Lands, Gone
<1>6. \A x \in DOMAIN loose' : x.id # m
  <2>1. \A x : x.id = m => NumberOf(x, loose') = 0
    BY <1>1, <1>3 DEF Lands, Unowned
  <2> QED
    BY <1>3, <2>1, InBag DEF Lands
<1>7. Alone(m)'
  BY <1>5, <1>6 DEF Alone, OnceId, HasId
<1>8. \A w, x : w # "row" => ~Holds(w, x, m)'
  BY <1>5, <1>6 DEF Holds
<1>9. \A u \in Users : m \notin ToSet(message[u])
  BY <1>2 DEF Gone
<1>10. CASE s = 0
  <2>1. message' = [message EXCEPT ![c] = Append(message[c], m)]
    BY <1>10 DEF OnMessageIn
  <2>2. message \in [Users -> Seq({0} \cup Messages)]
    BY PlacesTyped
  <2>3. message'[c] = Append(message[c], m) /\ message[c] \in Seq({0} \cup Messages)
    BY <2>1, <2>2
  <2>4. m \in ToSet(message'[c])
    BY <2>3, AppendSeq
  <2>5. \A u \in Users : u # c => message'[u] = message[u]
    BY <2>1, <2>2
  <2>6. Holds("row", c, m)'
    BY <2>4 DEF Holds
  <2>7. \A x : Holds("row", x, m)' => x = c
    BY <1>9, <2>5 DEF Holds
  <2>8. \A w, x : Holds(w, x, m)' => w = "row" /\ x = c
    BY <1>8, <2>7
  <2> QED
    BY <1>2, <1>5, <1>7, <2>6, <2>8, FollowsMove
<1>11. CASE s # 0
  <2>1. Given(s, {m}) /\ message' = message
    BY <1>11 DEF OnMessageIn
  <2>2. m \in got' \cup lost'
    BY <1>4, <2>1 DEF Given
  <2>3. \A x : ~Holds("row", x, m)'
    BY <1>9, <2>1 DEF Holds
  <2>4. \A w, x : Holds(w, x, m)' => w = "row" /\ x = c
    BY <1>8, <2>3
  <2> QED
    BY <1>2, <1>5, <1>7, <2>2, <2>4, FollowsMove
<1> QED
  BY <1>10, <1>11

\* A handler.
LEMMA FollowsHandles ==
  ASSUME Base, NEW m \in Messages, Single(m), m > commands => ~Held(m), NEW s, NEW e,
         Handles(s, e)
  PROVE  Follows(m)
<1>1. CASE e.id # m
  BY <1>1, FollowsOthers
<1>2. CASE e.id = m
  <2>1. PICK req, P : Moves(s, e, req, P)
    BY HandlesFair
  <2>2. e \in Packets
    BY <1>2, <2>1, NumberedIs DEF Moves
  <2>3. ~NoMessage(e)
    BY <1>2, <2>2, NumberedIs, PacketFields DEF NoMessage
  <2>4. CASE s \in DOMAIN queue /\ OnMessage(s, e)
    BY <1>2, <2>4, FollowsMessage
  <2>5. CASE s \in {0} \cup DOMAIN queue /\ OnMessageOut(s, e)
    BY <1>2, <2>5, FollowsOut
  <2>6. CASE s \in {0} \cup DOMAIN queue /\ OnMessageIn(s, e)
    BY <1>2, <2>6, FollowsIn
  <2> QED
    BY <2>3, <2>4, <2>5, <2>6, HandlesKind
<1> QED
  BY <1>1, <1>2

\* Two sequences that differ by two neighbours' places hold a message as often.
LEMMA OnceSwapped ==
  ASSUME NEW q, NEW n, NEW m, Len(q) \in Nat, Len(n) = Len(q), NEW k \in 1 .. Len(q) - 1,
         n[k] = q[k + 1], n[k + 1] = q[k],
         \A j \in 1 .. Len(q) : j \notin {k, k + 1} => n[j] = q[j]
  PROVE  (HasId(n, m) <=> HasId(q, m)) /\ (OnceId(q, m) => OnceId(n, m))
<1> DEFINE Other(j) == IF j = k THEN k + 1 ELSE IF j = k + 1 THEN k ELSE j
           I == 1 .. Len(q)
<1>1. \A j \in I : Other(j) \in I /\ n[j] = q[Other(j)] /\ q[j] = n[Other(j)]
  OBVIOUS
<1>2. \A i, j \in I : Other(i) = Other(j) => i = j
  OBVIOUS
<1>3. Len(n) = Len(q)
  OBVIOUS
<1> HIDE DEF Other
<1>4. ASSUME NEW j \in I, n[j].id = m PROVE HasId(q, m)
  <2>1. Other(j) \in I /\ q[Other(j)].id = m
    BY <1>1, <1>4
  <2> QED
    BY <2>1 DEF HasId
<1>5. ASSUME NEW j \in I, q[j].id = m PROVE HasId(n, m)
  <2>1. Other(j) \in I /\ n[Other(j)].id = m
    BY <1>1, <1>5
  <2> QED
    BY <1>3, <2>1 DEF HasId
<1>6. ASSUME OnceId(q, m), NEW i \in I, NEW j \in I, n[i].id = m, n[j].id = m PROVE i = j
  <2>1. Other(i) \in I /\ Other(j) \in I /\ q[Other(i)].id = m /\ q[Other(j)].id = m
    BY <1>1, <1>6
  <2>2. Other(i) = Other(j)
    BY <1>6, <2>1 DEF OnceId
  <2> QED
    BY <1>2, <2>2
<1>7. HasId(n, m) <=> HasId(q, m)
  BY <1>3, <1>4, <1>5 DEF HasId
<1>8. OnceId(q, m) => OnceId(n, m)
  BY <1>3, <1>6 DEF OnceId
<1> QED
  BY <1>7, <1>8

\* A packet overtakes another in a queue.
LEMMA FollowsOvertakes ==
  ASSUME Base, NEW m \in Messages, Single(m), m > commands => ~Held(m),
         NEW s, NEW k, Overtakes(s, k)
  PROVE  Follows(m)
<1>1. /\ s \in DOMAIN queue /\ k \in 1 .. Len(queue[s]) - 1 /\ Swapped(s, k)
      /\ UNCHANGED <<loose, smIn, smOut, message, commands>>
  BY DEF Overtakes
<1>2. Len(queue[s]) \in Nat /\ DOMAIN queue[s] = 1 .. Len(queue[s])
  BY <1>1, Shapes
<1>3. DOMAIN queue' = DOMAIN queue
  BY <1>1, Shapes DEF Swapped
<1>4. (HasId(queue'[s], m) <=> HasId(queue[s], m)) /\ (OnceId(queue[s], m) => OnceId(queue'[s], m))
  <2> DEFINE q == queue[s]
             n == queue'[s]
  <2>1. /\ Len(q) \in Nat /\ Len(n) = Len(q) /\ k \in 1 .. Len(q) - 1
        /\ n[k] = q[k + 1] /\ n[k + 1] = q[k]
        /\ \A j \in 1 .. Len(q) : j \notin {k, k + 1} => n[j] = q[j]
    BY <1>1, <1>2 DEF Swapped
  <2> HIDE DEF q, n
  <2>2. (HasId(n, m) <=> HasId(q, m)) /\ (OnceId(q, m) => OnceId(n, m))
    BY <2>1, OnceSwapped
  <2> QED
    BY <2>2 DEF q, n
<1>5. \A i \in DOMAIN queue : /\ HasId(queue'[i], m) <=> HasId(queue[i], m)
                              /\ OnceId(queue[i], m) => OnceId(queue'[i], m)
  BY <1>1, <1>4 DEF Swapped
<1>6. Alone(m)'
  BY <1>1, <1>3, <1>5 DEF Single, Alone
<1>7. \A w, x : Holds(w, x, m)' <=> Holds(w, x, m)
  BY <1>1, <1>3, <1>5 DEF Holds
<1> QED
  BY <1>1, <1>6, <1>7, FollowsSame

\* A step of the specification.
LEMMA FollowsSteps ==
  ASSUME Base, [MessengerNext]_messengerVars, NEW m \in Messages, Single(m),
         m > commands => ~Held(m)
  PROVE  Follows(m)
<1>1. Stepped /\ Base'
  BY Steps
<1>2. CASE \E u \in Users, status \in Statuses : \E n : Begins(u, status, n)
  BY <1>2, FollowsBegins
<1>3. CASE \E u \in Users : Leaves(u)
  BY <1>3, FollowsLeaves
<1>4. CASE \E u \in Users : \E e : Enters(u, e)
  BY <1>4, FollowsEnters
<1>5. CASE \E s \in DOMAIN queue : Sweeps(s)
  BY <1>5, FollowsSweeps
<1>6. CASE \E s, e : Handles(s, e)
  BY <1>6, FollowsHandles
<1>7. CASE \E e : Reads(e)
  BY <1>7, FollowsReads
<1>8. CASE \E e : Arrives(e)
  BY <1>1, <1>8, FollowsArrives
<1>9. CASE UNCHANGED messengerVars
  <2>1. UNCHANGED <<queue, loose, smIn, smOut, message, commands>>
    BY <1>9 DEF messengerVars, tables, streams
  <2> QED
    BY <2>1, FollowsStill
<1>10. CASE \E s, k : Overtakes(s, k)
  BY <1>10, FollowsOvertakes
<1> QED
  BY <1>1, <1>2, <1>3, <1>4, <1>5, <1>6, <1>7, <1>8, <1>9, <1>10 DEF Stepped

\* At first no message is anywhere; those of an earlier day have no number.
LEMMA OneCopyFirst == MessengerInit => OneCopy
<1> SUFFICES ASSUME MessengerInit, NEW m \in Messages
             PROVE  Single(m) /\ ~Held(m)
  BY DEF OneCopy
<1>1. /\ queue = <<>> /\ smIn = <<>> /\ smOut = <<>> /\ DOMAIN loose = {} /\ DOMAIN queue = {}
      /\ message \in [Users -> {<<>>, <<0>>}]
  BY DEF MessengerInit, EmptyBag, SetToBag
<1>2. m # 0
  BY MessengerAssumption DEF Messages
<1>3. ToSet(<<>>) = {} /\ ToSet(<<0>>) = {0}
  BY EmptySet, OneSet
<1>4. \A u \in Users : m \notin ToSet(message[u])
  <2>1. \A u \in Users : message[u] = <<>> \/ message[u] = <<0>>
    BY <1>1
  <2> QED
    BY <1>2, <1>3, <2>1
<1>5. \A w, x : ~Holds(w, x, m)
  BY <1>1, <1>4, OnceEmpty DEF Holds
<1>6. Alone(m)
  BY <1>1, OnceEmpty DEF Alone
<1> QED
  BY <1>5, <1>6 DEF Single, Held

\* Every step keeps one copy of each.
LEMMA OneCopySteps ==
  ASSUME Base, OneCopy, [MessengerNext]_messengerVars
  PROVE  OneCopy'
<1>1. \A m \in Messages : Follows(m)
  BY FollowsSteps DEF OneCopy
<1> QED
  BY <1>1 DEF Follows, OneCopy

\* Event e is at place x of kind w.
At(w, x, e) ==
  \/ w = "queue" /\ x \in DOMAIN queue /\ e \in ToSet(queue[x])
  \/ w = "loose" /\ x = e /\ e \in DOMAIN loose
  \/ w = "smIn" /\ x = 0 /\ e \in ToSet(smIn)
  \/ w = "smOut" /\ x = 0 /\ e \in ToSet(smOut)

LEMMA PlacesOf ==
  ASSUME Base, NEW m
  PROVE  /\ \A e : e \in UnderWay <=> \E w, x : At(w, x, e)
         /\ \A w, x, e : At(w, x, e) /\ e.id = m => w # "row" /\ Holds(w, x, m)
         /\ \A w, x : Holds(w, x, m) /\ w # "row" => \E e : At(w, x, e) /\ e.id = m
         /\ \A w, x, e, f : Alone(m) /\ At(w, x, e) /\ At(w, x, f) /\ e.id = m /\ f.id = m => e = f
<1>1. \A e : e \in UnderWay <=> \E w, x : At(w, x, e)
  <2>1. \A e : e \in UnderWay <=> \/ \E i \in DOMAIN queue : e \in ToSet(queue[i])
                                  \/ e \in DOMAIN loose \/ e \in ToSet(smIn) \/ e \in ToSet(smOut)
    BY DEF UnderWay, BagToSet
  <2> QED
    BY <2>1 DEF At
<1>2. \A q \in {smIn, smOut} \cup {queue[i] : i \in DOMAIN queue} :
        /\ HasId(q, m) <=> \E p \in ToSet(q) : p.id = m
        /\ OnceId(q, m) => \A a, b \in ToSet(q) : a.id = m /\ b.id = m => a = b
  <2>1. smIn \in Seq(Incoming \cup Reports) /\ smOut \in Seq(Incoming)
        /\ \A i \in DOMAIN queue : queue[i] \in Seq(Packets \cup Marks)
    BY PlacesTyped
  <2>2. ASSUME NEW S, NEW q \in Seq(S)
        PROVE  /\ HasId(q, m) <=> \E p \in ToSet(q) : p.id = m
               /\ OnceId(q, m) => \A a, b \in ToSet(q) : a.id = m /\ b.id = m => a = b
    BY OnceSet
  <2> QED
    BY <2>1, <2>2
<1>3. \A w, x, e : At(w, x, e) /\ e.id = m => w # "row" /\ Holds(w, x, m)
  BY <1>2 DEF At, Holds
<1>4. \A w, x : Holds(w, x, m) /\ w # "row" => \E e : At(w, x, e) /\ e.id = m
  BY <1>2 DEF At, Holds
<1>5. \A w, x, e, f : Alone(m) /\ At(w, x, e) /\ At(w, x, f) /\ e.id = m /\ f.id = m => e = f
  BY <1>2 DEF At, Alone
<1> QED
  BY <1>1, <1>3, <1>4, <1>5

\* A message that is somewhere has one copy, and another has none.
CountsRight == \A m \in Messages : Copies(m) = (IF Held(m) THEN 1 ELSE 0)

LEMMA OneCopyCounts == Base /\ OneCopy => CountsRight
<1> SUFFICES ASSUME Base, NEW m \in Messages, Single(m)
             PROVE  Copies(m) = (IF Held(m) THEN 1 ELSE 0)
  BY DEF OneCopy, CountsRight
<1> DEFINE rows == {u \in Users : m \in ToSet(message[u])}
           events == {e \in UnderWay : e.id = m}
<1>1. Copies(m) = Cardinality(rows) + Cardinality(events)
  BY DEF Copies
<1>2. \A u : u \in rows <=> Holds("row", u, m)
  BY DEF Holds
<1>3. \A e : e \in events <=> e.id = m /\ \E w, x : At(w, x, e)
  BY PlacesOf
<1>4. Cardinality({}) = 0 /\ \A x : Cardinality({x}) = 1
  BY FS_EmptySet, FS_Singleton
<1> HIDE DEF rows, events
<1>5. CASE ~Held(m)
  <2>1. rows = {}
    BY <1>2, <1>5 DEF Held
  <2>2. events = {}
    BY <1>3, <1>5, PlacesOf DEF Held
  <2> QED
    BY <1>1, <1>4, <1>5, <2>1, <2>2
<1>6. CASE Held(m)
  <2>1. PICK w, x : Holds(w, x, m)
    BY <1>6 DEF Held
  <2>2. \A v, y : Holds(v, y, m) => v = w /\ y = x
    BY <2>1 DEF Single
  <2>3. CASE w = "row"
    <3>1. rows = {x}
      BY <1>2, <2>1, <2>2, <2>3
    <3>2. events = {}
      BY <1>3, <2>2, <2>3, PlacesOf
    <3>3. Cardinality(rows) = 1 /\ Cardinality(events) = 0
      BY <1>4, <3>1, <3>2
    <3> QED
      BY <1>1, <1>6, <3>3
  <2>4. CASE w # "row"
    <3>1. rows = {}
      BY <1>2, <2>2, <2>4
    <3>2. PICK e : At(w, x, e) /\ e.id = m
      BY <2>1, <2>4, PlacesOf
    <3>3. \A f : f \in events => f = e
      <4> SUFFICES ASSUME NEW f, f \in events
                   PROVE  f = e
        OBVIOUS
      <4>1. PICK v, y : At(v, y, f)
        BY <1>3
      <4>2. f.id = m
        BY <1>3
      <4>3. Holds(v, y, m)
        BY <4>1, <4>2, PlacesOf
      <4>4. At(w, x, f)
        BY <2>2, <4>1, <4>3
      <4> QED
        BY <3>2, <4>2, <4>4, PlacesOf DEF Single
    <3>4. events = {e}
      <4>1. e \in events
        BY <1>3, <3>2
      <4> QED
        BY <3>3, <4>1
    <3>5. Cardinality(rows) = 0 /\ Cardinality(events) = 1
      BY <1>4, <3>1, <3>4
    <3> QED
      BY <1>1, <1>6, <3>5
  <2> QED
    BY <2>3, <2>4
<1> QED
  BY <1>5, <1>6

\* NoMessageVanishes: a message stays in one place, the queue of a session, a
\* stream, an event without a session or a row of the table, until it is given
\* to its addressee, or deleted by the offline module or given to a session that
\* has ended (message.cpp, offline.cpp:63).
THEOREM MessagesStay == MessengerSpec => NoMessageVanishes
<1> DEFINE Inv == Base /\ OneCopy
           Step == \A m \in Messages : Copies(m) = 1 => Copies(m)' = 1 \/ m \in got' \cup lost'
<1>1. MessengerInit => Inv
  BY BaseInit, OneCopyFirst
<1>2. Inv /\ [MessengerNext]_messengerVars => Inv'
  BY Steps, OneCopySteps
<1>3. Inv => CountsRight
  BY OneCopyCounts
<1>4. Inv /\ [MessengerNext]_messengerVars /\ CountsRight /\ CountsRight' => Step
  <2> SUFFICES ASSUME Base, OneCopy, [MessengerNext]_messengerVars, CountsRight, CountsRight',
                      NEW m \in Messages, Copies(m) = 1
               PROVE  Copies(m)' = 1 \/ m \in got' \cup lost'
    OBVIOUS
  <2>1. Held(m)
    BY DEF CountsRight
  <2>2. Follows(m)
    BY FollowsSteps DEF OneCopy
  <2>3. Copies(m)' = (IF Held(m)' THEN 1 ELSE 0)
    BY DEF CountsRight
  <2> QED
    BY <2>1, <2>2, <2>3 DEF Follows
<1> HIDE DEF Inv, Step
<1>5. MessengerSpec => [][Step]_messengerVars
  BY <1>1, <1>2, <1>3, <1>4, PTL DEF MessengerSpec
<1> QED
  BY <1>5 DEF NoMessageVanishes, Step

\* No handler makes two messages of one, and none is stored while it is on its way:
\* at any time it is in one place or in none.  (A row may still be read by two
\* sessions of the user, offline.cpp:35, before one of them deletes it.)
THEOREM NoMessageTwice == MessengerSpec => [](\A m \in Messages : Copies(m) \in {0, 1})
<1> DEFINE Inv == Base /\ OneCopy
           AtMostOne == \A m \in Messages : Copies(m) \in {0, 1}
<1>1. MessengerInit => Inv
  BY BaseInit, OneCopyFirst
<1>2. Inv /\ [MessengerNext]_messengerVars => Inv'
  BY Steps, OneCopySteps
<1>3. Inv => AtMostOne
  BY OneCopyCounts DEF CountsRight
<1> HIDE DEF Inv, AtMostOne
<1>4. MessengerSpec => []AtMostOne
  BY <1>1, <1>2, <1>3, PTL DEF MessengerSpec
<1> QED
  BY <1>4 DEF AtMostOne
=============================================================================
