------------------------------- MODULE Client -------------------------------
(***************************************************************************)
(* How the GTK client gets on line and stays there: the login dialog, the  *)
(* registration wizard and the main window, LinqMain with its two timers,  *)
(* the life of the UDPSession of liblinq, and the socket below it, which   *)
(* is plain or goes through a SOCKS or an HTTP proxy.                      *)
(*                                                                         *)
(* The client has one thread; a callback of a socket, a timer or a button  *)
(* is one step.  Packets have their command only: the window and the       *)
(* numbers that order them are modules UpLink and DownLink.  The proxy,    *)
(* the network and linqd are the environment.                              *)
(***************************************************************************)
EXTENDS Integers

CONSTANTS
  Kinds,              \* ways to the server: of "null", "socks", "http"
  MAX_SEND_ATTEMPTS,
  MaxConnects         \* bound: calls of connect()

ASSUME ClientAssumption ==
  /\ Kinds \subseteq {"null", "socks", "http"} /\ Kinds # {}
  /\ MAX_SEND_ATTEMPTS \in Nat \ {0} /\ MaxConnects \in Nat

VARIABLES
  ui,         \* windows and LinqMain::myInfo
  timers,     \* gtk timers that run, and whether LinqMain knows one to stop
  sock,       \* udpSocket
  udp,        \* UDPSession
  net,        \* the way to the server and back, see QuietNet
  connects,
  \* history
  reported,   \* onConnect(false) since the last onConnect(true)
  switched    \* the choice of the wizard was changed since then

clientHistory == <<reported, switched>>
clientVars == <<ui, timers, sock, udp, net, connects, clientHistory>>

OFFLINE == "STATUS_OFFLINE"
Statuses == {"STATUS_ONLINE", "STATUS_INVIS", OFFLINE}
Commands == {"REGISTER", "LOGIN", "KEEPALIVE", "CHANGE_STATUS",
             "UPDATE_USER_INFO", "GET_USER_INFO", "GET_CONTACT_LIST"}
Replied == {"REGISTER", "LOGIN", "GET_USER_INFO", "GET_CONTACT_LIST"}
Accounts == {"new", "old"}
NoSocket == [kind |-> "none", status |-> "NOT_CONN", tcp |-> "none"]
Replies == [cmd : Replied, what : {"success", "error"}]

\* The way to linqd when nothing of this session was sent.  served: the waiting
\* packets with a reply that linqd has taken, or will take.  down: its replies,
\* until they arrive.  accepted: it has logged the session in.  (Each socket has
\* its own port, so nothing of the last one arrives.)
QuietNet == [served |-> {}, down |-> {}, accepted |-> FALSE]

ClientTypeOK ==
  /\ ui \in [window : {"login", "wizard", "main"}, main_win : BOOLEAN,
             page : {"choose", "info", "network", "result"},
             newUser : BOOLEAN, isFinished : BOOLEAN,
             UserInfo_received : BOOLEAN, ContactList_received : BOOLEAN,
             animate : BOOLEAN, name : Accounts, proxyInfo : Kinds \cup {"null"},
             login_status : Statuses \ {OFFLINE}, now_status : Statuses]
  /\ timers \in [check : 0 .. 2 * MaxConnects, checkKnown : BOOLEAN,
                 alive : 0 .. 2 * MaxConnects, aliveKnown : BOOLEAN]
  /\ sock \in [kind : Kinds \cup {"none"},
               status : {"NOT_CONN", "METHOD", "AUTH", "ASSOCIATE", "ESTABLISHED"},
               tcp : {"none", "pending", "up", "closed"}]
  /\ udp.account \in Accounts
  /\ udp.sendQueue \subseteq [cmd : Commands, attempts : 0 .. MAX_SEND_ATTEMPTS - 1]
  /\ net \in [served : SUBSET Replied, down : SUBSET Replies, accepted : BOOLEAN]
  /\ connects \in 0 .. MaxConnects /\ {reported, switched} \subseteq BOOLEAN

ClientInit ==
  /\ ui = [window |-> "login", proxyInfo |-> "null", main_win |-> FALSE, page |-> "choose",
           newUser |-> TRUE, isFinished |-> FALSE, UserInfo_received |-> FALSE,
           ContactList_received |-> FALSE, animate |-> FALSE, name |-> "old",
           login_status |-> "STATUS_ONLINE", now_status |-> OFFLINE]
  /\ timers = [check |-> 0, checkKnown |-> FALSE, alive |-> 0, aliveKnown |-> FALSE]
  /\ sock = NoSocket
  /\ udp = [account |-> "old", sendQueue |-> {}]
  /\ net = QuietNet /\ connects = 0
  /\ reported = FALSE /\ switched = FALSE

-----------------------------------------------------------------------------
(***************************************************************************)
(* UDPSession.                                                             *)
(***************************************************************************)

\* A datagram that is sent now goes to the server.  (HTTPProxy::send puts it
\* into the connection before the tunnel stands, too: a proxy that minds gives
\* the reply of OnProxyException.)
Opened(s) == s.kind = "null" \/ (s.status = "ESTABLISHED" /\ s.tcp = "up")

\* reset(), for the account of the login that follows.
reset(name) == [account |-> name, sendQueue |-> {}]

\* createPacket and sendPacket.  (The queue is in the order of its expirations;
\* which packets have expired is left open here, and so is the order.)
Fresh(cmds) == {[cmd |-> cmd, attempts |-> 0] : cmd \in cmds}
Queue(u, cmd) ==
  [u EXCEPT !.sendQueue = @ \cup Fresh({cmd})]

\* net when linqd has taken packets with these commands and answers them, a
\* login or a registration with this outcome.
Taken(n, cmds, outcome) ==
  LET What(cmd) == IF cmd \in {"REGISTER", "LOGIN"} THEN outcome ELSE "success"
  IN [served |-> n.served \cup cmds,
      down |-> n.down \cup {[cmd |-> cmd, what |-> What(cmd)] : cmd \in cmds},
      accepted |-> n.accepted \/ ("LOGIN" \in cmds /\ outcome = "success")]

\* linqd knows nothing of a session that has not logged in.
Known(cmd, n) == cmd \in {"REGISTER", "LOGIN"} \/ n.accepted

\* sendDirect of packets with these commands over socket s, with the network as
\* n: each one arrives or is lost, and linqd answers it once.
Send(s, n, cmds) ==
  \E taken \in SUBSET ((cmds \cap Replied) \ n.served),
    outcome \in {"success", "error"} :
    /\ taken # {} => Opened(s)
    /\ \A cmd \in taken : Known(cmd, n)
    /\ net' = Taken(n, taken, outcome)

\* net when packets with these commands no longer wait.
Done(n, cmds) == [n EXCEPT !.served = @ \ cmds]

sendPacket(cmd) ==
  /\ udp' = Queue(udp, cmd)
  /\ Send(sock, net, {cmd})

-----------------------------------------------------------------------------
(***************************************************************************)
(* LinqMain::onConnect and the onConnect of the windows.                   *)
(***************************************************************************)

\* onConnect(true): a timer is added whether or not one runs, and the main
\* window logs in, the wizard logs in or registers.
OnConnected ==
  LET register == ui.window = "wizard" /\ ui.newUser
      account == IF ui.window = "wizard" THEN (IF ui.newUser THEN "new" ELSE "old")
                                         ELSE ui.name
      cmd == IF register THEN "REGISTER" ELSE "LOGIN"
  IN /\ timers' = [timers EXCEPT !.check = @ + 1, !.checkKnown = TRUE]
     /\ udp' = Queue(reset(account), cmd)
     /\ Send(sock', QuietNet, {cmd})
     /\ reported' = FALSE /\ switched' = FALSE

\* onConnect(false): the known timers end, and so does the animation.
StopTimers(t) ==
  [check |-> IF t.checkKnown THEN t.check - 1 ELSE t.check, checkKnown |-> FALSE,
   alive |-> IF t.aliveKnown THEN t.alive - 1 ELSE t.alive, aliveKnown |-> FALSE]

OnConnectFailed(u) ==
  /\ timers' = StopTimers(timers)
  /\ ui' = [u EXCEPT !.animate = FALSE]
  /\ reported' = TRUE

-----------------------------------------------------------------------------
(***************************************************************************)
(* Connecting.                                                             *)
(***************************************************************************)

\* ICQMain::connect and UDPSession::connect, with the windows as u.  The last
\* socket is deleted, which closes it.  A plain socket is connected at once or
\* its host is not found; a proxy has to be connected to.
Connect(u) ==
  /\ connects < MaxConnects /\ connects' = connects + 1
  /\ IF u.proxyInfo = "null"
     THEN /\ sock' = [NoSocket EXCEPT !.kind = "null"]
          /\ \/ OnConnected /\ ui' = u
             \/ OnConnectFailed(u) /\ net' = QuietNet /\ UNCHANGED <<udp, switched>>
     ELSE /\ sock' = [kind |-> u.proxyInfo, status |-> "NOT_CONN", tcp |-> "pending"]
          /\ ui' = u /\ net' = QuietNet /\ UNCHANGED <<udp, timers, reported, switched>>

\* MainWin::doLogin
doLogin(u) == Connect([u EXCEPT !.animate = TRUE])

\* The TCP connection to the proxy: onSocketWrite of the proxy asks for what
\* it needs first.
OnProxyWrite ==
  /\ sock.tcp = "pending"
  /\ sock' = [sock EXCEPT !.tcp = "up",
                !.status = IF sock.kind = "socks" THEN "METHOD" ELSE "NOT_CONN"]
  /\ UNCHANGED <<ui, timers, udp, net, connects, clientHistory>>

\* fireEvent(EXCEPTION): the proxy is closed before the listener is told.
ProxyException ==
  /\ sock' = [sock EXCEPT !.tcp = "closed"]
  /\ OnConnectFailed(ui)
  /\ net' = [net EXCEPT !.served = {}, !.down = {}]
  /\ UNCHANGED <<udp, connects, switched>>

\* The proxy cannot be reached, refuses, sends a reply in two pieces, or closes
\* the connection, in the middle of the handshake or afterwards.
OnProxyException == sock.tcp \in {"pending", "up"} /\ ProxyException

\* What a good reply of the proxy leads to.
NextStatus(s) ==
  CASE s.kind = "http"        -> {"ESTABLISHED"}
    [] s.status = "METHOD"    -> {"AUTH", "ASSOCIATE"}
    [] s.status = "AUTH"      -> {"ASSOCIATE"}
    [] OTHER                  -> {"ESTABLISHED"}

\* onSocketRead of the proxy during the handshake: the next request is sent, or
\* the tunnel stands and UDPSession::onSocketWrite tells that we are connected.
OnProxyReply ==
  /\ sock.tcp = "up" /\ sock.status # "ESTABLISHED"
  /\ \E status \in NextStatus(sock) :
       /\ sock' = [sock EXCEPT !.status = status]
       /\ IF status = "ESTABLISHED" THEN OnConnected
          ELSE UNCHANGED <<timers, udp, net, reported, switched>>
  /\ UNCHANGED <<ui, connects>>

-----------------------------------------------------------------------------
(***************************************************************************)
(* Timers.                                                                 *)
(***************************************************************************)

\* Seeded bug: of the packets that fail only KEEPALIVE is reported.
LosesConnectionAlive(cmds) == "KEEPALIVE" \in cmds

\* The packets whose failure means that the connection is lost.
LosesConnection(cmds) == cmds \cap {"KEEPALIVE", "LOGIN"} # {}

Cmds(ps) == {p.cmd : p \in ps}

\* checkSendQueue: the packets that have expired are sent once more, or have
\* failed.
CheckSendQueue ==
  /\ timers.check > 0
  /\ \E expired \in (SUBSET udp.sendQueue) \ {{}} :
       LET again == {p \in expired : p.attempts + 1 < MAX_SEND_ATTEMPTS}
           failed == Cmds(expired \ again)
       IN /\ udp' = [udp EXCEPT !.sendQueue =
                       (@ \ expired) \cup {[p EXCEPT !.attempts = @ + 1] : p \in again}]
          /\ Send(sock, Done(net, failed), Cmds(again))
          /\ IF LosesConnection(failed)
             THEN OnConnectFailed(ui) ELSE UNCHANGED <<timers, ui, reported>>
  /\ UNCHANGED <<sock, connects, switched>>

\* sendKeepAlive.  (Bound: the last one has been acknowledged or has failed,
\* as it has after KEEPALIVE_TIMEOUT if one timer runs.  changeStatus below is
\* bounded in the same way.)
Queued(cmd) == cmd \in Cmds(udp.sendQueue)

SendKeepAlive ==
  /\ timers.alive > 0
  /\ ~Queued("KEEPALIVE")
  /\ sendPacket("KEEPALIVE")
  /\ UNCHANGED <<ui, timers, sock, connects, clientHistory>>

-----------------------------------------------------------------------------
(***************************************************************************)
(* What the server sends.  (A reply is sent again until it arrives.)       *)
(***************************************************************************)

\* net when reply m has arrived.
Arrived(m) == [net EXCEPT !.down = @ \ {m}]

\* onAck: linqd has got one of the packets that wait.
OnAck ==
  /\ Opened(sock)
  /\ \E p \in udp.sendQueue :
       /\ p.cmd \in Replied => p.cmd \in net.served
       /\ Known(p.cmd, net)
       /\ udp' = [udp EXCEPT !.sendQueue = @ \ {p}]
       /\ net' = Done(net, {p.cmd})
  /\ UNCHANGED <<ui, timers, sock, connects, clientHistory>>

\* RegWizard::onRegisterReply.  (The main window has none.)
OnRegisterReply(m) ==
  /\ m.cmd = "REGISTER"
  /\ IF ui.window = "wizard" /\ ui.page = "result" /\ m.what = "success"
     THEN udp' = Queue(reset("new"), "LOGIN") /\ Send(sock, QuietNet, {"LOGIN"})
     ELSE net' = Arrived(m) /\ UNCHANGED udp
  /\ UNCHANGED <<ui, timers, sock, connects, clientHistory>>

\* Seeded bug: a login does not start the keepalive timer.
StartAliveNot(t) == t

\* A timer is added whether or not one runs.
StartAlive(t) == [t EXCEPT !.alive = @ + 1, !.aliveKnown = TRUE]

\* Seeded bug: the error of a login is not looked at.
StatusAfterAny(what) == ui.login_status

\* The status that MainWin::onLoginReply shows.
StatusAfter(what) == IF what = "success" THEN ui.login_status ELSE OFFLINE

\* LinqMain::onLoginReply, and onLoginReply of the windows.
OnLoginReply(m) ==
  /\ m.cmd = "LOGIN"
  /\ timers' = IF m.what = "success" THEN StartAlive(timers) ELSE timers
  /\ CASE ui.window = "wizard" /\ m.what = "success" ->
            LET cmds == IF ui.newUser THEN {"UPDATE_USER_INFO"}
                                      ELSE {"GET_USER_INFO", "GET_CONTACT_LIST"}
            IN /\ ui' = [ui EXCEPT !.name = IF ui.newUser THEN "new" ELSE "old",
                           !.now_status = "STATUS_INVIS",
                           !.isFinished = @ \/ ui.newUser]
               /\ udp' = [udp EXCEPT !.sendQueue = @ \cup Fresh(cmds)]
               /\ Send(sock, Arrived(m), cmds)
       [] ui.main_win ->
            /\ ui' = [ui EXCEPT !.animate = FALSE, !.now_status = StatusAfter(m.what)]
            /\ net' = Arrived(m) /\ UNCHANGED udp
       [] OTHER -> net' = Arrived(m) /\ UNCHANGED <<ui, udp>>
  /\ UNCHANGED <<sock, connects, clientHistory>>

\* RegWizard::onUserInfoReply and onContactListReply.  (In the main window a
\* dialog opens, and nothing happens.)
OnInfoReply(m) ==
  /\ net' = Arrived(m)
  /\ m.cmd \in {"GET_USER_INFO", "GET_CONTACT_LIST"}
  /\ LET info == ui.UserInfo_received \/ m.cmd = "GET_USER_INFO"
         list == ui.ContactList_received \/ m.cmd = "GET_CONTACT_LIST"
     IN ui' = IF ui.window # "wizard" THEN ui
              ELSE [ui EXCEPT !.UserInfo_received = info, !.ContactList_received = list,
                      !.isFinished = @ \/ (info /\ list)]
  /\ UNCHANGED <<timers, sock, udp, connects, clientHistory>>

-----------------------------------------------------------------------------
(***************************************************************************)
(* Buttons.                                                                *)
(***************************************************************************)

\* Seeded bug: the main window shows the name that the options remember.
ToMainWinRemembered ==
  [ui EXCEPT !.window = "main", !.main_win = TRUE, !.page = "choose",
     !.newUser = TRUE, !.isFinished = FALSE, !.UserInfo_received = FALSE,
     !.ContactList_received = FALSE, !.name = "old"]

\* The main window; the one before it is deleted.
ToMainWin ==
  [ui EXCEPT !.window = "main", !.main_win = TRUE, !.page = "choose",
     !.newUser = TRUE, !.isFinished = FALSE, !.UserInfo_received = FALSE,
     !.ContactList_received = FALSE]
NothingSent == UNCHANGED <<timers, sock, udp, net, connects, clientHistory>>

\* LoginDlg::on_register_clicked, or on_login_clicked with a damaged database.
OnRegisterClicked ==
  /\ ui.window = "login" /\ ui' = [ui EXCEPT !.window = "wizard"] /\ NothingSent

\* LoginDlg::on_login_clicked
OnLoginClicked ==
  /\ ui.window = "login"
  /\ \E kind \in Kinds, status \in Statuses \ {OFFLINE} :
       doLogin([ToMainWin EXCEPT !.proxyInfo = kind, !.login_status = status])

\* MainWin::changeStatus, with the windows as u.
changeStatus(u, status) ==
  CASE u.now_status # status /\ u.now_status = OFFLINE ->
         doLogin([u EXCEPT !.login_status = status])
    [] u.now_status # status /\ status = OFFLINE ->
         \* logout() sends its packet once
         /\ ui' = [u EXCEPT !.now_status = OFFLINE]
         /\ NothingSent
    [] u.now_status # status /\ OFFLINE \notin {u.now_status, status} ->
         /\ ~Queued("CHANGE_STATUS")
         /\ ui' = [u EXCEPT !.now_status = status]
         /\ sendPacket("CHANGE_STATUS")
         /\ UNCHANGED <<timers, sock, connects, clientHistory>>
    [] u.now_status = status ->
         /\ ui' = IF status = OFFLINE THEN [u EXCEPT !.animate = FALSE] ELSE u
         /\ NothingSent

OnStatusMenu ==
  /\ ui.window = "main"
  /\ \E status \in Statuses : changeStatus(ui, status)

\* RegWizard::on_next_clicked.  The three pages on the new user are one.
OnNextClicked ==
  /\ ui.window = "wizard"
  /\ CASE ui.isFinished ->
            changeStatus(ToMainWin, "STATUS_ONLINE")
       [] ~ui.isFinished /\ ui.page \in {"choose", "info"} ->
            /\ ui' = [ui EXCEPT !.page =
                        IF @ = "choose" /\ ui.newUser THEN "info" ELSE "network"]
            /\ NothingSent
       [] ~ui.isFinished /\ ui.page = "network" ->
            \E kind \in Kinds :
              Connect([ui EXCEPT !.page = "result", !.proxyInfo = kind])
       [] ~ui.isFinished /\ ui.page = "result" -> UNCHANGED clientVars

\* RegWizard::on_back_clicked; the button is off on the first page and at the
\* end.  (Bound: not after the last call of connect().)
OnBackClicked ==
  /\ connects < MaxConnects
  /\ ui.window = "wizard" /\ ui.page # "choose" /\ ~ui.isFinished
  /\ ui' = [ui EXCEPT !.page =
       CASE @ = "result"                  -> "network"
         [] @ = "network" /\ ui.newUser   -> "info"
         [] OTHER                         -> "choose"]
  /\ NothingSent

\* The choice between a new user and an old one, on the first page.
OnChoose ==
  /\ ui.window = "wizard" /\ ui.page = "choose"
  /\ ui' = [ui EXCEPT !.newUser = ~@] /\ switched' = TRUE
  /\ UNCHANGED <<timers, sock, udp, net, connects, reported>>

-----------------------------------------------------------------------------
ClientNext ==
  \/ OnProxyWrite \/ OnProxyException \/ OnProxyReply
  \/ CheckSendQueue \/ SendKeepAlive
  \/ \E m \in net.down :
       \/ OnRegisterReply(m) \/ OnLoginReply(m)
       \/ OnInfoReply(m)
  \/ OnAck
  \/ OnRegisterClicked \/ OnLoginClicked \/ OnStatusMenu
  \/ OnNextClicked \/ OnBackClicked \/ OnChoose

ClientSpec == ClientInit /\ [][ClientNext]_clientVars

\* The timers run, a connection to a proxy comes to an end, and the reply to a
\* login arrives.
ClientFairSpec ==
  /\ ClientSpec
  /\ WF_clientVars(CheckSendQueue)
  /\ WF_clientVars((OnProxyWrite \/ OnProxyException \/ OnProxyReply))
  /\ WF_clientVars(\E m \in net.down : OnLoginReply(m))

-----------------------------------------------------------------------------
(***************************************************************************)
(* Properties.                                                             *)
(***************************************************************************)

\* The main window never shows a status other than offline for a session that
\* the server has not logged in, however often the user changes his mind
\* while a login is under way, and whatever comes late.  The name the client
\* shows is that of the account it is logged in with, unless the choice of the
\* wizard was changed while its login was under way.
OnlineMeansAccepted ==
  /\ ClientTypeOK
  /\ ui.main_win /\ ui.now_status # OFFLINE =>
       net.accepted /\ (ui.name = udp.account \/ switched)

\* A client that is on line is watched, and so is every packet that waits: the
\* timers run until onConnect(false) has told that the connection is lost.
TimersRun ==
  ~reported =>
    /\ udp.sendQueue # {} => timers.check > 0
    /\ ui.main_win /\ ui.now_status # OFFLINE => timers.alive > 0

\* The animation of a login comes to an end: with a reply, or with the news
\* that there is no connection.
LoginEnds == ui.animate ~> ~ui.animate
=============================================================================
