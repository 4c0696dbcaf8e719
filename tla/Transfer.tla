------------------------------ MODULE Transfer ------------------------------
(***************************************************************************)
(* Sending a file from client to client: the request and its answer by way *)
(* of the server, which of the two listens, the TCPSession at each end     *)
(* with its hello, and on top of it FileSession and the dialog that shows  *)
(* how the transfer ended (SendFileDlg).                                   *)
(*                                                                         *)
(* One request is modelled.  A packet is passed on whole: TCPSession cuts  *)
(* its bytes into packets the way TCPStream does (module Stream), and a    *)
(* packet of which the socket took only a part is not complete at the      *)
(* other end.  A file is counted in units, CHUNK of which are read at a    *)
(* time.  What fwrite() took counts as written: that fclose() flushes it   *)
(* without an error, and that fread() reads, is assumed.                   *)
(*                                                                         *)
(* Both users pick a file in a dialog that runs a main loop of its own     *)
(* inside the handler that opened it (Pick): events of both sockets are    *)
(* handled meanwhile.                                                      *)
(***************************************************************************)
EXTENDS Integers, SequencesExt

CONSTANTS
  FileSizes,  \* sizes of files
  CHUNK,      \* sizeof(buf) of onSend
  Room        \* packets the two kernels hold, each way

ASSUME TransferAssumption ==
  FileSizes \subseteq Nat /\ CHUNK \in Nat \ {0} /\ Room \in Nat \ {0}

Sender == "sender"      \* the user who has the file
Receiver == "receiver"
Peers == {Sender, Receiver}
Other(u) == IF u = Sender THEN Receiver ELSE Sender

VARIABLES
  wall,      \* users behind a firewall: nobody can connect to them
  server,    \* the message that is on its way through the server
  conn,      \* the TCP connection, from the end that connects
  net,       \* packets on their way to each user
  end,       \* each user's TCPSession and FileSession
  \* history
  broken,    \* the connection failed
  instant    \* connect() succeeded at once, and told the session so

transferVars == <<wall, server, conn, net, end, broken, instant>>

Reports == {"none", "success", "error", "stopped"}
Packet == [cmd : {"HELLO"}, isSend : BOOLEAN] \cup [cmd : {"INFO"}, size : FileSizes]
            \cup [cmd : {"RECEIVE"}] \cup [cmd : {"DATA"}, n : 1 .. CHUNK]

FileEnd == [status : {"none", "NOT_CONN", "HELLO_WAIT", "ESTABLISHED"},
        isSend : BOOLEAN, listener : BOOLEAN, open : BOOLEAN, isDisabled : BOOLEAN,
        writeEnabled : BOOLEAN, sendBuf : Seq(Packet), file : BOOLEAN,
        left : Nat, fileSize : Nat, transfer_size : Nat, report : Reports,
        picking : BOOLEAN,   \* the picker's main loop runs inside a handler
        \* history
        unopened : BOOLEAN,  \* fopen() failed
        unwritten : Nat,     \* units that fwrite() refused
        unheard : BOOLEAN]   \* the connection was closed before there was a listener

NoSession ==
  [status |-> "none", isSend |-> FALSE, listener |-> FALSE, open |-> FALSE,
   isDisabled |-> FALSE, writeEnabled |-> FALSE, sendBuf |-> <<>>, file |-> FALSE,
   left |-> 0, fileSize |-> 0, transfer_size |-> 0, report |-> "none",
   picking |-> FALSE, unopened |-> FALSE, unwritten |-> 0, unheard |-> FALSE]

TransferTypeOK ==
  /\ wall \in SUBSET Peers
  /\ server \in {"none", "request", "TCP_REQUEST", "TCP_ACCEPT", "done"}
  /\ conn \in {"none", "pending", "backlog", "up", "failed"}
  /\ net \in [Peers -> Seq(Packet)] /\ \A u \in Peers : Len(net[u]) <= Room
  /\ end \in [Peers -> FileEnd]
  /\ broken \in BOOLEAN /\ instant \in BOOLEAN

TransferInit ==
  /\ wall \in SUBSET Peers /\ server = "none" /\ conn = "none"
  /\ net = [u \in Peers |-> <<>>] /\ end = [u \in Peers |-> NoSession]
  /\ broken = FALSE /\ instant = FALSE

\* sendTCPRequest asks for a reverse connection when only the receiver is
\* behind a firewall.
Connector == IF Sender \notin wall /\ Receiver \in wall THEN Receiver ELSE Sender
Acceptor == Other(Connector)

-----------------------------------------------------------------------------
(***************************************************************************)
(* FileSession and SendFileDlg, as what they make of their end.            *)
(***************************************************************************)

Queue(e, p) == [e EXCEPT !.sendBuf = Append(@, p)]

\* TCPSession::destroy: session, listener, socket and what is still in the
\* send buffer are gone.
Destroy(e) ==
  [NoSession EXCEPT !.isSend = e.isSend, !.left = e.left, !.fileSize = e.fileSize,
                    !.transfer_size = e.transfer_size, !.report = e.report,
                    !.unopened = e.unopened, !.unwritten = e.unwritten]

\* Seeded bug: whatever was not stopped is a success.
OnFileCompleteAlways(e) == [e EXCEPT !.report = IF @ = "stopped" THEN @ ELSE "success"]

\* CSendFileDlg::onFileComplete.
OnFileComplete(e) ==
  [e EXCEPT !.report = IF @ = "stopped" THEN @
                       ELSE IF e.transfer_size = e.fileSize THEN "success" ELSE "error"]

\* FileSession::onClose.
FileOnClose(e) == Destroy(OnFileComplete([e EXCEPT !.file = FALSE]))

\* Seeded bug: the chunk that ends the file is the last, although it is full.
OnSendAtEnd(e) ==
  LET n == Min({CHUNK, e.left})
      sent == IF n = 0 THEN e
              ELSE [Queue(e, [cmd |-> "DATA", n |-> n])
                      EXCEPT !.left = @ - n, !.transfer_size = @ + n]
  IN IF sent.left = 0 THEN Destroy(OnFileComplete(sent)) ELSE sent

\* FileSession::onSend reads a chunk and sends it; a short one is the last,
\* and the session is destroyed with that chunk in its send buffer.
OnSend(e) ==
  LET n == Min({CHUNK, e.left})
      sent == IF n = 0 THEN e
              ELSE [Queue(e, [cmd |-> "DATA", n |-> n])
                      EXCEPT !.left = @ - n, !.transfer_size = @ + n]
  IN IF ~e.file THEN Destroy(e)
     ELSE IF n < CHUNK THEN Destroy(OnFileComplete(sent))
     ELSE sent

\* onTCPEstablished opens the dialog, which is the listener when its
\* constructor returns: that of the one who sends picks a file first.
OnTCPEstablished(e) ==
  IF e.isSend THEN [e EXCEPT !.picking = TRUE] ELSE [e EXCEPT !.listener = TRUE]

\* What becomes of a picker.  A cancelled one destroys the session of which the
\* handlers that wait for it go on (undefined: a crash, or a session that is
\* gone); that fopen() failed nobody is told; or the file is open, and
\* sendFileInfo or onFileInfo tells the other end.
Picked(e) ==
  LET chosen == [e EXCEPT !.picking = FALSE, !.listener = TRUE] IN
  {Destroy(e), [chosen EXCEPT !.unopened = TRUE]} \cup
  IF e.isSend
  THEN {[Queue(chosen, [cmd |-> "INFO", size |-> n])
           EXCEPT !.file = TRUE, !.fileSize = n, !.left = n] : n \in FileSizes}
  ELSE {[Queue(chosen, [cmd |-> "RECEIVE"]) EXCEPT !.file = TRUE]}

\* Seeded bug: the accepting end takes over the flag as it is in the hello.
OnHelloSame(e, p) ==
  IF e.status # "HELLO_WAIT" THEN e
  ELSE OnTCPEstablished([e EXCEPT !.status = "ESTABLISHED", !.isSend = p.isSend])

\* onHello.
OnHello(e, p) ==
  IF e.status # "HELLO_WAIT" THEN e
  ELSE OnTCPEstablished([e EXCEPT !.status = "ESTABLISHED", !.isSend = ~p.isSend])

\* FileSession::onReceive.  onFileInfo asks where to save the file; data that
\* comes without a file being open is ignored, and data that fwrite() refuses
\* is not counted.
OnReceive(e, p) ==
  CASE p.cmd = "INFO" /\ ~e.file    -> {[e EXCEPT !.fileSize = p.size, !.picking = TRUE]}
    [] p.cmd = "RECEIVE" /\ e.file -> {[e EXCEPT !.writeEnabled = TRUE]}
    [] p.cmd = "DATA" /\ e.file    -> {[e EXCEPT !.transfer_size = @ + p.n],
                                      [e EXCEPT !.unwritten = @ + p.n]}
    [] OTHER                       -> {e}

\* TCPSession::onPacketReceived.
OnPacketReceived(e, p) ==
  IF p.cmd = "HELLO" THEN {OnHello(e, p)}
  ELSE IF e.status = "ESTABLISHED" /\ e.listener THEN OnReceive(e, p)
  ELSE {e}

-----------------------------------------------------------------------------
(***************************************************************************)
(* The request, by way of the server.                                      *)
(***************************************************************************)

\* createTCPSession.
NewSession(isSend) ==
  Queue([NoSession EXCEPT !.status = "NOT_CONN", !.isSend = isSend, !.open = TRUE],
        [cmd |-> "HELLO", isSend |-> isSend])

\* TCPSession::connect calls the socket before it queues the hello; a socket
\* that is connected at once reports so from inside, and the hello of one who
\* sends waits for the picker.
ConnectPeer(u, isSend) ==
  /\ net' = [net EXCEPT ![u] = <<>>, ![Other(u)] = <<>>]
  /\ \/ /\ conn' = "pending" /\ end' = [end EXCEPT ![u] = NewSession(isSend)]
        /\ UNCHANGED instant
     \/ /\ Other(u) \notin wall /\ conn' = "backlog" /\ instant' = TRUE
        /\ end' = [end EXCEPT ![u] =
                     OnTCPEstablished([NewSession(isSend) EXCEPT
                       !.status = "ESTABLISHED", !.sendBuf = IF isSend THEN <<>> ELSE @])]
  /\ UNCHANGED <<wall, broken>>

\* sendTCPRequest, which opens the listening socket of a reverse connection.
SendTCPRequest ==
  /\ server = "none" /\ server' = "TCP_REQUEST"
  /\ UNCHANGED <<wall, conn, net, end, broken, instant>>

\* acceptTCPRequest: the receiver connects, or listens and says so.
AcceptTCPRequest ==
  /\ server = "TCP_REQUEST"
  /\ IF Connector = Receiver
     THEN server' = "done" /\ ConnectPeer(Receiver, FALSE)
     ELSE server' = "TCP_ACCEPT" /\ UNCHANGED <<wall, conn, net, end, broken, instant>>

\* onRecvMessage with MSG_TCP_ACCEPT.
OnTCPAccept ==
  /\ server = "TCP_ACCEPT" /\ server' = "done"
  /\ ConnectPeer(Sender, TRUE)

-----------------------------------------------------------------------------
(***************************************************************************)
(* The connection.                                                         *)
(***************************************************************************)

Reach ==
  /\ conn = "pending" /\ Acceptor \notin wall
  /\ conn' = "backlog"
  /\ UNCHANGED <<wall, server, net, end, broken, instant>>

\* The connection cannot be made, or breaks: what is under way is lost.
Break ==
  /\ conn \in {"pending", "backlog", "up"}
  /\ conn' = "failed" /\ broken' = TRUE
  /\ net' = [u \in Peers |-> <<>>]
  /\ UNCHANGED <<wall, server, end, instant>>

\* onAccept and acceptSession.
Accept ==
  /\ conn = "backlog" /\ conn' = "up"
  /\ end' = [end EXCEPT ![Acceptor] = [NoSession EXCEPT !.status = "HELLO_WAIT", !.open = TRUE]]
  /\ UNCHANGED <<wall, server, net, broken, instant>>

\* TCPSession::onSocketException, when the socket reports a failed connection
\* as an exception: the session stays in the list and is of no more use.
OnSocketException(u) ==
  /\ conn = "failed" /\ end[u].status = "NOT_CONN" /\ ~end[u].isDisabled
  /\ end' = [end EXCEPT ![u].isDisabled = TRUE]
  /\ UNCHANGED <<wall, server, conn, net, broken, instant>>

-----------------------------------------------------------------------------
(***************************************************************************)
(* A TCPSession and its socket.                                            *)
(***************************************************************************)

\* The socket is writable: connected, or, where a failure is not reported as
\* an exception, failed.  (onConnect removes the event before a picker runs.)
Writable(u) ==
  /\ end[u].open /\ ~end[u].isDisabled /\ ~end[u].picking
  /\ \/ end[u].status = "NOT_CONN" \/ end[u].sendBuf # <<>> \/ end[u].writeEnabled
  /\ \/ conn \in {"backlog", "up"} /\ Len(net[Other(u)]) < Room
     \/ conn = "failed"

\* What onSocketWrite does with a session that is connected: as much of the send
\* buffer goes as the socket takes, and when that is empty the listener sends.
WriteOut(u, e) ==
  LET room == IF conn = "failed" \/ ~e.open THEN 0 ELSE Room - Len(net[Other(u)]) IN
  \E k \in 0 .. room :
    LET rest == [e EXCEPT !.sendBuf = SubSeq(@, k + 1, Len(@))] IN
    /\ k <= Len(e.sendBuf)
    /\ (room > 0 /\ e.sendBuf # <<>>) => k > 0
    /\ net' = [net EXCEPT ![Other(u)] =
                 IF conn = "up" /\ ~end[Other(u)].open THEN <<>>
                 ELSE @ \o SubSeq(e.sendBuf, 1, k)]
    /\ end' = [end EXCEPT ![u] = IF rest.sendBuf = <<>> /\ rest.writeEnabled
                                 THEN OnSend(rest) ELSE rest]

\* onSocketWrite: onConnect the first time, which waits for the picker of the
\* one who sends, and then the rest.
OnSocketWrite(u) ==
  /\ Writable(u)
  /\ LET e == IF end[u].status # "NOT_CONN" THEN end[u]
              ELSE OnTCPEstablished([end[u] EXCEPT !.status = "ESTABLISHED"])
     IN IF e.picking THEN end' = [end EXCEPT ![u] = e] /\ UNCHANGED net
        ELSE WriteOut(u, e)
  /\ UNCHANGED <<wall, server, conn, broken, instant>>

\* A user answers the picker, and what waited for it goes on: connect() with its
\* hello, onSocketWrite with what there is to write.
Pick(u) ==
  /\ end[u].picking
  /\ \E e \in Picked(end[u]) :
       IF u = Acceptor \/ ~e.isSend \/ e.status = "none"
       THEN end' = [end EXCEPT ![u] = e] /\ UNCHANGED net
       ELSE IF instant
       THEN end' = [end EXCEPT ![u] = Queue(e, [cmd |-> "HELLO", isSend |-> TRUE])]
            /\ UNCHANGED net
       ELSE WriteOut(u, e)
  /\ UNCHANGED <<wall, server, conn, broken, instant>>

\* onSocketRead of one packet.
OnSocketRead(u) ==
  /\ end[u].open /\ end[u].status # "none" /\ net[u] # <<>>
  /\ net' = [net EXCEPT ![u] = Tail(@)]
  /\ \E e \in OnPacketReceived(end[u], Head(net[u])) : end' = [end EXCEPT ![u] = e]
  /\ UNCHANGED <<wall, server, conn, broken, instant>>

\* Seeded bug: the session is closed and the listener not told.
OnCloseUntold(u) ==
  /\ end[u].open /\ end[u].status \notin {"none", "NOT_CONN"} /\ net[u] = <<>>
  /\ conn = "failed" \/ (conn = "up" /\ ~end[Other(u)].open)
  /\ end' = [end EXCEPT ![u].open = FALSE]
  /\ UNCHANGED <<wall, server, conn, net, broken, instant>>

\* recv() returns 0, and TCPSession::onClose: the socket is closed, and, if
\* there is a listener, closed once more as the session is destroyed, which the
\* assertion of DefaultSocketRegistry::remove forbids (a build without them).
\* The one who sends may be picking a file and have no listener yet: what comes
\* of the picker is then a dialog on a closed socket.
OnClose(u) ==
  /\ end[u].open /\ end[u].status \notin {"none", "NOT_CONN"} /\ net[u] = <<>>
  /\ conn = "failed" \/ (conn = "up" /\ ~end[Other(u)].open)
  /\ end' = [end EXCEPT ![u] = IF @.listener THEN FileOnClose(@)
                               ELSE [@ EXCEPT !.open = FALSE, !.unheard = TRUE]]
  /\ UNCHANGED <<wall, server, conn, net, broken, instant>>

\* The user stops the transfer or closes the dialog; a picker is modal.
Stop(u) ==
  /\ end[u].listener /\ ~end[u].picking
  /\ end' = [end EXCEPT ![u] = FileOnClose([@ EXCEPT !.report = "stopped"])]
  /\ net' = [net EXCEPT ![u] = <<>>]
  /\ UNCHANGED <<wall, server, conn, broken, instant>>

Session(u) == OnSocketException(u) \/ OnSocketWrite(u) \/ OnSocketRead(u) \/ OnClose(u)

TransferNext ==
  \/ SendTCPRequest \/ AcceptTCPRequest \/ OnTCPAccept
  \/ Reach \/ Break \/ Accept
  \/ \E u \in Peers : Session(u) \/ Pick(u) \/ Stop(u)

TransferSpec == TransferInit /\ [][TransferNext]_transferVars

\* The clients' main loops go on, the server delivers, users answer a request
\* and a picker, and a connection is made or fails.
TransferFairSpec ==
  /\ TransferSpec
  /\ WF_transferVars(AcceptTCPRequest \/ OnTCPAccept)
  /\ WF_transferVars(Reach \/ Break) /\ WF_transferVars(Accept)
  /\ \A u \in Peers : WF_transferVars(Session(u)) /\ WF_transferVars(Pick(u))

-----------------------------------------------------------------------------
(***************************************************************************)
(* Properties.                                                             *)
(***************************************************************************)

Units(p) == IF p.cmd = "DATA" THEN p.n ELSE 0
UnitsOf(s) ==
  LET sum[i \in 0 .. Len(s)] == IF i = 0 THEN 0 ELSE sum[i - 1] + Units(s[i])
  IN  sum[Len(s)]

\* Whichever of the two connects, and whichever hello says so, the end that
\* sends is the one of the user who has the file.
RolesAgree ==
  /\ TransferTypeOK
  /\ \A u \in Peers : end[u].status = "ESTABLISHED" => (end[u].isSend <=> u = Sender)

\* A receiver that is shown a success has the whole file, unless the end came
\* before the file's size: then none of nothing is a success.
ReceiverTruth ==
  end[Receiver].report = "success" =>
    \/ end[Receiver].fileSize = 0
    \/ end[Receiver].transfer_size = end[Sender].fileSize

\* Of the file of a sender that is shown a success, all but a short last chunk
\* has arrived or is on its way, if the receiver did not give up and nothing
\* broke: no more than that is lost with the send buffer.  What arrives is
\* written, or was refused by the disk, of which the sender never hears.
OnlyTailLost ==
  (end[Sender].report = "success" /\ ~broken /\ end[Receiver].report # "stopped") =>
    end[Receiver].transfer_size + end[Receiver].unwritten + UnitsOf(net[Receiver])
      = end[Sender].fileSize - (end[Sender].fileSize % CHUNK)

\* Whatever the other user does and wherever the connection breaks, a session
\* that picks a file or shows a dialog comes to an end, or there is a reason why
\* none of the two will ever hear: one of them could not open the file, of which
\* nobody is told; the connection was closed while a picker kept the listener
\* from being set; or connect() succeeded at once, and the file was offered
\* before the hello, which the other end ignores.
Ends ==
  \A u \in Peers :
    (end[u].listener \/ end[u].picking) ~>
      \/ ~end[u].listener /\ ~end[u].picking
      \/ end[u].unheard \/ instant \/ \E v \in Peers : end[v].unopened
=============================================================================
