# A TLA+ model of LinQ

LinQ is an instant messenger: a client library (`src/liblinq`), a GTK client on
top of it (`src/linq`) and the servers it talks to (`src/linqd`).  This
directory models the parts of it where order, loss, time and threads decide
whether it works, checks them with TLC on small instances and proves the
central results with TLAPS for every value of the constants.

## The system

    client (liblinq)  <-- UDP -->  c2s  <-- TCP -->  linqd  <-- TCP -->  sm  <-- TCP -->  s2s  <--> other sites

| component | state it keeps | operations | hard behaviour | what makes it correct |
|---|---|---|---|---|
| `UDPSession` (liblinq) | `sendSeq`, `sendQueue`, bitmap `seqWindow`, session id | send, resend, acknowledge, filter duplicates, login, logout | lost, duplicated and late datagrams; numbers that wrap; retries racing acknowledgements | no packet is handled twice; an acknowledgement is true; one outcome per packet |
| `c2s`: `C2S`, `Session`, `RealServer` | session hash, `sessionList`, global and per-session send queue, server list, count of users | packets from clients and servers, timers, servers coming and going | objects in two or three lists, deleted on five paths; timers that trust an order | lists agree, stay sorted, hold no dead pointers; everything expires |
| `linqd` core: `ICQMain`, `EventThread`, `SessionHash`, `ClientSession` | sessions by name with reference counts, a queue for each thread, module lists | add and remove session, deliver, post and dispatch events, start and stop modules | ten threads, unlocked counters, restart of the threads under load | exact reference counts, one event of a session at a time, no event after the end |
| `utils`: `WorkerThread`, `BlockingQueue`, `TCPStream`, socket registry | queues, send and receive buffers | add, get, exit; send, receive, reconnect | full buffers, exit with work queued, partial writes | first in, first out; nothing lost silently |
| `sm` | sessions by name, each owned by a linqd connection | add, remove, deliver, search | one name on two servers; a server that disconnects | a packet reaches the server of its addressee or is bounced |
| `s2s` | a connection for each remote site with its handshake state and waiting packets | HELLO, HELLO_REPLY, resolve, deliver | both sides connect at once; the resolver answers late | packets are passed on only from a site whose name was resolved; waiting packets are sent |
| modules: presence, roster, vcard, message, offline, search | notify sets, subscriptions and messages in the database | session and packet events | two users change one relation at once | subscriptions stay symmetric; messages are kept until delivered |
| peer to peer (`TCPSession`, `FileSession`, `MessageSession`) | connection state, file position | connect, accept, transfer | both sides connect; the transfer breaks off | a complete file is complete |
| GTK client on line (`LinqMain`, login dialog, wizard, main window) with the proxies of liblinq | windows, timers, the status shown, handshake state | connect, log in, register, change status, keepalive | a user who changes his mind while an answer is under way; lost packets; a proxy that fails half-way | the status and name shown are those the server has agreed to; timers run while needed; a login ends |
| GTK client, windows that ask (search dialog, system messages, details of a user) | pages of results, the request each window waits for, own details in `user.db` | search, turn pages, add a contact, show, refresh and change details | replies of an earlier search; a reply that finds another window; a change that overtakes a refresh; a request given up | every button leads to a page; whoever waits has something to wait for; own details agree with the server |
| httpd, logd, the resolver process, admin and log modules, database drivers, widgets | - | input and output | - | not modelled |

Components talk over datagrams (client and c2s), over ordered TCP streams that
drop what does not fit their send buffer (between servers), over event queues
(between the main thread of linqd and its event threads) and through the module
interface (`MAPI`, events, `ClientSession::deliver`).  `PROJECT.json` lists the
hazards of the code line by line, with the properties that watch them.

## Modules

`Delivery` is the abstract service: packets 1, 2, ... are submitted, delivered
at most once, and confirmed or abandoned but not both; a confirmation is given
only for a packet that was delivered.  The variable `sound` is where the promise
ends: once the sender has left the limits of the duplicate filter, a packet may
be replayed or confirmed undelivered.

`UpLink` is one session from client to server: `UDPSession::createPacket`,
`sendPacket`, `checkSendQueue` and `onAck` on one side, `C2S::onPacketReceived`,
`Session::onPacketReceived` and `setSeq` on the other, and a network that loses,
duplicates and reorders datagrams.  The window is the set of its bit positions
relative to `recvSeq`.  The stream position `num` of a packet is not on the wire;
it is carried along so that properties can tell two packets with one number
apart.  `1 << d` with `d` equal to the width is undefined in C++: `Shift` gives
both outcomes that processors produce.  What `setSeq` lets through is `accepted`,
and that is what `Delivery` calls delivered here; whether anyone handles it is
`handled`.  `Handle` is the two switches behind `setSeq`: before the login only
LOGIN has a handler, and afterwards a packet that is not for c2s goes to the
`realServer` that `onLogin` chose, if there was one to choose.  What a server's
full buffer drops afterwards is in `Directory`.

`DownLink` is the other direction: `Session::deliver`, the retries of
`C2S::checkSendQueue` and `onAck` on the server, and the bitmap of
`UDPSession::checkSeq` on the client.  The server numbers with a plain `uint16`,
gives packets up silently and frees them when the session ends.

`C2S` is the front end as a whole, one thread: the table of sessions, the list
sorted by expiry, the two views of the packets in flight, the servers, and the
clock.  Each packet handler is an action with all it calls (`OnLogin` includes
the constructor for a new address, the reply, `chooseServer` and `addSession`);
`Destroy` is `~Session`.  `Tick` is a pass of `run` after the time has moved:
`checkSendQueue`, then `checkKeepAlive`.  Times are counted down instead of
compared with the clock.

`EventCore` is linqd's core: the main thread and the event threads, each with a
program counter.  A lookup takes the hash's mutex and a reference in two steps
(load, store), posting is a step of its own, and `destroyThreads` goes through
the threads one by one while the others run.  The queues are those of
`BlockingQueue`; its lock makes `add` and `get` atomic.

`Directory` composes the table of c2s with the `SessionHash` of linqd through
the TCP stream between them, whose `sendPacket` drops what does not fit and whose
callers ignore that.

`Messenger` is what users see of each other: one linqd with the modules search,
vcard, presence, message, roster and offline, and `sm`.  A packet for a user is an
event at the end of the queue of his session; if he has none, it goes to `sm` and
comes back (`smIn`, `smOut`), and is then handled without a session (`loose`), on
any thread.  A handler is one action: everything the modules do with the event,
in `start_order`, and the packets they send.  Only the offline module takes two
steps (`OnSession`, `Sweep`), because it reads the table of messages and deletes
them in two statements, and `deliver` looks a session up in one step and posts in
another, between which the main thread may add or remove the session: `Overtake`
swaps a packet with the session's first or last event where the two were posted the
other way round.  It decides about the order after the fact, so the main thread may
have done other things in between, which is a little more than the code allows.  A session goes on until its queue is drained, so an old
and a new session of one user may be at work on two threads.  `view` is the status
of others that a client shows.

`Stream` is `TCPStream` over linqd's socket registry.  The threads that send and the
poll thread change the event mask of the socket, a plain int, with `|=` and `&=`: a
read and a write, each a step.  The steps of `poll` are those of its loop for
one socket: report, clear `SOCKET_WRITE`, `onSocketConnect`, `send`, shrink the
buffer under the lock, arm again.  Bytes carry the packet they belong to, so that
`Whole` can tell a packet cut or shifted from one that is intact.  The
environment establishes, refuses or ends the connection.

`Transfer` is one file from client to client: the request and its answer through
the server, which side listens (`Connector`), the `TCPSession` of each user with
its hello, `FileSession` and the report of `SendFileDlg`.  A handler of a session is
a function of the session's record (`OnHello`, `OnReceive`, `OnSend`), an action puts
its result in place.  Both dialogs pick their file in a main loop of their own, inside
the handler that opened them, while the connection goes on: `picking`, until `Pick`.  A
picker can be cancelled, the file it names may not open (`unopened`), and `fwrite()`
may refuse data (`unwritten`).

`S2S` is the process that links sites: a `Server` for each link, opened for a
packet of `sm` or accepted from another site, the hash chain that finds the
newest of a name, the send buffer of the questions to the resolver (`queries`, what
does not fit is dropped) and those under way (`asked`), the queue `packetList`
and the send buffer behind it.  A name longer than `MAX_SERVER_LEN` is cut (`Cut`) and
asked for uncut.  The process has one thread, so each handler is one step; the
resolver, which may be lost for good, and the other sites, which connect from any
address (`peer`), are the environment.

`Client` is how the GTK client gets on line: login dialog, registration wizard and
main window, `LinqMain` with its two timers, the life of the `UDPSession`, and the
plain socket or the proxy below it.  `net` is what linqd and the network make of the
packets sent: which are taken, which replies are under way, and whether the
session is logged in.

`Desk` is the same client once it is on line: the windows that ask the server
something and wait for its reply.  `search` is the `SearchDlg` with its pages and
the sensitivity of its buttons, `sys` and `infos` are the dialogs of system messages
and of details in `windowList`, `querying` is `ContactInfoQueryingList`.  A button is
an action, and so is each reply with the search for the window that takes it
(`OnSearchResult`, `OnAddContactReply`, `OnContactInfoReply`, `OnUserInfoReply`).
`Serve` is what `sm` and the vcard module do with a request, `Lose` a request or reply
that is given up.  Requests are numbered, and a window remembers the number of the one
it waits for; the code has no such number, so `taken` can tell when one window gets
the reply to another's request.  The own details, in `user.db` and in the server's
database, are versions.

| module | code |
|---|---|
| `UpLink` | `liblinq/udpsession.cpp`, `linqd/src/c2s/session.cpp` (`setSeq`, `onPacketReceived`), `c2s.cpp` |
| `DownLink` | `linqd/src/c2s/session.cpp` (`deliver`, `onAck`), `c2s.cpp` (`checkSendQueue`), `liblinq/udpsession.cpp` (`checkSeq`, `onPacketReceived`) |
| `C2S` | `linqd/src/c2s/{session,c2s,realserver}.cpp` |
| `EventCore` | `linqd/src/linqd/{icqmain,eventthread,sessionhash,clientsession}`, `utils/workerthread.cpp` |
| `Directory` | `linqd/src/c2s/realserver.cpp`, `linqd/src/linqd/{c2s,sessionhash,icqmain}.cpp`, `utils/tcpstream.cpp` |
| `Stream` | `linqd/src/utils/{tcpstream,socket,poll,select}.cpp` |
| `Transfer` | `liblinq/{icqmain,tcpsession}.cpp`, `liblinq/p2p/filesession.cpp`, `linq/src/SendFileDlg.cpp` |
| `S2S` | `linqd/src/s2s/{server,serverhash,sessionmanager,resolver,listensocket,s2s}.cpp` |
| `Client` | `linq/src/{LinqMain,LoginDlg,RegWizard,MainWin}.cpp`, `liblinq/udpsession.cpp`, `liblinq/icqmain.cpp`, `liblinq/proxy/{socksudpproxy,httpproxy}.cpp` |
| `Desk` | `linq/src/{SearchDlg,SysMsgDlg,UserInfoDlg,MainWin,LinqMain,LinqDB}.cpp`, `linqd/src/sm/session.cpp` (`onSearch`), `mod_vcard/vcard.cpp` (`onGetUserInfo`, `onUpdateUserInfo`) |
| `Lists` | `linqd/src/utils/list.{h,cpp}`: the removal that `C2S` and `S2S` share; `linqd/src/linqd/icqmain.cpp` (`deliver`): where each packet of a handler of `Messenger` goes |
| `Messenger` | `linqd/src/modules/mod_{search,vcard,presence,message,roster,offline}`, `linqd/src/sm/{client,sessionhash,sessionmanager}.cpp`, `linqd/src/linqd/{icqmain,eventthread}.cpp` (`deliver`, `run`) |

The definitions marked "Seeded bug" are wrong variants of the definition that
follows them.  No specification uses them; each shows, put in the place of the
right one, that a property notices the mistake.

## Runs

`tlc -config X.cfg MC_M` with the files below.  The configurations say
`CHECK_DEADLOCK FALSE` where the system may really stop, when nobody sends anything
or when a bound on the number of packets, logins or sends is used up; `s2s`,
`client` and `desk` have always something left to do, and are checked for deadlock.  Each
component has one type invariant, `TypeOK`, which is the first conjunct of one of
the invariants of its run, or, for the links, follows from what is proved.

| run | configuration | question |
|---|---|---|
| `uplink` | `MC_UpLink.cfg` | `AtMostOnce`, `AckedMeansProcessed`; `Refines`: the link implements `Delivery`; the liveness `OutcomeReported` |
| `downlink` | `MC_DownLink.cfg` | `AckedMeansProcessed`, `Refines` |
| `c2s` | `MC_C2S.cfg` | `QueuesAgree`: table, list and the two queues agree, and no session points to a server that is gone; `NothingOverdue`, `AnnouncedExactly`, and the liveness properties `PacketsLeave`, `DeadSessionEnds` |
| `eventcore` | `MC_EventCore.cfg` | `RefsExact`, `NoUseAfterFree`, `SessionSerial`: one event of a session at a time, and client packets only between its first event and its last; and the liveness properties `SessionsFreed`, `RestartEnds` |
| `eventcore_racy` | `MC_EventCore_racy.cfg` | an expected violation, see below |
| `directory` | `MC_Directory.cfg` | `DirectoriesAgree`, `NoMisrouting` |
| `messenger` | `MC_Messenger.cfg` | `WatchedKnows`: the two halves of a relation agree at any time; `NotifiesSubscribers`: a session tells its subscribers and nobody else; `ViewsAgree`: at rest clients show what they should, and `sm` knows who is there; and the action property `NoMessageVanishes`, with one command of any kind |
| `stream` | `MC_Stream.cfg` | `Whole`: packets arrive whole and in order; `NoLostWakeup`: data in a live stream is armed or about to be; the liveness `Drains` |
| `transfer` | `MC_Transfer.cfg` | `RolesAgree`; `ReceiverTruth` and `OnlyTailLost` bound what a dialog's success can hide; the liveness `Ends` |
| `s2s` | `MC_S2S.cfg` | `InOrder`, `OriginChecked`, `AnswerComes` with `HashExact`, and the liveness `QueueMoves` |
| `client` | `MC_Client.cfg` | `OnlineMeansAccepted`: the status and the name shown are those of the session; `TimersRun`, and the liveness `LoginEnds` |
| `desk` | `MC_Desk.cfg` | `PagesInRange`, `WaitsForReply`, `ProfileAgrees`, and the liveness `SearchEnds` |

### Bounds

- `UpLink`: a window of 3 bits over 7 numbers and 5 packets, starting at 4, so
  that numbers wrap, the window slides over a hole with packets of its own behind
  it, and the client outruns the window.  Two attempts with timeouts of two ticks
  let acknowledgements race the timer; `Aged` includes passes that skip ticks; one
  packet is a keepalive, whose failure ends the connection.  `MaxAge` (a datagram does not outlive that many later packets) is the
  assumption every scheme with wrapping numbers needs; in the code it is about
  32,000 packets against a retry time of 18 seconds.  What depends on the
  sizes only is proved for all of them.
- `DownLink`: 3 numbers and 4 packets: the fourth reuses the first one's number,
  after which the client turns it away.
- `C2S`: two addresses, so that one user is logged in twice, one packet for each
  session (`MaxQueue`), and two server connections.  Timeouts of 2 ticks; passes
  that skip ticks are included.  `Watched` are the addresses for which the
  liveness properties are stated: the two are alike, so one is enough.
- `EventCore`: two event threads are enough for an event to be posted from one
  to the other and for one to be gone while the other runs; two sessions of one
  name, one send, one restart.
- `Directory`: two users and two addresses, four logins, three packets in the
  stream.
- `Messenger`: two users, whose tables start in any state that requests can leave
  behind, with a stored message or none, and two logins, so that one user may leave
  and come back while the other is away, or both be there; one command, a chain of
  up to five packets.  `STATUS_AWAY` is to every handler what `STATUS_ONLINE` is, so
  two statuses are enough, one that others see and one they do not.  With `FETCH_LIMIT` 1 two stored messages are beyond the
  limit.  `SmFirst` lets `sm` handle a packet as soon as it is sent: `sm` is one
  process that reads its packets in order, and when its answers arrive is still
  open.  `OneOvertakes` lets a packet overtake the first or last event of a session only
  while nothing has gone astray; the theorems have no such bound.
- `Stream`: packets of 1 and 2 bytes with 2 bytes of length in front, a send buffer
  of 6 that two packets overflow, 3 bytes in the kernel, so that no packet but the
  smallest is taken at once, and the smallest receive buffer the assumption allows.
- `Transfer`: files of 0 to 5 units with chunks of 2: empty, less than a chunk, whole
  chunks and a rest; three packets in the kernel.
- `S2S`: two links; a name of another address, a long one that is cut to it, and one
  of the own address, which an accepted link may claim; two packets, a send buffer of
  two packets; one question in the buffer and one under way, so that a third is
  dropped.  With two links of one name, one asks and the other takes the answer.
- `Client`: two calls of `connect`, so that a second login meets what the first has
  left; two attempts for each packet; every kind of proxy.
- `Desk`: three requests that a button causes, and the requests that follow from
  replies; one contact and one system message, where the other dialogs come from
  replies that no window takes.  Three is what it takes to refresh, change and
  refresh the own details, or to search, search again and add.

Symmetry is used in `directory` and `messenger`, where the model treats users and
addresses alike, and in no run that checks liveness.

### Fairness

- `UpLink!FairSpec`: the listener's timer calls `checkSendQueue` again and again
  (`LinqMain::check_send_queue_cb`) until the library reports the connection lost
  (`onConnect(false)`, when the LOGIN or a keepalive is given up); then the
  client removes the timer, and `OutcomeReported` promises no more than that
  report.  The network is not assumed to deliver anything.
- `C2S!FairSpec`: `run` polls with a timeout and time moves on, so `Tick` happens.
  Nothing is assumed of clients and servers.  It is weak fairness of `Tick` with
  `ENABLED` written out: time changes something exactly when there is a session.
- `EventCore!CoreFairSpec`: every thread that can go on does, and no handler of a
  module runs for ever.
- `StreamFairSpec`: threads go on, timers expire, the other end reads, and a peer
  that is tried again and again answers some time (strong fairness of
  `Establish`, and of polling a socket that is up before its timer is due):
  `reconnect` retries for ever, and no code can do better.
- `TransferFairSpec`: the clients' main loops run, the server delivers, users
  answer a request and a file picker, and a connection is made or fails.
- `S2S!FairSpec`: the poll thread writes to the resolver, which answers every question
  it has, right or none, as long as it is not lost; a pending connection comes to an
  end (60 seconds at the latest, `onSocketTimeout`).  A site that was greeted may be
  silent for ever: there is no timeout for its reply.
- `ClientFairSpec`: the timers run, a connection to a proxy comes to an end, and a
  reply that linqd sends again and again arrives.
- `Desk!FairSpec`: what is under way is handled, unless it is given up: both ends send
  again until then (`UpLink`, `DownLink`).

### Where code and comments disagree

- `eventcore_racy`: `refCount` is a plain int changed by several threads.  One change
  overwrites another, and a session still in the hash is deleted.  `RefsExact` and
  `NoUseAfterFree` leave such a session out (`torn`), and the behaviours of the model
  end where a session is deleted and still referred to.

Other places where the code does what nobody can have meant, which the models
contain, and which the properties are worded around:

- `destroyThreads` (`icqmain.cpp:386`) ends the threads one by one.  A thread not yet
  ended posts an event for a session of one already ended: the assertion in
  `postEvent` (`icqmain.cpp:353`) fails, and without assertions it is a call through
  a null pointer (`EventCore`, `crashed`).
- `setSeq` (`session.cpp:157`) compares with `>` where the window has bits 0 to 31
  only.  A packet exactly 32 ahead is shifted by the full width; where that yields
  0, the packet leaves no mark and its retransmission is let through again
  (`UpLink!Shift`, `outran`).
- `onLogin` takes a user in when no linqd is connected (`session.cpp:390`), and the
  session never gets a server later: every packet is acknowledged and dropped
  (`session.cpp:501`).  `AckedMeansProcessed` ends there (`UpLink!Unrouted`), and the
  client cannot tell.
- "Only deliver to online session?" says `event.h:21` of `PACKET.online`.  `sm` sends
  a packet back without the mark, and `deliverLocal` posts it for no session:
  `onContactInfoReply` (`vcard.cpp:287`) uses the null pointer
  (`Messenger!OnContactInfoReply`).
- `resolve` answers go to the newest `Server` of a name (`resolver.cpp:22`): a link
  that somebody opens with our peer's name takes the answer of our own link, which
  then waits for ever (`S2S`, `robbed`).  So does a link whose question did not fit
  into the send buffer (`resolver.cpp:11` ignores that), was lost with the resolver,
  whose stream is never connected again, or was for a name of more than 128
  characters, which the `Server` keeps cut while it asks for all of it
  (`server.cpp:45-50`): the answer finds nobody, and every further packet makes one
  more `Server` (`unasked`).  The queue of a link that was accepted is emptied by
  nothing (`accepted`).
- A server that connects is authenticated against `serverIP`, which for an accepted
  connection is our own end of it (`getsockname`, `server.cpp:57-59`), where the peer's
  address must be meant ("authentication failed", `server.cpp:119`).  So a server is
  believed if and only if its name resolves to our own address, wherever it comes
  from, and a real peer is refused.  `OriginChecked` states just that for accepted
  links: it says nothing of where they come from.  A link we opened leads where its
  name says.
- The last chunk of a file, when it is short, is queued and the session destroyed
  with it (`filesession.cpp:61`): the sender reports a success, the receiver an
  error (`OnlyTailLost`).  A receiver cut off before it knows the size reports a
  success of nothing (`ReceiverTruth`).  Data that `fwrite()` refuses is left out of
  the receiver's count only (`filesession.cpp:155`), and the sender reports a success.
- The dialogs of a transfer can wait for ever (`Ends`): that `fopen()` failed is told to
  nobody (`SendFileDlg.cpp:22`, `filesession.cpp:132`); a connection that is closed while
  the sender's file picker is open finds no listener (`tcpsession.cpp:208`), and the
  dialog that comes of the picker has a closed socket; and an offer made before the hello
  is ignored.  Cancelling a picker destroys the session of which its callers go on:
  undefined, and modelled as a session that is gone.
- `TCPSession::onClose` closes its socket and then destroys the session, which
  closes it again; `NullProxy::close` forgets nothing, and the assertion of
  `DefaultSocketRegistry::remove` fails in a build that has assertions.  `Transfer`
  models a build without them.
- `reconnect` that succeeds at once does not arm `SOCKET_WRITE` for data that was
  waiting (`Stream`, `unarmed`), a stream whose peer closes is not opened again, and a
  sender can undo the arming of `SOCKET_READ` (`Stream!Arm`).
- Each `onConnect(true)` of the client adds a timer and forgets the one that runs
  (`Client`, `timers`).
- A search by e-mail address alone makes a statement that is no SQL (`sm/session.cpp:103`):
  no reply, and the dialog says "Searching..." until it is closed (`Desk!Reply`).
- Nothing is ever removed from `ContactInfoQueryingList` (`MainWin.cpp:578`): every later
  reply about that user opens one more dialog, where the comment says "only show the
  dialog when it is explicit queried by user", and the dialog that asked keeps its
  refresh button insensitive (`taken`).  `loadContactInfo` is given a record without a
  name and finds nothing, so details of a contact always come from the server.
- A reply names the contact, not the request.  The search dialog takes the reply to a
  system message's button if it shows the same contact (`Desk!SearchTakes`).
- A refresh of the own details that was under way when they were changed brings the old
  ones back into `user.db`, and of two changes the first may be handled last
  (`crossed`).

### Where the promises of the modules end

`WatchedKnows` and `NotifiesSubscribers` hold at any time, `ViewsAgree` at moments when
nothing is under way; each speaks of users who logged in once.  They leave out those
users whom the model has put into `astray`, because one of the following happened.
Each is possible in the code and can end in half a relation or a wrong status.

- A packet is posted for a session before its `EV_SESSION` or behind its `EV_S_END`
  (`Overtake`; `icqmain.cpp:90`, `312`).  presence answers a probe that comes behind the
  end: the other user is told ONLINE after OFFLINE, and goes on showing a user who is
  gone.
- An event is handled without a session for a user who has one by then, or comes
  through `sm` for one who is back: it is not ordered with those of the session.
- A contact is deleted while he is being asked for or granted, or asked for or
  granted while his deletion is under way (`Crosses`): the one can overtake the other.
  Only requests about the same half of the relation matter.  One that is easy to miss:
  the answer that grants can be a message (`AUTH_ACCEPT`), which adds the requester's
  row when it is stored for him; TLC, with two commands, showed a deletion that such
  a message overtook, in both orders.
- A user accepts a contact by a message (`AUTH_ACCEPT`) and is invisible or gone
  when the message leaves.

Other facts of the code that the properties are worded around: a user who logs in
invisible tells nobody, and still tells nobody after he has become visible
(`shown`); a message that accepts a contact adds the requester's row only if he
is offline; the offline module deletes the messages it did not read, and gives a
message twice to a user with two sessions (`lost`, `NoMessageVanishes`); the
OFFLINE of an old session can reach a contact after the ONLINE of the next one.

## Proofs

`Desk_proofs` covers `Desk` and `Client`, `Directory_proofs` covers `Directory`, `Stream`
and `Transfer`, `EventCore_proofs` covers `EventCore` and `UpLink`, and `DownLink_proofs`
covers `DownLink` and what every part of `Messenger` rests on (`Base`, the contact
lists, who is notified, what `sm` knows); the rest of `Messenger`, which extends it, is
in `Messenger_proofs`: what clients show and where messages are.  `Stream`, `Transfer`,
`Client`, `Messenger` and `EventCore` therefore name their specifications `StreamSpec`,
`CoreSpec` and so on.
Every other proof module is about the one it is named after.

The theorems hold for all values of the constants that satisfy the assumptions of
the modules: every size of window, number space, buffer and packet, and any number
of attempts, contacts and requests.

`UpLink`.  `TypeCorrect` and `LinkInvariant` are inductive.  `AtMostOnce` is not
inductive by itself: the filter sees numbers only.  `LinkInv` adds what ties
numbers to packets.  `Behind` says that every datagram, acknowledgement and
queue entry is less than `MaxAge` packets old and that its number trails
`sendSeq` by its age modulo `MAX_SEQ`.  `WindowInv` says that `recvSeq` trails in
the same way and that the window's bits are the packets let through, no more
and no less.  From both follows that the distance `setSeq` computes is the true
distance between two packets, or one so large that the packet is rejected,
because `MaxAge + SEQ_WIN_SIZE < MAX_SEQ`.  The lemmas about `Distance`, `Mask`
and the sliding window state this arithmetic once.  `DispatchedAtMostOnce` is a
consequence.  `AcknowledgedWasDispatched` needs more, `HeardInv`: the windows send
nothing before the login succeeded, so that what comes through `setSeq` finds its
handler wherever the session has a server.  `ExactlyOneOutcome` has an
invariant of its own, that no entry of the queue is acknowledged or failed.
`LinkImplementsDelivery` maps each action to one of `Delivery`, or to a stutter.

`DownLink`.  `DownLinkInv` ties numbers to positions as long as no more packets
were sent than there are numbers (`Unwrapped`), and the bits of the client's
bitmap to packets dispatched.  That no packet is dispatched twice needs no such
bound.  `LinkImplementsDelivery` holds with `sound` mapped to `Unwrapped`.

`Stream`.  `DataIsNotForgotten`: `NoLostWakeup` is inductive together with
`ReadFails`, that the poll thread calls `onSocketRead` after reading a mask only for a
connection that is over.  The argument is that masks are written under no common lock,
yet whoever writes one without `SOCKET_WRITE` is the poll thread on its way to
`send`, and it looks at the buffer again when it gets there.  `PacketsStayWhole`
follows from `WholeInv`: the packets that are out, the piece in `recvBuf`, the wire and
what `send` has not taken of the buffer make up the bytes of all packets accepted
(`NoGap`), and `recvBuf` is less than one packet (`Piece`), so the byte that comes
next is the one that piece lacks.  `Phase` is why it survives a reconnect, which
empties neither buffer: nothing has gone onto a socket whose timer still runs.  The
loop of `onSocketRead` is the recursive function of `CutAll`; what it computes is
proved byte by byte, again from the least place at which it would fail.  (The
theorems are in `Directory_proofs`.)

`C2S`.  `QueuesAgree`, `NothingOverdue` and `AnnouncedExactly` rest on one invariant,
`IInv`, inductive for any number of addresses, servers, packets and timeouts.  None
of the three is inductive by itself.  `Views` says that the sorted lists are views of
the table: each session and each packet in flight is in its list once.
`NothingOverdue` needs that they are sorted as well, because the loops of
`checkKeepAlive` and `checkSendQueue` stop at the first item that is not due; and
sortedness needs that what is appended is due last, so all of it is kept together
(`ByExpiry`, `ByDue`).  `Counted` ties the number of users a server has been told to
the cardinality of the set of its sessions, so every step that changes one has to
change the other.

`Desk`.  `NobodyWaitsForNothing` follows from `DeskInv`: a window that waits is
matched with one request of its kind that is under way, two windows never with the
same one, because every request has a number of its own.  `DetailsAgree` adds
`Agreed`: as long as no request for the own details crossed another, a change
travels alone, and without one the client, the server and every reply on its way have
the same version.  `ShownOnce` is what that needs of the windows: at most one shows
the own details.  `ButtonsLeadToPages`: `PagesInRange` with the type of the dialog is
inductive; each operation of the dialog has a lemma on its type and one on its
pages.  The step that needs the invariant is a result that arrives while another page
is shown, or none: the new page is always behind the one shown.

`Client`.  `OnLineForGood` and `ConnectionIsWatched`, that is `OnlineMeansAccepted` and
`TimersRun`, rest on `ClientInv`, for any number of calls of `connect()`.  Neither is
inductive: a step that shows a status is the arrival of a reply, and what is on its way has to be right before.
`NetOk` says that one login or registration is under way at a time, so a reply to it
is the last; `SockOk`, that nothing is sent before a tunnel stands; `NameOk`, that the
account of what is under way is that of the wizard's choice; `TimerOk`, that whatever
waits is watched.  `TimersCounted` bounds the timers, of which a reconnection adds new
ones, by the calls of `connect()`.  The parts take the windows, the queue and the
network as arguments, because handlers change them one after the other: `SendKeeps`
states once that sending keeps all of it, whatever is lost and whatever linqd answers.
(The theorems are in the last section of `Desk_proofs`.)

`Transfer`.  `RolesAreOpposite`, `SuccessIsTheFile` and `LostIsTheTail` rest on
`TransferInv`, for every size of file and chunk and any number of packets that the
kernels hold.  `OnlyTailLost` speaks of a sender whose session is gone; what it says
has to be true of the way there.  `NoneLost` counts it all along: what the receiver
has, what is on its way and what is in the sender's buffer are together what was
read from the file.  A packet of data at an end that does not want it would break
that, so `Ready` says that the receiver listens and has its file open as long as data
can come, which needs that no data comes before the receiver's user accepted
(`Accepted`), the file picker included, and that nothing at all comes before the
sender's session is established and its user has picked a file (`Early`, `Unknown`).
What the disk refused counts as arrived (`Arrived`).  That the sender reads whole chunks until the last gives the remainder
modulo `CHUNK`.  `UnitsOf` is a recursive function; what it is of a queue with a
packet more, or of two queues joined, is again proved by a least place at which it would
fail.  (The theorems are in the last section of `Directory_proofs`.)

`S2S`.  `OriginAlwaysChecked` and `AnswerAlwaysComes` follow from `LinkInv`, which
is inductive for any number of links and names, provided that no name is empty and
cutting a name twice cuts it no more.  `OriginChecked` alone is not inductive: what is
passed to `sm` depends on where the link leads.  `Addressed` ties the two: a link that we
opened and that is past the question leads to the address of its name, and one that
was accepted and believed has a name of our address.  That the chain of the
hash holds exactly the links that have a name, each once, is stated with `Chain` of
`ChainLemmas`, whose lemmas say what adding to and removing from such a chain keep.
`Asks` is the part `AnswerComes` rests on: a link that waits has a question in the buffer
or under way unless it is robbed or unasked, in whatever order questions
are asked, written, dropped and answered.  `PacketsInOrder` is the invariant `Placed` of each link, kept
together with `LinkInv`: a packet of `sm` is in exactly one place, on the link, in
the queue behind it or among those refused; the numbers on the link and in the
queue increase; nothing but the handshake is on the link before it is connected, which
is when the queue of a link of our own is emptied onto it; and what `sm` is yet to
give has higher numbers.

`Directory`.  `LinqdKnowsWhoIsOnline` cannot be inductive as stated, because it
speaks of moments when the stream is empty, and the packets on the stream are where
the two sides differ.  `AgreeInv` compares the table of c2s with `Coming`, the hash
as it will be once the stream is read: a step of c2s changes both, a packet that
linqd reads changes neither.  The two agree in the number of sessions of each user
and, for users that never had two sessions at a time, in the address: `RemoveByName`
takes the first entry of the name, which with two need not be the one that ended.
`PacketsFindTheirUser` follows from `OwnInv`: each entry and each announcement,
wherever it is, names a user who has been at its address, so an address with one
user only ever leads to him.  `Coming` reads the stream by a recursive function
(`After`); that adding a packet at one end reads it last, and taking one from the
other end reads it first, is proved by looking at the least place at which it
would fail.

`EventCore`.  `SessionsAreSerial` follows from `EventInv`, inductive for any number of
threads, sessions, packets and restarts.  `SessionSerial` speaks of what threads
handle now; what they will handle is in the queues.  `Orderly` therefore says of each
queue that it holds only events of the sessions `selectQueue` gave to its thread, that
a client's packet comes after the announcement of its session and before its
end, and that nothing is announced behind an `ExitItem`.  `PostsOwn` and `HashedLives`
say the same of what is about to be posted: whatever the main thread finds in the hash
was announced, or its announcement waits.  `RestartLosesNone` says that
`destroyThreads` deletes no announcement, because it keeps the main thread busy.
`ReferencesExact` and `NothingUsedAfterFree` rest on `RefInv`: the count of a session is
the sum of `Hashed`, `Queued`, `Handled`, `Posted` and `lost`, and each step moves a
reference from one to another or changes the sum and the count alike.
`Guarded` is the part that is easy to forget: between the lookup and the increment
the session stays in the hash, because the mutex is held.  Increments and decrements
interleave as they can on a plain int.  What is said of a session holds while it is not
in `torn`, which one change of its count that overwrites another puts it into: that is
the only way in which the count goes wrong, and `eventcore_racy` shows that it does.

`Messenger`.  Twenty handlers on any number of sessions; the proofs look at each once.
A lemma for every handler says which packets it takes and sends (`Moves`, with the set
of packets sent) and how it changes its session and the tables (`Acts`), and what
follows is argued from these two, without the code of the handler where it does not
matter.  `Base`, inductive by itself, is what every part needs: the types with the
packets that exist at all (`Packets`, whose `Sound` says which users each command is
between), that the hash and the queues agree on when a session begins and ends
(`SessionsInv`; `InLine` adds, for users who are not in `astray`, that `EV_SESSION` is the
first event and `EV_S_END` the last), and that nobody is on his own list (`NoSelf`).

`WatchedAlwaysKnows` proves `WatchedKnows`.  The row of the watcher is written from a packet that the
other user's modules sent, so by itself it is not inductive.  `RosterInv` says that a
grant under way finds the other row written, that a deletion under way finds the
watcher's row gone, and that the two are never under way for the same relation,
which is what `Crosses` keeps apart.  `NotifiesAllSubscribers` proves `NotifiesSubscribers` from `NotifyInv`, which adds that a
session that was never invisible is visible: it agrees with the table from its first
event on, because each handler that writes the row changes the set in the same step,
and nobody else writes it.

`ViewsAlwaysAgree` has two halves.  That `sm` knows who is there speaks of a moment when the
stream to it is empty: `SmInv` adds, for each user, the entries of `sm` and the reports still
on the stream, and finds the number of his sessions between their first event and
their last (`Tally`, a count that runs along the stream).  `EndsLater`
says that a session whose first event waits has its last one still before it,
whatever packets overtook the two.  For the status shown,
`ViewsInv` follows the packets: of two users who logged in once, either the last notice
of the contact in the watcher's queue, or the view if there is none, says what the
contact is (`Target`); or it says OFFLINE, and something is pending that will bring the
right notice (`Pending`): the watcher's first event, which asks, his question, or the
contact's last event.  A notice is put into the queue by the session that sends it, so
notices arrive in the order in which the contact changed; one that comes through `sm` for
a user who is there puts him into `astray`.  `AskedInv` says that whoever asked to add a
contact has logged in, and `NewcomerInv` that a user who never did, and whom a contact
tells of his status, has the contact on his list, so that his first event asks, or an
acceptance on its way that will put him there.  At rest nothing is pending, and what is
shown is the target.

`MessagesStay` proves the action property `NoMessageVanishes` from `OneCopy`, which is
inductive together with `Base`.  `NoMessageVanishes` only speaks of a message that is in
one place, so a message in two could vanish unnoticed; `OneCopy` says that there is none.
`Holds` names the places: the queue of a session, the packets without a session, the two
streams of `sm` and the rows of the table.  Of these at most one holds a message, and holds
it once (`Single`), and none holds a number that no command has been given yet.  Each
handler takes the message out of one place and puts it into one other, or gives it to its
addressee, or loses it.  `NoMessageTwice` states the invariant by itself, with `Copies`.
It says where a message is, not how often it was given: two sessions of a user
may still read the same row, as said above.

`ChainLemmas` holds what `C2S`, `S2S`, `Desk` and `Messenger` share: chains, that is
sequences that list a set with each element once, when an element is put at an end or
removed, what `Without` keeps, which packets `Among` picks, what a queue, a stream or a bag
of packets holds after one is added or taken, and that a function on numbers may be defined by its
first value and a step (`Recursion`), which `Stream` and `Messenger` need.

Only model-checked are liveness (`OutcomeReported`, `PacketsLeave`, `DeadSessionEnds`,
`SessionsFreed`, `RestartEnds`, `Drains`, `Ends`, `QueueMoves`, `LoginEnds`, `SearchEnds`),
which with `ENABLED` and fairness is out of the prover's reach.  All invariants and all
action properties of the passing runs are proved.  Where a proof depends on it, removal from a list is written as `Without` (module
`Lists`), whose result is described by positions, and the lemmas about it need
cardinalities only.  The
modules declare no recursive operators.

## Abstractions

- What a packet carries is left out where no property depends on it.  In
  `EventCore` a module may send packets at any time while it handles an event;
  what the modules do is in `Messenger`.
- The database is the outcome of a login or registration.
- `C2S` reduces the ring of announcements, which `onMessage` fills and `onKeepAlive`
  reads, to whether a keepalive finds a message, and leaves the duplicate filter to
  `UpLink`.  Times of announcements, in whole seconds, are left out.
- In `C2S` a server is told what c2s hands to the stream (`announced`); that a full
  stream drops an announcement is in `Directory`.
- `SendPacket` of `Directory` counts packets where the code counts bytes.
- In `EventCore` connections of the event threads to the database are left out,
  and so are the module lists, which change only while no thread runs.
- In `Messenger` a handler is atomic but for the sweep of the offline module and
  `Overtake` (see above), the streams to and from `sm` lose
  nothing, statements never fail, one session of a user is in the hash at a time
  (two are in `Directory`), how a user answers requests does not change, and
  contact lists are left out; searches and own details are in `Desk`.  The mark
  `online` that `statusNotify` forgets to set takes both values.

## Not modelled

- Lists of contacts: one request, one statement, one reply, with no state but the
  rows.  A lost update of a roster row by two threads (`roster.cpp:50`) is out of
  `Messenger`, where a handler's access to the table is one step.
- Several linqd processes at one `sm`, and `sm` towards other sites: `Messenger` has one
  linqd, `S2S` numbers the packets of `sm` and looks no further.
- Sessions for messages from client to client, and several transfers at a time; the
  SOCKS TCP proxy, which only they use.
- Removal of a socket while the registry dispatches others; the client's registry.
- Widgets, contact list, message windows and history of the GTK client, its lists of
  users, preferences: layout and input, with state that one callback sets and the
  next one reads.  They are most of the lines of the client.
- Packets and text streams, pools, configuration, SQL statements, database drivers,
  httpd, logd, the admin and log modules: sequential helpers, drivers and text input
  and output.
- Vendored code: GNU gettext (`linq/intl`), getopt, `gtkimhtml`, MD5, SHA.
