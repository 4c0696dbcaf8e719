----------------------------- MODULE EventCore -----------------------------
(***************************************************************************)
(* The event core of linqd (linqd/src/linqd, WorkerThread in utils).  The  *)
(* main thread turns what the c2s front end says into events; each event   *)
(* waits in the BlockingQueue of an EventThread, which hands it to the     *)
(* modules.  A ClientSession is kept alive by a reference count: one       *)
(* reference for the session hash, passed on to the EV_S_END event, and    *)
(* one for every other event of the session.                               *)
(*                                                                         *)
(* refCount is a plain int.  SessionHash::get increments it under the hash *)
(* mutex, EventItem::run decrements it under no lock: each of the two is a *)
(* load and a later store.  A store that overwrites another's puts the     *)
(* session into torn; the behaviours of the model end where a deleted      *)
(* session is still referred to, since nobody can say what follows.  What  *)
(* the modules do with an event is external: here they send up to MaxSends *)
(* packets.                                                                *)
(***************************************************************************)
EXTENDS Integers, FiniteSets, SequencesExt

CONSTANTS
  Names,        \* user names
  NUM_THREADS,  \* event threads, 10 in the code
  MaxSessions,  \* bound: ClientSession objects ever created
  MaxSends,     \* bound: packets from clients and from modules
  MaxRestarts   \* bound: startModule and stopModule commands

ASSUME EventCoreAssumption ==
  /\ NUM_THREADS \in Nat \ {0} /\ MaxSessions \in Nat
  /\ MaxSends \in Nat /\ MaxRestarts \in Nat

Threads == 1 .. NUM_THREADS
Main == 0
Procs == {Main} \cup Threads
Sessions == 1 .. MaxSessions
NULL == 0            \* no session

VARIABLES
  sess,      \* the ClientSession objects created so far
  hash,      \* SessionHash, the latest session first
  mutex,     \* who holds SessionHash's mutex, or -1
  queue,     \* BlockingQueue of each thread
  state,     \* "running", "exited" (run() has returned) or "gone" (NULL)
  pc,        \* where each thread is
  item,      \* the event each event thread is working on
  out,       \* the event each thread is about to post
  reg,       \* refCount as each thread last loaded it
  victim,    \* the thread destroyThreads is waiting for, or 0
  crashed,   \* a post through a NULL eventThreads[i]
  \* history
  life,      \* what the modules were told: "new", "open" or "closed"
  lost,      \* events of each session that a deleted queue took along
  torn,      \* sessions of whose refCount a change was overwritten
  sends, restarts

refVars == <<sess, torn>>
hashVars == <<refVars, hash, mutex>>
threadVars == <<queue, state, victim, crashed>>
history == <<life, lost, sends, restarts>>
coreVars == <<hashVars, threadVars, pc, item, out, reg, history>>

Event == {"EV_SESSION", "EV_S_OUT", "EV_S_IN", "EV_S_END", "Exit"}
\* byMain tells the events the main thread posts for c2s.
Item == [ev : Event, s : Sessions \cup {NULL}, byMain : BOOLEAN]
NoItem == [ev |-> "Exit", s |-> NULL, byMain |-> FALSE]

CoreTypeOK ==
  /\ \E n \in 0 .. MaxSessions :
       sess \in [1 .. n -> [name : Names, refs : Int, queue : Threads, freed : BOOLEAN]]
  /\ hash \in Seq(DOMAIN sess)
  /\ mutex \in Procs \cup {-1}
  /\ queue \in [Threads -> Seq(Item)]
  /\ state \in [Threads -> {"running", "exited", "gone"}]
  /\ pc \in [Procs -> {"ready", "handling", "adding", "posting", "releasing"}]
  /\ item \in [Threads -> Item] /\ out \in [Procs -> Item]
  /\ reg \in [Procs -> Int]
  /\ victim \in 0 .. NUM_THREADS
  /\ crashed \in BOOLEAN
  /\ life \in [Sessions -> {"new", "open", "closed"}]
  /\ lost \in [Sessions -> Nat] /\ torn \subseteq Sessions
  /\ sends \in 0 .. MaxSends /\ restarts \in 0 .. MaxRestarts

CoreInit ==
  /\ sess = <<>> /\ hash = <<>> /\ mutex = -1
  /\ queue = [t \in Threads |-> <<>>]
  /\ state = [t \in Threads |-> "running"]
  /\ pc = [p \in Procs |-> "ready"]
  /\ item = [t \in Threads |-> NoItem] /\ out = [p \in Procs |-> NoItem]
  /\ reg = [p \in Procs |-> 0]
  /\ victim = 0 /\ crashed = FALSE
  /\ life = [s \in Sessions |-> "new"] /\ lost = [s \in Sessions |-> 0]
  /\ torn = {}
  /\ sends = 0 /\ restarts = 0

\* SessionHash::get(bucket, name): the first session of that name, or NULL.
Find(name) ==
  LET i == SelectInSeq(hash, LAMBDA s : sess[s].name = name)
  IN IF i = 0 THEN NULL ELSE hash[i]

\* Seeded bug: the reference is not counted.
Uncounted(n) == n

\* ClientSession::addRef where refCount was n.
Counted(n) == n + 1

\* Thread p stores what it makes of the refCount it has loaded.
Torn(p, s) == IF reg[p] = sess[s].refs THEN torn ELSE torn \cup {s}

\* Seeded bug: the session is deleted one reference too late.
DroppedLate(r, n) == [r EXCEPT !.refs = n - 1, !.freed = @ \/ n = 0]

\* ClientSession::release of a session whose refCount was n.
Dropped(r, n) == [r EXCEPT !.refs = n - 1, !.freed = @ \/ n = 1]

-----------------------------------------------------------------------------
(***************************************************************************)
(* Looking a session up and posting an event to it: ICQMain's deliver,     *)
(* deliverFrom and deliverLocal on an event thread, and onPacketReceived   *)
(* on the main thread.                                                     *)
(***************************************************************************)

\* Where a thread can begin: the main loop, or a module's event handler.
MaySend(p) ==
  IF p = Main THEN pc[p] = "ready" /\ victim = 0 ELSE pc[p] = "handling"

\* SessionHash::get up to the load of refCount.
Get(p, name, ev) ==
  LET s == Find(name) IN
  /\ MaySend(p) /\ sends < MaxSends /\ mutex = -1
  /\ s # NULL
  /\ mutex' = p
  /\ out' = [out EXCEPT ![p] = [ev |-> ev, s |-> s, byMain |-> p = Main]]
  /\ reg' = [reg EXCEPT ![p] = sess[s].refs]
  /\ pc' = [pc EXCEPT ![p] = "adding"]
  /\ sends' = sends + 1
  /\ UNCHANGED <<refVars, hash, threadVars, item, life, lost, restarts>>

\* The store of addRef; the mutex is released.
AddRef(p) ==
  LET s == out[p].s IN
  /\ pc[p] = "adding"
  /\ sess' = [sess EXCEPT ![s].refs = Counted(reg[p])]
  /\ torn' = Torn(p, s)
  /\ mutex' = -1
  /\ pc' = [pc EXCEPT ![p] = "posting"]
  /\ UNCHANGED <<hash, threadVars, item, out, reg, history>>

\* No session of that name.  deliver: no module takes EV_DELIVER, and the
\* packet is posted as an offline event, EV_S_IN for no session; deliverFrom
\* and deliverLocal post theirs for no session in any case.
DeliverOffline(t, name, ev) ==
  /\ MaySend(t) /\ sends < MaxSends /\ mutex = -1
  /\ Find(name) = NULL
  /\ out' = [out EXCEPT ![t] = [ev |-> ev, s |-> NULL, byMain |-> FALSE]]
  /\ pc' = [pc EXCEPT ![t] = "posting"]
  /\ sends' = sends + 1
  /\ UNCHANGED <<hashVars, threadVars, item, reg, life, lost, restarts>>

\* Seeded bug: every event goes to the queue selectQueue returns.
AnyQueue(s) == Threads

\* The session's queue, or any one when there is no session: selectQueue is not
\* locked, and threads may read the same number.
QueueOf(s) == IF s = NULL THEN Threads ELSE {sess[s].queue}

\* postEvent, after which the thread goes on with what it was doing.
Post(p) ==
  /\ pc[p] = "posting"
  /\ \E t \in QueueOf(out[p].s) :
       IF state[t] = "gone"
       THEN crashed' = TRUE /\ UNCHANGED <<queue, pc>>
       ELSE /\ queue' = [queue EXCEPT ![t] = Append(@, out[p])]
            /\ pc' = [pc EXCEPT ![p] = IF p = Main THEN "ready" ELSE "handling"]
            /\ UNCHANGED crashed
  /\ UNCHANGED <<hashVars, state, victim, item, out, reg, history>>

-----------------------------------------------------------------------------
(***************************************************************************)
(* The main thread.                                                        *)
(***************************************************************************)

MainIdle == pc[Main] = "ready" /\ victim = 0

\* Seeded bug: only one reference, which the event will release.
UnreferencedSession(name, t) == [name |-> name, refs |-> 1, queue |-> t, freed |-> FALSE]

\* The constructor, selectQueue and addRef.
NewSession(name, t) == [name |-> name, refs |-> 2, queue |-> t, freed |-> FALSE]

\* addSession; the event follows as a step of its own.
AddSession(name) ==
  LET s == Len(sess) + 1 IN
  /\ MainIdle /\ s \in Sessions /\ mutex = -1
  /\ \E t \in Threads : sess' = Append(sess, NewSession(name, t))
  /\ hash' = <<s>> \o hash
  /\ out' = [out EXCEPT ![Main] = [ev |-> "EV_SESSION", s |-> s, byMain |-> TRUE]]
  /\ pc' = [pc EXCEPT ![Main] = "posting"]
  /\ UNCHANGED <<torn, mutex, threadVars, item, reg, history>>

\* removeSession: the reference of the hash passes to the event.
RemoveSession(name) ==
  LET s == Find(name) IN
  /\ MainIdle /\ mutex = -1 /\ s # NULL
  /\ hash' = RemoveFirst(hash, s)
  /\ out' = [out EXCEPT ![Main] = [ev |-> "EV_S_END", s |-> s, byMain |-> TRUE]]
  /\ pc' = [pc EXCEPT ![Main] = "posting"]
  /\ UNCHANGED <<refVars, mutex, threadVars, item, reg, history>>

ExitItem == [ev |-> "Exit", s |-> NULL, byMain |-> TRUE]

\* Seeded bug: no thread is told to exit.
ExitSilent(q, t) == q

\* WorkerThread::exit, called by the destructor of thread t.
Exit(q, t) == [q EXCEPT ![t] = Append(@, ExitItem)]

\* startModule and stopModule, typed into mod_admin, begin destroyThreads.
BeginRestart ==
  /\ MainIdle /\ restarts < MaxRestarts
  /\ restarts' = restarts + 1
  /\ victim' = 1
  /\ queue' = Exit(queue, 1)
  /\ UNCHANGED <<hashVars, state, crashed, pc, item, out, reg, life, lost, sends>>

\* The loop of destroyThreads has threads left.
More(t) == t < NUM_THREADS

\* The exited thread is deleted with what its queue still holds and its slot
\* is NULL; the next one is told to exit, or all of them are started again.
EndThread ==
  LET emptied == [queue EXCEPT ![victim] = <<>>] IN
  /\ victim # 0 /\ state[victim] = "exited"
  /\ lost' = [s \in Sessions |-> lost[s] +
       Cardinality({i \in DOMAIN queue[victim] : queue[victim][i].s = s})]
  /\ IF More(victim)
     THEN /\ victim' = victim + 1
          /\ state' = [state EXCEPT ![victim] = "gone"]
          /\ queue' = Exit(emptied, victim + 1)
     ELSE /\ victim' = 0
          /\ state' = [t \in Threads |-> "running"]
          /\ queue' = emptied
  /\ UNCHANGED <<hashVars, crashed, pc, item, out, reg, life, sends, restarts>>

-----------------------------------------------------------------------------
(***************************************************************************)
(* An event thread.                                                        *)
(***************************************************************************)

Told(i) ==
  IF i.s = NULL THEN life
  ELSE [life EXCEPT ![i.s] = IF i.ev = "EV_SESSION" THEN "open"
                             ELSE IF i.ev = "EV_S_END" THEN "closed" ELSE @]

\* BlockingQueue::get; ExitItem ends the loop, an EventItem is dispatched.
Take(t) ==
  /\ state[t] = "running" /\ pc[t] = "ready" /\ queue[t] # <<>>
  /\ queue' = [queue EXCEPT ![t] = Tail(@)]
  /\ IF Head(queue[t]).ev = "Exit"
     THEN state' = [state EXCEPT ![t] = "exited"] /\ UNCHANGED <<pc, item, life>>
     ELSE /\ item' = [item EXCEPT ![t] = Head(queue[t])]
          /\ pc' = [pc EXCEPT ![t] = "handling"]
          /\ life' = Told(Head(queue[t]))
          /\ UNCHANGED state
  /\ UNCHANGED <<hashVars, victim, crashed, out, reg, lost, sends, restarts>>

\* The modules are done: release() loads refCount ...
Finish(t) ==
  LET s == item[t].s IN
  /\ pc[t] = "handling"
  /\ IF s = NULL
     THEN pc' = [pc EXCEPT ![t] = "ready"] /\ UNCHANGED reg
     ELSE /\ reg' = [reg EXCEPT ![t] = sess[s].refs]
          /\ pc' = [pc EXCEPT ![t] = "releasing"]
  /\ UNCHANGED <<hashVars, threadVars, item, out, history>>

\* ... and stores it decremented; the last reference deletes the session.
Release(t) ==
  LET s == item[t].s IN
  /\ pc[t] = "releasing"
  /\ sess' = [sess EXCEPT ![s] = Dropped(@, reg[t])]
  /\ torn' = Torn(t, s)
  /\ pc' = [pc EXCEPT ![t] = "ready"]
  /\ UNCHANGED <<hash, mutex, threadVars, item, out, reg, history>>

-----------------------------------------------------------------------------
\* The events of session s that wait, are handled or are about to be posted,
\* each with a reference of its own.
Waiting(s) == UNION {{<<t, i>> : i \in {j \in DOMAIN queue[t] : queue[t][j].s = s}} :
                       t \in Threads}
Handling(s) == {t \in Threads : pc[t] # "ready" /\ item[t].s = s}
Posting(s) == {p \in Procs : pc[p] = "posting" /\ out[p].s = s}

\* Session s was deleted, and somebody still refers to it.
Dangling(s) ==
  /\ sess[s].freed
  /\ \/ Contains(hash, s)
     \/ Waiting(s) # {} \/ Handling(s) # {} \/ Posting(s) # {}
     \/ \E p \in Procs : pc[p] = "adding" /\ out[p].s = s

Alive == ~crashed /\ \A s \in DOMAIN sess : ~Dangling(s)

ThreadStep(t) ==
  \/ Take(t) \/ Finish(t) \/ Release(t) \/ AddRef(t) \/ Post(t)

CoreNext ==
  /\ Alive
  /\ \/ \E name \in Names :
          \/ AddSession(name) \/ RemoveSession(name)
          \/ Get(Main, name, "EV_S_OUT")
          \/ \E t \in Threads :
               \E ev \in {"EV_S_IN", "EV_S_OUT"} :
                 Get(t, name, ev) \/ DeliverOffline(t, name, ev)
     \/ AddRef(Main) \/ Post(Main)
     \/ BeginRestart \/ EndThread
     \/ \E t \in Threads : ThreadStep(t)

CoreSpec == CoreInit /\ [][CoreNext]_coreVars

\* Threads are scheduled, and no handler runs for ever.
CoreFairSpec ==
  /\ CoreSpec
  /\ WF_coreVars(Alive /\ (AddRef(Main) \/ Post(Main) \/ EndThread))
  /\ \A t \in Threads : WF_coreVars(Alive /\ ThreadStep(t))

-----------------------------------------------------------------------------
(***************************************************************************)
(* Properties.                                                             *)
(***************************************************************************)

\* refCount is exact unless one change of it overwrote another: one for the hash,
\* one for each event, and one for each event that was lost with a deleted queue
\* and can never be released.
RefsExact ==
  CoreTypeOK /\ \A s \in DOMAIN sess \ torn :
    sess[s].refs = Cardinality({i \in DOMAIN hash : hash[i] = s})
      + Cardinality(Waiting(s)) + Cardinality(Handling(s))
      + Cardinality(Posting(s)) + lost[s]

\* No thread and no queue refers to a session that was deleted, and none is
\* found in the hash, unless one change of its refCount overwrote another.
NoUseAfterFree == \A s \in DOMAIN sess \ torn : ~Dangling(s)

\* The modules never see two events of one session at the same time, on
\* whatever threads they were posted: this is what spares them from locking
\* their per-session data.  And a packet from a client reaches them after its
\* session was announced and before the session's end, although it passes
\* through another thread.
SessionSerial ==
  /\ \A s \in DOMAIN sess : Cardinality(Handling(s)) <= 1
  /\ \A t \in Threads :
       (pc[t] # "ready" /\ item[t].ev = "EV_S_OUT" /\ item[t].byMain)
         => life[item[t].s] = "open"

\* Once c2s removed a session it is deleted, unless a restart of the threads
\* lost one of its events, or a change of a refCount was overwritten.
SessionsFreed ==
  \A s \in Sessions :
    (s \in DOMAIN sess /\ ~Contains(hash, s))
      ~> ((s \in DOMAIN sess /\ sess[s].freed) \/ lost[s] > 0 \/ crashed \/ torn # {})

\* destroyThreads gets through: no thread waits for one that is gone.
RestartEnds == (victim # 0) ~> (victim = 0 \/ crashed \/ torn # {})

\* "Increase reference count, so that we should not be delete after
\* processed": addSession of the sessions in the hash.
NotDeletedInHash == \A s \in DOMAIN sess : Contains(hash, s) => ~sess[s].freed
=============================================================================
