-------------------------------- MODULE Desk --------------------------------
(***************************************************************************)
(* The windows of the GTK client that ask the server something and wait    *)
(* for its reply: the search dialog with its pages, the dialogs of system  *)
(* messages, which add contacts, and the dialogs with the details of a     *)
(* user.  The client is on line and its main window exists.                *)
(*                                                                         *)
(* A callback of a button or of the UDPSession is one step.  A request is  *)
(* handled by the server once or not at all (module UpLink); replies and   *)
(* requests overtake each other, and nothing but a log line tells that one *)
(* was given up.  Own details are versions: each change is a new one.      *)
(*                                                                         *)
(* Left out: the pages for groups and remote friends, whose operations are *)
(* commented out in the code, and messages that are sent and not answered. *)
(***************************************************************************)
EXTENDS Integers, SequencesExt

CONSTANTS
  Contacts,     \* names of other users
  Me,           \* myInfo.name
  MaxAsked,     \* bound: requests that a button causes
  MaxMessages   \* bound: system messages that arrive

ASSUME DeskAssumption ==
  Me \notin Contacts /\ MaxAsked \in Nat /\ MaxMessages \in Nat

VARIABLES
  search,    \* the SearchDlg, or NoDlg
  sys,       \* the SysMsgDlg windows of windowList
  infos,     \* the UserInfoDlg windows of windowList
  querying,  \* ContactInfoQueryingList
  local,     \* own details in user.db
  server,    \* own details in the server's database
  up,        \* requests on their way to the server
  down,      \* replies on their way to the client
  asked,     \* requests so far, by button or not; they are numbered
  clicks, messages,
  \* history
  lost,      \* requests of a window that get no reply
  taken,     \* requests of a window whose reply went to another one
  crossed    \* an update of the own details was lost, or met another request

bounds == <<clicks, messages>>
history == <<lost, taken, crossed>>
details == <<local, server>>
vars == <<search, sys, infos, querying, details, up, down, asked, bounds, history>>

Names == Contacts \cup {Me}
Nobody == ""
Auths == {"AUTH_ACCEPTED", "AUTH_REQUEST", "AUTH_REJECTED"}

\* How a custom search can be filled in: by an e-mail address alone, or not.
Fields == {"name or nick", "email"}

\* A new SearchDlg.  total counts the pages of results, cur is the one shown,
\* which has no value yet; previous and next tell which buttons are sensitive
\* ("all pages" is as "next page"); req is the search the dialog waits for, add
\* the request to add the contact "label", 0 where it waits for none.
NewDlg(cur) ==
  [page |-> "CHOOSE", radio |-> "none", total |-> 0, cur |-> cur, previous |-> TRUE,
   next |-> TRUE, req |-> 0, label |-> Nobody, add |-> 0]
NoDlg == [page |-> "none", req |-> 0, add |-> 0]
Open == search.page # "none"

\* The windows, when n requests have been numbered.
SearchDlgs(n) ==
  [page : {"CHOOSE", "CUSTOM", "LIST", "ADD"}, radio : {"none", "RANDOM", "CUSTOM"},
   total : Nat, cur : Int, previous : BOOLEAN, next : BOOLEAN, req : 0 .. n,
   label : Contacts \cup {Nobody}, add : 0 .. n]
SysDlgs(n) == [from : Contacts, req : 0 .. n, button : {"none", "once", "kept"}]
InfoDlgs(n) == [name : Names, req : 0 .. n]

TypeOK ==
  /\ search \in {NoDlg} \cup SearchDlgs(asked)
  /\ sys \in Seq(SysDlgs(asked)) /\ infos \in Seq(InfoDlgs(asked))
  /\ querying \subseteq Contacts
  /\ local \in 0 .. asked /\ server \in 0 .. asked
  /\ \A r \in up \cup down :
       /\ r.id \in 1 .. asked
       /\ r.cmd \in {"ADD_CONTACT", "GET_CONTACT_INFO"} => r.arg \in Contacts
  /\ \A r \in down : r.cmd = "GET_USER_INFO" => r.what \in 0 .. asked
  /\ asked \in Nat /\ clicks \in 0 .. MaxAsked /\ messages \in 0 .. MaxMessages
  /\ lost \subseteq 1 .. asked /\ taken \subseteq 1 .. asked /\ crossed \in BOOLEAN

Init ==
  /\ search = NoDlg /\ sys = <<>> /\ infos = <<>> /\ querying = {}
  /\ local = 0 /\ server = 0 /\ up = {} /\ down = {} /\ asked = 0
  /\ clicks = 0 /\ messages = 0 /\ lost = {} /\ taken = {} /\ crossed = FALSE

-----------------------------------------------------------------------------
(***************************************************************************)
(* The search dialog.                                                      *)
(***************************************************************************)

\* Seeded bug: the page shown last is not forgotten.
CleanKeepingPage(d, r) ==
  [d EXCEPT !.page = "LIST", !.total = 0, !.previous = FALSE, !.next = FALSE, !.req = r]

\* clean_search_user_result, before search r is sent.
Clean(d, r) ==
  [d EXCEPT !.page = "LIST", !.total = 0, !.cur = -2, !.previous = FALSE,
            !.next = FALSE, !.req = r]

\* Seeded bug: one can always go back.
RefreshBackwards(d, p) ==
  IF p = d.cur THEN d ELSE [d EXCEPT !.cur = p, !.previous = TRUE, !.next = TRUE, !.req = 0]

\* refresh_search_user_result: page p is shown, -1 for all of them.
Refresh(d, p) ==
  IF p = d.cur THEN d
  ELSE [d EXCEPT !.cur = p, !.previous = p # 0, !.next = TRUE, !.req = 0]

\* on_user_list_previous_button_clicked
PreviousPage(d) == Refresh(d, IF d.cur = -1 THEN 0 ELSE d.cur - 1)

\* on_user_list_next_button_clicked searches on where there is no next page.
SearchesOn(d) == d.cur = -1 \/ d.cur = d.total - 1
NextPage(d, r) ==
  IF SearchesOn(d) THEN [d EXCEPT !.previous = FALSE, !.next = FALSE, !.req = r]
                   ELSE Refresh(d, d.cur + 1)

\* onSearchResult: the last page is shown, whichever search it answers.
SearchResult(d) == Refresh([d EXCEPT !.total = @ + 1], d.total)

\* on_back_clicked
BackPage(d) ==
  CASE d.page = "ADD" -> "LIST"
    [] d.page = "LIST" /\ d.radio = "CUSTOM" -> "CUSTOM"
    [] OTHER -> "CHOOSE"

\* The dialog says "Searching..." and waits.
Searching == search.page = "LIST" /\ ~search.next

-----------------------------------------------------------------------------
(***************************************************************************)
(* Requests.                                                               *)
(***************************************************************************)

Request(cmd, arg) == [id |-> asked + 1, cmd |-> cmd, arg |-> arg]

\* UDPSession::searchRandom, searchUser, addContact, getContactInfo, getUserInfo,
\* updateUserInfo, when a button is clicked.
Ask(cmd, arg) ==
  /\ clicks < MaxAsked /\ clicks' = clicks + 1 /\ asked' = asked + 1
  /\ up' = up \cup {Request(cmd, arg)}
  /\ UNCHANGED messages

Quiet == UNCHANGED <<up, asked, bounds>>
Own(r) == r.cmd \in {"GET_USER_INFO", "UPDATE_USER_INFO"}
UnderWay == {r.id : r \in up \cup down}

\* What a window waits for; of other requests the history keeps nothing.
Waited(id) ==
  \/ id \in {search.req, search.add}
  \/ \E i \in DOMAIN sys : sys[i].req = id
  \/ \E i \in DOMAIN infos : infos[i].req = id
With(set, r) == IF Waited(r.id) THEN set \cup {r.id} ELSE set

\* A request about the own details while another one is under way.
Crosses(cmd) ==
  \E r \in up \cup down : Own(r) /\ "UPDATE_USER_INFO" \in {cmd, r.cmd}

\* What the server does with a request: the set of its replies.  Session::
\* onSearch composes a statement that is no SQL when there is an e-mail
\* address, but neither a name nor a nick name, and then does not reply.
Reply(r) ==
  CASE r.cmd = "SEARCH" -> IF r.arg = "email" THEN {} ELSE {"result"}
    [] r.cmd = "ADD_CONTACT" -> Auths
    [] r.cmd = "GET_USER_INFO" -> {server}
    [] r.cmd = "UPDATE_USER_INFO" -> {}
    [] OTHER -> {"reply"}

Serve(r) ==
  /\ r \in up /\ up' = up \ {r}
  /\ server' = IF r.cmd = "UPDATE_USER_INFO" THEN r.id ELSE server
  /\ \/ Reply(r) = {} /\ lost' = With(lost, r) /\ UNCHANGED down
     \/ \E what \in Reply(r) :
          /\ down' = down \cup {[id |-> r.id, cmd |-> r.cmd, arg |-> r.arg, what |-> what]}
          /\ UNCHANGED lost
  /\ UNCHANGED <<search, sys, infos, querying, local, asked, bounds, taken, crossed>>

\* A request or a reply is given up: LinqMain::onSendError writes a log line.
Lose(r) ==
  /\ r \in up \cup down
  /\ up' = up \ {r} /\ down' = down \ {r} /\ lost' = With(lost, r)
  /\ crossed' = (crossed \/ r.cmd = "UPDATE_USER_INFO")
  /\ UNCHANGED <<search, sys, infos, querying, details, asked, bounds, taken>>

-----------------------------------------------------------------------------
(***************************************************************************)
(* Buttons.                                                                *)
(***************************************************************************)

windows == <<sys, infos, querying>>
DlgOnly == UNCHANGED <<windows, details, down, history>>

\* MainWin::on_search_button_clicked
OpenSearch ==
  /\ ~Open
  /\ \E cur \in {-2, 0} : search' = NewDlg(cur)
  /\ DlgOnly /\ Quiet

\* on_cancel_clicked
CloseSearch == Open /\ search' = NoDlg /\ DlgOnly /\ Quiet

\* on_next_clicked on the first page
Choose ==
  /\ search.page = "CHOOSE" /\ DlgOnly
  /\ \/ /\ search' = Clean([search EXCEPT !.radio = "RANDOM"], asked + 1)
        /\ Ask("SEARCH_RANDOM", Nobody)
     \/ /\ search' = [search EXCEPT !.radio = "CUSTOM", !.page = "CUSTOM"]
        /\ Quiet

\* on_next_clicked on the page for a search by name, nick or e-mail
SearchUser ==
  /\ search.page = "CUSTOM" /\ DlgOnly
  /\ \E fields \in Fields : Ask("SEARCH", fields)
  /\ search' = Clean(search, asked + 1)

\* on_next_clicked in the list of users, where a user c is selected: nothing
\* can be selected before there is a result.
SelectUser(c) ==
  /\ search.page = "LIST" /\ search.total > 0 /\ DlgOnly
  /\ \/ /\ search' = [search EXCEPT !.page = "ADD", !.label = c, !.add = asked + 1]
        /\ Ask("ADD_CONTACT", c)
     \/ /\ search' = [search EXCEPT !.page = "ADD", !.label = c, !.add = 0]
        /\ Quiet
     \/ /\ search' = [search EXCEPT !.page = "ADD", !.add = 0]
        /\ Quiet

\* on_next_clicked on the last page
ChooseAgain ==
  /\ search.page = "ADD" /\ search' = [search EXCEPT !.page = "CHOOSE"]
  /\ DlgOnly /\ Quiet

Back ==
  /\ search.page \in {"CUSTOM", "LIST", "ADD"}
  /\ search' = [search EXCEPT !.page = BackPage(search)]
  /\ DlgOnly /\ Quiet

Turn ==
  /\ search.page = "LIST" /\ DlgOnly
  /\ \/ search.previous /\ search' = PreviousPage(search) /\ Quiet
     \/ search.next /\ search' = Refresh(search, -1) /\ Quiet
     \/ /\ search.next /\ search' = NextPage(search, asked + 1)
        /\ IF ~SearchesOn(search) THEN Quiet
           ELSE IF search.radio = "RANDOM" THEN Ask("SEARCH_RANDOM", Nobody)
           ELSE \E fields \in Fields : Ask("SEARCH", fields)

\* A system message arrives: MainWin::onRecvMessage, SysMsgDlg::setMsg.  The
\* button "add friend" of MSG_ADDED is not one that a reply removes.
OnRecvMessage(c) ==
  /\ messages < MaxMessages /\ messages' = messages + 1
  /\ \E button \in {"none", "once", "kept"} :
       sys' = Append(sys, [from |-> c, req |-> 0, button |-> button])
  /\ UNCHANGED <<search, infos, querying, details, up, down, asked, clicks, history>>

\* SysMsgDlg::on_addFriend_button_clicked
AddFriend(i) ==
  /\ sys[i].button # "none"
  /\ sys' = [sys EXCEPT ![i].req = asked + 1]
  /\ Ask("ADD_CONTACT", sys[i].from)
  /\ UNCHANGED <<search, infos, querying, details, down, history>>

\* on_close_button_clicked, and the buttons that send and close
CloseSys(i) ==
  /\ sys' = RemoveAt(sys, i)
  /\ UNCHANGED <<search, infos, querying, details, down, history>> /\ Quiet

NewInfo(n) == Append(infos, [name |-> n, req |-> 0])
Shows(n) == {i \in DOMAIN infos : infos[i].name = n}

\* MainWin::getContactInfo of somebody else.  LinqDB::loadContactInfo is given a
\* record without a name and finds nothing; a name once asked for is not asked
\* for again.
GetContactInfo(c) ==
  /\ Shows(c) = {} /\ c \notin querying
  /\ querying' = querying \cup {c}
  /\ Ask("GET_CONTACT_INFO", c)
  /\ UNCHANGED <<search, sys, infos, details, down, history>>

\* MainWin::getContactInfo of oneself, whose details are in user.db.
GetOwnInfo ==
  /\ Shows(Me) = {} /\ infos' = NewInfo(Me)
  /\ UNCHANGED <<search, sys, querying, details, down, history>> /\ Quiet

\* UserInfoDlg::on_refresh_button_clicked
RefreshInfo(i) ==
  LET cmd == IF infos[i].name = Me THEN "GET_USER_INFO" ELSE "GET_CONTACT_INFO"
  IN /\ infos[i].req = 0
     /\ infos' = [infos EXCEPT ![i].req = asked + 1]
     /\ Ask(cmd, infos[i].name)
     /\ crossed' = (crossed \/ Crosses(cmd))
     /\ UNCHANGED <<search, sys, querying, details, down, lost, taken>>

\* Seeded bug: the change is sent and not saved.
SavedNot(v) == local

Saved(v) == v

\* UserInfoDlg::on_change_button_clicked, with details that differ
ChangeInfo(i) ==
  /\ infos[i].name = Me /\ infos' = RemoveAt(infos, i)
  /\ Ask("UPDATE_USER_INFO", Me) /\ local' = Saved(asked + 1)
  /\ crossed' = (crossed \/ Crosses("UPDATE_USER_INFO"))
  /\ UNCHANGED <<search, sys, querying, server, down, lost, taken>>

\* on_close_button_clicked
CloseInfo(i) ==
  /\ infos' = RemoveAt(infos, i)
  /\ UNCHANGED <<search, sys, querying, details, down, history>> /\ Quiet

-----------------------------------------------------------------------------
(***************************************************************************)
(* Replies.                                                                *)
(***************************************************************************)

\* taken when the window that has asked for "req" gets reply r.
TakenBy(req, r) == IF req = r.id THEN taken ELSE With(taken, r)

\* LinqMain::onSearchResult
OnSearchResult(r) ==
  /\ r.cmd \in {"SEARCH", "SEARCH_RANDOM"}
  /\ search' = IF Open THEN SearchResult(search) ELSE search
  /\ UNCHANGED <<windows, details, up, asked, taken>>

\* SearchDlg::onAddContactReply takes the reply or does not.
SearchTakes(c) == search.page \in {"LIST", "ADD"} /\ search.label = c

\* The SysMsgDlg that takes it otherwise: the first one that waits.
SysTakes(c) ==
  LET waits == {i \in DOMAIN sys : sys[i].req # 0 /\ sys[i].from = c}
  IN {i \in waits : \A j \in waits : i <= j}

\* Seeded bug: the dialog waits on.
AnsweredWaiting(d) == [d EXCEPT !.button = IF @ = "once" THEN "none" ELSE @]

\* SysMsgDlg::onAddContactReply
Answered(d) ==
  [d EXCEPT !.req = 0, !.button = IF @ = "once" THEN "none" ELSE @]

\* LinqMain::onAddContactReply.  The search dialog asks for the details of a
\* contact who accepts at once; if no dialog takes the reply, a new one does.
OnAddContactReply(r) ==
  LET c == r.arg
  IN /\ r.cmd = "ADD_CONTACT"
     /\ \/ /\ SearchTakes(c)
           /\ search' = [search EXCEPT !.add = 0] /\ taken' = TakenBy(search.add, r)
           /\ IF r.what = "AUTH_ACCEPTED"
              THEN asked' = asked + 1 /\ up' = up \cup {Request("GET_CONTACT_INFO", c)}
              ELSE UNCHANGED <<asked, up>>
           /\ UNCHANGED sys
        \/ /\ ~SearchTakes(c)
           /\ \E i \in SysTakes(c) :
                sys' = [sys EXCEPT ![i] = Answered(@)] /\ taken' = TakenBy(sys[i].req, r)
           /\ UNCHANGED <<search, asked, up>>
        \/ /\ ~SearchTakes(c) /\ SysTakes(c) = {}
           /\ sys' = Append(sys, [from |-> c, req |-> 0,
                button |-> IF r.what = "AUTH_REJECTED" THEN "once" ELSE "none"])
           /\ taken' = With(taken, r)
           /\ UNCHANGED <<search, asked, up>>
     /\ UNCHANGED <<infos, querying, details>>

\* The first UserInfoDlg of a name gets reply r.
Updated(n, r) ==
  /\ \E i \in Shows(n) :
       /\ \A j \in Shows(n) : i <= j
       /\ infos' = [infos EXCEPT ![i].req = 0] /\ taken' = TakenBy(infos[i].req, r)

\* MainWin::onContactInfoReply: a name that was asked for once gets a new dialog
\* with every reply.
OnContactInfoReply(r) ==
  /\ r.cmd = "GET_CONTACT_INFO"
  /\ \/ /\ r.arg \in querying
        /\ infos' = NewInfo(r.arg) /\ taken' = With(taken, r)
     \/ r.arg \notin querying /\ Updated(r.arg, r)
     \/ r.arg \notin querying /\ Shows(r.arg) = {} /\ UNCHANGED <<infos, taken>>
  /\ UNCHANGED <<search, sys, querying, details, up, asked>>

\* LinqMain::onUserInfoReply, MainWin::onUserInfoReply
OnUserInfoReply(r) ==
  /\ r.cmd = "GET_USER_INFO" /\ local' = r.what
  /\ \/ Updated(Me, r)
     \/ Shows(Me) = {} /\ infos' = NewInfo(Me) /\ taken' = With(taken, r)
  /\ UNCHANGED <<search, sys, querying, server, up, asked>>

Receive(r) ==
  /\ r \in down /\ down' = down \ {r}
  /\ OnSearchResult(r) \/ OnAddContactReply(r) \/ OnContactInfoReply(r) \/ OnUserInfoReply(r)
  /\ UNCHANGED <<bounds, lost, crossed>>

-----------------------------------------------------------------------------
Network == (\E r \in up : Serve(r)) \/ (\E r \in down : Receive(r))

Next ==
  \/ OpenSearch \/ CloseSearch \/ Choose \/ SearchUser \/ ChooseAgain \/ Back \/ Turn
  \/ \E c \in Contacts : SelectUser(c) \/ OnRecvMessage(c) \/ GetContactInfo(c)
  \/ \E i \in DOMAIN sys : AddFriend(i) \/ CloseSys(i)
  \/ GetOwnInfo
  \/ \E i \in DOMAIN infos : RefreshInfo(i) \/ ChangeInfo(i) \/ CloseInfo(i)
  \/ \E r \in up \cup down : Lose(r)
  \/ Network

Spec == Init /\ [][Next]_vars

\* What is under way arrives, unless it is given up.
FairSpec == Spec /\ WF_vars(Network)

-----------------------------------------------------------------------------
(***************************************************************************)
(* Properties.                                                             *)
(***************************************************************************)

\* Each button that can be clicked leads to a page of results that there is:
\* the iterator of refresh_search_user_result does not leave the list, in
\* whatever order results of this search and of earlier ones arrive.
PagesInRange ==
  search.page \in {"LIST", "ADD"} =>
    /\ search.cur \in -2 .. search.total - 1
    /\ search.previous => search.next /\ search.cur # 0
    /\ search.next => search.total > 0 /\ search.cur >= -1

\* Whoever waits has a request under way, or one that nothing answers, or
\* one whose answer another window got: the search dialog, a dialog that adds a
\* contact, a dialog of details whose refresh button is off.
WaitsForReply ==
  LET Pending(req) == req \in UnderWay \cup lost \cup taken
  IN /\ TypeOK
     /\ Searching => search.req \in UnderWay \cup lost
     /\ search.page = "ADD" /\ search.add # 0 => Pending(search.add)
     /\ \A i \in DOMAIN sys : sys[i].req # 0 => Pending(sys[i].req)
     /\ \A i \in DOMAIN infos : infos[i].req # 0 => Pending(infos[i].req)

\* When nothing is under way, the own details in user.db are those of the server,
\* unless a change was lost or met another request about them.
ProfileAgrees ==
  /\ ~crossed /\ (\A r \in up \cup down : ~Own(r)) => local = server
  /\ Cardinality(Shows(Me)) <= 1

\* A search comes to its end, or its request was given up or no statement.
SearchEnds == Searching ~> (~Searching \/ search.req \in lost)
=============================================================================
