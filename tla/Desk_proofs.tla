----------------------------- MODULE Desk_proofs -----------------------------
(***************************************************************************)
(* Proofs about the windows of the GTK client, for any number of contacts, *)
(* requests and messages: no button of the search dialog leads off the     *)
(* list of pages, nobody waits for a request that nothing will answer      *)
(* without a reason, and the own details agree with those of the server.   *)
(* The last section is about module Client: a client that shows itself on  *)
(* line is, and is watched.                                                *)
(***************************************************************************)
EXTENDS Desk, Client, ChainLemmas

-----------------------------------------------------------------------------
(***************************************************************************)
(* The operations on the search dialog.                                    *)
(***************************************************************************)

LEMMA CleanType ==
  ASSUME NEW n \in Nat, NEW d \in SearchDlgs(n), NEW r \in 0 .. n
  PROVE  Clean(d, r) \in SearchDlgs(n)
<1>1. 0 \in Nat /\ -2 \in Int
  OBVIOUS
<1> QED
  BY <1>1, Zenon DEF Clean, SearchDlgs

LEMMA RefreshType ==
  ASSUME NEW n \in Nat, NEW d \in SearchDlgs(n), NEW p \in Int
  PROVE  Refresh(d, p) \in SearchDlgs(n)
<1>1. 0 \in 0 .. n
  OBVIOUS
<1>2. ASSUME NEW b \in BOOLEAN
      PROVE  [d EXCEPT !.cur = p, !.previous = b, !.next = TRUE, !.req = 0] \in SearchDlgs(n)
  BY <1>1, Zenon DEF SearchDlgs
<1>3. (p # 0) \in BOOLEAN
  OBVIOUS
<1> QED
  BY <1>2, <1>3, Zenon DEF Refresh

LEMMA PreviousPageType ==
  ASSUME NEW n \in Nat, NEW d \in SearchDlgs(n)
  PROVE  PreviousPage(d) \in SearchDlgs(n)
<1>1. (IF d.cur = -1 THEN 0 ELSE d.cur - 1) \in Int
  BY DEF SearchDlgs
<1> QED
  BY <1>1, RefreshType DEF PreviousPage

LEMMA NextPageType ==
  ASSUME NEW n \in Nat, NEW d \in SearchDlgs(n), NEW r \in 0 .. n
  PROVE  NextPage(d, r) \in SearchDlgs(n)
<1>1. d.cur + 1 \in Int
  BY DEF SearchDlgs
<1>2. [d EXCEPT !.previous = FALSE, !.next = FALSE, !.req = r] \in SearchDlgs(n)
  BY Zenon DEF SearchDlgs
<1> QED
  BY <1>1, <1>2, RefreshType DEF NextPage

LEMMA ResultType ==
  ASSUME NEW n \in Nat, NEW d \in SearchDlgs(n)
  PROVE  SearchResult(d) \in SearchDlgs(n)
<1>1. d.total + 1 \in Nat /\ d.total \in Int
  BY DEF SearchDlgs
<1>2. [d EXCEPT !.total = @ + 1] \in SearchDlgs(n)
  BY <1>1, Zenon DEF SearchDlgs
<1> QED
  BY <1>1, <1>2, RefreshType DEF SearchResult

\* The other changes of a dialog.
LEMMA DialogType ==
  ASSUME NEW n \in Nat, NEW d \in SearchDlgs(n)
  PROVE  /\ \A cur \in Int : NewDlg(cur) \in SearchDlgs(n)
         /\ [d EXCEPT !.radio = "RANDOM"] \in SearchDlgs(n)
         /\ [d EXCEPT !.radio = "CUSTOM", !.page = "CUSTOM"] \in SearchDlgs(n)
         /\ \A c \in Contacts, r \in 0 .. n :
              [d EXCEPT !.page = "ADD", !.label = c, !.add = r] \in SearchDlgs(n)
         /\ \A r \in 0 .. n : [d EXCEPT !.page = "ADD", !.add = r] \in SearchDlgs(n)
         /\ [d EXCEPT !.page = "CHOOSE"] \in SearchDlgs(n)
         /\ [d EXCEPT !.page = BackPage(d)] \in SearchDlgs(n)
         /\ [d EXCEPT !.add = 0] \in SearchDlgs(n)
<1>1. 0 \in 0 .. n /\ 0 \in Nat
  OBVIOUS
<1>2. \A cur \in Int : NewDlg(cur) \in SearchDlgs(n)
  BY <1>1 DEF NewDlg, SearchDlgs
<1>3. BackPage(d) \in {"CHOOSE", "CUSTOM", "LIST"}
  BY DEF BackPage
<1> QED
  BY <1>1, <1>2, <1>3, Zenon DEF SearchDlgs

-----------------------------------------------------------------------------
(***************************************************************************)
(* The pages of a dialog.                                                  *)
(***************************************************************************)

\* PagesInRange, of any dialog.
Pages(d) ==
  d.page \in {"LIST", "ADD"} =>
    /\ d.cur \in -2 .. d.total - 1
    /\ d.previous => d.next /\ d.cur # 0
    /\ d.next => d.total > 0 /\ d.cur >= -1

\* clean_search_user_result leaves no button sensitive.
LEMMA CleanPages ==
  ASSUME NEW n \in Nat, NEW d \in SearchDlgs(n), NEW r \in 0 .. n
  PROVE  Pages(Clean(d, r))
<1>1. /\ Clean(d, r).cur = -2 /\ Clean(d, r).total = 0
      /\ Clean(d, r).previous = FALSE /\ Clean(d, r).next = FALSE
  BY DEF Clean, SearchDlgs
<1> QED
  BY <1>1 DEF Pages

\* Any page there is may be shown, or all of them when there is one.
LEMMA RefreshPages ==
  ASSUME NEW n \in Nat, NEW d \in SearchDlgs(n), Pages(d),
         NEW p \in -1 .. d.total - 1, d.total > 0
  PROVE  Pages(Refresh(d, p))
<1>1. CASE p = d.cur
  BY <1>1 DEF Refresh
<1>2. CASE p # d.cur
  <2> DEFINE e == Refresh(d, p)
  <2>1. /\ e.cur = p /\ e.total = d.total /\ e.page = d.page
        /\ (e.previous => p # 0) /\ e.next
    BY <1>2 DEF Refresh, SearchDlgs
  <2>2. d.total \in Nat
    BY DEF SearchDlgs
  <2> HIDE DEF e
  <2>3. Pages(e)
    BY <2>1, <2>2 DEF Pages
  <2> QED
    BY <2>3 DEF e
<1> QED
  BY <1>1, <1>2

\* A result adds a page and shows it, whatever was shown before.
LEMMA ResultPages ==
  ASSUME NEW n \in Nat, NEW d \in SearchDlgs(n), Pages(d)
  PROVE  Pages(SearchResult(d))
<1> DEFINE f == [d EXCEPT !.total = @ + 1]
           e == SearchResult(d)
<1>1. d.total \in Nat /\ d.cur \in Int
  BY DEF SearchDlgs
<1>2. f.total = d.total + 1 /\ f.cur = d.cur /\ f.page = d.page
  BY DEF SearchDlgs
<1>3. CASE d.page \in {"LIST", "ADD"}
  <2>1. d.total # f.cur
    BY <1>1, <1>2, <1>3 DEF Pages
  <2>2. e = [f EXCEPT !.cur = d.total, !.previous = d.total # 0, !.next = TRUE, !.req = 0]
    BY <2>1 DEF SearchResult, Refresh
  <2>3. /\ e.cur = d.total /\ e.total = d.total + 1
        /\ (e.previous => d.total # 0) /\ e.next
    BY <2>2 DEF SearchDlgs
  <2> HIDE DEF e
  <2>4. Pages(e)
    BY <1>1, <2>3 DEF Pages
  <2> QED
    BY <2>4 DEF e
<1>4. CASE d.page \notin {"LIST", "ADD"}
  <2>1. e.page = f.page
    BY DEF SearchResult, Refresh, SearchDlgs
  <2> QED
    BY <1>2, <1>4, <2>1 DEF Pages
<1> QED
  BY <1>3, <1>4

\* The buttons of the list, when they are sensitive.
LEMMA TurnPages ==
  ASSUME NEW n \in Nat, NEW d \in SearchDlgs(n), NEW r \in 0 .. n, Pages(d), d.page = "LIST"
  PROVE  /\ d.previous => Pages(PreviousPage(d))
         /\ d.next => Pages(Refresh(d, -1))
         /\ d.next => Pages(NextPage(d, r))
<1>1. d.total \in Nat /\ d.cur \in Int /\ d.previous \in BOOLEAN /\ d.next \in BOOLEAN
  BY DEF SearchDlgs
<1>2. ASSUME d.previous
      PROVE  Pages(PreviousPage(d))
  <2>1. d.next /\ d.total > 0 /\ d.cur >= -1 /\ d.cur # 0 /\ d.cur <= d.total - 1
    BY <1>1, <1>2 DEF Pages
  <2>2. (IF d.cur = -1 THEN 0 ELSE d.cur - 1) \in -1 .. d.total - 1
    BY <1>1, <2>1
  <2> QED
    BY <2>1, <2>2, RefreshPages DEF PreviousPage
<1>3. ASSUME d.next
      PROVE  Pages(Refresh(d, -1)) /\ Pages(NextPage(d, r))
  <2>1. d.total > 0 /\ d.cur >= -1 /\ d.cur <= d.total - 1
    BY <1>1, <1>3 DEF Pages
  <2>2. Pages(Refresh(d, -1))
    <3>1. -1 \in -1 .. d.total - 1
      BY <1>1, <2>1
    <3> QED
      BY <1>3, <2>1, <3>1, RefreshPages
  <2>3. CASE SearchesOn(d)
    <3> DEFINE e == [d EXCEPT !.previous = FALSE, !.next = FALSE, !.req = r]
    <3>1. e.cur = d.cur /\ e.total = d.total /\ e.previous = FALSE /\ e.next = FALSE
      BY DEF SearchDlgs
    <3>2. Pages(e)
      BY <1>1, <2>1, <3>1 DEF Pages
    <3> QED
      BY <2>2, <2>3, <3>2 DEF NextPage
  <2>4. CASE ~SearchesOn(d)
    <3>1. d.cur + 1 \in -1 .. d.total - 1
      BY <1>1, <2>1, <2>4 DEF SearchesOn
    <3>2. Pages(Refresh(d, d.cur + 1))
      BY <1>3, <2>1, <3>1, RefreshPages
    <3> QED
      BY <2>2, <2>4, <3>2 DEF NextPage
  <2> QED
    BY <2>3, <2>4
<1> QED
  BY <1>2, <1>3

\* What is neither a page of results nor changes one.
LEMMA OtherPages ==
  ASSUME NEW n \in Nat, NEW d \in SearchDlgs(n), Pages(d)
  PROVE  /\ \A cur \in Int : Pages(NewDlg(cur))
         /\ Pages([d EXCEPT !.radio = "CUSTOM", !.page = "CUSTOM"])
         /\ d.page = "LIST" => \A c \in Contacts, r \in 0 .. n :
              Pages([d EXCEPT !.page = "ADD", !.label = c, !.add = r])
         /\ d.page = "LIST" => \A r \in 0 .. n : Pages([d EXCEPT !.page = "ADD", !.add = r])
         /\ Pages([d EXCEPT !.page = "CHOOSE"])
         /\ Pages([d EXCEPT !.page = BackPage(d)])
         /\ Pages([d EXCEPT !.add = 0])
<1>1. \A cur \in Int : Pages(NewDlg(cur))
  BY DEF NewDlg, Pages
<1>2. /\ Pages([d EXCEPT !.radio = "CUSTOM", !.page = "CUSTOM"])
      /\ Pages([d EXCEPT !.page = "CHOOSE"])
  BY DEF Pages, SearchDlgs
<1>3. ASSUME NEW r \in 0 .. n, d.page = "LIST"
      PROVE  /\ \A c \in Contacts : Pages([d EXCEPT !.page = "ADD", !.label = c, !.add = r])
             /\ Pages([d EXCEPT !.page = "ADD", !.add = r])
  BY <1>3 DEF Pages, SearchDlgs
<1>4. BackPage(d) = "LIST" => d.page = "ADD"
  BY DEF BackPage
<1>5. BackPage(d) # "ADD"
  BY DEF BackPage
<1>6. Pages([d EXCEPT !.page = BackPage(d)])
  <2> DEFINE e == [d EXCEPT !.page = BackPage(d)]
  <2>1. /\ e.page = BackPage(d) /\ e.cur = d.cur /\ e.total = d.total
        /\ e.previous = d.previous /\ e.next = d.next
    BY DEF SearchDlgs
  <2> QED
    BY <1>4, <1>5, <2>1 DEF Pages
<1>7. Pages([d EXCEPT !.add = 0])
  BY DEF Pages, SearchDlgs
<1> QED
  BY <1>1, <1>2, <1>3, <1>6, <1>7

\* Dialogs are typed by the requests numbered so far, and there are ever more.
LEMMA Grow ==
  ASSUME NEW n \in Nat, NEW m \in Nat, n <= m
  PROVE  SearchDlgs(n) \subseteq SearchDlgs(m)
<1>1. 0 .. n \subseteq 0 .. m
  OBVIOUS
<1> QED
  BY <1>1, Zenon DEF SearchDlgs

-----------------------------------------------------------------------------
(***************************************************************************)
(* The steps.                                                              *)
(***************************************************************************)

\* What PagesInRange rests on.
SearchInv ==
  /\ asked \in Nat
  /\ search \in {NoDlg} \cup SearchDlgs(asked)
  /\ Pages(search)

\* A step numbers at most one request, and leaves the dialog alone or makes it
\* one of the dialogs above.
LEMMA DialogKept ==
  ASSUME SearchInv, search' = search, asked' \in {asked, asked + 1}
  PROVE  SearchInv'
<1>1. SearchDlgs(asked) \subseteq SearchDlgs(asked')
  BY Grow DEF SearchInv
<1> QED
  BY <1>1 DEF SearchInv

LEMMA Changed ==
  ASSUME SearchInv, asked' \in {asked, asked + 1},
         search' \in SearchDlgs(asked'), Pages(search')
  PROVE  SearchInv'
BY DEF SearchInv

\* The dialog, when there is one, may wait for a request that is numbered next.
LEMMA Dialog ==
  ASSUME SearchInv, Open
  PROVE  /\ search \in SearchDlgs(asked) /\ search \in SearchDlgs(asked + 1)
         /\ asked \in Nat /\ asked + 1 \in Nat
         /\ 0 \in 0 .. asked /\ asked + 1 \in 0 .. asked + 1
<1>1. search \in SearchDlgs(asked) /\ asked \in Nat
  BY DEF SearchInv, Open, NoDlg
<1>2. SearchDlgs(asked) \subseteq SearchDlgs(asked + 1)
  BY <1>1, Grow
<1> QED
  BY <1>1, <1>2

LEMMA NoDlgPages == Pages(NoDlg)
BY DEF Pages, NoDlg

LEMMA OpenAndClose ==
  ASSUME SearchInv, OpenSearch \/ CloseSearch
  PROVE  SearchInv'
<1>1. CASE OpenSearch
  <2>1. PICK cur \in {-2, 0} : search' = NewDlg(cur)
    BY <1>1 DEF OpenSearch
  <2>2. asked' = asked /\ asked \in Nat
    BY <1>1 DEF OpenSearch, Quiet, SearchInv
  <2>3. cur \in Int
    BY <2>1
  <2>4. NewDlg(cur) \in SearchDlgs(asked)
    <3>1. 0 \in 0 .. asked /\ 0 \in Nat
      BY <2>2
    <3> QED
      BY <2>3, <3>1 DEF NewDlg, SearchDlgs
  <2>5. Pages(NewDlg(cur))
    BY DEF NewDlg, Pages
  <2> QED
    BY <2>1, <2>2, <2>4, <2>5, Changed
<1>2. CASE CloseSearch
  BY <1>2, NoDlgPages DEF CloseSearch, Quiet, SearchInv
<1> QED
  BY <1>1, <1>2

LEMMA ChoosePreserves ==
  ASSUME SearchInv, Choose
  PROVE  SearchInv'
<1>1. Open
  BY DEF Choose, Open
<1>2. CASE search' = Clean([search EXCEPT !.radio = "RANDOM"], asked + 1) /\ asked' = asked + 1
  <2>1. [search EXCEPT !.radio = "RANDOM"] \in SearchDlgs(asked + 1)
    BY <1>1, Dialog, DialogType
  <2> QED
    BY <1>1, <1>2, <2>1, Dialog, CleanType, CleanPages, Changed
<1>3. CASE search' = [search EXCEPT !.radio = "CUSTOM", !.page = "CUSTOM"] /\ asked' = asked
  BY <1>1, <1>3, Dialog, DialogType, OtherPages, Changed DEF SearchInv
<1> QED
  BY <1>2, <1>3 DEF Choose, Ask, Quiet

LEMMA SearchUserPreserves ==
  ASSUME SearchInv, SearchUser
  PROVE  SearchInv'
<1>1. Open /\ search' = Clean(search, asked + 1) /\ asked' = asked + 1
  BY DEF SearchUser, Open, Ask
<1> QED
  BY <1>1, Dialog, CleanType, CleanPages, Changed

LEMMA SelectUserPreserves ==
  ASSUME SearchInv, NEW c \in Contacts, SelectUser(c)
  PROVE  SearchInv'
<1>1. Open /\ search.page = "LIST" /\ Pages(search)
  BY DEF SelectUser, Open, SearchInv
<1>2. CASE /\ search' = [search EXCEPT !.page = "ADD", !.label = c, !.add = asked + 1]
           /\ asked' = asked + 1
  BY <1>1, <1>2, Dialog, DialogType, OtherPages, Changed
<1>3. CASE search' = [search EXCEPT !.page = "ADD", !.label = c, !.add = 0] /\ asked' = asked
  BY <1>1, <1>3, Dialog, DialogType, OtherPages, Changed
<1>4. CASE search' = [search EXCEPT !.page = "ADD", !.add = 0] /\ asked' = asked
  BY <1>1, <1>4, Dialog, DialogType, OtherPages, Changed
<1> QED
  BY <1>2, <1>3, <1>4 DEF SelectUser, Ask, Quiet

LEMMA BackAndForth ==
  ASSUME SearchInv, Back \/ ChooseAgain
  PROVE  SearchInv'
<1>1. Open /\ Pages(search) /\ asked' = asked
  BY DEF Back, ChooseAgain, Open, Quiet, SearchInv
<1>2. CASE search' = [search EXCEPT !.page = BackPage(search)]
  BY <1>1, <1>2, Dialog, DialogType, OtherPages, Changed
<1>3. CASE search' = [search EXCEPT !.page = "CHOOSE"]
  BY <1>1, <1>3, Dialog, DialogType, OtherPages, Changed
<1> QED
  BY <1>2, <1>3 DEF Back, ChooseAgain

LEMMA TurnPreserves ==
  ASSUME SearchInv, Turn
  PROVE  SearchInv'
<1>1. Open /\ search.page = "LIST" /\ Pages(search)
  BY DEF Turn, Open, SearchInv
<1>2. CASE search.previous /\ search' = PreviousPage(search) /\ asked' = asked
  BY <1>1, <1>2, Dialog, PreviousPageType, TurnPages, Changed
<1>3. CASE search.next /\ search' = Refresh(search, -1) /\ asked' = asked
  <2>1. -1 \in Int
    OBVIOUS
  <2> QED
    BY <1>1, <1>3, <2>1, Dialog, RefreshType, TurnPages, Changed
<1>4. CASE search.next /\ search' = NextPage(search, asked + 1) /\ SearchesOn(search)
           /\ asked' = asked + 1
  BY <1>1, <1>4, Dialog, NextPageType, TurnPages, Changed
<1>5. CASE search.next /\ search' = NextPage(search, asked + 1) /\ ~SearchesOn(search)
           /\ asked' = asked
  <2>1. search' = Refresh(search, search.cur + 1)
    BY <1>5 DEF NextPage
  <2>2. search.cur + 1 \in Int
    BY <1>1, Dialog DEF SearchDlgs
  <2>3. search' \in SearchDlgs(asked)
    BY <1>1, <2>1, <2>2, Dialog, RefreshType
  <2>4. Pages(search')
    BY <1>1, <1>5, Dialog, TurnPages
  <2> QED
    BY <1>5, <2>3, <2>4, Changed
<1> QED
  BY <1>2, <1>3, <1>4, <1>5 DEF Turn, Ask, Quiet

LEMMA ReceivePreserves ==
  ASSUME SearchInv, NEW r, Receive(r)
  PROVE  SearchInv'
<1>1. CASE OnSearchResult(r)
  <2>1. asked' = asked
    BY <1>1 DEF OnSearchResult
  <2>2. CASE Open
    <3>1. search' = SearchResult(search) /\ Pages(search)
      BY <1>1, <2>2 DEF OnSearchResult, SearchInv
    <3> QED
      BY <2>1, <2>2, <3>1, Dialog, ResultType, ResultPages, Changed
  <2>3. CASE ~Open
    BY <1>1, <2>1, <2>3, DialogKept DEF OnSearchResult
  <2> QED
    BY <2>2, <2>3
<1>2. CASE OnAddContactReply(r)
  <2>1. asked' \in {asked, asked + 1}
    BY <1>2 DEF OnAddContactReply
  <2>2. CASE SearchTakes(r.arg)
    <3>1. search' = [search EXCEPT !.add = 0]
      BY <1>2, <2>2 DEF OnAddContactReply
    <3>2. Open /\ Pages(search)
      BY <2>2 DEF SearchTakes, Open, SearchInv
    <3>3. search' \in SearchDlgs(asked) /\ search' \in SearchDlgs(asked + 1)
      BY <3>1, <3>2, Dialog, DialogType
    <3>4. Pages(search')
      BY <3>1, <3>2, Dialog, OtherPages
    <3> QED
      BY <2>1, <3>3, <3>4, Changed
  <2>3. CASE ~SearchTakes(r.arg)
    BY <1>2, <2>1, <2>3, DialogKept DEF OnAddContactReply
  <2> QED
    BY <2>2, <2>3
<1>3. CASE OnContactInfoReply(r)
  BY <1>3, DialogKept DEF OnContactInfoReply
<1>4. CASE OnUserInfoReply(r)
  BY <1>4, DialogKept DEF OnUserInfoReply
<1> QED
  BY <1>1, <1>2, <1>3, <1>4 DEF Receive

LEMMA SearchInvPreserved ==
  ASSUME SearchInv, [Next]_vars
  PROVE  SearchInv'
<1>1. CASE OpenSearch \/ CloseSearch
  BY <1>1, OpenAndClose
<1>2. CASE Choose
  BY <1>2, ChoosePreserves
<1>3. CASE SearchUser
  BY <1>3, SearchUserPreserves
<1>4. CASE ChooseAgain \/ Back
  BY <1>4, BackAndForth
<1>5. CASE Turn
  BY <1>5, TurnPreserves
<1>6. ASSUME NEW c \in Contacts, SelectUser(c)
      PROVE  SearchInv'
  BY <1>6, SelectUserPreserves
<1>7. ASSUME NEW c \in Contacts, OnRecvMessage(c) \/ GetContactInfo(c)
      PROVE  SearchInv'
  BY <1>7, DialogKept DEF OnRecvMessage, GetContactInfo, Ask
<1>8. ASSUME NEW i \in DOMAIN sys, AddFriend(i) \/ CloseSys(i)
      PROVE  SearchInv'
  BY <1>8, DialogKept DEF AddFriend, CloseSys, Ask, Quiet
<1>9. CASE GetOwnInfo
  BY <1>9, DialogKept DEF GetOwnInfo, Quiet
<1>10. ASSUME NEW i \in DOMAIN infos, RefreshInfo(i) \/ ChangeInfo(i) \/ CloseInfo(i)
       PROVE  SearchInv'
  <2>1. search' = search
    BY <1>10 DEF RefreshInfo, ChangeInfo, CloseInfo
  <2>2. asked' \in {asked, asked + 1}
    BY <1>10 DEF RefreshInfo, ChangeInfo, CloseInfo, Ask, Quiet
  <2> QED
    BY <2>1, <2>2, DialogKept
<1>11. ASSUME NEW r \in up \cup down, Lose(r)
       PROVE  SearchInv'
  BY <1>11, DialogKept DEF Lose
<1>12. ASSUME NEW r \in up, Serve(r)
       PROVE  SearchInv'
  BY <1>12, DialogKept DEF Serve
<1>13. ASSUME NEW r \in down, Receive(r)
       PROVE  SearchInv'
  BY <1>13, ReceivePreserves
<1>14. CASE UNCHANGED vars
  BY <1>14, DialogKept DEF vars
<1> QED
  BY <1>1, <1>2, <1>3, <1>4, <1>5, <1>6, <1>7, <1>8, <1>9, <1>10, <1>11, <1>12, <1>13,
     <1>14 DEF Next, Network

\* Whatever is clicked and whichever results arrive, of this search or of an
\* earlier one, each sensitive button of the search dialog leads to a page that
\* exists (SearchDlg.cpp, refresh_search_user_result), for any number of results.
THEOREM ButtonsLeadToPages == Spec => []PagesInRange
<1>1. Init => SearchInv
  BY NoDlgPages DEF Init, SearchInv
<1>2. SearchInv /\ [Next]_vars => SearchInv'
  BY SearchInvPreserved
<1>3. SearchInv => PagesInRange
  BY DEF SearchInv, Pages, PagesInRange
<1> QED
  BY <1>1, <1>2, <1>3, PTL DEF Spec

-----------------------------------------------------------------------------
(***************************************************************************)
(* Windows that wait.                                                      *)
(***************************************************************************)

Searches == {"SEARCH", "SEARCH_RANDOM"}
Infos == {"GET_USER_INFO", "GET_CONTACT_INFO"}
Flying == up \cup down

\* The windows of a list s wait for different requests.
Different(s) ==
  \A i, j \in DOMAIN s : s[i].req = s[j].req /\ s[i].req # 0 => i = j

\* Types of the windows, the requests and the history.
Typed ==
  /\ SearchInv
  /\ sys \in Seq(SysDlgs(asked)) /\ infos \in Seq(InfoDlgs(asked))
  /\ querying \subseteq Contacts
  /\ local \in 0 .. asked /\ server \in 0 .. asked
  /\ \A r \in Flying :
       /\ r.id \in 1 .. asked
       /\ r.cmd \in {"ADD_CONTACT", "GET_CONTACT_INFO"} => r.arg \in Contacts
  /\ \A r \in down : r.cmd = "GET_USER_INFO" => r.what \in 0 .. asked
  /\ clicks \in 0 .. MaxAsked /\ messages \in 0 .. MaxMessages
  /\ lost \subseteq 1 .. asked /\ taken \subseteq 1 .. asked /\ crossed \in BOOLEAN

\* A request under way is waited for by at most one window, which is one that
\* can take the reply.
Matched ==
  /\ Different(sys) /\ Different(infos)
  /\ \A i \in DOMAIN sys : search.add # 0 => search.add # sys[i].req
  /\ \A r \in Flying :
       /\ r.id = search.req => r.cmd \in Searches
       /\ r.id = search.add => r.cmd = "ADD_CONTACT"
       /\ \A i \in DOMAIN sys :
            r.id = sys[i].req => r.cmd = "ADD_CONTACT" /\ r.arg = sys[i].from
       /\ \A i \in DOMAIN infos :
            r.id = infos[i].req => r.cmd \in Infos /\ r.arg = infos[i].name

\* Whoever waits is answered, or the history says why not: also in a dialog that
\* is on another page for the time being.
Waits(req) == req \in UnderWay \cup lost \cup taken
Waiting ==
  /\ search.page \in {"LIST", "ADD"} /\ ~search.next => search.req \in UnderWay \cup lost
  /\ search.add # 0 => Waits(search.add)
  /\ \A i \in DOMAIN sys : sys[i].req # 0 => Waits(sys[i].req)
  /\ \A i \in DOMAIN infos : infos[i].req # 0 => Waits(infos[i].req)

DeskInv == Typed /\ Matched /\ Waiting

\* Unless requests have crossed, a change of the own details is on its way alone,
\* and without one both sides have the same details and so has each reply.
Agreed ==
  /\ \A r \in down : r.cmd # "UPDATE_USER_INFO"
  /\ ~crossed =>
       /\ \A r \in up : r.cmd = "UPDATE_USER_INFO" =>
            r.id = local /\ \A q \in Flying : Own(q) => q = r
       /\ (\A r \in up : r.cmd # "UPDATE_USER_INFO") =>
            /\ local = server
            /\ \A r \in down : r.cmd = "GET_USER_INFO" => r.what = server

\* The own details are shown once.
ShownOnce ==
  \A i, j \in DOMAIN infos : infos[i].name = Me /\ infos[j].name = Me => i = j

-----------------------------------------------------------------------------
(***************************************************************************)
(* Lists of windows.                                                       *)
(***************************************************************************)

LEMMA WiderSeq ==
  ASSUME NEW A, NEW B, A \subseteq B, NEW s \in Seq(A)
  PROVE  s \in Seq(B)
<1>1. s \in [1 .. Len(s) -> A] /\ Len(s) \in Nat
  OBVIOUS
<1>2. s \in [1 .. Len(s) -> B]
  BY <1>1
<1> QED
  BY <1>1, <1>2

LEMMA GrowWindows ==
  ASSUME NEW n \in Nat, NEW m \in Nat, n <= m
  PROVE  /\ Seq(SysDlgs(n)) \subseteq Seq(SysDlgs(m))
         /\ Seq(InfoDlgs(n)) \subseteq Seq(InfoDlgs(m))
<1>1. 0 .. n \subseteq 0 .. m
  OBVIOUS
<1>2. SysDlgs(n) \subseteq SysDlgs(m) /\ InfoDlgs(n) \subseteq InfoDlgs(m)
  BY <1>1, Zenon DEF SysDlgs, InfoDlgs
<1> QED
  BY <1>2, WiderSeq

\* What a list t of windows has from a list s: each window that waits for a
\* request other than q is one of s, and no two are the same one.
From(t, s, q) ==
  \E h \in [DOMAIN t -> Int] :
    \A k \in DOMAIN t :
      /\ t[k].req \notin {0, q} =>
           h[k] \in DOMAIN s /\ t[k] = s[h[k]]
      /\ \A l \in DOMAIN t : h[k] = h[l] \/ (t[k].req = q /\ t[l].req = q) => k = l

\* A window is closed.
LEMMA ClosedFrom ==
  ASSUME NEW S, NEW s \in Seq(S), NEW i \in DOMAIN s, NEW q,
         \A k \in DOMAIN s : s[k].req # q
  PROVE  RemoveAt(s, i) \in Seq(S) /\ From(RemoveAt(s, i), s, q)
<1> DEFINE t == RemoveAt(s, i)
           at(k) == IF k < i THEN k ELSE k + 1
           h == [k \in DOMAIN t |-> at(k)]
<1>1. Len(s) \in Nat /\ DOMAIN s = 1 .. Len(s) /\ i \in 1 .. Len(s)
  OBVIOUS
<1>2. /\ t \in Seq(S) /\ Len(t) = Len(s) - 1
      /\ \A k \in 1 .. Len(s) - 1 : t[k] = IF k < i THEN s[k] ELSE s[k + 1]
  BY <1>1, RemoveAtSeq
<1>3. DOMAIN t = 1 .. Len(s) - 1
  BY <1>2
<1> HIDE DEF t
<1>4. \A k \in DOMAIN t : at(k) \in DOMAIN s /\ t[k] = s[at(k)]
  BY <1>1, <1>2, <1>3
<1>5. \A k, l \in DOMAIN t : at(k) = at(l) => k = l
  BY <1>1, <1>3
<1>6. \A k \in DOMAIN t : at(k) \in Int
  BY <1>1, <1>3
<1> HIDE DEF at
<1>7. h \in [DOMAIN t -> Int] /\ \A k \in DOMAIN t : h[k] = at(k)
  BY <1>6
<1> HIDE DEF h
<1>8. From(t, s, q)
  BY <1>4, <1>5, <1>7 DEF From
<1> QED
  BY <1>2, <1>8 DEF t

\* A window is opened that waits for nothing.
LEMMA OpenedFrom ==
  ASSUME NEW S, NEW s \in Seq(S), NEW e \in S, e.req = 0, NEW q, q # 0,
         \A k \in DOMAIN s : s[k].req # q
  PROVE  Append(s, e) \in Seq(S) /\ From(Append(s, e), s, q)
<1> DEFINE t == Append(s, e)
           h == [k \in DOMAIN t |-> k]
<1>1. Len(s) \in Nat /\ DOMAIN s = 1 .. Len(s)
  OBVIOUS
<1>2. /\ t \in Seq(S) /\ DOMAIN t = 1 .. Len(s) + 1
      /\ t[Len(s) + 1] = e /\ \A k \in 1 .. Len(s) : t[k] = s[k]
  BY <1>1
<1> HIDE DEF t
<1>3. h \in [DOMAIN t -> Int] /\ \A k \in DOMAIN t : h[k] = k
  BY <1>1, <1>2
<1> HIDE DEF h
<1>4. \A k \in DOMAIN t : t[k].req \notin {0, q} => k \in DOMAIN s /\ t[k] = s[k]
  BY <1>1, <1>2
<1>5. \A k \in DOMAIN t : t[k].req # q
  BY <1>1, <1>2
<1>6. From(t, s, q)
  BY <1>3, <1>4, <1>5 DEF From
<1> QED
  BY <1>2, <1>6 DEF t

\* A window becomes e: it waits for nothing, or for q.
LEMMA ChangedFrom ==
  ASSUME NEW S, NEW s \in Seq(S), NEW i \in DOMAIN s, NEW e \in S, NEW q, e.req \in {0, q},
         \A k \in DOMAIN s : s[k].req # q
  PROVE  [s EXCEPT ![i] = e] \in Seq(S) /\ From([s EXCEPT ![i] = e], s, q)
<1> DEFINE t == [s EXCEPT ![i] = e]
           h == [k \in DOMAIN t |-> k]
<1>1. Len(s) \in Nat /\ DOMAIN s = 1 .. Len(s)
  OBVIOUS
<1>2. /\ t \in Seq(S) /\ DOMAIN t = 1 .. Len(s) /\ t[i] = e
      /\ \A k \in 1 .. Len(s) : k # i => t[k] = s[k]
  BY <1>1
<1> HIDE DEF t
<1>3. h \in [DOMAIN t -> Int] /\ \A k \in DOMAIN t : h[k] = k
  BY <1>1, <1>2
<1> HIDE DEF h
<1>4. \A k \in DOMAIN t : t[k].req \notin {0, q} => k \in DOMAIN s /\ t[k] = s[k]
  BY <1>1, <1>2
<1>5. \A k \in DOMAIN t : t[k].req = q => k = i
  BY <1>1, <1>2
<1>6. From(t, s, q)
  BY <1>3, <1>4, <1>5 DEF From
<1> QED
  BY <1>2, <1>6 DEF t

LEMMA SameFrom ==
  ASSUME NEW S, NEW s \in Seq(S), NEW q, \A k \in DOMAIN s : s[k].req # q
  PROVE  From(s, s, q)
<1> DEFINE h == [k \in DOMAIN s |-> k]
<1>1. DOMAIN s = 1 .. Len(s)
  OBVIOUS
<1>2. h \in [DOMAIN s -> Int] /\ \A k \in DOMAIN s : h[k] = k
  BY <1>1
<1> HIDE DEF h
<1> QED
  BY <1>2 DEF From

LEMMA FromDifferent ==
  ASSUME NEW t, NEW s, NEW q, Different(s), From(t, s, q)
  PROVE  /\ Different(t)
         /\ \A k \in DOMAIN t : t[k].req \notin {0, q} => \E j \in DOMAIN s : t[k] = s[j]
<1>1. PICK h \in [DOMAIN t -> Int] :
        \A k \in DOMAIN t :
          /\ t[k].req \notin {0, q} => h[k] \in DOMAIN s /\ t[k] = s[h[k]]
          /\ \A l \in DOMAIN t : h[k] = h[l] \/ (t[k].req = q /\ t[l].req = q) => k = l
  BY DEF From
<1>2. ASSUME NEW k \in DOMAIN t, NEW l \in DOMAIN t, t[k].req = t[l].req, t[k].req # 0
      PROVE  k = l
  <2>1. CASE t[k].req = q
    BY <1>1, <1>2, <2>1
  <2>2. CASE t[k].req # q
    <3>1. /\ h[k] \in DOMAIN s /\ t[k] = s[h[k]]
          /\ h[l] \in DOMAIN s /\ t[l] = s[h[l]]
      BY <1>1, <1>2, <2>2
    <3>2. h[k] = h[l]
      BY <1>2, <3>1 DEF Different
    <3> QED
      BY <1>1, <3>2
  <2> QED
    BY <2>1, <2>2
<1> QED
  BY <1>1, <1>2 DEF Different

-----------------------------------------------------------------------------
(***************************************************************************)
(* A step of a window.                                                     *)
(***************************************************************************)

\* A step asks nothing, or what a button causes.
Asks(cmd, arg) ==
  \/ asked' = asked /\ up' = up
  \/ asked' = asked + 1 /\ up' = up \cup {Request(cmd, arg)}

\* Nobody waits for a request that has no number yet.
LEMMA Numbers ==
  ASSUME Typed
  PROVE  /\ asked \in Nat
         /\ search.req \in 0 .. asked /\ search.add \in 0 .. asked
         /\ \A k \in DOMAIN sys : sys[k].req \in 0 .. asked /\ sys[k].from \in Contacts
         /\ \A k \in DOMAIN infos : infos[k].req \in 0 .. asked /\ infos[k].name \in Names
         /\ \A r \in Flying : r.id \in 1 .. asked
<1>1. asked \in Nat
  BY DEF Typed, SearchInv
<1>2. search.req \in 0 .. asked /\ search.add \in 0 .. asked
  <2>1. CASE search = NoDlg
    BY <1>1, <2>1 DEF NoDlg
  <2>2. CASE search \in SearchDlgs(asked)
    BY <2>2 DEF SearchDlgs
  <2> QED
    BY <2>1, <2>2 DEF Typed, SearchInv
<1>3. \A k \in DOMAIN sys : sys[k].req \in 0 .. asked /\ sys[k].from \in Contacts
  <2>1. \A k \in DOMAIN sys : sys[k] \in SysDlgs(asked)
    BY DEF Typed
  <2> QED
    BY <2>1 DEF SysDlgs
<1>4. \A k \in DOMAIN infos : infos[k].req \in 0 .. asked /\ infos[k].name \in Names
  <2>1. \A k \in DOMAIN infos : infos[k] \in InfoDlgs(asked)
    BY DEF Typed
  <2> QED
    BY <2>1 DEF InfoDlgs
<1> QED
  BY <1>1, <1>2, <1>3, <1>4 DEF Typed

\* What the search dialog waits for after a step.
SearchWaits(cmd) ==
  /\ \/ search'.req \in {0, search.req}
     \/ search'.req = asked + 1 /\ asked' = asked + 1 /\ cmd \in Searches
  /\ \/ search'.add \in {0, search.add}
     \/ search'.add = asked + 1 /\ asked' = asked + 1 /\ cmd = "ADD_CONTACT" /\ sys' = sys
  /\ search'.page \in {"LIST", "ADD"} /\ ~search'.next =>
       \/ search.page \in {"LIST", "ADD"} /\ ~search.next /\ search'.req = search.req
       \/ search'.req = asked + 1 /\ asked' = asked + 1

\* What the other windows wait for after it.
OthersWait(cmd, arg) ==
  /\ From(sys', sys, asked + 1) /\ From(infos', infos, asked + 1)
  /\ \A k \in DOMAIN sys' : sys'[k].req = asked + 1 =>
       asked' = asked + 1 /\ cmd = "ADD_CONTACT" /\ arg = sys'[k].from
  /\ \A k \in DOMAIN infos' : infos'[k].req = asked + 1 =>
       asked' = asked + 1 /\ cmd \in Infos /\ arg = infos'[k].name

\* What is under way after a step was so before it, or is request cmd of arg,
\* which has the next number.
Flies(cmd, arg) ==
  /\ \A r \in Flying' :
       \/ \E q \in Flying : r.id = q.id /\ r.cmd = q.cmd /\ r.arg = q.arg
       \/ asked' = asked + 1 /\ r.id = asked + 1 /\ r.cmd = cmd /\ r.arg = arg
  /\ asked' = asked + 1 => asked + 1 \in UnderWay'

\* No request that a window waits for after a step is forgotten in it.
Remembers ==
  /\ search'.page \in {"LIST", "ADD"} /\ ~search'.next =>
       (search'.req \in UnderWay \cup lost => search'.req \in UnderWay' \cup lost')
  /\ \A id \in 1 .. asked :
       /\ Waits(id)
       /\ \/ id = search'.add
          \/ \E i \in DOMAIN sys' : id = sys'[i].req
          \/ \E i \in DOMAIN infos' : id = infos'[i].req
       => id \in UnderWay' \cup lost' \cup taken'

LEMMA AnyStep ==
  ASSUME DeskInv, NEW cmd, NEW arg, Flies(cmd, arg), Remembers,
         SearchWaits(cmd), OthersWait(cmd, arg)
  PROVE  Matched' /\ Waiting'
<1> DEFINE q == asked + 1
<1>1. /\ asked \in Nat /\ q \in Nat /\ q # 0 /\ q \notin 0 .. asked
      /\ search.req \in 0 .. asked /\ search.add \in 0 .. asked
      /\ \A k \in DOMAIN sys : sys[k].req \in 0 .. asked
      /\ \A k \in DOMAIN infos : infos[k].req \in 0 .. asked
      /\ \A r \in Flying : r.id \in 1 .. asked
  BY Numbers DEF DeskInv
<1>2. /\ \A r \in Flying' :
           \/ \E p \in Flying : r.id = p.id /\ r.cmd = p.cmd /\ r.arg = p.arg
           \/ asked' = q /\ r.id = q /\ r.cmd = cmd /\ r.arg = arg
      /\ asked' = q => q \in UnderWay'
  BY DEF Flies
<1>3. search'.page \in {"LIST", "ADD"} /\ ~search'.next =>
        (search'.req \in UnderWay \cup lost => search'.req \in UnderWay' \cup lost')
  BY DEF Remembers
<1>4. \A id \in 1 .. asked :
        /\ Waits(id)
        /\ \/ id = search'.add
           \/ \E i \in DOMAIN sys' : id = sys'[i].req
           \/ \E i \in DOMAIN infos' : id = infos'[i].req
        => id \in UnderWay' \cup lost' \cup taken'
  BY DEF Remembers
<1>5. /\ Different(sys') /\ Different(infos')
      /\ \A k \in DOMAIN sys' : sys'[k].req \notin {0, q} => \E j \in DOMAIN sys : sys'[k] = sys[j]
      /\ \A k \in DOMAIN infos' :
           infos'[k].req \notin {0, q} => \E j \in DOMAIN infos : infos'[k] = infos[j]
  BY FromDifferent DEF DeskInv, Matched, OthersWait
<1>6. /\ \A k \in DOMAIN sys' : sys'[k].req = q =>
           asked' = q /\ cmd = "ADD_CONTACT" /\ arg = sys'[k].from
      /\ \A k \in DOMAIN infos' : infos'[k].req = q =>
           asked' = q /\ cmd \in Infos /\ arg = infos'[k].name
  BY DEF OthersWait
<1>7. /\ \/ search'.req \in {0, search.req}
         \/ search'.req = q /\ asked' = q /\ cmd \in Searches
      /\ \/ search'.add \in {0, search.add}
         \/ search'.add = q /\ asked' = q /\ cmd = "ADD_CONTACT" /\ sys' = sys
      /\ search'.page \in {"LIST", "ADD"} /\ ~search'.next =>
           \/ search.page \in {"LIST", "ADD"} /\ ~search.next /\ search'.req = search.req
           \/ search'.req = q /\ asked' = q
  BY DEF SearchWaits
<1> HIDE DEF q
<1>8. \A i \in DOMAIN sys' : search'.add # 0 => search'.add # sys'[i].req
  <2> SUFFICES ASSUME NEW i \in DOMAIN sys', search'.add # 0, search'.add = sys'[i].req
               PROVE  FALSE
    OBVIOUS
  <2>1. CASE search'.add = q /\ sys' = sys
    BY <1>1, <2>1
  <2>2. CASE search'.add = search.add
    <3>1. sys'[i].req \notin {0, q}
      BY <1>1, <2>2
    <3>2. PICK j \in DOMAIN sys : sys'[i] = sys[j]
      BY <1>5, <3>1
    <3> QED
      BY <2>2, <3>2 DEF DeskInv, Matched
  <2> QED
    BY <1>7, <2>1, <2>2
<1>9. ASSUME NEW r \in Flying'
      PROVE  /\ r.id = search'.req => r.cmd \in Searches
             /\ r.id = search'.add => r.cmd = "ADD_CONTACT"
             /\ \A i \in DOMAIN sys' :
                  r.id = sys'[i].req => r.cmd = "ADD_CONTACT" /\ r.arg = sys'[i].from
             /\ \A i \in DOMAIN infos' :
                  r.id = infos'[i].req => r.cmd \in Infos /\ r.arg = infos'[i].name
  <2>1. ASSUME NEW p \in Flying, r.id = p.id, r.cmd = p.cmd, r.arg = p.arg
        PROVE  /\ r.id = search'.req => r.cmd \in Searches
               /\ r.id = search'.add => r.cmd = "ADD_CONTACT"
               /\ \A i \in DOMAIN sys' :
                    r.id = sys'[i].req => r.cmd = "ADD_CONTACT" /\ r.arg = sys'[i].from
               /\ \A i \in DOMAIN infos' :
                    r.id = infos'[i].req => r.cmd \in Infos /\ r.arg = infos'[i].name
    <3>1. r.id \in 1 .. asked /\ r.id \notin {0, q}
      BY <1>1, <2>1
    <3>2. (r.id = search'.req => r.id = search.req) /\ (r.id = search'.add => r.id = search.add)
      BY <1>7, <3>1
    <3>3. ASSUME NEW i \in DOMAIN sys', r.id = sys'[i].req
          PROVE  r.cmd = "ADD_CONTACT" /\ r.arg = sys'[i].from
      <4>1. PICK j \in DOMAIN sys : sys'[i] = sys[j]
        BY <1>5, <3>1, <3>3
      <4> QED
        BY <2>1, <3>3, <4>1 DEF DeskInv, Matched
    <3>4. ASSUME NEW i \in DOMAIN infos', r.id = infos'[i].req
          PROVE  r.cmd \in Infos /\ r.arg = infos'[i].name
      <4>1. PICK j \in DOMAIN infos : infos'[i] = infos[j]
        BY <1>5, <3>1, <3>4
      <4> QED
        BY <2>1, <3>4, <4>1 DEF DeskInv, Matched
    <3> QED
      BY <2>1, <3>2, <3>3, <3>4 DEF DeskInv, Matched
  <2>2. CASE asked' = q /\ r.id = q /\ r.cmd = cmd /\ r.arg = arg
    <3>1. (q = search'.req => cmd \in Searches) /\ (q = search'.add => cmd = "ADD_CONTACT")
      BY <1>1, <1>7
    <3> QED
      BY <1>6, <2>2, <3>1
  <2> QED
    BY <1>2, <2>1, <2>2
<1>10. Matched'
  BY <1>5, <1>8, <1>9 DEF Matched
<1>11. search'.page \in {"LIST", "ADD"} /\ ~search'.next => search'.req \in UnderWay' \cup lost'
  <2> SUFFICES ASSUME search'.page \in {"LIST", "ADD"}, ~search'.next
               PROVE  search'.req \in UnderWay' \cup lost'
    OBVIOUS
  <2>1. CASE search'.req = q /\ asked' = q
    BY <1>2, <2>1
  <2>2. CASE search.page \in {"LIST", "ADD"} /\ ~search.next /\ search'.req = search.req
    BY <1>3, <2>2 DEF DeskInv, Waiting
  <2> QED
    BY <1>7, <2>1, <2>2
<1>12. search'.add # 0 => search'.add \in UnderWay' \cup lost' \cup taken'
  <2>1. CASE search'.add = q /\ asked' = q
    BY <1>2, <2>1
  <2>2. CASE search'.add = search.add /\ search.add # 0
    <3>1. search.add \in 1 .. asked /\ Waits(search.add)
      BY <1>1, <2>2 DEF DeskInv, Waiting
    <3> QED
      BY <1>4, <2>2, <3>1
  <2> QED
    BY <1>7, <2>1, <2>2
<1>13. ASSUME NEW i \in DOMAIN sys', sys'[i].req # 0
       PROVE  sys'[i].req \in UnderWay' \cup lost' \cup taken'
  <2>1. CASE sys'[i].req = q
    BY <1>2, <1>6, <2>1
  <2>2. CASE sys'[i].req # q
    <3>1. PICK j \in DOMAIN sys : sys'[i] = sys[j]
      BY <1>5, <1>13, <2>2
    <3>2. sys'[i].req \in 1 .. asked /\ Waits(sys'[i].req)
      BY <1>1, <1>13, <3>1 DEF DeskInv, Waiting
    <3> QED
      BY <1>4, <3>2
  <2> QED
    BY <2>1, <2>2
<1>14. ASSUME NEW i \in DOMAIN infos', infos'[i].req # 0
       PROVE  infos'[i].req \in UnderWay' \cup lost' \cup taken'
  <2>1. CASE infos'[i].req = q
    BY <1>2, <1>6, <2>1
  <2>2. CASE infos'[i].req # q
    <3>1. PICK j \in DOMAIN infos : infos'[i] = infos[j]
      BY <1>5, <1>14, <2>2
    <3>2. infos'[i].req \in 1 .. asked /\ Waits(infos'[i].req)
      BY <1>1, <1>14, <3>1 DEF DeskInv, Waiting
    <3> QED
      BY <1>4, <3>2
  <2> QED
    BY <2>1, <2>2
<1>15. Waiting'
  BY <1>11, <1>12, <1>13, <1>14 DEF Waiting, Waits
<1> QED
  BY <1>10, <1>15

LEMMA WindowStep ==
  ASSUME DeskInv, NEW cmd, NEW arg, UNCHANGED <<down, lost, taken>>, Asks(cmd, arg),
         SearchWaits(cmd), OthersWait(cmd, arg)
  PROVE  Matched' /\ Waiting'
<1>1. asked \in Nat
  BY Numbers DEF DeskInv
<1>2. /\ \A r \in Flying' : r \in Flying \/ (asked' = asked + 1 /\ r = Request(cmd, arg))
      /\ Flying \subseteq Flying'
      /\ asked' = asked + 1 => Request(cmd, arg) \in Flying'
  BY <1>1 DEF Asks, Flying
<1>3. /\ Request(cmd, arg).id = asked + 1 /\ Request(cmd, arg).cmd = cmd
      /\ Request(cmd, arg).arg = arg
  BY DEF Request
<1>4. /\ UnderWay \subseteq UnderWay' /\ (asked' = asked + 1 => asked + 1 \in UnderWay')
      /\ lost' = lost /\ taken' = taken
  BY <1>2, <1>3 DEF UnderWay, Flying
<1>5. Flies(cmd, arg)
  BY <1>2, <1>3, <1>4 DEF Flies
<1>6. Remembers
  BY <1>4 DEF Remembers, Waits
<1> QED
  BY <1>5, <1>6, AnyStep

LEMMA TypedStep ==
  ASSUME Typed, SearchInv', NEW cmd, NEW arg, Asks(cmd, arg),
         cmd \in {"ADD_CONTACT", "GET_CONTACT_INFO"} => arg \in Contacts,
         UNCHANGED <<down, lost, taken>>, server' = server,
         sys' \in Seq(SysDlgs(asked')), infos' \in Seq(InfoDlgs(asked')),
         querying' \subseteq Contacts, local' \in 0 .. asked',
         clicks' \in 0 .. MaxAsked, messages' \in 0 .. MaxMessages, crossed' \in BOOLEAN
  PROVE  Typed'
<1>1. asked \in Nat /\ (asked' = asked \/ asked' = asked + 1)
      /\ 0 .. asked \subseteq 0 .. asked' /\ 1 .. asked \subseteq 1 .. asked'
  BY DEF Typed, SearchInv, Asks
<1>2. ASSUME NEW r \in Flying'
      PROVE  /\ r.id \in 1 .. asked'
             /\ r.cmd \in {"ADD_CONTACT", "GET_CONTACT_INFO"} => r.arg \in Contacts
  <2>1. CASE r \in Flying
    BY <1>1, <2>1 DEF Typed
  <2>2. CASE r = Request(cmd, arg) /\ asked' = asked + 1
    <3>1. r.id = asked + 1 /\ r.cmd = cmd /\ r.arg = arg
      BY <2>2 DEF Request
    <3> QED
      BY <1>1, <2>2, <3>1
  <2> QED
    BY <2>1, <2>2 DEF Asks, Flying
<1>3. \A r \in down' : r.cmd = "GET_USER_INFO" => r.what \in 0 .. asked'
  BY <1>1 DEF Typed
<1>4. server' \in 0 .. asked' /\ lost' \subseteq 1 .. asked' /\ taken' \subseteq 1 .. asked'
  BY <1>1 DEF Typed
<1> QED
  BY <1>2, <1>3, <1>4 DEF Typed

LEMMA AskOrQuiet ==
  ASSUME Typed, NEW cmd, NEW arg, Ask(cmd, arg) \/ Quiet
  PROVE  /\ Asks(cmd, arg)
         /\ clicks' \in 0 .. MaxAsked /\ messages' = messages /\ messages' \in 0 .. MaxMessages
<1>1. CASE Ask(cmd, arg)
  <2>1. MaxAsked \in Nat /\ clicks \in 0 .. MaxAsked /\ clicks' = clicks + 1 /\ clicks < MaxAsked
    BY <1>1, DeskAssumption DEF Ask, Typed
  <2> QED
    BY <1>1, <2>1 DEF Ask, Asks, Typed
<1>2. CASE Quiet
  BY <1>2 DEF Quiet, Asks, Typed, bounds
<1> QED
  BY <1>1, <1>2

\* The list of windows grows wider with the requests that have a number.
LEMMA SameWindows ==
  ASSUME Typed, NEW n \in {asked, asked + 1}
  PROVE  sys \in Seq(SysDlgs(n)) /\ infos \in Seq(InfoDlgs(n))
<1>1. asked \in Nat /\ n \in Nat /\ asked <= n
  BY DEF Typed, SearchInv
<1> QED
  BY <1>1, GrowWindows DEF Typed

LEMMA NobodyNext ==
  ASSUME Typed
  PROVE  /\ \A k \in DOMAIN sys : sys[k].req # asked + 1
         /\ \A k \in DOMAIN infos : infos[k].req # asked + 1
         /\ From(sys, sys, asked + 1) /\ From(infos, infos, asked + 1)
         /\ asked + 1 # 0
<1>1. /\ asked + 1 \notin 0 .. asked /\ asked + 1 # 0
      /\ \A k \in DOMAIN sys : sys[k].req \in 0 .. asked
      /\ \A k \in DOMAIN infos : infos[k].req \in 0 .. asked
  BY Numbers
<1>2. /\ \A k \in DOMAIN sys : sys[k].req # asked + 1
      /\ \A k \in DOMAIN infos : infos[k].req # asked + 1
  BY <1>1
<1> QED
  BY <1>1, <1>2, SameFrom DEF Typed

\* A button of the search dialog.
LEMMA DialogStep ==
  ASSUME DeskInv, SearchInv', DlgOnly, NEW cmd, NEW arg, Ask(cmd, arg) \/ Quiet,
         cmd \in {"ADD_CONTACT", "GET_CONTACT_INFO"} => arg \in Contacts,
         SearchWaits(cmd)
  PROVE  DeskInv'
<1>1. /\ Asks(cmd, arg) /\ clicks' \in 0 .. MaxAsked /\ messages' \in 0 .. MaxMessages
      /\ Typed
  BY AskOrQuiet DEF DeskInv
<1>2. /\ sys' = sys /\ infos' = infos /\ querying' = querying /\ local' = local
      /\ server' = server /\ down' = down /\ lost' = lost /\ taken' = taken /\ crossed' = crossed
  BY DEF DlgOnly, windows, details, history
<1>3. asked \in Nat /\ asked' \in {asked, asked + 1}
  BY <1>1 DEF Asks, Typed, SearchInv
<1>4. Typed'
  <2>1. sys' \in Seq(SysDlgs(asked')) /\ infos' \in Seq(InfoDlgs(asked'))
    BY <1>1, <1>2, <1>3, SameWindows
  <2>2. local' \in 0 .. asked'
    BY <1>1, <1>2, <1>3 DEF Typed
  <2>3. querying' \subseteq Contacts /\ crossed' \in BOOLEAN
    BY <1>1, <1>2 DEF Typed
  <2> QED
    BY <1>1, <1>2, <2>1, <2>2, <2>3, TypedStep
<1>5. OthersWait(cmd, arg)
  BY <1>1, <1>2, NobodyNext DEF OthersWait
<1>6. Matched' /\ Waiting'
  BY <1>1, <1>2, <1>5, WindowStep
<1> QED
  BY <1>4, <1>6 DEF DeskInv

LEMMA ButtonsKeep ==
  ASSUME DeskInv, SearchInv',
         \/ OpenSearch \/ CloseSearch \/ Choose \/ SearchUser \/ ChooseAgain \/ Back \/ Turn
         \/ \E c \in Contacts : SelectUser(c)
  PROVE  DeskInv'
<1>1. CASE OpenSearch \/ CloseSearch
  <2>1. search'.req = 0 /\ search'.add = 0 /\ search'.page \notin {"LIST", "ADD"}
    BY <1>1 DEF OpenSearch, CloseSearch, NewDlg, NoDlg
  <2>2. SearchWaits("none")
    BY <2>1 DEF SearchWaits
  <2> QED
    BY <1>1, <2>2, DialogStep DEF OpenSearch, CloseSearch
<1>2. Open => search \in SearchDlgs(asked)
  BY Dialog DEF DeskInv, Typed
<1>3. ASSUME NEW e \in SearchDlgs(asked), e.req = search.req, e.add = search.add,
             search' = Clean(e, asked + 1), asked' = asked + 1, NEW cmd \in Searches
      PROVE  SearchWaits(cmd)
  <2>1. Clean(e, asked + 1).req = asked + 1 /\ Clean(e, asked + 1).add = e.add
    BY DEF Clean, SearchDlgs
  <2> QED
    BY <1>3, <2>1 DEF SearchWaits
<1>4. CASE Choose
  <2>1. Open
    BY <1>4 DEF Choose, Open
  <2> DEFINE e == [search EXCEPT !.radio = "RANDOM"]
             f == [search EXCEPT !.radio = "CUSTOM", !.page = "CUSTOM"]
  <2>2. CASE search' = Clean(e, asked + 1) /\ Ask("SEARCH_RANDOM", Nobody)
    <3>1. e \in SearchDlgs(asked) /\ e.req = search.req /\ e.add = search.add
      BY <1>2, <2>1, Zenon DEF SearchDlgs
    <3>2. SearchWaits("SEARCH_RANDOM")
      BY <1>3, <2>2, <3>1 DEF Ask, Searches
    <3> QED
      BY <1>4, <2>2, <3>2, DialogStep DEF Choose
  <2>3. CASE search' = f /\ Quiet
    <3>1. f.req = search.req /\ f.add = search.add /\ f.page = "CUSTOM"
      BY <1>2, <2>1 DEF SearchDlgs
    <3>2. SearchWaits("none")
      BY <2>3, <3>1 DEF SearchWaits
    <3> QED
      BY <1>4, <2>3, <3>2, DialogStep DEF Choose
  <2> QED
    BY <1>4, <2>2, <2>3 DEF Choose
<1>5. CASE SearchUser
  <2>1. Open
    BY <1>5 DEF SearchUser, Open
  <2>2. PICK fields \in Fields : Ask("SEARCH", fields)
    BY <1>5 DEF SearchUser
  <2>3. SearchWaits("SEARCH")
    BY <1>2, <1>3, <1>5, <2>1, <2>2 DEF SearchUser, Ask, Searches
  <2> QED
    BY <1>5, <2>2, <2>3, DialogStep DEF SearchUser
<1>6. CASE ChooseAgain \/ Back
  <2>1. Open
    BY <1>6 DEF ChooseAgain, Back, Open
  <2>2. /\ search'.req = search.req /\ search'.add = search.add /\ search'.next = search.next
        /\ search'.page \in {"LIST", "ADD"} => search.page \in {"LIST", "ADD"}
    <3>1. CASE ChooseAgain
      BY <1>2, <2>1, <3>1 DEF ChooseAgain, SearchDlgs
    <3>2. CASE Back
      <4>1. BackPage(search) \in {"LIST", "ADD"} => search.page \in {"LIST", "ADD"}
        BY DEF BackPage
      <4> QED
        BY <1>2, <2>1, <3>2, <4>1 DEF Back, SearchDlgs
    <3> QED
      BY <1>6, <3>1, <3>2
  <2>3. SearchWaits("none")
    BY <2>2 DEF SearchWaits
  <2> QED
    BY <1>6, <2>3, DialogStep DEF ChooseAgain, Back
<1>7. CASE Turn
  <2>1. Open /\ search.page = "LIST"
    BY <1>7 DEF Turn, Open
  <2>2. ASSUME NEW p, search' = Refresh(search, p), NEW cmd
        PROVE  SearchWaits(cmd)
    <3>1. CASE p = search.cur
      BY <2>2, <3>1 DEF Refresh, SearchWaits
    <3>2. CASE p # search.cur
      <4>1. search'.req = 0 /\ search'.add = search.add /\ search'.next
        BY <1>2, <2>1, <2>2, <3>2 DEF Refresh, SearchDlgs
      <4> QED
        BY <4>1 DEF SearchWaits
    <3> QED
      BY <3>1, <3>2
  <2>3. CASE search' = PreviousPage(search) /\ Quiet
    <3>1. SearchWaits("none")
      BY <2>2, <2>3 DEF PreviousPage
    <3> QED
      BY <1>7, <2>3, <3>1, DialogStep DEF Turn
  <2>4. CASE search' = Refresh(search, -1) /\ Quiet
    <3>1. SearchWaits("none")
      BY <2>2, <2>4
    <3> QED
      BY <1>7, <2>4, <3>1, DialogStep DEF Turn
  <2>5. CASE search' = NextPage(search, asked + 1) /\ ~SearchesOn(search) /\ Quiet
    <3>1. SearchWaits("none")
      BY <2>2, <2>5 DEF NextPage
    <3> QED
      BY <1>7, <2>5, <3>1, DialogStep DEF Turn
  <2>6. ASSUME search' = NextPage(search, asked + 1), SearchesOn(search),
               NEW cmd \in Searches, NEW arg, Ask(cmd, arg)
        PROVE  DeskInv'
    <3>1. search'.req = asked + 1 /\ search'.add = search.add
      BY <1>2, <2>1, <2>6 DEF NextPage, SearchDlgs
    <3>2. asked' = asked + 1
      BY <2>6 DEF Ask
    <3>3. SearchWaits(cmd)
      BY <3>1, <3>2 DEF SearchWaits
    <3>4. cmd \notin {"ADD_CONTACT", "GET_CONTACT_INFO"}
      BY DEF Searches
    <3> QED
      BY <1>7, <2>6, <3>3, <3>4, DialogStep DEF Turn
  <2> QED
    BY <1>7, <2>3, <2>4, <2>5, <2>6 DEF Turn, Searches
<1>8. ASSUME NEW c \in Contacts, SelectUser(c)
      PROVE  DeskInv'
  <2>1. Open /\ search.page = "LIST"
    BY <1>8 DEF SelectUser, Open
  <2>2. search'.req = search.req /\ search'.next = search.next
    BY <1>2, <1>8, <2>1 DEF SelectUser, SearchDlgs
  <2>3. CASE search' = [search EXCEPT !.page = "ADD", !.label = c, !.add = asked + 1]
             /\ Ask("ADD_CONTACT", c)
    <3>1. search'.add = asked + 1 /\ asked' = asked + 1 /\ sys' = sys
      BY <1>2, <1>8, <2>1, <2>3 DEF SelectUser, SearchDlgs, Ask, DlgOnly, windows
    <3>2. SearchWaits("ADD_CONTACT")
      BY <2>1, <2>2, <3>1 DEF SearchWaits
    <3> QED
      BY <1>8, <2>3, <3>2, DialogStep DEF SelectUser
  <2>4. CASE search'.add = 0 /\ Quiet
    <3>1. SearchWaits("none")
      BY <2>1, <2>2, <2>4 DEF SearchWaits
    <3> QED
      BY <1>8, <2>4, <3>1, DialogStep DEF SelectUser
  <2>5. \/ /\ search' = [search EXCEPT !.page = "ADD", !.label = c, !.add = asked + 1]
           /\ Ask("ADD_CONTACT", c)
        \/ search'.add = 0 /\ Quiet
    BY <1>2, <1>8, <2>1 DEF SelectUser, SearchDlgs
  <2> QED
    BY <2>3, <2>4, <2>5
<1> QED
  BY <1>1, <1>4, <1>5, <1>6, <1>7, <1>8

\* A button of another window, or a message.
LEMMA OtherStep ==
  ASSUME DeskInv, SearchInv', search' = search, NEW cmd, NEW arg, Asks(cmd, arg),
         cmd \in {"ADD_CONTACT", "GET_CONTACT_INFO"} => arg \in Contacts,
         UNCHANGED <<down, lost, taken>>, server' = server,
         sys' \in Seq(SysDlgs(asked')), infos' \in Seq(InfoDlgs(asked')),
         querying' \subseteq Contacts, local' \in 0 .. asked',
         clicks' \in 0 .. MaxAsked, messages' \in 0 .. MaxMessages, crossed' \in BOOLEAN,
         OthersWait(cmd, arg)
  PROVE  DeskInv'
<1>1. SearchWaits(cmd)
  BY DEF SearchWaits
<1>2. Matched' /\ Waiting'
  BY <1>1, WindowStep
<1>3. Typed'
  BY TypedStep DEF DeskInv
<1> QED
  BY <1>2, <1>3 DEF DeskInv

\* A new dialog, with or without a button.
LEMMA NewSys ==
  ASSUME Typed, NEW c \in Contacts, NEW b \in {"none", "once", "kept"}
  PROVE  /\ Append(sys, [from |-> c, req |-> 0, button |-> b]) \in Seq(SysDlgs(asked))
         /\ From(Append(sys, [from |-> c, req |-> 0, button |-> b]), sys, asked + 1)
         /\ \A k \in DOMAIN Append(sys, [from |-> c, req |-> 0, button |-> b]) :
              Append(sys, [from |-> c, req |-> 0, button |-> b])[k].req # asked + 1
<1> DEFINE e == [from |-> c, req |-> 0, button |-> b]
<1>1. asked \in Nat /\ 0 \in 0 .. asked /\ sys \in Seq(SysDlgs(asked)) /\ 0 # asked + 1
  BY DEF Typed, SearchInv
<1>2. e \in SysDlgs(asked) /\ e.req = 0
  BY <1>1 DEF SysDlgs
<1>3. \A k \in DOMAIN sys : sys[k].req # asked + 1
  BY NobodyNext
<1> HIDE DEF e
<1>4. Append(sys, e) \in Seq(SysDlgs(asked)) /\ From(Append(sys, e), sys, asked + 1)
  BY <1>1, <1>2, <1>3, OpenedFrom
<1>5. \A k \in DOMAIN Append(sys, e) : Append(sys, e)[k].req # asked + 1
  BY <1>1, <1>2, <1>3
<1> QED
  BY <1>4, <1>5 DEF e

LEMMA NewInfoDlg ==
  ASSUME Typed, NEW n \in Names
  PROVE  /\ NewInfo(n) \in Seq(InfoDlgs(asked))
         /\ From(NewInfo(n), infos, asked + 1)
         /\ \A k \in DOMAIN NewInfo(n) : NewInfo(n)[k].req # asked + 1
<1> DEFINE e == [name |-> n, req |-> 0]
<1>1. asked \in Nat /\ 0 \in 0 .. asked /\ infos \in Seq(InfoDlgs(asked)) /\ 0 # asked + 1
  BY DEF Typed, SearchInv
<1>2. e \in InfoDlgs(asked) /\ e.req = 0
  BY <1>1 DEF InfoDlgs
<1>3. \A k \in DOMAIN infos : infos[k].req # asked + 1
  BY NobodyNext
<1>4. NewInfo(n) = Append(infos, e)
  BY DEF NewInfo
<1> HIDE DEF e
<1>5. Append(infos, e) \in Seq(InfoDlgs(asked)) /\ From(Append(infos, e), infos, asked + 1)
  BY <1>1, <1>2, <1>3, OpenedFrom
<1>6. \A k \in DOMAIN Append(infos, e) : Append(infos, e)[k].req # asked + 1
  BY <1>1, <1>2, <1>3
<1> QED
  BY <1>4, <1>5, <1>6

\* A window that is closed was the only one to wait for its request.
LEMMA ClosedSys ==
  ASSUME Typed, NEW i \in DOMAIN sys
  PROVE  /\ RemoveAt(sys, i) \in Seq(SysDlgs(asked))
         /\ From(RemoveAt(sys, i), sys, asked + 1)
         /\ \A k \in DOMAIN RemoveAt(sys, i) : RemoveAt(sys, i)[k].req # asked + 1
<1> DEFINE t == RemoveAt(sys, i)
<1>1. \A k \in DOMAIN sys : sys[k].req # asked + 1
  BY NobodyNext
<1>2. t \in Seq(SysDlgs(asked)) /\ From(t, sys, asked + 1)
  BY <1>1, ClosedFrom DEF Typed
<1>3. asked + 1 \notin 0 .. asked
  BY Numbers
<1> HIDE DEF t
<1>4. \A k \in DOMAIN t : t[k] \in SysDlgs(asked)
  BY <1>2
<1>5. \A k \in DOMAIN t : t[k].req # asked + 1
  BY <1>3, <1>4 DEF SysDlgs
<1> QED
  BY <1>2, <1>5 DEF t

LEMMA ClosedInfo ==
  ASSUME Typed, NEW i \in DOMAIN infos
  PROVE  /\ RemoveAt(infos, i) \in Seq(InfoDlgs(asked))
         /\ From(RemoveAt(infos, i), infos, asked + 1)
         /\ \A k \in DOMAIN RemoveAt(infos, i) : RemoveAt(infos, i)[k].req # asked + 1
<1> DEFINE t == RemoveAt(infos, i)
<1>1. \A k \in DOMAIN infos : infos[k].req # asked + 1
  BY NobodyNext
<1>2. t \in Seq(InfoDlgs(asked)) /\ From(t, infos, asked + 1)
  BY <1>1, ClosedFrom DEF Typed
<1>3. asked + 1 \notin 0 .. asked
  BY Numbers
<1> HIDE DEF t
<1>4. \A k \in DOMAIN t : t[k] \in InfoDlgs(asked)
  BY <1>2
<1>5. \A k \in DOMAIN t : t[k].req # asked + 1
  BY <1>3, <1>4 DEF InfoDlgs
<1> QED
  BY <1>2, <1>5 DEF t

LEMMA MessageKeeps ==
  ASSUME DeskInv, SearchInv', NEW c \in Contacts, OnRecvMessage(c)
  PROVE  DeskInv'
<1>1. PICK b \in {"none", "once", "kept"} :
        sys' = Append(sys, [from |-> c, req |-> 0, button |-> b])
  BY DEF OnRecvMessage
<1>2. Typed
  BY DEF DeskInv
<1>3. /\ sys' \in Seq(SysDlgs(asked)) /\ From(sys', sys, asked + 1)
      /\ \A k \in DOMAIN sys' : sys'[k].req # asked + 1
  BY <1>1, <1>2, NewSys
<1>4. /\ search' = search /\ infos' = infos /\ querying' = querying /\ local' = local
      /\ server' = server /\ up' = up /\ down' = down /\ asked' = asked /\ clicks' = clicks
      /\ lost' = lost /\ taken' = taken /\ crossed' = crossed
  BY DEF OnRecvMessage, details, history
<1>5. messages' \in 0 .. MaxMessages
  <2>1. MaxMessages \in Nat /\ messages \in 0 .. MaxMessages /\ messages < MaxMessages
        /\ messages' = messages + 1
    BY <1>2, DeskAssumption DEF OnRecvMessage, Typed
  <2> QED
    BY <2>1
<1>6. OthersWait("none", Nobody) /\ Asks("none", Nobody)
  BY <1>2, <1>3, <1>4, NobodyNext DEF OthersWait, Asks
<1>7. /\ infos' \in Seq(InfoDlgs(asked')) /\ querying' \subseteq Contacts /\ local' \in 0 .. asked'
      /\ clicks' \in 0 .. MaxAsked /\ crossed' \in BOOLEAN
  BY <1>2, <1>4 DEF Typed
<1> QED
  BY <1>3, <1>4, <1>5, <1>6, <1>7, OtherStep

LEMMA SysButtonsKeep ==
  ASSUME DeskInv, SearchInv', NEW i \in DOMAIN sys, AddFriend(i) \/ CloseSys(i)
  PROVE  DeskInv'
<1>1. Typed /\ asked \in Nat /\ sys[i] \in SysDlgs(asked)
  BY DEF DeskInv, Typed, SearchInv
<1>2. /\ search' = search /\ infos' = infos /\ querying' = querying /\ local' = local
      /\ server' = server /\ down' = down
      /\ lost' = lost /\ taken' = taken /\ crossed' = crossed
  BY DEF AddFriend, CloseSys, details, history
<1>3. local' \in 0 .. asked /\ querying' \subseteq Contacts /\ crossed' \in BOOLEAN
  BY <1>1, <1>2 DEF Typed
<1>4. CASE CloseSys(i)
  <2>1. Quiet /\ sys' = RemoveAt(sys, i)
    BY <1>4 DEF CloseSys
  <2>2. asked' = asked /\ Asks("none", Nobody) /\ clicks' \in 0 .. MaxAsked
        /\ messages' \in 0 .. MaxMessages
    BY <1>1, <2>1, AskOrQuiet DEF Quiet
  <2>3. /\ sys' \in Seq(SysDlgs(asked)) /\ From(sys', sys, asked + 1)
        /\ \A k \in DOMAIN sys' : sys'[k].req # asked + 1
    BY <1>1, <2>1, ClosedSys
  <2>4. OthersWait("none", Nobody)
    BY <1>1, <1>2, <2>3, NobodyNext DEF OthersWait
  <2>5. infos' \in Seq(InfoDlgs(asked'))
    BY <1>1, <1>2, <2>2 DEF Typed
  <2> QED
    BY <1>2, <1>3, <2>2, <2>3, <2>4, <2>5, OtherStep
<1>5. CASE AddFriend(i)
  <2> DEFINE e == [sys[i] EXCEPT !.req = asked + 1]
             c == sys[i].from
  <2>1. Ask("ADD_CONTACT", c) /\ sys' = [sys EXCEPT ![i] = e]
    BY <1>5 DEF AddFriend
  <2>2. /\ asked' = asked + 1 /\ Asks("ADD_CONTACT", c) /\ clicks' \in 0 .. MaxAsked
        /\ messages' \in 0 .. MaxMessages
    BY <1>1, <2>1, AskOrQuiet DEF Ask
  <2>3. asked + 1 \in 0 .. asked + 1 /\ sys[i] \in SysDlgs(asked + 1)
    <3>1. sys \in Seq(SysDlgs(asked + 1))
      BY <1>1, SameWindows
    <3> QED
      BY <1>1, <3>1
  <2>4. e \in SysDlgs(asked + 1) /\ e.req = asked + 1 /\ e.from = c
    <3>1. e = [from |-> sys[i].from, req |-> asked + 1, button |-> sys[i].button]
      BY <2>3 DEF SysDlgs
    <3>2. sys[i].from \in Contacts /\ sys[i].button \in {"none", "once", "kept"}
      BY <2>3 DEF SysDlgs
    <3>3. [from |-> sys[i].from, req |-> asked + 1, button |-> sys[i].button] \in SysDlgs(asked + 1)
      BY <2>3, <3>2, Zenon DEF SysDlgs
    <3> QED
      BY <3>1, <3>3
  <2>5. c \in Contacts
    BY <2>3 DEF SysDlgs
  <2> HIDE DEF e, c
  <2>6. sys \in Seq(SysDlgs(asked + 1)) /\ infos' \in Seq(InfoDlgs(asked'))
    BY <1>1, <1>2, <2>2, SameWindows
  <2>7. sys' \in Seq(SysDlgs(asked')) /\ From(sys', sys, asked + 1)
    <3>1. \A k \in DOMAIN sys : sys[k].req # asked + 1
      BY <1>1, NobodyNext
    <3>2. e.req \in {0, asked + 1}
      BY <2>4
    <3>3. /\ [sys EXCEPT ![i] = e] \in Seq(SysDlgs(asked + 1))
          /\ From([sys EXCEPT ![i] = e], sys, asked + 1)
      BY <2>4, <2>6, <3>1, <3>2, ChangedFrom
    <3> QED
      BY <2>1, <2>2, <3>3
  <2>8. \A k \in DOMAIN sys' : sys'[k].req = asked + 1 => sys'[k].from = c
    <3>1. \A k \in DOMAIN sys' : k = i \/ (sys'[k] = sys[k] /\ k \in DOMAIN sys)
      BY <2>1
    <3>2. sys'[i] = e
      BY <2>1
    <3> QED
      BY <1>1, <2>4, <3>1, <3>2, NobodyNext
  <2>9. OthersWait("ADD_CONTACT", c)
    BY <1>1, <1>2, <2>2, <2>7, <2>8, NobodyNext DEF OthersWait
  <2>10. local' \in 0 .. asked'
    BY <1>1, <1>3, <2>2
  <2> QED
    BY <1>2, <1>3, <2>2, <2>5, <2>6, <2>7, <2>9, <2>10, OtherStep
<1> QED
  BY <1>4, <1>5

LEMMA InfoButtonsKeep ==
  ASSUME DeskInv, SearchInv',
         NEW i \in DOMAIN infos, RefreshInfo(i) \/ ChangeInfo(i) \/ CloseInfo(i)
  PROVE  DeskInv'
<1>1. Typed /\ asked \in Nat /\ infos[i] \in InfoDlgs(asked)
  BY DEF DeskInv, Typed, SearchInv
<1>2. /\ search' = search /\ sys' = sys /\ querying' = querying
      /\ server' = server /\ down' = down /\ lost' = lost /\ taken' = taken
  BY DEF RefreshInfo, ChangeInfo, CloseInfo, details, history
<1>3. querying' \subseteq Contacts
  BY <1>1, <1>2 DEF Typed
<1>4. CASE CloseInfo(i) \/ ChangeInfo(i)
  <2> DEFINE cmd == IF CloseInfo(i) THEN "none" ELSE "UPDATE_USER_INFO"
  <2>1. infos' = RemoveAt(infos, i) /\ (Ask(cmd, Me) \/ Quiet)
    BY <1>4 DEF CloseInfo, ChangeInfo
  <2>2. /\ asked' \in {asked, asked + 1} /\ Asks(cmd, Me) /\ clicks' \in 0 .. MaxAsked
        /\ messages' \in 0 .. MaxMessages
    BY <1>1, <2>1, AskOrQuiet DEF Asks
  <2>3. cmd \notin {"ADD_CONTACT", "GET_CONTACT_INFO"}
    OBVIOUS
  <2>4. /\ infos' \in Seq(InfoDlgs(asked)) /\ From(infos', infos, asked + 1)
        /\ \A k \in DOMAIN infos' : infos'[k].req # asked + 1
    BY <1>1, <2>1, ClosedInfo
  <2>5. local' \in 0 .. asked' /\ crossed' \in BOOLEAN
    <3>1. CASE CloseInfo(i)
      BY <1>1, <2>2, <3>1 DEF CloseInfo, details, history, Typed
    <3>2. CASE ChangeInfo(i)
      <4>1. local' = asked + 1 /\ asked' = asked + 1
        BY <3>2 DEF ChangeInfo, Saved, Ask
      <4>2. crossed' \in BOOLEAN
        BY <3>2 DEF ChangeInfo
      <4> QED
        BY <1>1, <4>1, <4>2
    <3> QED
      BY <1>4, <3>1, <3>2
  <2> HIDE DEF cmd
  <2>6. OthersWait(cmd, Me)
    BY <1>1, <1>2, <2>4, NobodyNext DEF OthersWait
  <2>7. sys' \in Seq(SysDlgs(asked')) /\ infos' \in Seq(InfoDlgs(asked'))
    <3>1. asked' \in Nat /\ asked <= asked'
      BY <1>1, <2>2
    <3> QED
      BY <1>1, <1>2, <2>2, <2>4, <3>1, SameWindows, GrowWindows
  <2> QED
    BY <1>2, <1>3, <2>2, <2>3, <2>5, <2>6, <2>7, OtherStep
<1>5. CASE RefreshInfo(i)
  <2> DEFINE e == [infos[i] EXCEPT !.req = asked + 1]
             n == infos[i].name
             cmd == IF n = Me THEN "GET_USER_INFO" ELSE "GET_CONTACT_INFO"
  <2>1. Ask(cmd, n) /\ infos' = [infos EXCEPT ![i] = e] /\ local' = local
    BY <1>5 DEF RefreshInfo, details
  <2>2. /\ asked' = asked + 1 /\ Asks(cmd, n) /\ clicks' \in 0 .. MaxAsked
        /\ messages' \in 0 .. MaxMessages
    BY <1>1, <2>1, AskOrQuiet DEF Ask
  <2>3. crossed' \in BOOLEAN
    BY <1>5 DEF RefreshInfo
  <2>4. n \in Names /\ cmd \in Infos /\ (cmd \in {"ADD_CONTACT", "GET_CONTACT_INFO"} => n \in Contacts)
    <3>1. n \in Names
      BY <1>1 DEF InfoDlgs
    <3> QED
      BY <3>1 DEF Infos, Names
  <2>5. e \in InfoDlgs(asked + 1) /\ e.req = asked + 1 /\ e.name = n
    <3>1. e = [name |-> n, req |-> asked + 1]
      BY <1>1 DEF InfoDlgs
    <3>2. asked + 1 \in 0 .. asked + 1
      BY <1>1
    <3>3. [name |-> n, req |-> asked + 1] \in InfoDlgs(asked + 1)
      BY <2>4, <3>2, Zenon DEF InfoDlgs
    <3> QED
      BY <3>1, <3>3
  <2> HIDE DEF e, n, cmd
  <2>6. infos \in Seq(InfoDlgs(asked + 1)) /\ sys' \in Seq(SysDlgs(asked'))
    BY <1>1, <1>2, <2>2, SameWindows
  <2>7. infos' \in Seq(InfoDlgs(asked')) /\ From(infos', infos, asked + 1)
    <3>1. \A k \in DOMAIN infos : infos[k].req # asked + 1
      BY <1>1, NobodyNext
    <3>2. e.req \in {0, asked + 1}
      BY <2>5
    <3>3. /\ [infos EXCEPT ![i] = e] \in Seq(InfoDlgs(asked + 1))
          /\ From([infos EXCEPT ![i] = e], infos, asked + 1)
      BY <2>5, <2>6, <3>1, <3>2, ChangedFrom
    <3> QED
      BY <2>1, <2>2, <3>3
  <2>8. \A k \in DOMAIN infos' : infos'[k].req = asked + 1 => infos'[k].name = n
    <3>1. \A k \in DOMAIN infos' : k = i \/ (infos'[k] = infos[k] /\ k \in DOMAIN infos)
      BY <2>1
    <3>2. infos'[i] = e
      BY <2>1
    <3> QED
      BY <1>1, <2>5, <3>1, <3>2, NobodyNext
  <2>9. OthersWait(cmd, n)
    BY <1>1, <1>2, <2>2, <2>4, <2>7, <2>8, NobodyNext DEF OthersWait
  <2>10. local' \in 0 .. asked'
    BY <1>1, <2>1, <2>2 DEF Typed
  <2> QED
    BY <1>2, <1>3, <2>2, <2>3, <2>4, <2>6, <2>7, <2>9, <2>10, OtherStep
<1> QED
  BY <1>4, <1>5

LEMMA InfoKeeps ==
  ASSUME DeskInv, SearchInv', GetOwnInfo \/ \E c \in Contacts : GetContactInfo(c)
  PROVE  DeskInv'
<1>1. Typed /\ asked \in Nat
  BY DEF DeskInv, Typed, SearchInv
<1>2. /\ search' = search /\ sys' = sys /\ local' = local /\ server' = server
      /\ down' = down /\ lost' = lost /\ taken' = taken /\ crossed' = crossed
  BY DEF GetOwnInfo, GetContactInfo, details, history
<1>3. CASE GetOwnInfo
  <2>1. infos' = NewInfo(Me) /\ Quiet /\ querying' = querying /\ Me \in Names
    BY <1>3 DEF GetOwnInfo, Names
  <2>2. /\ infos' \in Seq(InfoDlgs(asked)) /\ From(infos', infos, asked + 1)
        /\ \A k \in DOMAIN infos' : infos'[k].req # asked + 1
    BY <1>1, <2>1, NewInfoDlg
  <2>3. asked' = asked /\ Asks("none", Nobody) /\ clicks' \in 0 .. MaxAsked
        /\ messages' \in 0 .. MaxMessages
    BY <1>1, <2>1, AskOrQuiet DEF Quiet
  <2>4. OthersWait("none", Nobody)
    BY <1>1, <1>2, <2>2, NobodyNext DEF OthersWait
  <2>5. /\ sys' \in Seq(SysDlgs(asked')) /\ querying' \subseteq Contacts
        /\ local' \in 0 .. asked' /\ crossed' \in BOOLEAN
    BY <1>1, <1>2, <2>1, <2>3 DEF Typed
  <2> QED
    BY <1>2, <2>2, <2>3, <2>4, <2>5, OtherStep
<1>4. ASSUME NEW c \in Contacts, GetContactInfo(c)
      PROVE  DeskInv'
  <2>1. Ask("GET_CONTACT_INFO", c) /\ infos' = infos /\ querying' = querying \cup {c}
    BY <1>4 DEF GetContactInfo
  <2>2. /\ asked' = asked + 1 /\ Asks("GET_CONTACT_INFO", c) /\ clicks' \in 0 .. MaxAsked
        /\ messages' \in 0 .. MaxMessages
    BY <1>1, <2>1, AskOrQuiet DEF Ask
  <2>3. OthersWait("GET_CONTACT_INFO", c)
    BY <1>1, <1>2, <2>1, NobodyNext DEF OthersWait
  <2>4. sys' \in Seq(SysDlgs(asked')) /\ infos' \in Seq(InfoDlgs(asked'))
    BY <1>1, <1>2, <2>1, <2>2, SameWindows
  <2>5. querying' \subseteq Contacts /\ local' \in 0 .. asked' /\ crossed' \in BOOLEAN
    BY <1>1, <1>2, <2>1, <2>2 DEF Typed
  <2> QED
    BY <1>2, <2>2, <2>3, <2>4, <2>5, OtherStep
<1> QED
  BY <1>3, <1>4

-----------------------------------------------------------------------------
(***************************************************************************)
(* A step of the network.                                                  *)
(***************************************************************************)

LEMMA ServeKeeps ==
  ASSUME DeskInv, SearchInv', NEW r \in up, Serve(r)
  PROVE  DeskInv'
<1>1. Typed /\ asked \in Nat
  BY DEF DeskInv, Typed, SearchInv
<1>2. /\ up' = up \ {r} /\ search' = search /\ sys' = sys /\ infos' = infos
      /\ querying' = querying /\ local' = local /\ asked' = asked
      /\ clicks' = clicks /\ messages' = messages /\ taken' = taken /\ crossed' = crossed
  BY DEF Serve, bounds
<1> DEFINE TheReply(what) == [id |-> r.id, cmd |-> r.cmd, arg |-> r.arg, what |-> what]
<1>3. \/ lost' = With(lost, r) /\ down' = down
      \/ \E what \in Reply(r) : down' = down \cup {TheReply(what)} /\ lost' = lost
  BY DEF Serve
<1>4. r.id \in 1 .. asked
        /\ (r.cmd \in {"ADD_CONTACT", "GET_CONTACT_INFO"} => r.arg \in Contacts)
  BY <1>1 DEF Typed, Flying
<1>5. \A p \in Flying' : \/ p \in Flying
                         \/ p.id = r.id /\ p.cmd = r.cmd /\ p.arg = r.arg
  BY <1>2, <1>3 DEF Flying
<1>6. Flies("none", Nobody)
  <2>1. asked' # asked + 1 /\ r \in Flying
    BY <1>1, <1>2 DEF Flying
  <2> QED
    BY <1>5, <2>1 DEF Flies
<1>7. ASSUME NEW id \in UnderWay
      PROVE  id \in UnderWay' \/ (id = r.id /\ lost' = With(lost, r))
  <2>1. PICK p \in up \cup down : id = p.id
    BY <1>7 DEF UnderWay
  <2>2. CASE p = r
    <3>1. ASSUME NEW what, down' = down \cup {TheReply(what)}
          PROVE  id \in UnderWay'
      <4>1. TheReply(what) \in up' \cup down' /\ TheReply(what).id = id
        BY <2>1, <2>2, <3>1
      <4> HIDE DEF TheReply
      <4> QED
        BY <4>1 DEF UnderWay
    <3> QED
      BY <1>3, <2>1, <2>2, <3>1
  <2>3. CASE p # r
    <3>1. p \in up' \cup down'
      BY <1>2, <1>3, <2>1, <2>3
    <3> QED
      BY <2>1, <3>1 DEF UnderWay
  <2> QED
    BY <2>2, <2>3
<1>8. lost \subseteq lost' /\ lost' \subseteq lost \cup {r.id}
      /\ (lost' = With(lost, r) /\ Waited(r.id) => r.id \in lost')
  BY <1>3 DEF With
<1>9. Remembers
  BY <1>2, <1>7, <1>8 DEF Remembers, Waits, Waited
<1>10. SearchWaits("none") /\ OthersWait("none", Nobody)
  BY <1>1, <1>2, NobodyNext DEF SearchWaits, OthersWait
<1>11. Matched' /\ Waiting'
  BY <1>6, <1>9, <1>10, AnyStep
<1>12. server' \in 0 .. asked'
  BY <1>1, <1>2, <1>4 DEF Serve, Typed
<1>13. \A p \in down' : p.cmd = "GET_USER_INFO" => p.what \in 0 .. asked'
  <2>1. \A p \in down : p.cmd = "GET_USER_INFO" => p.what \in 0 .. asked'
    BY <1>1, <1>2 DEF Typed
  <2>2. ASSUME NEW what \in Reply(r), r.cmd = "GET_USER_INFO"
        PROVE  what \in 0 .. asked'
    <3>1. what = server
      BY <2>2 DEF Reply
    <3> QED
      BY <1>1, <1>2, <3>1 DEF Typed
  <2> QED
    BY <1>3, <2>1, <2>2
<1>14. /\ \A p \in Flying' :
            /\ p.id \in 1 .. asked'
            /\ p.cmd \in {"ADD_CONTACT", "GET_CONTACT_INFO"} => p.arg \in Contacts
       /\ lost' \subseteq 1 .. asked'
  BY <1>1, <1>2, <1>4, <1>5, <1>8 DEF Typed
<1>15. Typed'
  BY <1>1, <1>2, <1>12, <1>13, <1>14 DEF Typed
<1> QED
  BY <1>11, <1>15 DEF DeskInv

LEMMA LoseKeeps ==
  ASSUME DeskInv, SearchInv', NEW r \in up \cup down, Lose(r)
  PROVE  DeskInv'
<1>1. Typed /\ asked \in Nat
  BY DEF DeskInv, Typed, SearchInv
<1>2. /\ up' = up \ {r} /\ down' = down \ {r} /\ lost' = With(lost, r)
      /\ search' = search /\ sys' = sys /\ infos' = infos
      /\ querying' = querying /\ local' = local /\ server' = server /\ asked' = asked
      /\ clicks' = clicks /\ messages' = messages /\ taken' = taken
  BY DEF Lose, bounds, details
<1>3. r.id \in 1 .. asked /\ crossed' \in BOOLEAN
  BY <1>1 DEF Typed, Flying, Lose
<1>4. Flying' \subseteq Flying
  BY <1>2 DEF Flying
<1>5. Flies("none", Nobody)
  <2>1. asked' # asked + 1
    BY <1>1, <1>2
  <2> QED
    BY <1>4, <2>1 DEF Flies
<1>6. ASSUME NEW id \in UnderWay
      PROVE  id \in UnderWay' \/ id = r.id
  <2>1. PICK p \in up \cup down : id = p.id
    BY <1>6 DEF UnderWay
  <2>2. CASE p # r
    <3>1. p \in up' \cup down'
      BY <1>2, <2>1, <2>2
    <3> QED
      BY <2>1, <3>1 DEF UnderWay
  <2> QED
    BY <2>1, <2>2
<1>7. lost \subseteq lost' /\ lost' \subseteq lost \cup {r.id}
      /\ (Waited(r.id) => r.id \in lost')
  BY <1>2 DEF With
<1>8. Remembers
  BY <1>2, <1>6, <1>7 DEF Remembers, Waits, Waited
<1>9. SearchWaits("none") /\ OthersWait("none", Nobody)
  BY <1>1, <1>2, NobodyNext DEF SearchWaits, OthersWait
<1>10. Matched' /\ Waiting'
  BY <1>5, <1>8, <1>9, AnyStep
<1>11. Typed'
  BY <1>1, <1>2, <1>3, <1>4, <1>7 DEF Typed
<1> QED
  BY <1>10, <1>11 DEF DeskInv

\* A reply arrives: no window waits for it any more, or another one took it.
LEMMA ReplyStep ==
  ASSUME DeskInv, SearchInv', NEW r \in down, down' = down \ {r},
         UNCHANGED <<bounds, lost, crossed>>, server' = server, querying' = querying,
         local' \in 0 .. asked,
         NEW arg, Asks("GET_CONTACT_INFO", arg), asked' # asked => arg \in Contacts,
         taken \subseteq taken', taken' \subseteq taken \cup {r.id},
         sys' \in Seq(SysDlgs(asked)), infos' \in Seq(InfoDlgs(asked)),
         From(sys', sys, asked + 1), From(infos', infos, asked + 1),
         SearchWaits("GET_CONTACT_INFO"),
         search'.page \in {"LIST", "ADD"} /\ ~search'.next => search'.req # r.id,
         \/ r.id \in taken'
         \/ /\ r.id # search'.add
            /\ \A i \in DOMAIN sys' : sys'[i].req # r.id
            /\ \A i \in DOMAIN infos' : infos'[i].req # r.id
  PROVE  DeskInv'
<1>1. /\ Typed /\ asked \in Nat /\ asked' \in {asked, asked + 1}
      /\ 0 .. asked \subseteq 0 .. asked' /\ 1 .. asked \subseteq 1 .. asked'
      /\ asked <= asked' /\ asked' \in Nat /\ asked + 1 \notin 0 .. asked
  BY DEF DeskInv, Typed, SearchInv, Asks
<1>2. /\ \A k \in DOMAIN sys' : sys'[k].req # asked + 1
      /\ \A k \in DOMAIN infos' : infos'[k].req # asked + 1
  <2>1. /\ \A k \in DOMAIN sys' : sys'[k] \in SysDlgs(asked)
        /\ \A k \in DOMAIN infos' : infos'[k] \in InfoDlgs(asked)
    OBVIOUS
  <2> QED
    BY <1>1, <2>1 DEF SysDlgs, InfoDlgs
<1>3. OthersWait("GET_CONTACT_INFO", arg)
  BY <1>2 DEF OthersWait
<1> DEFINE n == Request("GET_CONTACT_INFO", arg)
<1>4. n.id = asked + 1 /\ n.cmd = "GET_CONTACT_INFO" /\ n.arg = arg
  BY DEF Request
<1>5. /\ \A p \in Flying' : p \in Flying \/ (asked' = asked + 1 /\ p = n)
      /\ asked' = asked + 1 => n \in up' \cup down'
      /\ \A p \in Flying : p = r \/ p \in up' \cup down'
  BY <1>1 DEF Asks, Flying
<1> HIDE DEF n
<1>6. Flies("GET_CONTACT_INFO", arg)
  BY <1>4, <1>5 DEF Flies, UnderWay
<1>7. ASSUME NEW id \in UnderWay
      PROVE  id \in UnderWay' \/ id = r.id
  <2>1. PICK p \in up \cup down : id = p.id
    BY <1>7 DEF UnderWay
  <2> QED
    BY <1>5, <2>1 DEF UnderWay, Flying
<1>8. Remembers
  BY <1>7 DEF Remembers, Waits
<1>9. Matched' /\ Waiting'
  BY <1>3, <1>6, <1>8, AnyStep
<1>10. ASSUME NEW p \in Flying'
       PROVE  /\ p.id \in 1 .. asked'
              /\ p.cmd \in {"ADD_CONTACT", "GET_CONTACT_INFO"} => p.arg \in Contacts
  <2>1. CASE p \in Flying
    BY <1>1, <2>1 DEF Typed
  <2>2. CASE asked' = asked + 1 /\ p = n
    BY <1>1, <1>4, <2>2
  <2> QED
    BY <1>5, <2>1, <2>2
<1>11. sys' \in Seq(SysDlgs(asked')) /\ infos' \in Seq(InfoDlgs(asked'))
  BY <1>1, GrowWindows
<1>12. \A p \in down' : p.cmd = "GET_USER_INFO" => p.what \in 0 .. asked'
  BY <1>1 DEF Typed
<1>13. lost' \subseteq 1 .. asked' /\ taken' \subseteq 1 .. asked'
       /\ local' \in 0 .. asked' /\ server' \in 0 .. asked'
  <2>1. r.id \in 1 .. asked
    BY <1>1 DEF Typed, Flying
  <2> QED
    BY <1>1, <2>1 DEF Typed
<1>14. querying' \subseteq Contacts /\ clicks' \in 0 .. MaxAsked /\ messages' \in 0 .. MaxMessages
       /\ crossed' \in BOOLEAN
  BY <1>1 DEF Typed, bounds
<1>15. Typed'
  BY <1>10, <1>11, <1>12, <1>13, <1>14 DEF Typed
<1> QED
  BY <1>9, <1>15 DEF DeskInv

LEMMA SameLists ==
  ASSUME Typed
  PROVE  /\ sys \in Seq(SysDlgs(asked)) /\ infos \in Seq(InfoDlgs(asked))
         /\ From(sys, sys, asked + 1) /\ From(infos, infos, asked + 1)
BY NobodyNext DEF Typed

LEMMA SearchResultKeeps ==
  ASSUME DeskInv, SearchInv', NEW r \in down, Receive(r), OnSearchResult(r)
  PROVE  DeskInv'
<1>1. Typed /\ Matched /\ r \in Flying
  BY DEF DeskInv, Flying
<1>2. /\ down' = down \ {r} /\ UNCHANGED <<bounds, lost, crossed>> /\ server' = server
      /\ querying' = querying /\ local' = local /\ sys' = sys /\ infos' = infos
      /\ asked' = asked /\ up' = up /\ taken' = taken
  BY DEF Receive, OnSearchResult, windows, details
<1>3. r.cmd \in Searches
  BY DEF OnSearchResult, Searches
<1>4. /\ search'.req \in {0, search.req} /\ search'.add = search.add
      /\ search'.page = search.page
      /\ search'.page \in {"LIST", "ADD"} => search'.next
  <2>1. CASE Open
    <3> DEFINE f == [search EXCEPT !.total = @ + 1]
    <3>1. search \in SearchDlgs(asked)
      BY <1>1, <2>1, Dialog DEF Typed
    <3>2. search' = Refresh(f, search.total)
      BY <2>1 DEF OnSearchResult, SearchResult
    <3>3. /\ f.req = search.req /\ f.add = search.add /\ f.page = search.page
          /\ f.cur = search.cur
      BY <3>1 DEF SearchDlgs
    <3>4. CASE search.total = f.cur
      <4>1. search' = f /\ search.page \notin {"LIST", "ADD"}
        <5>1. Pages(search) /\ search.total \in Nat /\ search.cur \in Int
          BY <1>1, <3>1 DEF Typed, SearchInv, SearchDlgs
        <5> QED
          BY <3>2, <3>3, <3>4, <5>1 DEF Pages, Refresh
      <4> HIDE DEF f
      <4> QED
        BY <3>3, <4>1
    <3>5. CASE search.total # f.cur
      <4>1. search' = [f EXCEPT !.cur = search.total, !.previous = search.total # 0,
                                !.next = TRUE, !.req = 0]
        BY <3>2, <3>5 DEF Refresh
      <4>2. /\ search'.req = 0 /\ search'.next = TRUE /\ search'.add = f.add
            /\ search'.page = f.page
        BY <3>1, <4>1 DEF SearchDlgs
      <4> HIDE DEF f
      <4> QED
        BY <3>3, <4>2
    <3> QED
      BY <3>4, <3>5
  <2>2. CASE ~Open
    BY <2>2 DEF OnSearchResult, Open
  <2> QED
    BY <2>1, <2>2
<1>5. SearchWaits("GET_CONTACT_INFO")
  BY <1>4 DEF SearchWaits
<1>6. /\ r.id # search.add
      /\ \A i \in DOMAIN sys : sys[i].req # r.id
      /\ \A i \in DOMAIN infos : infos[i].req # r.id
  BY <1>1, <1>3 DEF Matched, Searches, Infos
<1>7. local' \in 0 .. asked /\ Asks("GET_CONTACT_INFO", Nobody)
  BY <1>1, <1>2 DEF Typed, Asks
<1> QED
  BY <1>1, <1>2, <1>4, <1>5, <1>6, <1>7, SameLists, ReplyStep

\* taken after reply r went to a window that waited for req: if another window
\* waits for r, it is in the history.
LEMMA TakenHistory ==
  ASSUME NEW req, NEW r, NEW t, t = TakenBy(req, r) \/ t = With(taken, r)
  PROVE  /\ taken \subseteq t /\ t \subseteq taken \cup {r.id}
         /\ \/ r.id \in t
            \/ t = TakenBy(req, r) /\ req = r.id
            \/ ~Waited(r.id)
BY DEF TakenBy, With

LEMMA AddReplyKeeps ==
  ASSUME DeskInv, SearchInv', NEW r \in down, Receive(r), OnAddContactReply(r)
  PROVE  DeskInv'
<1> DEFINE c == r.arg
<1>1. Typed /\ Matched /\ r \in Flying /\ asked \in Nat
  BY DEF DeskInv, Flying, Typed, SearchInv
<1>2. /\ down' = down \ {r} /\ UNCHANGED <<bounds, lost, crossed>> /\ server' = server
      /\ querying' = querying /\ local' = local /\ infos' = infos /\ r.cmd = "ADD_CONTACT"
  BY DEF Receive, OnAddContactReply, details
<1>3. c \in Contacts /\ r.id \in 1 .. asked /\ r.id # 0
  BY <1>1, <1>2 DEF Typed
<1>4. r.id # search.req /\ \A i \in DOMAIN infos : infos[i].req # r.id
  BY <1>1, <1>2 DEF Matched, Searches, Infos
<1>5. local' \in 0 .. asked /\ infos' \in Seq(InfoDlgs(asked)) /\ From(infos', infos, asked + 1)
  BY <1>1, <1>2, SameLists DEF Typed
<1>6. CASE SearchTakes(c)
  <2>1. /\ search' = [search EXCEPT !.add = 0] /\ taken' = TakenBy(search.add, r)
        /\ sys' = sys /\ Asks("GET_CONTACT_INFO", c)
    BY <1>6 DEF OnAddContactReply, Asks
  <2>2. search \in SearchDlgs(asked)
    <3>1. Open
      BY <1>6 DEF SearchTakes, Open
    <3> QED
      BY <1>1, <3>1, Dialog DEF Typed
  <2>3. /\ search'.add = 0 /\ search'.req = search.req /\ search'.next = search.next
        /\ search'.page = search.page
    BY <2>1, <2>2 DEF SearchDlgs
  <2>4. SearchWaits("GET_CONTACT_INFO")
    BY <2>3 DEF SearchWaits
  <2>5. taken \subseteq taken' /\ taken' \subseteq taken \cup {r.id}
        /\ (r.id \in taken' \/ search.add = r.id \/ ~Waited(r.id))
    BY <2>1, TakenHistory
  <2>6. \/ r.id \in taken'
        \/ /\ r.id # search'.add
           /\ \A i \in DOMAIN sys' : sys'[i].req # r.id
           /\ \A i \in DOMAIN infos' : infos'[i].req # r.id
    <3>1. CASE search.add = r.id
      BY <1>1, <1>2, <1>3, <1>4, <2>1, <2>3, <3>1 DEF Matched
    <3>2. CASE ~Waited(r.id)
      BY <1>2, <1>3, <2>1, <2>3, <3>2 DEF Waited
    <3> QED
      BY <2>5, <3>1, <3>2
  <2>7. sys' \in Seq(SysDlgs(asked)) /\ From(sys', sys, asked + 1)
    BY <1>1, <2>1, SameLists
  <2> HIDE DEF c
  <2> QED
    BY <1>2, <1>3, <1>4, <1>5, <2>1, <2>3, <2>4, <2>5, <2>6, <2>7, ReplyStep
<1>7. CASE ~SearchTakes(c)
  <2>1. /\ search' = search /\ asked' = asked /\ Asks("GET_CONTACT_INFO", c)
    BY <1>7 DEF OnAddContactReply, Asks
  <2>2. SearchWaits("GET_CONTACT_INFO")
    BY <2>1 DEF SearchWaits
  <2>3. ASSUME NEW req, taken' = TakenBy(req, r) \/ taken' = With(taken, r),
               sys' \in Seq(SysDlgs(asked)), From(sys', sys, asked + 1),
               taken' = TakenBy(req, r) /\ req = r.id =>
                 r.id # search.add /\ \A i \in DOMAIN sys' : sys'[i].req # r.id,
               \A j \in DOMAIN sys' : sys'[j].req # 0 => \E i \in DOMAIN sys : sys[i].req = sys'[j].req
        PROVE  DeskInv'
    <3>1. taken \subseteq taken' /\ taken' \subseteq taken \cup {r.id}
          /\ \/ r.id \in taken'
             \/ taken' = TakenBy(req, r) /\ req = r.id
             \/ ~Waited(r.id)
      BY <2>3, TakenHistory
    <3>2. \/ r.id \in taken'
          \/ /\ r.id # search'.add
             /\ \A i \in DOMAIN sys' : sys'[i].req # r.id
             /\ \A i \in DOMAIN infos' : infos'[i].req # r.id
      <4>1. CASE taken' = TakenBy(req, r) /\ req = r.id
        BY <1>2, <1>4, <2>1, <2>3, <4>1
      <4>2. CASE ~Waited(r.id)
        BY <1>2, <1>3, <1>4, <2>1, <2>3, <4>2 DEF Waited
      <4> QED
        BY <3>1, <4>1, <4>2
    <3>3. search'.page \in {"LIST", "ADD"} /\ ~search'.next => search'.req # r.id
      BY <1>4, <2>1
    <3> HIDE DEF c
    <3> QED
      BY <1>2, <1>3, <1>5, <2>1, <2>2, <2>3, <3>1, <3>2, <3>3, ReplyStep
  <2>4. ASSUME NEW i \in SysTakes(c), sys' = [sys EXCEPT ![i] = Answered(@)],
               taken' = TakenBy(sys[i].req, r)
        PROVE  DeskInv'
    <3> DEFINE e == Answered(sys[i])
    <3>1. i \in DOMAIN sys /\ sys[i].req # 0 /\ sys[i].from = c
      BY <2>4 DEF SysTakes
    <3>2. e \in SysDlgs(asked) /\ e.req = 0
      <4>1. sys[i] \in SysDlgs(asked) /\ 0 \in 0 .. asked
        BY <1>1, <3>1 DEF Typed
      <4> DEFINE b == IF sys[i].button = "once" THEN "none" ELSE sys[i].button
      <4>2. e = [sys[i] EXCEPT !.req = 0, !.button = b]
        BY DEF Answered
      <4>3. b \in {"none", "once", "kept"}
        BY <4>1 DEF SysDlgs
      <4> HIDE DEF b, e
      <4>4. e \in SysDlgs(asked)
        BY <4>1, <4>2, <4>3, Zenon DEF SysDlgs
      <4>5. e.req = 0
        BY <4>1, <4>2 DEF SysDlgs
      <4> QED
        BY <4>4, <4>5
    <3>3. sys' = [sys EXCEPT ![i] = e]
      BY <2>4
    <3> HIDE DEF e
    <3>4. \A k \in DOMAIN sys : sys[k].req # asked + 1
      BY <1>1, NobodyNext
    <3>5. sys' \in Seq(SysDlgs(asked)) /\ From(sys', sys, asked + 1)
      <4>1. sys \in Seq(SysDlgs(asked)) /\ e.req \in {0, asked + 1}
        BY <1>1, <3>2 DEF Typed
      <4>2. /\ [sys EXCEPT ![i] = e] \in Seq(SysDlgs(asked))
            /\ From([sys EXCEPT ![i] = e], sys, asked + 1)
        BY <3>1, <3>2, <3>4, <4>1, ChangedFrom
      <4> QED
        BY <3>3, <4>2
    <3>6. /\ DOMAIN sys' = DOMAIN sys /\ sys'[i].req = 0
          /\ \A j \in DOMAIN sys : j # i => sys'[j] = sys[j]
      BY <3>1, <3>2, <3>3
    <3>7. \A j \in DOMAIN sys' : sys'[j].req # 0 =>
            \E k \in DOMAIN sys : sys[k].req = sys'[j].req
      BY <3>6
    <3>8. sys[i].req = r.id =>
            r.id # search.add /\ \A j \in DOMAIN sys' : sys'[j].req # r.id
      BY <1>1, <1>3, <3>1, <3>6 DEF Matched, Different
    <3> QED
      BY <2>3, <2>4, <3>5, <3>7, <3>8
  <2>5. ASSUME NEW b \in {"none", "once"},
               sys' = Append(sys, [from |-> c, req |-> 0, button |-> b]),
               taken' = With(taken, r)
        PROVE  DeskInv'
    <3> DEFINE e == [from |-> c, req |-> 0, button |-> b]
    <3>1. sys' \in Seq(SysDlgs(asked)) /\ From(sys', sys, asked + 1)
      BY <1>1, <1>3, <2>5, NewSys
    <3>2. DOMAIN sys' = 1 .. Len(sys) + 1 /\ sys'[Len(sys) + 1] = e
          /\ (\A j \in 1 .. Len(sys) : sys'[j] = sys[j]) /\ DOMAIN sys = 1 .. Len(sys)
          /\ Len(sys) \in Nat
      BY <1>1, <2>5 DEF Typed
    <3>3. e.req = 0
      OBVIOUS
    <3> HIDE DEF e
    <3>4. \A j \in DOMAIN sys' : sys'[j].req # 0 =>
            \E k \in DOMAIN sys : sys[k].req = sys'[j].req
      BY <3>2, <3>3
    <3>5. taken' = TakenBy(0, r)
      BY <1>3, <2>5 DEF TakenBy
    <3> QED
      BY <1>3, <2>3, <3>1, <3>4, <3>5
  <2>6. \/ \E i \in SysTakes(c) : sys' = [sys EXCEPT ![i] = Answered(@)]
                                 /\ taken' = TakenBy(sys[i].req, r)
        \/ /\ sys' = Append(sys, [from |-> c, req |-> 0,
                button |-> IF r.what = "AUTH_REJECTED" THEN "once" ELSE "none"])
           /\ taken' = With(taken, r)
    BY <1>7 DEF OnAddContactReply
  <2>7. (IF r.what = "AUTH_REJECTED" THEN "once" ELSE "none") \in {"none", "once"}
    OBVIOUS
  <2> HIDE DEF c
  <2> QED
    BY <2>4, <2>5, <2>6, <2>7
<1> QED
  BY <1>6, <1>7

\* A dialog of details shows what a reply says, a new one if there is none.
LEMMA DetailsStep ==
  ASSUME DeskInv, SearchInv', NEW r \in down, r.cmd \in Infos, down' = down \ {r},
         UNCHANGED <<bounds, lost, crossed>>, server' = server, querying' = querying,
         search' = search, sys' = sys, up' = up, asked' = asked, local' \in 0 .. asked,
         NEW n \in Names, Updated(n, r) \/ (infos' = NewInfo(n) /\ taken' = With(taken, r))
  PROVE  DeskInv'
<1>1. Typed /\ Matched /\ r \in Flying /\ asked \in Nat
  BY DEF DeskInv, Flying, Typed, SearchInv
<1>2. r.id \in 1 .. asked /\ r.id # 0
  BY <1>1 DEF Typed
<1>3. r.id # search.req /\ r.id # search.add /\ \A i \in DOMAIN sys : sys[i].req # r.id
  BY <1>1 DEF Matched, Searches, Infos
<1>4. sys' \in Seq(SysDlgs(asked)) /\ From(sys', sys, asked + 1)
  BY <1>1, SameLists
<1>5. SearchWaits("GET_CONTACT_INFO") /\ Asks("GET_CONTACT_INFO", Nobody)
  BY DEF SearchWaits, Asks
<1>6. search'.page \in {"LIST", "ADD"} /\ ~search'.next => search'.req # r.id
  BY <1>3
<1>7. ASSUME NEW req, taken' = TakenBy(req, r) \/ taken' = With(taken, r),
             infos' \in Seq(InfoDlgs(asked)), From(infos', infos, asked + 1),
             taken' = TakenBy(req, r) /\ req = r.id => \A j \in DOMAIN infos' : infos'[j].req # r.id,
             \A j \in DOMAIN infos' : infos'[j].req # 0 =>
               \E i \in DOMAIN infos : infos[i].req = infos'[j].req
      PROVE  DeskInv'
  <2>1. taken \subseteq taken' /\ taken' \subseteq taken \cup {r.id}
        /\ \/ r.id \in taken'
           \/ taken' = TakenBy(req, r) /\ req = r.id
           \/ ~Waited(r.id)
    BY <1>7, TakenHistory
  <2>2. \/ r.id \in taken'
        \/ /\ r.id # search'.add
           /\ \A i \in DOMAIN sys' : sys'[i].req # r.id
           /\ \A i \in DOMAIN infos' : infos'[i].req # r.id
    <3>1. CASE taken' = TakenBy(req, r) /\ req = r.id
      BY <1>3, <1>7, <3>1
    <3>2. CASE ~Waited(r.id)
      BY <1>2, <1>3, <1>7, <3>2 DEF Waited
    <3> QED
      BY <2>1, <3>1, <3>2
  <2> QED
    BY <1>4, <1>5, <1>6, <1>7, <2>1, <2>2, ReplyStep
<1>8. ASSUME NEW i \in Shows(n), infos' = [infos EXCEPT ![i].req = 0],
             taken' = TakenBy(infos[i].req, r)
      PROVE  DeskInv'
  <2> DEFINE e == [infos[i] EXCEPT !.req = 0]
  <2>1. i \in DOMAIN infos
    BY DEF Shows
  <2>2. e \in InfoDlgs(asked) /\ e.req = 0
    <3>1. infos[i] \in InfoDlgs(asked) /\ 0 \in 0 .. asked
      BY <1>1, <2>1 DEF Typed
    <3>2. e \in InfoDlgs(asked)
      BY <3>1, Zenon DEF InfoDlgs
    <3>3. e.req = 0
      BY <3>1 DEF InfoDlgs
    <3> QED
      BY <3>2, <3>3
  <2>3. infos' = [infos EXCEPT ![i] = e]
    BY <1>8
  <2> HIDE DEF e
  <2>4. \A k \in DOMAIN infos : infos[k].req # asked + 1
    BY <1>1, NobodyNext
  <2>5. infos' \in Seq(InfoDlgs(asked)) /\ From(infos', infos, asked + 1)
    <3>1. infos \in Seq(InfoDlgs(asked)) /\ e.req \in {0, asked + 1}
      BY <1>1, <2>2 DEF Typed
    <3>2. /\ [infos EXCEPT ![i] = e] \in Seq(InfoDlgs(asked))
          /\ From([infos EXCEPT ![i] = e], infos, asked + 1)
      BY <2>1, <2>2, <2>4, <3>1, ChangedFrom
    <3> QED
      BY <2>3, <3>2
  <2>6. /\ DOMAIN infos' = DOMAIN infos /\ infos'[i].req = 0
        /\ \A j \in DOMAIN infos : j # i => infos'[j] = infos[j]
    BY <2>1, <2>2, <2>3
  <2>7. \A j \in DOMAIN infos' : infos'[j].req # 0 =>
          \E k \in DOMAIN infos : infos[k].req = infos'[j].req
    BY <2>6
  <2>8. infos[i].req = r.id => \A j \in DOMAIN infos' : infos'[j].req # r.id
    BY <1>1, <1>2, <2>1, <2>6 DEF Matched, Different
  <2> QED
    BY <1>7, <1>8, <2>5, <2>7, <2>8
<1>9. CASE infos' = NewInfo(n) /\ taken' = With(taken, r)
  <2> DEFINE e == [name |-> n, req |-> 0]
  <2>1. infos' \in Seq(InfoDlgs(asked)) /\ From(infos', infos, asked + 1)
    BY <1>1, <1>9, NewInfoDlg
  <2>2. DOMAIN infos' = 1 .. Len(infos) + 1 /\ infos'[Len(infos) + 1] = e
        /\ (\A j \in 1 .. Len(infos) : infos'[j] = infos[j]) /\ DOMAIN infos = 1 .. Len(infos)
        /\ Len(infos) \in Nat
    BY <1>1, <1>9 DEF Typed, NewInfo
  <2>3. e.req = 0
    OBVIOUS
  <2> HIDE DEF e
  <2>4. \A j \in DOMAIN infos' : infos'[j].req # 0 =>
          \E k \in DOMAIN infos : infos[k].req = infos'[j].req
    BY <2>2, <2>3
  <2>5. taken' = TakenBy(0, r)
    BY <1>2, <1>9 DEF TakenBy
  <2> QED
    BY <1>2, <1>7, <2>1, <2>4, <2>5
<1> QED
  BY <1>8, <1>9 DEF Updated

LEMMA InfoRepliesKeep ==
  ASSUME DeskInv, SearchInv', NEW r \in down, Receive(r),
         OnContactInfoReply(r) \/ OnUserInfoReply(r)
  PROVE  DeskInv'
<1>1. Typed /\ Matched /\ r \in Flying /\ asked \in Nat
  BY DEF DeskInv, Flying, Typed, SearchInv
<1>2. /\ down' = down \ {r} /\ UNCHANGED <<bounds, lost, crossed>> /\ server' = server
      /\ querying' = querying /\ search' = search /\ sys' = sys /\ up' = up /\ asked' = asked
  BY DEF Receive, OnContactInfoReply, OnUserInfoReply, details
<1>3. CASE OnContactInfoReply(r)
  <2>1. r.cmd = "GET_CONTACT_INFO" /\ local' = local
    BY <1>3 DEF OnContactInfoReply, details
  <2>2. r.arg \in Names /\ r.cmd \in Infos /\ local' \in 0 .. asked
    BY <1>1, <2>1 DEF Typed, Names, Infos
  <2>3. CASE Updated(r.arg, r) \/ (infos' = NewInfo(r.arg) /\ taken' = With(taken, r))
    BY <1>2, <2>2, <2>3, DetailsStep
  <2>4. CASE Shows(r.arg) = {} /\ UNCHANGED <<infos, taken>>
    <3>1. r.id # search.req /\ r.id # search.add /\ (\A i \in DOMAIN sys : sys[i].req # r.id)
      BY <1>1, <2>1 DEF Matched, Searches, Infos
    <3>2. \A i \in DOMAIN infos : infos[i].req # r.id
      BY <1>1, <2>4 DEF Matched, Shows
    <3>3. SearchWaits("GET_CONTACT_INFO") /\ Asks("GET_CONTACT_INFO", Nobody)
      BY <1>2 DEF SearchWaits, Asks
    <3>4. /\ sys' \in Seq(SysDlgs(asked)) /\ From(sys', sys, asked + 1)
          /\ infos' \in Seq(InfoDlgs(asked)) /\ From(infos', infos, asked + 1)
      BY <1>1, <1>2, <2>4, SameLists
    <3> QED
      BY <1>2, <2>2, <2>4, <3>1, <3>2, <3>3, <3>4, ReplyStep
  <2> QED
    BY <1>3, <2>3, <2>4 DEF OnContactInfoReply
<1>4. CASE OnUserInfoReply(r)
  <2>1. r.cmd = "GET_USER_INFO" /\ local' = r.what
    BY <1>4 DEF OnUserInfoReply
  <2>2. Me \in Names /\ r.cmd \in Infos /\ local' \in 0 .. asked
    BY <1>1, <2>1 DEF Typed, Names, Infos
  <2>3. Updated(Me, r) \/ (infos' = NewInfo(Me) /\ taken' = With(taken, r))
    BY <1>4 DEF OnUserInfoReply
  <2> QED
    BY <1>2, <2>2, <2>3, DetailsStep
<1> QED
  BY <1>3, <1>4

LEMMA DeskInit == Init => DeskInv
<1> SUFFICES ASSUME Init
             PROVE  DeskInv
  OBVIOUS
<1>1. /\ search = NoDlg /\ sys = <<>> /\ infos = <<>> /\ querying = {}
      /\ local = 0 /\ server = 0 /\ up = {} /\ down = {} /\ asked = 0
      /\ clicks = 0 /\ messages = 0 /\ lost = {} /\ taken = {} /\ crossed = FALSE
  BY DEF Init
<1>2. SearchInv
  BY <1>1, NoDlgPages DEF SearchInv
<1>3. Typed
  <2>1. 0 \in 0 .. MaxAsked /\ 0 \in 0 .. MaxMessages /\ 0 \in 0 .. 0
    BY DeskAssumption
  <2>2. sys \in Seq(SysDlgs(asked)) /\ infos \in Seq(InfoDlgs(asked))
    BY <1>1
  <2>3. Flying = {} /\ lost \subseteq 1 .. asked /\ taken \subseteq 1 .. asked
    BY <1>1 DEF Flying
  <2> QED
    BY <1>1, <1>2, <2>1, <2>2, <2>3 DEF Typed
<1>4. Matched /\ Waiting
  BY <1>1 DEF Matched, Waiting, Different, Flying, NoDlg
<1> QED
  BY <1>3, <1>4 DEF DeskInv

LEMMA DeskNext ==
  ASSUME DeskInv, [Next]_vars
  PROVE  DeskInv'
<1>1. SearchInv /\ SearchInv'
  BY SearchInvPreserved DEF DeskInv, Typed
<1>2. CASE OpenSearch \/ CloseSearch \/ Choose \/ SearchUser \/ ChooseAgain \/ Back \/ Turn
  BY <1>1, <1>2, ButtonsKeep
<1>3. ASSUME NEW c \in Contacts, SelectUser(c) \/ OnRecvMessage(c) \/ GetContactInfo(c)
      PROVE  DeskInv'
  BY <1>1, <1>3, ButtonsKeep, MessageKeeps, InfoKeeps
<1>4. ASSUME NEW i \in DOMAIN sys, AddFriend(i) \/ CloseSys(i)
      PROVE  DeskInv'
  BY <1>1, <1>4, SysButtonsKeep
<1>5. CASE GetOwnInfo
  BY <1>1, <1>5, InfoKeeps
<1>6. ASSUME NEW i \in DOMAIN infos, RefreshInfo(i) \/ ChangeInfo(i) \/ CloseInfo(i)
      PROVE  DeskInv'
  BY <1>1, <1>6, InfoButtonsKeep
<1>7. ASSUME NEW r \in up \cup down, Lose(r)
      PROVE  DeskInv'
  BY <1>1, <1>7, LoseKeeps
<1>8. ASSUME NEW r \in up, Serve(r)
      PROVE  DeskInv'
  BY <1>1, <1>8, ServeKeeps
<1>9. ASSUME NEW r \in down, Receive(r)
      PROVE  DeskInv'
  BY <1>1, <1>9, SearchResultKeeps, AddReplyKeeps, InfoRepliesKeep DEF Receive
<1>10. CASE UNCHANGED vars
  <2>1. /\ search' = search /\ sys' = sys /\ infos' = infos /\ querying' = querying
        /\ local' = local /\ server' = server /\ up' = up /\ down' = down /\ asked' = asked
        /\ clicks' = clicks /\ messages' = messages /\ lost' = lost /\ taken' = taken
        /\ crossed' = crossed
    BY <1>10 DEF vars, details, bounds, history
  <2>2. Typed'
    BY <1>1, <2>1 DEF DeskInv, Typed, Flying
  <2>3. Matched'
    BY <2>1 DEF DeskInv, Matched, Flying, Different
  <2>4. Waiting'
    BY <2>1 DEF DeskInv, Waiting, Waits, UnderWay
  <2> QED
    BY <2>2, <2>3, <2>4 DEF DeskInv
<1> QED
  BY <1>2, <1>3, <1>4, <1>5, <1>6, <1>7, <1>8, <1>9, <1>10 DEF Next, Network

LEMMA DeskInvariant == Spec => []DeskInv
<1>1. DeskInv /\ [Next]_vars => DeskInv'
  BY DeskNext
<1> QED
  BY <1>1, DeskInit, PTL DEF Spec

\* Nobody waits in vain without a reason: a search, a dialog that adds a contact
\* and one that refreshes details have a request under way, or one that was given
\* up or whose reply another window took (LinqMain::onAddContactReply,
\* MainWin::onContactInfoReply), for any number of windows and requests.
THEOREM NobodyWaitsForNothing == Spec => []WaitsForReply
<1>1. DeskInv => WaitsForReply
  <2> SUFFICES ASSUME DeskInv
               PROVE  WaitsForReply
    OBVIOUS
  <2>1. TypeOK
    BY DEF DeskInv, Typed, TypeOK, SearchInv, Flying
  <2>2. Searching => search.req \in UnderWay \cup lost
    BY DEF DeskInv, Waiting, Searching
  <2>3. /\ search.page = "ADD" /\ search.add # 0 => search.add \in UnderWay \cup lost \cup taken
        /\ \A i \in DOMAIN sys : sys[i].req # 0 => sys[i].req \in UnderWay \cup lost \cup taken
        /\ \A i \in DOMAIN infos :
             infos[i].req # 0 => infos[i].req \in UnderWay \cup lost \cup taken
    BY DEF DeskInv, Waiting, Waits
  <2> QED
    BY <2>1, <2>2, <2>3 DEF WaitsForReply
<1> QED
  BY <1>1, DeskInvariant, PTL

-----------------------------------------------------------------------------
(***************************************************************************)
(* The own details.                                                        *)
(***************************************************************************)

\* A request that is not about them.
LEMMA OtherRequest ==
  ASSUME Agreed, UNCHANGED <<details, down, crossed>>, NEW cmd, NEW arg, Asks(cmd, arg),
         cmd \notin {"GET_USER_INFO", "UPDATE_USER_INFO"}
  PROVE  Agreed'
<1> DEFINE n == Request(cmd, arg)
<1>1. n.cmd = cmd /\ ~Own(n)
  BY DEF Request, Own
<1>2. /\ up' = up \/ up' = up \cup {n}
      /\ local' = local /\ server' = server /\ down' = down /\ crossed' = crossed
  BY DEF Asks, details
<1> HIDE DEF n
<1>3. \A q \in Flying' : Own(q) => q \in Flying
  BY <1>1, <1>2 DEF Flying
<1>4. \A r \in up' : r.cmd = "UPDATE_USER_INFO" => r \in up
  BY <1>1, <1>2
<1> QED
  BY <1>2, <1>3, <1>4 DEF Agreed

\* A refresh reads the details of the server, and crosses a change under way.
LEMMA RefreshAgrees ==
  ASSUME Agreed, NEW i \in DOMAIN infos, RefreshInfo(i)
  PROVE  Agreed'
<1> DEFINE n == infos[i].name
           cmd == IF n = Me THEN "GET_USER_INFO" ELSE "GET_CONTACT_INFO"
           q == Request(cmd, n)
<1>1. /\ up' = up \cup {q} /\ asked' = asked + 1 /\ down' = down /\ local' = local /\ server' = server
      /\ crossed' = (crossed \/ Crosses(cmd))
  BY DEF RefreshInfo, Ask, details
<1>2. q.cmd = cmd /\ cmd \in {"GET_USER_INFO", "GET_CONTACT_INFO"}
  BY DEF Request
<1> HIDE DEF q, cmd
<1>3. CASE cmd = "GET_CONTACT_INFO"
  <2>1. Asks(cmd, n)
    BY <1>1 DEF Asks, q
  <2>2. crossed => crossed'
    BY <1>1
  <2>3. ~Own(q)
    BY <1>2, <1>3 DEF Own
  <2>4. \A p \in Flying' : Own(p) => p \in Flying
    BY <1>1, <2>3 DEF Flying
  <2>5. \A r \in up' : r.cmd = "UPDATE_USER_INFO" <=> (r \in up /\ r.cmd = "UPDATE_USER_INFO")
    BY <1>1, <1>2, <1>3
  <2> QED
    BY <1>1, <2>2, <2>4, <2>5 DEF Agreed
<1>4. CASE cmd = "GET_USER_INFO"
  <2>1. SUFFICES ASSUME ~crossed'
                 PROVE  /\ \A r \in up' : r.cmd # "UPDATE_USER_INFO"
                        /\ local' = server'
                        /\ \A r \in down' : r.cmd = "GET_USER_INFO" => r.what = server'
    BY <1>1 DEF Agreed
  <2>2. ~crossed /\ \A r \in Flying : r.cmd # "UPDATE_USER_INFO"
    BY <1>1, <2>1 DEF Crosses, Own, Flying
  <2> QED
    BY <1>1, <1>2, <1>4, <2>2 DEF Agreed, Flying
<1> QED
  BY <1>2, <1>3, <1>4

\* A change is saved at once, and crosses any other request about the details.
LEMMA ChangeAgrees ==
  ASSUME Agreed, NEW i \in DOMAIN infos, ChangeInfo(i)
  PROVE  Agreed'
<1> DEFINE q == Request("UPDATE_USER_INFO", Me)
<1>1. /\ up' = up \cup {q} /\ down' = down /\ local' = asked + 1 /\ server' = server
      /\ crossed' = (crossed \/ Crosses("UPDATE_USER_INFO"))
  BY DEF ChangeInfo, Ask, Saved
<1>2. q.id = asked + 1 /\ q.cmd = "UPDATE_USER_INFO"
  BY DEF Request
<1> HIDE DEF q
<1>3. SUFFICES ASSUME ~crossed'
               PROVE  /\ \A r \in up' : r.cmd = "UPDATE_USER_INFO" =>
                           r.id = local' /\ \A p \in Flying' : Own(p) => p = r
                      /\ ~\A r \in up' : r.cmd # "UPDATE_USER_INFO"
  BY <1>1 DEF Agreed
<1>4. \A r \in Flying : ~Own(r)
  BY <1>1, <1>3 DEF Crosses, Flying
<1>5. \A p \in Flying' : Own(p) => p = q
  BY <1>1, <1>4 DEF Flying
<1>6. \A r \in up' : r.cmd = "UPDATE_USER_INFO" => r = q
  BY <1>1, <1>4 DEF Flying, Own
<1> QED
  BY <1>1, <1>2, <1>5, <1>6

LEMMA ServeAgrees ==
  ASSUME Agreed, NEW r \in up, Serve(r)
  PROVE  Agreed'
<1> DEFINE TheReply(what) == [id |-> r.id, cmd |-> r.cmd, arg |-> r.arg, what |-> what]
<1>1. /\ up' = up \ {r} /\ local' = local /\ crossed' = crossed
      /\ server' = IF r.cmd = "UPDATE_USER_INFO" THEN r.id ELSE server
  BY DEF Serve
<1>2. \/ down' = down
      \/ \E what \in Reply(r) : down' = down \cup {TheReply(what)}
  BY DEF Serve
<1>3. CASE r.cmd = "UPDATE_USER_INFO"
  <2>1. down' = down /\ server' = r.id
    <3>1. Reply(r) = {}
      BY <1>3 DEF Reply
    <3> QED
      BY <1>1, <1>2, <1>3, <3>1
  <2>2. ASSUME ~crossed
        PROVE  /\ \A p \in up' : p.cmd # "UPDATE_USER_INFO"
               /\ local' = server'
               /\ \A p \in down' : p.cmd # "GET_USER_INFO"
    <3>1. r.id = local /\ \A q \in Flying : Own(q) => q = r
      BY <1>3, <2>2 DEF Agreed
    <3>2. r \notin down
      BY <1>3 DEF Agreed
    <3> QED
      BY <1>1, <2>1, <3>1, <3>2 DEF Own, Flying
  <2> QED
    BY <1>1, <2>1, <2>2 DEF Agreed
<1>4. CASE r.cmd # "UPDATE_USER_INFO"
  <2>1. server' = server
    BY <1>1, <1>4
  <2>2. ASSUME NEW p \in down', p \notin down
        PROVE  p.cmd = r.cmd /\ p.what \in Reply(r)
    BY <1>2, <2>2
  <2>3. \A p \in down' : p.cmd # "UPDATE_USER_INFO"
    BY <1>4, <2>2 DEF Agreed
  <2>4. ASSUME ~crossed, NEW u \in up', u.cmd = "UPDATE_USER_INFO"
        PROVE  u.id = local' /\ \A p \in Flying' : Own(p) => p = u
    <3>1. u \in up /\ u # r /\ u.id = local /\ \A p \in Flying : Own(p) => p = u
      BY <1>1, <1>4, <2>4 DEF Agreed
    <3>2. ~Own(r)
      BY <3>1 DEF Flying
    <3>3. \A p \in down' : p \notin down => ~Own(p)
      BY <2>2, <3>2 DEF Own
    <3>4. \A p \in Flying' : Own(p) => p \in Flying
      BY <1>1, <3>3 DEF Flying
    <3> QED
      BY <1>1, <3>1, <3>4
  <2>5. ASSUME ~crossed, \A u \in up' : u.cmd # "UPDATE_USER_INFO"
        PROVE  /\ local' = server'
               /\ \A p \in down' : p.cmd = "GET_USER_INFO" => p.what = server'
    <3>1. \A u \in up : u.cmd # "UPDATE_USER_INFO"
      BY <1>1, <1>4, <2>5
    <3>2. local = server /\ \A p \in down : p.cmd = "GET_USER_INFO" => p.what = server
      BY <2>5, <3>1 DEF Agreed
    <3>3. r.cmd = "GET_USER_INFO" => Reply(r) = {server}
      BY DEF Reply
    <3> QED
      BY <1>1, <2>1, <2>2, <3>2, <3>3
  <2> QED
    BY <1>1, <2>3, <2>4, <2>5 DEF Agreed
<1> QED
  BY <1>3, <1>4

LEMMA LoseAgrees ==
  ASSUME Agreed, NEW r \in up \cup down, Lose(r)
  PROVE  Agreed'
<1>1. /\ up' = up \ {r} /\ down' = down \ {r} /\ local' = local /\ server' = server
      /\ crossed' = (crossed \/ r.cmd = "UPDATE_USER_INFO")
  BY DEF Lose, details
<1>2. \A p \in Flying' : p \in Flying
  BY <1>1 DEF Flying
<1>3. ~crossed' => ~crossed /\ \A u \in up : u.cmd = "UPDATE_USER_INFO" => u \in up'
  BY <1>1
<1> QED
  BY <1>1, <1>2, <1>3 DEF Agreed

LEMMA ReceiveAgrees ==
  ASSUME Agreed, NEW r \in down, Receive(r)
  PROVE  Agreed'
<1>1. down' = down \ {r} /\ crossed' = crossed /\ server' = server
  BY DEF Receive, OnSearchResult, OnAddContactReply, OnContactInfoReply, OnUserInfoReply, details
<1>2. \/ /\ r.cmd = "GET_USER_INFO" /\ local' = r.what /\ up' = up
      \/ /\ local' = local
         /\ up' = up \/ up' = up \cup {Request("GET_CONTACT_INFO", r.arg)}
  BY DEF Receive, OnSearchResult, OnAddContactReply, OnContactInfoReply, OnUserInfoReply, details
<1> DEFINE n == Request("GET_CONTACT_INFO", r.arg)
<1>3. n.cmd = "GET_CONTACT_INFO" /\ ~Own(n)
  BY DEF Request, Own
<1> HIDE DEF n
<1>4. \A q \in Flying' : Own(q) => q \in Flying
  BY <1>1, <1>2, <1>3 DEF Flying, n
<1>5. \A u \in up' : u.cmd = "UPDATE_USER_INFO" => u \in up
  BY <1>2, <1>3 DEF n
<1>6. up \subseteq up'
  BY <1>2
<1>7. CASE r.cmd = "GET_USER_INFO" /\ local' = r.what /\ up' = up
  <2>1. \A u \in up : ~crossed => u.cmd # "UPDATE_USER_INFO"
    <3> SUFFICES ASSUME NEW u \in up, ~crossed, u.cmd = "UPDATE_USER_INFO"
                 PROVE  FALSE
      OBVIOUS
    <3>1. r = u
      BY <1>7 DEF Agreed, Flying, Own
    <3> QED
      BY <1>7, <3>1
  <2> QED
    BY <1>1, <1>7, <2>1 DEF Agreed
<1>8. CASE local' = local
  BY <1>1, <1>4, <1>5, <1>6, <1>8 DEF Agreed
<1> QED
  BY <1>2, <1>7, <1>8

\* What a button of the search dialog asks is not about the own details.
LEMMA SearchAgrees ==
  ASSUME Agreed, DlgOnly,
         Quiet \/ \E cmd \in Searches \cup {"ADD_CONTACT"}, arg \in Names \cup Fields \cup {Nobody} :
                    Ask(cmd, arg)
  PROVE  Agreed'
<1>1. UNCHANGED <<details, down, crossed>>
  BY DEF DlgOnly, history
<1>2. CASE Quiet
  <2>1. Asks("SEARCH", Nobody)
    BY <1>2 DEF Quiet, Asks
  <2> QED
    BY <1>1, <2>1, OtherRequest
<1>3. CASE \E cmd \in Searches \cup {"ADD_CONTACT"}, arg \in Names \cup Fields \cup {Nobody} :
             Ask(cmd, arg)
  <2>1. PICK cmd \in Searches \cup {"ADD_CONTACT"}, arg \in Names \cup Fields \cup {Nobody} :
          Ask(cmd, arg)
    BY <1>3
  <2>2. Asks(cmd, arg)
    BY <2>1 DEF Ask, Asks
  <2>3. cmd \notin {"GET_USER_INFO", "UPDATE_USER_INFO"}
    BY DEF Searches
  <2> QED
    BY <1>1, <2>2, <2>3, OtherRequest
<1> QED
  BY <1>2, <1>3

LEMMA AgreedNext ==
  ASSUME Typed, Agreed, [Next]_vars
  PROVE  Agreed'
<1> DEFINE Asked == Quiet \/ \E cmd \in Searches \cup {"ADD_CONTACT"},
                               arg \in Names \cup Fields \cup {Nobody} : Ask(cmd, arg)
<1>1. CASE OpenSearch \/ CloseSearch \/ Choose \/ SearchUser \/ ChooseAgain \/ Back
  <2>1. DlgOnly /\ Asked
    BY <1>1 DEF OpenSearch, CloseSearch, Choose, SearchUser, ChooseAgain, Back, Searches
  <2> QED
    BY <2>1, SearchAgrees
<1>2. CASE Turn
  <2>1. DlgOnly /\ Asked
    BY <1>2 DEF Turn, Searches
  <2> QED
    BY <2>1, SearchAgrees
<1>3. ASSUME NEW c \in Contacts, SelectUser(c)
      PROVE  Agreed'
  <2>1. DlgOnly /\ Asked
    BY <1>3 DEF SelectUser, Searches, Names
  <2> QED
    BY <2>1, SearchAgrees
<1>4. ASSUME NEW c \in Contacts, OnRecvMessage(c)
      PROVE  Agreed'
  <2>1. UNCHANGED <<details, down, crossed>> /\ Asks("SEARCH", Nobody)
    BY <1>4 DEF OnRecvMessage, history, Asks
  <2> QED
    BY <2>1, OtherRequest
<1>5. ASSUME NEW c \in Contacts, GetContactInfo(c)
      PROVE  Agreed'
  <2>1. UNCHANGED <<details, down, crossed>> /\ Asks("GET_CONTACT_INFO", c)
    BY <1>5 DEF GetContactInfo, history, Ask, Asks
  <2> QED
    BY <2>1, OtherRequest
<1>6. ASSUME NEW i \in DOMAIN sys, AddFriend(i)
      PROVE  Agreed'
  <2>1. UNCHANGED <<details, down, crossed>> /\ Asks("ADD_CONTACT", sys[i].from)
    BY <1>6 DEF AddFriend, history, Ask, Asks
  <2> QED
    BY <2>1, OtherRequest
<1>7. ASSUME (\E i \in DOMAIN sys : CloseSys(i)) \/ GetOwnInfo
             \/ (\E i \in DOMAIN infos : CloseInfo(i))
      PROVE  Agreed'
  <2>1. UNCHANGED <<details, down, crossed>> /\ Asks("SEARCH", Nobody)
    BY <1>7 DEF CloseSys, GetOwnInfo, CloseInfo, history, Quiet, Asks
  <2> QED
    BY <2>1, OtherRequest
<1>8. CASE UNCHANGED vars
  <2>1. UNCHANGED <<details, down, crossed>> /\ Asks("SEARCH", Nobody)
    BY <1>8 DEF vars, history, Asks
  <2> QED
    BY <2>1, OtherRequest
<1>9. ASSUME NEW i \in DOMAIN infos, RefreshInfo(i) \/ ChangeInfo(i)
      PROVE  Agreed'
  BY <1>9, RefreshAgrees, ChangeAgrees
<1>10. ASSUME NEW r \in up \cup down, Lose(r)
       PROVE  Agreed'
  BY <1>10, LoseAgrees
<1>11. CASE Network
  BY <1>11, ServeAgrees, ReceiveAgrees DEF Network
<1> QED
  BY <1>1, <1>2, <1>3, <1>4, <1>5, <1>6, <1>7, <1>8, <1>9, <1>10, <1>11 DEF Next

\* Each window of a list t of details is one of s, or the one new window, whose
\* name is one of "new".
Shown(t, s, new) ==
  \E h \in [DOMAIN t -> Int] :
    \A k \in DOMAIN t :
      /\ (h[k] \in DOMAIN s /\ t[k].name = s[h[k]].name) \/ (h[k] = 0 /\ t[k].name \in new)
      /\ \A l \in DOMAIN t : h[k] = h[l] => k = l

LEMMA ShownKept ==
  ASSUME ShownOnce, NEW new, Shown(infos', infos, new), Me \in new => Shows(Me) = {}
  PROVE  ShownOnce'
<1>1. PICK h \in [DOMAIN infos' -> Int] :
        \A k \in DOMAIN infos' :
          /\ \/ h[k] \in DOMAIN infos /\ infos'[k].name = infos[h[k]].name
             \/ h[k] = 0 /\ infos'[k].name \in new
          /\ \A l \in DOMAIN infos' : h[k] = h[l] => k = l
  BY DEF Shown
<1> SUFFICES ASSUME NEW k \in DOMAIN infos', NEW l \in DOMAIN infos',
                    infos'[k].name = Me, infos'[l].name = Me
             PROVE  k = l
  BY DEF ShownOnce
<1>2. CASE Me \in new
  <2>1. h[k] = 0 /\ h[l] = 0
    BY <1>1, <1>2 DEF Shows
  <2> QED
    BY <1>1, <2>1
<1>3. CASE Me \notin new
  <2>1. h[k] \in DOMAIN infos /\ h[l] \in DOMAIN infos
        /\ infos[h[k]].name = Me /\ infos[h[l]].name = Me
    BY <1>1, <1>3
  <2>2. h[k] = h[l]
    BY <2>1 DEF ShownOnce
  <2> QED
    BY <1>1, <2>2
<1> QED
  BY <1>2, <1>3

\* A window is closed, one is opened, one changes and keeps its name, or none.
LEMMA ClosedShown ==
  ASSUME NEW S, NEW s \in Seq(S), NEW i \in DOMAIN s
  PROVE  Shown(RemoveAt(s, i), s, {})
<1> DEFINE t == RemoveAt(s, i)
           at(k) == IF k < i THEN k ELSE k + 1
           h == [k \in DOMAIN t |-> at(k)]
<1>1. Len(s) \in Nat /\ DOMAIN s = 1 .. Len(s) /\ i \in 1 .. Len(s)
  OBVIOUS
<1>2. /\ t \in Seq(S) /\ Len(t) = Len(s) - 1
      /\ \A k \in 1 .. Len(s) - 1 : t[k] = IF k < i THEN s[k] ELSE s[k + 1]
  BY <1>1, RemoveAtSeq
<1>3. DOMAIN t = 1 .. Len(s) - 1
  BY <1>2
<1> HIDE DEF t
<1>4. \A k \in DOMAIN t : at(k) \in DOMAIN s /\ t[k] = s[at(k)]
  BY <1>1, <1>2, <1>3
<1>5. \A k, l \in DOMAIN t : at(k) = at(l) => k = l
  BY <1>1, <1>3
<1>6. \A k \in DOMAIN t : at(k) \in Int
  BY <1>1, <1>3
<1> HIDE DEF at
<1>7. h \in [DOMAIN t -> Int] /\ \A k \in DOMAIN t : h[k] = at(k)
  BY <1>6
<1> HIDE DEF h
<1>8. Shown(t, s, {})
  BY <1>4, <1>5, <1>7 DEF Shown
<1> QED
  BY <1>8 DEF t

LEMMA OpenedShown ==
  ASSUME NEW S, NEW s \in Seq(S), NEW e \in S
  PROVE  Shown(Append(s, e), s, {e.name})
<1> DEFINE t == Append(s, e)
           at(k) == IF k \in DOMAIN s THEN k ELSE 0
           h == [k \in DOMAIN t |-> at(k)]
<1>1. Len(s) \in Nat /\ DOMAIN s = 1 .. Len(s)
  OBVIOUS
<1>2. /\ DOMAIN t = 1 .. Len(s) + 1
      /\ t[Len(s) + 1] = e /\ \A k \in 1 .. Len(s) : t[k] = s[k]
  BY <1>1
<1> HIDE DEF t
<1>3. h \in [DOMAIN t -> Int] /\ \A k \in DOMAIN t : h[k] = at(k)
  BY <1>1, <1>2
<1> HIDE DEF h
<1>4. \A k \in DOMAIN t : (h[k] = k /\ k \in DOMAIN s) \/ (h[k] = 0 /\ k = Len(s) + 1)
  BY <1>1, <1>2, <1>3
<1> HIDE DEF at
<1>5. \A k, l \in DOMAIN t : h[k] = h[l] => k = l
  BY <1>1, <1>2, <1>4
<1>6. Shown(t, s, {e.name})
  BY <1>1, <1>2, <1>3, <1>4, <1>5 DEF Shown
<1> QED
  BY <1>6 DEF t

LEMMA ChangedShown ==
  ASSUME NEW S, NEW s \in Seq(S), NEW t, DOMAIN t = DOMAIN s,
         \A k \in DOMAIN s : t[k].name = s[k].name
  PROVE  Shown(t, s, {})
<1> DEFINE h == [k \in DOMAIN t |-> k]
<1>1. DOMAIN s = 1 .. Len(s)
  OBVIOUS
<1>2. h \in [DOMAIN t -> Int] /\ \A k \in DOMAIN t : h[k] = k
  BY <1>1
<1> HIDE DEF h
<1> QED
  BY <1>2 DEF Shown

LEMMA ShownNext ==
  ASSUME Typed, ShownOnce, [Next]_vars
  PROVE  ShownOnce'
<1> DEFINE S == InfoDlgs(asked)
<1>1. infos \in Seq(S) /\ DOMAIN infos = 1 .. Len(infos) /\ Len(infos) \in Nat
  BY DEF Typed
<1>2. ASSUME infos' = infos
      PROVE  ShownOnce'
  BY <1>2 DEF ShownOnce
<1>3. ASSUME NEW n \in Names, infos' = NewInfo(n), n = Me => Shows(Me) = {}
      PROVE  ShownOnce'
  <2> DEFINE e == [name |-> n, req |-> 0]
  <2>1. 0 \in 0 .. asked
    BY DEF Typed, SearchInv
  <2>2. e \in S /\ e.name = n
    BY <2>1 DEF InfoDlgs
  <2>3. infos' = Append(infos, e)
    BY <1>3 DEF NewInfo
  <2> HIDE DEF e, S
  <2>4. Shown(infos', infos, {n})
    BY <1>1, <2>2, <2>3, OpenedShown
  <2> QED
    BY <1>3, <2>4, ShownKept
<1>4. ASSUME NEW i \in DOMAIN infos, infos' = RemoveAt(infos, i)
      PROVE  ShownOnce'
  <2>1. Shown(infos', infos, {})
    BY <1>1, <1>4, ClosedShown
  <2> QED
    BY <2>1, ShownKept
<1>5. ASSUME NEW i \in DOMAIN infos, NEW q, infos' = [infos EXCEPT ![i].req = q]
      PROVE  ShownOnce'
  <2>1. \A k \in DOMAIN infos : infos[k] \in S
    BY <1>1
  <2>2. \A k \in DOMAIN infos : infos'[k].name = infos[k].name
    BY <1>5, <2>1 DEF InfoDlgs
  <2>3. DOMAIN infos' = DOMAIN infos
    BY <1>5
  <2>4. Shown(infos', infos, {})
    BY <1>1, <2>2, <2>3, ChangedShown
  <2> QED
    BY <2>4, ShownKept
<1>6. ASSUME NEW n, NEW r, Updated(n, r)
      PROVE  ShownOnce'
  BY <1>5, <1>6 DEF Updated, Shows
<1>7. CASE OpenSearch \/ CloseSearch \/ Choose \/ SearchUser \/ ChooseAgain \/ Back \/ Turn
  BY <1>2, <1>7
     DEF OpenSearch, CloseSearch, Choose, SearchUser, ChooseAgain, Back, Turn, DlgOnly, windows
<1>8. ASSUME NEW c \in Contacts, SelectUser(c) \/ OnRecvMessage(c) \/ GetContactInfo(c)
      PROVE  ShownOnce'
  BY <1>2, <1>8 DEF SelectUser, OnRecvMessage, GetContactInfo, DlgOnly, windows
<1>9. ASSUME NEW i \in DOMAIN sys, AddFriend(i) \/ CloseSys(i)
      PROVE  ShownOnce'
  BY <1>2, <1>9 DEF AddFriend, CloseSys
<1>10. CASE GetOwnInfo
  BY <1>3, <1>10 DEF GetOwnInfo, Names
<1>11. ASSUME NEW i \in DOMAIN infos, RefreshInfo(i) \/ ChangeInfo(i) \/ CloseInfo(i)
       PROVE  ShownOnce'
  <2>1. CASE RefreshInfo(i)
    BY <1>5, <2>1 DEF RefreshInfo
  <2>2. CASE ChangeInfo(i) \/ CloseInfo(i)
    BY <1>4, <2>2 DEF ChangeInfo, CloseInfo
  <2> QED
    BY <1>11, <2>1, <2>2
<1>12. ASSUME NEW r \in up \cup down, Lose(r) \/ Serve(r)
       PROVE  ShownOnce'
  BY <1>2, <1>12 DEF Lose, Serve
<1>13. ASSUME NEW r \in down, Receive(r)
       PROVE  ShownOnce'
  <2>1. CASE OnSearchResult(r) \/ OnAddContactReply(r)
    BY <1>2, <2>1 DEF OnSearchResult, OnAddContactReply, windows
  <2>2. CASE OnContactInfoReply(r)
    <3>1. r.arg \in Contacts
      BY <2>2 DEF OnContactInfoReply, Typed, Flying
    <3>2. r.arg \in Names /\ r.arg # Me
      BY <3>1, DeskAssumption DEF Names
    <3>3. CASE infos' = NewInfo(r.arg)
      BY <1>3, <3>2, <3>3
    <3> QED
      BY <1>2, <1>6, <2>2, <3>3 DEF OnContactInfoReply
  <2>3. CASE OnUserInfoReply(r)
    BY <1>3, <1>6, <2>3 DEF OnUserInfoReply, Names
  <2> QED
    BY <1>13, <2>1, <2>2, <2>3 DEF Receive
<1>14. CASE UNCHANGED vars
  BY <1>2, <1>14 DEF vars
<1> QED
  BY <1>7, <1>8, <1>9, <1>10, <1>11, <1>12, <1>13, <1>14 DEF Next, Network

\* The own details: with nothing about them under way, user.db and the server have
\* the same ones, unless a change was lost or crossed another request, and at most
\* one dialog shows them, for any number of changes, refreshes and replies
\* (UserInfoDlg::on_change_button_clicked, MainWin::onUserInfoReply).
THEOREM DetailsAgree == Spec => []ProfileAgrees
<1> DEFINE Inv == Agreed /\ ShownOnce
<1>1. Init => Inv
  <2> SUFFICES ASSUME Init
               PROVE  Inv
    OBVIOUS
  <2>1. infos = <<>> /\ local = 0 /\ server = 0 /\ up = {} /\ down = {}
    BY DEF Init
  <2> QED
    BY <2>1 DEF Agreed, ShownOnce
<1>2. DeskInv /\ Inv /\ [Next]_vars => Inv'
  BY AgreedNext, ShownNext DEF DeskInv
<1>3. Inv => ProfileAgrees
  <2> SUFFICES ASSUME Agreed, ShownOnce
               PROVE  ProfileAgrees
    OBVIOUS
  <2>1. ~crossed /\ (\A r \in up \cup down : ~Own(r)) => local = server
    BY DEF Agreed, Own
  <2>2. CASE Shows(Me) = {}
    <3>1. Cardinality(Shows(Me)) = 0
      BY <2>2, FS_EmptySet
    <3> QED
      BY <2>1, <3>1 DEF ProfileAgrees
  <2>3. CASE Shows(Me) # {}
    <3>1. PICK i : i \in Shows(Me)
      BY <2>3
    <3>2. Shows(Me) = {i}
      BY <3>1 DEF ShownOnce, Shows
    <3>3. Cardinality(Shows(Me)) = 1
      BY <3>2, FS_Singleton
    <3> QED
      BY <2>1, <3>3 DEF ProfileAgrees
  <2> QED
    BY <2>2, <2>3
<1> HIDE DEF Inv
<1> QED
  BY <1>1, <1>2, <1>3, DeskInvariant, PTL DEF Spec

-----------------------------------------------------------------------------
(***************************************************************************)
(* Before there is a window that asks anything, the client has to be on    *)
(* line (module Client).  That it shows no more than the server has        *)
(* granted, and watches its connection, is proved here, for any number of  *)
(* calls of connect() and of attempts to send, and any kinds of proxy.     *)
(***************************************************************************)

\* Types.  The timers have no bound here; TimersCounted gives them one.
UIs == [window : {"login", "wizard", "main"}, main_win : BOOLEAN,
        page : {"choose", "info", "network", "result"},
        newUser : BOOLEAN, isFinished : BOOLEAN,
        UserInfo_received : BOOLEAN, ContactList_received : BOOLEAN,
        animate : BOOLEAN, name : Accounts, proxyInfo : Kinds \cup {"null"},
        login_status : Statuses \ {OFFLINE}, now_status : Statuses]
Timers == [check : Nat, checkKnown : BOOLEAN, alive : Nat, aliveKnown : BOOLEAN]
Socks == [kind : Kinds \cup {"none"},
          status : {"NOT_CONN", "METHOD", "AUTH", "ASSOCIATE", "ESTABLISHED"},
          tcp : {"none", "pending", "up", "closed"}]
Waiter == [cmd : Commands, attempts : 0 .. MAX_SEND_ATTEMPTS - 1]
Nets == [served : SUBSET Replied, down : SUBSET Replies, accepted : BOOLEAN]

\* The parts of the invariant speak of windows u, timers t, socket s, the account a
\* and the queue q of the UDPSession, network n, c calls of connect(), whether a
\* failure f was told, and whether the user has chosen otherwise (o), so that the state
\* between two steps of one handler can be described, too.
ClientTyped(u, t, s, a, q, n, c, f, o) ==
  /\ u \in UIs /\ t \in Timers /\ s \in Socks /\ a \in Accounts
  /\ q \in SUBSET Waiter /\ n \in Nets /\ c \in 0 .. MaxConnects
  /\ f \in BOOLEAN /\ o \in BOOLEAN

Entering == {"REGISTER", "LOGIN"}
Asking == {"GET_USER_INFO", "GET_CONTACT_LIST"}
Stands(s) == s.kind = "null" \/ s.status = "ESTABLISHED"

\* The commands of the packets of q and of the replies of n.
Alive(n, q) == Cmds(q) \cup Cmds(n.down)

\* The user is on line, or will be when he leaves the wizard.
OnLine(u) ==
  (u.main_win /\ u.now_status # OFFLINE) \/ (u.window = "wizard" /\ u.isFinished)

\* Nothing is sent over a proxy before its tunnel stands.
SockOk(s, n) ==
  /\ s.kind \in {"null", "none"} <=> s.tcp = "none"
  /\ s.kind = "none" => s = NoSocket
  /\ s.tcp = "pending" => s.status = "NOT_CONN"
  /\ ~Stands(s) => n = QuietNet

\* One login or registration is under way at a time: one packet, at most one reply
\* of linqd, and none to a packet that linqd may still take.
NetOk(n, q) ==
  /\ \A p, r \in q : p.cmd \in Entering /\ r.cmd = p.cmd => p = r
  /\ \A m \in n.down : m.cmd = "LOGIN" /\ m.what = "success" => n.accepted
  /\ \A m \in n.down : m.cmd \in Asking => n.accepted
  /\ \A m, k \in n.down : m.cmd \in Entering /\ k.cmd \in Entering => m = k
  /\ "REGISTER" \in Alive(n, q) => ~n.accepted /\ "LOGIN" \notin Alive(n, q)
  /\ \A m \in n.down : m.cmd \in Entering /\ m.cmd \in Cmds(q) => m.cmd \in n.served

\* Before the first attempt to connect nothing is there.
FirstOk(u, t, s, a, q, n, f) ==
  /\ u.main_win <=> u.window = "main"
  /\ u.window = "main" \/ s # NoSocket => u.proxyInfo \in Kinds
  /\ u.window = "login" =>
       /\ q = {} /\ n = QuietNet /\ s = NoSocket /\ ~f
       /\ u.now_status = OFFLINE /\ ~u.isFinished /\ u.name = a
       /\ t.check = 0 /\ t.alive = 0

\* The account that the wizard logs in, as long as the choice is not changed.
Account(u) == IF u.newUser THEN "new" ELSE "old"

\* The name shown, or about to be, is that of the account.
NameOk(u, a, q, n, other) ==
  /\ "REGISTER" \in Alive(n, q) => a = "new"
  /\ u.window = "wizard" /\ ~other /\ (n.accepted \/ Alive(n, q) \cap Entering # {}) =>
       a = Account(u)
  /\ u.main_win => u.name = a \/ other
  /\ u.window = "wizard" /\ (u.isFinished \/ Alive(n, q) \cap Asking # {}) =>
       (u.name = a \/ other) /\ u.now_status # OFFLINE
  /\ OnLine(u) => n.accepted

\* What waits, or is yet to come, is watched.
TimerOk(t, failed, u, q, n) ==
  /\ t.checkKnown => t.check > 0
  /\ t.aliveKnown => t.alive > 0
  /\ ~failed => t.check > 0 \/ (t.alive = 0 /\ q = {} /\ n = QuietNet)
  /\ ~failed /\ u.window = "wizard" /\ Alive(n, q) \cap Asking # {} => t.alive > 0
  /\ ~failed /\ OnLine(u) => t.alive > 0

\* A call of connect() whose onConnect(true) is still to come, and one whose login is.
Upcoming(s) == s.tcp \in {"pending", "up"} /\ s.status # "ESTABLISHED"
Owing(s, q, n) ==
  \/ Upcoming(s)
  \/ Opened(s) /\ Cmds(q) \cap (Entering \ n.served) # {}
  \/ Cmds(n.down) \cap Entering # {}

\* A call of connect() adds one timer of each kind at most.
TimersCounted(t, s, q, n, c) ==
  /\ Upcoming(s) => t.check + 1 <= c
  /\ t.check <= c
  /\ Owing(s, q, n) => t.alive + 1 <= c
  /\ t.alive <= c

Good(u, t, s, a, q, n, c, f, o) ==
  /\ ClientTyped(u, t, s, a, q, n, c, f, o)
  /\ SockOk(s, n)
  /\ NetOk(n, q)
  /\ FirstOk(u, t, s, a, q, n, f)
  /\ NameOk(u, a, q, n, o)
  /\ TimerOk(t, f, u, q, n)
  /\ TimersCounted(t, s, q, n, c)

\* The inductive invariant of the client.
ClientInv ==
  /\ udp = [account |-> udp.account, sendQueue |-> udp.sendQueue]
  /\ Good(ui, timers, sock, udp.account, udp.sendQueue, net, connects, reported, switched)

\* Values that records of the model have.
LEMMA QuietTyped == QuietNet \in Nets /\ Cmds(QuietNet.down) = {} /\ Cmds({}) = {}
BY DEF QuietNet, Nets, Cmds

LEMMA CmdsOf ==
  ASSUME NEW q, NEW r
  PROVE  /\ Cmds(q \cup r) = Cmds(q) \cup Cmds(r)
         /\ \A cmds : Cmds(Fresh(cmds)) = cmds
         /\ \A p \in q : p.cmd \in Cmds(q)
         /\ r \subseteq q => Cmds(r) \subseteq Cmds(q)
<1>1. Cmds(q \cup r) = Cmds(q) \cup Cmds(r)
  BY DEF Cmds
<1>2. ASSUME NEW cmds PROVE Cmds(Fresh(cmds)) = cmds
  <2>1. ASSUME NEW e \in cmds PROVE e \in Cmds(Fresh(cmds))
    <3>1. [cmd |-> e, attempts |-> 0] \in Fresh(cmds)
      BY DEF Fresh
    <3>2. [cmd |-> e, attempts |-> 0].cmd = e
      OBVIOUS
    <3> QED
      BY <3>1, <3>2 DEF Cmds
  <2>2. \A p \in Fresh(cmds) : p.cmd \in cmds
    BY DEF Fresh
  <2> QED
    BY <2>1, <2>2 DEF Cmds
<1> QED
  BY <1>1, <1>2 DEF Cmds

LEMMA FreshTyped ==
  ASSUME NEW cmds \in SUBSET Commands
  PROVE  Fresh(cmds) \in SUBSET Waiter
<1>1. 0 \in 0 .. MAX_SEND_ATTEMPTS - 1
  BY ClientAssumption
<1> QED
  BY <1>1 DEF Fresh, Waiter

\* What linqd's answer to some packets changes in the network.
AnswersTo(k, n, cmds, outcome) ==
  /\ k \in Nets
  /\ k.served = n.served \cup cmds
  /\ n.down \subseteq k.down
  /\ \A m \in k.down : m \in n.down \/
       (m.cmd \in cmds /\ (m.cmd \in Entering => m.what = outcome))
  /\ Cmds(k.down) = Cmds(n.down) \cup cmds
  /\ n.accepted => k.accepted
  /\ k.accepted <=> n.accepted \/ ("LOGIN" \in cmds /\ outcome = "success")
  /\ cmds = {} => k = n

LEMMA TakenIs ==
  ASSUME NEW n \in Nets, NEW cmds \in SUBSET Replied,
         NEW outcome \in {"success", "error"},
         NEW k, k = Taken(n, cmds, outcome)
  PROVE  AnswersTo(k, n, cmds, outcome)
<1> DEFINE What(cmd) == IF cmd \in {"REGISTER", "LOGIN"} THEN outcome ELSE "success"
           New == {[cmd |-> cmd, what |-> What(cmd)] : cmd \in cmds}
<1>1. k = [served |-> n.served \cup cmds, down |-> n.down \cup New,
           accepted |-> n.accepted \/ ("LOGIN" \in cmds /\ outcome = "success")]
  BY DEF Taken
<1>2. n.served \in SUBSET Replied /\ n.down \in SUBSET Replies /\ n.accepted \in BOOLEAN
      /\ n = [served |-> n.served, down |-> n.down, accepted |-> n.accepted]
  BY DEF Nets
<1>3. New \in SUBSET Replies
  BY DEF Replies
<1>4. k \in Nets
  <2>1. n.served \cup cmds \in SUBSET Replied /\ n.down \cup New \in SUBSET Replies
    BY <1>2, <1>3
  <2>2. (n.accepted \/ ("LOGIN" \in cmds /\ outcome = "success")) \in BOOLEAN
    OBVIOUS
  <2> HIDE DEF New
  <2> QED
    BY <1>1, <2>1, <2>2 DEF Nets
<1>5. \A m \in New : m.cmd \in cmds /\ (m.cmd \in Entering => m.what = outcome)
  BY DEF Entering
<1>6. Cmds(New) = cmds
  <2>1. ASSUME NEW e \in cmds PROVE e \in Cmds(New)
    <3>1. [cmd |-> e, what |-> What(e)] \in New
      OBVIOUS
    <3>2. [cmd |-> e, what |-> What(e)].cmd = e
      OBVIOUS
    <3> HIDE DEF New
    <3> QED
      BY <3>1, <3>2 DEF Cmds
  <2>2. Cmds(New) \subseteq cmds
    BY <1>5 DEF Cmds
  <2> QED
    BY <2>1, <2>2
<1>7. Cmds(n.down \cup New) = Cmds(n.down) \cup Cmds(New)
  BY CmdsOf, Zenon
<1>8. cmds = {} => New = {}
  OBVIOUS
<1>9. k.served = n.served \cup cmds /\ k.down = n.down \cup New
      /\ k.accepted = (n.accepted \/ ("LOGIN" \in cmds /\ outcome = "success"))
  BY <1>1
<1>10. ASSUME cmds = {} PROVE k = n
  <2>1. n.served \cup cmds = n.served /\ n.down \cup New = n.down
    BY <1>8, <1>10
  <2>2. (n.accepted \/ ("LOGIN" \in cmds /\ outcome = "success")) = n.accepted
    BY <1>2, <1>10
  <2> HIDE DEF New
  <2> QED
    BY <1>1, <1>2, <2>1, <2>2
<1> HIDE DEF New
<1>11. /\ n.down \subseteq k.down
       /\ \A m \in k.down : m \in n.down \/
            (m.cmd \in cmds /\ (m.cmd \in Entering => m.what = outcome))
       /\ Cmds(k.down) = Cmds(n.down) \cup cmds
       /\ n.accepted => k.accepted
       /\ k.accepted <=> n.accepted \/ ("LOGIN" \in cmds /\ outcome = "success")
  BY <1>5, <1>6, <1>7, <1>9, <1>2
<1> QED
  BY <1>4, <1>9, <1>10, <1>11 DEF AnswersTo

\* Whatever happens to the packets that are sent now, which are in the queue, what
\* is good stays good.
LEMMA SendKeeps ==
  ASSUME NEW u, NEW t, NEW s, NEW a, NEW q, NEW n, NEW c, NEW f, NEW o,
         Good(u, t, s, a, q, n, c, f, o), NEW cmds, cmds \subseteq Cmds(q),
         Send(s, n, cmds)
  PROVE  Good(u, t, s, a, q, net', c, f, o)
<1>1. PICK got \in SUBSET ((cmds \cap Replied) \ n.served),
           outcome \in {"success", "error"} :
        /\ got # {} => Opened(s)
        /\ \A cmd \in got : Known(cmd, n)
        /\ net' = Taken(n, got, outcome)
  BY DEF Send
<1> DEFINE k == net'
<1>2. n \in Nets /\ got \in SUBSET Replied
  BY DEF Good, ClientTyped
<1>3. /\ k \in Nets
      /\ k.served = n.served \cup got
      /\ n.down \subseteq k.down
      /\ \A m \in k.down : m \in n.down \/
           (m.cmd \in got /\ (m.cmd \in Entering => m.what = outcome))
      /\ Cmds(k.down) = Cmds(n.down) \cup got
      /\ n.accepted => k.accepted
      /\ k.accepted <=> n.accepted \/ ("LOGIN" \in got /\ outcome = "success")
      /\ got = {} => k = n
  <2>1. outcome \in {"success", "error"} /\ k = Taken(n, got, outcome)
    BY <1>1
  <2> HIDE DEF k
  <2>2. AnswersTo(k, n, got, outcome)
    BY <1>2, <2>1, TakenIs, Zenon
  <2> QED
    BY <2>2 DEF AnswersTo
<1> HIDE DEF k
<1>4. got \subseteq Cmds(q) /\ got \cap n.served = {}
  BY <1>1
<1>5. Alive(k, q) = Alive(n, q)
  BY <1>3, <1>4 DEF Alive
<1>6. \A m \in n.down : m.cmd \in Alive(n, q)
  BY CmdsOf, Zenon DEF Alive, Cmds
<1>7. SockOk(s, n) /\ NetOk(n, q) /\ FirstOk(u, t, s, a, q, n, f) /\ NameOk(u, a, q, n, o)
      /\ TimerOk(t, f, u, q, n) /\ TimersCounted(t, s, q, n, c)
      /\ ClientTyped(u, t, s, a, q, n, c, f, o)
  BY DEF Good
<1>8. SockOk(s, k)
  BY <1>1, <1>3, <1>7 DEF SockOk, Opened, Stands
<1>9. NetOk(k, q)
  <2>1. /\ \A p, r \in q : p.cmd \in Entering /\ r.cmd = p.cmd => p = r
        /\ \A m \in n.down : m.cmd = "LOGIN" /\ m.what = "success" => n.accepted
        /\ \A m \in n.down : m.cmd \in Asking => n.accepted
        /\ \A m, l \in n.down : m.cmd \in Entering /\ l.cmd \in Entering => m = l
        /\ "REGISTER" \in Alive(n, q) => ~n.accepted /\ "LOGIN" \notin Alive(n, q)
        /\ \A m \in n.down : m.cmd \in Entering /\ m.cmd \in Cmds(q) => m.cmd \in n.served
    BY <1>7 DEF NetOk
  <2>2. \A m \in k.down : m.cmd = "LOGIN" /\ m.what = "success" => k.accepted
    BY <1>3, <2>1 DEF Entering
  <2>3. \A m \in k.down : m.cmd \in Asking => k.accepted
    BY <1>1, <1>3, <2>1 DEF Known, Asking
  <2>4. "REGISTER" \in Alive(k, q) => ~k.accepted /\ "LOGIN" \notin Alive(k, q)
    BY <1>3, <1>4, <1>5, <2>1 DEF Alive
  <2>5. \A m \in k.down : m.cmd \in Entering /\ m.cmd \in Cmds(q) => m.cmd \in k.served
    BY <1>3, <2>1
  <2>6. ASSUME NEW m \in k.down, NEW l \in k.down, m.cmd \in Entering, l.cmd \in Entering
        PROVE  m = l
    <3>1. m.cmd = l.cmd
      <4>1. m.cmd \in Alive(k, q) /\ l.cmd \in Alive(k, q)
        BY Zenon DEF Alive, Cmds
      <4> QED
        BY <4>1, <2>4, <2>6 DEF Entering
    <3>2. m.what \in {"success", "error"} /\ l.what \in {"success", "error"}
          /\ m = [cmd |-> m.cmd, what |-> m.what] /\ l = [cmd |-> l.cmd, what |-> l.what]
      BY <1>3 DEF Nets, Replies
    <3>3. CASE m \in n.down /\ l \in n.down
      BY <2>1, <2>6, <3>3, Zenon
    <3>4. CASE m \notin n.down /\ l \notin n.down
      BY <1>3, <2>6, <3>1, <3>2, <3>4
    <3>5. CASE m \in n.down /\ l \notin n.down
      BY <1>3, <1>4, <2>1, <2>6, <3>1, <3>5
    <3>6. CASE m \notin n.down /\ l \in n.down
      BY <1>3, <1>4, <2>1, <2>6, <3>1, <3>6
    <3> QED
      BY <3>3, <3>4, <3>5, <3>6
  <2> QED
    BY <2>1, <2>2, <2>3, <2>4, <2>5, <2>6, Zenon DEF NetOk
<1>10. FirstOk(u, t, s, a, q, k, f)
  <2>1. q = {} => got = {}
    BY <1>4, QuietTyped
  <2> QED
    BY <1>3, <1>7, <2>1 DEF FirstOk
<1>11. NameOk(u, a, q, k, o)
  <2>1. k.accepted => n.accepted \/ Alive(k, q) \cap Entering # {}
    BY <1>3, <1>4 DEF Alive, Entering
  <2> QED
    BY <1>3, <1>5, <1>7, <2>1 DEF NameOk
<1>12. TimerOk(t, f, u, q, k)
  <2>1. q = {} => got = {}
    BY <1>4, QuietTyped
  <2> QED
    BY <1>3, <1>5, <1>7, <2>1 DEF TimerOk
<1>13. TimersCounted(t, s, q, k, c)
  <2>1. Owing(s, q, k) => Owing(s, q, n)
    BY <1>1, <1>3, <1>4 DEF Owing
  <2> QED
    BY <1>7, <2>1 DEF TimersCounted
<1>14. ClientTyped(u, t, s, a, q, k, c, f, o)
  BY <1>3, <1>7 DEF ClientTyped
<1> QED
  BY <1>8, <1>9, <1>10, <1>11, <1>12, <1>13, <1>14 DEF Good, k

\* The queue, the network and the timers after onConnect(true).
LEMMA ConnectedIsGood ==
  ASSUME NEW u \in UIs, NEW t \in Timers, NEW s \in Socks,
         NEW a \in Accounts, NEW cmd \in Entering, NEW c \in 0 .. MaxConnects, NEW k,
         k = [t EXCEPT !.check = @ + 1, !.checkKnown = TRUE],
         t.aliveKnown => t.alive > 0, t.check + 1 <= c, t.alive + 1 <= c,
         SockOk(s, QuietNet), ~Upcoming(s),
         u.main_win <=> u.window = "main", u.window # "login", ~OnLine(u),
         u.proxyInfo \in Kinds,
         cmd = "REGISTER" => a = "new", u.window = "wizard" => a = Account(u),
         u.main_win => u.name = a
  PROVE  Good(u, k, s, a, Fresh({cmd}), QuietNet, c, FALSE, FALSE)
<1> DEFINE q == Fresh({cmd})
<1>1. q \in SUBSET Waiter
  BY FreshTyped DEF Entering, Commands
<1>2. Cmds(q) = {cmd} /\ Cmds(QuietNet.down) = {} /\ Alive(QuietNet, q) = {cmd}
  BY CmdsOf, QuietTyped DEF Alive
<1>3. k \in Timers /\ k.check = t.check + 1 /\ k.alive = t.alive /\ k.checkKnown
      /\ k.aliveKnown = t.aliveKnown /\ k.check > 0
  <2>1. t.check \in Nat /\ t.alive \in Nat /\ t.aliveKnown \in BOOLEAN
    BY DEF Timers
  <2>2. k = [check |-> t.check + 1, checkKnown |-> TRUE, alive |-> t.alive,
             aliveKnown |-> t.aliveKnown]
    BY DEF Timers
  <2>3. t.check + 1 \in Nat /\ t.check + 1 > 0
    BY <2>1
  <2>4. k \in Timers
    BY <2>1, <2>2, <2>3, Zenon DEF Timers
  <2> QED
    BY <2>2, <2>3, <2>4
<1>4. QuietNet.down = {} /\ QuietNet.accepted = FALSE /\ QuietNet.served = {}
  BY DEF QuietNet
<1>5. \A p, r \in q : p = r
  BY DEF Fresh
<1> HIDE DEF q
<1>6. ClientTyped(u, k, s, a, q, QuietNet, c, FALSE, FALSE)
  BY <1>1, <1>3, QuietTyped DEF ClientTyped
<1>7. NetOk(QuietNet, q)
  BY <1>2, <1>4, <1>5 DEF NetOk, Entering
<1>8. FirstOk(u, k, s, a, q, QuietNet, FALSE)
  BY DEF FirstOk
<1>9. NameOk(u, a, q, QuietNet, FALSE)
  BY <1>2, <1>4 DEF NameOk, OnLine, Entering, Asking
<1>10. TimerOk(k, FALSE, u, q, QuietNet)
  BY <1>2, <1>3 DEF TimerOk, Entering, Asking
<1>11. TimersCounted(k, s, q, QuietNet, c)
  BY <1>3 DEF TimersCounted, Timers
<1> QED
  BY <1>6, <1>7, <1>8, <1>9, <1>10, <1>11 DEF Good, q

\* onConnect(true) in a good state.
LEMMA OnConnectedKeeps ==
  ASSUME OnConnected, ui' \in UIs, timers \in Timers, sock' \in Socks,
         connects' \in 0 .. MaxConnects,
         timers.aliveKnown => timers.alive > 0,
         timers.check + 1 <= connects', timers.alive + 1 <= connects',
         SockOk(sock', QuietNet), ~Upcoming(sock'),
         ui'.main_win <=> ui'.window = "main", ui'.window # "login", ~OnLine(ui'),
         ui'.proxyInfo \in Kinds,
         ui.name \in Accounts, ui.newUser \in BOOLEAN,
         ui'.window = "wizard" <=> ui.window = "wizard",
         ui'.name = ui.name, ui.window = "wizard" => ui'.newUser = ui.newUser
  PROVE  ClientInv'
<1> DEFINE register == ui.window = "wizard" /\ ui.newUser
           a == IF ui.window = "wizard" THEN (IF ui.newUser THEN "new" ELSE "old")
                                        ELSE ui.name
           cmd == IF register THEN "REGISTER" ELSE "LOGIN"
<1>1. /\ timers' = [timers EXCEPT !.check = @ + 1, !.checkKnown = TRUE]
      /\ udp' = Queue(reset(a), cmd)
      /\ Send(sock', QuietNet, {cmd})
      /\ reported' = FALSE /\ switched' = FALSE
  BY DEF OnConnected
<1>2. udp' = [account |-> a, sendQueue |-> Fresh({cmd})]
  BY <1>1 DEF Queue, reset
<1>3. a \in Accounts /\ cmd \in Entering
  BY DEF Accounts, Entering
<1>4. cmd = "REGISTER" => a = "new"
  OBVIOUS
<1>5. ui'.window = "wizard" => a = Account(ui')
  BY DEF Account
<1>6. ui'.main_win => ui'.name = a
  OBVIOUS
<1> HIDE DEF a, cmd
<1>7. Good(ui', timers', sock', a, Fresh({cmd}), QuietNet, connects', FALSE, FALSE)
  BY <1>1, <1>3, <1>4, <1>5, <1>6, ConnectedIsGood
<1>8. Cmds(Fresh({cmd})) = {cmd}
  BY CmdsOf, Zenon
<1>9. Good(ui', timers', sock', a, Fresh({cmd}), net', connects', FALSE, FALSE)
  BY <1>1, <1>7, <1>8, SendKeeps
<1>10. udp'.account = a /\ udp'.sendQueue = Fresh({cmd})
       /\ udp' = [account |-> udp'.account, sendQueue |-> udp'.sendQueue]
  BY <1>2
<1> QED
  BY <1>1, <1>9, <1>10, Zenon DEF ClientInv

\* The timers that onConnect(false) leaves.
LEMMA StoppedTimers ==
  ASSUME NEW t \in Timers, t.checkKnown => t.check > 0, t.aliveKnown => t.alive > 0
  PROVE  /\ StopTimers(t) \in Timers
         /\ StopTimers(t).check <= t.check /\ StopTimers(t).alive <= t.alive
         /\ ~StopTimers(t).checkKnown /\ ~StopTimers(t).aliveKnown
BY DEF StopTimers, Timers

\* The windows with a change of the animation.
LEMMA AnimationIs ==
  ASSUME NEW u \in UIs, NEW b \in BOOLEAN, NEW k, k = [u EXCEPT !.animate = b]
  PROVE  /\ k \in UIs
         /\ k.window = u.window /\ k.main_win = u.main_win /\ k.page = u.page
         /\ k.newUser = u.newUser /\ k.isFinished = u.isFinished /\ k.name = u.name
         /\ k.proxyInfo = u.proxyInfo /\ k.now_status = u.now_status
BY DEF UIs

\* ICQMain::connect, with the windows as u.
LEMMA ConnectKeeps ==
  ASSUME ClientInv, NEW u \in UIs, Connect(u),
         ~OnLine(u), u.window # "login", u.main_win <=> u.window = "main",
         u.window = "wizard" <=> ui.window = "wizard", u.name = ui.name,
         u.window = "wizard" => u.newUser = ui.newUser /\ u.now_status = ui.now_status,
         u.proxyInfo \in Kinds
  PROVE  ClientInv'
<1> DEFINE q == udp.sendQueue
           a == udp.account
<1>1. /\ SockOk(sock, net) /\ NetOk(net, q) /\ FirstOk(ui, timers, sock, a, q, net, reported)
      /\ NameOk(ui, a, q, net, switched) /\ TimerOk(timers, reported, ui, q, net)
      /\ TimersCounted(timers, sock, q, net, connects)
      /\ udp = [account |-> a, sendQueue |-> q]
  BY DEF ClientInv, Good
<1>2. /\ ui \in UIs /\ timers \in Timers /\ sock \in Socks /\ a \in Accounts
      /\ q \in SUBSET Waiter /\ net \in Nets /\ connects \in 0 .. MaxConnects
      /\ reported \in BOOLEAN /\ switched \in BOOLEAN
  BY DEF ClientInv, Good, ClientTyped
<1>3. connects' = connects + 1 /\ connects' \in 0 .. MaxConnects
  BY <1>2, ClientAssumption DEF Connect
<1>4. /\ timers.check \in Nat /\ timers.alive \in Nat
      /\ timers.check <= connects /\ timers.alive <= connects
      /\ timers.checkKnown => timers.check > 0
      /\ timers.aliveKnown => timers.alive > 0
  BY <1>1, <1>2 DEF TimersCounted, TimerOk, Timers
<1>5. Alive(QuietNet, q) = Cmds(q) /\ Alive(QuietNet, q) \subseteq Alive(net, q)
      /\ QuietNet.down = {} /\ QuietNet.accepted = FALSE /\ QuietNet.served = {}
      /\ QuietNet \in Nets
  BY QuietTyped DEF Alive, QuietNet
<1>6. NetOk(QuietNet, q)
  BY <1>1, <1>5 DEF NetOk
<1>7. ASSUME NEW k \in UIs, k.window = u.window, k.main_win = u.main_win,
             k.newUser = u.newUser, k.isFinished = u.isFinished, k.name = u.name,
             k.proxyInfo = u.proxyInfo, k.now_status = u.now_status,
             NEW t, NEW s
      PROVE  /\ FirstOk(k, t, s, a, q, QuietNet, reported')
             /\ NameOk(k, a, q, QuietNet, switched)
  <2>1. ~OnLine(k)
    BY <1>7 DEF OnLine
  <2>2. FirstOk(k, t, s, a, q, QuietNet, reported')
    BY <1>7 DEF FirstOk
  <2>3. k.main_win => k.name = a \/ switched
    BY <1>1, <1>2, <1>7 DEF FirstOk, NameOk, UIs
  <2>4. ASSUME k.window = "wizard" PROVE Account(k) = Account(ui) /\ ~k.isFinished
    BY <1>7, <2>1, <2>4 DEF Account, OnLine
  <2> QED
    BY <1>1, <1>5, <1>7, <2>1, <2>2, <2>3, <2>4 DEF NameOk
<1>8. CASE u.proxyInfo = "null" /\ OnConnected /\ ui' = u
  <2>1. sock' = [kind |-> "null", status |-> "NOT_CONN", tcp |-> "none"]
    BY <1>8 DEF Connect, NoSocket
  <2>2. sock' \in Socks
    BY <1>8, <2>1, Zenon DEF Socks
  <2>3. SockOk(sock', QuietNet) /\ ~Upcoming(sock')
    BY <2>1 DEF SockOk, Upcoming
  <2>4. timers.check + 1 <= connects' /\ timers.alive + 1 <= connects'
    BY <1>2, <1>3, <1>4
  <2>5. ui.name \in Accounts /\ ui.newUser \in BOOLEAN
    BY <1>2 DEF UIs
  <2> QED
    BY <1>2, <1>3, <1>4, <1>8, <2>2, <2>3, <2>4, <2>5, OnConnectedKeeps
<1>9. CASE /\ u.proxyInfo = "null" /\ OnConnectFailed(u) /\ net' = QuietNet
           /\ UNCHANGED <<udp, switched>>
  <2>1. sock' = [kind |-> "null", status |-> "NOT_CONN", tcp |-> "none"]
    BY <1>9 DEF Connect, NoSocket
  <2>2. sock' \in Socks
    BY <1>9, <2>1, Zenon DEF Socks
  <2>3. SockOk(sock', QuietNet) /\ ~Upcoming(sock')
    BY <2>1 DEF SockOk, Upcoming, Stands
  <2>4. timers' = StopTimers(timers) /\ ui' = [u EXCEPT !.animate = FALSE]
        /\ reported' = TRUE
    BY <1>9 DEF OnConnectFailed
  <2>5. /\ timers' \in Timers
        /\ timers'.check <= timers.check /\ timers'.alive <= timers.alive
        /\ ~timers'.checkKnown /\ ~timers'.aliveKnown
    BY <1>2, <1>4, <2>4, StoppedTimers
  <2>6. TimersCounted(timers', sock', q, QuietNet, connects')
    BY <1>2, <1>3, <1>4, <2>3, <2>5 DEF TimersCounted, Timers
  <2>7. TimerOk(timers', TRUE, ui', q, QuietNet)
    BY <2>5 DEF TimerOk
  <2>8. /\ ui' \in UIs /\ ui'.window = u.window /\ ui'.main_win = u.main_win
        /\ ui'.newUser = u.newUser /\ ui'.isFinished = u.isFinished
        /\ ui'.name = u.name /\ ui'.proxyInfo = u.proxyInfo
        /\ ui'.now_status = u.now_status
    BY <2>4, AnimationIs
  <2>9. /\ FirstOk(ui', timers', sock', a, q, QuietNet, reported')
        /\ NameOk(ui', a, q, QuietNet, switched)
    BY <1>7, <2>8
  <2>10. ClientTyped(ui', timers', sock', a, q, QuietNet, connects', TRUE, switched)
    BY <1>2, <1>3, <1>5, <2>2, <2>5, <2>8 DEF ClientTyped
  <2>11. Good(ui', timers', sock', a, q, QuietNet, connects', TRUE, switched)
    BY <1>6, <2>3, <2>4, <2>6, <2>7, <2>9, <2>10 DEF Good
  <2> QED
    BY <1>1, <1>9, <2>4, <2>11 DEF ClientInv
<1>10. CASE /\ u.proxyInfo # "null" /\ ui' = u /\ net' = QuietNet
            /\ sock' = [kind |-> u.proxyInfo, status |-> "NOT_CONN", tcp |-> "pending"]
            /\ UNCHANGED <<udp, timers, reported, switched>>
  <2>1. u.proxyInfo \in {"socks", "http"}
    BY <1>10, ClientAssumption
  <2>2. sock' \in Socks
    BY <1>10, Zenon DEF Socks
  <2>3. SockOk(sock', QuietNet) /\ Upcoming(sock')
    BY <1>10, <2>1 DEF SockOk, Upcoming, Stands
  <2>4. TimersCounted(timers, sock', q, QuietNet, connects')
    BY <1>2, <1>3, <1>4, <2>3 DEF TimersCounted
  <2>5. TimerOk(timers, reported, ui', q, QuietNet)
    BY <1>1, <1>5, <1>10 DEF TimerOk, OnLine
  <2>6. /\ FirstOk(ui', timers', sock', a, q, QuietNet, reported')
        /\ NameOk(ui', a, q, QuietNet, switched)
    BY <1>7, <1>10
  <2>7. ClientTyped(ui', timers, sock', a, q, QuietNet, connects', reported, switched)
    BY <1>2, <1>3, <1>5, <1>10, <2>2 DEF ClientTyped
  <2>8. Good(ui', timers', sock', a, q, QuietNet, connects', reported', switched')
    BY <1>6, <1>10, <2>3, <2>4, <2>5, <2>6, <2>7 DEF Good
  <2> QED
    BY <1>1, <1>10, <2>8 DEF ClientInv
<1> QED
  BY <1>8, <1>9, <1>10 DEF Connect

\* What a good state says, part by part.
LEMMA Parts ==
  ASSUME ClientInv
  PROVE  /\ SockOk(sock, net) /\ NetOk(net, udp.sendQueue)
         /\ FirstOk(ui, timers, sock, udp.account, udp.sendQueue, net, reported)
         /\ NameOk(ui, udp.account, udp.sendQueue, net, switched)
         /\ TimerOk(timers, reported, ui, udp.sendQueue, net)
         /\ TimersCounted(timers, sock, udp.sendQueue, net, connects)
         /\ udp = [account |-> udp.account, sendQueue |-> udp.sendQueue]
         /\ ui \in UIs /\ timers \in Timers /\ sock \in Socks /\ udp.account \in Accounts
         /\ udp.sendQueue \in SUBSET Waiter /\ net \in Nets
         /\ connects \in 0 .. MaxConnects /\ reported \in BOOLEAN /\ switched \in BOOLEAN
BY DEF ClientInv, Good, ClientTyped

\* The connection to the proxy stands.
LEMMA ProxyWriteKeeps ==
  ASSUME ClientInv, OnProxyWrite
  PROVE  ClientInv'
<1> DEFINE q == udp.sendQueue
           a == udp.account
<1>1. /\ SockOk(sock, net) /\ NetOk(net, q) /\ FirstOk(ui, timers, sock, a, q, net, reported)
      /\ NameOk(ui, a, q, net, switched) /\ TimerOk(timers, reported, ui, q, net)
      /\ TimersCounted(timers, sock, q, net, connects)
      /\ udp = [account |-> a, sendQueue |-> q]
  BY Parts
<1>2. /\ ui \in UIs /\ timers \in Timers /\ sock \in Socks /\ a \in Accounts
      /\ q \in SUBSET Waiter /\ net \in Nets /\ connects \in 0 .. MaxConnects
      /\ reported \in BOOLEAN /\ switched \in BOOLEAN
  BY Parts
<1>3. /\ sock.tcp = "pending" /\ sock.status = "NOT_CONN"
      /\ UNCHANGED <<ui, timers, udp, net, connects, reported, switched>>
  BY <1>1 DEF OnProxyWrite, SockOk, clientHistory
<1>4. /\ sock' \in Socks /\ sock'.tcp = "up" /\ sock'.kind = sock.kind
      /\ sock'.status \in {"METHOD", "NOT_CONN"} /\ sock.kind \notin {"null", "none"}
  BY <1>1, <1>2, <1>3 DEF OnProxyWrite, Socks, SockOk
<1>5. SockOk(sock', net)
  BY <1>1, <1>3, <1>4 DEF SockOk, Stands
<1>6. TimersCounted(timers, sock', q, net, connects)
  BY <1>1, <1>3, <1>4 DEF TimersCounted, Upcoming, Owing, Opened
<1>7. FirstOk(ui, timers, sock', a, q, net, reported)
  BY <1>1, <1>3 DEF FirstOk, NoSocket
<1>8. ClientTyped(ui, timers, sock', a, q, net, connects, reported, switched)
  BY <1>2, <1>4 DEF ClientTyped
<1>9. Good(ui, timers, sock', a, q, net, connects, reported, switched)
  BY <1>1, <1>5, <1>6, <1>7, <1>8 DEF Good
<1> QED
  BY <1>1, <1>3, <1>9 DEF ClientInv

\* The proxy fails.
LEMMA ProxyExceptionKeeps ==
  ASSUME ClientInv, OnProxyException
  PROVE  ClientInv'
<1> DEFINE q == udp.sendQueue
           a == udp.account
<1>1. /\ SockOk(sock, net) /\ NetOk(net, q) /\ FirstOk(ui, timers, sock, a, q, net, reported)
      /\ NameOk(ui, a, q, net, switched) /\ TimerOk(timers, reported, ui, q, net)
      /\ TimersCounted(timers, sock, q, net, connects)
      /\ udp = [account |-> a, sendQueue |-> q]
  BY Parts
<1>2. /\ ui \in UIs /\ timers \in Timers /\ sock \in Socks /\ a \in Accounts
      /\ q \in SUBSET Waiter /\ net \in Nets /\ connects \in 0 .. MaxConnects
      /\ reported \in BOOLEAN /\ switched \in BOOLEAN
  BY Parts
<1>3. /\ sock.tcp \in {"pending", "up"} /\ sock' = [sock EXCEPT !.tcp = "closed"]
      /\ timers' = StopTimers(timers) /\ ui' = [ui EXCEPT !.animate = FALSE]
      /\ reported' = TRUE /\ net' = [net EXCEPT !.served = {}, !.down = {}]
      /\ UNCHANGED <<udp, connects, switched>>
  BY DEF OnProxyException, ProxyException, OnConnectFailed
<1>4. /\ sock' \in Socks /\ sock'.tcp = "closed" /\ sock'.kind = sock.kind
      /\ sock'.status = sock.status /\ sock.kind \notin {"null", "none"} /\ sock # NoSocket
  BY <1>1, <1>2, <1>3 DEF Socks, SockOk, NoSocket
<1>5. /\ timers' \in Timers /\ timers.check \in Nat /\ timers.alive \in Nat
      /\ timers'.check <= timers.check /\ timers'.alive <= timers.alive
      /\ ~timers'.checkKnown /\ ~timers'.aliveKnown
  BY <1>1, <1>2, <1>3, StoppedTimers DEF TimerOk, Timers
<1>6. /\ ui' \in UIs /\ ui'.window = ui.window /\ ui'.main_win = ui.main_win
      /\ ui'.newUser = ui.newUser /\ ui'.isFinished = ui.isFinished
      /\ ui'.name = ui.name /\ ui'.proxyInfo = ui.proxyInfo
      /\ ui'.now_status = ui.now_status
  BY <1>2, <1>3, AnimationIs
<1>7. /\ net' = [served |-> {}, down |-> {}, accepted |-> net.accepted]
      /\ net.accepted \in BOOLEAN
  BY <1>2, <1>3 DEF Nets
<1>8. net' \in Nets /\ net'.down = {} /\ net'.accepted = net.accepted /\ net'.served = {}
  <2>1. net' \in Nets
    <3>1. {} \in SUBSET Replied /\ {} \in SUBSET Replies
      OBVIOUS
    <3> QED
      BY <1>7, <3>1, Zenon DEF Nets
  <2> QED
    BY <1>7, <2>1
<1>9. Alive(net', q) \subseteq Alive(net, q)
  BY <1>8, QuietTyped DEF Alive
<1>10. SockOk(sock', net')
  <2>1. ASSUME ~Stands(sock') PROVE net' = QuietNet
    <3>1. net.accepted = FALSE
      BY <1>1, <1>4, <2>1 DEF SockOk, Stands, QuietNet
    <3> QED
      BY <1>7, <3>1 DEF QuietNet
  <2> QED
    BY <1>4, <2>1 DEF SockOk
<1>11. NetOk(net', q)
  BY <1>1, <1>8, <1>9 DEF NetOk
<1>12. FirstOk(ui', timers', sock', a, q, net', TRUE)
  BY <1>1, <1>4, <1>6 DEF FirstOk
<1>13. NameOk(ui', a, q, net', switched)
  BY <1>1, <1>6, <1>8, <1>9 DEF NameOk, OnLine, Account
<1>14. TimerOk(timers', TRUE, ui', q, net')
  BY <1>5 DEF TimerOk
<1>15. TimersCounted(timers', sock', q, net', connects)
  <2>1. ~Upcoming(sock') /\ ~Owing(sock', q, net')
    BY <1>4, <1>8, QuietTyped DEF Upcoming, Owing, Opened
  <2> QED
    BY <1>1, <1>2, <1>5, <2>1 DEF TimersCounted, Timers
<1>16. ClientTyped(ui', timers', sock', a, q, net', connects, TRUE, switched)
  BY <1>2, <1>4, <1>5, <1>6, <1>8 DEF ClientTyped
<1>17. Good(ui', timers', sock', a, q, net', connects, TRUE, switched)
  BY <1>10, <1>11, <1>12, <1>13, <1>14, <1>15, <1>16 DEF Good
<1> QED
  BY <1>1, <1>3, <1>17 DEF ClientInv

\* A good reply of the proxy.
LEMMA ProxyReplyKeeps ==
  ASSUME ClientInv, OnProxyReply
  PROVE  ClientInv'
<1> DEFINE q == udp.sendQueue
           a == udp.account
<1>1. /\ SockOk(sock, net) /\ NetOk(net, q) /\ FirstOk(ui, timers, sock, a, q, net, reported)
      /\ NameOk(ui, a, q, net, switched) /\ TimerOk(timers, reported, ui, q, net)
      /\ TimersCounted(timers, sock, q, net, connects)
      /\ udp = [account |-> a, sendQueue |-> q]
  BY Parts
<1>2. /\ ui \in UIs /\ timers \in Timers /\ sock \in Socks /\ a \in Accounts
      /\ q \in SUBSET Waiter /\ net \in Nets /\ connects \in 0 .. MaxConnects
      /\ reported \in BOOLEAN /\ switched \in BOOLEAN
  BY Parts
<1>3. PICK status \in NextStatus(sock) :
        /\ sock' = [sock EXCEPT !.status = status]
        /\ IF status = "ESTABLISHED" THEN OnConnected
           ELSE UNCHANGED <<timers, udp, net, reported, switched>>
  BY DEF OnProxyReply
<1>4. sock.tcp = "up" /\ sock.status # "ESTABLISHED" /\ UNCHANGED <<ui, connects>>
  BY DEF OnProxyReply
<1>5. status \in {"AUTH", "ASSOCIATE", "ESTABLISHED"}
  BY <1>3 DEF NextStatus
<1>6. /\ sock' \in Socks /\ sock'.tcp = "up" /\ sock'.kind = sock.kind
      /\ sock'.status = status /\ sock.kind \notin {"null", "none"} /\ sock # NoSocket
  BY <1>1, <1>2, <1>3, <1>4, <1>5 DEF Socks, SockOk, NoSocket
<1>7. net = QuietNet /\ Upcoming(sock) /\ net.accepted = FALSE
  BY <1>1, <1>4, <1>6 DEF SockOk, Stands, Upcoming, QuietNet
<1>8. ui.window # "login" /\ ~OnLine(ui) /\ ui.proxyInfo \in Kinds
  BY <1>1, <1>6, <1>7 DEF FirstOk, NameOk
<1>9. CASE status = "ESTABLISHED"
  <2>1. SockOk(sock', QuietNet) /\ ~Upcoming(sock')
    BY <1>6, <1>9 DEF SockOk, Stands, Upcoming
  <2>2. timers.check + 1 <= connects' /\ timers.alive + 1 <= connects'
    BY <1>1, <1>4, <1>7 DEF TimersCounted, Owing
  <2>3. timers.aliveKnown => timers.alive > 0
    BY <1>1 DEF TimerOk
  <2>4. ui'.main_win <=> ui'.window = "main"
    BY <1>1, <1>4 DEF FirstOk
  <2>5. ui.name \in Accounts /\ ui.newUser \in BOOLEAN
    BY <1>2 DEF UIs
  <2> QED
    BY <1>2, <1>3, <1>4, <1>6, <1>8, <1>9, <2>1, <2>2, <2>3, <2>4, <2>5, OnConnectedKeeps
<1>10. CASE status # "ESTABLISHED"
  <2>1. UNCHANGED <<timers, udp, net, reported, switched>>
    BY <1>3, <1>10
  <2>2. SockOk(sock', net)
    BY <1>6, <1>7, <1>10 DEF SockOk
  <2>3. TimersCounted(timers, sock', q, net, connects)
    BY <1>1, <1>7, <1>10 DEF TimersCounted, Owing
  <2>4. FirstOk(ui, timers, sock', a, q, net, reported)
    BY <1>1, <1>8 DEF FirstOk
  <2>5. ClientTyped(ui, timers, sock', a, q, net, connects, reported, switched)
    BY <1>2, <1>6 DEF ClientTyped
  <2>6. Good(ui, timers, sock', a, q, net, connects, reported, switched)
    BY <1>1, <2>2, <2>3, <2>4, <2>5 DEF Good
  <2> QED
    BY <1>1, <1>4, <2>1, <2>6 DEF ClientInv
<1> QED
  BY <1>9, <1>10

\* Some packets have expired: they are sent once more, or have failed.
LEMMA CheckSendQueueKeeps ==
  ASSUME ClientInv, CheckSendQueue
  PROVE  ClientInv'
<1> DEFINE q == udp.sendQueue
           a == udp.account
<1>1. /\ SockOk(sock, net) /\ NetOk(net, q) /\ FirstOk(ui, timers, sock, a, q, net, reported)
      /\ NameOk(ui, a, q, net, switched) /\ TimerOk(timers, reported, ui, q, net)
      /\ TimersCounted(timers, sock, q, net, connects)
      /\ udp = [account |-> a, sendQueue |-> q]
  BY Parts
<1>2. /\ ui \in UIs /\ timers \in Timers /\ sock \in Socks /\ a \in Accounts
      /\ q \in SUBSET Waiter /\ net \in Nets /\ connects \in 0 .. MaxConnects
      /\ reported \in BOOLEAN /\ switched \in BOOLEAN
  BY Parts
<1>3. PICK expired \in (SUBSET q) \ {{}} :
       LET again == {p \in expired : p.attempts + 1 < MAX_SEND_ATTEMPTS}
           failed == Cmds(expired \ again)
       IN /\ udp' = [udp EXCEPT !.sendQueue =
                       (@ \ expired) \cup {[p EXCEPT !.attempts = @ + 1] : p \in again}]
          /\ Send(sock, Done(net, failed), Cmds(again))
          /\ IF LosesConnection(failed)
             THEN OnConnectFailed(ui) ELSE UNCHANGED <<timers, ui, reported>>
  BY DEF CheckSendQueue
<1> DEFINE again == {p \in expired : p.attempts + 1 < MAX_SEND_ATTEMPTS}
           failed == Cmds(expired \ again)
           Later == {[p EXCEPT !.attempts = @ + 1] : p \in again}
           r == (q \ expired) \cup Later
           n == Done(net, failed)
<1>4. udp' = [account |-> a, sendQueue |-> r]
  BY <1>1, <1>3
<1>5. \A p \in again : [p EXCEPT !.attempts = @ + 1] \in Waiter
                       /\ [p EXCEPT !.attempts = @ + 1].cmd = p.cmd
  <2>1. ASSUME NEW p \in again
        PROVE [p EXCEPT !.attempts = @ + 1] \in Waiter
              /\ [p EXCEPT !.attempts = @ + 1].cmd = p.cmd
    <3>1. /\ p = [cmd |-> p.cmd, attempts |-> p.attempts] /\ p.cmd \in Commands
          /\ p.attempts \in 0 .. MAX_SEND_ATTEMPTS - 1
          /\ p.attempts + 1 < MAX_SEND_ATTEMPTS
      BY <1>2 DEF Waiter
    <3>2. [p EXCEPT !.attempts = @ + 1] = [cmd |-> p.cmd, attempts |-> p.attempts + 1]
      BY <3>1
    <3>3. p.attempts + 1 \in 0 .. MAX_SEND_ATTEMPTS - 1
      BY <3>1, ClientAssumption
    <3> QED
      BY <3>1, <3>2, <3>3 DEF Waiter
  <2> QED
    BY <2>1
<1>6. \A p \in Later : p \in Waiter /\ \E x \in again : p = [x EXCEPT !.attempts = @ + 1]
                                                        /\ p.cmd = x.cmd
  BY <1>5
<1>7. again \subseteq expired /\ expired \subseteq q /\ expired # {}
  OBVIOUS
<1> HIDE DEF again
<1>8. r \in SUBSET Waiter /\ Cmds(again) \subseteq Cmds(r)
  <2>1. ASSUME NEW p \in again PROVE p.cmd \in Cmds(r)
    <3>1. [p EXCEPT !.attempts = @ + 1] \in r
      OBVIOUS
    <3>2. p.cmd = [p EXCEPT !.attempts = @ + 1].cmd
      BY <1>5
    <3> HIDE DEF r
    <3> QED
      BY <3>1, <3>2 DEF Cmds
  <2>2. r \in SUBSET Waiter
    BY <1>2, <1>6
  <2> QED
    BY <2>1, <2>2 DEF Cmds
\* Where a packet of the new queue comes from.
<1>9. \A p \in r : \E x \in q : /\ x.cmd = p.cmd /\ x \notin expired \ again
                                /\ p = IF x \in again THEN [x EXCEPT !.attempts = @ + 1] ELSE x
  BY <1>6, <1>7
<1> HIDE DEF Later, r
<1>10. Cmds(r) \subseteq Cmds(q)
  BY <1>9 DEF Cmds
<1>11. \A p \in r : p.cmd \in Entering => p.cmd \notin failed
  BY <1>1, <1>7, <1>9 DEF NetOk, Cmds
<1>12. \A p, x \in r : p.cmd \in Entering /\ x.cmd = p.cmd => p = x
  BY <1>1, <1>9 DEF NetOk
<1> HIDE DEF failed
<1>13. n = [served |-> net.served \ failed, down |-> net.down, accepted |-> net.accepted]
  <2>1. net = [served |-> net.served, down |-> net.down, accepted |-> net.accepted]
    BY <1>2 DEF Nets
  <2>2. n = [net EXCEPT !.served = net.served \ failed]
    BY DEF Done
  <2> HIDE DEF n
  <2> QED
    BY <2>1, <2>2
<1>14. n \in Nets /\ n.served = net.served \ failed /\ n.down = net.down
       /\ n.accepted = net.accepted
  BY <1>2, <1>13 DEF Nets
<1>15. net = QuietNet => n = QuietNet
  BY <1>13 DEF QuietNet
<1> HIDE DEF n
<1>16. Alive(n, r) \subseteq Alive(net, q)
  BY <1>10, <1>14 DEF Alive
<1>17. SockOk(sock, n)
  BY <1>1, <1>15 DEF SockOk
<1>18. NetOk(n, r)
  <2>1. \A m \in n.down : m.cmd \in Entering /\ m.cmd \in Cmds(r) => m.cmd \in n.served
    BY <1>1, <1>10, <1>11, <1>14 DEF NetOk, Cmds
  <2> QED
    BY <1>1, <1>12, <1>14, <1>16, <2>1 DEF NetOk
<1>19. Owing(sock, r, n) => Owing(sock, q, net)
  <2>1. ASSUME NEW e \in Cmds(r) \cap (Entering \ n.served)
        PROVE  e \in Cmds(q) \cap (Entering \ net.served)
    BY <1>10, <1>11, <1>14 DEF Cmds
  <2> QED
    BY <1>14, <2>1 DEF Owing
<1>20. ui.window # "login"
  BY <1>1, <1>7 DEF FirstOk
<1>21. UNCHANGED <<sock, connects, switched>> /\ timers.check > 0
  BY DEF CheckSendQueue
<1>22. /\ timers' \in Timers /\ ui' \in UIs /\ reported' \in BOOLEAN
       /\ timers'.check <= timers.check /\ timers'.alive <= timers.alive
       /\ TimerOk(timers', reported', ui', r, n)
       /\ ui'.window = ui.window /\ ui'.main_win = ui.main_win
       /\ ui'.newUser = ui.newUser /\ ui'.isFinished = ui.isFinished
       /\ ui'.name = ui.name /\ ui'.proxyInfo = ui.proxyInfo
       /\ ui'.now_status = ui.now_status
  <2>1. CASE LosesConnection(failed)
    <3>1. timers' = StopTimers(timers) /\ ui' = [ui EXCEPT !.animate = FALSE]
          /\ reported' = TRUE
      BY <1>3, <2>1 DEF OnConnectFailed, failed, again
    <3>2. /\ timers' \in Timers
          /\ timers'.check <= timers.check /\ timers'.alive <= timers.alive
          /\ ~timers'.checkKnown /\ ~timers'.aliveKnown
      BY <1>1, <1>2, <3>1, StoppedTimers DEF TimerOk
    <3>3. TimerOk(timers', reported', ui', r, n)
      BY <3>1, <3>2 DEF TimerOk
    <3>4. /\ ui' \in UIs /\ ui'.window = ui.window /\ ui'.main_win = ui.main_win
          /\ ui'.newUser = ui.newUser /\ ui'.isFinished = ui.isFinished
          /\ ui'.name = ui.name /\ ui'.proxyInfo = ui.proxyInfo
          /\ ui'.now_status = ui.now_status
      BY <1>2, <3>1, AnimationIs
    <3> QED
      BY <3>1, <3>2, <3>3, <3>4
  <2>2. CASE ~LosesConnection(failed)
    <3>1. UNCHANGED <<timers, ui, reported>>
      BY <1>3, <2>2 DEF failed, again
    <3>2. TimerOk(timers, reported, ui, r, n)
      BY <1>1, <1>16, <1>21 DEF TimerOk
    <3> QED
      BY <1>2, <3>1, <3>2 DEF Timers
  <2> QED
    BY <2>1, <2>2
<1>23. FirstOk(ui', timers', sock, a, r, n, reported')
  BY <1>1, <1>20, <1>22 DEF FirstOk
<1>24. NameOk(ui', a, r, n, switched)
  BY <1>1, <1>14, <1>16, <1>22 DEF NameOk, OnLine, Account
<1>25. TimersCounted(timers', sock, r, n, connects)
  BY <1>1, <1>2, <1>19, <1>22 DEF TimersCounted, Timers
<1>26. ClientTyped(ui', timers', sock, a, r, n, connects, reported', switched)
  BY <1>2, <1>8, <1>14, <1>22 DEF ClientTyped
<1>27. Good(ui', timers', sock, a, r, n, connects, reported', switched)
  BY <1>17, <1>18, <1>22, <1>23, <1>24, <1>25, <1>26 DEF Good
<1>28. Send(sock, n, Cmds(again))
  BY <1>3 DEF n, failed, again
<1>29. Good(ui', timers', sock, a, r, net', connects, reported', switched)
  BY <1>8, <1>27, <1>28, SendKeeps
<1> QED
  BY <1>4, <1>21, <1>29 DEF ClientInv

\* Packets that neither log in nor register are added to the queue.
LEMMA QueuedKeeps ==
  ASSUME NEW u, NEW t, NEW s, NEW a, NEW q, NEW n, NEW c, NEW f, NEW o,
         Good(u, t, s, a, q, n, c, f, o), NEW cmds \in SUBSET (Commands \ Entering),
         u.window # "login", ~f => t.check > 0,
         u.window = "wizard" /\ cmds \cap Asking # {} =>
           (u.name = a \/ o) /\ u.now_status # OFFLINE /\ (~f => t.alive > 0)
  PROVE  Good(u, t, s, a, q \cup Fresh(cmds), n, c, f, o)
<1> DEFINE r == q \cup Fresh(cmds)
<1>1. /\ SockOk(s, n) /\ NetOk(n, q) /\ FirstOk(u, t, s, a, q, n, f) /\ NameOk(u, a, q, n, o)
      /\ TimerOk(t, f, u, q, n) /\ TimersCounted(t, s, q, n, c)
      /\ ClientTyped(u, t, s, a, q, n, c, f, o)
  BY DEF Good
<1>2. Cmds(r) = Cmds(q) \cup cmds
  BY CmdsOf
<1>3. cmds \cap Entering = {}
  OBVIOUS
<1>4. \A p \in r : p.cmd \in Entering => p \in q
  BY DEF Fresh
<1>5. r \in SUBSET Waiter
  BY <1>1, FreshTyped DEF ClientTyped
<1> HIDE DEF r
<1>6. NetOk(n, r)
  <2>1. \A p, x \in r : p.cmd \in Entering /\ x.cmd = p.cmd => p = x
    BY <1>1, <1>4 DEF NetOk
  <2>2. "REGISTER" \in Alive(n, r) => ~n.accepted /\ "LOGIN" \notin Alive(n, r)
    BY <1>1, <1>2, <1>3 DEF NetOk, Alive, Entering
  <2> QED
    BY <1>1, <1>2, <1>3, <2>1, <2>2 DEF NetOk
<1>7. FirstOk(u, t, s, a, r, n, f)
  BY <1>1 DEF FirstOk
<1>8. NameOk(u, a, r, n, o)
  BY <1>1, <1>2, <1>3 DEF NameOk, Alive, Entering
<1>9. TimerOk(t, f, u, r, n)
  BY <1>1, <1>2 DEF TimerOk, Alive
<1>10. TimersCounted(t, s, r, n, c)
  BY <1>1, <1>2, <1>3 DEF TimersCounted, Owing
<1>11. ClientTyped(u, t, s, a, r, n, c, f, o)
  BY <1>1, <1>5 DEF ClientTyped
<1> QED
  BY <1>1, <1>6, <1>7, <1>8, <1>9, <1>10, <1>11 DEF Good, r

\* A packet that neither logs in nor registers is sent, with the windows as they
\* are then.
LEMMA SendPacketKeeps ==
  ASSUME ClientInv, NEW cmd \in Commands \ (Entering \cup Asking),
         Good(ui', timers, sock, udp.account, udp.sendQueue, net, connects, reported, switched),
         ui'.window # "login", ~reported => timers.check > 0,
         sendPacket(cmd), UNCHANGED <<timers, sock, connects, reported, switched>>
  PROVE  ClientInv'
<1> DEFINE q == udp.sendQueue
           r == q \cup Fresh({cmd})
<1>1. udp' = [account |-> udp.account, sendQueue |-> r]
  BY Parts DEF sendPacket, Queue
<1>2. Send(sock, net, {cmd})
  BY DEF sendPacket
<1>3. {cmd} \in SUBSET (Commands \ Entering) /\ {cmd} \cap Asking = {}
  OBVIOUS
<1>4. Good(ui', timers, sock, udp.account, r, net, connects, reported, switched)
  BY <1>3, QueuedKeeps
<1>5. {cmd} \subseteq Cmds(r)
  BY CmdsOf
<1> HIDE DEF r
<1>6. Good(ui', timers, sock, udp.account, r, net', connects, reported, switched)
  BY <1>2, <1>4, <1>5, SendKeeps
<1> QED
  BY <1>1, <1>6 DEF ClientInv

\* A keepalive is sent.
LEMMA SendKeepAliveKeeps ==
  ASSUME ClientInv, SendKeepAlive
  PROVE  ClientInv'
<1>1. /\ timers.alive > 0 /\ sendPacket("KEEPALIVE")
      /\ UNCHANGED <<ui, timers, sock, connects, reported, switched>>
  BY DEF SendKeepAlive, clientHistory
<1>2. ~reported => timers.check > 0
  BY <1>1, Parts DEF TimerOk, Timers
<1>3. ui.window # "login"
  BY <1>1, Parts DEF FirstOk, Timers
<1>4. Good(ui', timers, sock, udp.account, udp.sendQueue, net, connects, reported, switched)
  BY <1>1 DEF ClientInv
<1>5. "KEEPALIVE" \in Commands \ (Entering \cup Asking)
  BY DEF Commands, Entering, Asking
<1> QED
  BY <1>1, <1>2, <1>3, <1>4, <1>5, SendPacketKeeps

\* linqd has got a packet.
LEMMA AckKeeps ==
  ASSUME ClientInv, OnAck
  PROVE  ClientInv'
<1> DEFINE q == udp.sendQueue
           a == udp.account
<1>1. /\ SockOk(sock, net) /\ NetOk(net, q) /\ FirstOk(ui, timers, sock, a, q, net, reported)
      /\ NameOk(ui, a, q, net, switched) /\ TimerOk(timers, reported, ui, q, net)
      /\ TimersCounted(timers, sock, q, net, connects)
      /\ udp = [account |-> a, sendQueue |-> q]
  BY Parts
<1>2. /\ ui \in UIs /\ timers \in Timers /\ sock \in Socks /\ a \in Accounts
      /\ q \in SUBSET Waiter /\ net \in Nets /\ connects \in 0 .. MaxConnects
      /\ reported \in BOOLEAN /\ switched \in BOOLEAN
  BY Parts
<1>3. PICK p \in q :
       /\ p.cmd \in Replied => p.cmd \in net.served
       /\ Known(p.cmd, net)
       /\ udp' = [udp EXCEPT !.sendQueue = @ \ {p}]
       /\ net' = Done(net, {p.cmd})
  BY DEF OnAck
<1> DEFINE r == q \ {p}
<1>4. udp' = [account |-> a, sendQueue |-> r]
      /\ UNCHANGED <<ui, timers, sock, connects, reported, switched>>
  BY <1>1, <1>3 DEF OnAck, clientHistory
<1>5. net' = [served |-> net.served \ {p.cmd}, down |-> net.down, accepted |-> net.accepted]
  BY <1>2, <1>3 DEF Done, Nets
<1>6. net' \in Nets /\ net'.served = net.served \ {p.cmd} /\ net'.down = net.down
      /\ net'.accepted = net.accepted
  BY <1>2, <1>5 DEF Nets
<1>7. net = QuietNet => net' = QuietNet
  BY <1>5 DEF QuietNet
<1>8. Cmds(r) \subseteq Cmds(q) /\ r \in SUBSET Waiter /\ q # {}
  BY <1>2 DEF Cmds
<1>9. p.cmd \in Entering => p.cmd \notin Cmds(r)
  BY <1>1 DEF NetOk, Cmds
<1>10. Alive(net', r) \subseteq Alive(net, q)
  BY <1>6, <1>8 DEF Alive
<1>11. SockOk(sock, net')
  BY <1>1, <1>7 DEF SockOk
<1>12. NetOk(net', r)
  <2>1. \A m \in net'.down : m.cmd \in Entering /\ m.cmd \in Cmds(r) => m.cmd \in net'.served
    BY <1>1, <1>6, <1>8, <1>9 DEF NetOk
  <2> QED
    BY <1>1, <1>6, <1>10, <2>1 DEF NetOk
<1>13. FirstOk(ui, timers, sock, a, r, net', reported)
  BY <1>1, <1>8 DEF FirstOk
<1>14. NameOk(ui, a, r, net', switched)
  BY <1>1, <1>6, <1>10 DEF NameOk
<1>15. TimerOk(timers, reported, ui, r, net')
  BY <1>1, <1>8, <1>10 DEF TimerOk
<1>16. TimersCounted(timers, sock, r, net', connects)
  <2>1. ASSUME NEW e \in Cmds(r) \cap (Entering \ net'.served)
        PROVE  e \in Cmds(q) \cap (Entering \ net.served)
    BY <1>6, <1>8, <1>9
  <2>2. Owing(sock, r, net') => Owing(sock, q, net)
    BY <1>6, <2>1 DEF Owing
  <2> QED
    BY <1>1, <2>2 DEF TimersCounted
<1>17. ClientTyped(ui, timers, sock, a, r, net', connects, reported, switched)
  BY <1>2, <1>6, <1>8 DEF ClientTyped
<1> HIDE DEF r
<1>18. Good(ui, timers, sock, a, r, net', connects, reported, switched)
  BY <1>11, <1>12, <1>13, <1>14, <1>15, <1>16, <1>17 DEF Good
<1> QED
  BY <1>4, <1>18 DEF ClientInv

\* A reply has arrived, and nothing else has changed.
LEMMA ArrivedKeeps ==
  ASSUME NEW u, NEW t, NEW s, NEW a, NEW q, NEW n, NEW c, NEW f, NEW o,
         Good(u, t, s, a, q, n, c, f, o), NEW m \in n.down,
         NEW k, k = [n EXCEPT !.down = @ \ {m}]
  PROVE  /\ Good(u, t, s, a, q, k, c, f, o)
         /\ k \in Nets /\ k.served = n.served /\ k.accepted = n.accepted
         /\ k.down = n.down \ {m} /\ Cmds(k.down) \subseteq Cmds(n.down)
         /\ m.cmd \in Cmds(n.down) /\ n # QuietNet
         /\ u.window # "login" /\ Stands(s) /\ ~Upcoming(s) /\ (~f => t.check > 0)
<1>1. /\ SockOk(s, n) /\ NetOk(n, q) /\ FirstOk(u, t, s, a, q, n, f) /\ NameOk(u, a, q, n, o)
      /\ TimerOk(t, f, u, q, n) /\ TimersCounted(t, s, q, n, c)
      /\ ClientTyped(u, t, s, a, q, n, c, f, o)
  BY DEF Good
<1>2. /\ k \in Nets /\ k.served = n.served /\ k.accepted = n.accepted
      /\ k.down = n.down \ {m}
  BY <1>1 DEF ClientTyped, Nets
<1>3. Cmds(k.down) \subseteq Cmds(n.down) /\ m.cmd \in Cmds(n.down) /\ n # QuietNet
  BY <1>2 DEF Cmds, QuietNet
<1>4. Stands(s) /\ ~Upcoming(s) /\ u.window # "login" /\ (~f => t.check > 0)
  BY <1>1, <1>3 DEF SockOk, Stands, Upcoming, FirstOk, TimerOk
<1>5. SockOk(s, k)
  BY <1>1, <1>4 DEF SockOk
<1>6. Alive(k, q) \subseteq Alive(n, q)
  BY <1>3 DEF Alive
<1>7. NetOk(k, q)
  BY <1>1, <1>2, <1>6 DEF NetOk
<1>8. FirstOk(u, t, s, a, q, k, f)
  BY <1>1, <1>4 DEF FirstOk
<1>9. NameOk(u, a, q, k, o)
  BY <1>1, <1>2, <1>6 DEF NameOk
<1>10. TimerOk(t, f, u, q, k)
  BY <1>1, <1>4, <1>6 DEF TimerOk
<1>11. TimersCounted(t, s, q, k, c)
  BY <1>1, <1>2, <1>3 DEF TimersCounted, Owing
<1>12. ClientTyped(u, t, s, a, q, k, c, f, o)
  BY <1>1, <1>2 DEF ClientTyped
<1> QED
  BY <1>2, <1>3, <1>4, <1>5, <1>7, <1>8, <1>9, <1>10, <1>11, <1>12 DEF Good

\* The reply to a registration: the wizard logs the new user in.
LEMMA RegisterReplyKeeps ==
  ASSUME ClientInv, NEW m \in net.down, OnRegisterReply(m)
  PROVE  ClientInv'
<1> DEFINE q == udp.sendQueue
           a == udp.account
           k == Arrived(m)
           r == Fresh({"LOGIN"})
<1>1. /\ SockOk(sock, net) /\ NetOk(net, q) /\ FirstOk(ui, timers, sock, a, q, net, reported)
      /\ NameOk(ui, a, q, net, switched) /\ TimerOk(timers, reported, ui, q, net)
      /\ TimersCounted(timers, sock, q, net, connects)
      /\ udp = [account |-> a, sendQueue |-> q]
  BY Parts
<1>2. /\ ui \in UIs /\ timers \in Timers /\ sock \in Socks /\ a \in Accounts
      /\ q \in SUBSET Waiter /\ net \in Nets /\ connects \in 0 .. MaxConnects
      /\ reported \in BOOLEAN /\ switched \in BOOLEAN
  BY Parts
<1>3. /\ m.cmd = "REGISTER"
      /\ UNCHANGED <<ui, timers, sock, connects, reported, switched>>
  BY DEF OnRegisterReply, clientHistory
<1>4. Good(ui, timers, sock, a, q, net, connects, reported, switched)
  BY DEF ClientInv
<1>5. k = [net EXCEPT !.down = @ \ {m}]
  BY DEF Arrived
<1> HIDE DEF k
<1>6. /\ Good(ui, timers, sock, a, q, k, connects, reported, switched)
      /\ m.cmd \in Cmds(net.down) /\ ui.window # "login" /\ Stands(sock) /\ ~Upcoming(sock)
      /\ ~reported => timers.check > 0
  BY <1>4, <1>5, ArrivedKeeps
<1>7. CASE ~(ui.window = "wizard" /\ ui.page = "result" /\ m.what = "success")
  BY <1>1, <1>3, <1>6, <1>7 DEF OnRegisterReply, ClientInv, k
<1>8. CASE ui.window = "wizard" /\ ui.page = "result" /\ m.what = "success"
  <2>1. udp' = [account |-> "new", sendQueue |-> r] /\ Send(sock, QuietNet, {"LOGIN"})
    BY <1>8 DEF OnRegisterReply, Queue, reset
  <2>2. "REGISTER" \in Alive(net, q) /\ a = "new" /\ net.accepted = FALSE /\ ~OnLine(ui)
    BY <1>1, <1>2, <1>3, <1>6 DEF Alive, NetOk, NameOk, Nets
  <2>3. switched \/ Account(ui) = "new"
    BY <1>1, <1>8, <2>2 DEF NameOk, Entering
  <2>4. r \in SUBSET Waiter
    BY FreshTyped DEF Commands
  <2>5. Cmds(r) = {"LOGIN"} /\ Alive(QuietNet, r) = {"LOGIN"} /\ Cmds(QuietNet.down) = {}
        /\ QuietNet \in Nets
    BY CmdsOf, QuietTyped DEF Alive
  <2>6. QuietNet.down = {} /\ QuietNet.accepted = FALSE /\ QuietNet.served = {}
    BY DEF QuietNet
  <2>7. \A p, x \in r : p = x
    BY DEF Fresh
  <2> HIDE DEF r
  <2>8. SockOk(sock, QuietNet)
    BY <1>1 DEF SockOk
  <2>9. NetOk(QuietNet, r)
    BY <2>5, <2>6, <2>7 DEF NetOk
  <2>10. FirstOk(ui, timers, sock, "new", r, QuietNet, reported)
    BY <1>1, <1>6 DEF FirstOk
  <2>11. NameOk(ui, "new", r, QuietNet, switched)
    BY <1>1, <1>8, <2>2, <2>3, <2>5, <2>6 DEF NameOk, Asking, OnLine, FirstOk
  <2>12. TimerOk(timers, reported, ui, r, QuietNet)
    BY <1>1, <1>6, <2>2, <2>5 DEF TimerOk, Asking
  <2>13. TimersCounted(timers, sock, r, QuietNet, connects)
    BY <1>1, <1>3, <1>6 DEF TimersCounted, Owing, Entering
  <2>14. ClientTyped(ui, timers, sock, "new", r, QuietNet, connects, reported, switched)
    BY <1>2, <2>4, <2>5 DEF ClientTyped, Accounts
  <2>15. Good(ui, timers, sock, "new", r, QuietNet, connects, reported, switched)
    BY <2>8, <2>9, <2>10, <2>11, <2>12, <2>13, <2>14 DEF Good
  <2>16. Good(ui, timers, sock, "new", r, net', connects, reported, switched)
    BY <2>1, <2>5, <2>15, SendKeeps
  <2> QED
    BY <1>3, <2>1, <2>16 DEF ClientInv
<1> QED
  BY <1>7, <1>8

\* The timers after the reply to a login.
LEMMA StartedTimers ==
  ASSUME NEW t \in Timers, NEW k, k = StartAlive(t)
  PROVE  /\ k \in Timers /\ k.check = t.check /\ k.checkKnown = t.checkKnown
         /\ k.alive = t.alive + 1 /\ k.aliveKnown
<1>1. /\ t.check \in Nat /\ t.alive \in Nat /\ t.checkKnown \in BOOLEAN
      /\ t.alive + 1 \in Nat /\ TRUE \in BOOLEAN
  BY DEF Timers
<1>2. k = [check |-> t.check, checkKnown |-> t.checkKnown,
           alive |-> t.alive + 1, aliveKnown |-> TRUE]
  BY DEF StartAlive, Timers
<1>3. k \in Timers
  BY <1>1, <1>2 DEF Timers
<1> QED
  BY <1>2, <1>3

\* Only one reply to a login comes, and then no other is due.
LEMMA LoginSettled ==
  ASSUME ClientInv, NEW m \in net.down, m.cmd = "LOGIN"
  PROVE  /\ ~Owing(sock, udp.sendQueue, Arrived(m))
         /\ Owing(sock, udp.sendQueue, net)
<1> DEFINE q == udp.sendQueue
           k == Arrived(m)
<1>1. Good(ui, timers, sock, udp.account, q, net, connects, reported, switched)
      /\ NetOk(net, q)
  BY Parts DEF ClientInv
<1>2. k = [net EXCEPT !.down = @ \ {m}]
  BY DEF Arrived
<1> HIDE DEF k
<1>3. /\ k.served = net.served /\ k.down = net.down \ {m}
      /\ m.cmd \in Cmds(net.down) /\ ~Upcoming(sock)
  BY <1>1, <1>2, ArrivedKeeps
<1>4. Cmds(k.down) \cap Entering = {}
  BY <1>1, <1>3 DEF NetOk, Cmds, Entering
<1>5. Cmds(q) \cap (Entering \ k.served) = {}
  BY <1>1, <1>3 DEF NetOk, Alive, Entering
<1>6. "LOGIN" \in Cmds(net.down) \cap Entering
  BY <1>3 DEF Entering
<1> QED
  BY <1>3, <1>4, <1>5, <1>6 DEF Owing, k

\* The reply to a login.
LEMMA LoginReplyKeeps ==
  ASSUME ClientInv, NEW m \in net.down, OnLoginReply(m)
  PROVE  ClientInv'
<1> DEFINE q == udp.sendQueue
           a == udp.account
           k == Arrived(m)
<1>1. /\ SockOk(sock, net) /\ NetOk(net, q) /\ FirstOk(ui, timers, sock, a, q, net, reported)
      /\ NameOk(ui, a, q, net, switched) /\ TimerOk(timers, reported, ui, q, net)
      /\ TimersCounted(timers, sock, q, net, connects)
      /\ udp = [account |-> a, sendQueue |-> q]
  BY Parts
<1>2. /\ ui \in UIs /\ timers \in Timers /\ sock \in Socks /\ a \in Accounts
      /\ q \in SUBSET Waiter /\ net \in Nets /\ connects \in 0 .. MaxConnects
      /\ reported \in BOOLEAN /\ switched \in BOOLEAN
  BY Parts
<1>3. /\ m.cmd = "LOGIN" /\ UNCHANGED <<sock, connects, reported, switched>>
      /\ timers' = IF m.what = "success" THEN StartAlive(timers) ELSE timers
  BY DEF OnLoginReply, clientHistory
<1>4. ~Owing(sock, q, k) /\ Owing(sock, q, net)
  BY <1>3, LoginSettled
<1>5. k = [net EXCEPT !.down = @ \ {m}]
  BY DEF Arrived
<1> HIDE DEF k
<1>6. Good(ui, timers, sock, a, q, net, connects, reported, switched)
  BY DEF ClientInv
<1>7. /\ SockOk(sock, k) /\ NetOk(k, q) /\ NameOk(ui, a, q, k, switched)
      /\ TimerOk(timers, reported, ui, q, k) /\ FirstOk(ui, timers, sock, a, q, k, reported)
  BY <1>5, <1>6, ArrivedKeeps DEF Good
<1>8. /\ k \in Nets /\ k.served = net.served /\ k.accepted = net.accepted
      /\ m.cmd \in Cmds(net.down) /\ ui.window # "login" /\ ~Upcoming(sock)
      /\ ~reported => timers.check > 0
  BY <1>5, <1>6, ArrivedKeeps
<1>9. timers.check \in Nat /\ timers.alive \in Nat /\ connects \in Nat
  BY <1>2 DEF Timers
<1>10. /\ timers' \in Timers /\ timers'.check = timers.check
       /\ timers'.checkKnown = timers.checkKnown /\ timers'.alive >= timers.alive
       /\ timers'.aliveKnown => timers'.alive > 0
       /\ m.what = "success" => timers'.alive > 0
       /\ timers'.alive <= timers.alive + 1
  <2>1. CASE m.what = "success"
    BY <1>2, <1>3, <1>9, <2>1, StartedTimers
  <2>2. CASE m.what # "success"
    BY <1>1, <1>2, <1>3, <1>9, <2>2 DEF TimerOk
  <2> QED
    BY <2>1, <2>2
<1>11. TimersCounted(timers', sock, q, k, connects)
  BY <1>1, <1>4, <1>8, <1>9, <1>10 DEF TimersCounted, Timers
<1>12. m.what = "success" => net.accepted
  BY <1>1, <1>3 DEF NetOk
<1>13. "LOGIN" \in Alive(net, q) \cap Entering
  BY <1>3, <1>8 DEF Alive, Entering
\* It remains to look at the windows.
<1>14. ASSUME ui' \in UIs, ui'.window = ui.window, ui'.main_win = ui.main_win,
              ui'.proxyInfo = ui.proxyInfo, NameOk(ui', a, q, k, switched),
              OnLine(ui') => m.what = "success" \/ OnLine(ui)
       PROVE  Good(ui', timers', sock, a, q, k, connects, reported, switched)
  <2>1. FirstOk(ui', timers', sock, a, q, k, reported)
    BY <1>1, <1>8, <1>14 DEF FirstOk
  <2>2. TimerOk(timers', reported, ui', q, k)
    BY <1>7, <1>8, <1>9, <1>10, <1>14 DEF TimerOk, Timers
  <2>3. ClientTyped(ui', timers', sock, a, q, k, connects, reported, switched)
    BY <1>2, <1>8, <1>10, <1>14 DEF ClientTyped
  <2> QED
    BY <1>7, <1>11, <1>14, <2>1, <2>2, <2>3 DEF Good
<1>15. CASE ui.window = "wizard" /\ m.what = "success"
  <2> DEFINE cmds == IF ui.newUser THEN {"UPDATE_USER_INFO"}
                                   ELSE {"GET_USER_INFO", "GET_CONTACT_LIST"}
             r == q \cup Fresh(cmds)
  <2>1. /\ ui' = [ui EXCEPT !.name = IF ui.newUser THEN "new" ELSE "old",
                    !.now_status = "STATUS_INVIS", !.isFinished = @ \/ ui.newUser]
        /\ udp' = [udp EXCEPT !.sendQueue = @ \cup Fresh(cmds)]
        /\ Send(sock, k, cmds)
    <3>1. ~ui.main_win
      BY <1>1, <1>15 DEF FirstOk
    <3> QED
      BY <1>15, <3>1 DEF OnLoginReply, k
  <2>2. udp' = [account |-> a, sendQueue |-> r]
    BY <1>1, <2>1
  <2>3. cmds \in SUBSET (Commands \ Entering)
    BY DEF Commands, Entering
  <2>4. cmds \subseteq Cmds(r)
    BY CmdsOf
  <2> HIDE DEF cmds, r
  <2>5. /\ ui' \in UIs /\ ui'.window = ui.window /\ ui'.main_win = ui.main_win
        /\ ui'.proxyInfo = ui.proxyInfo /\ ui'.newUser = ui.newUser
        /\ ui'.name = Account(ui) /\ ui'.now_status = "STATUS_INVIS"
    <3>1. /\ Account(ui) \in Accounts /\ "STATUS_INVIS" \in Statuses
          /\ (ui.isFinished \/ ui.newUser) \in BOOLEAN
      BY <1>2 DEF UIs, Account, Accounts, Statuses
    <3>2. ui' = [ui EXCEPT !.name = Account(ui), !.now_status = "STATUS_INVIS",
                    !.isFinished = (ui.isFinished \/ ui.newUser)]
      BY <2>1 DEF Account
    <3> DEFINE b == ui.isFinished \/ ui.newUser
    <3> HIDE DEF b
    <3> QED
      BY <1>2, <3>1, <3>2 DEF UIs, b
  <2>6. ui'.name = a \/ switched
    BY <1>1, <1>13, <1>15, <2>5 DEF NameOk
  <2>7. NameOk(ui', a, q, k, switched)
    BY <1>1, <1>7, <1>8, <1>12, <1>15, <2>5, <2>6 DEF NameOk, Account, OFFLINE, FirstOk
  <2>8. Good(ui', timers', sock, a, q, k, connects, reported, switched)
    BY <1>14, <1>15, <2>5, <2>7
  <2>9. Good(ui', timers', sock, a, r, k, connects, reported, switched)
    BY <1>8, <1>10, <1>15, <2>3, <2>5, <2>6, <2>8, QueuedKeeps DEF r, OFFLINE
  <2>10. Good(ui', timers', sock, a, r, net', connects, reported, switched)
    BY <2>1, <2>4, <2>9, SendKeeps
  <2> QED
    BY <1>3, <2>2, <2>10 DEF ClientInv
<1>16. CASE ~(ui.window = "wizard" /\ m.what = "success") /\ ui.main_win
  <2>1. /\ ui' = [ui EXCEPT !.animate = FALSE, !.now_status = StatusAfter(m.what)]
        /\ net' = k /\ udp' = udp
    BY <1>16 DEF OnLoginReply, k
  <2>2. ui.window = "main"
    BY <1>1, <1>16 DEF FirstOk
  <2>3. /\ ui' \in UIs /\ ui'.window = ui.window /\ ui'.main_win = ui.main_win
        /\ ui'.proxyInfo = ui.proxyInfo /\ ui'.newUser = ui.newUser
        /\ ui'.name = ui.name /\ ui'.now_status = StatusAfter(m.what)
    BY <1>2, <2>1 DEF UIs, StatusAfter, Statuses
  <2>4. OnLine(ui') => m.what = "success"
    BY <2>2, <2>3 DEF OnLine, StatusAfter
  <2>5. NameOk(ui', a, q, k, switched)
    BY <1>7, <1>8, <1>12, <2>2, <2>3, <2>4 DEF NameOk, Account
  <2>6. Good(ui', timers', sock, a, q, k, connects, reported, switched)
    BY <1>14, <2>3, <2>4, <2>5
  <2> QED
    BY <1>1, <1>3, <2>1, <2>6 DEF ClientInv
<1>17. CASE ~(ui.window = "wizard" /\ m.what = "success") /\ ~ui.main_win
  <2>1. ui' = ui /\ net' = k /\ udp' = udp
    BY <1>17 DEF OnLoginReply, k
  <2>2. Good(ui', timers', sock, a, q, k, connects, reported, switched)
    BY <1>2, <1>7, <1>14, <2>1
  <2> QED
    BY <1>1, <1>3, <2>1, <2>2 DEF ClientInv
<1> QED
  BY <1>15, <1>16, <1>17

\* The details of the user, or his contacts.
LEMMA InfoReplyKeeps ==
  ASSUME ClientInv, NEW m \in net.down, OnInfoReply(m)
  PROVE  ClientInv'
<1> DEFINE q == udp.sendQueue
           a == udp.account
           k == Arrived(m)
<1>1. Good(ui, timers, sock, a, q, net, connects, reported, switched)
      /\ udp = [account |-> a, sendQueue |-> q]
  BY DEF ClientInv
<1>2. k = [net EXCEPT !.down = @ \ {m}] /\ m.cmd \in Asking
      /\ net' = k /\ UNCHANGED <<timers, sock, udp, connects, reported, switched>>
  BY DEF OnInfoReply, Arrived, Asking, clientHistory
<1>3. NameOk(ui, a, q, net, switched) /\ TimerOk(timers, reported, ui, q, net)
      /\ NetOk(net, q) /\ ui \in UIs
  BY Parts
<1> DEFINE info == ui.UserInfo_received \/ m.cmd = "GET_USER_INFO"
           list == ui.ContactList_received \/ m.cmd = "GET_CONTACT_LIST"
<1>4. ui' = IF ui.window # "wizard" THEN ui
            ELSE [ui EXCEPT !.UserInfo_received = info, !.ContactList_received = list,
                    !.isFinished = @ \/ (info /\ list)]
  BY DEF OnInfoReply
<1> HIDE DEF k
<1>5. /\ Good(ui, timers, sock, a, q, k, connects, reported, switched)
      /\ k.accepted = net.accepted /\ m.cmd \in Cmds(net.down) /\ ui.window # "login"
  BY <1>1, <1>2, ArrivedKeeps
<1>6. Alive(net, q) \cap Asking # {} /\ net.accepted
  BY <1>2, <1>3, <1>5 DEF Alive, NetOk
<1>7. CASE ui.window # "wizard"
  BY <1>1, <1>2, <1>4, <1>5, <1>7 DEF ClientInv
<1>8. CASE ui.window = "wizard"
  <2>1. info \in BOOLEAN /\ list \in BOOLEAN /\ (ui.isFinished \/ (info /\ list)) \in BOOLEAN
    BY <1>3 DEF UIs
  <2>2. ui' = [ui EXCEPT !.UserInfo_received = info, !.ContactList_received = list,
                  !.isFinished = (ui.isFinished \/ (info /\ list))]
    BY <1>4, <1>8
  <2> HIDE DEF info, list
  <2>3. /\ ui' \in UIs /\ ui'.window = ui.window /\ ui'.main_win = ui.main_win
        /\ ui'.proxyInfo = ui.proxyInfo /\ ui'.newUser = ui.newUser
        /\ ui'.name = ui.name /\ ui'.now_status = ui.now_status
    BY <1>3, <2>1, <2>2 DEF UIs
  <2>4. FirstOk(ui', timers, sock, a, q, k, reported)
    BY <1>5, <2>3 DEF Good, FirstOk
  <2>5. NameOk(ui', a, q, k, switched)
    BY <1>3, <1>5, <1>6, <1>8, <2>3 DEF Good, NameOk, Account
  <2>6. TimerOk(timers, reported, ui', q, k)
    BY <1>3, <1>5, <1>6, <1>8, <2>3 DEF Good, TimerOk
  <2>7. ClientTyped(ui', timers, sock, a, q, k, connects, reported, switched)
    BY <1>5, <2>3 DEF Good, ClientTyped
  <2>8. Good(ui', timers, sock, a, q, k, connects, reported, switched)
    BY <1>5, <2>4, <2>5, <2>6, <2>7 DEF Good
  <2> QED
    BY <1>1, <1>2, <2>8 DEF ClientInv
<1> QED
  BY <1>7, <1>8

\* A button that changes the windows only.
LEMMA WindowsKeep ==
  ASSUME ClientInv, NothingSent, ui' \in UIs,
         FirstOk(ui', timers, sock, udp.account, udp.sendQueue, net, reported),
         NameOk(ui', udp.account, udp.sendQueue, net, switched),
         TimerOk(timers, reported, ui', udp.sendQueue, net)
  PROVE  ClientInv'
<1>1. UNCHANGED <<timers, sock, udp, net, connects, reported, switched>>
  BY DEF NothingSent, clientHistory
<1>2. ClientTyped(ui', timers, sock, udp.account, udp.sendQueue, net, connects, reported, switched)
  BY DEF ClientInv, Good, ClientTyped
<1>3. Good(ui', timers, sock, udp.account, udp.sendQueue, net, connects, reported, switched)
  BY <1>2 DEF ClientInv, Good
<1> QED
  BY <1>1, <1>3 DEF ClientInv

\* The wizard opens.
LEMMA RegisterClickedKeeps ==
  ASSUME ClientInv, OnRegisterClicked
  PROVE  ClientInv'
<1> DEFINE q == udp.sendQueue
           a == udp.account
<1>1. /\ FirstOk(ui, timers, sock, a, q, net, reported)
      /\ NameOk(ui, a, q, net, switched) /\ TimerOk(timers, reported, ui, q, net)
      /\ ui \in UIs
  BY Parts
<1>2. ui.window = "login" /\ ui' = [ui EXCEPT !.window = "wizard"] /\ NothingSent
  BY DEF OnRegisterClicked
<1>3. /\ ui' \in UIs /\ ui'.window = "wizard" /\ ui'.main_win = ui.main_win
      /\ ui'.isFinished = ui.isFinished /\ ui'.proxyInfo = ui.proxyInfo
  BY <1>1, <1>2 DEF UIs
<1>4. /\ q = {} /\ net = QuietNet /\ sock = NoSocket /\ ~ui'.isFinished /\ ~ui'.main_win
  BY <1>1, <1>2, <1>3 DEF FirstOk
<1>5. Alive(net, q) = {} /\ net.accepted = FALSE
  BY <1>4, QuietTyped DEF Alive, QuietNet
<1>6. FirstOk(ui', timers, sock, a, q, net, reported)
  BY <1>3, <1>4 DEF FirstOk
<1>7. NameOk(ui', a, q, net, switched)
  BY <1>3, <1>4, <1>5 DEF NameOk, OnLine
<1>8. TimerOk(timers, reported, ui', q, net)
  BY <1>1, <1>3, <1>4, <1>5 DEF TimerOk, OnLine
<1> QED
  BY <1>2, <1>3, <1>6, <1>7, <1>8, WindowsKeep

\* The main window, as the other windows leave it.
LEMMA MainWinIs ==
  ASSUME ui \in UIs
  PROVE  /\ ToMainWin \in UIs /\ ToMainWin.window = "main" /\ ToMainWin.main_win
         /\ ToMainWin.name = ui.name /\ ToMainWin.proxyInfo = ui.proxyInfo
         /\ ToMainWin.now_status = ui.now_status
BY DEF UIs, ToMainWin

\* The login dialog is left for the main window.
LEMMA LoginClickedKeeps ==
  ASSUME ClientInv, OnLoginClicked
  PROVE  ClientInv'
<1>1. PICK kind \in Kinds, status \in Statuses \ {OFFLINE} :
        doLogin([ToMainWin EXCEPT !.proxyInfo = kind, !.login_status = status])
  BY DEF OnLoginClicked
<1> DEFINE u == [[ToMainWin EXCEPT !.proxyInfo = kind, !.login_status = status]
                  EXCEPT !.animate = TRUE]
<1>2. ui.window = "login" /\ ui \in UIs
  BY Parts DEF OnLoginClicked
<1>3. ui.now_status = OFFLINE
  BY <1>2, Parts DEF FirstOk
<1>4. /\ u \in UIs /\ u.window = "main" /\ u.main_win /\ u.name = ui.name
      /\ u.proxyInfo = kind /\ u.now_status = ui.now_status
  <2> DEFINE w == ToMainWin
  <2>1. /\ w \in UIs /\ w.window = "main" /\ w.main_win /\ w.name = ui.name
        /\ w.now_status = ui.now_status
    BY <1>2, MainWinIs
  <2> HIDE DEF w
  <2>2. u = [[w EXCEPT !.proxyInfo = kind, !.login_status = status] EXCEPT !.animate = TRUE]
    BY DEF w
  <2> HIDE DEF u
  <2> QED
    BY <2>1, <2>2 DEF UIs
<1>5. ~OnLine(u)
  BY <1>3, <1>4 DEF OnLine
<1>6. Connect(u)
  BY <1>1 DEF doLogin
<1> HIDE DEF u
<1> QED
  BY <1>2, <1>4, <1>5, <1>6, ConnectKeeps

\* MainWin::changeStatus, with the windows as u: those of the main window, or those
\* that the wizard leaves.
LEMMA ChangeStatusKeeps ==
  ASSUME ClientInv, NEW u \in UIs, NEW status \in Statuses,
         changeStatus(u, status), u.window = "main", u.main_win,
         u.name = ui.name, u.now_status = ui.now_status, u.proxyInfo = ui.proxyInfo,
         ui.window # "login",
         ui.window = "main" \/ (OnLine(ui) /\ ui.now_status # OFFLINE /\ status # OFFLINE)
  PROVE  ClientInv'
<1> DEFINE q == udp.sendQueue
           a == udp.account
<1>1. /\ FirstOk(ui, timers, sock, a, q, net, reported) /\ SockOk(sock, net)
      /\ NameOk(ui, a, q, net, switched) /\ TimerOk(timers, reported, ui, q, net)
      /\ ui \in UIs /\ timers \in Timers
  BY Parts
<1>2. (u.now_status # OFFLINE) => OnLine(ui)
  BY <1>1 DEF OnLine, FirstOk
<1>3. u.proxyInfo \in Kinds
  BY <1>1 DEF FirstOk, NameOk, SockOk, Stands, QuietNet, NoSocket
<1>4. u.name = a \/ switched
  BY <1>1 DEF FirstOk, NameOk, OnLine
\* Windows of the main window that are not more on line than those before.
<1>5. ASSUME NEW k \in UIs, k.window = "main", k.main_win, k.name = u.name,
             k.proxyInfo = u.proxyInfo, OnLine(k) => u.now_status # OFFLINE
      PROVE  /\ FirstOk(k, timers, sock, a, q, net, reported)
             /\ NameOk(k, a, q, net, switched)
             /\ TimerOk(timers, reported, k, q, net)
  <2>1. FirstOk(k, timers, sock, a, q, net, reported)
    BY <1>3, <1>5 DEF FirstOk
  <2>2. NameOk(k, a, q, net, switched)
    BY <1>1, <1>2, <1>4, <1>5 DEF NameOk
  <2>3. TimerOk(timers, reported, k, q, net)
    BY <1>1, <1>2, <1>5 DEF TimerOk
  <2> QED
    BY <2>1, <2>2, <2>3
<1>6. CASE u.now_status # status /\ u.now_status = OFFLINE
  <2> DEFINE k == [[u EXCEPT !.login_status = status] EXCEPT !.animate = TRUE]
  <2>1. doLogin([u EXCEPT !.login_status = status])
    BY <1>6 DEF changeStatus
  <2>2. Connect(k)
    BY <2>1 DEF doLogin
  <2>3. /\ k \in UIs /\ k.window = "main" /\ k.main_win /\ k.name = ui.name
        /\ k.proxyInfo = u.proxyInfo /\ k.now_status = u.now_status
    BY <1>6 DEF UIs
  <2> HIDE DEF k
  <2>4. ~OnLine(k) /\ ui.window = "main"
    BY <1>6, <2>3 DEF OnLine
  <2> QED
    BY <1>3, <2>2, <2>3, <2>4, ConnectKeeps
<1>7. CASE u.now_status # status /\ status = OFFLINE
  <2>1. ui' = [u EXCEPT !.now_status = OFFLINE] /\ NothingSent
    BY <1>7 DEF changeStatus
  <2>2. /\ ui' \in UIs /\ ui'.window = "main" /\ ui'.main_win /\ ui'.name = u.name
        /\ ui'.proxyInfo = u.proxyInfo /\ ui'.now_status = OFFLINE
    BY <2>1 DEF UIs, Statuses
  <2>3. ~OnLine(ui')
    BY <2>2 DEF OnLine
  <2> QED
    BY <1>5, <2>1, <2>2, <2>3, WindowsKeep
<1>8. CASE u.now_status # status /\ OFFLINE \notin {u.now_status, status}
  <2>1. /\ ui' = [u EXCEPT !.now_status = status] /\ sendPacket("CHANGE_STATUS")
        /\ UNCHANGED <<timers, sock, connects, reported, switched>>
    BY <1>8 DEF changeStatus, clientHistory
  <2>2. /\ ui' \in UIs /\ ui'.window = "main" /\ ui'.main_win /\ ui'.name = u.name
        /\ ui'.proxyInfo = u.proxyInfo
    BY <2>1 DEF UIs
  <2>3. Good(ui', timers, sock, a, q, net, connects, reported, switched)
    <3>1. ClientTyped(ui', timers, sock, a, q, net, connects, reported, switched)
      BY <2>2 DEF ClientInv, Good, ClientTyped
    <3> QED
      BY <1>5, <1>8, <2>2, <3>1 DEF ClientInv, Good
  <2>4. ~reported => timers.check > 0
    BY <1>1, <1>2, <1>8 DEF TimerOk, Timers
  <2>5. "CHANGE_STATUS" \in Commands \ (Entering \cup Asking)
    BY DEF Commands, Entering, Asking
  <2> QED
    BY <2>1, <2>2, <2>3, <2>4, <2>5, SendPacketKeeps
<1>9. CASE u.now_status = status
  <2>1. /\ ui' = IF status = OFFLINE THEN [u EXCEPT !.animate = FALSE] ELSE u
        /\ NothingSent
    BY <1>9 DEF changeStatus
  <2>2. /\ ui' \in UIs /\ ui'.window = "main" /\ ui'.main_win /\ ui'.name = u.name
        /\ ui'.proxyInfo = u.proxyInfo /\ ui'.now_status = u.now_status
    <3>1. CASE status = OFFLINE
      BY <2>1, <3>1, AnimationIs
    <3>2. CASE status # OFFLINE
      BY <2>1, <3>2
    <3> QED
      BY <3>1, <3>2
  <2>3. OnLine(ui') => u.now_status # OFFLINE
    BY <2>2 DEF OnLine
  <2> QED
    BY <1>5, <2>1, <2>2, <2>3, WindowsKeep
<1> QED
  BY <1>6, <1>7, <1>8, <1>9

\* The menu of the main window.
LEMMA StatusMenuKeeps ==
  ASSUME ClientInv, OnStatusMenu
  PROVE  ClientInv'
<1>1. PICK status \in Statuses : changeStatus(ui, status)
  BY DEF OnStatusMenu
<1>2. ui.window = "main" /\ ui \in UIs /\ ui.main_win
  BY Parts DEF OnStatusMenu, FirstOk
<1> QED
  BY <1>1, <1>2, ChangeStatusKeeps

\* Another page of the wizard.
LEMMA PageKeeps ==
  ASSUME ClientInv, NEW page \in {"choose", "info", "network", "result"},
         ui.window = "wizard", ui' = [ui EXCEPT !.page = page], NothingSent
  PROVE  ClientInv'
<1>1. /\ FirstOk(ui, timers, sock, udp.account, udp.sendQueue, net, reported)
      /\ NameOk(ui, udp.account, udp.sendQueue, net, switched)
      /\ TimerOk(timers, reported, ui, udp.sendQueue, net) /\ ui \in UIs
  BY Parts
<1>2. /\ ui' \in UIs /\ ui'.window = ui.window /\ ui'.main_win = ui.main_win
      /\ ui'.newUser = ui.newUser /\ ui'.isFinished = ui.isFinished
      /\ ui'.name = ui.name /\ ui'.proxyInfo = ui.proxyInfo
      /\ ui'.now_status = ui.now_status
  BY <1>1 DEF UIs
<1>3. FirstOk(ui', timers, sock, udp.account, udp.sendQueue, net, reported)
  BY <1>1, <1>2 DEF FirstOk
<1>4. NameOk(ui', udp.account, udp.sendQueue, net, switched)
  BY <1>1, <1>2 DEF NameOk, OnLine, Account
<1>5. TimerOk(timers, reported, ui', udp.sendQueue, net)
  BY <1>1, <1>2 DEF TimerOk, OnLine
<1> QED
  BY <1>2, <1>3, <1>4, <1>5, WindowsKeep

\* Nothing happens.
LEMMA StutterKeeps ==
  ASSUME ClientInv, UNCHANGED clientVars
  PROVE  ClientInv'
<1>1. UNCHANGED <<ui, timers, sock, udp, net, connects, reported, switched>>
  BY DEF clientVars, clientHistory
<1> QED
  BY <1>1 DEF ClientInv

\* The wizard goes on.
LEMMA NextClickedKeeps ==
  ASSUME ClientInv, OnNextClicked
  PROVE  ClientInv'
<1>1. /\ FirstOk(ui, timers, sock, udp.account, udp.sendQueue, net, reported)
      /\ NameOk(ui, udp.account, udp.sendQueue, net, switched)
      /\ ui \in UIs /\ ui.window = "wizard" /\ ~ui.main_win
  BY Parts DEF OnNextClicked, FirstOk
<1>2. CASE ui.isFinished
  <2>1. changeStatus(ToMainWin, "STATUS_ONLINE")
    BY <1>2 DEF OnNextClicked
  <2>2. OnLine(ui) /\ ui.now_status # OFFLINE /\ "STATUS_ONLINE" # OFFLINE
        /\ "STATUS_ONLINE" \in Statuses
    BY <1>1, <1>2 DEF OnLine, NameOk, OFFLINE, Statuses
  <2> QED
    BY <1>1, <2>1, <2>2, MainWinIs, ChangeStatusKeeps
<1>3. CASE ~ui.isFinished /\ ui.page \in {"choose", "info"}
  <2>1. /\ ui' = [ui EXCEPT !.page =
                    IF @ = "choose" /\ ui.newUser THEN "info" ELSE "network"]
        /\ NothingSent
    BY <1>3 DEF OnNextClicked
  <2> DEFINE page == IF ui.page = "choose" /\ ui.newUser THEN "info" ELSE "network"
  <2>2. ui' = [ui EXCEPT !.page = page]
    BY <2>1
  <2>3. page \in {"choose", "info", "network", "result"}
    OBVIOUS
  <2> HIDE DEF page
  <2> QED
    BY <1>1, <2>1, <2>2, <2>3, PageKeeps
<1>4. CASE ~ui.isFinished /\ ui.page = "network"
  <2>1. PICK kind \in Kinds : Connect([ui EXCEPT !.page = "result", !.proxyInfo = kind])
    BY <1>4 DEF OnNextClicked
  <2> DEFINE u == [ui EXCEPT !.page = "result", !.proxyInfo = kind]
  <2>2. /\ u \in UIs /\ u.window = "wizard" /\ u.main_win = ui.main_win
        /\ u.newUser = ui.newUser /\ u.isFinished = ui.isFinished
        /\ u.name = ui.name /\ u.proxyInfo = kind /\ u.now_status = ui.now_status
    BY <1>1 DEF UIs
  <2>3. Connect(u)
    BY <2>1
  <2> HIDE DEF u
  <2>4. ~OnLine(u)
    BY <1>1, <1>4, <2>2 DEF OnLine
  <2> QED
    BY <1>1, <2>2, <2>3, <2>4, ConnectKeeps
<1>5. CASE ~ui.isFinished /\ ui.page = "result"
  BY <1>5, StutterKeeps DEF OnNextClicked
<1> QED
  BY <1>1, <1>2, <1>3, <1>4, <1>5 DEF UIs

\* The wizard goes back.
LEMMA BackClickedKeeps ==
  ASSUME ClientInv, OnBackClicked
  PROVE  ClientInv'
<1> DEFINE page == CASE ui.page = "result"                -> "network"
                     [] ui.page = "network" /\ ui.newUser -> "info"
                     [] OTHER                             -> "choose"
<1>1. ui' = [ui EXCEPT !.page = page] /\ ui.window = "wizard" /\ NothingSent
  BY DEF OnBackClicked
<1>2. page \in {"choose", "info", "network", "result"}
  OBVIOUS
<1> HIDE DEF page
<1> QED
  BY <1>1, <1>2, PageKeeps

\* The user of the wizard says that he is new, or that he is not.
LEMMA ChooseKeeps ==
  ASSUME ClientInv, OnChoose
  PROVE  ClientInv'
<1>1. /\ FirstOk(ui, timers, sock, udp.account, udp.sendQueue, net, reported)
      /\ NameOk(ui, udp.account, udp.sendQueue, net, switched)
      /\ TimerOk(timers, reported, ui, udp.sendQueue, net) /\ ui \in UIs
  BY Parts
<1>2. /\ ui.window = "wizard" /\ ui' = [ui EXCEPT !.newUser = ~@] /\ switched' = TRUE
      /\ UNCHANGED <<timers, sock, udp, net, connects, reported>>
  BY DEF OnChoose
<1>3. (~ui.newUser) \in BOOLEAN
  OBVIOUS
<1>4. /\ ui' \in UIs /\ ui'.window = ui.window /\ ui'.main_win = ui.main_win
      /\ ui'.isFinished = ui.isFinished /\ ui'.name = ui.name
      /\ ui'.proxyInfo = ui.proxyInfo /\ ui'.now_status = ui.now_status
  BY <1>1, <1>2, <1>3 DEF UIs
<1>5. FirstOk(ui', timers, sock, udp.account, udp.sendQueue, net, reported)
  BY <1>1, <1>4 DEF FirstOk
<1>6. NameOk(ui', udp.account, udp.sendQueue, net, TRUE)
  BY <1>1, <1>4 DEF NameOk, OnLine
<1>7. TimerOk(timers, reported, ui', udp.sendQueue, net)
  BY <1>1, <1>4 DEF TimerOk, OnLine
<1>8. ClientTyped(ui', timers, sock, udp.account, udp.sendQueue, net, connects, reported, TRUE)
  BY <1>4 DEF ClientInv, Good, ClientTyped
<1>9. Good(ui', timers, sock, udp.account, udp.sendQueue, net, connects, reported, TRUE)
  BY <1>5, <1>6, <1>7, <1>8 DEF ClientInv, Good
<1> QED
  BY <1>2, <1>9 DEF ClientInv

\* ClientInv is inductive.
LEMMA ClientInvHolds ==
  /\ ClientInit => ClientInv
  /\ ClientInv /\ [ClientNext]_clientVars => ClientInv'
<1>1. ASSUME ClientInit PROVE ClientInv
  <2>1. /\ ui.window = "login" /\ ~ui.main_win /\ ui.name = "old" /\ ~ui.isFinished
        /\ ui.now_status = OFFLINE /\ ui \in UIs
    BY <1>1 DEF ClientInit, UIs, Accounts, Statuses, OFFLINE
  <2>2. /\ timers = [check |-> 0, checkKnown |-> FALSE, alive |-> 0, aliveKnown |-> FALSE]
        /\ timers \in Timers
    BY <1>1 DEF ClientInit, Timers
  <2>3. /\ udp = [account |-> "old", sendQueue |-> {}] /\ udp.account = "old"
        /\ udp.sendQueue = {}
    BY <1>1 DEF ClientInit
  <2>4. /\ sock = NoSocket /\ net = QuietNet /\ connects = 0 /\ reported = FALSE
        /\ switched = FALSE
    BY <1>1 DEF ClientInit
  <2>5. /\ sock.kind = "none" /\ sock.status = "NOT_CONN" /\ sock.tcp = "none"
        /\ sock \in Socks
    BY <2>4 DEF NoSocket, Socks
  <2>6. Alive(net, {}) = {} /\ net.down = {} /\ net.accepted = FALSE /\ net.served = {}
        /\ net \in Nets /\ Cmds({}) = {}
    BY <2>4, QuietTyped DEF Alive, QuietNet
  <2>7. SockOk(sock, net) /\ NetOk(net, {})
    BY <2>4, <2>5, <2>6 DEF SockOk, NetOk
  <2>8. FirstOk(ui, timers, sock, "old", {}, net, FALSE) /\ NameOk(ui, "old", {}, net, FALSE)
    BY <2>1, <2>2, <2>4, <2>6 DEF FirstOk, NameOk, OnLine
  <2>9. TimerOk(timers, FALSE, ui, {}, net)
    BY <2>1, <2>2, <2>4, <2>6 DEF TimerOk, OnLine
  <2>10. TimersCounted(timers, sock, {}, net, 0)
    BY <2>2, <2>5, <2>6 DEF TimersCounted, Owing, Upcoming, Opened
  <2>11. ClientTyped(ui, timers, sock, "old", {}, net, 0, FALSE, FALSE)
    BY <2>1, <2>2, <2>5, <2>6, ClientAssumption DEF ClientTyped, Accounts
  <2> QED
    BY <2>3, <2>4, <2>7, <2>8, <2>9, <2>10, <2>11 DEF ClientInv, Good
<1>2. ASSUME ClientInv, [ClientNext]_clientVars PROVE ClientInv'
  <2>1. CASE ClientNext
    BY <1>2, <2>1, ProxyWriteKeeps, ProxyExceptionKeeps, ProxyReplyKeeps,
       CheckSendQueueKeeps, SendKeepAliveKeeps, AckKeeps, RegisterReplyKeeps,
       LoginReplyKeeps, InfoReplyKeeps, RegisterClickedKeeps, LoginClickedKeeps,
       StatusMenuKeeps, NextClickedKeeps, BackClickedKeeps, ChooseKeeps
       DEF ClientNext
  <2>2. CASE UNCHANGED clientVars
    BY <1>2, <2>2, StutterKeeps
  <2> QED
    BY <1>2, <2>1, <2>2
<1> QED
  BY <1>1, <1>2

\* What it says of the values of the variables, and of who is on line.
LEMMA ClientInvSuffices ==
  ASSUME ClientInv
  PROVE  OnlineMeansAccepted /\ TimersRun
<1> DEFINE q == udp.sendQueue
           a == udp.account
<1>1. /\ SockOk(sock, net) /\ FirstOk(ui, timers, sock, a, q, net, reported)
      /\ NameOk(ui, a, q, net, switched) /\ TimerOk(timers, reported, ui, q, net)
      /\ TimersCounted(timers, sock, q, net, connects)
  BY Parts
<1>2. /\ ui \in UIs /\ timers \in Timers /\ sock \in Socks /\ a \in Accounts
      /\ q \in SUBSET Waiter /\ net \in Nets /\ connects \in 0 .. MaxConnects
      /\ reported \in BOOLEAN /\ switched \in BOOLEAN
  BY Parts
<1>3. timers \in [check : 0 .. 2 * MaxConnects, checkKnown : BOOLEAN,
                  alive : 0 .. 2 * MaxConnects, aliveKnown : BOOLEAN]
  <2>1. timers.check \in 0 .. 2 * MaxConnects /\ timers.alive \in 0 .. 2 * MaxConnects
    BY <1>1, <1>2, ClientAssumption DEF TimersCounted, Timers
  <2> QED
    BY <1>2, <2>1 DEF Timers
<1>4. ClientTypeOK
  BY <1>2, <1>3 DEF ClientTypeOK, UIs, Socks, Nets, Waiter
<1>5. ui.main_win /\ ui.now_status # OFFLINE =>
        net.accepted /\ (ui.name = a \/ switched)
  BY <1>1 DEF NameOk, OnLine
<1>6. TimersRun
  BY <1>1, <1>2 DEF TimersRun, TimerOk, OnLine, Timers
<1> QED
  BY <1>4, <1>5, <1>6 DEF OnlineMeansAccepted

\* The main window shows a status only for a session that the server has logged in,
\* and the name of its account (LinqMain and MainWin::onLoginReply, RegWizard),
\* however often the user connects anew and whatever comes late.
THEOREM OnLineForGood ==
  ClientSpec => []OnlineMeansAccepted
<1>1. ClientInit => ClientInv
  BY ClientInvHolds
<1>2. ClientInv /\ [ClientNext]_clientVars => ClientInv'
  BY ClientInvHolds
<1>3. ClientInv => OnlineMeansAccepted
  BY ClientInvSuffices
<1> QED
  BY <1>1, <1>2, <1>3, PTL DEF ClientSpec

\* The timers of LinqMain that send the queue again and keep the session alive run
\* whenever a packet waits or a status is shown, until the loss of the connection is
\* told, however often connect() was called.
THEOREM ConnectionIsWatched ==
  ClientSpec => []TimersRun
<1>1. ClientInit => ClientInv
  BY ClientInvHolds
<1>2. ClientInv /\ [ClientNext]_clientVars => ClientInv'
  BY ClientInvHolds
<1>3. ClientInv => TimersRun
  BY ClientInvSuffices
<1> QED
  BY <1>1, <1>2, <1>3, PTL DEF ClientSpec
=============================================================================
