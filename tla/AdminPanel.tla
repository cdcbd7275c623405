----------------------------- MODULE AdminPanel -----------------------------
(***************************************************************************)
(* The admin panel in one browser tab: the login form, the router, the     *)
(* pages, the backend, and other tabs that share localStorage.             *)
(*                                                                         *)
(* config.ts wraps fetch: an answer 401 removes the token and loads the    *)
(* document anew, unless the address holds "login", which no route of this *)
(* application does.                                                       *)
(***************************************************************************)
EXTENDS UsersPage, GroupsPage, ListPages, SettingsPage

FreshLogin == [loading |-> FALSE, error |-> FALSE]

LoginView(s) == [submit |-> ~s.loading, error |-> s.error]

\* The state of a page when it is mounted, and what it reads then.
Fresh(p) ==
  CASE p = "users"    -> FreshUsers
    [] p = "groups"   -> FreshGroups
    [] p \in Kinds    -> FreshList
    [] p = "settings" -> FreshSettings
    [] p = "profiles" -> FreshProfiles
    [] p = "devices"  -> FreshDevices
    [] p = "logs"     -> FreshLogs
    [] p = "home"     -> FreshHome

Mounted(p) ==
  CASE p = "home"     -> HomeReads
    [] p = "groups"   -> <<Get("groups"), Get("clients")>>
    [] p \in Kinds    -> <<Load(p)>>
    [] p = "settings" -> <<Get("settings")>>
    [] p \in {"users", "profiles", "devices", "logs"} -> <<Get("clients")>>

\* The page whose code sent a request, for what that code does once the page is left.
SenderState(r) ==
  IF r.live = "page" THEN st
  ELSE CASE r.op \in UsersOps  -> FreshUsers
         [] r.op \in GroupsOps -> FreshGroups
         [] r.op \in ListOps   -> FreshList
         [] r.op = "save"      -> FreshSettings
         [] OTHER              -> st

AsLeft(rs) == [i \in DOMAIN rs |-> IF rs[i].live = "page" THEN [rs[i] EXCEPT !.live = "left"]
                                   ELSE rs[i]]

\* What the server may still carry out, in any order, of a document that is gone.
AsGone(rs) ==
  LET changes == {i \in DOMAIN rs : rs[i].op \notin Reads \cup {"login"} /\ rs[i].ans = None}
      left == SetToSeq(changes)
  IN  [k \in DOMAIN left |-> [rs[left[k]] EXCEPT !.live = "gone"]]

-----------------------------------------------------------------------------
(* Loading the document, the login form, the router.                       *)

\* The document is loaded with token t in localStorage; rs are the requests of the old one.
Boot(t, rs) ==
  /\ token' = t
  /\ authed' = (t # None)
  /\ st' = IF t # None THEN Fresh(page) ELSE FreshLogin
  /\ reqs' = AsGone(rs) \o (IF t # None THEN Mounted(page) ELSE <<>>)
  /\ skew' = FALSE
  /\ UNCHANGED <<db, page, filter, tour, confirmed>>

ReloadPage ==
  /\ authed => ops < tour.ops
  /\ ops' = IF authed THEN ops + 1 ELSE ops
  /\ Boot(token, reqs)
  /\ UNCHANGED faults

HandleSubmit(password) ==
  /\ ~authed /\ LoginView(st).submit
  /\ ops < tour.ops /\ ops' = ops + 1
  /\ st' = [loading |-> TRUE, error |-> FALSE]
  /\ reqs' = Append(reqs, Request("login", None, password))
  /\ UNCHANGED <<db, shell, faults, confirmed, skew>>

\* The router shows page p, with or without a group to filter by.  The page stays mounted
\* when only the filter changes.
Navigate(p, g) ==
  /\ authed /\ p \in tour.pages /\ Room(Len(Mounted(p)))
  /\ page' = p /\ filter' = g
  /\ IF p = page THEN UNCHANGED <<st, reqs, skew>>
     ELSE /\ st' = Fresh(p)
          /\ reqs' = AsLeft(reqs) \o Mounted(p)
          /\ skew' = FALSE
  /\ UNCHANGED <<db, token, authed, tour, ops, faults, confirmed>>

\* A click on a group's card.
OpenGroup(g) ==
  /\ On("groups") /\ "users" \in tour.pages
  /\ g \in GroupsView(st).cards
  /\ Navigate("users", g)

\* Another tab logs in, or is refused and removes the token.
OtherTab ==
  /\ ops < tour.ops /\ ops' = ops + 1
  /\ token' = IF token = None THEN AdminPassword ELSE None
  /\ UNCHANGED <<db, authed, page, filter, tour, st, reqs, faults, confirmed, skew>>

-----------------------------------------------------------------------------
(* Requests and answers.                                                   *)

\* The server carries out a request.
Serve(i) ==
  /\ i \in DOMAIN reqs /\ reqs[i].ans = None
  /\ LET a == Handle(db, reqs[i])
     IN  /\ db' = a.db
         /\ reqs' = IF reqs[i].live = "gone" THEN RemoveAt(reqs, i)
                    ELSE [reqs EXCEPT ![i].ans = [code |-> a.code, data |-> a.data]]
  /\ skew' = (skew \/ (reqs[i].live # "page" /\ reqs[i].op \notin Reads))
  /\ UNCHANGED <<shell, st, ops, faults, confirmed>>

\* What the code after the await does with answer r.ans; follow is Settings' choice.
Then(r, follow) ==
  LET s == SenderState(r)
      ok == r.ans.code = 200
  IN  CASE r.op \in UsersOps  -> UsersThen(s, r, ok)
        [] r.op \in GroupsOps -> GroupsThen(s, r)
        [] r.op \in ListOps   -> ListThen(s, r)
        [] r.op = "save"      -> SettingsThen(s)
        [] r.op \in Reads ->
             After(IF r.live # "page" THEN s
                   ELSE IF r.op = "settings" THEN Loaded(s, r.ans.data, follow)
                   ELSE IF page = "logs" THEN GenerateLogs(r.ans.data)
                   ELSE [s EXCEPT ![r.op] = r.ans.data], <<>>)

\* What the code does when the request fails in the network.
Failed(r) ==
  LET s == SenderState(r)
  IN  IF r.op \in UsersOps THEN UsersFail(s, r)
      ELSE After(IF r.live = "page" /\ r.op = "clients" /\ page = "logs" THEN FreshLogs ELSE s, <<>>)

(* Mutant of Resume: the state of the page that is shown is set, whoever asked. *)
ResumeAnyPage(i, t) ==
  LET r == reqs[i]
  IN  /\ st' = t.st
      /\ reqs' = RemoveAt(reqs, i)
                   \o [k \in DOMAIN t.send |-> [t.send[k] EXCEPT !.live = r.live]]

\* The code after the await of request i runs: t is what it does.
Resume(i, t) ==
  LET r == reqs[i]
  IN  /\ st' = IF r.live = "page" THEN t.st ELSE st
      /\ reqs' = RemoveAt(reqs, i)
                   \o [k \in DOMAIN t.send |-> [t.send[k] EXCEPT !.live = r.live]]

(* Mutant of Unauthorized: the token is removed and the page stays. *)
UnauthorizedStays(i) ==
  /\ token' = None /\ reqs' = RemoveAt(reqs, i)
  /\ UNCHANGED <<db, authed, page, filter, tour, st, ops, confirmed, skew>>

\* The fetch wrapper's answer to 401.
Unauthorized(i) == Boot(None, RemoveAt(reqs, i)) /\ UNCHANGED ops

\* The right password: the token is stored and the router is shown.
LoggedIn(i) ==
  /\ token' = reqs[i].arg
  /\ authed' = TRUE
  /\ st' = Fresh(page)
  /\ reqs' = RemoveAt(reqs, i) \o [k \in DOMAIN Mounted(page) |->
                                     [Mounted(page)[k] EXCEPT !.tok = reqs[i].arg]]
  /\ skew' = FALSE
  /\ UNCHANGED <<db, page, filter, tour, ops, confirmed>>

Arrive(i) ==
  /\ i \in DOMAIN reqs /\ reqs[i].ans # None
  /\ \/ reqs[i].ans.code = 401 /\ Unauthorized(i)
     \/ reqs[i].ans.code = 200 /\ reqs[i].op = "login" /\ LoggedIn(i)
     \/ /\ reqs[i].ans.code # 401 /\ reqs[i].op # "login"
        /\ \E follow \in IF reqs[i].op = "settings" THEN SUBSET Sections ELSE {{}} :
             LET t == Then(reqs[i], follow)
             IN  /\ Resume(i, t)
                 /\ skew' = (skew \/ (reqs[i].live = "page" /\ Overlaps(t.send)))
        /\ UNCHANGED <<db, shell, ops, confirmed>>
  /\ UNCHANGED faults

\* The network fails request i before or after the server has carried it out.
Fail(i) ==
  /\ i \in DOMAIN reqs /\ faults < tour.faults /\ faults' = faults + 1
  /\ IF reqs[i].op = "login"
     THEN /\ st' = [loading |-> FALSE, error |-> TRUE]
          /\ reqs' = RemoveAt(reqs, i)
     ELSE Resume(i, IF reqs[i].live = "gone" THEN After(st, <<>>) ELSE Failed(reqs[i]))
  /\ skew' = TRUE
  /\ UNCHANGED <<db, shell, ops, confirmed>>

-----------------------------------------------------------------------------
\* One client of one group, one template, server and rule, stored settings; the tab is
\* opened at some page with the token of an earlier login.
InitialDb ==
  [clients |-> [c \in {1} |-> [group |-> 1, enabled |-> TRUE]], newClient |-> 2,
   groups |-> [g \in {1} |-> CHOOSE n \in Names : TRUE], newGroup |-> 2,
   items |-> [k \in Kinds |-> [x \in {1} |-> TRUE]], newItem |-> [k \in Kinds |-> 2],
   settings |-> [s \in Sections |-> "stored"]]

Init ==
  /\ db = InitialDb
  /\ token = AdminPassword /\ authed = TRUE
  /\ tour \in Tours /\ page \in tour.pages /\ filter = None
  /\ st = Fresh(page) /\ reqs = Mounted(page)
  /\ ops = 0 /\ faults = 0 /\ confirmed = {} /\ skew = FALSE

Server == \E i \in DOMAIN reqs : Serve(i)
Answers == \E i \in DOMAIN reqs : Arrive(i)

Next ==
  \/ Server \/ Answers
  \/ \E i \in DOMAIN reqs : Fail(i)
  \/ UsersAction \/ GroupsAction \/ ListAction \/ SettingsAction \/ ProfilesAction
  \/ RefreshClients \/ FetchData
  \/ \E p \in tour.pages : Navigate(p, None)
  \/ \E g \in 1..MaxGroups : OpenGroup(g)
  \/ \E w \in {AdminPassword, "wrong"} : HandleSubmit(w)
  \/ ReloadPage \/ OtherTab

\* The pages' interval timers.
Poll == (On("users") /\ FetchUsers) \/ FetchData

\* The server answers every request, the oldest included, and the intervals go on however
\* requests come and go.
Fairness ==
  /\ WF_vars(Serve(1)) /\ WF_vars(Arrive(1))
  /\ SF_vars(Poll)

Spec == Init /\ [][Next]_vars /\ Fairness

-----------------------------------------------------------------------------
(* Properties.                                                             *)

Shows(p) == authed /\ page = p

Requests ==
  [op : Reads \cup UsersOps \cup GroupsOps \cup ListOps \cup {"save", "login"},
   live : {"page", "left", "gone"}]

StateOK ==
  IF ~authed THEN st \in [loading : BOOLEAN, error : BOOLEAN]
  ELSE /\ DOMAIN st = DOMAIN Fresh(page)
       /\ page = "users" =>
            /\ st.selectedUsers \subseteq 1..MaxClients
            /\ {st.selectedUser, st.qrModal} \subseteq {None} \cup 1..MaxClients
            /\ st.selectedGroupId \in {None} \cup 1..MaxGroups
       /\ page = "groups" =>
            /\ {st.editId, st.assignGroupId} \subseteq {None} \cup 1..MaxGroups
            /\ Len(st.fills) <= MaxFills /\ st.name \in {None} \cup Names
       /\ page \in Kinds => st.items \in Partial(1..MaxItems, BOOLEAN)
       /\ page = "settings" => /\ st.inputs \in [Sections -> Texts] /\ st.labels \in 0..MaxLabels
                               /\ SettingsView(st).label => st.labels > 0
       /\ page = "profiles" => (ProfilesView(st).label # None => st.labels > 0)

\* The database is well-formed and the state is that of the page that is mounted, whatever
\* answers come after a page is left or the document is loaded anew; "saved" and "copied"
\* are shown only while a timer is pending that takes them away.
TypeOK ==
  /\ db \in Databases
  /\ token \in {None, AdminPassword} /\ authed \in BOOLEAN
  /\ page \in tour.pages /\ filter \in {None} \cup 1..MaxGroups
  /\ \A i \in DOMAIN reqs : [op |-> reqs[i].op, live |-> reqs[i].live] \in Requests
  /\ StateOK

\* The sidebar's buttons are disabled exactly while one creation or change is under way:
\* however the sidebar is closed and opened in between, no second one is sent, and no
\* failure or late answer leaves them disabled.
OneSubmission ==
  Shows("users") =>
    LET sent == {i \in DOMAIN reqs : reqs[i].live = "page" /\ reqs[i].op \in {"create", "update"}}
    IN  Cardinality(sent) = (IF st.loading THEN 1 ELSE 0)

\* An edit form that no timer is to fill any more and that the admin has not typed in
\* holds the name of the group it saves to, in whatever order groups were opened for
\* editing, cancelled and saved.
EditFormSettles ==
  Shows("groups") /\ st.base # None /\ st.fills = <<>> => st.name = st.base

\* Page by page, what is on the screen agrees with db.
Served ==
  CASE page \in {"users", "profiles"} -> st.clients = ListClients(db)
    [] page = "groups"  -> st.clients = ListClients(db) /\ st.groups = ListGroups(db)
    [] page = "devices" ->
         DevicesView(st).safe = Cardinality({c \in DOMAIN db.clients : db.clients[c].enabled})
    [] page = "home"    ->
         /\ ClientTable(st) = DOMAIN db.clients
         /\ HomeHeader(st) = Cardinality(ClientTable(st))
         /\ PieChart(st)[1] + PieChart(st)[2] = HomeHeader(st)
         /\ {SystemCards(st), BandwidthCards(st), TrafficChart(st)} = {"measured"}
    [] page \in Kinds -> st.items = db.items[page]
    [] page = "logs"  ->
         /\ \A c \in DOMAIN db.clients : Cardinality(LogsView(st, c)) >= 2
         /\ DOMAIN db.clients # {} => LogsView(st, None) = {}
    [] page = "settings" -> TRUE

\* Every change a page makes is followed by reads of all it shows: once nothing of the
\* page is under way its lists and counters agree with each other and with what the
\* server holds, unless its reads overlapped, failed or were overtaken by a change from
\* an earlier visit.
QuietMeansFresh ==
  authed /\ ~skew /\ (\A i \in DOMAIN reqs : reqs[i].live # "page") => Served

\* The server deletes only clients whose deletion the admin confirmed, though a bulk
\* deletion goes on one by one while the list and the selection change, or after the page
\* is left.
DeleteOnlyConfirmed ==
  [][DOMAIN db.clients \ DOMAIN db'.clients \subseteq confirmed]_vars

\* A tab that stays on a page with a timer comes to show what the server holds, the
\* dashboard all of its numbers, however earlier answers were lost or overtook each other.
Converges ==
  <>[]Shows("users") \/ <>[]Shows("home") => <>[](authed /\ Served)

\* A tab on such a page whose token another tab has removed does not stay there without
\* one: the next read is refused and the login form comes back.
ExpiredLeavesPanel ==
  []<>~(authed /\ page \in {"users", "home"} /\ token = None)
=============================================================================
