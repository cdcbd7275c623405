----------------------------- MODULE UsersPage -----------------------------
(***************************************************************************)
(* The clients page (pages/Users.tsx): the list, which a timer reads again *)
(* every five seconds, the selection, the sidebar to add or change a       *)
(* client, the window with a client's QR code.  The lists of groups and    *)
(* templates that the same timer reads only fill the sidebar's menus and   *)
(* are not kept: a menu may offer any group there has been.  Of the        *)
(* sidebar's inputs only the group is kept.                                *)
(***************************************************************************)
EXTENDS AdminCore

FreshUsers ==
  [clients |-> <<>>, selectedUsers |-> {}, sidebarOpen |-> FALSE, selectedUser |-> None,
   loading |-> FALSE, selectedGroupId |-> None, qrModal |-> None]

\* The rows shown: all clients, or those of the group in the address.
DisplayedUsers(s) ==
  IF filter = None THEN DOMAIN s.clients
  ELSE {c \in DOMAIN s.clients : s.clients[c].groupId = filter}

\* The window with a client's key as a QR code, as it was when the window was opened.
QrModal(s) == [shown |-> s.qrModal # None, key |-> s.qrModal]

\* What the page shows and lets the admin press.  The sidebar's backdrop covers the bar
\* above the table, with its button to delete what is selected, and the table; the QR
\* window covers everything.
Uncovered(s) == ~s.sidebarOpen /\ ~QrModal(s).shown

ToolbarView(s) ==
  [add |-> Uncovered(s), bulkBar |-> Uncovered(s) /\ s.selectedUsers # {}]

TableView(s) ==
  [rows |-> IF Uncovered(s) THEN DisplayedUsers(s) ELSE {}, selectAll |-> Uncovered(s)]

\* The sidebar's inputs; its title tells whether a client is added or changed, and a
\* client's key is shown below them.
SidebarForm(s) ==
  [shown |-> s.sidebarOpen, adding |-> s.selectedUser = None, group |-> s.selectedGroupId,
   key |-> s.selectedUser]

SidebarButtons(s) ==
  LET f == SidebarForm(s)
  IN  [create |-> f.shown /\ f.adding /\ ~s.loading,
       save   |-> f.shown /\ ~f.adding /\ ~s.loading,
       remove |-> IF f.shown /\ ~f.adding THEN {s.selectedUser} ELSE {}]

-----------------------------------------------------------------------------
(* Mutant of FetchUsers: the list is read until it has come once. *)
FetchUsersOnce == DOMAIN st.clients = {} /\ Fetch(<<Get("clients")>>)

FetchUsers == Fetch(<<Get("clients")>>)

ToggleUserSelection(c) ==
  /\ c \in TableView(st).rows
  /\ Local([st EXCEPT !.selectedUsers = IF c \in @ THEN @ \ {c} ELSE @ \cup {c}])

\* The selection is compared with the rows by length only.
ToggleSelectAll ==
  /\ TableView(st).selectAll
  /\ LET rows == DisplayedUsers(st)
     IN  Local([st EXCEPT !.selectedUsers =
                  IF Cardinality(@) = Cardinality(rows) THEN {} ELSE rows])

\* The inputs are made anew with the client's values; the group's menu keeps its choice.
OpenUserDetails(c) ==
  /\ c \in TableView(st).rows
  /\ Local([st EXCEPT !.selectedUser = c, !.sidebarOpen = TRUE])

AddClient ==
  /\ ToolbarView(st).add
  /\ Local([st EXCEPT !.selectedUser = None, !.sidebarOpen = TRUE])

CloseSidebar ==
  /\ SidebarForm(st).shown
  /\ Local([st EXCEPT !.sidebarOpen = FALSE])

\* The window's button to copy the key closes it as the other one does.
OpenQr(c) ==
  /\ c \in TableView(st).rows
  /\ Local([st EXCEPT !.qrModal = c])

CloseQr ==
  /\ QrModal(st).shown
  /\ Local([st EXCEPT !.qrModal = None])

PickGroup(g) ==
  /\ SidebarForm(st).shown /\ g \in {None} \cup (1..(db.newGroup - 1))
  /\ Local([st EXCEPT !.selectedGroupId = g])

-----------------------------------------------------------------------------
(* Mutant of HandleCreate: the button works while a request is under way. *)
HandleCreateAgain ==
  /\ SidebarForm(st).shown /\ SidebarForm(st).adding
  /\ Submit([st EXCEPT !.loading = TRUE],
            Request("create", None, SidebarForm(st).group), {})

\* A blank name is refused without a request.
HandleCreate ==
  /\ SidebarButtons(st).create
  /\ Submit([st EXCEPT !.loading = TRUE],
            Request("create", None, SidebarForm(st).group), {})

HandleUpdate ==
  /\ SidebarButtons(st).save
  /\ Submit([st EXCEPT !.loading = TRUE],
            Request("update", st.selectedUser, SidebarForm(st).group), {})

\* What is sent follows from the status that is shown.
HandleToggle(c) ==
  /\ c \in TableView(st).rows
  /\ Submit(st, Request("toggle", c, st.clients[c].status # "online"), {})

HandleDelete(c) ==
  /\ c \in TableView(st).rows \cup SidebarButtons(st).remove
  /\ Submit(st, Request("delete", c, None), {c})

\* One deletion after another, of the clients selected when the admin confirmed.
NextDeletion(ids) ==
  LET c == Min(ids) IN Request("bulk", c, ids \ {c})

HandleBulkDelete ==
  /\ ToolbarView(st).bulkBar
  /\ Submit(st, NextDeletion(st.selectedUsers), st.selectedUsers)

-----------------------------------------------------------------------------
UsersOps == {"create", "update", "toggle", "delete", "bulk"}

\* The page once the answer to its request r has come, ok saying whether it is a success.
\* A client that was created closes the sidebar, whatever it shows by then.
SavedThen(s, r, ok) ==
  LET closes == r.op = "create" /\ ok
  IN  After([s EXCEPT !.loading = FALSE, !.sidebarOpen = @ /\ ~closes],
            IF ok THEN <<Get("clients")>> ELSE <<>>)

(* Mutant of DeletedThen: the list is not read again. *)
DeletedThenNoFetch(s, r) == After([s EXCEPT !.selectedUsers = @ \ {r.id}], <<>>)

DeletedThen(s, r) == After([s EXCEPT !.selectedUsers = @ \ {r.id}], <<Get("clients")>>)

(* Mutant of BulkThen: it goes on while anything is selected. *)
BulkThenLive(s, r) ==
  IF s.selectedUsers \ {r.id} # {}
  THEN After(s, <<NextDeletion(s.selectedUsers \ {r.id})>>)
  ELSE After([s EXCEPT !.selectedUsers = {}], <<Get("clients")>>)

BulkThen(s, r) ==
  IF r.arg # {} THEN After(s, <<NextDeletion(r.arg)>>)
  ELSE After([s EXCEPT !.selectedUsers = {}], <<Get("clients")>>)

UsersThen(s, r, ok) ==
  CASE r.op \in {"create", "update"} -> SavedThen(s, r, ok)
    [] r.op = "toggle" -> After(s, <<Get("clients")>>)
    [] r.op = "delete" -> DeletedThen(s, r)
    [] r.op = "bulk"   -> BulkThen(s, r)

\* The page once its request has failed in the network: only the bulk deletion goes on.
UsersFail(s, r) ==
  CASE r.op \in {"create", "update"} -> After([s EXCEPT !.loading = FALSE], <<>>)
    [] r.op \in {"toggle", "delete"} -> After(s, <<>>)
    [] r.op = "bulk" -> BulkThen(s, r)

UsersAction ==
  /\ On("users")
  /\ \/ FetchUsers
     \/ ToggleSelectAll \/ AddClient \/ CloseSidebar \/ CloseQr
     \/ HandleCreate \/ HandleUpdate \/ HandleBulkDelete
     \/ \E g \in {None} \cup (1..MaxGroups) : PickGroup(g)
     \/ \E c \in 1..MaxClients :
          \/ ToggleUserSelection(c) \/ OpenUserDetails(c) \/ OpenQr(c)
          \/ HandleToggle(c) \/ HandleDelete(c)
=============================================================================
