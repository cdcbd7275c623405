----------------------------- MODULE GroupsPage -----------------------------
(***************************************************************************)
(* The groups page (pages/Groups.tsx): the form that makes or renames a    *)
(* group, whose inputs a 50 ms timer fills, the panel that assigns clients *)
(* to a group, the cards.  Nothing reads the lists again but the page's    *)
(* own changes.                                                            *)
(***************************************************************************)
EXTENDS AdminCore

CONSTANT MaxFills  \* bound: fill timers pending

ASSUME GroupsAssumption == MaxFills \in Nat \ {0}

\* name is the text in the form's input, None when it is blank; base is history: the name
\* on the card whose edit button was pressed, None once the admin has typed.
FreshGroups ==
  [groups |-> <<>>, clients |-> <<>>, showForm |-> FALSE, editId |-> None,
   name |-> None, fills |-> <<>>, base |-> None,
   assignGroupId |-> None, selectedClients |-> {}]

GroupMembers(s, g) == {c \in DOMAIN s.clients : s.clients[c].groupId = g}

GroupsView(s) ==
  [cards  |-> DOMAIN s.groups,
   form   |-> s.showForm,
   panel  |-> s.assignGroupId # None,
   boxes  |-> IF s.assignGroupId # None THEN DOMAIN s.clients ELSE {},
   assign |-> s.assignGroupId # None /\ DOMAIN s.clients # {} /\ s.selectedClients # {}]

-----------------------------------------------------------------------------
\* Showing the form makes its input anew, unless it is shown already.
Shown(s) == [s EXCEPT !.showForm = TRUE, !.name = IF s.showForm THEN @ ELSE None]

Hidden(s) == [s EXCEPT !.showForm = FALSE, !.editId = None, !.name = None, !.base = None]

NewGroup == Local([Shown(st) EXCEPT !.editId = None, !.base = None])

(* Mutant of StartEdit: a form that is shown is not filled again. *)
StartEditOnce(g) ==
  /\ g \in GroupsView(st).cards /\ Len(st.fills) < MaxFills
  /\ Local([Shown(st) EXCEPT !.editId = g, !.base = st.groups[g].name,
                             !.fills = IF st.showForm THEN @
                                       ELSE Append(@, st.groups[g].name)])

StartEdit(g) ==
  /\ g \in GroupsView(st).cards /\ Len(st.fills) < MaxFills
  /\ Local([Shown(st) EXCEPT !.editId = g, !.base = st.groups[g].name,
                             !.fills = Append(@, st.groups[g].name)])

\* The timer of startEdit: it fills the form that is shown by then, if any.
FillTimer ==
  /\ st.fills # <<>>
  /\ Local([st EXCEPT !.fills = Tail(@), !.name = IF st.showForm THEN Head(st.fills) ELSE @])

TypeName(n) ==
  /\ GroupsView(st).form
  /\ Local([st EXCEPT !.name = n, !.base = None])

CancelForm == GroupsView(st).form /\ Local(Hidden(st))

\* A blank name is refused.  The button is not disabled while the request is under way.
SaveGroup ==
  /\ GroupsView(st).form /\ st.name # None
  /\ Submit(st, IF st.editId # None THEN Request("editGroup", st.editId, st.name)
                ELSE Request("newGroup", None, st.name), {})
  /\ st.editId = None => db.newGroup + Pending("newGroup") <= MaxGroups

RemoveGroup(g) ==
  /\ g \in GroupsView(st).cards
  /\ Submit(st, Request("deleteGroup", g, None), {})

OpenAssignPanel(g) ==
  /\ g \in GroupsView(st).cards
  /\ Local([st EXCEPT !.assignGroupId = g, !.selectedClients = {}])

ToggleClientSelection(c) ==
  /\ c \in GroupsView(st).boxes
  /\ Local([st EXCEPT !.selectedClients = IF c \in @ THEN @ \ {c} ELSE @ \cup {c}])

CloseAssignPanel == GroupsView(st).panel /\ Local([st EXCEPT !.assignGroupId = None])

HandleAssign ==
  /\ GroupsView(st).assign
  /\ Submit(st, Request("assign", st.assignGroupId, st.selectedClients), {})

-----------------------------------------------------------------------------
GroupsOps == {"newGroup", "editGroup", "deleteGroup", "assign"}

\* The answer's status is not looked at.  A group that was saved closes the form, and an
\* assignment the panel, whatever they show by then.
GroupsThen(s, r) ==
  CASE r.op \in {"newGroup", "editGroup"} -> After(Hidden(s), <<Get("groups")>>)
    [] r.op = "deleteGroup" -> After(s, <<Get("groups"), Get("clients")>>)
    [] r.op = "assign" ->
         After([s EXCEPT !.assignGroupId = None, !.selectedClients = {}],
               <<Get("groups"), Get("clients")>>)

GroupsAction ==
  /\ On("groups")
  /\ \/ NewGroup \/ FillTimer \/ CancelForm \/ SaveGroup \/ CloseAssignPanel \/ HandleAssign
     \/ \E n \in Names : TypeName(n)
     \/ \E g \in 1..MaxGroups : StartEdit(g) \/ RemoveGroup(g) \/ OpenAssignPanel(g)
     \/ \E c \in 1..MaxClients : ToggleClientSelection(c)
=============================================================================
