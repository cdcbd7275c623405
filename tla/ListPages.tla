----------------------------- MODULE ListPages -----------------------------
(***************************************************************************)
(* The three pages with a list of their own and a form to add to it:       *)
(* tariff templates, servers and billing rules (pages/Templates.tsx,       *)
(* Nodes.tsx, ResponseRules.tsx).  The route is the kind of the list.      *)
(***************************************************************************)
EXTENDS AdminCore

FreshList == [items |-> <<>>, showForm |-> FALSE]

OnList == authed /\ page \in Kinds

Load(k) == Request("items", k, None)

\* One card for every item: of a template its price and limits, of a server its address
\* and whether it is up, of a rule its texts and its switch; the note that there are none
\* gives way to the form.
TemplatesView(s) == [cards |-> DOMAIN s.items, form |-> s.showForm,
                     note |-> DOMAIN s.items = {} /\ ~s.showForm]
NodesView(s) == [cards |-> DOMAIN s.items, form |-> s.showForm,
                 note |-> DOMAIN s.items = {} /\ ~s.showForm]
RulesView(s) == [cards |-> DOMAIN s.items, form |-> s.showForm,
                 note |-> DOMAIN s.items = {} /\ ~s.showForm,
                 on |-> {x \in DOMAIN s.items : s.items[x]}]

ListView(s) ==
  CASE page = "templates" -> TemplatesView(s)
    [] page = "nodes"     -> NodesView(s)
    [] page = "rules"     -> RulesView(s)

ShowForm == Local([st EXCEPT !.showForm = TRUE])
CancelItem == ListView(st).form /\ Local([st EXCEPT !.showForm = FALSE])

\* Adding, once the inputs the page insists on are filled: a template's or a server's
\* name, all three of a rule's.  Nothing stops a second press while the first is under way.
CreateTemplate == page = "templates" /\ ListView(st).form
                  /\ Submit(st, Request("newItem", None, page), {})
CreateNode     == page = "nodes" /\ ListView(st).form
                  /\ Submit(st, Request("newItem", None, page), {})
CreateRule     == page = "rules" /\ ListView(st).form
                  /\ Submit(st, Request("newItem", None, page), {})

RemoveTemplate(x) == page = "templates" /\ x \in ListView(st).cards
                     /\ Submit(st, Request("deleteItem", x, page), {})
RemoveNode(x)     == page = "nodes" /\ x \in ListView(st).cards
                     /\ Submit(st, Request("deleteItem", x, page), {})
RemoveRule(x)     == page = "rules" /\ x \in ListView(st).cards
                     /\ Submit(st, Request("deleteItem", x, page), {})

\* What is sent follows from the switch that is shown.
SwitchRule(x) ==
  /\ page = "rules" /\ x \in ListView(st).cards
  /\ Submit(st, Request("toggleRule", x, x \notin ListView(st).on), {})

-----------------------------------------------------------------------------
ListOps == {"newItem", "deleteItem", "toggleRule"}

KindOf(r) == IF r.op = "toggleRule" THEN "rules" ELSE r.arg

(* Mutant of ListThen: a switch is not read back. *)
ListThenNoLoad(s, r) ==
  After([s EXCEPT !.showForm = @ /\ r.op # "newItem"],
        IF r.op = "toggleRule" THEN <<>> ELSE <<Load(KindOf(r))>>)

\* The answer's status is not looked at.
ListThen(s, r) ==
  After([s EXCEPT !.showForm = @ /\ r.op # "newItem"], <<Load(KindOf(r))>>)

ListAction ==
  /\ OnList
  /\ \/ ShowForm \/ CancelItem
     \/ /\ db.newItem[page] + Pending("newItem") <= MaxItems
        /\ CreateTemplate \/ CreateNode \/ CreateRule
     \/ \E x \in 1..MaxItems :
          RemoveTemplate(x) \/ RemoveNode(x) \/ RemoveRule(x) \/ SwitchRule(x)
=============================================================================
