------------------------------ MODULE PanelApi ------------------------------
(***************************************************************************)
(* The endpoints of the admin panel's backend (shadevpn-admin-backend,     *)
(* main.py) that its web pages call, as functions of the panel's database: *)
(* each gives the new database, the status code and what the page reads of *)
(* the answer.  FastAPI runs an endpoint per request; each one commits     *)
(* once, so a request takes effect in one step.  The server's clients.json *)
(* is ClientDb's subject.  Of a client only its group and whether it is    *)
(* enabled are kept.                                                       *)
(*                                                                         *)
(* Ids are numbers given out in order and never again.  Where the code has *)
(* a text that is empty or null for "none", here is None.                  *)
(***************************************************************************)
EXTENDS Integers, FiniteSets, Functions

CONSTANTS
  MaxClients, MaxGroups, MaxItems,  \* bounds: ids given out
  Names,                            \* group names
  None

\* None is no id and no answer of an endpoint.
ASSUME PanelAssumption ==
  /\ {MaxClients, MaxGroups, MaxItems} \subseteq Nat \ {0}
  /\ Names # {} /\ None \notin Nat \cup [code : Nat, data : {None}]
  /\ None # "measured"
  /\ None \notin [totalClients : Nat, enabledClients : Nat, disabledClients : Nat]

Kinds    == {"templates", "nodes", "rules"}
Sections == {"bot", "server"}

\* The values of a settings section, by where they come from: nothing, the page's own
\* default, what was stored before, what the admin typed.
Texts == {"empty", "default", "stored", "typed"}

Clients == [group : {None} \cup (1..MaxGroups), enabled : BOOLEAN]

Partial(S, T) == UNION {[D -> T] : D \in SUBSET S}

Databases ==
  [clients : Partial(1..MaxClients, Clients), newClient : 1..(MaxClients + 1),
   groups : Partial(1..MaxGroups, Names), newGroup : 1..(MaxGroups + 1),
   items : [Kinds -> Partial(1..MaxItems, BOOLEAN)],
   newItem : [Kinds -> 1..(MaxItems + 1)],
   settings : [Sections -> Texts]]

With(f, x, v) == [y \in DOMAIN f \cup {x} |-> IF y = x THEN v ELSE f[y]]
Without(f, x) == Restrict(f, DOMAIN f \ {x})

Answer(d, code, data) == [db |-> d, code |-> code, data |-> data]
Done(d)    == Answer(d, 200, None)
NotFound(d) == Answer(d, 404, None)

-----------------------------------------------------------------------------
(* Clients.                                                                *)

ListClients(d) ==
  [c \in DOMAIN d.clients |->
     [groupId |-> d.clients[c].group,
      status |-> IF d.clients[c].enabled THEN "online" ELSE "offline"]]

\* The server program that makes the keys may fail: here when the ids are used up.
CreateClient(d, group) ==
  IF d.newClient > MaxClients
  THEN Answer(d, 500, None)
  ELSE Done([d EXCEPT
         !.clients = With(@, d.newClient, [group |-> group, enabled |-> TRUE]),
         !.newClient = @ + 1])

DeleteClient(d, c) ==
  IF c \notin DOMAIN d.clients THEN NotFound(d)
  ELSE Done([d EXCEPT !.clients = Without(@, c)])

\* group_id is always sent, so it is always written.
UpdateClient(d, c, group) ==
  IF c \notin DOMAIN d.clients THEN NotFound(d)
  ELSE Done([d EXCEPT !.clients[c].group = group])

ToggleClient(d, c, enabled) ==
  IF c \notin DOMAIN d.clients THEN NotFound(d)
  ELSE Done([d EXCEPT !.clients[c].enabled = enabled])

GetDashboard(d) ==
  LET on == {c \in DOMAIN d.clients : d.clients[c].enabled}
  IN  [totalClients |-> Cardinality(DOMAIN d.clients), enabledClients |-> Cardinality(on),
       disabledClients |-> Cardinality(DOMAIN d.clients \ on)]

-----------------------------------------------------------------------------
(* Groups.                                                                 *)

ListGroups(d) ==
  [g \in DOMAIN d.groups |->
     [name |-> d.groups[g],
      members |-> Cardinality({c \in DOMAIN d.clients : d.clients[c].group = g})]]

CreateGroup(d, name) ==
  Done([d EXCEPT !.groups = With(@, d.newGroup, name), !.newGroup = @ + 1])

UpdateGroup(d, g, name) ==
  IF g \notin DOMAIN d.groups THEN NotFound(d)
  ELSE Done([d EXCEPT !.groups[g] = name])

\* The group's clients are detached first.
DeleteGroup(d, g) ==
  IF g \notin DOMAIN d.groups THEN NotFound(d)
  ELSE Done([d EXCEPT
         !.clients = [c \in DOMAIN @ |-> IF @[c].group = g THEN [@[c] EXCEPT !.group = None]
                                         ELSE @[c]],
         !.groups = Without(@, g)])

AssignClients(d, g, cs) ==
  IF g \notin DOMAIN d.groups THEN NotFound(d)
  ELSE Done([d EXCEPT
         !.clients = [c \in DOMAIN @ |-> IF c \in cs THEN [@[c] EXCEPT !.group = g]
                                         ELSE @[c]]])

-----------------------------------------------------------------------------
(* Templates, nodes and rules: what is enabled counts for rules only.      *)

CreateItem(d, k) ==
  Done([d EXCEPT !.items[k] = With(@, d.newItem[k], TRUE), !.newItem[k] = @ + 1])

DeleteItem(d, k, x) ==
  IF x \notin DOMAIN d.items[k] THEN NotFound(d)
  ELSE Done([d EXCEPT !.items[k] = Without(@, x)])

ToggleRule(d, x, enabled) ==
  IF x \notin DOMAIN d.items["rules"] THEN NotFound(d)
  ELSE Done([d EXCEPT !.items["rules"][x] = enabled])

UpdateSettings(d, s, text) == Done([d EXCEPT !.settings[s] = text])

-----------------------------------------------------------------------------
\* The constant ADMIN_PASSWORD, and the middleware: every endpoint but the login wants it.
AdminPassword == "right"

\* What the machine and its traffic are like is measured at every request.
Measured == {"sys", "traffic", "chart"}

Reads == {"clients", "groups", "items", "settings", "dash"} \cup Measured

Endpoint(d, r) ==
  CASE r.op = "clients"  -> Answer(d, 200, ListClients(d))
    [] r.op = "dash"     -> Answer(d, 200, GetDashboard(d))
    [] r.op \in Measured -> Answer(d, 200, "measured")
    [] r.op = "groups"   -> Answer(d, 200, ListGroups(d))
    [] r.op = "items"    -> Answer(d, 200, d.items[r.id])
    [] r.op = "settings" -> Answer(d, 200, d.settings)
    [] r.op = "create"   -> CreateClient(d, r.arg)
    [] r.op = "update"   -> UpdateClient(d, r.id, r.arg)
    [] r.op = "toggle"   -> ToggleClient(d, r.id, r.arg)
    [] r.op \in {"delete", "bulk"} -> DeleteClient(d, r.id)
    [] r.op = "newGroup"    -> CreateGroup(d, r.arg)
    [] r.op = "editGroup"   -> UpdateGroup(d, r.id, r.arg)
    [] r.op = "deleteGroup" -> DeleteGroup(d, r.id)
    [] r.op = "assign"      -> AssignClients(d, r.id, r.arg)
    [] r.op = "newItem"     -> CreateItem(d, r.arg)
    [] r.op = "deleteItem"  -> DeleteItem(d, r.arg, r.id)
    [] r.op = "toggleRule"  -> ToggleRule(d, r.id, r.arg)
    [] r.op = "save"        -> UpdateSettings(d, r.id, r.arg)

Handle(d, r) ==
  IF r.op = "login" THEN Answer(d, IF r.arg = AdminPassword THEN 200 ELSE 401, None)
  ELSE IF r.tok # AdminPassword THEN Answer(d, 401, None)
  ELSE Endpoint(d, r)
=============================================================================
