----------------------------- MODULE AdminCore -----------------------------
(***************************************************************************)
(* What the pages of the admin panel's web application (figmadesighn/src)  *)
(* share: one browser tab with one page mounted, its requests in flight,   *)
(* and the backend's database.                                             *)
(*                                                                         *)
(* A request is sent with the token of that moment, takes effect at the    *)
(* server some time later, and its answer comes some time after that, in   *)
(* any order.  Leaving a page does not cancel its requests: the code after *)
(* their await still runs and may send more, but what it sets is the state *)
(* of a component that is gone ("left").  Loading the document anew        *)
(* forgets them, though the server may still carry them out ("gone").      *)
(***************************************************************************)
EXTENDS PanelApi, SequencesExt

CONSTANT
  Tours       \* bounds of a session, one of which it keeps to: the pages it visits, the
              \* changes, logins and reloads of the panel by the admin or another tab
              \* (ops), the requests that fail in the network (faults), and the requests
              \* in flight when the admin or a timer sends one (reqs)

Routes == {"home", "users", "groups", "templates", "nodes", "rules", "profiles",
           "devices", "logs", "settings"}

ASSUME AdminAssumption ==
  \A t \in Tours : /\ t.pages \subseteq Routes /\ t.pages # {}
                   /\ {t.ops, t.faults, t.reqs} \subseteq Nat

VARIABLES
  db,         \* the backend's database
  token,      \* localStorage's adminToken, shared with other tabs
  authed,     \* App's isAuthenticated: the router is shown, not the login form
  page,       \* the route of the address bar
  filter,     \* its ?group= parameter
  st,         \* the state of the page that is mounted
  reqs,       \* requests in flight, oldest first
  tour,       \* the bounds of this session
  ops, faults,\* how many changes and failures there have been
  confirmed,  \* history: clients whose deletion the admin confirmed
  skew        \* history: the page's last reads overlapped, failed, or an earlier
              \* visit's change came after them

shell == <<token, authed, page, filter, tour>>
vars  == <<db, token, authed, page, filter, st, reqs, tour, ops, faults, confirmed, skew>>

Request(op, id, arg) ==
  [op |-> op, id |-> id, arg |-> arg, tok |-> token, ans |-> None, live |-> "page"]

Get(op) == Request(op, None, None)

InFlight(op) == \E i \in DOMAIN reqs : reqs[i].live = "page" /\ reqs[i].op = op

\* A read is sent while an earlier one of the same list is under way.
Overlaps(rs) == \E r \in ToSet(rs) : r.op \in Reads /\ InFlight(r.op)

\* Requests the server has yet to carry out.
Pending(op) == Cardinality({i \in DOMAIN reqs : reqs[i].op = op /\ reqs[i].ans = None})

Room(n) == Len(reqs) + n <= tour.reqs

On(p) == authed /\ page = p

\* An event that only changes the page's own state.
Local(s) ==
  /\ st' = s
  /\ UNCHANGED <<db, shell, reqs, ops, faults, confirmed, skew>>

\* The page asks the server for something.
Fetch(rs) ==
  /\ Room(Len(rs))
  /\ reqs' = reqs \o rs
  /\ skew' = (skew \/ Overlaps(rs))
  /\ UNCHANGED <<db, shell, st, ops, faults, confirmed>>

\* The admin asks for a change; ids are the clients to be deleted.
Submit(s, r, ids) ==
  /\ ops < tour.ops /\ Room(1)
  /\ st' = s
  /\ reqs' = Append(reqs, r)
  /\ ops' = ops + 1
  /\ confirmed' = confirmed \cup ids
  /\ UNCHANGED <<db, shell, faults, skew>>

\* What the code after an await does: the page's new state and what it sends next.
After(s, rs) == [st |-> s, send |-> rs]
=============================================================================
