---------------------------- MODULE SessionTable ----------------------------
(***************************************************************************)
(* The table of sessions and the return-routing map of SessionManager      *)
(* (aivpn-server/src/session.rs) under the handshakes of Gateway           *)
(* (aivpn-server/src/gateway.rs), which run on several receive workers.    *)
(*                                                                         *)
(* A handshake does not say which client sends it: handle_packet creates a *)
(* session with the PSK and VPN IP of each registered client in turn, and  *)
(* takes it back (rollback_failed_session) when the tag does not match.    *)
(* Every operation on a DashMap is atomic, a handshake is not: it is a     *)
(* sequence of such operations, one step of a worker each.                 *)
(***************************************************************************)
EXTENDS Integers, FiniteSets

CONSTANTS
  Workers,      \* receive workers, 2 to 16 in the code
  NumClients,   \* registered clients, in the order of the database
  Modes,        \* whether a client database is configured (else: legacy mode)
  IPs,          \* public addresses of clients
  MaxPerIp,     \* per-IP session limit, 5 in the code
  MaxVpnIp,     \* last VPN IP that can be assigned automatically, 254
  MaxSessions,  \* MAX_SESSIONS
  MaxIds,       \* bound: session ids in use at a time, attempts included
  None

ASSUME TableAssumption ==
  /\ NumClients \in Nat \ {0}
  /\ MaxPerIp \in Nat \ {0}
  /\ MaxIds \in Nat /\ MaxVpnIp \in Nat /\ MaxSessions \in Nat
  /\ Modes \subseteq BOOLEAN
  /\ IsFiniteSet(Workers) /\ "cleaner" \notin Workers

Clients == 1 .. NumClients
Senders == 0 .. NumClients    \* 0 sends tags that match no registered client
Ids     == 1 .. MaxIds
VpnIps  == 1 .. MaxVpnIp

(* Client c of the database has the static VPN IP c: ClientDb gives every  *)
(* client one of its own, and none above the last octet.                   *)
StaticVpnIp(c) == c

ASSUME StaticAssumption ==
  TRUE \in Modes => \A c \in Clients : StaticVpnIp(c) \in VpnIps

(* A worker's step in handle_packet. *)
Steps == {"idle", "create", "insert", "assign", "route", "validate",
          "rbRead", "rbRemove", "rbUnroute", "rbRestore",
          "collect", "remove"}

VARIABLES
  useDb,    \* the configuration of this server: a client database or not
  live,     \* keys of sessions
  info,     \* per session: public address, VPN IP, sender, tag validated
  route,    \* vpn_ip_map
  nextVpn,  \* next_ip_octet
  cooling,  \* addresses whose handshake_cooldowns entry is still active
  pc,       \* step of each worker
  job,      \* what each worker is doing
  doomed,   \* sessions each worker, or the cleanup task, is about to remove
  sweeping  \* session each of them has removed but not yet unrouted

table   == <<live, info, route, nextVpn>>
workers == <<pc, job>>
vars    == <<useDb, live, info, route, nextVpn, cooling, pc, job, doomed, sweeping>>

Cleaner  == "cleaner"
Tasks    == Workers \cup {Cleaner}
Sessions == [ip : IPs, vpn : VpnIps \cup {None}, sender : Senders, valid : BOOLEAN]
Jobs     == [sender : Senders, ip : IPs, try : Clients, reused : VpnIps \cup {None},
             sid : Ids \cup {None}, vpn : VpnIps \cup {None}]

ASSUME NoneAssumption ==
  None \notin Nat /\ None \notin Sessions /\ None \notin Jobs

TypeOK ==
  /\ useDb \in Modes
  /\ live \in SUBSET Ids
  /\ info \in [Ids -> Sessions \cup {None}]
  /\ route \in [VpnIps -> Ids \cup {None}]
  /\ nextVpn \in 1 .. (MaxVpnIp + 1)
  /\ cooling \in SUBSET IPs
  /\ pc \in [Workers -> Steps]
  /\ job \in [Workers -> Jobs \cup {None}]
  /\ doomed \in [Tasks -> SUBSET Ids]
  /\ sweeping \in [Tasks -> Ids \cup {None}]

Init ==
  /\ useDb \in Modes
  /\ live = {}
  /\ info = [s \in Ids |-> None]
  /\ route = [v \in VpnIps |-> None]
  /\ nextVpn = 1
  /\ cooling = {}
  /\ pc = [w \in Workers |-> "idle"]
  /\ job = [w \in Workers |-> None]
  /\ doomed = [x \in Tasks |-> {}]
  /\ sweeping = [x \in Tasks |-> None]

(* Task w drops its reference to s; the last one frees a removed session. *)
Forget(w, s) ==
  info' = IF \/ s \in live
             \/ \E x \in Workers \ {w} : job[x] # None /\ job[x].sid = s
             \/ \E x \in Tasks \ {w} : s \in doomed[x]
          THEN info ELSE [info EXCEPT ![s] = None]

Goto(w, step) == pc' = [pc EXCEPT ![w] = step]

SessionsAt(ip)   == {s \in live : info[s].ip = ip}
SessionsWith(v)  == {s \in live : info[s].vpn = v}

(* Established sessions whose handshake is over: the datagrams that move   *)
(* or end one follow the ServerHello, which the handshake sends last.      *)
Established ==
  {s \in live : info[s].valid /\ \A w \in Workers : job[w] = None \/ job[w].sid # s}

-----------------------------------------------------------------------------
(* handle_packet on a datagram no session recognises. *)
Begin(w, sender, ip) ==
  /\ pc[w] = "idle"
  /\ ip \notin cooling
  /\ job' = [job EXCEPT ![w] = [sender |-> sender, ip |-> ip, try |-> 1,
                                reused |-> None, sid |-> None, vpn |-> None]]
  /\ Goto(w, "create")
  /\ UNCHANGED <<useDb, table, cooling, doomed, sweeping>>

(* The attempt has failed: the next client of the list, or no client       *)
(* matches and the address has to wait.                                    *)
LastTry(w) == ~ useDb \/ job[w].try = NumClients

NextTry(w) ==
  IF LastTry(w)
  THEN /\ Goto(w, "idle")
       /\ job' = [job EXCEPT ![w] = None]
       /\ cooling' = IF useDb THEN cooling \cup {job[w].ip} ELSE cooling
  ELSE /\ Goto(w, "create")
       /\ job' = [job EXCEPT ![w].try = @ + 1, ![w].sid = None, ![w].vpn = None]
       /\ UNCHANGED cooling

LimitReached(ip) ==
  Cardinality(live) >= MaxSessions \/ Cardinality(SessionsAt(ip)) >= MaxPerIp

(* reused_vpn_ip: that of some session at the same public address. Only    *)
(* legacy mode uses it, every registered client has a static VPN IP.       *)
Reusable(ip) ==
  LET found == {info[s].vpn : s \in SessionsAt(ip)} \ {None}
  IN  IF useDb \/ found = {} THEN {None} ELSE found

(* The first half of create_session: the reusable VPN IP, the limits. *)
Create(w) ==
  /\ pc[w] = "create"
  /\ IF LimitReached(job[w].ip)
     THEN NextTry(w)
     ELSE /\ \E r \in Reusable(job[w].ip) : job' = [job EXCEPT ![w].reused = r]
          /\ Goto(w, "insert")
          /\ UNCHANGED cooling
  /\ UNCHANGED <<useDb, table, doomed, sweeping>>

(* Session ids are random, so a new one is an id nothing refers to. *)
FreshIds ==
  Ids \ (live \cup {route[v] : v \in VpnIps}
              \cup {job[w].sid : w \in {x \in Workers : job[x] # None}}
              \cup UNION {doomed[x] : x \in Tasks})

FreshId == CHOOSE s \in FreshIds : TRUE

(* sessions.insert: the session has no VPN IP yet. *)
Insert(w) ==
  /\ pc[w] = "insert"
  /\ FreshIds # {}
  /\ live' = live \cup {FreshId}
  /\ info' = [s \in Ids |-> IF s = FreshId
                 THEN [ip |-> job[w].ip, vpn |-> None, sender |-> job[w].sender,
                       valid |-> FALSE]
                 ELSE info[s]]
  /\ job' = [job EXCEPT ![w].sid = FreshId]
  /\ Goto(w, "assign")
  /\ UNCHANGED <<useDb, route, nextVpn, cooling, doomed, sweeping>>

AutoVpnIp == IF nextVpn <= MaxVpnIp THEN nextVpn ELSE None

(* The VPN IP: the client's static one, a reused one, or the next free. *)
Assign(w) ==
  /\ pc[w] = "assign"
  /\ LET auto == ~ useDb /\ job[w].reused = None
         v    == IF useDb THEN StaticVpnIp(job[w].try)
                 ELSE IF ~ auto THEN job[w].reused
                 ELSE AutoVpnIp
     IN  /\ nextVpn' = IF auto /\ nextVpn <= MaxVpnIp THEN nextVpn + 1 ELSE nextVpn
         /\ info' = [info EXCEPT ![job[w].sid].vpn = v]
         /\ job' = [job EXCEPT ![w].vpn = v]
         /\ Goto(w, IF v = None THEN "validate" ELSE "route")
  /\ UNCHANGED <<useDb, live, route, cooling, doomed, sweeping>>

(* vpn_ip_map.insert *)
Route(w) ==
  /\ pc[w] = "route"
  /\ route' = [route EXCEPT ![job[w].vpn] = job[w].sid]
  /\ Goto(w, "validate")
  /\ UNCHANGED <<useDb, live, info, nextVpn, cooling, job, doomed, sweeping>>

(* The tag matches the keys derived from the PSK that was tried. *)
Matches(w) == IF useDb THEN job[w].sender = job[w].try ELSE job[w].sender # 0

(* Mutant of Validate: a mismatch is not rolled back. *)
ValidateWithoutRollback(w) ==
  /\ pc[w] = "validate"
  /\ IF Matches(w)
     THEN /\ info' = [info EXCEPT ![job[w].sid].valid = TRUE]
          /\ Goto(w, "collect")
          /\ UNCHANGED <<job, cooling>>
     ELSE /\ UNCHANGED info
          /\ NextTry(w)
  /\ UNCHANGED <<useDb, live, route, nextVpn, doomed, sweeping>>

(* validate_tag on the new session. *)
Validate(w) ==
  /\ pc[w] = "validate"
  /\ IF Matches(w)
     THEN /\ info' = [info EXCEPT ![job[w].sid].valid = TRUE]
          /\ Goto(w, "collect")
     ELSE /\ UNCHANGED info
          /\ Goto(w, "rbRead")
  /\ UNCHANGED <<useDb, live, route, nextVpn, cooling, job, doomed, sweeping>>

-----------------------------------------------------------------------------
(* rollback_failed_session, in four operations on the maps. *)
RollbackRead(w) ==
  /\ pc[w] = "rbRead"
  /\ job' = [job EXCEPT ![w].vpn = IF job[w].sid \in live
                                   THEN info[job[w].sid].vpn ELSE None]
  /\ Goto(w, "rbRemove")
  /\ UNCHANGED <<useDb, table, cooling, doomed, sweeping>>

RollbackRemove(w) ==
  /\ pc[w] = "rbRemove"
  /\ live' = live \ {job[w].sid}
  /\ IF job[w].sid \in live
     THEN Goto(w, "rbUnroute") /\ UNCHANGED <<info, job>>
     ELSE /\ Goto(w, "rbRestore")
          /\ Forget(w, job[w].sid)
          /\ job' = [job EXCEPT ![w].sid = None]
  /\ UNCHANGED <<useDb, route, nextVpn, cooling, doomed, sweeping>>

(* remove_session: the route goes only if it still points to this session. *)
RouteWithout(s) ==
  [v \in VpnIps |-> IF v = info[s].vpn /\ route[v] = s THEN None ELSE route[v]]

RollbackUnroute(w) ==
  /\ pc[w] = "rbUnroute"
  /\ route' = RouteWithout(job[w].sid)
  /\ Forget(w, job[w].sid)
  /\ job' = [job EXCEPT ![w].sid = None]
  /\ Goto(w, "rbRestore")
  /\ UNCHANGED <<useDb, live, nextVpn, cooling, doomed, sweeping>>

(* Mutant of RollbackRestore: any session at the public address gets it. *)
RollbackRestoreByIp(w) ==
  /\ pc[w] = "rbRestore"
  /\ LET owners == IF job[w].vpn = None THEN {} ELSE SessionsAt(job[w].ip)
     IN  IF owners = {} THEN UNCHANGED route
         ELSE \E s \in owners : route' = [route EXCEPT ![job[w].vpn] = s]
  /\ NextTry(w)
  /\ UNCHANGED <<useDb, live, info, nextVpn, doomed, sweeping>>

(* The first session found that owns the VPN IP gets the route back. *)
RollbackRestore(w) ==
  /\ pc[w] = "rbRestore"
  /\ LET owners == IF job[w].vpn = None THEN {} ELSE SessionsWith(job[w].vpn)
     IN  IF owners = {} THEN UNCHANGED route
         ELSE \E s \in owners : route' = [route EXCEPT ![job[w].vpn] = s]
  /\ NextTry(w)
  /\ UNCHANGED <<useDb, live, info, nextVpn, doomed, sweeping>>

-----------------------------------------------------------------------------
(* Mutant of Collect: the clean-up is by public address. *)
CollectByIp(w) ==
  /\ pc[w] = "collect"
  /\ doomed' = [doomed EXCEPT ![w] = SessionsAt(job[w].ip) \ {job[w].sid}]
  /\ Goto(w, "remove")
  /\ UNCHANGED <<useDb, table, cooling, job, sweeping>>

(* Mutant of Collect: keep_session_id is not spared. *)
CollectOwnToo(w) ==
  /\ pc[w] = "collect"
  /\ doomed' = [doomed EXCEPT ![w] =
       IF job[w].vpn = None THEN {} ELSE SessionsWith(job[w].vpn)]
  /\ Goto(w, "remove")
  /\ UNCHANGED <<useDb, table, cooling, job, sweeping>>

(* cleanup_old_sessions_for_vpn_ip: collect the client's other sessions. *)
Collect(w) ==
  /\ pc[w] = "collect"
  /\ doomed' = [doomed EXCEPT ![w] =
       IF job[w].vpn = None THEN {} ELSE SessionsWith(job[w].vpn) \ {job[w].sid}]
  /\ Goto(w, "remove")
  /\ UNCHANGED <<useDb, table, cooling, job, sweeping>>

(* remove_session of one of the sessions task x has collected: first the   *)
(* session leaves the table, then its route goes.                          *)
TakeOut(x, s) ==
  /\ s \in doomed[x]
  /\ sweeping[x] = None
  /\ live' = live \ {s}
  /\ IF s \in live
     THEN sweeping' = [sweeping EXCEPT ![x] = s] /\ UNCHANGED <<doomed, info>>
     ELSE /\ doomed' = [doomed EXCEPT ![x] = @ \ {s}]
          /\ Forget(x, s)
          /\ UNCHANGED sweeping
  /\ UNCHANGED <<useDb, route, nextVpn, cooling, workers>>

TakeOutRoute(x) ==
  /\ sweeping[x] # None
  /\ route' = RouteWithout(sweeping[x])
  /\ doomed' = [doomed EXCEPT ![x] = @ \ {sweeping[x]}]
  /\ Forget(x, sweeping[x])
  /\ sweeping' = [sweeping EXCEPT ![x] = None]
  /\ UNCHANGED <<useDb, live, nextVpn, cooling, workers>>

Remove(w, s) == pc[w] = "remove" /\ TakeOut(w, s)

Unroute(w) == pc[w] = "remove" /\ TakeOutRoute(w)

(* The handshake succeeds and its address has no cooldown any more; or the *)
(* session a client has shut down is gone.                                 *)
Finish(w) ==
  /\ pc[w] = "remove"
  /\ doomed[w] = {}
  /\ cooling' = IF job[w] = None THEN cooling ELSE cooling \ {job[w].ip}
  /\ IF job[w] = None THEN UNCHANGED info ELSE Forget(w, job[w].sid)
  /\ job' = [job EXCEPT ![w] = None]
  /\ Goto(w, "idle")
  /\ UNCHANGED <<useDb, live, route, nextVpn, doomed, sweeping>>

-----------------------------------------------------------------------------
(* A validated datagram of a session: Shutdown, or one from a new endpoint. *)
Shutdown(w, s) ==
  /\ pc[w] = "idle"
  /\ s \in Established
  /\ doomed' = [doomed EXCEPT ![w] = {s}]
  /\ Goto(w, "remove")
  /\ UNCHANGED <<useDb, table, cooling, job, sweeping>>

Migrate(w, s, ip) ==
  /\ pc[w] = "idle"
  /\ s \in Established
  /\ info[s].ip # ip
  /\ info' = [info EXCEPT ![s].ip = ip]
  /\ UNCHANGED <<useDb, live, route, nextVpn, cooling, workers, doomed, sweeping>>

(* cleanup_expired in the periodic task: collect, then remove one by one. *)
CleanupCollect(expired) ==
  /\ doomed[Cleaner] = {}
  /\ expired # {}
  /\ doomed' = [doomed EXCEPT ![Cleaner] = expired]
  /\ UNCHANGED <<useDb, table, cooling, workers, sweeping>>

CleanupRemove(s) == TakeOut(Cleaner, s)

CleanupUnroute == TakeOutRoute(Cleaner)

CooldownPasses(ip) ==
  /\ ip \in cooling
  /\ cooling' = cooling \ {ip}
  /\ UNCHANGED <<useDb, table, workers, doomed, sweeping>>

Handshake(w) ==
  \/ \E c \in Senders, ip \in IPs : Begin(w, c, ip)
  \/ Create(w) \/ Insert(w) \/ Assign(w) \/ Route(w) \/ Validate(w)
  \/ RollbackRead(w) \/ RollbackRemove(w) \/ RollbackUnroute(w) \/ RollbackRestore(w)
  \/ Collect(w) \/ Unroute(w) \/ Finish(w)
  \/ \E s \in doomed[w] : Remove(w, s)

Next ==
  \/ \E w \in Workers :
       \/ Handshake(w)
       \/ \E s \in Established : Shutdown(w, s) \/ \E ip \in IPs : Migrate(w, s, ip)
  \/ \E expired \in SUBSET Established : CleanupCollect(expired)
  \/ \E s \in doomed[Cleaner] : CleanupRemove(s)
  \/ CleanupUnroute
  \/ \E ip \in cooling : CooldownPasses(ip)

Spec == Init /\ [][Next]_vars

-----------------------------------------------------------------------------
Quiet == doomed[Cleaner] = {} /\ \A w \in Workers : pc[w] = "idle"

(* OwnersRouted: when no operation is under way, the VPN IP of a session   *)
(* in the table is routed to a session in the table, so that a client that *)
(* others' attempts displaced has its route back (session.rs               *)
(* rollback_failed_session "Restores vpn_ip_map to the old session that    *)
(* still owns that IP").                                                   *)
OwnersRouted ==
  Quiet => \A s \in live : info[s].vpn # None => route[info[s].vpn] \in live

(* RoutedToOwner: with a client database, whatever attempts, rollbacks and *)
(* clean-ups the workers interleave, a VPN IP never leads to an            *)
(* established session of another client than the one it is registered for *)
(* (session.rs get_session_by_vpn_ip, rollback_failed_session; gateway.rs, *)
(* the PSK loop, which routes each client's VPN IP to a stranger's attempt *)
(* in turn).                                                               *)
RoutedToOwner ==
  useDb =>
    \A v \in VpnIps :
      route[v] \in live /\ info[route[v]].valid =>
        v = StaticVpnIp(info[route[v]].sender)

(* NoLeakedAttempt: a session whose tag did not validate does not outlive  *)
(* the attempt that created it, whatever the workers do concurrently       *)
(* (gateway.rs, the PSK loop of handle_packet).                            *)
NoLeakedAttempt ==
  \A s \in live : info[s].valid \/ \E w \in Workers : job[w] # None /\ job[w].sid = s

(* OtherClientsUntouched: with a client database, a handshake removes no   *)
(* established session of another client, on the same public address or    *)
(* not (gateway.rs, "different clients behind the same NAT must coexist"). *)
OtherClientsUntouched ==
  [][useDb => \A w \in Workers, s \in live \ live' :
       sweeping'[w] = s /\ job[w] # None /\ info[s].valid
         => info[s].sender = job[w].sender]_vars

-----------------------------------------------------------------------------
(* The steps of a handshake at which it holds a session of its own. *)
Holding(w) ==
  pc[w] \in {"assign", "route", "validate", "rbRead", "rbRemove", "rbUnroute",
             "collect", "remove"} /\ job[w] # None

(* Worker w's local variables agree with its step: a session of its own    *)
(* exactly while it holds one; an attempt that is rolled back has left the *)
(* table before its route goes.                                            *)
JobOK(w) ==
  /\ pc[w] = "idle" => job[w] = None
  /\ pc[w] \notin {"idle", "remove"} => job[w] # None
  /\ pc[w] \in {"create", "insert", "rbRestore"} => job[w].sid = None
  /\ doomed[w] # {} => pc[w] = "remove"
  /\ pc[w] = "route" => job[w].vpn # None
  /\ pc[w] = "rbUnroute" => job[w].sid \notin live
  /\ Holding(w) =>
       /\ job[w].sid # None
       /\ info[job[w].sid] # None
       /\ job[w].sid \notin doomed[w]
       /\ pc[w] = "assign" => info[job[w].sid].vpn = None
       /\ info[job[w].sid].valid <=> pc[w] \in {"collect", "remove"}

(* No two handshakes hold the same session. *)
SidsDistinct ==
  \A w \in Workers, x \in Workers :
    Holding(w) /\ Holding(x) /\ job[w].sid = job[x].sid => w = x

(* A session in the table has its data; one that is being removed is still *)
(* referred to by the task that removes it, and gone from the table.       *)
TableOK ==
  /\ \A s \in live : info[s] # None
  /\ \A x \in Tasks : sweeping[x] # None => sweeping[x] \in doomed[x] \ live

(* With a client database every validated session has the VPN IP of the    *)
(* client that sent its handshake, a route leads to a session that has     *)
(* that VPN IP, and a worker collects only sessions of its own client's.   *)
WorkerOwnerOK(w) ==
  Holding(w) =>
    /\ info[job[w].sid].sender = job[w].sender
    /\ pc[w] \in {"route", "validate"} =>
         /\ info[job[w].sid].vpn = StaticVpnIp(job[w].try)
         /\ job[w].vpn = StaticVpnIp(job[w].try)
    /\ pc[w] \in {"collect", "remove"} => job[w].vpn = StaticVpnIp(job[w].sender)
    /\ \A s \in doomed[w] \cap live : info[s].vpn = job[w].vpn

OwnerOK ==
  /\ \A s \in live : info[s].valid => info[s].vpn = StaticVpnIp(info[s].sender)
  /\ \A v \in VpnIps : route[v] \in live => info[route[v]].vpn = v
  /\ \A w \in Workers : WorkerOwnerOK(w)

(* IInv: at every point between two map operations of any worker or of the *)
(* clean-up task the table, the workers' references to it and the sessions *)
(* about to be removed agree (session.rs create_session, rollback_failed_  *)
(* session, remove_session; gateway.rs, the PSK loop of handle_packet).    *)
IInv ==
  /\ TypeOK /\ TableOK
  /\ \A w \in Workers : JobOK(w)
  /\ SidsDistinct
  /\ useDb => OwnerOK
  /\ NoLeakedAttempt
=============================================================================
