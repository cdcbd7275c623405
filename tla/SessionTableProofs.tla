------------------------- MODULE SessionTableProofs -------------------------
(***************************************************************************)
(* Proofs about the session table: for any number of workers, clients,     *)
(* addresses and sessions, and for every interleaving of their operations  *)
(* on the maps, no failed attempt is left behind, no handshake removes     *)
(* another client's session, and no VPN IP leads to another client.        *)
(*                                                                         *)
(* The argument: a step of one task leaves the local variables of all      *)
(* others alone and the data of every session they hold (WorkersFramed);   *)
(* what is left of each step is its effect on its own task and the table.  *)
(***************************************************************************)
EXTENDS SessionTable, FiniteSetTheorems, TLAPS

LEMMA NoneNoId == None \notin Ids /\ None \notin VpnIps
BY NoneAssumption, TableAssumption DEF Ids, VpnIps

(* What a held session, a job and the data of a session look like. *)
LEMMA HeldType ==
  ASSUME TypeOK, NEW w \in Workers, JobOK(w), Holding(w)
  PROVE  /\ job[w] \in Jobs /\ job[w].sid \in Ids
         /\ info[job[w].sid] \in Sessions
BY NoneAssumption DEF TypeOK, JobOK, Holding, Jobs

(* Task w leaves the local variables of all other workers alone. *)
OthersSame(w) ==
  \A x \in Workers \ {w} :
    pc'[x] = pc[x] /\ job'[x] = job[x] /\ doomed'[x] = doomed[x]

(* Task w leaves the sessions the others hold alone, but may remove them   *)
(* from the table.                                                         *)
HeldSame(w) ==
  \A x \in Workers \ {w} :
    Holding(x) => /\ info'[job[x].sid] = info[job[x].sid]
                  /\ job[x].sid \notin live => job[x].sid \notin live'

(* Such a step keeps the others' local variables in agreement. *)
LEMMA WorkersFramed ==
  ASSUME IInv, NEW w, OthersSame(w), HeldSame(w)
  PROVE  \A x \in Workers \ {w} : JobOK(x)' /\ (Holding(x)' <=> Holding(x))
<1> SUFFICES ASSUME NEW x \in Workers \ {w}
             PROVE  JobOK(x)' /\ (Holding(x)' <=> Holding(x))
  OBVIOUS
<1>1. JobOK(x) /\ pc'[x] = pc[x] /\ job'[x] = job[x] /\ doomed'[x] = doomed[x]
  BY DEF IInv, OthersSame
<1>2. Holding(x)' <=> Holding(x)
  BY <1>1 DEF Holding
<1>3. Holding(x) => /\ info'[job[x].sid] = info[job[x].sid]
                    /\ job[x].sid \notin live => job[x].sid \notin live'
  BY DEF HeldSame
<1>4. pc[x] = "rbUnroute" => Holding(x)
  BY <1>1 DEF JobOK, Holding
<1>5. QED BY <1>1, <1>2, <1>3, <1>4 DEF JobOK

(* Dropping a reference frees a session only when it is out of the table   *)
(* and nobody else refers to it.                                           *)
LEMMA ForgetKeeps ==
  ASSUME TypeOK, NEW w, NEW s \in Ids, Forget(w, s)
  PROVE  /\ info' \in [Ids -> Sessions \cup {None}]
         /\ \A t \in Ids : t # s \/ t \in live => info'[t] = info[t]
         /\ \A x \in Workers \ {w} : job[x] # None /\ job[x].sid = s => info'[s] = info[s]
BY DEF TypeOK, Forget

(* A worker's sessions to remove are its own client's. *)
LEMMA DoomedOwner ==
  ASSUME IInv, useDb, NEW w \in Workers, Holding(w), NEW s \in doomed[w] \cap live
  PROVE  /\ pc[w] = "remove" /\ info[s].vpn = job[w].vpn
         /\ job[w].vpn = StaticVpnIp(job[w].sender) /\ info[s].vpn # None
<1>1. JobOK(w) /\ WorkerOwnerOK(w) /\ TypeOK
  BY DEF IInv, OwnerOK
<1>2. pc[w] = "remove"
  BY <1>1 DEF JobOK
<1>3. info[s].vpn = job[w].vpn /\ job[w].vpn = StaticVpnIp(job[w].sender)
  BY <1>1, <1>2 DEF WorkerOwnerOK
<1>4. job[w].sender \in Senders
  BY <1>1, HeldType DEF Jobs
<1>5. job[w].vpn \in Nat
  BY <1>3, <1>4, TableAssumption DEF StaticVpnIp, Senders
<1>6. QED BY <1>2, <1>3, <1>5, NoneAssumption

(* No session is new; those that stay keep their sender, their VPN IP once *)
(* they have one, and the validation of their tag.                         *)
SessionsSame ==
  /\ live' \subseteq live
  /\ \A s \in live' :
       /\ info'[s].sender = info[s].sender
       /\ info[s].valid => info'[s].valid
       /\ info[s].vpn # None => info'[s].vpn = info[s].vpn
       /\ useDb /\ info'[s].valid /\ ~ info[s].valid =>
            info'[s].vpn = StaticVpnIp(info'[s].sender)

(* A new route leads to a session that has the VPN IP already. *)
RoutesKept ==
  useDb => \A v \in VpnIps :
             route'[v] \in live' => route'[v] = route[v] \/ info[route'[v]].vpn = v

(* What has to be shown of the task that takes the step. *)
OwnPart(w) ==
  w \in Workers =>
    /\ JobOK(w)'
    /\ useDb => WorkerOwnerOK(w)'
    /\ Holding(w)' => Holding(w) /\ job'[w].sid = job[w].sid
    /\ job[w] # None /\ job[w].sid \in live' =>
         info'[job[w].sid].valid \/ (job'[w] # None /\ job'[w].sid = job[w].sid)

(* The parts that a step without a new session shares with all others.     *)
LEMMA StepKeeps ==
  ASSUME IInv, NEW w, TypeOK', TableOK', useDb' = useDb,
         OthersSame(w), HeldSame(w), SessionsSame, OwnPart(w),
         RoutesKept
  PROVE  IInv'
<1>1. \A x \in Workers \ {w} : JobOK(x)' /\ (Holding(x)' <=> Holding(x))
  BY WorkersFramed
<1>2. \A x \in Workers : JobOK(x)'
  BY <1>1 DEF OwnPart
<1>3. \A x \in Workers : Holding(x)' => Holding(x) /\ job'[x].sid = job[x].sid
  BY <1>1 DEF OwnPart, OthersSame
<1>4. SidsDistinct'
  BY <1>3 DEF IInv, SidsDistinct
<1>5. ASSUME useDb
      PROVE  OwnerOK'
  <2>1. ASSUME NEW s \in live', info'[s].valid
        PROVE  info'[s].vpn = StaticVpnIp(info'[s].sender)
    <3>1. s \in live /\ info[s] \in Sessions
      BY DEF SessionsSame, IInv, TableOK, TypeOK
    <3>2. CASE info[s].valid
      <4>1. info[s].vpn = StaticVpnIp(info[s].sender)
        BY <1>5, <3>1, <3>2 DEF IInv, OwnerOK
      <4>2. info[s].vpn # None
        BY <3>1, <4>1, NoneAssumption, TableAssumption
           DEF Sessions, Senders, StaticVpnIp
      <4>3. QED BY <4>1, <4>2 DEF SessionsSame
    <3>3. CASE ~ info[s].valid
      BY <1>5, <2>1, <3>3 DEF SessionsSame
    <3>4. QED BY <3>2, <3>3
  <2>2. ASSUME NEW x \in Workers
        PROVE  WorkerOwnerOK(x)'
    <3>1. CASE x = w
      BY <1>5, <3>1 DEF OwnPart
    <3>2. CASE x # w
      <4> SUFFICES ASSUME Holding(x)'
                   PROVE  WorkerOwnerOK(x)'
        BY DEF WorkerOwnerOK
      <4>1. Holding(x) /\ WorkerOwnerOK(x)
        BY <1>5, <1>3 DEF IInv, OwnerOK
      <4>2. pc'[x] = pc[x] /\ job'[x] = job[x] /\ doomed'[x] = doomed[x]
        BY <3>2 DEF OthersSame
      <4>3. info'[job[x].sid] = info[job[x].sid]
        BY <3>2, <4>1 DEF HeldSame
      <4>4. ASSUME NEW s \in doomed[x] \cap live'
            PROVE  info'[s].vpn = job[x].vpn
        <5>1. s \in doomed[x] \cap live
          BY DEF SessionsSame
        <5>2. info[s].vpn = job[x].vpn /\ info[s].vpn # None
          BY <1>5, <4>1, <5>1, DoomedOwner
        <5>3. QED BY <5>2 DEF SessionsSame
      <4>5. QED BY <4>1, <4>2, <4>3, <4>4 DEF WorkerOwnerOK
    <3>3. QED BY <3>1, <3>2
  <2>3. ASSUME NEW v \in VpnIps, route'[v] \in live'
        PROVE  info'[route'[v]].vpn = v
    <3>1. route'[v] \in live /\ (route'[v] = route[v] \/ info[route'[v]].vpn = v)
      BY <1>5, <2>3 DEF SessionsSame, RoutesKept
    <3>2. info[route'[v]].vpn = v
      BY <1>5, <3>1 DEF IInv, OwnerOK
    <3>3. QED BY <2>3, <3>2, NoneNoId DEF SessionsSame
  <2>4. QED BY <2>1, <2>2, <2>3 DEF OwnerOK
<1>6. NoLeakedAttempt'
  <2> SUFFICES ASSUME NEW s \in live', ~ info'[s].valid
               PROVE  \E x \in Workers : job'[x] # None /\ job'[x].sid = s
    BY DEF NoLeakedAttempt
  <2>1. s \in live /\ ~ info[s].valid
    BY DEF SessionsSame
  <2>2. PICK x \in Workers : job[x] # None /\ job[x].sid = s
    BY <2>1 DEF IInv, NoLeakedAttempt
  <2>3. job'[x] # None /\ job'[x].sid = s
    BY <2>2 DEF OwnPart, OthersSame
  <2>4. QED BY <2>3
<1>7. QED BY <1>2, <1>4, <1>5, <1>6 DEF IInv

(* The next attempt of a handshake, or its end. *)
LEMMA NextTryKeeps ==
  ASSUME TypeOK, NEW w \in Workers, job[w] \in Jobs, job[w].sid = None, NextTry(w)
  PROVE  /\ pc' \in [Workers -> Steps] /\ job' \in [Workers -> Jobs \cup {None}]
         /\ cooling' \in SUBSET IPs
         /\ \A x \in Workers \ {w} : pc'[x] = pc[x] /\ job'[x] = job[x]
         /\ \/ pc'[w] = "idle" /\ job'[w] = None
            \/ pc'[w] = "create" /\ job'[w] \in Jobs /\ job'[w].sid = None
<1>1. CASE LastTry(w)
  <2>1. /\ pc' = [pc EXCEPT ![w] = "idle"] /\ job' = [job EXCEPT ![w] = None]
        /\ cooling' \in {cooling, cooling \cup {job[w].ip}}
    BY <1>1 DEF NextTry, Goto
  <2>2. job[w].ip \in IPs
    BY DEF Jobs
  <2>3. QED BY <2>1, <2>2 DEF TypeOK, Steps
<1>2. CASE ~ LastTry(w)
  <2> DEFINE j == [job[w] EXCEPT !.try = @ + 1, !.sid = None, !.vpn = None]
  <2>1. /\ pc' = [pc EXCEPT ![w] = "create"] /\ cooling' = cooling
        /\ job' = [job EXCEPT ![w] = j]
    BY <1>2 DEF NextTry, Goto, TypeOK
  <2>2. job[w].try \in Clients /\ job[w].try # NumClients
    BY <1>2 DEF LastTry, Jobs
  <2>3. job[w].try + 1 \in Clients
    BY <2>2, TableAssumption DEF Clients
  <2>4. j \in Jobs /\ j.sid = None
    BY <2>3 DEF Jobs
  <2>5. QED BY <2>1, <2>4 DEF TypeOK, Steps
<1>3. QED BY <1>1, <1>2

-----------------------------------------------------------------------------
(* The steps of a handshake, one lemma each. *)
LEMMA BeginKeeps ==
  ASSUME IInv, NEW w \in Workers, NEW c \in Senders, NEW ip \in IPs, Begin(w, c, ip)
  PROVE  IInv'
<1> DEFINE j == [sender |-> c, ip |-> ip, try |-> 1, reused |-> None,
                 sid |-> None, vpn |-> None]
<1>1. /\ pc[w] = "idle" /\ pc' = [pc EXCEPT ![w] = "create"]
      /\ job' = [job EXCEPT ![w] = j]
      /\ UNCHANGED <<useDb, live, info, route, nextVpn, cooling, doomed, sweeping>>
  BY DEF Begin, Goto, table
<1>2. j \in Jobs /\ j # None
  BY NoneAssumption, TableAssumption DEF Jobs, Clients
<1>3. TypeOK' /\ TableOK'
  BY <1>1, <1>2 DEF IInv, TypeOK, TableOK, Steps
<1>4. OthersSame(w) /\ HeldSame(w) /\ SessionsSame
  BY <1>1 DEF OthersSame, HeldSame, SessionsSame, IInv, TypeOK
<1>5. pc'[w] = "create" /\ job'[w] = j /\ job[w] = None /\ doomed[w] = {}
  BY <1>1 DEF IInv, TypeOK, JobOK
<1>6. OwnPart(w)
  BY <1>1, <1>2, <1>5 DEF OwnPart, JobOK, WorkerOwnerOK, Holding
<1>7. RoutesKept
  BY <1>1 DEF RoutesKept
<1>8. QED BY <1>1, <1>3, <1>4, <1>6, <1>7, StepKeeps

LEMMA CreateKeeps ==
  ASSUME IInv, NEW w \in Workers, Create(w)
  PROVE  IInv'
<1>0. /\ pc[w] = "create" /\ job[w] \in Jobs /\ job[w].sid = None /\ doomed[w] = {}
      /\ UNCHANGED <<useDb, live, info, route, nextVpn, doomed, sweeping>>
  BY DEF Create, table, IInv, TypeOK, JobOK
<1>1. CASE LimitReached(job[w].ip)
  <2>1. NextTry(w) /\ TypeOK
    BY <1>1 DEF Create, IInv
  <2>2. /\ pc' \in [Workers -> Steps] /\ job' \in [Workers -> Jobs \cup {None}]
        /\ cooling' \in SUBSET IPs
        /\ \A x \in Workers \ {w} : pc'[x] = pc[x] /\ job'[x] = job[x]
        /\ \/ pc'[w] = "idle" /\ job'[w] = None
           \/ pc'[w] = "create" /\ job'[w] \in Jobs /\ job'[w].sid = None
    BY <1>0, <2>1, NextTryKeeps
  <2>3. TypeOK' /\ TableOK'
    BY <1>0, <2>2 DEF IInv, TypeOK, TableOK
  <2>4. OthersSame(w) /\ HeldSame(w) /\ SessionsSame
    BY <1>0, <2>2 DEF OthersSame, HeldSame, SessionsSame
  <2>5. OwnPart(w)
    <3>1. job[w].sid \notin live'
      BY <1>0, NoneNoId DEF IInv, TypeOK
    <3>2. QED
      BY <1>0, <2>2, <3>1, NoneAssumption DEF OwnPart, JobOK, WorkerOwnerOK, Holding
  <2>6. RoutesKept
    BY <1>0 DEF RoutesKept
  <2>7. QED BY <1>0, <2>3, <2>4, <2>5, <2>6, StepKeeps
<1>2. CASE ~ LimitReached(job[w].ip)
  <2>1. PICK r \in Reusable(job[w].ip) : job' = [job EXCEPT ![w].reused = r]
    BY <1>2 DEF Create
  <2>2. pc' = [pc EXCEPT ![w] = "insert"] /\ cooling' = cooling
    BY <1>2 DEF Create, Goto
  <2>3. r \in VpnIps \cup {None}
    BY DEF Reusable, SessionsAt, IInv, TypeOK, TableOK, Sessions
  <2>4. /\ job'[w] \in Jobs /\ job'[w].sid = None /\ job'[w].ip = job[w].ip
        /\ \A x \in Workers \ {w} : job'[x] = job[x]
        /\ job' \in [Workers -> Jobs \cup {None}]
    BY <1>0, <2>1, <2>3 DEF IInv, TypeOK, Jobs
  <2>5. TypeOK' /\ TableOK'
    BY <1>0, <2>2, <2>4 DEF IInv, TypeOK, TableOK, Steps
  <2>6. OthersSame(w) /\ HeldSame(w) /\ SessionsSame /\ pc'[w] = "insert"
    BY <1>0, <2>2, <2>4 DEF OthersSame, HeldSame, SessionsSame, IInv, TypeOK
  <2>7. OwnPart(w)
    BY <1>0, <2>4, <2>6, NoneAssumption
       DEF OwnPart, JobOK, WorkerOwnerOK, Holding
  <2>8. RoutesKept
    BY <1>0 DEF RoutesKept
  <2>9. QED BY <1>0, <2>5, <2>6, <2>7, <2>8, StepKeeps
<1>3. QED BY <1>1, <1>2

(* The id of a new session is in use nowhere. *)
LEMMA FreshIdUnused ==
  ASSUME IInv, FreshIds # {}
  PROVE  /\ FreshId \in Ids /\ FreshId \notin live
         /\ \A x \in Workers : job[x] # None => job[x].sid # FreshId
         /\ \A x \in Tasks : FreshId \notin doomed[x]
         /\ \A v \in VpnIps : route[v] # FreshId
<1>1. FreshId \in FreshIds
  BY DEF FreshId
<1>2. QED BY <1>1 DEF FreshIds

(* The only step that adds a session to the table. *)
LEMMA InsertKeeps ==
  ASSUME IInv, NEW w \in Workers, Insert(w)
  PROVE  IInv'
<1> DEFINE f == FreshId
           r == [ip |-> job[w].ip, vpn |-> None, sender |-> job[w].sender, valid |-> FALSE]
<1>0. /\ pc[w] = "insert" /\ job[w] \in Jobs /\ job[w].sid = None /\ doomed[w] = {}
      /\ UNCHANGED <<useDb, route, nextVpn, cooling, doomed, sweeping>>
      /\ job[w] # None /\ TypeOK
  BY DEF Insert, IInv, TypeOK, JobOK
<1>1. /\ f \in Ids /\ f \notin live
      /\ \A x \in Workers : job[x] # None => job[x].sid # f
      /\ \A x \in Tasks : f \notin doomed[x]
      /\ \A v \in VpnIps : route[v] # f
  BY FreshIdUnused DEF Insert
<1>2. r \in Sessions /\ r # None
  <2>1. job[w].ip \in IPs /\ job[w].sender \in Senders
    BY <1>0 DEF Jobs
  <2>2. r \in Sessions
    BY <2>1 DEF Sessions
  <2>3. QED BY <2>2, NoneAssumption
<1>3. /\ live' = live \cup {f}
      /\ info' \in [Ids -> Sessions \cup {None}] /\ info'[f] = r
      /\ \A s \in Ids \ {f} : info'[s] = info[s]
  <2>1. live' = live \cup {f} /\ info' = [s \in Ids |-> IF s = f THEN r ELSE info[s]]
    BY DEF Insert
  <2>2. QED BY <1>0, <1>1, <1>2, <2>1 DEF TypeOK
<1>4. /\ job' \in [Workers -> Jobs \cup {None}] /\ job'[w] \in Jobs
      /\ job'[w].sid = f /\ job'[w].sender = job[w].sender
      /\ \A x \in Workers \ {w} : job'[x] = job[x]
  BY <1>0, <1>1 DEF Insert, TypeOK, Jobs
<1>5. pc' = [pc EXCEPT ![w] = "assign"]
  BY DEF Insert, Goto
<1>6. TypeOK'
  BY <1>0, <1>1, <1>3, <1>4, <1>5 DEF TypeOK, Steps
<1>7. TableOK'
  <2>1. \A s \in live' : info'[s] # None
    BY <1>0, <1>2, <1>3 DEF IInv, TableOK, TypeOK
  <2>2. \A x \in Tasks : sweeping'[x] # None => sweeping'[x] \in doomed'[x] \ live'
    BY <1>0, <1>1, <1>3 DEF IInv, TableOK
  <2>3. QED BY <2>1, <2>2 DEF TableOK
<1>8. OthersSame(w) /\ pc'[w] = "assign"
  BY <1>0, <1>4, <1>5 DEF OthersSame, TypeOK
<1>9. HeldSame(w)
  <2> SUFFICES ASSUME NEW x \in Workers \ {w}, Holding(x)
               PROVE  /\ info'[job[x].sid] = info[job[x].sid]
                      /\ job[x].sid \notin live => job[x].sid \notin live'
    BY DEF HeldSame
  <2>1. JobOK(x) /\ job[x] # None
    BY DEF IInv, Holding
  <2>2. job[x].sid \in Ids \ {f}
    BY <1>0, <1>1, <2>1, HeldType
  <2>3. QED BY <1>3, <2>2
<1>10. \A x \in Workers \ {w} : JobOK(x)' /\ (Holding(x)' <=> Holding(x))
  BY <1>8, <1>9, WorkersFramed
<1>11. JobOK(w)' /\ Holding(w)'
  BY <1>0, <1>1, <1>2, <1>3, <1>4, <1>8, NoneAssumption, NoneNoId DEF JobOK, Holding
<1>12. SidsDistinct'
  <2> SUFFICES ASSUME NEW x \in Workers, NEW y \in Workers,
                      Holding(x)', Holding(y)', job'[x].sid = job'[y].sid
               PROVE  x = y
    BY DEF SidsDistinct
  <2>1. \A z \in Workers \ {w} : Holding(z)' => Holding(z) /\ job'[z].sid # f
    BY <1>1, <1>4, <1>10 DEF Holding
  <2>2. CASE x = w \/ y = w
    BY <1>4, <2>1, <2>2
  <2>3. CASE x # w /\ y # w
    BY <1>4, <2>1, <2>3 DEF IInv, SidsDistinct
  <2>4. QED BY <2>2, <2>3
<1>13. ASSUME useDb PROVE OwnerOK'
  <2>1. \A s \in live' : info'[s].valid => info'[s].vpn = StaticVpnIp(info'[s].sender)
    BY <1>0, <1>1, <1>3, <1>13 DEF IInv, OwnerOK, TypeOK
  <2>2. WorkerOwnerOK(w)'
    BY <1>0, <1>3, <1>4, <1>8 DEF WorkerOwnerOK
  <2>3. ASSUME NEW x \in Workers \ {w} PROVE WorkerOwnerOK(x)'
    <3> SUFFICES ASSUME Holding(x)' PROVE WorkerOwnerOK(x)'
      BY DEF WorkerOwnerOK
    <3>1. Holding(x) /\ WorkerOwnerOK(x)
      BY <1>10, <1>13 DEF IInv, OwnerOK
    <3>2. pc'[x] = pc[x] /\ job'[x] = job[x] /\ doomed'[x] = doomed[x]
          /\ info'[job[x].sid] = info[job[x].sid]
      BY <1>8, <1>9, <3>1 DEF OthersSame, HeldSame
    <3>3. \A s \in doomed[x] \cap live' : s \in live /\ info'[s] = info[s]
      BY <1>0, <1>1, <1>3 DEF TypeOK, Tasks
    <3>4. QED BY <3>1, <3>2, <3>3 DEF WorkerOwnerOK
  <2>4. \A v \in VpnIps : route'[v] \in live' => info'[route'[v]].vpn = v
    <3>1. \A v \in VpnIps : route'[v] \in live' => route[v] \in live /\ route[v] # f
      BY <1>0, <1>1, <1>3
    <3>2. QED BY <1>0, <1>3, <1>13, <3>1 DEF IInv, OwnerOK, TypeOK
  <2>5. QED BY <2>1, <2>2, <2>3, <2>4 DEF OwnerOK
<1>14. NoLeakedAttempt'
  <2> SUFFICES ASSUME NEW s \in live', ~ info'[s].valid
               PROVE  \E x \in Workers : job'[x] # None /\ job'[x].sid = s
    BY DEF NoLeakedAttempt
  <2>1. CASE s = f
    BY <1>4, <2>1, NoneAssumption
  <2>2. CASE s # f
    <3>1. s \in live /\ ~ info[s].valid
      BY <1>0, <1>3, <2>2 DEF TypeOK
    <3>2. PICK x \in Workers : job[x] # None /\ job[x].sid = s
      BY <3>1 DEF IInv, NoLeakedAttempt
    <3>3. x # w
      BY <1>0, <3>1, <3>2, NoneNoId DEF TypeOK
    <3>4. QED BY <1>4, <3>2, <3>3
  <2>3. QED BY <2>1, <2>2
<1>15. QED
  BY <1>0, <1>6, <1>7, <1>10, <1>11, <1>12, <1>13, <1>14 DEF IInv

(* A worker that changes only the data of the session it holds leaves the  *)
(* sessions of the others alone.                                           *)
LEMMA OwnSessionOnly ==
  ASSUME IInv, NEW w \in Workers, Holding(w), live' = live,
         \A s \in Ids \ {job[w].sid} : info'[s] = info[s]
  PROVE  HeldSame(w)
<1> SUFFICES ASSUME NEW x \in Workers \ {w}, Holding(x)
             PROVE  info'[job[x].sid] = info[job[x].sid]
  BY DEF HeldSame
<1>1. job[x].sid \in Ids
  BY HeldType DEF IInv
<1>2. job[x].sid # job[w].sid
  BY DEF IInv, SidsDistinct
<1>3. QED BY <1>1, <1>2

LEMMA AssignKeeps ==
  ASSUME IInv, NEW w \in Workers, Assign(w)
  PROVE  IInv'
<1> DEFINE auto == ~ useDb /\ job[w].reused = None
           v    == IF useDb THEN StaticVpnIp(job[w].try)
                   ELSE IF ~ auto THEN job[w].reused ELSE AutoVpnIp
           sid  == job[w].sid
<1>0. TypeOK /\ JobOK(w) /\ pc[w] = "assign" /\ Holding(w) /\ doomed[w] = {}
  BY DEF Assign, IInv, JobOK, Holding
<1>1. job[w] \in Jobs /\ sid \in Ids /\ info[sid] \in Sessions
  BY <1>0, HeldType
<1>2. /\ nextVpn' = IF auto /\ nextVpn <= MaxVpnIp THEN nextVpn + 1 ELSE nextVpn
      /\ info' = [info EXCEPT ![sid] = [info[sid] EXCEPT !.vpn = v]]
      /\ job' = [job EXCEPT ![w] = [job[w] EXCEPT !.vpn = v]]
      /\ pc' = [pc EXCEPT ![w] = IF v = None THEN "validate" ELSE "route"]
      /\ UNCHANGED <<useDb, live, route, cooling, doomed, sweeping>>
  BY DEF Assign, Goto
<1>3. v \in VpnIps \cup {None} /\ (useDb => v = StaticVpnIp(job[w].try) /\ v # None)
  <2>1. job[w].try \in Clients /\ job[w].reused \in VpnIps \cup {None}
    BY <1>1 DEF Jobs
  <2>2. useDb => StaticVpnIp(job[w].try) \in VpnIps
    BY <1>0, <2>1, StaticAssumption, TableAssumption DEF TypeOK
  <2>3. AutoVpnIp \in VpnIps \cup {None}
    BY <1>0, TableAssumption DEF AutoVpnIp, TypeOK, VpnIps
  <2>4. QED BY <2>1, <2>2, <2>3, NoneNoId
<1> HIDE DEF v
<1>4. nextVpn' \in 1 .. (MaxVpnIp + 1)
  BY <1>0, <1>2, TableAssumption DEF TypeOK
<1>5. /\ info' \in [Ids -> Sessions \cup {None}] /\ info'[sid] \in Sessions
      /\ info'[sid].vpn = v /\ info'[sid].ip = info[sid].ip
      /\ info'[sid].sender = info[sid].sender /\ info'[sid].valid = info[sid].valid
      /\ \A s \in Ids \ {sid} : info'[s] = info[s]
  BY <1>0, <1>1, <1>2, <1>3 DEF TypeOK, Sessions
<1>6. /\ job' \in [Workers -> Jobs \cup {None}] /\ job'[w] \in Jobs
      /\ job'[w].sid = sid /\ job'[w].vpn = v /\ job'[w].sender = job[w].sender
      /\ job'[w].try = job[w].try
      /\ \A x \in Workers \ {w} : job'[x] = job[x]
  BY <1>0, <1>1, <1>2, <1>3 DEF TypeOK, Jobs
<1>7. /\ pc' \in [Workers -> Steps] /\ pc'[w] \in {"validate", "route"}
      /\ pc'[w] = "route" => v # None
      /\ \A x \in Workers \ {w} : pc'[x] = pc[x]
  BY <1>0, <1>2 DEF TypeOK, Steps
<1>8. TypeOK'
  BY <1>0, <1>2, <1>4, <1>5, <1>6, <1>7 DEF TypeOK
<1>9. TableOK'
  BY <1>0, <1>1, <1>2, <1>5, NoneAssumption DEF IInv, TableOK, TypeOK
<1>10. OthersSame(w) /\ HeldSame(w)
  BY <1>0, <1>2, <1>5, <1>6, <1>7, OwnSessionOnly DEF OthersSame
<1>11. info[sid].vpn = None /\ ~ info[sid].valid
  BY <1>0 DEF JobOK
<1>12. SessionsSame
  BY <1>0, <1>2, <1>5, <1>11 DEF SessionsSame, TypeOK
<1>13. OwnPart(w)
  <2>1. job'[w] # None /\ info'[sid] # None
    BY <1>5, <1>6, NoneAssumption
  <2>2. JobOK(w)'
    BY <1>0, <1>1, <1>2, <1>5, <1>6, <1>7, <1>11, <2>1, NoneNoId DEF JobOK, Holding
  <2>3. useDb => WorkerOwnerOK(w)'
    BY <1>0, <1>2, <1>3, <1>5, <1>6, <1>7 DEF WorkerOwnerOK, IInv, OwnerOK
  <2>4. QED BY <1>0, <1>6, <2>1, <2>2, <2>3 DEF OwnPart
<1>14. RoutesKept
  BY <1>2 DEF RoutesKept
<1>15. QED BY <1>2, <1>8, <1>9, <1>10, <1>12, <1>13, <1>14, StepKeeps

LEMMA RouteKeeps ==
  ASSUME IInv, NEW w \in Workers, Route(w)
  PROVE  IInv'
<1>0. TypeOK /\ JobOK(w) /\ pc[w] = "route" /\ Holding(w) /\ doomed[w] = {}
  BY DEF Route, IInv, JobOK, Holding
<1>1. job[w] \in Jobs /\ job[w].sid \in Ids
  BY <1>0, HeldType
<1>2. /\ route' = [route EXCEPT ![job[w].vpn] = job[w].sid]
      /\ pc' = [pc EXCEPT ![w] = "validate"]
      /\ UNCHANGED <<useDb, live, info, nextVpn, cooling, job, doomed, sweeping>>
  BY DEF Route, Goto
<1>3. TypeOK' /\ TableOK'
  BY <1>0, <1>1, <1>2 DEF IInv, TypeOK, TableOK, Steps
<1>4. OthersSame(w) /\ HeldSame(w) /\ SessionsSame /\ pc'[w] = "validate"
  BY <1>0, <1>2 DEF OthersSame, HeldSame, SessionsSame, TypeOK
<1>5. OwnPart(w)
  BY <1>0, <1>2, <1>4 DEF OwnPart, JobOK, Holding, WorkerOwnerOK, IInv, OwnerOK
<1>6. RoutesKept
  <2>1. useDb => info[job[w].sid].vpn = job[w].vpn
    BY <1>0 DEF IInv, OwnerOK, WorkerOwnerOK
  <2>2. QED BY <1>0, <1>2, <2>1 DEF RoutesKept, TypeOK
<1>7. QED BY <1>2, <1>3, <1>4, <1>5, <1>6, StepKeeps

LEMMA ValidateKeeps ==
  ASSUME IInv, NEW w \in Workers, Validate(w)
  PROVE  IInv'
<1> DEFINE sid == job[w].sid
<1>0. TypeOK /\ JobOK(w) /\ pc[w] = "validate" /\ Holding(w) /\ doomed[w] = {}
      /\ UNCHANGED <<useDb, live, route, nextVpn, cooling, job, doomed, sweeping>>
  BY DEF Validate, IInv, JobOK, Holding
<1>1. job[w] \in Jobs /\ sid \in Ids /\ info[sid] \in Sessions /\ ~ info[sid].valid
  BY <1>0, HeldType DEF JobOK
<1>2. CASE Matches(w)
  <2>1. /\ info' = [info EXCEPT ![sid] = [info[sid] EXCEPT !.valid = TRUE]]
        /\ pc' = [pc EXCEPT ![w] = "collect"]
    BY <1>2 DEF Validate, Goto
  <2>2. /\ info' \in [Ids -> Sessions \cup {None}] /\ info'[sid] \in Sessions
        /\ info'[sid].valid /\ info'[sid].vpn = info[sid].vpn
        /\ info'[sid].ip = info[sid].ip /\ info'[sid].sender = info[sid].sender
        /\ \A s \in Ids \ {sid} : info'[s] = info[s]
    BY <1>0, <1>1, <2>1 DEF TypeOK, Sessions
  <2>3. TypeOK'
    BY <1>0, <2>1, <2>2 DEF TypeOK, Steps
  <2>4. TableOK'
    BY <1>0, <1>1, <2>2, NoneAssumption DEF IInv, TableOK, TypeOK
  <2>5. OthersSame(w) /\ HeldSame(w) /\ pc'[w] = "collect"
    BY <1>0, <2>1, <2>2, OwnSessionOnly DEF OthersSame, TypeOK
  <2>6. useDb => /\ job[w].sender = job[w].try /\ info[sid].sender = job[w].sender
                 /\ info[sid].vpn = StaticVpnIp(job[w].try)
                 /\ job[w].vpn = StaticVpnIp(job[w].try)
    BY <1>0, <1>2 DEF Matches, IInv, OwnerOK, WorkerOwnerOK
  <2>7. SessionsSame
    BY <1>0, <2>2, <2>6 DEF SessionsSame, TypeOK
  <2>8. OwnPart(w)
    <3>1. info'[sid] # None
      BY <2>2, NoneAssumption
    <3>2. JobOK(w)'
      BY <1>0, <1>1, <2>2, <2>5, <3>1 DEF JobOK, Holding
    <3>3. useDb => WorkerOwnerOK(w)'
      BY <1>0, <2>2, <2>5, <2>6 DEF WorkerOwnerOK
    <3>4. QED BY <1>0, <3>2, <3>3 DEF OwnPart
  <2>9. RoutesKept
    BY <1>0 DEF RoutesKept
  <2>10. QED BY <1>0, <2>3, <2>4, <2>5, <2>7, <2>8, <2>9, StepKeeps
<1>3. CASE ~ Matches(w)
  <2>1. info' = info /\ pc' = [pc EXCEPT ![w] = "rbRead"]
    BY <1>3 DEF Validate, Goto
  <2>2. TypeOK' /\ TableOK'
    BY <1>0, <2>1 DEF IInv, TypeOK, TableOK, Steps
  <2>3. OthersSame(w) /\ HeldSame(w) /\ SessionsSame /\ pc'[w] = "rbRead"
    BY <1>0, <2>1 DEF OthersSame, HeldSame, SessionsSame, TypeOK
  <2>4. OwnPart(w)
    BY <1>0, <2>1, <2>3 DEF OwnPart, JobOK, Holding, WorkerOwnerOK, IInv, OwnerOK
  <2>5. RoutesKept
    BY <1>0 DEF RoutesKept
  <2>6. QED BY <1>0, <2>1, <2>2, <2>3, <2>4, <2>5, StepKeeps
<1>4. QED BY <1>2, <1>3

LEMMA RollbackReadKeeps ==
  ASSUME IInv, NEW w \in Workers, RollbackRead(w)
  PROVE  IInv'
<1> DEFINE sid == job[w].sid
           v   == IF sid \in live THEN info[sid].vpn ELSE None
<1>0. TypeOK /\ JobOK(w) /\ pc[w] = "rbRead" /\ Holding(w) /\ doomed[w] = {}
      /\ UNCHANGED <<useDb, live, info, route, nextVpn, cooling, doomed, sweeping>>
  BY DEF RollbackRead, table, IInv, JobOK, Holding
<1>1. job[w] \in Jobs /\ sid \in Ids /\ info[sid] \in Sessions
  BY <1>0, HeldType
<1>2. /\ job' = [job EXCEPT ![w] = [job[w] EXCEPT !.vpn = v]]
      /\ pc' = [pc EXCEPT ![w] = "rbRemove"]
  BY DEF RollbackRead, Goto
<1>3. v \in VpnIps \cup {None}
  BY <1>1 DEF Sessions
<1> HIDE DEF v
<1>4. /\ job' \in [Workers -> Jobs \cup {None}] /\ job'[w] \in Jobs
      /\ job'[w].sid = sid /\ job'[w].sender = job[w].sender
      /\ \A x \in Workers \ {w} : job'[x] = job[x]
  BY <1>0, <1>1, <1>2, <1>3 DEF TypeOK, Jobs
<1>5. TypeOK' /\ TableOK'
  BY <1>0, <1>2, <1>4 DEF IInv, TypeOK, TableOK, Steps
<1>6. OthersSame(w) /\ HeldSame(w) /\ SessionsSame /\ pc'[w] = "rbRemove"
  BY <1>0, <1>2, <1>4 DEF OthersSame, HeldSame, SessionsSame, TypeOK
<1>7. OwnPart(w)
  <2>1. job'[w] # None
    BY <1>4, NoneAssumption
  <2>2. QED
    BY <1>0, <1>4, <1>6, <2>1 DEF OwnPart, JobOK, Holding, WorkerOwnerOK, IInv, OwnerOK
<1>8. RoutesKept
  BY <1>0 DEF RoutesKept
<1>9. QED BY <1>0, <1>5, <1>6, <1>7, <1>8, StepKeeps

(* A worker that drops its reference to session s leaves the sessions of   *)
(* the others alone, and those in the table.                               *)
LEMMA ForgetFrames ==
  ASSUME IInv, NEW w, NEW s \in Ids, Forget(w, s), live' \subseteq live
  PROVE  /\ HeldSame(w)
         /\ info' \in [Ids -> Sessions \cup {None}]
         /\ \A t \in live : info'[t] = info[t]
         /\ \A t \in Ids : t # s => info'[t] = info[t]
<1>1. /\ info' \in [Ids -> Sessions \cup {None}]
      /\ \A t \in Ids : t # s \/ t \in live => info'[t] = info[t]
      /\ \A x \in Workers \ {w} : job[x] # None /\ job[x].sid = s => info'[s] = info[s]
  BY ForgetKeeps DEF IInv
<1>2. HeldSame(w)
  <2> SUFFICES ASSUME NEW x \in Workers \ {w}, Holding(x)
               PROVE  info'[job[x].sid] = info[job[x].sid]
    BY DEF HeldSame
  <2>1. job[x].sid \in Ids /\ job[x] # None
    BY HeldType DEF IInv, Holding
  <2>2. QED BY <1>1, <2>1
<1>3. QED BY <1>1, <1>2 DEF IInv, TypeOK

(* The end of a rollback's work on its own session. *)
LEMMA ReleaseKeeps ==
  ASSUME IInv, NEW w \in Workers, Holding(w), pc[w] \in {"rbRemove", "rbUnroute"},
         live' = live, job[w].sid \notin live,
         Forget(w, job[w].sid),
         job' = [job EXCEPT ![w].sid = None], pc' = [pc EXCEPT ![w] = "rbRestore"],
         route' \in [VpnIps -> Ids \cup {None}], RoutesKept,
         UNCHANGED <<useDb, nextVpn, cooling, doomed, sweeping>>
  PROVE  IInv'
<1>0. TypeOK /\ JobOK(w) /\ doomed[w] = {}
  BY DEF IInv, JobOK
<1>1. job[w] \in Jobs /\ job[w].sid \in Ids
  BY <1>0, HeldType
<1>2. /\ HeldSame(w) /\ info' \in [Ids -> Sessions \cup {None}]
      /\ \A t \in live : info'[t] = info[t]
  BY <1>1, ForgetFrames
<1>3. /\ job' \in [Workers -> Jobs \cup {None}] /\ job'[w] \in Jobs
      /\ job'[w].sid = None
      /\ \A x \in Workers \ {w} : job'[x] = job[x]
  BY <1>0, <1>1 DEF TypeOK, Jobs
<1>4. TypeOK'
  BY <1>0, <1>2, <1>3 DEF TypeOK, Steps
<1>5. TableOK'
  BY <1>2 DEF IInv, TableOK
<1>6. OthersSame(w) /\ SessionsSame /\ pc'[w] = "rbRestore"
  BY <1>0, <1>2, <1>3 DEF OthersSame, SessionsSame, TypeOK
<1>7. OwnPart(w)
  <2>1. job'[w] # None
    BY <1>3, NoneAssumption
  <2>2. QED BY <1>0, <1>3, <1>6, <2>1 DEF OwnPart, JobOK, Holding, WorkerOwnerOK
<1>8. QED BY <1>2, <1>4, <1>5, <1>6, <1>7, StepKeeps

LEMMA RollbackRemoveKeeps ==
  ASSUME IInv, NEW w \in Workers, RollbackRemove(w)
  PROVE  IInv'
<1>0. TypeOK /\ JobOK(w) /\ pc[w] = "rbRemove" /\ Holding(w) /\ doomed[w] = {}
      /\ live' = live \ {job[w].sid}
      /\ UNCHANGED <<useDb, route, nextVpn, cooling, doomed, sweeping>>
  BY DEF RollbackRemove, IInv, JobOK, Holding
<1>1. CASE job[w].sid \in live
  <2>1. pc' = [pc EXCEPT ![w] = "rbUnroute"] /\ info' = info /\ job' = job
    BY <1>1 DEF RollbackRemove, Goto
  <2>2. TypeOK' /\ TableOK'
    BY <1>0, <2>1 DEF IInv, TypeOK, TableOK, Steps
  <2>3. OthersSame(w) /\ HeldSame(w) /\ SessionsSame /\ pc'[w] = "rbUnroute"
    BY <1>0, <2>1 DEF OthersSame, HeldSame, SessionsSame, TypeOK
  <2>4. OwnPart(w)
    BY <1>0, <2>1, <2>3 DEF OwnPart, JobOK, Holding, WorkerOwnerOK, IInv, OwnerOK
  <2>5. RoutesKept
    BY <1>0 DEF RoutesKept
  <2>6. QED BY <1>0, <2>2, <2>3, <2>4, <2>5, StepKeeps
<1>2. CASE job[w].sid \notin live
  <2>1. /\ pc' = [pc EXCEPT ![w] = "rbRestore"] /\ Forget(w, job[w].sid)
        /\ job' = [job EXCEPT ![w].sid = None] /\ live' = live
    BY <1>0, <1>2 DEF RollbackRemove, Goto
  <2>2. route' \in [VpnIps -> Ids \cup {None}] /\ RoutesKept
    BY <1>0 DEF TypeOK, RoutesKept
  <2>3. QED BY <1>0, <1>2, <2>1, <2>2, ReleaseKeeps
<1>3. QED BY <1>1, <1>2

LEMMA RouteWithoutKeeps ==
  ASSUME TypeOK, live' \subseteq live, NEW s, route' = RouteWithout(s)
  PROVE  route' \in [VpnIps -> Ids \cup {None}] /\ RoutesKept
<1>1. \A v \in VpnIps : route'[v] \in {route[v], None}
  BY DEF RouteWithout
<1>2. None \notin live'
  BY NoneNoId DEF TypeOK
<1>3. QED BY <1>1, <1>2 DEF TypeOK, RouteWithout, RoutesKept

LEMMA RollbackUnrouteKeeps ==
  ASSUME IInv, NEW w \in Workers, RollbackUnroute(w)
  PROVE  IInv'
<1>0. TypeOK /\ JobOK(w) /\ pc[w] = "rbUnroute" /\ Holding(w)
      /\ job[w].sid \notin live
  BY DEF RollbackUnroute, IInv, JobOK, Holding
<1>1. route' \in [VpnIps -> Ids \cup {None}] /\ RoutesKept
  BY <1>0, RouteWithoutKeeps DEF RollbackUnroute
<1>2. QED BY <1>0, <1>1, ReleaseKeeps DEF RollbackUnroute, Goto

LEMMA RollbackRestoreKeeps ==
  ASSUME IInv, NEW w \in Workers, RollbackRestore(w)
  PROVE  IInv'
<1>0. TypeOK /\ JobOK(w) /\ pc[w] = "rbRestore" /\ job[w] \in Jobs
      /\ job[w].sid = None /\ doomed[w] = {} /\ NextTry(w)
      /\ UNCHANGED <<useDb, live, info, nextVpn, doomed, sweeping>>
  BY DEF RollbackRestore, IInv, TypeOK, JobOK
<1>1. route' \in [VpnIps -> Ids \cup {None}] /\ RoutesKept
  <2>1. \/ route' = route
        \/ \E s \in live : /\ info[s].vpn = job[w].vpn
                           /\ route' = [route EXCEPT ![job[w].vpn] = s]
    BY DEF RollbackRestore, SessionsWith
  <2>2. QED BY <1>0, <2>1 DEF TypeOK, RoutesKept
<1>2. /\ pc' \in [Workers -> Steps] /\ job' \in [Workers -> Jobs \cup {None}]
      /\ cooling' \in SUBSET IPs
      /\ \A x \in Workers \ {w} : pc'[x] = pc[x] /\ job'[x] = job[x]
      /\ \/ pc'[w] = "idle" /\ job'[w] = None
         \/ pc'[w] = "create" /\ job'[w] \in Jobs /\ job'[w].sid = None
  BY <1>0, NextTryKeeps
<1>3. TypeOK' /\ TableOK'
  BY <1>0, <1>1, <1>2 DEF IInv, TypeOK, TableOK
<1>4. OthersSame(w) /\ HeldSame(w) /\ SessionsSame
  BY <1>0, <1>2 DEF OthersSame, HeldSame, SessionsSame
<1>5. OwnPart(w)
  <2>1. job[w].sid \notin live'
    BY <1>0, NoneNoId DEF TypeOK
  <2>2. QED
    BY <1>0, <1>2, <2>1, NoneAssumption DEF OwnPart, JobOK, WorkerOwnerOK, Holding
<1>6. QED BY <1>0, <1>1, <1>3, <1>4, <1>5, StepKeeps

LEMMA CollectKeeps ==
  ASSUME IInv, NEW w \in Workers, Collect(w)
  PROVE  IInv'
<1> DEFINE D == IF job[w].vpn = None THEN {} ELSE SessionsWith(job[w].vpn) \ {job[w].sid}
<1>0. TypeOK /\ JobOK(w) /\ pc[w] = "collect" /\ Holding(w) /\ doomed[w] = {}
      /\ UNCHANGED <<useDb, live, info, route, nextVpn, cooling, job, sweeping>>
  BY DEF Collect, table, IInv, JobOK, Holding
<1>1. doomed' = [doomed EXCEPT ![w] = D] /\ pc' = [pc EXCEPT ![w] = "remove"]
  BY DEF Collect, Goto
<1>2. D \subseteq live /\ job[w].sid \notin D /\ \A s \in D : info[s].vpn = job[w].vpn
  BY DEF SessionsWith
<1> HIDE DEF D
<1>3. TypeOK'
  BY <1>0, <1>1, <1>2 DEF TypeOK, Steps
<1>4. /\ OthersSame(w) /\ HeldSame(w) /\ SessionsSame
      /\ pc'[w] = "remove" /\ doomed'[w] = D
      /\ \A x \in Tasks \ {w} : doomed'[x] = doomed[x]
  BY <1>0, <1>1 DEF OthersSame, HeldSame, SessionsSame, TypeOK, Tasks
<1>5. TableOK'
  <2>1. w \in Tasks /\ sweeping[w] = None
    BY <1>0 DEF IInv, TableOK, Tasks
  <2>2. QED BY <1>0, <1>4, <2>1 DEF IInv, TableOK
<1>6. OwnPart(w)
  BY <1>0, <1>2, <1>4 DEF OwnPart, JobOK, Holding, WorkerOwnerOK, IInv, OwnerOK
<1>7. RoutesKept
  BY <1>0 DEF RoutesKept
<1>8. QED BY <1>0, <1>3, <1>4, <1>5, <1>6, <1>7, StepKeeps

LEMMA FinishKeeps ==
  ASSUME IInv, NEW w \in Workers, Finish(w)
  PROVE  IInv'
<1>0. TypeOK /\ JobOK(w) /\ pc[w] = "remove" /\ doomed[w] = {}
      /\ UNCHANGED <<useDb, live, route, nextVpn, doomed, sweeping>>
  BY DEF Finish, IInv
<1>1. /\ job' = [job EXCEPT ![w] = None] /\ pc' = [pc EXCEPT ![w] = "idle"]
      /\ cooling' \in SUBSET IPs
  BY <1>0 DEF Finish, Goto, TypeOK
<1>2. /\ HeldSame(w) /\ info' \in [Ids -> Sessions \cup {None}]
      /\ \A t \in live : info'[t] = info[t]
  <2>1. CASE job[w] = None
    BY <1>0, <2>1 DEF Finish, HeldSame, TypeOK
  <2>2. CASE job[w] # None
    <3>1. Holding(w) /\ Forget(w, job[w].sid)
      BY <1>0, <2>2 DEF Finish, Holding
    <3>2. job[w].sid \in Ids
      BY <1>0, <3>1, HeldType
    <3>3. QED BY <1>0, <3>1, <3>2, ForgetFrames
  <2>3. QED BY <2>1, <2>2
<1>3. TypeOK'
  BY <1>0, <1>1, <1>2 DEF TypeOK, Steps
<1>4. TableOK'
  BY <1>0, <1>2 DEF IInv, TableOK
<1>5. /\ OthersSame(w) /\ SessionsSame /\ pc'[w] = "idle" /\ job'[w] = None
  BY <1>0, <1>1, <1>2 DEF OthersSame, SessionsSame, TypeOK
<1>6. OwnPart(w)
  <2>1. job[w] # None => info[job[w].sid].valid
    BY <1>0 DEF JobOK, Holding
  <2>2. QED BY <1>0, <1>2, <1>5, <2>1 DEF OwnPart, JobOK, Holding, WorkerOwnerOK
<1>7. RoutesKept
  BY <1>0 DEF RoutesKept
<1>8. QED BY <1>0, <1>2, <1>3, <1>4, <1>5, <1>6, <1>7, StepKeeps

-----------------------------------------------------------------------------
(* remove_session, by a worker or by the clean-up task. *)
LEMMA TakeOutKeeps ==
  ASSUME IInv, NEW x \in Tasks, NEW s \in doomed[x], TakeOut(x, s),
         x \in Workers => pc[x] = "remove"
  PROVE  IInv'
<1>0. TypeOK /\ s \in Ids /\ live' = live \ {s} /\ sweeping[x] = None
      /\ UNCHANGED <<useDb, route, nextVpn, cooling, pc, job>>
  BY DEF TakeOut, workers, IInv, TypeOK
<1>1. /\ HeldSame(x) /\ info' \in [Ids -> Sessions \cup {None}]
      /\ \A t \in live : info'[t] = info[t]
      /\ \A t \in Ids : t # s => info'[t] = info[t]
  <2>1. CASE s \in live
    BY <1>0, <2>1 DEF TakeOut, HeldSame, TypeOK
  <2>2. CASE s \notin live
    BY <1>0, <2>2, ForgetFrames DEF TakeOut
  <2>3. QED BY <2>1, <2>2
<1>2. /\ doomed' \in [Tasks -> SUBSET Ids] /\ doomed'[x] \subseteq doomed[x]
      /\ \A y \in Tasks \ {x} : doomed'[y] = doomed[y]
      /\ sweeping' \in [Tasks -> Ids \cup {None}]
      /\ \A y \in Tasks \ {x} : sweeping'[y] = sweeping[y]
      /\ sweeping'[x] # None => sweeping'[x] = s /\ s \in doomed'[x]
  BY <1>0 DEF TakeOut, TypeOK
<1>3. TypeOK'
  BY <1>0, <1>1, <1>2 DEF TypeOK
<1>4. TableOK'
  BY <1>0, <1>1, <1>2 DEF IInv, TableOK
<1>5. OthersSame(x) /\ SessionsSame
  BY <1>0, <1>1, <1>2 DEF OthersSame, SessionsSame, Tasks
<1>6. OwnPart(x)
  <2> SUFFICES ASSUME x \in Workers PROVE OwnPart(x)
    BY DEF OwnPart
  <2>1. JobOK(x) /\ pc[x] = "remove"
    BY DEF IInv
  <2>2. Holding(x) => job[x].sid \in Ids /\ job[x].sid # s
    BY <1>0, <2>1, HeldType DEF JobOK
  <2>3. JobOK(x)' /\ (Holding(x)' <=> Holding(x))
    BY <1>0, <1>1, <1>2, <2>1, <2>2 DEF JobOK, Holding
  <2>4. useDb => WorkerOwnerOK(x)'
    BY <1>0, <1>1, <1>2, <2>2, <2>3 DEF WorkerOwnerOK, IInv, OwnerOK
  <2>5. QED BY <1>0, <2>3, <2>4 DEF OwnPart
<1>7. RoutesKept
  BY <1>0 DEF RoutesKept
<1>8. QED BY <1>0, <1>1, <1>3, <1>4, <1>5, <1>6, <1>7, StepKeeps

LEMMA TakeOutRouteKeeps ==
  ASSUME IInv, NEW x \in Tasks, TakeOutRoute(x), x \in Workers => pc[x] = "remove"
  PROVE  IInv'
<1> DEFINE s == sweeping[x]
<1>0. TypeOK /\ s \in Ids /\ s \in doomed[x] /\ s \notin live /\ live' = live
      /\ UNCHANGED <<useDb, nextVpn, cooling, pc, job>>
  BY DEF TakeOutRoute, workers, IInv, TypeOK, TableOK
<1>1. /\ HeldSame(x) /\ info' \in [Ids -> Sessions \cup {None}]
      /\ \A t \in live : info'[t] = info[t]
      /\ \A t \in Ids : t # s => info'[t] = info[t]
  BY <1>0, ForgetFrames DEF TakeOutRoute
<1>2. /\ doomed' \in [Tasks -> SUBSET Ids] /\ doomed'[x] \subseteq doomed[x]
      /\ \A y \in Tasks \ {x} : doomed'[y] = doomed[y]
      /\ sweeping' \in [Tasks -> Ids \cup {None}] /\ sweeping'[x] = None
      /\ \A y \in Tasks \ {x} : sweeping'[y] = sweeping[y]
  BY <1>0 DEF TakeOutRoute, TypeOK
<1>3. TypeOK'
  BY <1>0, <1>1, <1>2, RouteWithoutKeeps DEF TypeOK, TakeOutRoute
<1>4. TableOK'
  BY <1>0, <1>1, <1>2 DEF IInv, TableOK
<1>5. OthersSame(x) /\ SessionsSame
  BY <1>0, <1>1, <1>2 DEF OthersSame, SessionsSame, Tasks
<1>6. OwnPart(x)
  <2> SUFFICES ASSUME x \in Workers PROVE OwnPart(x)
    BY DEF OwnPart
  <2>1. JobOK(x) /\ pc[x] = "remove"
    BY DEF IInv
  <2>2. Holding(x) => job[x].sid \in Ids /\ job[x].sid # s
    BY <1>0, <2>1, HeldType DEF JobOK
  <2>3. JobOK(x)' /\ (Holding(x)' <=> Holding(x))
    BY <1>0, <1>1, <1>2, <2>1, <2>2 DEF JobOK, Holding
  <2>4. useDb => WorkerOwnerOK(x)'
    BY <1>0, <1>1, <1>2, <2>2, <2>3 DEF WorkerOwnerOK, IInv, OwnerOK
  <2>5. QED BY <1>0, <2>3, <2>4 DEF OwnPart
<1>7. RoutesKept
  BY <1>0, RouteWithoutKeeps DEF TakeOutRoute
<1>8. QED BY <1>0, <1>1, <1>3, <1>4, <1>5, <1>6, <1>7, StepKeeps

LEMMA ShutdownKeeps ==
  ASSUME IInv, NEW w \in Workers, NEW s \in Established, Shutdown(w, s)
  PROVE  IInv'
<1>0. TypeOK /\ JobOK(w) /\ pc[w] = "idle" /\ job[w] = None /\ doomed[w] = {}
      /\ UNCHANGED <<useDb, live, info, route, nextVpn, cooling, job, sweeping>>
  BY DEF Shutdown, table, IInv, JobOK
<1>1. doomed' = [doomed EXCEPT ![w] = {s}] /\ pc' = [pc EXCEPT ![w] = "remove"]
      /\ s \in Ids
  BY <1>0 DEF Shutdown, Goto, Established, TypeOK
<1>2. TypeOK'
  BY <1>0, <1>1 DEF TypeOK, Steps
<1>3. /\ OthersSame(w) /\ HeldSame(w) /\ SessionsSame /\ pc'[w] = "remove"
      /\ \A x \in Tasks \ {w} : doomed'[x] = doomed[x]
  BY <1>0, <1>1 DEF OthersSame, HeldSame, SessionsSame, TypeOK, Tasks
<1>4. TableOK'
  <2>1. w \in Tasks /\ sweeping[w] = None
    BY <1>0 DEF IInv, TableOK, Tasks
  <2>2. QED BY <1>0, <1>3, <2>1 DEF IInv, TableOK
<1>5. OwnPart(w)
  BY <1>0, <1>3 DEF OwnPart, JobOK, Holding, WorkerOwnerOK
<1>6. RoutesKept
  BY <1>0 DEF RoutesKept
<1>7. QED BY <1>0, <1>2, <1>3, <1>4, <1>5, <1>6, StepKeeps

LEMMA MigrateKeeps ==
  ASSUME IInv, NEW w \in Workers, NEW s \in Established, NEW ip \in IPs,
         Migrate(w, s, ip)
  PROVE  IInv'
<1>0. TypeOK /\ s \in live /\ s \in Ids /\ info[s] \in Sessions
      /\ UNCHANGED <<useDb, live, route, nextVpn, cooling, pc, job, doomed, sweeping>>
  BY DEF Migrate, workers, Established, IInv, TypeOK, TableOK
<1>1. /\ info' \in [Ids -> Sessions \cup {None}] /\ info'[s] \in Sessions
      /\ info'[s].sender = info[s].sender /\ info'[s].valid = info[s].valid
      /\ info'[s].vpn = info[s].vpn
      /\ \A t \in Ids : t # s => info'[t] = info[t]
  <2>1. info' = [info EXCEPT ![s] = [info[s] EXCEPT !.ip = ip]]
    BY DEF Migrate
  <2>2. QED BY <1>0, <2>1 DEF TypeOK, Sessions
<1>2. TypeOK' /\ TableOK'
  BY <1>0, <1>1, NoneAssumption DEF IInv, TypeOK, TableOK
<1>3. OthersSame(Cleaner) /\ SessionsSame
  BY <1>0, <1>1 DEF OthersSame, SessionsSame, TypeOK
<1>4. HeldSame(Cleaner)
  <2> SUFFICES ASSUME NEW x \in Workers, Holding(x)
               PROVE  info'[job[x].sid] = info[job[x].sid]
    BY <1>0 DEF HeldSame
  <2>1. job[x].sid \in Ids
    BY <1>0, HeldType DEF IInv
  <2>2. job[x].sid # s
    BY DEF Established, Holding
  <2>3. QED BY <1>1, <2>1, <2>2
<1>5. OwnPart(Cleaner)
  BY TableAssumption DEF OwnPart, Cleaner
<1>6. RoutesKept
  BY <1>0 DEF RoutesKept
<1>7. QED BY <1>0, <1>2, <1>3, <1>4, <1>5, <1>6, StepKeeps

LEMMA CleanupCollectKeeps ==
  ASSUME IInv, NEW expired \in SUBSET Established, CleanupCollect(expired)
  PROVE  IInv'
<1>0. /\ TypeOK /\ Cleaner \in Tasks /\ Cleaner \notin Workers /\ expired \subseteq Ids
      /\ doomed[Cleaner] = {} /\ doomed' = [doomed EXCEPT ![Cleaner] = expired]
      /\ UNCHANGED <<useDb, live, info, route, nextVpn, cooling, pc, job, sweeping>>
  BY TableAssumption
     DEF CleanupCollect, table, workers, Established, IInv, TypeOK, Tasks, Cleaner
<1>1. TypeOK'
  BY <1>0 DEF TypeOK
<1>2. OthersSame(Cleaner) /\ HeldSame(Cleaner) /\ SessionsSame
      /\ \A x \in Tasks \ {Cleaner} : doomed'[x] = doomed[x]
  BY <1>0 DEF OthersSame, HeldSame, SessionsSame, TypeOK, Tasks
<1>3. TableOK'
  <2>1. sweeping[Cleaner] = None
    BY <1>0 DEF IInv, TableOK
  <2>2. QED BY <1>0, <1>2, <2>1 DEF IInv, TableOK
<1>4. OwnPart(Cleaner)
  BY <1>0 DEF OwnPart
<1>5. RoutesKept
  BY <1>0 DEF RoutesKept
<1>6. QED BY <1>0, <1>1, <1>2, <1>3, <1>4, <1>5, StepKeeps

(* A cooldown that ends touches no session. *)
LEMMA CooldownKeeps ==
  ASSUME IInv, NEW ip \in cooling, CooldownPasses(ip)
  PROVE  IInv'
<1> USE DEF CooldownPasses, table, workers
<1>1. TypeOK' /\ TableOK'
  BY DEF IInv, TypeOK, TableOK
<1>2. OthersSame(Cleaner) /\ HeldSame(Cleaner) /\ SessionsSame
  BY DEF OthersSame, HeldSame, SessionsSame
<1>3. OwnPart(Cleaner)
  BY TableAssumption DEF OwnPart, Cleaner
<1>4. RoutesKept
  BY DEF RoutesKept
<1>5. QED BY <1>1, <1>2, <1>3, <1>4, StepKeeps

-----------------------------------------------------------------------------
(* An empty table satisfies IInv. *)
LEMMA InitIInv == Init => IInv
<1> SUFFICES ASSUME Init PROVE IInv
  OBVIOUS
<1> USE DEF Init
<1>1. TypeOK
  BY TableAssumption DEF TypeOK, Steps
<1>2. TableOK /\ SidsDistinct /\ OwnerOK /\ NoLeakedAttempt
  BY DEF TableOK, SidsDistinct, OwnerOK, WorkerOwnerOK, NoLeakedAttempt, Holding
<1>3. \A w \in Workers : JobOK(w)
  BY DEF JobOK, Holding, Tasks
<1>4. QED BY <1>1, <1>2, <1>3 DEF IInv

(* Every step of every worker and of the clean-up task keeps IInv. *)
LEMMA NextIInv == IInv /\ [Next]_vars => IInv'
<1> SUFFICES ASSUME IInv, [Next]_vars
             PROVE  IInv'
  OBVIOUS
<1>1. ASSUME NEW w \in Workers, Handshake(w)
      PROVE  IInv'
  <2>0. w \in Tasks
    BY DEF Tasks
  <2>1. ASSUME NEW c \in Senders, NEW ip \in IPs, Begin(w, c, ip)
        PROVE  IInv'
    BY <2>1, BeginKeeps
  <2>2. CASE Create(w)
    BY <2>2, CreateKeeps
  <2>3. CASE Insert(w)
    BY <2>3, InsertKeeps
  <2>4. CASE Assign(w)
    BY <2>4, AssignKeeps
  <2>5. CASE Route(w)
    BY <2>5, RouteKeeps
  <2>6. CASE Validate(w)
    BY <2>6, ValidateKeeps
  <2>7. CASE RollbackRead(w)
    BY <2>7, RollbackReadKeeps
  <2>8. CASE RollbackRemove(w)
    BY <2>8, RollbackRemoveKeeps
  <2>9. CASE RollbackUnroute(w)
    BY <2>9, RollbackUnrouteKeeps
  <2>10. CASE RollbackRestore(w)
    BY <2>10, RollbackRestoreKeeps
  <2>11. CASE Collect(w)
    BY <2>11, CollectKeeps
  <2>12. CASE Unroute(w)
    BY <2>0, <2>12, TakeOutRouteKeeps DEF Unroute
  <2>13. CASE Finish(w)
    BY <2>13, FinishKeeps
  <2>14. ASSUME NEW s \in doomed[w], Remove(w, s)
         PROVE  IInv'
    BY <2>0, <2>14, TakeOutKeeps DEF Remove
  <2>15. QED
    BY <1>1, <2>1, <2>2, <2>3, <2>4, <2>5, <2>6, <2>7, <2>8, <2>9, <2>10, <2>11,
       <2>12, <2>13, <2>14 DEF Handshake
<1>2. ASSUME NEW w \in Workers, NEW s \in Established, Shutdown(w, s)
      PROVE  IInv'
  BY <1>2, ShutdownKeeps
<1>3. ASSUME NEW w \in Workers, NEW s \in Established, NEW ip \in IPs, Migrate(w, s, ip)
      PROVE  IInv'
  BY <1>3, MigrateKeeps
<1>4. ASSUME NEW expired \in SUBSET Established, CleanupCollect(expired)
      PROVE  IInv'
  BY <1>4, CleanupCollectKeeps
<1>5. Cleaner \in Tasks /\ Cleaner \notin Workers
  BY TableAssumption DEF Tasks, Cleaner
<1>6. ASSUME NEW s \in doomed[Cleaner], CleanupRemove(s)
      PROVE  IInv'
  BY <1>5, <1>6, TakeOutKeeps DEF CleanupRemove
<1>7. CASE CleanupUnroute
  BY <1>5, <1>7, TakeOutRouteKeeps DEF CleanupUnroute
<1>8. ASSUME NEW ip \in cooling, CooldownPasses(ip)
      PROVE  IInv'
  BY <1>8, CooldownKeeps
<1>9. CASE UNCHANGED vars
  BY <1>9 DEF vars, IInv, TypeOK, TableOK, JobOK, Holding, SidsDistinct, OwnerOK,
              WorkerOwnerOK, NoLeakedAttempt
<1>10. QED
  BY <1>1, <1>2, <1>3, <1>4, <1>6, <1>7, <1>8, <1>9 DEF Next

(* IInv is an invariant for any number of workers, clients, addresses and  *)
(* ids, with and without a client database: the table and all references   *)
(* to it agree between any two operations on the maps (session.rs,         *)
(* gateway.rs handle_packet).                                              *)
THEOREM TableInvariant == Spec => []IInv
BY InitIInv, NextIInv, PTL DEF Spec

(* No failed attempt is left in the table, for any number of workers       *)
(* (gateway.rs, the PSK loop of handle_packet).                            *)
THEOREM AttemptsRolledBack == Spec => []NoLeakedAttempt
<1>1. IInv => NoLeakedAttempt
  BY DEF IInv
<1>2. QED BY <1>1, TableInvariant, PTL

(* With a client database a VPN IP never leads to an established session   *)
(* of another client, for any number of workers (session.rs                *)
(* rollback_failed_session, get_session_by_vpn_ip).                        *)
THEOREM RoutesToOwners == Spec => []RoutedToOwner
<1>1. IInv => RoutedToOwner
  BY DEF IInv, OwnerOK, RoutedToOwner
<1>2. QED BY <1>1, TableInvariant, PTL

(* With a client database no handshake removes an established session of   *)
(* another client (gateway.rs cleanup_old_sessions_for_vpn_ip, "different  *)
(* clients behind the same NAT must coexist").  Without one the VPN IP of  *)
(* a session at the same public address is reused, whoever its client is.  *)
THEOREM OthersUntouched == Spec => OtherClientsUntouched
<1> DEFINE Kept == useDb => \A w \in Workers, s \in live \ live' :
                     sweeping'[w] = s /\ job[w] # None /\ info[s].valid
                       => info[s].sender = job[w].sender
<1>1. IInv /\ [Next]_vars => Kept
  <2> SUFFICES ASSUME IInv, [Next]_vars, useDb,
                      NEW w \in Workers, NEW s \in live \ live',
                      sweeping'[w] = s, job[w] # None, info[s].valid
               PROVE  info[s].sender = job[w].sender
    OBVIOUS
  <2>1. TypeOK /\ JobOK(w) /\ w \in Tasks /\ useDb
    BY TableAssumption DEF IInv, Tasks, TypeOK
  <2>2. s \in Ids /\ s # None /\ sweeping[w] # s
    BY <2>1, NoneNoId DEF IInv, TypeOK, TableOK
  <2>3. s \in doomed[w]
    <3>1. ASSUME NEW x \in Tasks, NEW t \in doomed[x], TakeOut(x, t)
          PROVE  s \in doomed[w]
      BY <2>1, <2>2, <3>1 DEF TakeOut, TypeOK
    <3>2. ASSUME NEW x \in Tasks, TakeOutRoute(x)
          PROVE  FALSE
      BY <3>2 DEF TakeOutRoute
    <3>3. CASE sweeping' = sweeping
      BY <2>2, <3>3
    <3>4. ASSUME NEW x \in Workers, Handshake(x)
          PROVE  s \in doomed[w]
      <4>1. x \in Tasks
        BY DEF Tasks
      <4>2. CASE \E t \in doomed[x] : Remove(x, t)
        BY <3>1, <4>1, <4>2 DEF Remove
      <4>3. CASE Unroute(x)
        BY <3>2, <4>1, <4>3 DEF Unroute
      <4>4. CASE sweeping' = sweeping
        BY <3>3, <4>4
      <4>5. QED
        BY <3>4, <4>2, <4>3, <4>4
           DEF Handshake, Begin, Create, Insert, Assign, Route, Validate, RollbackRead,
               RollbackRemove, RollbackUnroute, RollbackRestore, Collect, Finish
    <3>5. ASSUME NEW t \in doomed[Cleaner], CleanupRemove(t)
          PROVE  s \in doomed[w]
      BY <3>1, <3>5 DEF CleanupRemove, Tasks
    <3>6. CASE CleanupUnroute
      BY <3>2, <3>6 DEF CleanupUnroute, Tasks
    <3>7. QED
      BY <3>3, <3>4, <3>5, <3>6
         DEF Next, vars, Shutdown, Migrate, CleanupCollect, CooldownPasses
  <2>4. Holding(w)
    BY <2>1, <2>3 DEF JobOK, Holding
  <2>5. /\ info[s].vpn = job[w].vpn /\ job[w].vpn = StaticVpnIp(job[w].sender)
    BY <2>1, <2>3, <2>4, DoomedOwner
  <2>6. info[s].vpn = StaticVpnIp(info[s].sender)
    BY <2>1 DEF IInv, OwnerOK
  <2>7. QED BY <2>5, <2>6 DEF StaticVpnIp
<1>2. IInv /\ [Next]_vars => [Kept]_vars
  BY <1>1
<1>3. QED BY <1>2, TableInvariant, PTL DEF Spec, OtherClientsUntouched
=============================================================================
