-------------------------- MODULE AdminPanelProofs --------------------------
(***************************************************************************)
(* Proofs about the admin panel: for any number of clients, groups and     *)
(* items, any session however long, and any number of requests in flight,  *)
(* the state is that of the page that is mounted, one creation or change   *)
(* of a client is under way at a time, the edit form settles on the group  *)
(* it saves to, only clients whose deletion was confirmed are deleted, and *)
(* a page with nothing under way shows what the server holds.              *)
(***************************************************************************)
EXTENDS AdminPanel, FiniteSetTheorems, SequenceTheorems, TLAPS

(* What the lists of the pages hold. *)
GroupIds  == {None} \cup 1..MaxGroups
ClientIds == {None} \cup 1..MaxClients

ClientLists ==
  Partial(1..MaxClients, [groupId : GroupIds, status : {"online", "offline"}])

GroupLists == Partial(1..MaxGroups, [name : Names, members : 0..MaxClients])

ItemLists == Partial(1..MaxItems, BOOLEAN)

(* The states of the pages. *)
UsersStates ==
  [clients : ClientLists, selectedUsers : SUBSET (1..MaxClients), sidebarOpen : BOOLEAN,
   selectedUser : ClientIds, loading : BOOLEAN, selectedGroupId : GroupIds,
   qrModal : ClientIds]

GroupsStates ==
  [groups : GroupLists, clients : ClientLists, showForm : BOOLEAN, editId : GroupIds,
   name : {None} \cup Names, fills : Seq(Names), base : {None} \cup Names,
   assignGroupId : GroupIds, selectedClients : SUBSET (1..MaxClients)]

ListStates == [items : ItemLists, showForm : BOOLEAN]

SettingsStates ==
  [inputs : [Sections -> Texts], touched : SUBSET Sections, saved : BOOLEAN,
   labels : 0..MaxLabels]

ProfilesStates == [clients : ClientLists, copied : ClientIds, labels : 0..MaxLabels]

PageState(p, s) ==
  /\ p = "users" => s \in UsersStates
  /\ p = "groups" => s \in GroupsStates /\ Len(s.fills) <= MaxFills
  /\ p \in Kinds => s \in ListStates
  /\ p = "settings" => s \in SettingsStates /\ (s.saved => s.labels > 0)
  /\ p = "profiles" => s \in ProfilesStates /\ (s.copied # None => s.labels > 0)
  /\ p = "devices" => s \in [clients : ClientLists]
  /\ p = "logs" => DOMAIN s = {"logs"}
  /\ p = "home" => DOMAIN s = {"dash", "sys", "clients", "traffic", "chart"}

LoginStates == [loading : BOOLEAN, error : BOOLEAN]

ScreenOK == IF authed THEN PageState(page, st) ELSE st \in LoginStates

-----------------------------------------------------------------------------
(* Requests: what they may hold, whatever becomes of the page. *)
Ops == Reads \cup UsersOps \cup GroupsOps \cup ListOps \cup {"save", "login"}

Ids == ClientIds \cup GroupIds \cup 1..MaxItems \cup Kinds \cup Sections

Args ==
  GroupIds \cup BOOLEAN \cup (SUBSET (1..MaxClients)) \cup Names \cup Kinds \cup Texts
    \cup {AdminPassword, "wrong"}

Codes == {200, 401, 404, 500}

Dashboards ==
  [totalClients : Nat, enabledClients : Nat, disabledClients : Nat]

Data ==
  {None, "measured"} \cup ClientLists \cup GroupLists \cup ItemLists
    \cup [Sections -> Texts] \cup Dashboards

Replies == {None} \cup [code : Codes, data : Data]

Messages ==
  [op : Ops, id : Ids, arg : Args, tok : {None, AdminPassword}, ans : Replies,
   live : {"page", "left", "gone"}]

(* A request holds what its operation needs; what it deletes is in conf. *)
ArgOK(r, conf) ==
  /\ r.op = "items" => r.id \in Kinds
  /\ r.op \in {"create", "update"} => r.arg \in GroupIds
  /\ r.op \in {"toggle", "toggleRule"} => r.arg \in BOOLEAN
  /\ r.op \in {"delete", "bulk"} => r.id \in conf
  /\ r.op = "bulk" => r.arg \in SUBSET (1..MaxClients) /\ r.arg \subseteq conf
  /\ r.op \in {"newGroup", "editGroup"} => r.arg \in Names
  /\ r.op \in {"newItem", "deleteItem"} => r.arg \in Kinds
  /\ r.op = "save" => r.id \in Sections /\ r.arg \in Texts

(* An answer that is no refusal holds what the request asked for. *)
DataOK(r, a) ==
  /\ r.op \in Reads \cup {"login"} => a.code \in {200, 401}
  /\ a.code = 200 =>
       /\ r.op = "clients"  => a.data \in ClientLists
       /\ r.op = "groups"   => a.data \in GroupLists
       /\ r.op = "items"    => a.data \in ItemLists
       /\ r.op = "settings" => a.data \in [Sections -> Texts]
       /\ r.op = "login"    => r.arg = AdminPassword

RequestOK(r, conf) ==
  /\ r \in Messages /\ ArgOK(r, conf)
  /\ r.live = "gone" => r.ans = None
  /\ r.ans # None => DataOK(r, r.ans)

(* The operations of a page. *)
PageOps(p) ==
  CASE p = "users"    -> {"clients"} \cup UsersOps
    [] p = "groups"   -> {"groups", "clients"} \cup GroupsOps
    [] p \in Kinds    -> {"items"} \cup ListOps
    [] p = "settings" -> {"settings", "save"}
    [] p = "home"     -> {"dash", "sys", "clients", "traffic", "chart"}
    [] p \in {"profiles", "devices", "logs"} -> {"clients"}

(* A request of the page that is mounted is one that page makes; a login   *)
(* is under way only while the login form waits for it.                    *)
LiveOK(r) ==
  /\ r.live = "page" => r.op \in (IF authed THEN PageOps(page) ELSE {"login"})
  /\ r.op = "login" => ~authed /\ r.live = "page" /\ st.loading

RequestsOK ==
  /\ reqs \in Seq(Messages)
  /\ \A i \in 1..Len(reqs) : RequestOK(reqs[i], confirmed) /\ LiveOK(reqs[i])
  /\ \A i, j \in 1..Len(reqs) : reqs[i].op = "login" /\ reqs[j].op = "login" => i = j

-----------------------------------------------------------------------------
(* The requests of one kind that the server has yet to carry out. *)
Waiting(rs, op, args) ==
  {i \in 1..Len(rs) : rs[i].op = op /\ rs[i].arg \in args /\ rs[i].ans = None}

(* There is an id left for each of them. *)
IdsLeft ==
  /\ db.newGroup + Cardinality(Waiting(reqs, "newGroup", Names)) <= MaxGroups + 1
  /\ \A k \in Kinds : db.newItem[k] + Cardinality(Waiting(reqs, "newItem", {k})) <= MaxItems + 1

RouteOK ==
  /\ tour \in Tours /\ page \in tour.pages /\ filter \in GroupIds
  /\ authed \in BOOLEAN /\ token \in {None, AdminPassword}

(* The creations and changes of clients that the page has under way. *)
Submitted(r) == r.live = "page" /\ r.op \in {"create", "update"}

SubmitOK ==
  Shows("users") =>
    /\ (\E i \in 1..Len(reqs) : Submitted(reqs[i])) <=> st.loading
    /\ \A i, j \in 1..Len(reqs) : Submitted(reqs[i]) /\ Submitted(reqs[j]) => i = j

(* The form of an edited group is shown, and the timer that fires last     *)
(* fills it with the name of that group.                                   *)
Form(s) ==
  s.base # None =>
    /\ s.showForm
    /\ IF s.fills = <<>> THEN s.name = s.base ELSE s.fills[Len(s.fills)] = s.base

FormOK == Shows("groups") => Form(st)

IInv ==
  /\ db \in Databases /\ RouteOK /\ ScreenOK
  /\ RequestsOK /\ IdsLeft /\ SubmitOK /\ FormOK

-----------------------------------------------------------------------------
(* Facts about finite sets and sequences.                                  *)

(* A set of positive numbers up to n has a least element: among the        *)
(* intervals that end in its elements one is minimal for inclusion.        *)
LEMMA LeastElement ==
  ASSUME NEW n \in Nat, NEW S \in SUBSET (1..n), S # {}
  PROVE  Min(S) \in S /\ \A y \in S : Min(S) <= y
<1> DEFINE N == 1..n
           T == {1..k : k \in S}
           R == StrictSubsetOrdering(N)
<1>1. IsWellFoundedOn(R, FiniteSubsetsOf(N))
  BY FS_StrictSubsetOrderingWellFounded
<1>2. FiniteSubsetsOf(N) = SUBSET N
  <2>1. 1 \in Int /\ n \in Int
    OBVIOUS
  <2>2. IsFiniteSet(N)
    BY <2>1, FS_Interval
  <2> HIDE DEF N
  <2> QED  BY <2>2, FS_FiniteSubsetsOfFinite
<1>3. T \subseteq SUBSET N /\ T # {}
  <2>1. ASSUME NEW k \in S  PROVE 1..k \subseteq N
    OBVIOUS
  <2>2. PICK k \in S : TRUE
    OBVIOUS
  <2>3. 1..k \in T
    OBVIOUS
  <2> QED  BY <2>1, <2>3
<1>4. PICK x \in T : \A y \in T : ~ (<<y, x>> \in R)
  <2> HIDE DEF R, T, N
  <2> QED  BY <1>1, <1>2, <1>3, WFMin
<1>5. PICK k \in S : x = 1..k
  BY <1>4
<1>6. ASSUME NEW j \in S, ~ (k <= j)
      PROVE  FALSE
  <2>1. 1..j \in T /\ 1..j \subseteq 1..k
    BY <1>6
  <2>2. k \in 1..k /\ k \notin 1..j
    BY <1>6
  <2>3. <<1..j, 1..k>> \in R
    BY <2>1, <2>2, <1>3, <1>5 DEF StrictSubsetOrdering
  <2> QED  BY <2>1, <2>3, <1>4, <1>5
<1>7. \E m \in S : \A y \in S : m <= y
  BY <1>6
<1> QED  BY <1>7 DEF Min

(* A set that another one is mapped into one to one has as many elements. *)
LEMMA InjectionBound ==
  ASSUME NEW T, IsFiniteSet(T), NEW D, NEW f, NEW S \in SUBSET D,
         \A k \in S : f[k] \in T,
         \A j, k \in S : f[j] = f[k] => j = k
  PROVE  IsFiniteSet(S) /\ Cardinality(S) <= Cardinality(T)
<1> DEFINE g == [k \in S |-> f[k]]
<1>1. g \in Injection(S, T)
  BY DEF Injection, IsInjective
<1> HIDE DEF g
<1> QED  BY <1>1, FS_Injection

(* Some sequence of the elements of a finite set. *)
LEMMA SetToSeqOK ==
  ASSUME NEW S, IsFiniteSet(S)
  PROVE  /\ SetToSeq(S) \in [1..Cardinality(S) -> S] /\ Cardinality(S) \in Nat
         /\ \A j, k \in 1..Cardinality(S) : SetToSeq(S)[j] = SetToSeq(S)[k] => j = k
<1>1. ExistsBijection(1..Cardinality(S), S) /\ Cardinality(S) \in Nat
  BY FS_CardinalityType
<1>2. PICK f : f \in Bijection(1..Cardinality(S), S)
  BY <1>1, Zenon DEF ExistsBijection
<1>3. f \in [1..Cardinality(S) -> S] /\ IsInjective(f)
  BY <1>2, Zenon DEF Bijection, Injection
<1>4. SetToSeq(S) \in [1..Cardinality(S) -> S] /\ IsInjective(SetToSeq(S))
  BY <1>3, Zenon DEF SetToSeq
<1> QED  BY <1>4, <1>1 DEF IsInjective

(* A sequence without one of its elements. *)
LEMMA RemoveAtOK ==
  ASSUME NEW M, NEW s \in Seq(M), NEW i \in 1..Len(s)
  PROVE  /\ RemoveAt(s, i) \in Seq(M) /\ Len(RemoveAt(s, i)) = Len(s) - 1
         /\ \A k \in 1..(Len(s) - 1) :
              RemoveAt(s, i)[k] = s[IF k < i THEN k ELSE k + 1]
<1> DEFINE a == SubSeq(s, 1, i - 1)
           b == SubSeq(s, i + 1, Len(s))
<1>1. /\ a \in Seq(M) /\ Len(a) = i - 1
      /\ \A k \in 1..(i - 1) : a[k] = s[k]
  BY SubSeqProperties
<1>2. /\ b \in Seq(M) /\ Len(b) = Len(s) - i
      /\ \A k \in 1..(Len(s) - i) : b[k] = s[i + k]
  <2>1. i + 1 \in Int /\ Len(s) \in Int /\ \A j \in (i + 1)..Len(s) : s[j] \in M
    OBVIOUS
  <2>2. /\ b \in Seq(M) /\ Len(b) = IF i + 1 <= Len(s) THEN Len(s) - (i + 1) + 1 ELSE 0
        /\ \A k \in 1..(Len(s) - (i + 1) + 1) : b[k] = s[i + 1 + k - 1]
    BY <2>1, SubSeqProperties
  <2> HIDE DEF b
  <2>3. ASSUME NEW k \in 1..(Len(s) - i)  PROVE b[k] = s[i + k]
    <3>1. k \in 1..(Len(s) - (i + 1) + 1) /\ i + 1 + k - 1 = i + k
      OBVIOUS
    <3> QED  BY <2>2, <3>1
  <2> QED  BY <2>2, <2>3
<1> HIDE DEF a, b
<1>3. /\ a \o b \in Seq(M) /\ Len(a \o b) = Len(a) + Len(b)
      /\ \A k \in 1..(Len(a) + Len(b)) :
           (a \o b)[k] = IF k <= Len(a) THEN a[k] ELSE b[k - Len(a)]
  BY <1>1, <1>2, ConcatProperties
<1>4. ASSUME NEW k \in 1..(Len(s) - 1)
      PROVE  (a \o b)[k] = s[IF k < i THEN k ELSE k + 1]
  <2>1. CASE k < i
    BY <2>1, <1>1, <1>2, <1>3
  <2>2. CASE ~ (k < i)
    <3>1. k - (i - 1) \in 1..(Len(s) - i) /\ i + (k - (i - 1)) = k + 1
      BY <2>2
    <3>2. (a \o b)[k] = b[k - (i - 1)]
      BY <2>2, <1>1, <1>2, <1>3
    <3> QED  BY <2>2, <3>1, <3>2, <1>2
  <2> QED  BY <2>1, <2>2
<1>5. Len(a \o b) = Len(s) - 1
  BY <1>1, <1>2, <1>3
<1> QED  BY <1>3, <1>4, <1>5 DEF RemoveAt, a, b

(* The elements of two sequences put together. *)
LEMMA ConcatOK ==
  ASSUME NEW M, NEW s \in Seq(M), NEW t \in Seq(M)
  PROVE  /\ s \o t \in Seq(M) /\ Len(s \o t) = Len(s) + Len(t)
         /\ \A k \in 1..Len(s) : (s \o t)[k] = s[k]
         /\ \A k \in 1..Len(t) : (s \o t)[Len(s) + k] = t[k]
         /\ \A k \in 1..Len(s \o t) :
              \/ k \in 1..Len(s) /\ (s \o t)[k] = s[k]
              \/ k - Len(s) \in 1..Len(t) /\ (s \o t)[k] = t[k - Len(s)]
OBVIOUS

-----------------------------------------------------------------------------
(* Requests.                                                               *)

(* All requests of rs are well-formed. *)
WellFormed(rs, conf) == rs \in Seq(Messages) /\ \A k \in 1..Len(rs) : RequestOK(rs[k], conf)

(* What a page sends when it is mounted and after its requests: reads, and *)
(* the next deletion of several.                                           *)
Follows(rs, conf) ==
  /\ WellFormed(rs, conf)
  /\ \A k \in 1..Len(rs) : rs[k].ans = None /\ rs[k].op \in Reads \cup {"bulk"}

(* Requests r and o differ in whose they are at most. *)
Same(r, o) ==
  /\ r \in Messages
  /\ r.op = o.op /\ r.id = o.id /\ r.arg = o.arg /\ r.ans = o.ans
  /\ r.live = "gone" => r.ans = None

(* The requests of rs are some of those of old. *)
KeptFrom(rs, old) ==
  /\ rs \in Seq(Messages)
  /\ \E f \in [1..Len(rs) -> 1..Len(old)] :
       /\ \A j, k \in 1..Len(rs) : f[j] = f[k] => j = k
       /\ \A k \in 1..Len(rs) : Same(rs[k], old[f[k]])

LEMMA SameOK ==
  ASSUME NEW conf, NEW r, NEW o, RequestOK(o, conf), Same(r, o)
  PROVE  RequestOK(r, conf)
BY DEF RequestOK, Same, ArgOK, DataOK

LEMMA KeptWellFormed ==
  ASSUME NEW conf, NEW rs, NEW old, WellFormed(old, conf), KeptFrom(rs, old)
  PROVE  WellFormed(rs, conf)
<1>1. PICK f \in [1..Len(rs) -> 1..Len(old)] :
             \A k \in 1..Len(rs) : Same(rs[k], old[f[k]])
  BY DEF KeptFrom
<1>2. ASSUME NEW k \in 1..Len(rs)
      PROVE  RequestOK(rs[k], conf)
  <2>1. f[k] \in 1..Len(old)
    BY <1>1
  <2>2. RequestOK(old[f[k]], conf)
    BY <2>1 DEF WellFormed
  <2> QED  BY <2>2, <1>1, SameOK
<1> QED  BY <1>2 DEF WellFormed, KeptFrom

LEMMA WaitingFinite ==
  ASSUME NEW rs \in Seq(Messages), NEW op, NEW args
  PROVE  IsFiniteSet(Waiting(rs, op, args)) /\ Cardinality(Waiting(rs, op, args)) \in Nat
<1>1. IsFiniteSet(1..Len(rs))
  BY FS_Interval
<1>2. Waiting(rs, op, args) \subseteq 1..Len(rs)
  BY DEF Waiting
<1> QED  BY <1>1, <1>2, FS_Subset, FS_CardinalityType

(* No more requests wait than before. *)
LEMMA KeptWaiting ==
  ASSUME NEW rs, NEW old \in Seq(Messages), KeptFrom(rs, old), NEW op, NEW args
  PROVE  Cardinality(Waiting(rs, op, args)) <= Cardinality(Waiting(old, op, args))
<1> DEFINE S == Waiting(rs, op, args)
           T == Waiting(old, op, args)
<1>1. PICK f \in [1..Len(rs) -> 1..Len(old)] :
             /\ \A j, k \in 1..Len(rs) : f[j] = f[k] => j = k
             /\ \A k \in 1..Len(rs) : Same(rs[k], old[f[k]])
  BY DEF KeptFrom
<1>2. S \subseteq 1..Len(rs)
  BY DEF Waiting
<1>3. \A k \in S : f[k] \in T
  BY <1>1 DEF Waiting, Same
<1>4. \A j, k \in S : f[j] = f[k] => j = k
  BY <1>1, <1>2
<1>5. IsFiniteSet(T)
  BY WaitingFinite
<1> HIDE DEF S, T
<1> QED  BY <1>2, <1>3, <1>4, <1>5, InjectionBound DEF S, T

(* What follows does not wait for an id. *)
LEMMA FollowsWaiting ==
  ASSUME NEW rs \in Seq(Messages), NEW new \in Seq(Messages), NEW op,
         \A k \in 1..Len(new) : new[k].op # op, NEW args
  PROVE  Waiting(rs \o new, op, args) = Waiting(rs, op, args)
BY ConcatOK DEF Waiting

LEMMA FollowsWellFormed ==
  ASSUME NEW conf, NEW rs, WellFormed(rs, conf), NEW new, Follows(new, conf)
  PROVE  WellFormed(rs \o new, conf)
<1>1. new \in Seq(Messages) /\ \A k \in 1..Len(new) : RequestOK(new[k], conf)
  BY DEF Follows, WellFormed
<1>2. rs \in Seq(Messages) /\ \A k \in 1..Len(rs) : RequestOK(rs[k], conf)
  BY DEF WellFormed
<1>3. rs \o new \in Seq(Messages)
  BY <1>1, <1>2
<1>4. ASSUME NEW k \in 1..Len(rs \o new)
      PROVE  RequestOK((rs \o new)[k], conf)
  <2>1. \/ k \in 1..Len(rs) /\ (rs \o new)[k] = rs[k]
        \/ k - Len(rs) \in 1..Len(new) /\ (rs \o new)[k] = new[k - Len(rs)]
    BY <1>1, <1>2, ConcatOK
  <2> QED  BY <2>1, <1>1, <1>2
<1> QED  BY <1>3, <1>4 DEF WellFormed

-----------------------------------------------------------------------------
(* Removing a request, leaving the page, loading the document anew.        *)

LEMMA KeptRemoveAt ==
  ASSUME NEW conf, NEW rs, WellFormed(rs, conf), NEW i \in 1..Len(rs)
  PROVE  KeptFrom(RemoveAt(rs, i), rs)
<1> DEFINE new == RemoveAt(rs, i)
           f == [k \in 1..Len(new) |-> IF k < i THEN k ELSE k + 1]
<1>1. rs \in Seq(Messages) /\ \A k \in 1..Len(rs) : RequestOK(rs[k], conf)
  BY DEF WellFormed
<1>2. /\ new \in Seq(Messages) /\ Len(new) = Len(rs) - 1
      /\ \A k \in 1..(Len(rs) - 1) : new[k] = rs[IF k < i THEN k ELSE k + 1]
  BY <1>1, RemoveAtOK
<1> HIDE DEF new
<1>3. f \in [1..Len(new) -> 1..Len(rs)]
  BY <1>1, <1>2
<1>4. \A j, k \in 1..Len(new) : f[j] = f[k] => j = k
  BY <1>1, <1>2
<1>5. ASSUME NEW k \in 1..Len(new)  PROVE Same(new[k], rs[f[k]])
  <2>1. new[k] = rs[f[k]] /\ f[k] \in 1..Len(rs)
    BY <1>1, <1>2, <1>3
  <2>2. RequestOK(rs[f[k]], conf)
    BY <2>1, <1>1
  <2> QED  BY <2>1, <2>2 DEF Same, RequestOK
<1> HIDE DEF f
<1> QED  BY <1>2, <1>3, <1>4, <1>5 DEF KeptFrom, new

LEMMA KeptAsLeft ==
  ASSUME NEW conf, NEW rs, WellFormed(rs, conf)
  PROVE  /\ KeptFrom(AsLeft(rs), rs) /\ Len(AsLeft(rs)) = Len(rs)
         /\ \A k \in 1..Len(rs) : AsLeft(rs)[k].live # "page"
<1> DEFINE new == AsLeft(rs)
           f == [k \in 1..Len(rs) |-> k]
<1>1. rs \in Seq(Messages) /\ \A k \in 1..Len(rs) : RequestOK(rs[k], conf)
  BY DEF WellFormed
<1>2. new = [k \in 1..Len(rs) |-> IF rs[k].live = "page" THEN [rs[k] EXCEPT !.live = "left"]
                                  ELSE rs[k]]
  BY <1>1 DEF AsLeft
<1>3. ASSUME NEW k \in 1..Len(rs)  PROVE Same(new[k], rs[k]) /\ new[k].live # "page"
  <2>1. RequestOK(rs[k], conf)
    BY <1>1
  <2>2. rs[k] \in Messages /\ (rs[k].live = "gone" => rs[k].ans = None)
    BY <2>1 DEF RequestOK
  <2> QED  BY <1>2, <2>2 DEF Same, Messages
<1>4. \A k \in 1..Len(rs) : new[k] \in Messages
  BY <1>3 DEF Same
<1>5. new \in Seq(Messages) /\ Len(new) = Len(rs)
  BY <1>1, <1>2, <1>4
<1> HIDE DEF new
<1>6. /\ f \in [1..Len(new) -> 1..Len(rs)]
      /\ \A j, k \in 1..Len(new) : f[j] = f[k] => j = k
      /\ \A k \in 1..Len(new) : Same(new[k], rs[f[k]])
  BY <1>3, <1>5
<1> HIDE DEF f
<1>7. KeptFrom(new, rs)
  BY <1>5, <1>6 DEF KeptFrom
<1> QED  BY <1>3, <1>5, <1>7 DEF new

LEMMA KeptAsGone ==
  ASSUME NEW conf, NEW rs, WellFormed(rs, conf)
  PROVE  /\ KeptFrom(AsGone(rs), rs)
         /\ \A k \in 1..Len(AsGone(rs)) :
              AsGone(rs)[k].live = "gone" /\ AsGone(rs)[k].op # "login"
<1> DEFINE C == {i \in DOMAIN rs : rs[i].op \notin Reads \cup {"login"} /\ rs[i].ans = None}
           f == SetToSeq(C)
           n == Cardinality(C)
           new == AsGone(rs)
<1>1. rs \in Seq(Messages) /\ \A k \in 1..Len(rs) : RequestOK(rs[k], conf)
  BY DEF WellFormed
<1>2. IsFiniteSet(C) /\ C \subseteq 1..Len(rs)
  <2>1. C \subseteq 1..Len(rs) /\ 1 \in Int /\ Len(rs) \in Int
    BY <1>1
  <2>2. IsFiniteSet(1..Len(rs))
    BY <2>1, FS_Interval
  <2> HIDE DEF C
  <2> QED  BY <2>1, <2>2, FS_Subset
<1>3. f \in [1..n -> C] /\ n \in Nat /\ \A j, k \in 1..n : f[j] = f[k] => j = k
  <2> HIDE DEF C
  <2> QED  BY <1>2, SetToSeqOK
<1>4. new = [k \in DOMAIN f |-> [rs[f[k]] EXCEPT !.live = "gone"]]
  BY DEF AsGone
<1> HIDE DEF f, n, new
<1>5. new = [k \in 1..n |-> [rs[f[k]] EXCEPT !.live = "gone"]]
  BY <1>3, <1>4
<1>6. ASSUME NEW k \in 1..n
      PROVE  /\ Same(new[k], rs[f[k]])
             /\ new[k].live = "gone" /\ new[k].op # "login" /\ new[k] \in Messages
  <2>1. f[k] \in C /\ f[k] \in 1..Len(rs)
    BY <1>2, <1>3
  <2>2. rs[f[k]].ans = None /\ rs[f[k]].op # "login" /\ rs[f[k]] \in Messages
    BY <2>1, <1>1
  <2>3. new[k] = [rs[f[k]] EXCEPT !.live = "gone"]
    BY <1>5
  <2> HIDE DEF C
  <2> QED  BY <2>2, <2>3 DEF Same, Messages
<1> HIDE DEF C
<1>7. new \in Seq(Messages) /\ Len(new) = n
  BY <1>3, <1>5, <1>6
<1>8. f \in [1..Len(new) -> 1..Len(rs)] /\ \A j, k \in 1..Len(new) : f[j] = f[k] => j = k
  BY <1>2, <1>3, <1>7
<1>9. KeptFrom(new, rs)
  BY <1>6, <1>7, <1>8 DEF KeptFrom
<1> QED  BY <1>6, <1>7, <1>9 DEF new

-----------------------------------------------------------------------------
(* What is sent.                                                           *)

LEMMA RequestFields ==
  ASSUME NEW op \in Ops, NEW id \in Ids, NEW arg \in Args, token \in {None, AdminPassword}
  PROVE  LET r == Request(op, id, arg)
         IN  /\ r \in Messages /\ r.op = op /\ r.id = id /\ r.arg = arg /\ r.tok = token
             /\ r.ans = None /\ r.live = "page"
BY DEF Request, Messages, Replies

LEMMA NoneFits == None \in Ids /\ None \in Args
BY DEF Ids, Args, ClientIds, GroupIds

LEMMA GetOK ==
  ASSUME NEW conf, NEW op \in Reads \ {"items"}, token \in {None, AdminPassword}
  PROVE  RequestOK(Get(op), conf) /\ Get(op).ans = None /\ Get(op).live = "page" /\ Get(op).op = op
<1>1. op \in Ops
  BY DEF Ops
<1>2. /\ Get(op) \in Messages /\ Get(op).op = op
      /\ Get(op).ans = None /\ Get(op).live = "page"
  BY <1>1, NoneFits, RequestFields DEF Get
<1>3. op \notin {"items", "create", "update", "toggle", "toggleRule", "delete", "bulk",
                 "newGroup", "editGroup", "newItem", "deleteItem", "save"}
  BY DEF Reads, Measured
<1> HIDE DEF Get
<1> QED  BY <1>2, <1>3 DEF RequestOK, ArgOK

LEMMA LoadOK ==
  ASSUME NEW conf, NEW k \in Kinds, token \in {None, AdminPassword}
  PROVE  RequestOK(Load(k), conf) /\ Load(k).ans = None /\ Load(k).live = "page" /\ Load(k).op = "items"
<1>1. "items" \in Ops /\ k \in Ids
  BY DEF Ops, Reads, Ids
<1>2. /\ Load(k) \in Messages /\ Load(k).op = "items" /\ Load(k).id = k
      /\ Load(k).ans = None /\ Load(k).live = "page"
  BY <1>1, NoneFits, RequestFields DEF Load
<1> QED  BY <1>2 DEF RequestOK, ArgOK

(* A sequence of one or two reads. *)
LEMMA OneFollows ==
  ASSUME NEW conf, NEW r, RequestOK(r, conf), r.ans = None, r.live = "page",
         r.op \in Reads \cup {"bulk"}
  PROVE  Follows(<<r>>, conf) /\ <<r>>[1] = r /\ Len(<<r>>) = 1
<1>1. <<r>> \in Seq(Messages) /\ Len(<<r>>) = 1 /\ <<r>>[1] = r
  BY DEF RequestOK
<1> QED  BY <1>1 DEF Follows, WellFormed

LEMMA NoneFollows ==
  ASSUME NEW conf
  PROVE  Follows(<<>>, conf) /\ Len(<<>>) = 0
<1>1. <<>> \in Seq(Messages) /\ Len(<<>>) = 0
  OBVIOUS
<1> QED  BY <1>1 DEF Follows, WellFormed

LEMMA TwoFollow ==
  ASSUME NEW conf, token \in {None, AdminPassword}
  PROVE  LET rs == <<Get("groups"), Get("clients")>>
         IN  Follows(rs, conf) /\ Len(rs) = 2 /\ \A k \in 1..2 : rs[k].op \in {"groups", "clients"}
<1> DEFINE a == Get("groups")
           b == Get("clients")
<1>1. {"groups", "clients"} \subseteq Reads \ {"items"}
  BY DEF Reads
<1>2. /\ RequestOK(a, conf) /\ a.ans = None /\ a.live = "page" /\ a.op = "groups"
      /\ RequestOK(b, conf) /\ b.ans = None /\ b.live = "page" /\ b.op = "clients"
  BY <1>1, GetOK
<1> HIDE DEF a, b
<1>3. /\ <<a, b>> \in Seq(Messages) /\ Len(<<a, b>>) = 2
      /\ <<a, b>>[1] = a /\ <<a, b>>[2] = b
  BY <1>2 DEF RequestOK
<1>4. \A k \in 1..2 : k = 1 \/ k = 2
  OBVIOUS
<1>5. Follows(<<a, b>>, conf)
  BY <1>1, <1>2, <1>3, <1>4 DEF Follows, WellFormed
<1> QED  BY <1>2, <1>3, <1>4, <1>5 DEF a, b

LEMMA HomeFollow ==
  ASSUME NEW conf, token \in {None, AdminPassword}
  PROVE  Follows(HomeReads, conf) /\ \A k \in 1..Len(HomeReads) : HomeReads[k].op \in PageOps("home")
<1> DEFINE a == Get("dash")
           b == Get("sys")
           c == Get("clients")
           d == Get("traffic")
           e == Get("chart")
           rs == <<a, b, c, d, e>>
           O == {"dash", "sys", "clients", "traffic", "chart"}
<1>1. O \subseteq Reads \ {"items"}
  BY DEF Reads, Measured
<1>2. \A x \in {a, b, c, d, e} :
        RequestOK(x, conf) /\ x.ans = None /\ x.live = "page" /\ x.op \in O
  BY <1>1, GetOK
<1>3. HomeReads = rs
  BY DEF HomeReads
<1>4. PageOps("home") = O
  BY DEF PageOps, Kinds
<1> HIDE DEF a, b, c, d, e
<1>5. rs \in Seq(Messages) /\ Len(rs) = 5 /\ \A k \in 1..5 : rs[k] \in {a, b, c, d, e}
  <2>1. {a, b, c, d, e} \subseteq Messages
    BY <1>2 DEF RequestOK
  <2> QED  BY <2>1
<1>6. Follows(rs, conf)
  <2> HIDE DEF rs
  <2> QED  BY <1>1, <1>2, <1>5 DEF Follows, WellFormed
<1> HIDE DEF rs
<1> QED  BY <1>2, <1>3, <1>4, <1>5, <1>6

(* What a page reads when it is mounted. *)
LEMMA MountedOK ==
  ASSUME NEW conf, NEW p \in Routes, token \in {None, AdminPassword}
  PROVE  /\ Follows(Mounted(p), conf)
         /\ \A k \in 1..Len(Mounted(p)) : Mounted(p)[k].op \in PageOps(p) \cap Reads
<1>1. CASE p = "home"
  <2>1. Mounted(p) = HomeReads
    BY <1>1 DEF Mounted, Kinds
  <2> QED  BY <1>1, <2>1, HomeFollow DEF Follows, PageOps, Kinds, Reads, Measured
<1>2. CASE p = "groups"
  <2>1. Mounted(p) = <<Get("groups"), Get("clients")>>
    BY <1>2 DEF Mounted, Kinds
  <2>2. {"groups", "clients"} \subseteq PageOps(p) \cap Reads
    BY <1>2 DEF PageOps, Reads
  <2> QED  BY <2>1, <2>2, TwoFollow
<1>3. CASE p \in Kinds
  <2>1. Mounted(p) = <<Load(p)>>
    BY <1>3 DEF Mounted, Kinds
  <2>2. "items" \in PageOps(p) \cap Reads
    BY <1>3 DEF PageOps, Reads, Kinds
  <2>3. RequestOK(Load(p), conf) /\ Load(p).ans = None /\ Load(p).live = "page" /\ Load(p).op = "items"
    BY <1>3, LoadOK
  <2>4. Follows(<<Load(p)>>, conf) /\ <<Load(p)>>[1] = Load(p) /\ Len(<<Load(p)>>) = 1
    BY <2>2, <2>3, OneFollows
  <2> QED  BY <2>1, <2>2, <2>3, <2>4
<1>4. CASE p = "settings"
  <2>1. Mounted(p) = <<Get("settings")>>
    BY <1>4 DEF Mounted, Kinds
  <2>2. "settings" \in PageOps(p) \cap Reads /\ "settings" \in Reads \ {"items"}
    BY <1>4 DEF PageOps, Reads, Kinds
  <2>3. /\ RequestOK(Get("settings"), conf) /\ Get("settings").ans = None
        /\ Get("settings").live = "page" /\ Get("settings").op = "settings"
    BY <2>2, GetOK
  <2>4. Follows(<<Get("settings")>>, conf) /\ <<Get("settings")>>[1] = Get("settings")
        /\ Len(<<Get("settings")>>) = 1
    BY <2>2, <2>3, OneFollows
  <2> QED  BY <2>1, <2>2, <2>3, <2>4
<1>5. CASE p \in {"users", "profiles", "devices", "logs"}
  <2>1. Mounted(p) = <<Get("clients")>>
    BY <1>5 DEF Mounted, Kinds
  <2>2. "clients" \in PageOps(p) \cap Reads /\ "clients" \in Reads \ {"items"}
    BY <1>5 DEF PageOps, Reads, Kinds
  <2>3. /\ RequestOK(Get("clients"), conf) /\ Get("clients").ans = None
        /\ Get("clients").live = "page" /\ Get("clients").op = "clients"
    BY <2>2, GetOK
  <2>4. Follows(<<Get("clients")>>, conf) /\ <<Get("clients")>>[1] = Get("clients")
        /\ Len(<<Get("clients")>>) = 1
    BY <2>2, <2>3, OneFollows
  <2> QED  BY <2>1, <2>2, <2>3, <2>4
<1> QED  BY <1>1, <1>2, <1>3, <1>4, <1>5 DEF Routes, Kinds

(* A fresh page. *)
LEMMA EmptyList ==
  ASSUME NEW S, NEW T
  PROVE  <<>> \in Partial(S, T) /\ DOMAIN <<>> = {}
<1>1. <<>> \in [{} -> T] /\ DOMAIN <<>> = {}
  OBVIOUS
<1> QED  BY <1>1 DEF Partial

LEMMA EmptyLists ==
  <<>> \in ClientLists /\ <<>> \in GroupLists /\ <<>> \in ItemLists
BY EmptyList, Zenon DEF ClientLists, GroupLists, ItemLists

LEMMA FreshOK ==
  ASSUME NEW p \in Routes
  PROVE  PageState(p, Fresh(p))
<1>1. CASE p = "users"
  <2>1. Fresh(p) = FreshUsers
    BY <1>1 DEF Fresh, Kinds
  <2>2. None \in ClientIds /\ None \in GroupIds /\ {} \in SUBSET (1..MaxClients)
    BY DEF ClientIds, GroupIds
  <2>3. FreshUsers \in UsersStates
    BY <2>2, EmptyLists DEF FreshUsers, UsersStates
  <2> QED  BY <1>1, <2>1, <2>3 DEF PageState, Kinds
<1>2. CASE p = "groups"
  <2>1. Fresh(p) = FreshGroups
    BY <1>2 DEF Fresh, Kinds
  <2>2. <<>> \in Seq(Names) /\ Len(<<>>) = 0 /\ 0 <= MaxFills
    BY GroupsAssumption
  <2>3. None \in GroupIds /\ {} \in SUBSET (1..MaxClients)
    BY DEF GroupIds
  <2>4. FreshGroups \in GroupsStates /\ FreshGroups.fills = <<>>
    BY <2>2, <2>3, EmptyLists DEF FreshGroups, GroupsStates
  <2> QED  BY <1>2, <2>1, <2>2, <2>4 DEF PageState, Kinds
<1>3. CASE p \in Kinds
  <2>1. Fresh(p) = FreshList
    BY <1>3 DEF Fresh, Kinds
  <2> QED  BY <1>3, <2>1, EmptyLists DEF PageState, FreshList, ListStates, Kinds
<1>4. CASE p = "settings"
  <2>1. Fresh(p) = FreshSettings
    BY <1>4 DEF Fresh, Kinds
  <2>2. MaxLabels \in Nat
    BY SettingsAssumption
  <2>3. [s \in Sections |-> DefaultText(s)] \in [Sections -> Texts]
    BY DEF DefaultText, Texts
  <2>4. Fresh(p) \in SettingsStates /\ ~Fresh(p).saved
    BY <2>1, <2>2, <2>3 DEF FreshSettings, SettingsStates
  <2> QED  BY <1>4, <2>4 DEF PageState, Kinds
<1>5. CASE p = "profiles"
  <2>1. Fresh(p) = FreshProfiles
    BY <1>5 DEF Fresh, Kinds
  <2>2. MaxLabels \in Nat
    BY SettingsAssumption
  <2> QED  BY <1>5, <2>1, <2>2, EmptyLists DEF PageState, FreshProfiles, ProfilesStates, Kinds, ClientIds
<1>6. CASE p = "devices"
  <2>1. Fresh(p) = FreshDevices
    BY <1>6 DEF Fresh, Kinds
  <2> QED  BY <1>6, <2>1, EmptyLists DEF PageState, FreshDevices, Kinds
<1>7. CASE p = "logs"
  <2>1. Fresh(p) = FreshLogs
    BY <1>7 DEF Fresh, Kinds
  <2> QED  BY <1>7, <2>1 DEF PageState, FreshLogs, Kinds
<1>8. CASE p = "home"
  <2>1. Fresh(p) = FreshHome
    BY <1>8 DEF Fresh, Kinds
  <2> QED  BY <1>8, <2>1 DEF PageState, FreshHome, Kinds
<1> QED  BY <1>1, <1>2, <1>3, <1>4, <1>5, <1>6, <1>7, <1>8 DEF Routes, Kinds

-----------------------------------------------------------------------------
(* The server.                                                             *)

LEMMA PartialOut ==
  ASSUME NEW S, NEW T, NEW f \in Partial(S, T)
  PROVE  DOMAIN f \subseteq S /\ f \in [DOMAIN f -> T]
<1>1. PICK D \in SUBSET S : f \in [D -> T]
  BY DEF Partial
<1> QED  BY <1>1

LEMMA PartialIn ==
  ASSUME NEW S, NEW T, NEW D \in SUBSET S, NEW f \in [D -> T]
  PROVE  f \in Partial(S, T)
BY DEF Partial

LEMMA PartialAdd ==
  ASSUME NEW S, NEW T, NEW f \in Partial(S, T), NEW x \in S, NEW v \in T
  PROVE  /\ With(f, x, v) \in Partial(S, T)
         /\ \A y : y \in DOMAIN With(f, x, v) <=> y \in DOMAIN f \/ y = x
<1>1. DOMAIN f \subseteq S /\ f \in [DOMAIN f -> T]
  BY PartialOut
<1>2. With(f, x, v) = [y \in DOMAIN f \cup {x} |-> IF y = x THEN v ELSE f[y]]
  BY DEF With
<1>3. With(f, x, v) \in [DOMAIN f \cup {x} -> T]
  BY <1>1, <1>2
<1> QED  BY <1>1, <1>2, <1>3, PartialIn

LEMMA PartialWithout ==
  ASSUME NEW S, NEW T, NEW f \in Partial(S, T), NEW x
  PROVE  /\ Without(f, x) \in Partial(S, T)
         /\ \A y : y \in DOMAIN Without(f, x) <=> y \in DOMAIN f /\ y # x
<1>1. DOMAIN f \subseteq S /\ f \in [DOMAIN f -> T]
  BY PartialOut
<1>2. Without(f, x) = [y \in DOMAIN f \ {x} |-> f[y]]
  BY DEF Without, Restrict
<1>3. Without(f, x) \in [DOMAIN f \ {x} -> T]
  BY <1>1, <1>2
<1> QED  BY <1>1, <1>2, <1>3, PartialIn

LEMMA PartialSet ==
  ASSUME NEW S, NEW T, NEW f \in Partial(S, T), NEW x \in DOMAIN f, NEW v \in T
  PROVE  [f EXCEPT ![x] = v] \in Partial(S, T) /\ DOMAIN [f EXCEPT ![x] = v] = DOMAIN f
<1>1. DOMAIN f \subseteq S /\ f \in [DOMAIN f -> T]
  BY PartialOut
<1>2. [f EXCEPT ![x] = v] \in [DOMAIN f -> T]
  BY <1>1
<1> QED  BY <1>1, <1>2, PartialIn

(* What the server makes of database d and answers to request r. *)
ServedOK(d, r, a, conf) ==
  /\ a.db \in Databases
  /\ a.code \in Codes /\ a.data \in Data
  /\ DataOK(r, [code |-> a.code, data |-> a.data])
  /\ r.op \notin Reads \cup {"login"} => a.data = None
  /\ DOMAIN d.clients \ DOMAIN a.db.clients \subseteq conf
  /\ \/ a.db.newGroup = d.newGroup
     \/ r.op = "newGroup" /\ a.db.newGroup = d.newGroup + 1
  /\ \A k \in Kinds : \/ a.db.newItem[k] = d.newItem[k]
                      \/ r.op = "newItem" /\ r.arg = k /\ a.db.newItem[k] = d.newItem[k] + 1

LEMMA NoneData == None \in Data /\ "measured" \in Data
BY DEF Data

(* The database is left alone. *)
LEMMA ServedSame ==
  ASSUME NEW conf, NEW d \in Databases, NEW r, NEW code \in Codes, NEW data \in Data,
         DataOK(r, [code |-> code, data |-> data]),
         r.op \notin Reads \cup {"login"} => data = None
  PROVE  ServedOK(d, r, Answer(d, code, data), conf)
BY DEF ServedOK, Answer

LEMMA ChangeData ==
  ASSUME NEW r, r.op \notin Reads \cup {"login"}, NEW code \in Codes
  PROVE  DataOK(r, [code |-> code, data |-> None])
BY DEF DataOK, Reads

LEMMA ServedNotFound ==
  ASSUME NEW conf, NEW d \in Databases, NEW r, r.op \notin Reads \cup {"login"},
         NEW code \in Codes
  PROVE  ServedOK(d, r, Answer(d, code, None), conf)
BY NoneData, ChangeData, ServedSame

(* A change that deletes no clients but those of conf. *)
LEMMA ServedDone ==
  ASSUME NEW conf, NEW d \in Databases, NEW r, r.op \notin Reads \cup {"login"},
         NEW e \in Databases,
         \A c \in DOMAIN d.clients : c \in DOMAIN e.clients \/ c \in conf,
         \/ e.newGroup = d.newGroup
         \/ r.op = "newGroup" /\ e.newGroup = d.newGroup + 1,
         \A k \in Kinds : \/ e.newItem[k] = d.newItem[k]
                          \/ r.op = "newItem" /\ r.arg = k /\ e.newItem[k] = d.newItem[k] + 1
  PROVE  ServedOK(d, r, Done(e), conf)
<1>1. 200 \in Codes
  BY DEF Codes
<1>2. DataOK(r, [code |-> 200, data |-> None])
  BY <1>1, ChangeData
<1> QED  BY <1>1, <1>2, NoneData DEF ServedOK, Done, Answer

LEMMA CreateClientOK ==
  ASSUME NEW conf, NEW d \in Databases, NEW r, r.op = "create", NEW g \in GroupIds
  PROVE  ServedOK(d, r, CreateClient(d, g), conf)
<1>0. r.op \notin Reads \cup {"login"} /\ 500 \in Codes /\ MaxClients \in Nat
  BY PanelAssumption DEF Reads, Measured, Codes
<1>1. CASE d.newClient > MaxClients
  BY <1>0, <1>1, ServedNotFound DEF CreateClient
<1>2. CASE ~ (d.newClient > MaxClients)
  <2> DEFINE v == [group |-> g, enabled |-> TRUE]
             f == d.clients
             x == d.newClient
             n == d.newClient + 1
             cs == With(f, x, v)
             e == [d EXCEPT !.clients = cs, !.newClient = n]
  <2>1. x \in 1..MaxClients /\ n \in 1..(MaxClients + 1)
    BY <1>0, <1>2 DEF Databases
  <2>2. v \in Clients
    BY DEF Clients, GroupIds
  <2>3. f \in Partial(1..MaxClients, Clients)
    BY DEF Databases
  <2>4. CreateClient(d, g) = Done(e)
    BY <1>2 DEF CreateClient
  <2> HIDE DEF v
  <2>5. cs \in Partial(1..MaxClients, Clients) /\ \A y \in DOMAIN f : y \in DOMAIN cs
    <3> HIDE DEF f, x, n
    <3>1. cs \in Partial(1..MaxClients, Clients)
      BY <2>1, <2>2, <2>3, PartialAdd
    <3>2. \A y \in DOMAIN f : y \in DOMAIN cs
      BY DEF With
    <3> QED  BY <3>1, <3>2
  <2> HIDE DEF cs, n
  <2>6. /\ e \in Databases /\ e.clients = cs /\ e.newGroup = d.newGroup
        /\ e.newItem = d.newItem
    BY <2>1, <2>5 DEF Databases
  <2> HIDE DEF e
  <2> QED  BY <1>0, <2>4, <2>5, <2>6, ServedDone
<1> QED  BY <1>1, <1>2

LEMMA DeleteClientOK ==
  ASSUME NEW conf, NEW d \in Databases, NEW r, r.op \in {"delete", "bulk"}, NEW c \in conf
  PROVE  ServedOK(d, r, DeleteClient(d, c), conf)
<1>0. r.op \notin Reads \cup {"login"} /\ 404 \in Codes
  BY DEF Reads, Measured, Codes
<1>1. CASE c \notin DOMAIN d.clients
  BY <1>0, <1>1, ServedNotFound DEF DeleteClient, NotFound
<1>2. CASE c \in DOMAIN d.clients
  <2> DEFINE f == d.clients
             cs == Without(f, c)
             e == [d EXCEPT !.clients = cs]
  <2>1. f \in Partial(1..MaxClients, Clients)
    BY DEF Databases
  <2>2. DeleteClient(d, c) = Done(e)
    BY <1>2 DEF DeleteClient
  <2>3. cs \in Partial(1..MaxClients, Clients) /\ \A y : y \in DOMAIN cs <=> y \in DOMAIN f /\ y # c
    BY <2>1, PartialWithout
  <2> HIDE DEF cs
  <2>4. /\ e \in Databases /\ e.clients = cs /\ e.newGroup = d.newGroup
        /\ e.newItem = d.newItem
    BY <2>3 DEF Databases
  <2> HIDE DEF e
  <2> QED  BY <1>0, <2>2, <2>3, <2>4, ServedDone
<1> QED  BY <1>1, <1>2

(* A change of clients and groups that keeps all clients. *)
LEMMA ServedKeeps ==
  ASSUME NEW conf, NEW d \in Databases, NEW r, r.op \notin Reads \cup {"login"},
         NEW cs \in [DOMAIN d.clients -> Clients],
         NEW e, \/ e = [d EXCEPT !.clients = cs]
                \/ \E gs \in Partial(1..MaxGroups, Names) : e = [d EXCEPT !.clients = cs, !.groups = gs]
  PROVE  ServedOK(d, r, Done(e), conf)
<1>1. d.clients \in Partial(1..MaxClients, Clients)
  BY DEF Databases
<1>2. DOMAIN d.clients \subseteq 1..MaxClients
  BY <1>1, PartialOut
<1>3. cs \in Partial(1..MaxClients, Clients)
  BY <1>2, PartialIn
<1>4. e \in Databases /\ e.clients = cs /\ e.newGroup = d.newGroup /\ e.newItem = d.newItem
  BY <1>3 DEF Databases
<1> QED  BY <1>4, ServedDone

LEMMA ChangeClientOK ==
  ASSUME NEW conf, NEW d \in Databases, NEW r, NEW c, NEW v
  PROVE  /\ r.op = "update" /\ v \in GroupIds => ServedOK(d, r, UpdateClient(d, c, v), conf)
         /\ r.op = "toggle" /\ v \in BOOLEAN => ServedOK(d, r, ToggleClient(d, c, v), conf)
<1>0. (r.op \in {"update", "toggle"} => r.op \notin Reads \cup {"login"}) /\ 404 \in Codes
  BY DEF Reads, Measured, Codes
<1>1. d.clients \in [DOMAIN d.clients -> Clients]
  <2>1. d.clients \in Partial(1..MaxClients, Clients)
    BY DEF Databases
  <2> QED  BY <2>1, PartialOut
<1>2. CASE c \notin DOMAIN d.clients
  BY <1>0, <1>2, ServedNotFound DEF UpdateClient, ToggleClient, NotFound
<1>3. CASE c \in DOMAIN d.clients
  <2>1. ASSUME r.op = "update", v \in GroupIds
        PROVE  ServedOK(d, r, UpdateClient(d, c, v), conf)
    <3> DEFINE cs == [d.clients EXCEPT ![c].group = v]
               e == [d EXCEPT !.clients = cs]
    <3>1. UpdateClient(d, c, v) = Done(e)
      BY <1>3 DEF UpdateClient, Databases
    <3>2. cs \in [DOMAIN d.clients -> Clients]
      BY <1>1, <2>1, <1>3 DEF Clients, GroupIds
    <3>3. e = [d EXCEPT !.clients = cs]
      OBVIOUS
    <3> HIDE DEF cs, e
    <3> QED  BY <1>0, <2>1, <3>1, <3>2, <3>3, ServedKeeps
  <2>2. ASSUME r.op = "toggle", v \in BOOLEAN
        PROVE  ServedOK(d, r, ToggleClient(d, c, v), conf)
    <3> DEFINE cs == [d.clients EXCEPT ![c].enabled = v]
               e == [d EXCEPT !.clients = cs]
    <3>1. ToggleClient(d, c, v) = Done(e)
      BY <1>3 DEF ToggleClient, Databases
    <3>2. cs \in [DOMAIN d.clients -> Clients]
      BY <1>1, <2>2, <1>3 DEF Clients
    <3>3. e = [d EXCEPT !.clients = cs]
      OBVIOUS
    <3> HIDE DEF cs, e
    <3> QED  BY <1>0, <2>2, <3>1, <3>2, <3>3, ServedKeeps
  <2> QED  BY <2>1, <2>2
<1> QED  BY <1>2, <1>3

(* Groups. *)
LEMMA CreateGroupOK ==
  ASSUME NEW conf, NEW d \in Databases, NEW r, r.op = "newGroup", NEW m \in Names,
         d.newGroup <= MaxGroups
  PROVE  ServedOK(d, r, CreateGroup(d, m), conf)
<1>0. r.op \notin Reads \cup {"login"} /\ MaxGroups \in Nat
  BY PanelAssumption DEF Reads, Measured
<1> DEFINE f == d.groups
           x == d.newGroup
           n == d.newGroup + 1
           gs == With(f, x, m)
           e == [d EXCEPT !.groups = gs, !.newGroup = n]
<1>1. x \in 1..MaxGroups /\ n \in 1..(MaxGroups + 1) /\ f \in Partial(1..MaxGroups, Names)
  BY <1>0 DEF Databases
<1>2. CreateGroup(d, m) = Done(e)
  BY DEF CreateGroup
<1>3. gs \in Partial(1..MaxGroups, Names)
  BY <1>1, PartialAdd
<1>4. n = d.newGroup + 1
  OBVIOUS
<1> HIDE DEF gs, n
<1>5. e \in Databases /\ e.clients = d.clients /\ e.newGroup = n /\ e.newItem = d.newItem
  BY <1>1, <1>3 DEF Databases
<1> HIDE DEF e
<1> QED  BY <1>0, <1>2, <1>4, <1>5, ServedDone

LEMMA UpdateGroupOK ==
  ASSUME NEW conf, NEW d \in Databases, NEW r, r.op = "editGroup", NEW m \in Names, NEW g
  PROVE  ServedOK(d, r, UpdateGroup(d, g, m), conf)
<1>0. r.op \notin Reads \cup {"login"} /\ 404 \in Codes
  BY DEF Reads, Measured, Codes
<1>1. CASE g \notin DOMAIN d.groups
  BY <1>0, <1>1, ServedNotFound DEF UpdateGroup, NotFound
<1>2. CASE g \in DOMAIN d.groups
  <2> DEFINE f == d.groups
             gs == [f EXCEPT ![g] = m]
             e == [d EXCEPT !.groups = gs]
  <2>1. f \in Partial(1..MaxGroups, Names)
    BY DEF Databases
  <2>2. UpdateGroup(d, g, m) = Done(e)
    BY <1>2 DEF UpdateGroup, Databases
  <2>3. gs \in Partial(1..MaxGroups, Names)
    BY <1>2, <2>1, PartialSet
  <2> HIDE DEF gs
  <2>4. e \in Databases /\ e.clients = d.clients /\ e.newGroup = d.newGroup /\ e.newItem = d.newItem
    BY <2>3 DEF Databases
  <2> HIDE DEF e
  <2> QED  BY <1>0, <2>2, <2>4, ServedDone
<1> QED  BY <1>1, <1>2

LEMMA DeleteGroupOK ==
  ASSUME NEW conf, NEW d \in Databases, NEW r, r.op = "deleteGroup", NEW g
  PROVE  ServedOK(d, r, DeleteGroup(d, g), conf)
<1>0. r.op \notin Reads \cup {"login"} /\ 404 \in Codes
  BY DEF Reads, Measured, Codes
<1>1. CASE g \notin DOMAIN d.groups
  BY <1>0, <1>1, ServedNotFound DEF DeleteGroup, NotFound
<1>2. CASE g \in DOMAIN d.groups
  <2> DEFINE cs == [c \in DOMAIN d.clients |->
                      IF d.clients[c].group = g THEN [d.clients[c] EXCEPT !.group = None]
                      ELSE d.clients[c]]
             f == d.groups
             gs == Without(f, g)
             e == [d EXCEPT !.clients = cs, !.groups = gs]
  <2>1. d.clients \in Partial(1..MaxClients, Clients) /\ f \in Partial(1..MaxGroups, Names)
    BY DEF Databases
  <2>2. d.clients \in [DOMAIN d.clients -> Clients]
    BY <2>1, PartialOut
  <2>3. cs \in [DOMAIN d.clients -> Clients]
    BY <2>2 DEF Clients
  <2>4. gs \in Partial(1..MaxGroups, Names)
    BY <2>1, PartialWithout
  <2>5. DeleteGroup(d, g) = Done(e)
    BY <1>2 DEF DeleteGroup, Databases
  <2>6. e = [d EXCEPT !.clients = cs, !.groups = gs]
    OBVIOUS
  <2> HIDE DEF cs, gs, e
  <2> QED  BY <1>0, <2>3, <2>4, <2>5, <2>6, ServedKeeps
<1> QED  BY <1>1, <1>2

LEMMA AssignClientsOK ==
  ASSUME NEW conf, NEW d \in Databases, NEW r, r.op = "assign", NEW g, NEW who
  PROVE  ServedOK(d, r, AssignClients(d, g, who), conf)
<1>0. r.op \notin Reads \cup {"login"} /\ 404 \in Codes
  BY DEF Reads, Measured, Codes
<1>1. CASE g \notin DOMAIN d.groups
  BY <1>0, <1>1, ServedNotFound DEF AssignClients, NotFound
<1>2. CASE g \in DOMAIN d.groups
  <2> DEFINE cs == [c \in DOMAIN d.clients |->
                      IF c \in who THEN [d.clients[c] EXCEPT !.group = g] ELSE d.clients[c]]
             e == [d EXCEPT !.clients = cs]
  <2>1. d.clients \in Partial(1..MaxClients, Clients) /\ d.groups \in Partial(1..MaxGroups, Names)
    BY DEF Databases
  <2>2. d.clients \in [DOMAIN d.clients -> Clients] /\ g \in 1..MaxGroups
    BY <1>2, <2>1, PartialOut
  <2>3. cs \in [DOMAIN d.clients -> Clients]
    BY <2>2 DEF Clients
  <2>4. AssignClients(d, g, who) = Done(e)
    BY <1>2 DEF AssignClients, Databases
  <2>5. e = [d EXCEPT !.clients = cs]
    OBVIOUS
  <2> HIDE DEF cs, e
  <2> QED  BY <1>0, <2>3, <2>4, <2>5, ServedKeeps
<1> QED  BY <1>1, <1>2

(* Items and settings. *)
LEMMA CreateItemOK ==
  ASSUME NEW conf, NEW d \in Databases, NEW r, r.op = "newItem", NEW k \in Kinds, r.arg = k,
         d.newItem[k] <= MaxItems
  PROVE  ServedOK(d, r, CreateItem(d, k), conf)
<1>0. r.op \notin Reads \cup {"login"} /\ MaxItems \in Nat
  BY PanelAssumption DEF Reads, Measured
<1> DEFINE f == d.items[k]
           x == d.newItem[k]
           n == d.newItem[k] + 1
           is == With(f, x, TRUE)
           items == [d.items EXCEPT ![k] = is]
           nums == [d.newItem EXCEPT ![k] = n]
           e == [d EXCEPT !.items = items, !.newItem = nums]
<1>1. /\ x \in 1..MaxItems /\ n \in 1..(MaxItems + 1) /\ f \in Partial(1..MaxItems, BOOLEAN)
      /\ d.items \in [Kinds -> Partial(1..MaxItems, BOOLEAN)]
      /\ d.newItem \in [Kinds -> 1..(MaxItems + 1)]
  BY <1>0 DEF Databases
<1>2. CreateItem(d, k) = Done(e)
  BY DEF CreateItem, Databases
<1>3. is \in Partial(1..MaxItems, BOOLEAN)
  <2>1. TRUE \in BOOLEAN
    OBVIOUS
  <2> HIDE DEF f, x
  <2> QED  BY <1>1, <2>1, PartialAdd
<1>4. n = d.newItem[k] + 1
  OBVIOUS
<1> HIDE DEF is, n
<1>5. /\ items \in [Kinds -> Partial(1..MaxItems, BOOLEAN)]
      /\ nums \in [Kinds -> 1..(MaxItems + 1)]
      /\ \A j \in Kinds : nums[j] = IF j = k THEN n ELSE d.newItem[j]
  BY <1>1, <1>3
<1> HIDE DEF items, nums
<1>6. e \in Databases /\ e.clients = d.clients /\ e.newGroup = d.newGroup /\ e.newItem = nums
  BY <1>5 DEF Databases
<1> HIDE DEF e
<1> QED  BY <1>0, <1>2, <1>4, <1>5, <1>6, ServedDone

(* The items of one kind are replaced. *)
LEMMA ServedItems ==
  ASSUME NEW conf, NEW d \in Databases, NEW r, r.op \notin Reads \cup {"login"},
         NEW k \in Kinds, NEW is \in Partial(1..MaxItems, BOOLEAN),
         NEW e, e = [d EXCEPT !.items = [d.items EXCEPT ![k] = is]]
  PROVE  ServedOK(d, r, Done(e), conf)
<1> DEFINE items == [d.items EXCEPT ![k] = is]
<1>1. items \in [Kinds -> Partial(1..MaxItems, BOOLEAN)]
  BY DEF Databases
<1>2. e = [d EXCEPT !.items = items]
  OBVIOUS
<1> HIDE DEF items
<1>3. e \in Databases /\ e.clients = d.clients /\ e.newGroup = d.newGroup /\ e.newItem = d.newItem
  BY <1>1, <1>2 DEF Databases
<1> QED  BY <1>3, ServedDone

LEMMA ChangeItemOK ==
  ASSUME NEW conf, NEW d \in Databases, NEW r, r.op \notin Reads \cup {"login"}, NEW k \in Kinds,
         NEW x, NEW v \in BOOLEAN
  PROVE  /\ ServedOK(d, r, DeleteItem(d, k, x), conf)
         /\ ServedOK(d, r, ToggleRule(d, x, v), conf)
<1>0. 404 \in Codes /\ "rules" \in Kinds
  BY DEF Codes, Kinds
<1>1. ServedOK(d, r, DeleteItem(d, k, x), conf)
  <2>1. CASE x \notin DOMAIN d.items[k]
    BY <1>0, <2>1, ServedNotFound DEF DeleteItem, NotFound
  <2>2. CASE x \in DOMAIN d.items[k]
    <3> DEFINE f == d.items[k]
               is == Without(f, x)
               e == [d EXCEPT !.items = [d.items EXCEPT ![k] = is]]
    <3>1. f \in Partial(1..MaxItems, BOOLEAN)
      BY DEF Databases
    <3>2. is \in Partial(1..MaxItems, BOOLEAN)
      <4> HIDE DEF f
      <4> QED  BY <3>1, PartialWithout
    <3>3. DeleteItem(d, k, x) = Done(e)
      BY <2>2 DEF DeleteItem, Databases
    <3>4. e = [d EXCEPT !.items = [d.items EXCEPT ![k] = is]]
      OBVIOUS
    <3> HIDE DEF is, e
    <3> QED  BY <3>2, <3>3, <3>4, ServedItems
  <2> QED  BY <2>1, <2>2
<1>2. ServedOK(d, r, ToggleRule(d, x, v), conf)
  <2>1. CASE x \notin DOMAIN d.items["rules"]
    BY <1>0, <2>1, ServedNotFound DEF ToggleRule, NotFound
  <2>2. CASE x \in DOMAIN d.items["rules"]
    <3> DEFINE f == d.items["rules"]
               is == [f EXCEPT ![x] = v]
               e == [d EXCEPT !.items = [d.items EXCEPT !["rules"] = is]]
    <3>1. f \in Partial(1..MaxItems, BOOLEAN)
      BY <1>0 DEF Databases
    <3>2. is \in Partial(1..MaxItems, BOOLEAN)
      <4>1. x \in DOMAIN f
        BY <2>2
      <4> HIDE DEF f
      <4> QED  BY <3>1, <4>1, PartialSet
    <3>3. ToggleRule(d, x, v) = Done(e)
      BY <2>2, <1>0 DEF ToggleRule, Databases
    <3>4. e = [d EXCEPT !.items = [d.items EXCEPT !["rules"] = is]]
      OBVIOUS
    <3> HIDE DEF is, e
    <3> QED  BY <1>0, <3>2, <3>3, <3>4, ServedItems
  <2> QED  BY <2>1, <2>2
<1> QED  BY <1>1, <1>2

LEMMA UpdateSettingsOK ==
  ASSUME NEW conf, NEW d \in Databases, NEW r, r.op = "save", NEW s \in Sections, NEW t \in Texts
  PROVE  ServedOK(d, r, UpdateSettings(d, s, t), conf)
<1>0. r.op \notin Reads \cup {"login"}
  BY DEF Reads, Measured
<1> DEFINE ss == [d.settings EXCEPT ![s] = t]
           e == [d EXCEPT !.settings = ss]
<1>1. ss \in [Sections -> Texts]
  BY DEF Databases
<1>2. UpdateSettings(d, s, t) = Done(e)
  BY DEF UpdateSettings, Databases
<1> HIDE DEF ss
<1>3. e \in Databases /\ e.clients = d.clients /\ e.newGroup = d.newGroup /\ e.newItem = d.newItem
  BY <1>1 DEF Databases
<1> HIDE DEF e
<1> QED  BY <1>0, <1>2, <1>3, ServedDone

(* Reads. *)
LEMMA ListsOK ==
  ASSUME NEW d \in Databases
  PROVE  /\ ListClients(d) \in ClientLists /\ ListGroups(d) \in GroupLists
         /\ GetDashboard(d) \in Dashboards
<1>1. d.clients \in Partial(1..MaxClients, Clients) /\ d.groups \in Partial(1..MaxGroups, Names)
  BY DEF Databases
<1>2. /\ DOMAIN d.clients \subseteq 1..MaxClients /\ d.clients \in [DOMAIN d.clients -> Clients]
      /\ DOMAIN d.groups \subseteq 1..MaxGroups /\ d.groups \in [DOMAIN d.groups -> Names]
  BY <1>1, PartialOut
<1>3. ASSUME NEW S \in SUBSET (DOMAIN d.clients)
      PROVE  Cardinality(S) \in 0..MaxClients /\ Cardinality(S) \in Nat
  <2>1. MaxClients \in Nat
    BY PanelAssumption
  <2>2. IsFiniteSet(1..MaxClients) /\ Cardinality(1..MaxClients) = MaxClients
    BY <2>1, FS_Interval
  <2>3. IsFiniteSet(S) /\ Cardinality(S) <= Cardinality(1..MaxClients)
    BY <1>2, <2>2, FS_Subset
  <2>4. Cardinality(S) \in Nat
    BY <2>3, FS_CardinalityType
  <2> QED  BY <2>1, <2>2, <2>3, <2>4
<1>4. ListClients(d) \in ClientLists
  <2> DEFINE R == [groupId : GroupIds, status : {"online", "offline"}]
  <2>1. ListClients(d) \in [DOMAIN d.clients -> R]
    BY <1>2 DEF ListClients, Clients, GroupIds
  <2> HIDE DEF R
  <2>2. ListClients(d) \in Partial(1..MaxClients, R)
    BY <1>2, <2>1, PartialIn
  <2> QED  BY <2>2 DEF ClientLists, R
<1>5. ListGroups(d) \in GroupLists
  <2> DEFINE R == [name : Names, members : 0..MaxClients]
             n(g) == Cardinality({c \in DOMAIN d.clients : d.clients[c].group = g})
  <2>1. ASSUME NEW g \in DOMAIN d.groups  PROVE n(g) \in 0..MaxClients
    BY <1>3
  <2> HIDE DEF n
  <2>2. ListGroups(d) = [g \in DOMAIN d.groups |-> [name |-> d.groups[g], members |-> n(g)]]
    BY DEF ListGroups, n
  <2>3. ListGroups(d) \in [DOMAIN d.groups -> R]
    BY <1>2, <2>1, <2>2
  <2> HIDE DEF R
  <2>4. ListGroups(d) \in Partial(1..MaxGroups, R)
    BY <1>2, <2>3, PartialIn
  <2> QED  BY <2>4 DEF GroupLists, R
<1>6. GetDashboard(d) \in Dashboards
  <2> DEFINE on == {c \in DOMAIN d.clients : d.clients[c].enabled}
  <2>1. /\ Cardinality(DOMAIN d.clients) \in Nat /\ Cardinality(on) \in Nat
        /\ Cardinality(DOMAIN d.clients \ on) \in Nat
    BY <1>3
  <2>2. GetDashboard(d) = [totalClients |-> Cardinality(DOMAIN d.clients),
                           enabledClients |-> Cardinality(on),
                           disabledClients |-> Cardinality(DOMAIN d.clients \ on)]
    BY DEF GetDashboard
  <2> HIDE DEF on
  <2> QED  BY <2>1, <2>2 DEF Dashboards
<1> QED  BY <1>4, <1>5, <1>6

(* A read that is answered. *)
LEMMA ReadOK ==
  ASSUME NEW conf, NEW d \in Databases, NEW r, r.op \in Reads, r.op = "items" => r.id \in Kinds
  PROVE  ServedOK(d, r, Endpoint(d, r), conf)
<1>0. 200 \in Codes /\ r.op # "login"
  BY DEF Codes, Reads, Measured
<1>1. ASSUME NEW data \in Data,
             r.op = "clients"  => data \in ClientLists,
             r.op = "groups"   => data \in GroupLists,
             r.op = "items"    => data \in ItemLists,
             r.op = "settings" => data \in [Sections -> Texts]
      PROVE  ServedOK(d, r, Answer(d, 200, data), conf)
  <2>1. DataOK(r, [code |-> 200, data |-> data])
    BY <1>0, <1>1 DEF DataOK
  <2> QED  BY <1>0, <2>1, ServedSame
<1>2. CASE r.op = "clients"
  <2>1. Endpoint(d, r) = Answer(d, 200, ListClients(d))
    BY <1>2 DEF Endpoint, Measured
  <2>2. ListClients(d) \in ClientLists /\ ListClients(d) \in Data
    BY ListsOK DEF Data
  <2> QED  BY <1>1, <1>2, <2>1, <2>2
<1>3. CASE r.op = "groups"
  <2>1. Endpoint(d, r) = Answer(d, 200, ListGroups(d))
    BY <1>3 DEF Endpoint, Measured
  <2>2. ListGroups(d) \in GroupLists /\ ListGroups(d) \in Data
    BY ListsOK DEF Data
  <2> QED  BY <1>1, <1>3, <2>1, <2>2
<1>4. CASE r.op = "items"
  <2>1. Endpoint(d, r) = Answer(d, 200, d.items[r.id])
    BY <1>4 DEF Endpoint, Measured
  <2>2. d.items[r.id] \in ItemLists /\ d.items[r.id] \in Data
    BY <1>4 DEF Data, Databases, ItemLists
  <2> QED  BY <1>1, <1>4, <2>1, <2>2
<1>5. CASE r.op = "settings"
  <2>1. Endpoint(d, r) = Answer(d, 200, d.settings)
    BY <1>5 DEF Endpoint, Measured
  <2>2. d.settings \in [Sections -> Texts] /\ d.settings \in Data
    BY DEF Data, Databases
  <2> QED  BY <1>1, <1>5, <2>1, <2>2
<1>6. CASE r.op = "dash"
  <2>1. Endpoint(d, r) = Answer(d, 200, GetDashboard(d))
    BY <1>6 DEF Endpoint, Measured
  <2>2. GetDashboard(d) \in Data
    BY ListsOK DEF Data
  <2> QED  BY <1>1, <1>6, <2>1, <2>2
<1>7. CASE r.op \in Measured
  <2>1. Endpoint(d, r) = Answer(d, 200, "measured")
    BY <1>7 DEF Endpoint, Measured
  <2> QED  BY <1>1, <1>7, <2>1, NoneData DEF Measured
<1> QED  BY <1>2, <1>3, <1>4, <1>5, <1>6, <1>7 DEF Reads

(* Every request is served as it should be. *)
LEMMA HandleOK ==
  ASSUME NEW conf, NEW d \in Databases, NEW r, r.op \in Ops, ArgOK(r, conf),
         r.op = "newGroup" => d.newGroup <= MaxGroups,
         r.op = "newItem" => d.newItem[r.arg] <= MaxItems
  PROVE  ServedOK(d, r, Handle(d, r), conf)
<1>0. {200, 401} \subseteq Codes
  BY DEF Codes
<1>1. CASE r.op = "login"
  <2> DEFINE code == IF r.arg = AdminPassword THEN 200 ELSE 401
  <2>1. Handle(d, r) = Answer(d, code, None)
    BY <1>1 DEF Handle
  <2>2. code \in Codes /\ DataOK(r, [code |-> code, data |-> None])
    BY <1>0, <1>1 DEF DataOK
  <2> HIDE DEF code
  <2> QED  BY <2>1, <2>2, NoneData, ServedSame
<1>2. CASE r.op # "login" /\ r.tok # AdminPassword
  <2>1. Handle(d, r) = Answer(d, 401, None)
    BY <1>2 DEF Handle
  <2>2. DataOK(r, [code |-> 401, data |-> None])
    BY DEF DataOK
  <2> QED  BY <1>0, <2>1, <2>2, NoneData, ServedSame
<1>3. CASE r.op # "login" /\ r.tok = AdminPassword
  <2>0. Handle(d, r) = Endpoint(d, r)
    BY <1>3 DEF Handle
  <2> SUFFICES ServedOK(d, r, Endpoint(d, r), conf)
    BY <2>0
  <2>1. CASE r.op \in Reads
    BY <2>1, ReadOK DEF ArgOK
  <2>2. CASE r.op = "create"
    <3>1. Endpoint(d, r) = CreateClient(d, r.arg) /\ r.arg \in GroupIds
      BY <2>2 DEF Endpoint, Measured, ArgOK
    <3> QED  BY <2>2, <3>1, CreateClientOK
  <2>3. CASE r.op = "update"
    <3>1. Endpoint(d, r) = UpdateClient(d, r.id, r.arg) /\ r.arg \in GroupIds
      BY <2>3 DEF Endpoint, Measured, ArgOK
    <3> QED  BY <2>3, <3>1, ChangeClientOK
  <2>4. CASE r.op = "toggle"
    <3>1. Endpoint(d, r) = ToggleClient(d, r.id, r.arg) /\ r.arg \in BOOLEAN
      BY <2>4 DEF Endpoint, Measured, ArgOK
    <3> QED  BY <2>4, <3>1, ChangeClientOK
  <2>5. CASE r.op \in {"delete", "bulk"}
    <3>1. Endpoint(d, r) = DeleteClient(d, r.id) /\ r.id \in conf
      BY <2>5 DEF Endpoint, Measured, ArgOK
    <3> QED  BY <2>5, <3>1, DeleteClientOK
  <2>6. CASE r.op = "newGroup"
    <3>1. Endpoint(d, r) = CreateGroup(d, r.arg) /\ r.arg \in Names
      BY <2>6 DEF Endpoint, Measured, ArgOK
    <3> QED  BY <2>6, <3>1, CreateGroupOK
  <2>7. CASE r.op = "editGroup"
    <3>1. Endpoint(d, r) = UpdateGroup(d, r.id, r.arg) /\ r.arg \in Names
      BY <2>7 DEF Endpoint, Measured, ArgOK
    <3> QED  BY <2>7, <3>1, UpdateGroupOK
  <2>8. CASE r.op = "deleteGroup"
    <3>1. Endpoint(d, r) = DeleteGroup(d, r.id)
      BY <2>8 DEF Endpoint, Measured
    <3> QED  BY <2>8, <3>1, DeleteGroupOK
  <2>9. CASE r.op = "assign"
    <3>1. Endpoint(d, r) = AssignClients(d, r.id, r.arg)
      BY <2>9 DEF Endpoint, Measured
    <3> QED  BY <2>9, <3>1, AssignClientsOK
  <2>10. CASE r.op = "newItem"
    <3>1. Endpoint(d, r) = CreateItem(d, r.arg) /\ r.arg \in Kinds
      BY <2>10 DEF Endpoint, Measured, ArgOK
    <3> QED  BY <2>10, <3>1, CreateItemOK
  <2>11. CASE r.op = "deleteItem"
    <3>1. /\ Endpoint(d, r) = DeleteItem(d, r.arg, r.id) /\ r.arg \in Kinds
          /\ r.op \notin Reads \cup {"login"} /\ TRUE \in BOOLEAN
      BY <2>11 DEF Endpoint, Measured, ArgOK, Reads
    <3> QED  BY <3>1, ChangeItemOK
  <2>12. CASE r.op = "toggleRule"
    <3>1. /\ Endpoint(d, r) = ToggleRule(d, r.id, r.arg) /\ r.arg \in BOOLEAN
          /\ r.op \notin Reads \cup {"login"} /\ "rules" \in Kinds
      BY <2>12 DEF Endpoint, Measured, ArgOK, Reads, Kinds
    <3> QED  BY <3>1, ChangeItemOK
  <2>13. CASE r.op = "save"
    <3>1. Endpoint(d, r) = UpdateSettings(d, r.id, r.arg) /\ r.id \in Sections /\ r.arg \in Texts
      BY <2>13 DEF Endpoint, Measured, ArgOK
    <3> QED  BY <2>13, <3>1, UpdateSettingsOK
  <2> QED  BY <1>3, <2>1, <2>2, <2>3, <2>4, <2>5, <2>6, <2>7, <2>8, <2>9, <2>10, <2>11, <2>12,
              <2>13 DEF Ops, UsersOps, GroupsOps, ListOps
<1> QED  BY <1>1, <1>2, <1>3

-----------------------------------------------------------------------------
(* What the steps do to the requests.                                      *)

LEMMA KeptSelf ==
  ASSUME NEW conf, NEW rs, WellFormed(rs, conf)
  PROVE  KeptFrom(rs, rs)
<1> DEFINE f == [k \in 1..Len(rs) |-> k]
<1>1. rs \in Seq(Messages) /\ \A k \in 1..Len(rs) : RequestOK(rs[k], conf)
  BY DEF WellFormed
<1>2. /\ f \in [1..Len(rs) -> 1..Len(rs)]
      /\ \A j, k \in 1..Len(rs) : f[j] = f[k] => j = k
      /\ \A k \in 1..Len(rs) : f[k] = k
  OBVIOUS
<1>3. \A k \in 1..Len(rs) : Same(rs[k], rs[f[k]])
  BY <1>1, <1>2 DEF Same, RequestOK
<1> HIDE DEF f
<1> QED  BY <1>1, <1>2, <1>3 DEF KeptFrom

LEMMA ReqsWellFormed ==
  ASSUME RequestsOK
  PROVE  WellFormed(reqs, confirmed)
BY DEF RequestsOK, WellFormed

(* There is an id left for every request of those that stay. *)
LEMMA IdsKept ==
  ASSUME db \in Databases, IdsLeft, RequestsOK, UNCHANGED db,
         NEW rs, KeptFrom(rs, reqs), NEW new, Follows(new, confirmed), reqs' = rs \o new
  PROVE  IdsLeft'
<1>1. reqs \in Seq(Messages) /\ rs \in Seq(Messages)
  BY DEF RequestsOK, KeptFrom
<1>2. ASSUME NEW op \in {"newGroup", "newItem"}, NEW args
      PROVE  /\ Cardinality(Waiting(reqs', op, args)) <= Cardinality(Waiting(reqs, op, args))
             /\ Cardinality(Waiting(reqs', op, args)) \in Nat
             /\ Cardinality(Waiting(reqs, op, args)) \in Nat
  <2>0. new \in Seq(Messages) /\ \A k \in 1..Len(new) : new[k].op # op
    BY DEF Follows, WellFormed, Reads, Measured
  <2>1. Waiting(rs \o new, op, args) = Waiting(rs, op, args)
    BY <1>1, <2>0, FollowsWaiting
  <2>2. Cardinality(Waiting(rs, op, args)) <= Cardinality(Waiting(reqs, op, args))
    BY <1>1, KeptWaiting
  <2> QED  BY <1>1, <2>1, <2>2, WaitingFinite
<1>3. /\ db.newGroup \in Int /\ MaxGroups \in Int /\ MaxItems \in Int
      /\ \A k \in Kinds : db.newItem[k] \in Int
  BY PanelAssumption DEF Databases
<1>4. db.newGroup + Cardinality(Waiting(reqs', "newGroup", Names)) <= MaxGroups + 1
  BY <1>2, <1>3 DEF IdsLeft
<1>5. ASSUME NEW k \in Kinds
      PROVE  db.newItem[k] + Cardinality(Waiting(reqs', "newItem", {k})) <= MaxItems + 1
  <2> DEFINE a == Cardinality(Waiting(reqs', "newItem", {k}))
             b == Cardinality(Waiting(reqs, "newItem", {k}))
             n == db.newItem[k]
  <2>1. a <= b /\ a \in Nat /\ b \in Nat
    BY <1>2
  <2>2. n + b <= MaxItems + 1 /\ n \in Int
    BY <1>3 DEF IdsLeft
  <2> HIDE DEF a, b, n
  <2>3. n + a <= MaxItems + 1
    BY <2>1, <2>2, <1>3
  <2> QED  BY <2>3 DEF a, n
<1> QED  BY <1>4, <1>5 DEF IdsLeft

(* Some requests stay and new ones follow. *)
LEMMA RequestsNext ==
  ASSUME RequestsOK, UNCHANGED confirmed,
         NEW rs, KeptFrom(rs, reqs), NEW new, Follows(new, confirmed), reqs' = rs \o new,
         \A k \in 1..Len(rs) : LiveOK(rs[k])',
         \A k \in 1..Len(new) : new[k].live = "page" => authed' /\ new[k].op \in PageOps(page')
  PROVE  RequestsOK'
<1>1. WellFormed(rs, confirmed)
  BY ReqsWellFormed, KeptWellFormed
<1>2. WellFormed(reqs', confirmed)
  BY <1>1, FollowsWellFormed
<1>3. rs \in Seq(Messages) /\ new \in Seq(Messages)
  BY DEF KeptFrom, Follows, WellFormed
<1>4. \A k \in 1..Len(reqs') :
        \/ k \in 1..Len(rs) /\ reqs'[k] = rs[k]
        \/ k - Len(rs) \in 1..Len(new) /\ reqs'[k] = new[k - Len(rs)]
  BY <1>3, ConcatOK
<1>5. \A k \in 1..Len(new) : new[k].op # "login"
  BY DEF Follows, Reads, Measured
<1>6. \A k \in 1..Len(new) : LiveOK(new[k])'
  BY <1>5 DEF LiveOK
<1>7. ASSUME NEW i \in 1..Len(reqs'), NEW j \in 1..Len(reqs'),
             reqs'[i].op = "login", reqs'[j].op = "login"
      PROVE  i = j
  <2>1. /\ i \in 1..Len(rs) /\ reqs'[i] = rs[i]
        /\ j \in 1..Len(rs) /\ reqs'[j] = rs[j]
    BY <1>4, <1>5, <1>7
  <2>2. PICK f \in [1..Len(rs) -> 1..Len(reqs)] :
               /\ \A a, b \in 1..Len(rs) : f[a] = f[b] => a = b
               /\ \A k \in 1..Len(rs) : Same(rs[k], reqs[f[k]])
    BY DEF KeptFrom
  <2>3. reqs[f[i]].op = "login" /\ reqs[f[j]].op = "login"
    BY <1>7, <2>1, <2>2 DEF Same
  <2>4. f[i] = f[j]
    BY <2>1, <2>2, <2>3 DEF RequestsOK
  <2> QED  BY <2>1, <2>2, <2>4
<1>8. \A k \in 1..Len(reqs') : LiveOK(reqs[k])'
  BY <1>4, <1>6 DEF LiveOK
<1>9. reqs' \in Seq(Messages) /\ \A k \in 1..Len(reqs') : RequestOK(reqs'[k], confirmed')
  BY <1>2 DEF WellFormed
<1> QED  BY <1>7, <1>8, <1>9 DEF RequestsOK

(* The requests that stay keep whose they are. *)
LEMMA SubmittedNext ==
  ASSUME NEW rs \in Seq(Messages), NEW new, Follows(new, confirmed), reqs' = rs \o new
  PROVE  /\ \A k \in 1..Len(rs) : k \in 1..Len(reqs') /\ reqs'[k] = rs[k]
         /\ \A k \in 1..Len(reqs') : Submitted(reqs'[k]) => k \in 1..Len(rs) /\ reqs'[k] = rs[k]
<1>1. new \in Seq(Messages) /\ \A k \in 1..Len(new) : ~Submitted(new[k])
  BY DEF Follows, WellFormed, Reads, Measured, Submitted
<1>2. /\ \A k \in 1..Len(rs) : k \in 1..Len(reqs') /\ reqs'[k] = rs[k]
      /\ \A k \in 1..Len(reqs') :
           \/ k \in 1..Len(rs) /\ reqs'[k] = rs[k]
           \/ k - Len(rs) \in 1..Len(new) /\ reqs'[k] = new[k - Len(rs)]
  <2>1. Len(rs) \in Nat /\ Len(new) \in Nat /\ Len(reqs') = Len(rs) + Len(new)
    BY <1>1, ConcatOK
  <2> QED  BY <1>1, <2>1, ConcatOK
<1> QED  BY <1>1, <1>2

-----------------------------------------------------------------------------
(* Steps of one shape.                                                     *)

LEMMA RoutesOK ==
  ASSUME RouteOK
  PROVE  page \in Routes
BY AdminAssumption DEF RouteOK

(* An event of the page that changes its state only. *)
LEMMA LocalStep ==
  ASSUME IInv, authed, NEW s, Local(s), PageState(page, s),
         page = "users" => s.loading = st.loading,
         page = "groups" => Form(s)
  PROVE  IInv'
<1>1. /\ db' = db /\ reqs' = reqs /\ confirmed' = confirmed /\ st' = s
      /\ token' = token /\ authed' = authed /\ page' = page /\ filter' = filter /\ tour' = tour
  BY DEF Local, shell
<1>2. (db \in Databases)' /\ RouteOK' /\ IdsLeft'
  BY <1>1 DEF IInv, RouteOK, IdsLeft
<1>3. ScreenOK'
  BY <1>1 DEF ScreenOK
<1>4. RequestsOK'
  <2>1. \A i \in 1..Len(reqs) : LiveOK(reqs[i])'
    BY <1>1 DEF IInv, RequestsOK, LiveOK
  <2> QED  BY <1>1, <2>1 DEF IInv, RequestsOK
<1>5. SubmitOK'
  BY <1>1 DEF IInv, SubmitOK, Shows
<1>6. FormOK'
  BY <1>1 DEF FormOK, Shows
<1> QED  BY <1>2, <1>3, <1>4, <1>5, <1>6 DEF IInv

(* The page reads. *)
LEMMA FetchStep ==
  ASSUME IInv, authed, NEW rs, Fetch(rs), Follows(rs, confirmed),
         \A k \in 1..Len(rs) : rs[k].op \in PageOps(page)
  PROVE  IInv'
<1>1. /\ db' = db /\ reqs' = reqs \o rs /\ confirmed' = confirmed /\ st' = st
      /\ token' = token /\ authed' = authed /\ page' = page /\ filter' = filter /\ tour' = tour
  BY DEF Fetch, shell
<1>2. (db \in Databases)' /\ RouteOK' /\ ScreenOK' /\ FormOK'
  BY <1>1 DEF IInv, RouteOK, ScreenOK, FormOK, Shows
<1>3. KeptFrom(reqs, reqs)
  BY ReqsWellFormed, KeptSelf DEF IInv
<1>4. IdsLeft'
  BY <1>1, <1>3, IdsKept DEF IInv
<1>5. RequestsOK'
  <2>1. RequestsOK /\ \A k \in 1..Len(reqs) : LiveOK(reqs[k])
    BY DEF IInv, RequestsOK
  <2>2. \A k \in 1..Len(reqs) : \A r : r = reqs[k] => LiveOK(r)'
    BY <1>1, <2>1 DEF LiveOK
  <2>3. \A k \in 1..Len(rs) : rs[k].live = "page" => authed' /\ rs[k].op \in PageOps(page')
    BY <1>1
  <2> QED  BY <1>1, <1>3, <2>1, <2>2, <2>3, RequestsNext
<1>6. SubmitOK'
  <2>1. reqs \in Seq(Messages)
    BY DEF IInv, RequestsOK
  <2>2. /\ \A k \in 1..Len(reqs) : k \in 1..Len(reqs') /\ reqs'[k] = reqs[k]
        /\ \A k \in 1..Len(reqs') : Submitted(reqs'[k]) => k \in 1..Len(reqs) /\ reqs'[k] = reqs[k]
    BY <1>1, <2>1, SubmittedNext
  <2> QED  BY <1>1, <2>2 DEF IInv, SubmitOK, Shows
<1> QED  BY <1>2, <1>4, <1>5, <1>6 DEF IInv

(* More deletions are confirmed. *)
LEMMA ConfirmMore ==
  ASSUME NEW conf, NEW ids, NEW r, RequestOK(r, conf)
  PROVE  RequestOK(r, conf \cup ids)
BY DEF RequestOK, ArgOK

(* One more request waits, or none. *)
LEMMA AppendWaiting ==
  ASSUME NEW rs \in Seq(Messages), NEW r \in Messages, NEW op, NEW args
  PROVE  /\ r.op = op /\ r.arg \in args =>
              Cardinality(Waiting(Append(rs, r), op, args))
                <= Cardinality(Waiting(rs, op, args)) + 1
         /\ ~(r.op = op /\ r.arg \in args) =>
              Waiting(Append(rs, r), op, args) = Waiting(rs, op, args)
<1> DEFINE S == Waiting(rs, op, args)
           T == Waiting(Append(rs, r), op, args)
           n == Len(rs) + 1
<1>1. /\ Append(rs, r) \in Seq(Messages) /\ Len(Append(rs, r)) = n
      /\ n \in Nat /\ n \notin 1..Len(rs)
      /\ \A k \in 1..Len(rs) : Append(rs, r)[k] = rs[k]
      /\ Append(rs, r)[n] = r
  OBVIOUS
<1>2. T \subseteq S \cup {n} /\ S \subseteq T
  BY <1>1 DEF Waiting
<1>3. ~(r.op = op /\ r.arg \in args) => n \notin T
  BY <1>1 DEF Waiting
<1>4. IsFiniteSet(S) /\ Cardinality(S) \in Nat
  BY WaitingFinite
<1>5. n \notin S
  BY <1>1 DEF Waiting
<1> HIDE DEF S, T, n
<1>6. IsFiniteSet(S \cup {n}) /\ Cardinality(S \cup {n}) = Cardinality(S) + 1
  BY <1>4, <1>5, FS_AddElement
<1>7. Cardinality(T) <= Cardinality(S) + 1
  BY <1>2, <1>6, FS_Subset
<1>8. ~(r.op = op /\ r.arg \in args) => T = S
  BY <1>2, <1>3
<1> QED  BY <1>7, <1>8 DEF S, T

(* The admin asks for a change. *)
LEMMA SubmitStep ==
  ASSUME IInv, authed, NEW s, NEW r, NEW ids, Submit(s, r, ids),
         RequestOK(r, confirmed \cup ids), r.op \in PageOps(page), r.op # "login",
         PageState(page, s),
         page = "groups" => Form(s),
         page = "users" => s.loading = (st.loading \/ Submitted(r)),
         page = "users" /\ Submitted(r) => ~st.loading,
         r.op = "newGroup" =>
           db.newGroup + Cardinality(Waiting(reqs, "newGroup", Names)) <= MaxGroups,
         r.op = "newItem" => \A k \in Kinds : r.arg = k =>
           db.newItem[k] + Cardinality(Waiting(reqs, "newItem", {k})) <= MaxItems
  PROVE  IInv'
<1>1. /\ db' = db /\ reqs' = Append(reqs, r) /\ confirmed' = confirmed \cup ids /\ st' = s
      /\ token' = token /\ authed' = authed /\ page' = page /\ filter' = filter /\ tour' = tour
  BY DEF Submit, shell
<1>2. (db \in Databases)' /\ RouteOK'
  BY <1>1 DEF IInv, RouteOK
<1>3. ScreenOK' /\ FormOK'
  BY <1>1 DEF ScreenOK, FormOK, Shows
<1>4. reqs \in Seq(Messages) /\ r \in Messages
  BY DEF IInv, RequestsOK, RequestOK
<1> DEFINE n == Len(reqs) + 1
<1>5. /\ reqs' \in Seq(Messages) /\ Len(reqs') = n /\ n \in 1..Len(reqs')
      /\ \A k \in 1..Len(reqs) : k \in 1..Len(reqs') /\ reqs'[k] = reqs[k]
      /\ reqs'[n] = r
      /\ \A k \in 1..Len(reqs') : k = n \/ (k \in 1..Len(reqs) /\ reqs'[k] = reqs[k])
  BY <1>1, <1>4
<1> HIDE DEF n
<1>6. IdsLeft'
  <2>1. /\ db.newGroup \in Int /\ MaxGroups \in Int /\ MaxItems \in Int
        /\ \A k \in Kinds : db.newItem[k] \in Int
    BY PanelAssumption DEF IInv, Databases
  <2>2. db.newGroup + Cardinality(Waiting(reqs', "newGroup", Names)) <= MaxGroups + 1
    <3> DEFINE a == Cardinality(Waiting(reqs', "newGroup", Names))
               b == Cardinality(Waiting(reqs, "newGroup", Names))
               m == db.newGroup
    <3>1. /\ r.op = "newGroup" /\ r.arg \in Names => a <= b + 1
          /\ ~(r.op = "newGroup" /\ r.arg \in Names) => a = b
      BY <1>1, <1>4, AppendWaiting
    <3>2. a \in Nat /\ b \in Nat /\ m \in Int
      BY <1>4, <1>5, <2>1, WaitingFinite
    <3>3. m + b <= MaxGroups + 1 /\ (r.op = "newGroup" => m + b <= MaxGroups)
      BY DEF IInv, IdsLeft
    <3> HIDE DEF a, b, m
    <3>4. m + a <= MaxGroups + 1
      BY <3>1, <3>2, <3>3, <2>1
    <3> QED  BY <3>4 DEF a, m
  <2>3. ASSUME NEW k \in Kinds
        PROVE  db.newItem[k] + Cardinality(Waiting(reqs', "newItem", {k})) <= MaxItems + 1
    <3> DEFINE K == {k}
               a == Cardinality(Waiting(reqs', "newItem", K))
               b == Cardinality(Waiting(reqs, "newItem", K))
               m == db.newItem[k]
    <3>1. /\ r.op = "newItem" /\ r.arg \in K => a <= b + 1
          /\ ~(r.op = "newItem" /\ r.arg \in K) => a = b
      <4> HIDE DEF K
      <4> QED  BY <1>1, <1>4, AppendWaiting
    <3>2. a \in Nat /\ b \in Nat /\ m \in Int
      <4> HIDE DEF K
      <4> QED  BY <1>4, <1>5, <2>1, WaitingFinite
    <3>3. m + b <= MaxItems + 1
      BY DEF IInv, IdsLeft
    <3>4. r.op = "newItem" /\ r.arg \in K => m + b <= MaxItems
      OBVIOUS
    <3> HIDE DEF a, b, m, K
    <3>5. m + a <= MaxItems + 1
      BY <3>1, <3>2, <3>3, <3>4, <2>1
    <3> QED  BY <3>5 DEF a, m, K
  <2> QED  BY <1>1, <2>2, <2>3 DEF IdsLeft
<1>7. RequestsOK'
  <2>1. \A k \in 1..Len(reqs) :
          /\ RequestOK(reqs[k], confirmed')
          /\ reqs[k].live = "page" => reqs[k].op \in PageOps(page)
          /\ reqs[k].op # "login"
    BY <1>1, ConfirmMore DEF IInv, RequestsOK, LiveOK
  <2>2. \A k \in 1..Len(reqs') :
          /\ RequestOK(reqs'[k], confirmed')
          /\ reqs'[k].live = "page" => reqs'[k].op \in PageOps(page)
          /\ reqs'[k].op # "login"
    BY <1>1, <1>5, <2>1
  <2>3. \A k \in 1..Len(reqs') : LiveOK(reqs[k])'
    BY <1>1, <2>2 DEF LiveOK
  <2> QED  BY <1>5, <2>2, <2>3 DEF RequestsOK
<1>8. SubmitOK'
  <2> SUFFICES ASSUME page = "users"
               PROVE  /\ (\E i \in 1..Len(reqs') : Submitted(reqs'[i])) <=> s.loading
                      /\ \A i, j \in 1..Len(reqs') :
                           Submitted(reqs'[i]) /\ Submitted(reqs'[j]) => i = j
    BY <1>1 DEF SubmitOK, Shows
  <2>1. /\ (\E i \in 1..Len(reqs) : Submitted(reqs[i])) <=> st.loading
        /\ \A i, j \in 1..Len(reqs) : Submitted(reqs[i]) /\ Submitted(reqs[j]) => i = j
    BY DEF IInv, SubmitOK, Shows
  <2> QED  BY <1>5, <2>1
<1> QED  BY <1>2, <1>3, <1>6, <1>7, <1>8 DEF IInv

-----------------------------------------------------------------------------
(* The clients page.                                                       *)

LEMMA UsersFacts ==
  ASSUME IInv, On("users")
  PROVE  /\ authed /\ page = "users" /\ st \in UsersStates
         /\ DOMAIN st.clients \subseteq 1..MaxClients
         /\ TableView(st).rows \subseteq DOMAIN st.clients
         /\ DisplayedUsers(st) \subseteq DOMAIN st.clients
         /\ token \in {None, AdminPassword}
<1>1. authed /\ page = "users" /\ st \in UsersStates /\ token \in {None, AdminPassword}
  BY DEF IInv, ScreenOK, PageState, On, RouteOK
<1>2. st.clients \in ClientLists
  BY <1>1 DEF UsersStates
<1>3. DOMAIN st.clients \subseteq 1..MaxClients
  BY <1>2, PartialOut DEF ClientLists
<1>4. DisplayedUsers(st) \subseteq DOMAIN st.clients
  BY DEF DisplayedUsers
<1>5. TableView(st).rows \subseteq DOMAIN st.clients
  BY <1>4 DEF TableView
<1> QED  BY <1>1, <1>3, <1>4, <1>5

LEMMA UsersLocal ==
  ASSUME IInv, On("users"), NEW s \in UsersStates, s.loading = st.loading, Local(s)
  PROVE  IInv'
<1>1. authed /\ page = "users"
  BY UsersFacts
<1>2. PageState(page, s)
  BY <1>1 DEF PageState, Kinds
<1> QED  BY <1>1, <1>2, LocalStep

LEMMA UsersSubmit ==
  ASSUME IInv, On("users"), NEW op \in UsersOps, NEW id \in Ids, NEW arg \in Args,
         NEW ids, NEW s \in UsersStates, NEW r, r = Request(op, id, arg), Submit(s, r, ids),
         op \in {"create", "update"} => arg \in GroupIds /\ ~st.loading,
         op = "toggle" => arg \in BOOLEAN,
         op \in {"delete", "bulk"} => id \in ids,
         op = "bulk" => arg \in SUBSET (1..MaxClients) /\ arg \subseteq ids,
         s.loading = (st.loading \/ op \in {"create", "update"})
  PROVE  IInv'
<1>1. authed /\ page = "users" /\ token \in {None, AdminPassword}
  BY UsersFacts
<1>2. PageState(page, s)
  BY <1>1 DEF PageState, Kinds
<1>3. op \in Ops
  BY DEF Ops
<1>4. r \in Messages /\ r.op = op /\ r.id = id /\ r.arg = arg /\ r.ans = None /\ r.live = "page"
  BY <1>1, <1>3, RequestFields
<1>5. RequestOK(r, confirmed \cup ids)
  BY <1>4 DEF RequestOK, ArgOK, UsersOps
<1>6. r.op \in PageOps(page) /\ r.op \notin {"login", "newGroup", "newItem"}
  BY <1>1, <1>4 DEF PageOps, UsersOps, Kinds
<1>7. Submitted(r) <=> op \in {"create", "update"}
  BY <1>4 DEF Submitted
<1> QED  BY <1>1, <1>2, <1>4, <1>5, <1>6, <1>7, SubmitStep

LEMMA NextDeletionOK ==
  ASSUME NEW ids \in SUBSET (1..MaxClients), ids # {}
  PROVE  LET c == Min(ids)
         IN  /\ NextDeletion(ids) = Request("bulk", c, ids \ {c})
             /\ c \in ids /\ c \in Ids /\ ids \ {c} \in Args /\ ids \ {c} \in SUBSET (1..MaxClients)
             /\ ids \ {c} \subseteq ids
<1>1. MaxClients \in Nat
  BY PanelAssumption
<1>2. Min(ids) \in ids
  BY <1>1, LeastElement
<1> QED  BY <1>2 DEF NextDeletion, Ids, ClientIds, Args

LEMMA UsersStep ==
  ASSUME IInv, UsersAction
  PROVE  IInv'
<1>0. /\ On("users") /\ authed /\ page = "users" /\ st \in UsersStates
      /\ DOMAIN st.clients \subseteq 1..MaxClients
      /\ TableView(st).rows \subseteq DOMAIN st.clients
      /\ DisplayedUsers(st) \subseteq DOMAIN st.clients
      /\ token \in {None, AdminPassword}
  BY UsersFacts DEF UsersAction
<1>1. CASE FetchUsers
  <2>1. "clients" \in PageOps(page) /\ "clients" \in Reads \ {"items"}
    BY <1>0 DEF PageOps, Reads, Kinds
  <2>2. /\ RequestOK(Get("clients"), confirmed) /\ Get("clients").ans = None
        /\ Get("clients").live = "page" /\ Get("clients").op = "clients"
    BY <1>0, <2>1, GetOK
  <2>3. Follows(<<Get("clients")>>, confirmed) /\ <<Get("clients")>>[1] = Get("clients")
        /\ Len(<<Get("clients")>>) = 1
    BY <2>1, <2>2, OneFollows
  <2> QED  BY <1>0, <1>1, <2>1, <2>2, <2>3, FetchStep DEF FetchUsers
<1>2. CASE ToggleSelectAll
  <2>1. PICK t \in SUBSET (1..MaxClients) : Local([st EXCEPT !.selectedUsers = t])
    BY <1>0, <1>2 DEF ToggleSelectAll, UsersStates
  <2> QED  BY <1>0, <2>1, UsersLocal DEF UsersStates
<1>3. CASE AddClient
  BY <1>0, <1>3, UsersLocal DEF AddClient, UsersStates, ClientIds
<1>4. CASE CloseSidebar
  BY <1>0, <1>4, UsersLocal DEF CloseSidebar, UsersStates
<1>5. CASE CloseQr
  BY <1>0, <1>5, UsersLocal DEF CloseQr, UsersStates, ClientIds
<1>6. ASSUME NEW g \in {None} \cup (1..MaxGroups), PickGroup(g)
      PROVE  IInv'
  BY <1>0, <1>6, UsersLocal DEF PickGroup, UsersStates, GroupIds
<1>7. ASSUME NEW c \in 1..MaxClients, ToggleUserSelection(c)
      PROVE  IInv'
  <2>1. PICK t \in SUBSET (1..MaxClients) : Local([st EXCEPT !.selectedUsers = t])
    BY <1>0, <1>7 DEF ToggleUserSelection, UsersStates
  <2> QED  BY <1>0, <2>1, UsersLocal DEF UsersStates
<1>8. ASSUME NEW c \in 1..MaxClients, OpenUserDetails(c)
      PROVE  IInv'
  BY <1>0, <1>8, UsersLocal DEF OpenUserDetails, UsersStates, ClientIds
<1>9. ASSUME NEW c \in 1..MaxClients, OpenQr(c)
      PROVE  IInv'
  BY <1>0, <1>9, UsersLocal DEF OpenQr, UsersStates, ClientIds
<1> DEFINE sent == [st EXCEPT !.loading = TRUE]
<1>10. sent \in UsersStates /\ sent.loading = TRUE /\ st.selectedGroupId \in GroupIds
       /\ st.selectedUser \in Ids /\ st.loading \in BOOLEAN
       /\ GroupIds \subseteq Args /\ None \in Ids /\ 1..MaxClients \subseteq Ids
  BY <1>0 DEF UsersStates, Ids, Args, ClientIds
<1>11. CASE HandleCreate
  <2>1. /\ ~st.loading /\ "create" \in UsersOps
        /\ Submit(sent, Request("create", None, st.selectedGroupId), {})
    BY <1>11 DEF HandleCreate, SidebarButtons, SidebarForm, UsersOps
  <2> HIDE DEF sent
  <2> QED  BY <1>0, <1>10, <2>1, UsersSubmit
<1>12. CASE HandleUpdate
  <2>1. /\ ~st.loading /\ "update" \in UsersOps
        /\ Submit(sent, Request("update", st.selectedUser, st.selectedGroupId), {})
    BY <1>12 DEF HandleUpdate, SidebarButtons, SidebarForm, UsersOps
  <2> HIDE DEF sent
  <2> QED  BY <1>0, <1>10, <2>1, UsersSubmit
<1>13. ASSUME NEW c \in 1..MaxClients, HandleToggle(c)
       PROVE  IInv'
  <2>1. PICK v \in BOOLEAN : Submit(st, Request("toggle", c, v), {})
    BY <1>13 DEF HandleToggle
  <2>2. "toggle" \in UsersOps /\ v \in Args
    BY DEF UsersOps, Args
  <2> QED  BY <1>0, <1>10, <2>1, <2>2, UsersSubmit
<1>14. ASSUME NEW c \in 1..MaxClients, HandleDelete(c)
       PROVE  IInv'
  <2>1. Submit(st, Request("delete", c, None), {c}) /\ "delete" \in UsersOps
    BY <1>14 DEF HandleDelete, UsersOps
  <2> QED  BY <1>0, <1>10, <2>1, NoneFits, UsersSubmit
<1>15. CASE HandleBulkDelete
  <2> DEFINE ids == st.selectedUsers
             c == Min(ids)
             rest == ids \ {c}
  <2>1. ids \in SUBSET (1..MaxClients) /\ ids # {} /\ "bulk" \in UsersOps
        /\ Submit(st, NextDeletion(ids), ids)
    BY <1>0, <1>15 DEF HandleBulkDelete, ToolbarView, UsersStates, UsersOps
  <2> HIDE DEF ids
  <2>2. /\ NextDeletion(ids) = Request("bulk", c, rest)
        /\ c \in ids /\ c \in Ids /\ rest \in Args /\ rest \in SUBSET (1..MaxClients)
        /\ rest \subseteq ids
    BY <2>1, NextDeletionOK
  <2> HIDE DEF c, rest
  <2> QED  BY <1>0, <1>10, <2>1, <2>2, UsersSubmit
<1> QED  BY <1>1, <1>2, <1>3, <1>4, <1>5, <1>6, <1>7, <1>8, <1>9, <1>11, <1>12, <1>13,
            <1>14, <1>15 DEF UsersAction

-----------------------------------------------------------------------------
(* The groups page.                                                        *)

LEMMA GroupsFacts ==
  ASSUME IInv, On("groups")
  PROVE  /\ authed /\ page = "groups" /\ st \in GroupsStates /\ Len(st.fills) <= MaxFills
         /\ Form(st)
         /\ DOMAIN st.clients \subseteq 1..MaxClients
         /\ DOMAIN st.groups \subseteq 1..MaxGroups
         /\ \A g \in DOMAIN st.groups : st.groups[g].name \in Names
         /\ token \in {None, AdminPassword}
<1>1. /\ authed /\ page = "groups" /\ st \in GroupsStates /\ Len(st.fills) <= MaxFills
      /\ token \in {None, AdminPassword} /\ Form(st)
  BY DEF IInv, ScreenOK, PageState, On, RouteOK, FormOK, Shows
<1>2. st.clients \in ClientLists /\ st.groups \in GroupLists
  BY <1>1 DEF GroupsStates
<1>3. DOMAIN st.clients \subseteq 1..MaxClients
  BY <1>2, PartialOut DEF ClientLists
<1>4. /\ DOMAIN st.groups \subseteq 1..MaxGroups
      /\ st.groups \in [DOMAIN st.groups -> [name : Names, members : 0..MaxClients]]
  BY <1>2, PartialOut DEF GroupLists
<1> QED  BY <1>1, <1>3, <1>4

LEMMA GroupsLocal ==
  ASSUME IInv, On("groups"), NEW s \in GroupsStates, Len(s.fills) <= MaxFills, Form(s), Local(s)
  PROVE  IInv'
<1>1. authed /\ page = "groups"
  BY GroupsFacts
<1>2. PageState(page, s)
  BY <1>1 DEF PageState, Kinds
<1> QED  BY <1>1, <1>2, LocalStep

LEMMA GroupsSubmit ==
  ASSUME IInv, On("groups"), NEW op \in GroupsOps, NEW id \in Ids, NEW arg \in Args,
         NEW r, r = Request(op, id, arg), Submit(st, r, {}),
         op \in {"newGroup", "editGroup"} => arg \in Names,
         op = "newGroup" => db.newGroup + Pending("newGroup") <= MaxGroups
  PROVE  IInv'
<1>1. /\ authed /\ page = "groups" /\ token \in {None, AdminPassword}
      /\ st \in GroupsStates /\ Len(st.fills) <= MaxFills /\ Form(st)
  BY GroupsFacts
<1>2. PageState(page, st)
  BY <1>1 DEF PageState, Kinds
<1>3. op \in Ops
  BY DEF Ops
<1>4. r \in Messages /\ r.op = op /\ r.id = id /\ r.arg = arg /\ r.ans = None /\ r.live = "page"
  BY <1>1, <1>3, RequestFields
<1>5. RequestOK(r, confirmed \cup {})
  BY <1>4 DEF RequestOK, ArgOK, GroupsOps
<1>6. r.op \in PageOps(page) /\ r.op \notin {"login", "newItem"}
  BY <1>1, <1>4 DEF PageOps, GroupsOps, Kinds
<1>7. op = "newGroup" =>
        db.newGroup + Cardinality(Waiting(reqs, "newGroup", Names)) <= MaxGroups
  <2> DEFINE S == Waiting(reqs, "newGroup", Names)
             T == {i \in DOMAIN reqs : reqs[i].op = "newGroup" /\ reqs[i].ans = None}
  <2>1. reqs \in Seq(Messages) /\ \A i \in 1..Len(reqs) : RequestOK(reqs[i], confirmed)
    BY DEF IInv, RequestsOK
  <2>2. \A i \in 1..Len(reqs) : reqs[i].op = "newGroup" => reqs[i].arg \in Names
    BY <2>1 DEF RequestOK, ArgOK
  <2>3. S = T
    BY <2>1, <2>2 DEF Waiting
  <2> HIDE DEF S, T
  <2> QED  BY <2>3 DEF Pending, S, T
<1> QED  BY <1>1, <1>2, <1>4, <1>5, <1>6, <1>7, SubmitStep

LEMMA TailOK ==
  ASSUME NEW M, NEW s \in Seq(M), s # <<>>
  PROVE  /\ Head(s) \in M /\ Tail(s) \in Seq(M) /\ Len(Tail(s)) = Len(s) - 1 /\ Len(s) \in Nat
         /\ Tail(s) = <<>> => Head(s) = s[Len(s)]
         /\ Tail(s) # <<>> => Tail(s)[Len(Tail(s))] = s[Len(s)]
<1>1. Len(s) \in Nat \ {0} /\ Head(s) = s[1] /\ Head(s) \in M
  OBVIOUS
<1>2. Tail(s) \in Seq(M) /\ Len(Tail(s)) = Len(s) - 1
      /\ \A k \in 1..(Len(s) - 1) : Tail(s)[k] = s[k + 1]
  <2>1. /\ Tail(s) \in Seq(M) /\ Len(Tail(s)) = Len(s) - 1
        /\ \A k \in 1..Len(Tail(s)) : Tail(s)[k] = s[k + 1]
    BY HeadTailProperties, Zenon
  <2> QED  BY <2>1
<1>3. Tail(s) = <<>> => Len(s) = 1
  <2> DEFINE t == Tail(s)
  <2>1. \A u : u = <<>> => Len(u) = 0
    OBVIOUS
  <2>2. Len(t) = Len(s) - 1
    BY <1>2
  <2> HIDE DEF t
  <2>3. t = <<>> => Len(s) = 1
    BY <1>1, <2>1, <2>2
  <2> QED  BY <2>3 DEF t
<1>4. Tail(s) # <<>> => Len(s) - 1 \in 1..(Len(s) - 1) /\ Len(s) - 1 + 1 = Len(s)
  <2>1. Tail(s) # <<>> => Len(Tail(s)) # 0
    BY <1>2, EmptySeq
  <2> QED  BY <1>1, <1>2, <2>1
<1> QED  BY <1>1, <1>2, <1>3, <1>4

LEMMA GroupsStep ==
  ASSUME IInv, GroupsAction
  PROVE  IInv'
<1>0. /\ On("groups") /\ authed /\ page = "groups" /\ st \in GroupsStates
      /\ Len(st.fills) <= MaxFills /\ Form(st)
      /\ DOMAIN st.clients \subseteq 1..MaxClients
      /\ DOMAIN st.groups \subseteq 1..MaxGroups
      /\ \A g \in DOMAIN st.groups : st.groups[g].name \in Names
      /\ token \in {None, AdminPassword}
  BY GroupsFacts DEF GroupsAction
<1>1. CASE NewGroup
  <2> DEFINE s == [Shown(st) EXCEPT !.editId = None, !.base = None]
  <2>1. s \in GroupsStates /\ s.fills = st.fills /\ s.base = None
    BY <1>0 DEF Shown, GroupsStates, GroupIds
  <2>2. Local(s)
    BY <1>1 DEF NewGroup
  <2> HIDE DEF s
  <2>3. Form(s)
    BY <2>1 DEF Form
  <2> QED  BY <1>0, <2>1, <2>2, <2>3, GroupsLocal
<1>2. CASE FillTimer
  <2> DEFINE n == IF st.showForm THEN Head(st.fills) ELSE st.name
             t == Tail(st.fills)
             s == [st EXCEPT !.fills = t, !.name = n]
  <2>1. st.fills \in Seq(Names) /\ st.fills # <<>>
    BY <1>0, <1>2 DEF FillTimer, GroupsStates
  <2>2. /\ Head(st.fills) \in Names /\ t \in Seq(Names) /\ Len(t) = Len(st.fills) - 1
        /\ Len(st.fills) \in Nat /\ MaxFills \in Nat
        /\ t = <<>> => Head(st.fills) = st.fills[Len(st.fills)]
        /\ t # <<>> => t[Len(t)] = st.fills[Len(st.fills)]
    BY <2>1, TailOK, GroupsAssumption
  <2>3. n \in {None} \cup Names
    BY <1>0, <2>2 DEF GroupsStates
  <2>4. Local(s)
    BY <1>2 DEF FillTimer
  <2>5. st.showForm => n = Head(st.fills)
    OBVIOUS
  <2> HIDE DEF n, t
  <2>6. /\ s \in GroupsStates /\ s.fills = t /\ s.name = n /\ s.base = st.base
        /\ s.showForm = st.showForm
    BY <1>0, <2>2, <2>3 DEF GroupsStates
  <2> HIDE DEF s
  <2>7. Form(s)
    BY <1>0, <2>1, <2>2, <2>5, <2>6 DEF Form
  <2>8. Len(s.fills) <= MaxFills
    BY <1>0, <2>2, <2>6
  <2> QED  BY <1>0, <2>4, <2>6, <2>7, <2>8, GroupsLocal
<1>3. CASE CancelForm
  <2> DEFINE s == Hidden(st)
  <2>1. s \in GroupsStates /\ s.fills = st.fills /\ s.base = None
    BY <1>0 DEF Hidden, GroupsStates, GroupIds
  <2>2. Local(s)
    BY <1>3 DEF CancelForm
  <2> HIDE DEF s
  <2>3. Form(s)
    BY <2>1 DEF Form
  <2> QED  BY <1>0, <2>1, <2>2, <2>3, GroupsLocal
<1>4. CASE SaveGroup
  <2> DEFINE edit == Request("editGroup", st.editId, st.name)
             new == Request("newGroup", None, st.name)
  <2>1. /\ st.name \in Names /\ st.name \in Args /\ st.editId \in Ids
        /\ {"newGroup", "editGroup"} \subseteq GroupsOps
    BY <1>0, <1>4 DEF SaveGroup, GroupsStates, Args, Ids, GroupsOps
  <2>2. CASE st.editId # None
    <3>1. Submit(st, edit, {})
      BY <1>4, <2>2 DEF SaveGroup
    <3> QED  BY <1>0, <2>1, <3>1, GroupsSubmit
  <2>3. CASE st.editId = None
    <3>1. Submit(st, new, {}) /\ db.newGroup + Pending("newGroup") <= MaxGroups
      BY <1>4, <2>3 DEF SaveGroup
    <3> QED  BY <1>0, <2>1, <3>1, NoneFits, GroupsSubmit
  <2> QED  BY <2>2, <2>3
<1>5. CASE CloseAssignPanel
  <2> DEFINE s == [st EXCEPT !.assignGroupId = None]
  <2>1. /\ s \in GroupsStates /\ s.fills = st.fills /\ s.base = st.base
        /\ s.showForm = st.showForm /\ s.name = st.name
    BY <1>0 DEF GroupsStates, GroupIds
  <2>2. Local(s)
    BY <1>5 DEF CloseAssignPanel
  <2> HIDE DEF s
  <2> QED  BY <1>0, <2>1, <2>2, GroupsLocal DEF Form
<1>6. CASE HandleAssign
  <2>1. /\ st.assignGroupId \in Ids /\ st.selectedClients \in Args /\ "assign" \in GroupsOps
    BY <1>0 DEF GroupsStates, Args, Ids, GroupsOps
  <2>2. Submit(st, Request("assign", st.assignGroupId, st.selectedClients), {})
    BY <1>6 DEF HandleAssign
  <2> QED  BY <1>0, <2>1, <2>2, GroupsSubmit
<1>7. ASSUME NEW n \in Names, TypeName(n)
      PROVE  IInv'
  <2> DEFINE s == [st EXCEPT !.name = n, !.base = None]
  <2>1. s \in GroupsStates /\ s.fills = st.fills /\ s.base = None
    BY <1>0 DEF GroupsStates
  <2>2. Local(s)
    BY <1>7 DEF TypeName
  <2> HIDE DEF s
  <2>3. Form(s)
    BY <2>1 DEF Form
  <2> QED  BY <1>0, <2>1, <2>2, <2>3, GroupsLocal
<1>8. ASSUME NEW g \in 1..MaxGroups, StartEdit(g)
      PROVE  IInv'
  <2> DEFINE m == st.groups[g].name
             fs == Append(st.fills, m)
             s == [Shown(st) EXCEPT !.editId = g, !.base = m, !.fills = fs]
  <2>1. g \in DOMAIN st.groups /\ Len(st.fills) < MaxFills
    BY <1>8 DEF StartEdit, GroupsView
  <2>2. m \in Names /\ st.fills \in Seq(Names) /\ MaxFills \in Nat
    BY <1>0, <2>1, GroupsAssumption DEF GroupsStates
  <2> HIDE DEF m
  <2>3. /\ fs \in Seq(Names) /\ Len(fs) = Len(st.fills) + 1 /\ fs # <<>>
        /\ fs[Len(fs)] = m /\ Len(st.fills) \in Nat
    BY <2>2
  <2>4. Local(s)
    BY <1>0, <1>8 DEF StartEdit, Shown, GroupsStates, m
  <2> HIDE DEF fs
  <2>5. s \in GroupsStates /\ s.fills = fs /\ s.base = m /\ s.showForm
    BY <1>0, <2>2, <2>3 DEF GroupsStates, GroupIds, Shown
  <2> HIDE DEF s
  <2>6. Form(s) /\ Len(s.fills) <= MaxFills
    BY <2>1, <2>2, <2>3, <2>5 DEF Form
  <2> QED  BY <1>0, <2>4, <2>5, <2>6, GroupsLocal
<1>9. ASSUME NEW g \in 1..MaxGroups, RemoveGroup(g)
      PROVE  IInv'
  <2>1. g \in Ids /\ "deleteGroup" \in GroupsOps /\ Submit(st, Request("deleteGroup", g, None), {})
    BY <1>9 DEF RemoveGroup, Ids, GroupIds, GroupsOps
  <2> QED  BY <1>0, <2>1, NoneFits, GroupsSubmit
<1>10. ASSUME NEW g \in 1..MaxGroups, OpenAssignPanel(g)
       PROVE  IInv'
  <2> DEFINE s == [st EXCEPT !.assignGroupId = g, !.selectedClients = {}]
  <2>1. /\ s \in GroupsStates /\ s.fills = st.fills /\ s.base = st.base
        /\ s.showForm = st.showForm /\ s.name = st.name
    BY <1>0 DEF GroupsStates, GroupIds
  <2>2. Local(s)
    BY <1>10 DEF OpenAssignPanel
  <2> HIDE DEF s
  <2> QED  BY <1>0, <2>1, <2>2, GroupsLocal DEF Form
<1>11. ASSUME NEW c \in 1..MaxClients, ToggleClientSelection(c)
       PROVE  IInv'
  <2>1. PICK t \in SUBSET (1..MaxClients) : Local([st EXCEPT !.selectedClients = t])
    BY <1>0, <1>11 DEF ToggleClientSelection, GroupsStates
  <2> DEFINE s == [st EXCEPT !.selectedClients = t]
  <2>2. /\ s \in GroupsStates /\ s.fills = st.fills /\ s.base = st.base
        /\ s.showForm = st.showForm /\ s.name = st.name
    BY <1>0 DEF GroupsStates
  <2>3. Local(s)
    BY <2>1
  <2> HIDE DEF s
  <2> QED  BY <1>0, <2>2, <2>3, GroupsLocal DEF Form
<1> QED  BY <1>1, <1>2, <1>3, <1>4, <1>5, <1>6, <1>7, <1>8, <1>9, <1>10, <1>11 DEF GroupsAction

-----------------------------------------------------------------------------
(* The lists, the settings, the keys, and the pages that read again.       *)

LEMMA ListFacts ==
  ASSUME IInv, OnList
  PROVE  authed /\ page \in Kinds /\ st \in ListStates /\ token \in {None, AdminPassword}
BY DEF IInv, ScreenOK, PageState, OnList, RouteOK

LEMMA ListLocal ==
  ASSUME IInv, OnList, NEW s \in ListStates, Local(s)
  PROVE  IInv'
<1>1. authed /\ page \in Kinds
  BY ListFacts
<1>2. PageState(page, s) /\ page # "users" /\ page # "groups"
  BY <1>1 DEF PageState, Kinds
<1> QED  BY <1>1, <1>2, LocalStep

LEMMA ListSubmit ==
  ASSUME IInv, OnList, NEW op \in ListOps, NEW id \in Ids, NEW arg \in Args,
         NEW r, r = Request(op, id, arg), Submit(st, r, {}),
         op = "toggleRule" => arg \in BOOLEAN,
         op # "toggleRule" => arg = page,
         op = "newItem" => db.newItem[page] + Pending("newItem") <= MaxItems
  PROVE  IInv'
<1>1. authed /\ page \in Kinds /\ token \in {None, AdminPassword} /\ st \in ListStates
  BY ListFacts
<1>2. PageState(page, st) /\ page # "users" /\ page # "groups"
  BY <1>1 DEF PageState, Kinds
<1>3. op \in Ops
  BY DEF Ops
<1>4. r \in Messages /\ r.op = op /\ r.id = id /\ r.arg = arg /\ r.ans = None /\ r.live = "page"
  BY <1>1, <1>3, RequestFields
<1>5. RequestOK(r, confirmed \cup {})
  BY <1>1, <1>4 DEF RequestOK, ArgOK, ListOps
<1>6. r.op \in PageOps(page) /\ r.op \notin {"login", "newGroup"}
  BY <1>1, <1>4 DEF PageOps, ListOps, Kinds
<1>7. ASSUME op = "newItem", NEW k \in Kinds, k = page
      PROVE  db.newItem[k] + Cardinality(Waiting(reqs, "newItem", {k})) <= MaxItems
  <2> DEFINE S == Waiting(reqs, "newItem", {k})
             T == {i \in DOMAIN reqs : reqs[i].op = "newItem" /\ reqs[i].ans = None}
             n == db.newItem[k]
  <2>1. reqs \in Seq(Messages)
    BY DEF IInv, RequestsOK
  <2>2. S \subseteq T /\ T \subseteq 1..Len(reqs)
    BY <2>1 DEF Waiting
  <2>3. n + Pending("newItem") <= MaxItems /\ n \in Int /\ MaxItems \in Int
    BY <1>7, PanelAssumption DEF IInv, Databases
  <2> HIDE DEF S, T, n
  <2>4. 1 \in Int /\ Len(reqs) \in Int
    BY <2>1
  <2>5. IsFiniteSet(T)
    <3>1. IsFiniteSet(1..Len(reqs))
      BY <2>4, FS_Interval
    <3> QED  BY <2>2, <3>1, FS_Subset
  <2>6. Cardinality(S) <= Cardinality(T) /\ Cardinality(S) \in Nat /\ Cardinality(T) \in Nat
    BY <2>2, <2>5, FS_Subset, FS_CardinalityType
  <2>7. Pending("newItem") = Cardinality(T)
    BY DEF Pending, T
  <2>8. n + Cardinality(S) <= MaxItems
    BY <2>3, <2>6, <2>7
  <2> QED  BY <2>8 DEF S, n
<1>8. r.op = "newItem" => \A k \in Kinds : r.arg = k =>
        db.newItem[k] + Cardinality(Waiting(reqs, "newItem", {k})) <= MaxItems
  BY <1>4, <1>7
<1> QED  BY <1>1, <1>2, <1>4, <1>5, <1>6, <1>8, SubmitStep

LEMMA ListStep ==
  ASSUME IInv, ListAction
  PROVE  IInv'
<1>0. OnList /\ authed /\ page \in Kinds /\ st \in ListStates /\ token \in {None, AdminPassword}
  BY ListFacts DEF ListAction
<1>1. CASE ShowForm
  BY <1>0, <1>1, ListLocal DEF ShowForm, ListStates
<1>2. CASE CancelItem
  BY <1>0, <1>2, ListLocal DEF CancelItem, ListStates
<1>3. {"newItem", "deleteItem", "toggleRule"} \subseteq ListOps /\ page \in Args
      /\ BOOLEAN \subseteq Args /\ None \in Ids /\ 1..MaxItems \subseteq Ids
  BY <1>0, NoneFits DEF ListOps, Args, Ids
<1>4. ASSUME db.newItem[page] + Pending("newItem") <= MaxItems,
             CreateTemplate \/ CreateNode \/ CreateRule
      PROVE  IInv'
  <2>1. Submit(st, Request("newItem", None, page), {})
    BY <1>4 DEF CreateTemplate, CreateNode, CreateRule
  <2> QED  BY <1>0, <1>3, <1>4, <2>1, ListSubmit
<1>5. ASSUME NEW x \in 1..MaxItems, RemoveTemplate(x) \/ RemoveNode(x) \/ RemoveRule(x)
      PROVE  IInv'
  <2>1. Submit(st, Request("deleteItem", x, page), {})
    BY <1>5 DEF RemoveTemplate, RemoveNode, RemoveRule
  <2> QED  BY <1>0, <1>3, <2>1, ListSubmit
<1>6. ASSUME NEW x \in 1..MaxItems, SwitchRule(x)
      PROVE  IInv'
  <2>1. PICK v \in BOOLEAN : Submit(st, Request("toggleRule", x, v), {})
    BY <1>6 DEF SwitchRule
  <2> QED  BY <1>0, <1>3, <2>1, ListSubmit
<1> QED  BY <1>1, <1>2, <1>4, <1>5, <1>6 DEF ListAction

LEMMA SettingsStep ==
  ASSUME IInv, SettingsAction
  PROVE  IInv'
<1>0. /\ authed /\ page = "settings" /\ st \in SettingsStates /\ (st.saved => st.labels > 0)
      /\ token \in {None, AdminPassword} /\ MaxLabels \in Nat
  BY SettingsAssumption DEF IInv, ScreenOK, PageState, On, RouteOK, SettingsAction
<1>1. ASSUME NEW s \in SettingsStates, s.saved => s.labels > 0, Local(s)
      PROVE  IInv'
  <2>1. PageState(page, s)
    BY <1>0, <1>1 DEF PageState, Kinds
  <2> QED  BY <1>0, <1>1, <2>1, LocalStep
<1>2. CASE SavedTimer
  <2> DEFINE s == [st EXCEPT !.labels = st.labels - 1, !.saved = FALSE]
  <2>1. st.labels - 1 \in 0..MaxLabels
    BY <1>0, <1>2 DEF SavedTimer, SettingsStates
  <2>2. s \in SettingsStates /\ ~s.saved
    BY <1>0, <2>1 DEF SettingsStates
  <2>3. Local(s)
    BY <1>0, <1>2 DEF SavedTimer, SettingsStates
  <2> HIDE DEF s
  <2> QED  BY <1>1, <2>2, <2>3
<1>3. ASSUME NEW x \in Sections, TypeSetting(x)
      PROVE  IInv'
  <2> DEFINE in == [st.inputs EXCEPT ![x] = "typed"]
             tt == st.touched \cup {x}
             s == [st EXCEPT !.inputs = in, !.touched = tt]
  <2>1. in \in [Sections -> Texts] /\ tt \in SUBSET Sections
    BY <1>0 DEF SettingsStates, Texts
  <2>2. Local(s)
    BY <1>0, <1>3 DEF TypeSetting, SettingsStates
  <2> HIDE DEF in, tt
  <2>3. s \in SettingsStates /\ s.saved = st.saved /\ s.labels = st.labels
    BY <1>0, <2>1 DEF SettingsStates
  <2> HIDE DEF s
  <2> QED  BY <1>0, <1>1, <2>2, <2>3
<1>4. ASSUME NEW x \in Sections, SaveSection(x)
      PROVE  IInv'
  <2>1. PICK t \in Texts : Submit(st, Request("save", x, t), {})
    <3>1. st.inputs["bot"] \in Texts /\ st.inputs["server"] \in Texts
      BY <1>0 DEF SettingsStates, Sections
    <3> QED  BY <1>4, <3>1 DEF SaveSection, BotSection, ServerSection
  <2> DEFINE r == Request("save", x, t)
  <2>2. "save" \in Ops /\ x \in Ids /\ t \in Args
    BY DEF Ops, Ids, Args
  <2>3. r \in Messages /\ r.op = "save" /\ r.id = x /\ r.arg = t /\ r.ans = None /\ r.live = "page"
    BY <1>0, <2>2, RequestFields
  <2>4. Submit(st, r, {})
    BY <2>1
  <2> HIDE DEF r
  <2>5. RequestOK(r, confirmed \cup {})
    BY <2>3 DEF RequestOK, ArgOK
  <2>6. r.op \in PageOps(page) /\ PageState(page, st) /\ ~Submitted(r)
    BY <1>0, <2>3 DEF PageOps, PageState, Kinds, Submitted
  <2> QED  BY <1>0, <2>3, <2>4, <2>5, <2>6, SubmitStep
<1> QED  BY <1>2, <1>3, <1>4 DEF SettingsAction

LEMMA ProfilesStep ==
  ASSUME IInv, ProfilesAction
  PROVE  IInv'
<1>0. /\ authed /\ page = "profiles" /\ st \in ProfilesStates /\ (st.copied # None => st.labels > 0)
      /\ MaxLabels \in Nat
  BY SettingsAssumption DEF IInv, ScreenOK, PageState, On, ProfilesAction
<1>1. ASSUME NEW s \in ProfilesStates, s.copied # None => s.labels > 0, Local(s)
      PROVE  IInv'
  <2>1. PageState(page, s)
    BY <1>0, <1>1 DEF PageState, Kinds
  <2> QED  BY <1>0, <1>1, <2>1, LocalStep
<1>2. CASE CopiedTimer
  <2> DEFINE s == [st EXCEPT !.labels = st.labels - 1, !.copied = None]
  <2>1. st.labels - 1 \in 0..MaxLabels
    BY <1>0, <1>2 DEF CopiedTimer, ProfilesStates
  <2>2. s \in ProfilesStates /\ s.copied = None
    BY <1>0, <2>1 DEF ProfilesStates, ClientIds
  <2>3. Local(s)
    BY <1>0, <1>2 DEF CopiedTimer, ProfilesStates
  <2> HIDE DEF s
  <2> QED  BY <1>1, <2>2, <2>3
<1>3. ASSUME NEW c \in 1..MaxClients, CopyKey(c)
      PROVE  IInv'
  <2> DEFINE s == [st EXCEPT !.copied = c, !.labels = st.labels + 1]
  <2>1. st.labels + 1 \in 0..MaxLabels /\ st.labels + 1 > 0
    BY <1>0, <1>3 DEF CopyKey, ProfilesStates
  <2>2. s \in ProfilesStates /\ s.labels > 0
    BY <1>0, <2>1 DEF ProfilesStates, ClientIds
  <2>3. Local(s)
    BY <1>0, <1>3 DEF CopyKey, ProfilesStates
  <2> HIDE DEF s
  <2> QED  BY <1>1, <2>2, <2>3
<1> QED  BY <1>2, <1>3 DEF ProfilesAction

LEMMA RefreshStep ==
  ASSUME IInv, RefreshClients \/ FetchData
  PROVE  IInv'
<1>0. token \in {None, AdminPassword}
  BY DEF IInv, RouteOK
<1>1. CASE RefreshClients
  <2>1. "clients" \in PageOps(page) /\ "clients" \in Reads \ {"items"}
    BY <1>1 DEF RefreshClients, PageOps, Reads, Kinds
  <2>2. /\ RequestOK(Get("clients"), confirmed) /\ Get("clients").ans = None
        /\ Get("clients").live = "page" /\ Get("clients").op = "clients"
    BY <1>0, <2>1, GetOK
  <2>3. Follows(<<Get("clients")>>, confirmed) /\ <<Get("clients")>>[1] = Get("clients")
        /\ Len(<<Get("clients")>>) = 1
    BY <2>1, <2>2, OneFollows
  <2> QED  BY <1>1, <2>1, <2>2, <2>3, FetchStep DEF RefreshClients
<1>2. CASE FetchData
  BY <1>0, <1>2, HomeFollow, FetchStep DEF FetchData, On
<1> QED  BY <1>1, <1>2

-----------------------------------------------------------------------------
(* Mounting a page.                                                        *)

LEMMA KeptTrans ==
  ASSUME NEW a, NEW b, NEW c, KeptFrom(a, b), KeptFrom(b, c)
  PROVE  KeptFrom(a, c)
<1>1. PICK f \in [1..Len(a) -> 1..Len(b)] :
             /\ \A j, k \in 1..Len(a) : f[j] = f[k] => j = k
             /\ \A k \in 1..Len(a) : Same(a[k], b[f[k]])
  BY DEF KeptFrom
<1>2. PICK g \in [1..Len(b) -> 1..Len(c)] :
             /\ \A j, k \in 1..Len(b) : g[j] = g[k] => j = k
             /\ \A k \in 1..Len(b) : Same(b[k], c[g[k]])
  BY DEF KeptFrom
<1> DEFINE h == [k \in 1..Len(a) |-> g[f[k]]]
<1>3. h \in [1..Len(a) -> 1..Len(c)] /\ \A j, k \in 1..Len(a) : h[j] = h[k] => j = k
  BY <1>1, <1>2
<1>4. ASSUME NEW k \in 1..Len(a)  PROVE Same(a[k], c[h[k]])
  <2>1. f[k] \in 1..Len(b) /\ h[k] = g[f[k]]
    BY <1>1
  <2>2. Same(a[k], b[f[k]]) /\ Same(b[f[k]], c[h[k]])
    BY <1>1, <1>2, <2>1
  <2> QED  BY <2>2 DEF Same
<1> HIDE DEF h
<1> QED  BY <1>3, <1>4 DEF KeptFrom

LEMMA FreshQuiet ==
  Fresh("users").loading = FALSE /\ Form(Fresh("groups"))
<1>1. Fresh("users") = FreshUsers /\ Fresh("groups") = FreshGroups
  BY DEF Fresh, Kinds
<1> QED  BY <1>1 DEF FreshUsers, FreshGroups, Form

LEMMA MountStep ==
  ASSUME IInv, UNCHANGED <<db, tour, confirmed>>,
         page' \in tour.pages, filter' \in GroupIds, token' \in {None, AdminPassword},
         authed' = TRUE, st' = Fresh(page'),
         NEW rs, KeptFrom(rs, reqs),
         \A k \in 1..Len(rs) : rs[k].live # "page" /\ rs[k].op # "login",
         NEW new, Follows(new, confirmed),
         \A k \in 1..Len(new) : new[k].op \in PageOps(page'),
         reqs' = rs \o new
  PROVE  IInv'
<1>1. (db \in Databases)' /\ RouteOK'
  BY DEF IInv, RouteOK
<1>2. page' \in Routes
  BY AdminAssumption DEF IInv, RouteOK
<1>3. ScreenOK'
  BY <1>2, FreshOK DEF ScreenOK
<1>4. IdsLeft'
  BY IdsKept DEF IInv
<1>5. RequestsOK'
  <2>1. \A k \in 1..Len(rs) : LiveOK(rs[k])'
    BY DEF LiveOK
  <2>2. RequestsOK /\ confirmed' = confirmed
    BY DEF IInv
  <2> QED  BY <2>1, <2>2, RequestsNext
<1>6. SubmitOK'
  <2>1. rs \in Seq(Messages)
    BY DEF KeptFrom
  <2>2. \A k \in 1..Len(reqs') : ~Submitted(reqs'[k])
    BY <2>1, SubmittedNext DEF Submitted
  <2> QED  BY <2>2, FreshQuiet DEF SubmitOK, Shows
<1>7. FormOK'
  BY FreshQuiet DEF FormOK, Shows
<1> QED  BY <1>1, <1>3, <1>4, <1>5, <1>6, <1>7 DEF IInv

(* The document is loaded anew. *)
LEMMA BootStep ==
  ASSUME IInv, NEW t \in {None, AdminPassword}, NEW rs, KeptFrom(rs, reqs), Boot(t, rs)
  PROVE  IInv'
<1> DEFINE old == AsGone(rs)
           new == IF t # None THEN Mounted(page) ELSE <<>>
<1>1. /\ token' = t /\ authed' = (t # None) /\ st' = (IF t # None THEN Fresh(page) ELSE FreshLogin)
      /\ reqs' = old \o new
      /\ UNCHANGED <<db, page, filter, tour, confirmed>>
  BY DEF Boot
<1>2. WellFormed(rs, confirmed)
  BY ReqsWellFormed, KeptWellFormed DEF IInv
<1>3. /\ KeptFrom(old, rs)
      /\ \A k \in 1..Len(old) : old[k].live = "gone" /\ old[k].op # "login"
  BY <1>2, KeptAsGone
<1>4. page \in Routes /\ token \in {None, AdminPassword} /\ page \in tour.pages /\ filter \in GroupIds
  BY RoutesOK DEF IInv, RouteOK
<1>5. Follows(Mounted(page), confirmed)
      /\ \A k \in 1..Len(Mounted(page)) : Mounted(page)[k].op \in PageOps(page)
  BY <1>4, MountedOK
<1> HIDE DEF old
<1>6. KeptFrom(old, reqs)
  BY <1>3, KeptTrans
<1>7. CASE t # None
  <2>1. new = Mounted(page)
    BY <1>7
  <2> HIDE DEF new
  <2>2. authed' = TRUE /\ token' \in {None, AdminPassword} /\ page' \in tour.pages
        /\ filter' \in GroupIds /\ st' = Fresh(page')
    BY <1>1, <1>4, <1>7
  <2>3. \A k \in 1..Len(new) : new[k].op \in PageOps(page')
    BY <1>1, <1>5, <2>1
  <2>4. \A k \in 1..Len(old) : old[k].live # "page" /\ old[k].op # "login"
    BY <1>3
  <2>5. Follows(new, confirmed)
    BY <1>5, <2>1
  <2> QED  BY <1>1, <1>6, <2>2, <2>3, <2>4, <2>5, MountStep
<1>8. CASE t = None
  <2>1. new = <<>> /\ authed' = FALSE /\ st' = FreshLogin
    BY <1>1, <1>8
  <2>2. Follows(new, confirmed) /\ Len(new) = 0
    BY <2>1, NoneFollows
  <2> HIDE DEF new
  <2>3. (db \in Databases)' /\ RouteOK'
    BY <1>1, <2>1 DEF IInv, RouteOK
  <2>4. ScreenOK' /\ FormOK' /\ SubmitOK'
    BY <2>1 DEF ScreenOK, FormOK, SubmitOK, Shows, LoginStates, FreshLogin
  <2>5. IdsLeft'
    BY <1>1, <1>6, <2>2, IdsKept DEF IInv
  <2>6. RequestsOK'
    <3>1. \A k \in 1..Len(old) : LiveOK(old[k])'
      BY <1>3 DEF LiveOK
    <3>2. RequestsOK /\ confirmed' = confirmed
      BY <1>1 DEF IInv
    <3> QED  BY <1>1, <1>6, <2>2, <3>1, <3>2, RequestsNext
  <2> QED  BY <2>3, <2>4, <2>5, <2>6 DEF IInv
<1> QED  BY <1>7, <1>8

LEMMA ReloadStep ==
  ASSUME IInv, ReloadPage
  PROVE  IInv'
<1>1. KeptFrom(reqs, reqs)
  BY ReqsWellFormed, KeptSelf DEF IInv
<1>2. Boot(token, reqs) /\ token \in {None, AdminPassword}
  BY DEF ReloadPage, IInv, RouteOK
<1> QED  BY <1>1, <1>2, BootStep

LEMMA UnauthorizedStep ==
  ASSUME IInv, NEW i \in 1..Len(reqs), Unauthorized(i)
  PROVE  IInv'
<1>1. KeptFrom(RemoveAt(reqs, i), reqs)
  BY ReqsWellFormed, KeptRemoveAt DEF IInv
<1>2. Boot(None, RemoveAt(reqs, i))
  BY DEF Unauthorized
<1> QED  BY <1>1, <1>2, BootStep

LEMMA NavigateStep ==
  ASSUME IInv, NEW p, NEW g \in GroupIds, Navigate(p, g)
  PROVE  IInv'
<1>1. /\ authed /\ p \in tour.pages /\ page' = p /\ filter' = g
      /\ UNCHANGED <<db, token, authed, tour, confirmed>>
  BY DEF Navigate
<1>2. CASE p = page
  <2>1. UNCHANGED <<st, reqs>>
    BY <1>2 DEF Navigate
  <2>2. RouteOK' /\ ScreenOK' /\ (db \in Databases)' /\ IdsLeft' /\ SubmitOK' /\ FormOK'
    BY <1>1, <1>2, <2>1 DEF IInv, RouteOK, ScreenOK, IdsLeft, SubmitOK, FormOK, Shows
  <2>3. RequestsOK'
    BY <1>1, <1>2, <2>1 DEF IInv, RequestsOK, LiveOK
  <2> QED  BY <2>2, <2>3 DEF IInv
<1>3. CASE p # page
  <2> DEFINE old == AsLeft(reqs)
             new == Mounted(p)
  <2>1. st' = Fresh(p) /\ reqs' = old \o new
    BY <1>3 DEF Navigate
  <2>2. WellFormed(reqs, confirmed)
    BY ReqsWellFormed DEF IInv
  <2>3. /\ KeptFrom(old, reqs) /\ Len(old) = Len(reqs)
        /\ \A k \in 1..Len(reqs) : old[k].live # "page"
    BY <2>2, KeptAsLeft
  <2>4. \A k \in 1..Len(old) : old[k].op # "login"
    <3>1. \A k \in 1..Len(reqs) : reqs[k].op # "login"
      BY <1>1 DEF IInv, RequestsOK, LiveOK
    <3> HIDE DEF old
    <3> QED  BY <2>3, <3>1 DEF KeptFrom, Same
  <2>5. p \in Routes /\ token \in {None, AdminPassword}
    BY <1>1, AdminAssumption DEF IInv, RouteOK
  <2>6. Follows(new, confirmed) /\ \A k \in 1..Len(new) : new[k].op \in PageOps(p)
    BY <2>5, MountedOK
  <2> HIDE DEF old, new
  <2>7. \A k \in 1..Len(old) : old[k].live # "page" /\ old[k].op # "login"
    BY <2>3, <2>4
  <2>8. \A k \in 1..Len(new) : new[k].op \in PageOps(page')
    BY <1>1, <2>6
  <2>9. authed' = TRUE /\ token' \in {None, AdminPassword} /\ page' \in tour.pages
        /\ filter' \in GroupIds /\ st' = Fresh(page')
    BY <1>1, <2>1, <2>5 DEF IInv, RouteOK
  <2> QED  BY <1>1, <2>1, <2>3, <2>6, <2>7, <2>8, <2>9, MountStep
<1> QED  BY <1>2, <1>3

(* The requests but one, in their order. *)
Removal(new, rs, i) ==
  /\ new \in Seq(Messages)
  /\ \E f \in [1..Len(new) -> 1..Len(rs)] :
       /\ \A j, k \in 1..Len(new) : f[j] = f[k] => j = k
       /\ \A k \in 1..Len(new) : f[k] # i /\ new[k] = rs[f[k]]
       /\ \A j \in 1..Len(rs) : j # i => \E k \in 1..Len(new) : f[k] = j

LEMMA RemovedAt ==
  ASSUME NEW rs \in Seq(Messages), NEW i \in 1..Len(rs)
  PROVE  Removal(RemoveAt(rs, i), rs, i)
<1> DEFINE new == RemoveAt(rs, i)
           f == [k \in 1..Len(new) |-> IF k < i THEN k ELSE k + 1]
<1>1. /\ new \in Seq(Messages) /\ Len(new) = Len(rs) - 1 /\ Len(rs) \in Nat
      /\ \A k \in 1..(Len(rs) - 1) : new[k] = rs[IF k < i THEN k ELSE k + 1]
  BY RemoveAtOK
<1> HIDE DEF new
<1>2. f \in [1..Len(new) -> 1..Len(rs)]
  BY <1>1
<1>3. \A j, k \in 1..Len(new) : f[j] = f[k] => j = k
  BY <1>1
<1>4. \A k \in 1..Len(new) : f[k] # i /\ new[k] = rs[f[k]]
  BY <1>1
<1>5. ASSUME NEW j \in 1..Len(rs), j # i
      PROVE  \E k \in 1..Len(new) : f[k] = j
  <2>1. CASE j < i
    <3>1. j \in 1..Len(new) /\ f[j] = j
      BY <1>1, <2>1
    <3> QED  BY <3>1
  <2>2. CASE i < j
    <3>1. j - 1 \in 1..Len(new) /\ f[j - 1] = j
      BY <1>1, <2>2
    <3> QED  BY <3>1
  <2> QED  BY <1>1, <1>5, <2>1, <2>2
<1> HIDE DEF f
<1>6. Removal(new, rs, i)
  BY <1>1, <1>2, <1>3, <1>4, <1>5 DEF Removal
<1> QED  BY <1>6 DEF new

LEMMA RemovedFrom ==
  ASSUME NEW new, NEW rs, NEW i, Removal(new, rs, i)
  PROVE  \A k \in 1..Len(new) : \E j \in 1..Len(rs) : j # i /\ new[k] = rs[j]
<1>1. PICK f \in [1..Len(new) -> 1..Len(rs)] : \A k \in 1..Len(new) : f[k] # i /\ new[k] = rs[f[k]]
  BY DEF Removal
<1> QED  BY <1>1

LEMMA LoggedInStep ==
  ASSUME IInv, NEW i \in 1..Len(reqs), reqs[i].op = "login", reqs[i].ans # None,
         reqs[i].ans.code = 200, LoggedIn(i)
  PROVE  IInv'
<1> DEFINE rs == RemoveAt(reqs, i)
           m == Mounted(page)
           w == reqs[i].arg
           new == [k \in DOMAIN m |-> [m[k] EXCEPT !.tok = w]]
<1>1. /\ token' = w /\ authed' = TRUE /\ st' = Fresh(page) /\ reqs' = rs \o new
      /\ UNCHANGED <<db, page, filter, tour, confirmed>>
  BY DEF LoggedIn
<1>2. reqs \in Seq(Messages) /\ RequestOK(reqs[i], confirmed) /\ LiveOK(reqs[i])
  BY DEF IInv, RequestsOK
<1>3. w = AdminPassword
  BY <1>2 DEF RequestOK, DataOK
<1>4. ~authed
  BY <1>2 DEF LiveOK
<1>5. KeptFrom(rs, reqs)
  BY ReqsWellFormed, KeptRemoveAt DEF IInv
<1>6. \A k \in 1..Len(rs) : \E j \in 1..Len(reqs) : j # i /\ rs[k] = reqs[j]
  <2>1. Removal(rs, reqs, i)
    BY <1>2, RemovedAt
  <2> HIDE DEF rs
  <2> QED  BY <2>1, RemovedFrom
<1> HIDE DEF rs
<1>7. ASSUME NEW k \in 1..Len(rs)
      PROVE  rs[k].live # "page" /\ rs[k].op # "login"
  <2>1. PICK j \in 1..Len(reqs) : j # i /\ rs[k] = reqs[j]
    BY <1>6
  <2>2. reqs[j].op # "login"
    BY <2>1 DEF IInv, RequestsOK
  <2>3. reqs[j].live # "page"
    BY <1>4, <2>1, <2>2 DEF IInv, RequestsOK, LiveOK
  <2> QED  BY <2>1, <2>2, <2>3
<1>8. page \in Routes /\ token \in {None, AdminPassword} /\ page \in tour.pages /\ filter \in GroupIds
  BY RoutesOK DEF IInv, RouteOK
<1>9. Follows(m, confirmed) /\ \A k \in 1..Len(m) : m[k].op \in PageOps(page)
  <2>1. /\ Follows(Mounted(page), confirmed)
        /\ \A k \in 1..Len(Mounted(page)) : Mounted(page)[k].op \in PageOps(page) \cap Reads
    <3> HIDE DEF m, w, rs, new
    <3>1. page \in Routes /\ token \in {None, AdminPassword}
      BY <1>8
    <3> QED  BY ONLY <3>1, MountedOK
  <2> QED  BY <2>1
<1> HIDE DEF m, w
<1>10. m \in Seq(Messages) /\ new = [k \in 1..Len(m) |-> [m[k] EXCEPT !.tok = w]]
  BY <1>9 DEF Follows, WellFormed
<1>11. ASSUME NEW k \in 1..Len(m)
       PROVE  /\ RequestOK(new[k], confirmed) /\ new[k] \in Messages
              /\ new[k].op = m[k].op /\ new[k].ans = None
  <2>1. RequestOK(m[k], confirmed) /\ m[k].ans = None /\ m[k] \in Messages
    BY <1>9, <1>10 DEF Follows, WellFormed
  <2>2. new[k] = [m[k] EXCEPT !.tok = w]
    BY <1>10
  <2> HIDE DEF new
  <2>3. /\ new[k] \in Messages /\ new[k].op = m[k].op /\ new[k].id = m[k].id
        /\ new[k].arg = m[k].arg /\ new[k].ans = m[k].ans /\ new[k].live = m[k].live
    BY <1>3, <2>1, <2>2 DEF Messages
  <2> QED  BY <2>1, <2>3 DEF RequestOK, ArgOK
<1>12. new \in Seq(Messages) /\ Len(new) = Len(m)
  BY <1>10, <1>11
<1> HIDE DEF new
<1>13. Follows(new, confirmed)
  BY <1>9, <1>11, <1>12 DEF Follows, WellFormed
<1>14. \A k \in 1..Len(new) : new[k].op \in PageOps(page')
  BY <1>1, <1>9, <1>11, <1>12
<1>15. /\ authed' = TRUE /\ token' \in {None, AdminPassword} /\ page' \in tour.pages
       /\ filter' \in GroupIds /\ st' = Fresh(page')
  BY <1>1, <1>3, <1>8
<1>16. /\ IInv /\ UNCHANGED <<db, tour, confirmed>> /\ reqs' = rs \o new
       /\ \A k \in 1..Len(rs) : rs[k].live # "page" /\ rs[k].op # "login"
  BY <1>1, <1>7
<1> QED  BY ONLY <1>5, <1>13, <1>14, <1>15, <1>16, MountStep

LEMMA HandleSubmitStep ==
  ASSUME IInv, NEW w \in {AdminPassword, "wrong"}, HandleSubmit(w)
  PROVE  IInv'
<1> DEFINE r == Request("login", None, w)
           n == Len(reqs) + 1
<1>1. /\ ~authed /\ ~st.loading /\ st' = [loading |-> TRUE, error |-> FALSE]
      /\ reqs' = Append(reqs, r)
      /\ UNCHANGED <<db, token, authed, page, filter, tour, confirmed>>
  BY DEF HandleSubmit, LoginView, shell
<1>2. "login" \in Ops /\ w \in Args /\ token \in {None, AdminPassword}
  BY DEF Ops, Args, IInv, RouteOK
<1>3. r \in Messages /\ r.op = "login" /\ r.arg = w /\ r.ans = None /\ r.live = "page"
  BY <1>2, NoneFits, RequestFields
<1> HIDE DEF r
<1>4. RequestOK(r, confirmed)
  BY <1>3 DEF RequestOK, ArgOK
<1>5. reqs \in Seq(Messages) /\ \A k \in 1..Len(reqs) : RequestOK(reqs[k], confirmed) /\ LiveOK(reqs[k])
  BY DEF IInv, RequestsOK
<1>6. /\ reqs' \in Seq(Messages) /\ reqs'[n] = r
      /\ \A k \in 1..Len(reqs') : k = n \/ (k \in 1..Len(reqs) /\ reqs'[k] = reqs[k])
  BY <1>1, <1>3, <1>5
<1> HIDE DEF n
<1>7. \A k \in 1..Len(reqs) : reqs[k].op # "login"
  BY <1>1, <1>5 DEF LiveOK
<1>8. RequestsOK'
  <2>1. \A k \in 1..Len(reqs') : RequestOK(reqs'[k], confirmed')
    BY <1>1, <1>4, <1>5, <1>6
  <2>2. \A k \in 1..Len(reqs') :
          /\ reqs'[k].live = "page" => reqs'[k].op = "login"
          /\ reqs'[k].op = "login" => k = n
    BY <1>1, <1>3, <1>5, <1>6, <1>7 DEF LiveOK
  <2>3. ~authed' /\ st'.loading
    BY <1>1
  <2>4. \A k \in 1..Len(reqs') : LiveOK(reqs[k])'
    BY <1>3, <1>6, <2>2, <2>3 DEF LiveOK
  <2> QED  BY <1>6, <2>1, <2>2, <2>4 DEF RequestsOK
<1>9. IdsLeft'
  <2>1. Waiting(reqs', "newGroup", Names) = Waiting(reqs, "newGroup", Names)
    BY <1>1, <1>3, <1>5, AppendWaiting
  <2>2. ASSUME NEW k \in Kinds
        PROVE  Waiting(reqs', "newItem", {k}) = Waiting(reqs, "newItem", {k})
    <3> DEFINE K == {k}
    <3> HIDE DEF K
    <3>1. Waiting(reqs', "newItem", K) = Waiting(reqs, "newItem", K)
      BY <1>1, <1>3, <1>5, AppendWaiting
    <3> QED  BY <3>1 DEF K
  <2> QED  BY <1>1, <2>1, <2>2 DEF IInv, IdsLeft
<1>10. (db \in Databases)' /\ RouteOK'
  BY <1>1 DEF IInv, RouteOK
<1>11. ScreenOK' /\ SubmitOK' /\ FormOK'
  BY <1>1 DEF ScreenOK, SubmitOK, FormOK, Shows, LoginStates
<1> QED  BY <1>8, <1>9, <1>10, <1>11 DEF IInv

LEMMA OtherTabStep ==
  ASSUME IInv, OtherTab
  PROVE  IInv'
<1>1. UNCHANGED <<db, authed, page, filter, tour, st, reqs, confirmed>>
      /\ token' \in {None, AdminPassword}
  BY DEF OtherTab
<1>2. RouteOK' /\ (db \in Databases)' /\ ScreenOK' /\ IdsLeft' /\ SubmitOK' /\ FormOK'
  BY <1>1 DEF IInv, RouteOK, ScreenOK, IdsLeft, SubmitOK, FormOK, Shows
<1>3. RequestsOK'
  BY <1>1 DEF IInv, RequestsOK, LiveOK
<1> QED  BY <1>2, <1>3 DEF IInv

-----------------------------------------------------------------------------
(* Answers.                                                                *)

(* What is sent on behalf of a page is that page's. *)
SentAs(m, l) == [k \in DOMAIN m |-> [m[k] EXCEPT !.live = l]]

Relabelled(new, m, l, conf) ==
  /\ Follows(new, conf) /\ Len(new) = Len(m)
  /\ \A k \in 1..Len(m) : new[k].live = l /\ new[k].op = m[k].op

LEMMA SentFor ==
  ASSUME NEW conf, NEW m, Follows(m, conf), NEW l \in {"page", "left", "gone"}
  PROVE  Relabelled(SentAs(m, l), m, l, conf)
<1> DEFINE new == SentAs(m, l)
<1>1. m \in Seq(Messages) /\ \A k \in 1..Len(m) : m[k].op \in Reads \cup {"bulk"}
  BY DEF Follows, WellFormed
<1>2. new = [k \in 1..Len(m) |-> [m[k] EXCEPT !.live = l]]
  BY <1>1 DEF SentAs
<1> HIDE DEF new
<1>3. ASSUME NEW k \in 1..Len(m)
      PROVE  /\ RequestOK(new[k], conf) /\ new[k] \in Messages
             /\ new[k].op = m[k].op /\ new[k].ans = None /\ new[k].live = l
  <2>1. RequestOK(m[k], conf) /\ m[k].ans = None /\ m[k] \in Messages
    BY <1>1 DEF Follows, WellFormed
  <2>2. new[k] = [m[k] EXCEPT !.live = l]
    BY <1>2
  <2>3. /\ new[k] \in Messages /\ new[k].op = m[k].op /\ new[k].id = m[k].id
        /\ new[k].arg = m[k].arg /\ new[k].ans = m[k].ans /\ new[k].live = l
    BY <2>1, <2>2 DEF Messages
  <2> QED  BY <2>1, <2>3 DEF RequestOK, ArgOK
<1>4. new \in Seq(Messages) /\ Len(new) = Len(m)
  BY <1>1, <1>2, <1>3
<1>5. Follows(new, conf)
  BY <1>1, <1>3, <1>4 DEF Follows, WellFormed
<1>6. Relabelled(new, m, l, conf)
  BY <1>3, <1>4, <1>5 DEF Relabelled
<1> QED  BY <1>6 DEF new

(* The code after an await. *)
LEMMA ResumeStep ==
  ASSUME IInv, NEW i \in 1..Len(reqs), NEW r, r = reqs[i], r.op # "login",
         NEW t, Resume(i, t), UNCHANGED <<db, shell, confirmed>>,
         Follows(t.send, confirmed),
         r.live = "page" =>
           /\ PageState(page, t.st)
           /\ page = "groups" => Form(t.st)
           /\ page = "users" => t.st.loading = (st.loading /\ ~Submitted(r))
           /\ \A k \in 1..Len(t.send) : t.send[k].op \in PageOps(page)
  PROVE  IInv'
<1> DEFINE rs == RemoveAt(reqs, i)
           m == t.send
           new == SentAs(m, r.live)
<1>1. /\ st' = (IF r.live = "page" THEN t.st ELSE st) /\ reqs' = rs \o new
      /\ db' = db /\ confirmed' = confirmed
      /\ token' = token /\ authed' = authed /\ page' = page /\ filter' = filter /\ tour' = tour
  BY DEF Resume, shell, SentAs
<1>2. /\ reqs \in Seq(Messages)
      /\ \A k \in 1..Len(reqs) : RequestOK(reqs[k], confirmed) /\ LiveOK(reqs[k])
      /\ RequestsOK
  BY DEF IInv, RequestsOK
<1>3. r.live \in {"page", "left", "gone"} /\ LiveOK(r)
  <2>1. r \in Messages /\ LiveOK(r)
    BY <1>2
  <2> QED  BY <2>1 DEF Messages
<1>4. r.live = "page" => authed
  BY <1>3 DEF LiveOK
<1>5. PICK f \in [1..Len(rs) -> 1..Len(reqs)] :
        /\ \A j, k \in 1..Len(rs) : f[j] = f[k] => j = k
        /\ \A k \in 1..Len(rs) : f[k] # i /\ rs[k] = reqs[f[k]]
        /\ \A j \in 1..Len(reqs) : j # i => \E k \in 1..Len(rs) : f[k] = j
  <2>1. Removal(rs, reqs, i)
    BY <1>2, RemovedAt
  <2> HIDE DEF rs, m, new
  <2> QED  BY <2>1 DEF Removal
<1>6. KeptFrom(rs, reqs) /\ rs \in Seq(Messages)
  BY <1>2, ReqsWellFormed, KeptRemoveAt DEF KeptFrom
<1> HIDE DEF rs, m
<1>7. /\ Follows(new, confirmed) /\ Len(new) = Len(m)
      /\ \A k \in 1..Len(new) : new[k].live = r.live /\ new[k].op = m[k].op
  <2>1. Follows(m, confirmed)
    BY DEF m
  <2> DEFINE l == r.live
  <2>2. l \in {"page", "left", "gone"} /\ new = SentAs(m, l)
    BY <1>3
  <2> HIDE DEF l, new
  <2>3. Relabelled(SentAs(m, l), m, l, confirmed)
    BY <2>1, <2>2, SentFor
  <2>4. Relabelled(new, m, l, confirmed)
    BY <2>2, <2>3
  <2> QED  BY <2>4 DEF l, Relabelled
<1> HIDE DEF new
<1>8. (db \in Databases)' /\ RouteOK'
  BY <1>1 DEF IInv, RouteOK
<1>9. ScreenOK' /\ FormOK'
  BY <1>1, <1>4 DEF IInv, ScreenOK, FormOK, Shows
<1>10. IdsLeft'
  BY <1>1, <1>6, <1>7, IdsKept DEF IInv
<1>11. RequestsOK'
  <2>1. \A k \in 1..Len(rs) : f[k] \in 1..Len(reqs) /\ LiveOK(rs[k])
    BY <1>2, <1>5
  <2>2. \A k \in 1..Len(rs) : \A x : x = rs[k] => LiveOK(x)'
    BY <1>1, <1>4, <2>1 DEF LiveOK
  <2>3. \A k \in 1..Len(new) : new[k].live = "page" => authed' /\ new[k].op \in PageOps(page')
    BY <1>1, <1>4, <1>7 DEF m
  <2> QED  BY <1>1, <1>2, <1>6, <1>7, <2>2, <2>3, RequestsNext
<1>12. SubmitOK'
  <2> SUFFICES ASSUME authed, page = "users"
               PROVE  /\ (\E k \in 1..Len(reqs') : Submitted(reqs'[k])) <=> st'.loading
                      /\ \A j, k \in 1..Len(reqs') :
                           Submitted(reqs'[j]) /\ Submitted(reqs'[k]) => j = k
    BY <1>1 DEF SubmitOK, Shows
  <2>1. /\ (\E k \in 1..Len(reqs) : Submitted(reqs[k])) <=> st.loading
        /\ \A j, k \in 1..Len(reqs) : Submitted(reqs[j]) /\ Submitted(reqs[k]) => j = k
    BY DEF IInv, SubmitOK, Shows
  <2>2. /\ \A k \in 1..Len(rs) : k \in 1..Len(reqs') /\ reqs'[k] = rs[k]
        /\ \A k \in 1..Len(reqs') : Submitted(reqs'[k]) => k \in 1..Len(rs) /\ reqs'[k] = rs[k]
    BY <1>1, <1>6, <1>7, SubmittedNext
  <2>3. ASSUME NEW j \in 1..Len(reqs'), NEW k \in 1..Len(reqs'),
               Submitted(reqs'[j]), Submitted(reqs'[k])
        PROVE  j = k
    <3>1. /\ j \in 1..Len(rs) /\ f[j] \in 1..Len(reqs) /\ Submitted(reqs[f[j]])
          /\ k \in 1..Len(rs) /\ f[k] \in 1..Len(reqs) /\ Submitted(reqs[f[k]])
      BY <1>5, <2>2, <2>3
    <3>2. f[j] = f[k]
      BY <2>1, <3>1
    <3> QED  BY <1>5, <3>1, <3>2
  <2>4. ASSUME NEW k \in 1..Len(reqs'), Submitted(reqs'[k])
        PROVE  st.loading /\ ~Submitted(r)
    <3>1. f[k] \in 1..Len(reqs) /\ f[k] # i /\ Submitted(reqs[f[k]])
      BY <1>5, <2>2, <2>4
    <3> QED  BY <2>1, <3>1
  <2>5. ASSUME st.loading, ~Submitted(r)
        PROVE  \E k \in 1..Len(reqs') : Submitted(reqs'[k])
    <3>1. PICK j \in 1..Len(reqs) : Submitted(reqs[j])
      BY <2>1, <2>5
    <3>2. PICK k \in 1..Len(rs) : f[k] = j
      BY <1>5, <2>5, <3>1
    <3> QED  BY <1>5, <2>2, <3>1, <3>2
  <2>6. st'.loading <=> (st.loading /\ ~Submitted(r))
    BY <1>1 DEF Submitted
  <2> QED  BY <2>3, <2>4, <2>5, <2>6
<1> QED  BY <1>8, <1>9, <1>10, <1>11, <1>12 DEF IInv

(* What the pages do with answers: the state is that of the page, and they *)
(* send what the page sends.                                               *)
LEMMA ReadAgain ==
  ASSUME NEW conf, NEW op \in Reads \ {"items"}, token \in {None, AdminPassword}
  PROVE  Follows(<<Get(op)>>, conf) /\ \A k \in 1..Len(<<Get(op)>>) : <<Get(op)>>[k].op = op
<1>1. /\ RequestOK(Get(op), conf) /\ Get(op).ans = None
      /\ Get(op).live = "page" /\ Get(op).op = op
  BY GetOK
<1>2. Follows(<<Get(op)>>, conf) /\ <<Get(op)>>[1] = Get(op) /\ Len(<<Get(op)>>) = 1
  BY <1>1, OneFollows
<1> QED  BY <1>1, <1>2

LEMMA BulkThenOK ==
  ASSUME NEW conf, token \in {None, AdminPassword}, NEW r, RequestOK(r, conf), r.op = "bulk", NEW s
  PROVE  /\ Follows(BulkThen(s, r).send, conf)
         /\ \A k \in 1..Len(BulkThen(s, r).send) : BulkThen(s, r).send[k].op \in {"clients", "bulk"}
         /\ s \in UsersStates => /\ BulkThen(s, r).st \in UsersStates
                                 /\ BulkThen(s, r).st.loading = s.loading
<1>1. CASE r.arg # {}
  <2> DEFINE ids == r.arg
             c == Min(ids)
             rest == ids \ {c}
             q == Request("bulk", c, rest)
  <2>1. ids \in SUBSET (1..MaxClients) /\ ids # {} /\ ids \subseteq conf
    BY <1>1 DEF RequestOK, ArgOK
  <2>2. BulkThen(s, r) = After(s, <<NextDeletion(ids)>>)
    BY <1>1 DEF BulkThen
  <2> HIDE DEF ids
  <2>3. /\ NextDeletion(ids) = q
        /\ c \in ids /\ c \in Ids /\ rest \in Args /\ rest \in SUBSET (1..MaxClients)
        /\ rest \subseteq ids
    BY <2>1, NextDeletionOK
  <2> HIDE DEF c, rest
  <2>4. "bulk" \in Ops
    BY DEF Ops, UsersOps
  <2>5. q \in Messages /\ q.op = "bulk" /\ q.id = c /\ q.arg = rest /\ q.ans = None /\ q.live = "page"
    BY <2>3, <2>4, RequestFields
  <2> HIDE DEF q
  <2>6. RequestOK(q, conf)
    BY <2>1, <2>3, <2>5 DEF RequestOK, ArgOK
  <2>7. Follows(<<q>>, conf) /\ <<q>>[1] = q /\ Len(<<q>>) = 1
    BY <2>5, <2>6, OneFollows
  <2>8. BulkThen(s, r).send = <<q>> /\ BulkThen(s, r).st = s
    BY <2>2, <2>3 DEF After
  <2> QED  BY <2>5, <2>7, <2>8
<1>2. CASE r.arg = {}
  <2>1. /\ BulkThen(s, r).send = <<Get("clients")>>
        /\ BulkThen(s, r).st = [s EXCEPT !.selectedUsers = {}]
    BY <1>2 DEF BulkThen, After
  <2>2. "clients" \in Reads \ {"items"}
    BY DEF Reads
  <2>3. /\ Follows(<<Get("clients")>>, conf)
        /\ \A k \in 1..Len(<<Get("clients")>>) : <<Get("clients")>>[k].op = "clients"
    BY <2>2, ReadAgain
  <2>4. s \in UsersStates => /\ BulkThen(s, r).st \in UsersStates
                             /\ BulkThen(s, r).st.loading = s.loading
    BY <2>1 DEF UsersStates
  <2> QED  BY <2>1, <2>3, <2>4
<1> QED  BY <1>1, <1>2

LEMMA UsersThenOK ==
  ASSUME NEW conf, token \in {None, AdminPassword}, NEW r, RequestOK(r, conf), r.op \in UsersOps,
         NEW s, NEW ok \in BOOLEAN,
         NEW t, t = UsersThen(s, r, ok) \/ t = UsersFail(s, r)
  PROVE  /\ Follows(t.send, conf)
         /\ \A k \in 1..Len(t.send) : t.send[k].op \in {"clients", "bulk"}
         /\ s \in UsersStates => /\ t.st \in UsersStates
                                 /\ t.st.loading = (s.loading /\ r.op \notin {"create", "update"})
<1>1. /\ Follows(<<Get("clients")>>, conf)
      /\ \A k \in 1..Len(<<Get("clients")>>) : <<Get("clients")>>[k].op = "clients"
  <2>1. "clients" \in Reads \ {"items"}
    BY DEF Reads
  <2> QED  BY <2>1, ReadAgain
<1>2. Follows(<<>>, conf) /\ \A k \in 1..Len(<<>>) : <<>>[k].op = "clients"
  BY NoneFollows
<1>3. CASE r.op \in {"create", "update"}
  <2>1. t.send = <<Get("clients")>> \/ t.send = <<>>
    BY <1>3 DEF UsersThen, UsersFail, SavedThen, After
  <2>2. t = SavedThen(s, r, ok) \/ t = After([s EXCEPT !.loading = FALSE], <<>>)
    BY <1>3 DEF UsersThen, UsersFail
  <2>3. s \in UsersStates => t.st \in UsersStates /\ t.st.loading = FALSE
    <3>1. CASE t = SavedThen(s, r, ok)
      <4> DEFINE b == ~(r.op = "create" /\ ok)
      <4>1. t.st = [s EXCEPT !.loading = FALSE, !.sidebarOpen = @ /\ b]
        BY <3>1 DEF SavedThen, After
      <4> QED  BY <4>1 DEF UsersStates
    <3>2. CASE t = After([s EXCEPT !.loading = FALSE], <<>>)
      BY <3>2 DEF UsersStates, After
    <3> QED  BY <2>2, <3>1, <3>2
  <2> QED  BY <1>1, <1>2, <1>3, <2>1, <2>3
<1>4. CASE r.op \in {"toggle", "delete"}
  <2>1. t.send = <<Get("clients")>> \/ t.send = <<>>
    BY <1>4 DEF UsersThen, UsersFail, DeletedThen, After
  <2>2. t.st = s \/ t.st = [s EXCEPT !.selectedUsers = @ \ {r.id}]
    <3>1. t = After(s, <<Get("clients")>>) \/ t = DeletedThen(s, r) \/ t = After(s, <<>>)
      BY <1>4 DEF UsersThen, UsersFail
    <3>2. CASE t = DeletedThen(s, r)
      BY <3>2 DEF DeletedThen, After
    <3>3. CASE t = After(s, <<Get("clients")>>) \/ t = After(s, <<>>)
      <4>1. t.st = s
        BY <3>3 DEF After
      <4> QED  BY <4>1
    <3> QED  BY <3>1, <3>2, <3>3
  <2>3. s \in UsersStates => t.st \in UsersStates /\ t.st.loading = s.loading /\ s.loading \in BOOLEAN
    BY <2>2 DEF UsersStates
  <2> QED  BY <1>1, <1>2, <1>4, <2>1, <2>3
<1>5. CASE r.op = "bulk"
  <2>1. t = BulkThen(s, r)
    BY <1>5 DEF UsersThen, UsersFail
  <2>2. s \in UsersStates => s.loading \in BOOLEAN
    BY DEF UsersStates
  <2> QED  BY <1>5, <2>1, <2>2, BulkThenOK
<1> QED  BY <1>3, <1>4, <1>5 DEF UsersOps

LEMMA GroupsThenOK ==
  ASSUME NEW conf, token \in {None, AdminPassword}, NEW r, RequestOK(r, conf), r.op \in GroupsOps,
         NEW s, NEW t, t = GroupsThen(s, r)
  PROVE  /\ Follows(t.send, conf)
         /\ \A k \in 1..Len(t.send) : t.send[k].op \in {"groups", "clients"}
         /\ s \in GroupsStates => /\ t.st \in GroupsStates
                                  /\ t.st.fills = s.fills
                                  /\ Form(s) => Form(t.st)
<1>1. /\ Follows(<<Get("groups")>>, conf)
      /\ \A k \in 1..Len(<<Get("groups")>>) : <<Get("groups")>>[k].op = "groups"
  <2>1. "groups" \in Reads \ {"items"}
    BY DEF Reads
  <2> QED  BY <2>1, ReadAgain
<1>2. LET rs == <<Get("groups"), Get("clients")>>
      IN  Follows(rs, conf) /\ \A k \in 1..Len(rs) : rs[k].op \in {"groups", "clients"}
  BY TwoFollow
<1>3. CASE r.op \in {"newGroup", "editGroup"}
  <2>1. t.send = <<Get("groups")>> /\ t.st = Hidden(s)
    BY <1>3 DEF GroupsThen, After
  <2>2. s \in GroupsStates => t.st \in GroupsStates /\ t.st.fills = s.fills /\ t.st.base = None
    BY <2>1 DEF GroupsStates, Hidden, GroupIds
  <2>3. t.st.base = None => Form(t.st)
    BY DEF Form
  <2> QED  BY <1>1, <2>1, <2>2, <2>3
<1>4. CASE r.op = "deleteGroup"
  <2>1. t.send = <<Get("groups"), Get("clients")>> /\ t.st = s
    BY <1>4 DEF GroupsThen, After
  <2> QED  BY <1>2, <2>1
<1>5. CASE r.op = "assign"
  <2>1. /\ t.send = <<Get("groups"), Get("clients")>>
        /\ t.st = [s EXCEPT !.assignGroupId = None, !.selectedClients = {}]
    BY <1>5 DEF GroupsThen, After
  <2>2. s \in GroupsStates => /\ t.st \in GroupsStates /\ t.st.fills = s.fills /\ t.st.base = s.base
                              /\ t.st.showForm = s.showForm /\ t.st.name = s.name
    BY <2>1 DEF GroupsStates, GroupIds
  <2>3. s \in GroupsStates /\ Form(s) => Form(t.st)
    BY <2>2 DEF Form
  <2> QED  BY <1>2, <2>1, <2>2, <2>3
<1> QED  BY <1>3, <1>4, <1>5 DEF GroupsOps

LEMMA ListThenOK ==
  ASSUME NEW conf, token \in {None, AdminPassword}, NEW r, RequestOK(r, conf), r.op \in ListOps,
         NEW s, NEW t, t = ListThen(s, r)
  PROVE  /\ Follows(t.send, conf)
         /\ \A k \in 1..Len(t.send) : t.send[k].op = "items"
         /\ s \in ListStates => t.st \in ListStates
<1> DEFINE k == KindOf(r)
<1>1. k \in Kinds
  BY DEF KindOf, RequestOK, ArgOK, ListOps, Kinds
<1>2. t.send = <<Load(k)>> /\ t.st = [s EXCEPT !.showForm = @ /\ r.op # "newItem"]
  BY DEF ListThen, After
<1> HIDE DEF k
<1>3. /\ RequestOK(Load(k), conf) /\ Load(k).ans = None
      /\ Load(k).live = "page" /\ Load(k).op = "items"
  BY <1>1, LoadOK
<1>4. "items" \in Reads
  BY DEF Reads
<1>5. Follows(<<Load(k)>>, conf) /\ <<Load(k)>>[1] = Load(k) /\ Len(<<Load(k)>>) = 1
  BY <1>3, <1>4, OneFollows
<1>6. s \in ListStates => t.st \in ListStates
  BY <1>2 DEF ListStates
<1> QED  BY <1>2, <1>3, <1>5, <1>6

LEMMA MinOfTwo ==
  ASSUME NEW a \in Int, NEW b \in Int
  PROVE  Min({a, b}) = IF a <= b THEN a ELSE b
<1> DEFINE S == {a, b}
<1>1. \E x \in S : \A y \in S : x <= y
  OBVIOUS
<1>2. Min(S) = CHOOSE x \in S : \A y \in S : x <= y
  BY DEF Min
<1>3. Min(S) \in S /\ \A y \in S : Min(S) <= y
  BY <1>1, <1>2, Zenon
<1> DEFINE m == Min(S)
<1> HIDE DEF m
<1>4. m \in {a, b} /\ m <= a /\ m <= b
  BY <1>3 DEF m
<1>5. m = IF a <= b THEN a ELSE b
  BY <1>4
<1> QED  BY <1>5 DEF m

LEMMA SettingsThenOK ==
  ASSUME NEW conf, NEW s, NEW t, t = SettingsThen(s)
  PROVE  /\ Follows(t.send, conf) /\ Len(t.send) = 0
         /\ s \in SettingsStates => t.st \in SettingsStates /\ (t.st.saved => t.st.labels > 0)
<1> DEFINE n == Min({MaxLabels, s.labels + 1})
<1>1. t.send = <<>> /\ t.st = [s EXCEPT !.saved = TRUE, !.labels = Min({MaxLabels, @ + 1})]
  BY DEF SettingsThen, After
<1>2. ASSUME s \in SettingsStates
      PROVE  t.st \in SettingsStates /\ t.st.labels > 0
  <2>1. MaxLabels \in Nat \ {0} /\ s.labels \in 0..MaxLabels
    BY <1>2, SettingsAssumption DEF SettingsStates
  <2>2. n \in 1..MaxLabels
    <3>1. n = IF MaxLabels <= s.labels + 1 THEN MaxLabels ELSE s.labels + 1
      BY <2>1, MinOfTwo
    <3> QED  BY <2>1, <3>1
  <2>3. t.st = [s EXCEPT !.saved = TRUE, !.labels = n]
    BY <1>1, <1>2 DEF SettingsStates
  <2> HIDE DEF n
  <2>4. n \in 0..MaxLabels /\ n > 0
    BY <2>1, <2>2
  <2>5. t.st \in SettingsStates /\ t.st.labels = n
    BY <1>2, <2>3, <2>4 DEF SettingsStates
  <2> QED  BY <2>4, <2>5
<1> QED  BY <1>1, <1>2, NoneFollows

(* What a page makes of the answer to one of its reads. *)
WithData(s, op, data, follow) ==
  IF op = "settings" THEN Loaded(s, data, follow)
  ELSE IF page = "logs" THEN GenerateLogs(data)
  ELSE [s EXCEPT ![op] = data]

LEMMA ReadThenOK ==
  ASSUME page \in Routes, NEW op, op \in PageOps(page), op \in Reads, NEW s, PageState(page, s),
         page = "groups" => Form(s),
         NEW data, op = "clients"  => data \in ClientLists,
                   op = "groups"   => data \in GroupLists,
                   op = "items"    => data \in ItemLists,
                   op = "settings" => data \in [Sections -> Texts],
         NEW follow,
         NEW t, t = WithData(s, op, data, follow)
  PROVE  /\ PageState(page, t)
         /\ page = "groups" => Form(t)
         /\ page = "users" => t.loading = s.loading
<1>0. Reads = {"clients", "groups", "items", "settings", "dash", "sys", "traffic", "chart"}
  BY DEF Reads, Measured
<1>9. t = IF op = "settings" THEN Loaded(s, data, follow)
          ELSE IF page = "logs" THEN GenerateLogs(data)
          ELSE [s EXCEPT ![op] = data]
  BY DEF WithData
<1>1. CASE page = "users"
  <2>1. op = "clients" /\ s \in UsersStates
    BY <1>0, <1>1 DEF PageOps, UsersOps, PageState, Kinds
  <2>2. t = [s EXCEPT !.clients = data]
    BY <1>9, <1>1, <2>1
  <2>3. t \in UsersStates /\ t.loading = s.loading
    BY <2>1, <2>2 DEF UsersStates
  <2> QED  BY <1>1, <2>3 DEF PageState, Kinds
<1>2. CASE page = "groups"
  <2>1. op \in {"clients", "groups"} /\ s \in GroupsStates /\ Len(s.fills) <= MaxFills
    BY <1>0, <1>2 DEF PageOps, GroupsOps, PageState, Kinds
  <2>2. \/ op = "clients" /\ t = [s EXCEPT !.clients = data]
        \/ op = "groups" /\ t = [s EXCEPT !.groups = data]
    BY <1>9, <1>2, <2>1
  <2>3. /\ t \in GroupsStates /\ t.fills = s.fills /\ t.base = s.base
        /\ t.name = s.name /\ t.showForm = s.showForm
    BY <2>1, <2>2 DEF GroupsStates
  <2>4. Form(t)
    BY <1>2, <2>3 DEF Form
  <2> QED  BY <1>2, <2>1, <2>3, <2>4 DEF PageState, Kinds
<1>3. CASE page \in Kinds
  <2>1. op = "items" /\ s \in ListStates
    BY <1>0, <1>3 DEF PageOps, ListOps, PageState, Kinds
  <2>2. t = [s EXCEPT !.items = data]
    BY <1>9, <1>3, <2>1 DEF Kinds
  <2>3. t \in ListStates
    BY <2>1, <2>2 DEF ListStates
  <2> QED  BY <1>3, <2>3 DEF PageState, Kinds
<1>4. CASE page = "settings"
  <2>1. op = "settings" /\ s \in SettingsStates /\ (s.saved => s.labels > 0)
    BY <1>0, <1>4 DEF PageOps, PageState, Kinds
  <2> DEFINE in == [x \in Sections |-> IF x \in follow \ s.touched THEN data[x] ELSE s.inputs[x]]
  <2>2. t = [s EXCEPT !.inputs = in]
    BY <1>9, <2>1 DEF Loaded, SettingsStates
  <2>3. in \in [Sections -> Texts]
    BY <2>1 DEF SettingsStates
  <2> HIDE DEF in
  <2>4. t \in SettingsStates /\ t.saved = s.saved /\ t.labels = s.labels
    BY <2>1, <2>2, <2>3 DEF SettingsStates
  <2> QED  BY <1>4, <2>1, <2>4 DEF PageState, Kinds
<1>5. CASE page = "profiles"
  <2>1. op = "clients" /\ s \in ProfilesStates /\ (s.copied # None => s.labels > 0)
    BY <1>0, <1>5 DEF PageOps, PageState, Kinds
  <2>2. t = [s EXCEPT !.clients = data]
    BY <1>9, <1>5, <2>1
  <2>3. t \in ProfilesStates /\ t.copied = s.copied /\ t.labels = s.labels
    BY <2>1, <2>2 DEF ProfilesStates
  <2> QED  BY <1>5, <2>1, <2>3 DEF PageState, Kinds
<1>6. CASE page = "devices"
  <2>1. op = "clients" /\ s \in [clients : ClientLists]
    BY <1>0, <1>6 DEF PageOps, PageState, Kinds
  <2>2. t = [s EXCEPT !.clients = data]
    BY <1>9, <1>6, <2>1
  <2>3. t \in [clients : ClientLists]
    BY <2>1, <2>2
  <2> QED  BY <1>6, <2>3 DEF PageState, Kinds
<1>7. CASE page = "logs"
  <2>1. op = "clients"
    BY <1>0, <1>7 DEF PageOps, Kinds
  <2>2. t = GenerateLogs(data)
    BY <1>9, <1>7, <2>1
  <2>3. DOMAIN t = {"logs"}
    BY <2>2, Zenon DEF GenerateLogs
  <2> QED  BY <1>7, <2>3 DEF PageState, Kinds
<1>8. CASE page = "home"
  <2>1. op # "settings" /\ DOMAIN s = {"dash", "sys", "clients", "traffic", "chart"}
    BY <1>0, <1>8 DEF PageOps, PageState, Kinds
  <2>2. t = [s EXCEPT ![op] = data]
    BY <1>9, <1>8, <2>1
  <2>3. DOMAIN t = DOMAIN s
    BY <2>2
  <2> QED  BY <1>8, <2>1, <2>3 DEF PageState, Kinds
<1> QED  BY <1>1, <1>2, <1>3, <1>4, <1>5, <1>6, <1>7, <1>8 DEF Routes, Kinds

(* A page makes the requests it can make. *)
LEMMA SenderPage ==
  ASSUME page \in Routes, NEW r, r.op \in PageOps(page)
  PROVE  /\ r.op \in UsersOps => page = "users"
         /\ r.op \in GroupsOps => page = "groups"
         /\ r.op \in ListOps => page \in Kinds
         /\ r.op = "save" => page = "settings"
BY DEF PageOps, Routes, Kinds, UsersOps, GroupsOps, ListOps

LEMMA PagesSend ==
  /\ {"clients", "bulk"} \subseteq PageOps("users")
  /\ {"groups", "clients"} \subseteq PageOps("groups")
  /\ \A p \in Kinds : "items" \in PageOps(p)
BY DEF PageOps, Kinds, UsersOps

(* What ResumeStep wants of the code after the await of request r. *)
ThenFits(r, t) ==
  /\ Follows(t.send, confirmed)
  /\ r.live = "page" =>
       /\ PageState(page, t.st)
       /\ page = "groups" => Form(t.st)
       /\ page = "users" => t.st.loading = (st.loading /\ ~Submitted(r))
       /\ \A k \in 1..Len(t.send) : t.send[k].op \in PageOps(page)

LEMMA PageFacts ==
  ASSUME IInv, NEW i \in 1..Len(reqs), NEW r, r = reqs[i], r.op # "login"
  PROVE  /\ RequestOK(r, confirmed) /\ token \in {None, AdminPassword} /\ page \in Routes
         /\ r.op \in Ops
         /\ r.live = "page" =>
              /\ authed /\ r.op \in PageOps(page) /\ SenderState(r) = st /\ PageState(page, st)
              /\ page = "groups" => Form(st)
<1>1. RequestOK(r, confirmed) /\ LiveOK(r) /\ r \in Messages
  BY DEF IInv, RequestsOK
<1>2. token \in {None, AdminPassword} /\ page \in Routes
  BY RoutesOK DEF IInv, RouteOK
<1>3. r.live = "page" => authed /\ r.op \in PageOps(page)
  BY <1>1 DEF LiveOK
<1>4. authed => PageState(page, st) /\ (page = "groups" => Form(st))
  BY DEF IInv, ScreenOK, FormOK, Shows
<1>5. r.live = "page" => SenderState(r) = st
  BY DEF SenderState
<1>6. r.op \in Ops
  BY <1>1 DEF Messages
<1> QED  BY <1>1, <1>2, <1>3, <1>4, <1>5, <1>6

LEMMA UsersFits ==
  ASSUME IInv, NEW i \in 1..Len(reqs), NEW r, r = reqs[i], r.op \in UsersOps,
         NEW ok \in BOOLEAN,
         NEW t, t = UsersThen(SenderState(r), r, ok) \/ t = UsersFail(SenderState(r), r)
  PROVE  ThenFits(r, t)
<1>0. r.op # "login"
  BY DEF UsersOps
<1>1. /\ RequestOK(r, confirmed) /\ token \in {None, AdminPassword} /\ page \in Routes
      /\ r.live = "page" => r.op \in PageOps(page) /\ SenderState(r) = st /\ PageState(page, st)
  BY <1>0, PageFacts
<1> DEFINE s == SenderState(r)
<1>2. t = UsersThen(s, r, ok) \/ t = UsersFail(s, r)
  OBVIOUS
<1>3. r.live = "page" => s = st
  BY <1>1
<1> HIDE DEF s
<1>4. /\ Follows(t.send, confirmed)
      /\ \A k \in 1..Len(t.send) : t.send[k].op \in {"clients", "bulk"}
      /\ s \in UsersStates => /\ t.st \in UsersStates
                              /\ t.st.loading = (s.loading /\ r.op \notin {"create", "update"})
  BY <1>1, <1>2, UsersThenOK
<1>5. ASSUME r.live = "page"
      PROVE  /\ page = "users" /\ t.st \in UsersStates
             /\ t.st.loading = (st.loading /\ ~Submitted(r))
  <2>1. page = "users"
    BY <1>1, <1>5, SenderPage
  <2>2. st \in UsersStates
    BY <1>1, <1>5, <2>1 DEF PageState
  <2> QED  BY <1>3, <1>4, <1>5, <2>1, <2>2 DEF Submitted
<1> QED  BY <1>4, <1>5, PagesSend DEF ThenFits, PageState, Kinds

LEMMA GroupsFits ==
  ASSUME IInv, NEW i \in 1..Len(reqs), NEW r, r = reqs[i], r.op \in GroupsOps,
         NEW t, t = GroupsThen(SenderState(r), r)
  PROVE  ThenFits(r, t)
<1>0. r.op # "login"
  BY DEF GroupsOps
<1>1. /\ RequestOK(r, confirmed) /\ token \in {None, AdminPassword} /\ page \in Routes
      /\ r.live = "page" => /\ r.op \in PageOps(page) /\ SenderState(r) = st /\ PageState(page, st)
                            /\ page = "groups" => Form(st)
  BY <1>0, PageFacts
<1> DEFINE s == SenderState(r)
<1>2. t = GroupsThen(s, r)
  OBVIOUS
<1>3. r.live = "page" => s = st
  BY <1>1
<1> HIDE DEF s
<1>4. /\ Follows(t.send, confirmed)
      /\ \A k \in 1..Len(t.send) : t.send[k].op \in {"groups", "clients"}
      /\ s \in GroupsStates => /\ t.st \in GroupsStates /\ t.st.fills = s.fills
                               /\ Form(s) => Form(t.st)
  <2>1. Follows(t.send, confirmed)
    BY <1>1, <1>2, GroupsThenOK
  <2>2. \A k \in 1..Len(t.send) : t.send[k].op \in {"groups", "clients"}
    BY <1>1, <1>2, GroupsThenOK
  <2>3. s \in GroupsStates => /\ t.st \in GroupsStates /\ t.st.fills = s.fills
                              /\ Form(s) => Form(t.st)
    BY <1>1, <1>2, GroupsThenOK
  <2> QED  BY <2>1, <2>2, <2>3
<1>5. ASSUME r.live = "page"
      PROVE  /\ page = "groups" /\ t.st \in GroupsStates /\ Len(t.st.fills) <= MaxFills
             /\ Form(t.st)
  <2>1. page = "groups"
    BY <1>1, <1>5, SenderPage
  <2>2. st \in GroupsStates /\ Len(st.fills) <= MaxFills /\ Form(st)
    BY <1>1, <1>5, <2>1 DEF PageState
  <2> QED  BY <1>3, <1>4, <1>5, <2>1, <2>2
<1> QED  BY <1>4, <1>5, PagesSend DEF ThenFits, PageState, Kinds

LEMMA ListFits ==
  ASSUME IInv, NEW i \in 1..Len(reqs), NEW r, r = reqs[i], r.op \in ListOps,
         NEW t, t = ListThen(SenderState(r), r)
  PROVE  ThenFits(r, t)
<1>0. r.op # "login"
  BY DEF ListOps
<1>1. /\ RequestOK(r, confirmed) /\ token \in {None, AdminPassword} /\ page \in Routes
      /\ r.live = "page" => r.op \in PageOps(page) /\ SenderState(r) = st /\ PageState(page, st)
  BY <1>0, PageFacts
<1> DEFINE s == SenderState(r)
<1>2. t = ListThen(s, r)
  OBVIOUS
<1>3. r.live = "page" => s = st
  BY <1>1
<1> HIDE DEF s
<1>4. /\ Follows(t.send, confirmed)
      /\ \A k \in 1..Len(t.send) : t.send[k].op = "items"
      /\ s \in ListStates => t.st \in ListStates
  BY <1>1, <1>2, ListThenOK
<1>5. ASSUME r.live = "page"
      PROVE  page \in Kinds /\ t.st \in ListStates
  <2>1. page \in Kinds
    BY <1>1, <1>5, SenderPage
  <2>2. st \in ListStates
    BY <1>1, <1>5, <2>1 DEF PageState
  <2> QED  BY <1>3, <1>4, <1>5, <2>1, <2>2
<1>6. r.live = "page" => \A k \in 1..Len(t.send) : t.send[k].op \in PageOps(page)
  BY <1>4, <1>5, PagesSend
<1> QED  BY <1>4, <1>5, <1>6 DEF ThenFits, PageState, Kinds

LEMMA SaveFits ==
  ASSUME IInv, NEW i \in 1..Len(reqs), NEW r, r = reqs[i], r.op = "save",
         NEW t, t = SettingsThen(SenderState(r))
  PROVE  ThenFits(r, t)
<1>1. /\ RequestOK(r, confirmed) /\ token \in {None, AdminPassword} /\ page \in Routes
      /\ r.live = "page" => r.op \in PageOps(page) /\ SenderState(r) = st /\ PageState(page, st)
  BY PageFacts
<1> DEFINE s == SenderState(r)
<1>2. t = SettingsThen(s)
  OBVIOUS
<1>3. r.live = "page" => s = st
  BY <1>1
<1> HIDE DEF s
<1>4. /\ Follows(t.send, confirmed) /\ Len(t.send) = 0
      /\ s \in SettingsStates => t.st \in SettingsStates /\ (t.st.saved => t.st.labels > 0)
  BY <1>2, SettingsThenOK
<1>5. ASSUME r.live = "page"
      PROVE  page = "settings" /\ t.st \in SettingsStates /\ (t.st.saved => t.st.labels > 0)
  <2>1. page = "settings"
    BY <1>1, <1>5, SenderPage
  <2>2. st \in SettingsStates
    BY <1>1, <1>5, <2>1 DEF PageState
  <2> QED  BY <1>3, <1>4, <1>5, <2>1, <2>2
<1> QED  BY <1>4, <1>5 DEF ThenFits, PageState, Kinds

(* The code after the await leaves the page as it was, or sets it to s. *)
LEMMA ReadFits ==
  ASSUME IInv, NEW i \in 1..Len(reqs), NEW r, r = reqs[i], r.op # "login",
         NEW s, NEW t, t = After(s, <<>>),
         r.live = "page" => /\ PageState(page, s) /\ ~Submitted(r)
                            /\ page = "groups" => Form(s)
                            /\ page = "users" => s.loading = st.loading
  PROVE  ThenFits(r, t)
<1>1. t.st = s /\ t.send = <<>>
  BY DEF After
<1>2. Follows(t.send, confirmed) /\ Len(t.send) = 0
  BY <1>1, NoneFollows
<1>3. r.live = "page" /\ page = "users" => st.loading \in BOOLEAN
  <2>1. r.live = "page" => PageState(page, st)
    BY PageFacts
  <2> QED  BY <2>1 DEF PageState, UsersStates
<1>4. r.live = "page" /\ page = "users" => t.st.loading = (st.loading /\ ~Submitted(r))
  BY <1>1, <1>3
<1> QED  BY <1>1, <1>2, <1>4 DEF ThenFits

LEMMA ThenOK ==
  ASSUME IInv, NEW i \in 1..Len(reqs), NEW r, r = reqs[i], r.op # "login",
         r.ans # None, r.ans.code # 401, NEW follow,
         NEW t, t = Then(r, follow)
  PROVE  ThenFits(r, t)
<1> DEFINE s == SenderState(r)
           ok == r.ans.code = 200
<1>0. /\ RequestOK(r, confirmed) /\ page \in Routes /\ r.op \in Ops
      /\ r.live = "page" => /\ r.op \in PageOps(page) /\ s = st /\ PageState(page, st)
                            /\ page = "groups" => Form(st)
  BY PageFacts
<1>1. CASE r.op \in UsersOps
  <2>1. t = UsersThen(s, r, ok)
    BY <1>1 DEF Then, UsersOps, GroupsOps, ListOps, Reads, Measured
  <2>2. ok \in BOOLEAN
    OBVIOUS
  <2> HIDE DEF ok
  <2> QED  BY <1>1, <2>1, <2>2, UsersFits
<1>2. CASE r.op \in GroupsOps
  <2>1. t = GroupsThen(s, r)
    BY <1>2 DEF Then, UsersOps, GroupsOps, ListOps, Reads, Measured
  <2> QED  BY <1>2, <2>1, GroupsFits
<1>3. CASE r.op \in ListOps
  <2>1. t = ListThen(s, r)
    BY <1>3 DEF Then, UsersOps, GroupsOps, ListOps, Reads, Measured
  <2> QED  BY <1>3, <2>1, ListFits
<1>4. CASE r.op = "save"
  <2>1. t = SettingsThen(s)
    BY <1>4 DEF Then, UsersOps, GroupsOps, ListOps, Reads, Measured
  <2> QED  BY <1>4, <2>1, SaveFits
<1>5. CASE r.op \in Reads
  <2> DEFINE data == r.ans.data
             u == WithData(s, r.op, data, follow)
             v == IF r.live # "page" THEN s ELSE u
  <2>1. t = After(v, <<>>)
    <3>1. r.op \notin UsersOps /\ r.op \notin GroupsOps /\ r.op \notin ListOps /\ r.op # "save"
      BY <1>5 DEF UsersOps, GroupsOps, ListOps, Reads, Measured
    <3> QED  BY <1>5, <3>1 DEF Then, WithData
  <2>2. r.ans.code = 200 /\ DataOK(r, r.ans)
    BY <1>0, <1>5 DEF RequestOK, DataOK
  <2>3. /\ r.op = "clients"  => data \in ClientLists
        /\ r.op = "groups"   => data \in GroupLists
        /\ r.op = "items"    => data \in ItemLists
        /\ r.op = "settings" => data \in [Sections -> Texts]
    BY <2>2 DEF DataOK
  <2>4. ASSUME r.live = "page"
        PROVE  /\ v = u /\ PageState(page, u)
               /\ page = "groups" => Form(u)
               /\ page = "users" => u.loading = st.loading
    <3>1. v = u /\ s = st
      BY <1>0, <2>4
    <3>2. /\ r.op \in PageOps(page) /\ PageState(page, s)
          /\ page = "groups" => Form(s)
      BY <1>0, <2>4
    <3>3. /\ PageState(page, u)
          /\ page = "groups" => Form(u)
          /\ page = "users" => u.loading = s.loading
      <4> DEFINE op == r.op
      <4>1. /\ op \in PageOps(page) /\ op \in Reads /\ u = WithData(s, op, data, follow)
            /\ op = "clients"  => data \in ClientLists
            /\ op = "groups"   => data \in GroupLists
            /\ op = "items"    => data \in ItemLists
            /\ op = "settings" => data \in [Sections -> Texts]
        BY <1>5, <2>3, <3>2
      <4> HIDE DEF s, data, u, op
      <4> QED  BY <1>0, <3>2, <4>1, ReadThenOK
    <3> QED  BY <3>1, <3>3
  <2>5. ~Submitted(r)
    BY <1>5 DEF Submitted, Reads, Measured
  <2> HIDE DEF u, v
  <2> QED  BY <2>1, <2>4, <2>5, ReadFits
<1> QED  BY <1>0, <1>1, <1>2, <1>3, <1>4, <1>5 DEF Ops

LEMMA FailedOK ==
  ASSUME IInv, NEW i \in 1..Len(reqs), NEW r, r = reqs[i], r.op # "login",
         NEW t, t = Failed(r)
  PROVE  ThenFits(r, t)
<1> DEFINE s == SenderState(r)
           v == IF r.live = "page" /\ r.op = "clients" /\ page = "logs" THEN FreshLogs ELSE s
<1>0. /\ page \in Routes
      /\ r.live = "page" => /\ s = st /\ PageState(page, st)
                            /\ page = "groups" => Form(st)
  BY PageFacts
<1>1. CASE r.op \in UsersOps
  <2>1. t = UsersFail(s, r) /\ TRUE \in BOOLEAN
    BY <1>1 DEF Failed
  <2> QED  BY <1>1, <2>1, UsersFits
<1>2. CASE r.op \notin UsersOps
  <2>1. t = After(v, <<>>)
    BY <1>2 DEF Failed
  <2>2. DOMAIN FreshLogs = {"logs"}
    BY DEF FreshLogs
  <2>3. r.live = "page" => /\ PageState(page, v)
                           /\ page = "groups" => Form(v)
                           /\ page = "users" => v.loading = st.loading
    BY <1>0, <2>2 DEF PageState, Kinds
  <2>4. ~Submitted(r)
    BY <1>2 DEF Submitted, UsersOps
  <2> HIDE DEF v
  <2> QED  BY <2>1, <2>3, <2>4, ReadFits
<1> QED  BY <1>1, <1>2

LEMMA ArriveStep ==
  ASSUME IInv, NEW i \in DOMAIN reqs, Arrive(i)
  PROVE  IInv'
<1>0. reqs \in Seq(Messages) /\ i \in 1..Len(reqs) /\ reqs[i].ans # None
  BY DEF IInv, RequestsOK, Arrive
<1>1. CASE Unauthorized(i)
  BY <1>0, <1>1, UnauthorizedStep
<1>2. CASE reqs[i].ans.code = 200 /\ reqs[i].op = "login" /\ LoggedIn(i)
  BY <1>0, <1>2, LoggedInStep
<1>3. ASSUME reqs[i].ans.code # 401, reqs[i].op # "login", NEW follow,
             Resume(i, Then(reqs[i], follow)), UNCHANGED <<db, shell, ops, confirmed>>
      PROVE  IInv'
  <2> DEFINE r == reqs[i]
             t == Then(r, follow)
  <2>1. ThenFits(r, t)
    BY <1>0, <1>3, ThenOK
  <2>2. Resume(i, t) /\ UNCHANGED <<db, shell, confirmed>> /\ r.op # "login" /\ r = reqs[i]
    BY <1>3
  <2> HIDE DEF r, t
  <2>3. /\ Follows(t.send, confirmed)
        /\ r.live = "page" =>
             /\ PageState(page, t.st)
             /\ page = "groups" => Form(t.st)
             /\ page = "users" => t.st.loading = (st.loading /\ ~Submitted(r))
             /\ \A k \in 1..Len(t.send) : t.send[k].op \in PageOps(page)
    BY <2>1 DEF ThenFits
  <2> QED  BY <1>0, <2>2, <2>3, ResumeStep
<1> QED  BY <1>1, <1>2, <1>3 DEF Arrive

LEMMA FailStep ==
  ASSUME IInv, NEW i \in DOMAIN reqs, Fail(i)
  PROVE  IInv'
<1>0. reqs \in Seq(Messages) /\ i \in 1..Len(reqs) /\ UNCHANGED <<db, shell, confirmed>>
  BY DEF IInv, RequestsOK, Fail
<1>1. CASE reqs[i].op = "login"
  <2> DEFINE rs == RemoveAt(reqs, i)
  <2>1. st' = [loading |-> FALSE, error |-> TRUE] /\ reqs' = rs
    BY <1>1 DEF Fail
  <2>2. ~authed /\ RequestsOK
    BY <1>0, <1>1 DEF IInv, RequestsOK, LiveOK
  <2>3. /\ db' = db /\ confirmed' = confirmed /\ token' = token /\ authed' = authed
        /\ page' = page /\ filter' = filter /\ tour' = tour
    BY <1>0 DEF shell
  <2>4. KeptFrom(rs, reqs) /\ rs \in Seq(Messages)
    BY <1>0, <2>2, ReqsWellFormed, KeptRemoveAt DEF KeptFrom
  <2>5. \A k \in 1..Len(rs) : \E j \in 1..Len(reqs) : j # i /\ rs[k] = reqs[j]
    <3>1. Removal(rs, reqs, i)
      BY <1>0, RemovedAt
    <3> HIDE DEF rs
    <3> QED  BY <3>1, RemovedFrom
  <2> HIDE DEF rs
  <2>6. rs = rs \o <<>>
    BY <2>4, ConcatEmptySeq
  <2>7. Follows(<<>>, confirmed) /\ Len(<<>>) = 0
    BY NoneFollows
  <2>8. \A k \in 1..Len(rs) : rs[k].op # "login" /\ rs[k].live # "page"
    <3> SUFFICES ASSUME NEW k \in 1..Len(rs)  PROVE rs[k].op # "login" /\ rs[k].live # "page"
      OBVIOUS
    <3>1. PICK j \in 1..Len(reqs) : j # i /\ rs[k] = reqs[j]
      BY <2>5
    <3>2. reqs[j].op # "login"
      BY <1>0, <1>1, <2>2, <3>1 DEF RequestsOK
    <3>3. reqs[j].live # "page"
      BY <2>2, <3>1, <3>2 DEF RequestsOK, LiveOK
    <3> QED  BY <3>1, <3>2, <3>3
  <2>9. IdsLeft'
    <3> DEFINE none == <<>>
    <3>1. reqs' = rs \o none /\ Follows(none, confirmed)
      BY <2>1, <2>6, <2>7
    <3> HIDE DEF none
    <3> QED  BY <2>2, <2>3, <2>4, <3>1, IdsKept DEF IInv
  <2>10. RequestsOK'
    <3> DEFINE none == <<>>
    <3>1. /\ reqs' = rs \o none /\ Follows(none, confirmed)
          /\ \A k \in 1..Len(none) : none[k].live = "page" => authed' /\ none[k].op \in PageOps(page')
      BY <2>1, <2>6, <2>7
    <3>2. \A k \in 1..Len(rs) : \A x : x = rs[k] => LiveOK(x)'
      BY <2>8 DEF LiveOK
    <3> HIDE DEF none
    <3> QED  BY <2>2, <2>3, <2>4, <3>1, <3>2, RequestsNext
  <2>11. (db \in Databases)' /\ RouteOK'
    BY <2>3 DEF IInv, RouteOK
  <2>12. ScreenOK' /\ SubmitOK' /\ FormOK'
    BY <2>1, <2>2, <2>3 DEF ScreenOK, SubmitOK, FormOK, Shows, LoginStates
  <2> QED  BY <2>9, <2>10, <2>11, <2>12 DEF IInv
<1>2. CASE reqs[i].op # "login"
  <2> DEFINE r == reqs[i]
             t == IF r.live = "gone" THEN After(st, <<>>) ELSE Failed(r)
  <2>1. ThenFits(r, t)
    <3>1. CASE r.live = "gone"
      <4>1. t = After(st, <<>>) /\ r.live # "page" /\ r = reqs[i] /\ r.op # "login"
        BY <1>2, <3>1
      <4> HIDE DEF r, t
      <4> QED  BY <1>0, <4>1, ReadFits
    <3>2. CASE r.live # "gone"
      <4>1. t = Failed(r) /\ r = reqs[i] /\ r.op # "login"
        BY <1>2, <3>2
      <4> HIDE DEF r, t
      <4> QED  BY <1>0, <4>1, FailedOK
    <3> QED  BY <3>1, <3>2
  <2>2. Resume(i, t) /\ r.op # "login" /\ r = reqs[i]
    BY <1>2 DEF Fail
  <2> HIDE DEF r, t
  <2>3. /\ Follows(t.send, confirmed)
        /\ r.live = "page" =>
             /\ PageState(page, t.st)
             /\ page = "groups" => Form(t.st)
             /\ page = "users" => t.st.loading = (st.loading /\ ~Submitted(r))
             /\ \A k \in 1..Len(t.send) : t.send[k].op \in PageOps(page)
    BY <2>1 DEF ThenFits
  <2> QED  BY <1>0, <2>2, <2>3, ResumeStep
<1> QED  BY <1>1, <1>2

-----------------------------------------------------------------------------
(* The server.                                                             *)

(* Once the server has carried out request i it waits no more. *)
Fewer(rs, old, i, op, args) ==
  LET n == Cardinality(Waiting(rs, op, args))
      m == Cardinality(Waiting(old, op, args))
  IN  /\ n \in Nat /\ m \in Nat /\ n <= m
      /\ i \in Waiting(old, op, args) => n <= m - 1

LEMMA FewerWaiting ==
  ASSUME NEW old \in Seq(Messages), NEW i \in 1..Len(old), NEW op, NEW args, NEW rs,
         \E f \in [1..Len(rs) -> 1..Len(old)] :
           /\ \A j, k \in 1..Len(rs) : f[j] = f[k] => j = k
           /\ \A k \in Waiting(rs, op, args) : f[k] \in Waiting(old, op, args) \ {i}
  PROVE  Fewer(rs, old, i, op, args)
<1> DEFINE S == Waiting(rs, op, args)
           W == Waiting(old, op, args)
           T == W \ {i}
<1>0. PICK f \in [1..Len(rs) -> 1..Len(old)] :
           /\ \A j, k \in 1..Len(rs) : f[j] = f[k] => j = k
           /\ \A k \in S : f[k] \in T
  OBVIOUS
<1>1. IsFiniteSet(W) /\ Cardinality(W) \in Nat
  BY WaitingFinite
<1>2. IsFiniteSet(T) /\ Cardinality(T) = IF i \in W THEN Cardinality(W) - 1 ELSE Cardinality(W)
  <2> HIDE DEF W
  <2> QED  BY <1>1, FS_RemoveElement
<1>3. S \subseteq 1..Len(rs)
  BY DEF Waiting
<1>4. \A j, k \in S : f[j] = f[k] => j = k
  BY <1>0, <1>3
<1> HIDE DEF S, W, T
<1>6. IsFiniteSet(S) /\ Cardinality(S) <= Cardinality(T)
  BY <1>0, <1>2, <1>3, <1>4, InjectionBound
<1>7. Cardinality(S) \in Nat
  BY <1>6, FS_CardinalityType
<1>8. /\ Cardinality(S) <= Cardinality(W)
      /\ i \in W => Cardinality(S) <= Cardinality(W) - 1
  BY <1>1, <1>2, <1>6, <1>7
<1> QED  BY <1>1, <1>7, <1>8 DEF S, W, Fewer

LEMMA RemovedWaiting ==
  ASSUME NEW old \in Seq(Messages), NEW i \in 1..Len(old), NEW op, NEW args,
         NEW rs, rs = RemoveAt(old, i)
  PROVE  Fewer(rs, old, i, op, args)
<1>1. Removal(rs, old, i)
  BY RemovedAt
<1>2. PICK f \in [1..Len(rs) -> 1..Len(old)] :
              /\ \A j, k \in 1..Len(rs) : f[j] = f[k] => j = k
              /\ \A k \in 1..Len(rs) : f[k] # i /\ rs[k] = old[f[k]]
  BY <1>1 DEF Removal
<1>3. \A k \in Waiting(rs, op, args) : f[k] \in Waiting(old, op, args) \ {i}
  BY <1>2 DEF Waiting
<1> QED  BY <1>2, <1>3, FewerWaiting

LEMMA AnsweredWaiting ==
  ASSUME NEW old \in Seq(Messages), NEW i \in 1..Len(old), NEW op, NEW args,
         NEW a, old[i].op = op => a # None,
         NEW rs, rs = [old EXCEPT ![i].ans = a]
  PROVE  Fewer(rs, old, i, op, args)
<1>1. /\ Len(rs) = Len(old)
      /\ \A k \in 1..Len(old) : k # i => rs[k] = old[k]
      /\ rs[i] = [old[i] EXCEPT !.ans = a]
  OBVIOUS
<1>2. rs[i].ans = a /\ rs[i].op = old[i].op
  <2>1. old[i] \in Messages
    OBVIOUS
  <2> QED  BY <1>1, <2>1 DEF Messages
<1> DEFINE f == [k \in 1..Len(rs) |-> k]
<1>3. /\ f \in [1..Len(rs) -> 1..Len(old)]
      /\ \A j, k \in 1..Len(rs) : f[j] = f[k] => j = k
  BY <1>1
<1>4. \A k \in Waiting(rs, op, args) : f[k] \in Waiting(old, op, args) \ {i}
  BY <1>1, <1>2 DEF Waiting
<1> HIDE DEF f
<1>5. \E g \in [1..Len(rs) -> 1..Len(old)] :
        /\ \A j, k \in 1..Len(rs) : g[j] = g[k] => j = k
        /\ \A k \in Waiting(rs, op, args) : g[k] \in Waiting(old, op, args) \ {i}
  BY <1>3, <1>4
<1> QED  BY <1>5, FewerWaiting

(* What the server makes of the database. *)
LEMMA ServeDb ==
  ASSUME IInv, NEW i \in 1..Len(reqs), reqs[i].ans = None, NEW r, r = reqs[i]
  PROVE  ServedOK(db, r, Handle(db, r), confirmed)
<1>1. /\ db \in Databases /\ reqs \in Seq(Messages) /\ RequestOK(r, confirmed)
      /\ MaxGroups \in Nat /\ MaxItems \in Nat
  BY PanelAssumption DEF IInv, RequestsOK
<1>2. r.op \in Ops /\ ArgOK(r, confirmed)
  BY <1>1 DEF RequestOK, Messages
<1>3. ASSUME NEW op, NEW args, r.op = op, r.arg \in args
      PROVE  Cardinality(Waiting(reqs, op, args)) \in Nat \ {0}
  <2> DEFINE S == Waiting(reqs, op, args)
  <2>1. IsFiniteSet(S) /\ Cardinality(S) \in Nat
    BY <1>1, WaitingFinite
  <2>2. i \in S
    BY <1>3 DEF Waiting
  <2> HIDE DEF S
  <2>3. Cardinality(S) # 0
    BY <2>1, <2>2, FS_EmptySet
  <2> QED  BY <2>1, <2>3 DEF S
<1>4. r.op = "newGroup" => db.newGroup <= MaxGroups
  <2> SUFFICES ASSUME r.op = "newGroup"  PROVE db.newGroup <= MaxGroups
    OBVIOUS
  <2> DEFINE n == Cardinality(Waiting(reqs, "newGroup", Names))
             m == db.newGroup
  <2>1. r.arg \in Names
    BY <1>2 DEF ArgOK
  <2>2. n \in Nat \ {0}
    BY <1>3, <2>1
  <2>3. m \in Int /\ m + n <= MaxGroups + 1
    BY <1>1 DEF IInv, IdsLeft, Databases
  <2> HIDE DEF n, m
  <2>4. m <= MaxGroups
    BY <1>1, <2>2, <2>3
  <2> QED  BY <2>4 DEF m
<1>5. r.op = "newItem" => db.newItem[r.arg] <= MaxItems
  <2> SUFFICES ASSUME r.op = "newItem"  PROVE db.newItem[r.arg] <= MaxItems
    OBVIOUS
  <2> DEFINE k == r.arg
             K == {k}
             n == Cardinality(Waiting(reqs, "newItem", K))
             m == db.newItem[k]
  <2>1. k \in Kinds /\ r.arg \in K
    BY <1>2 DEF ArgOK
  <2>2. n \in Nat \ {0}
    <3> HIDE DEF K
    <3> QED  BY <1>3, <2>1
  <2>3. m \in Int
    BY <1>1, <2>1 DEF Databases
  <2>3a. m + n <= MaxItems + 1
    <3>1. \A j \in Kinds : db.newItem[j] + Cardinality(Waiting(reqs, "newItem", {j}))
                            <= MaxItems + 1
      BY DEF IInv, IdsLeft
    <3> HIDE DEF k
    <3> QED  BY <2>1, <3>1
  <2> HIDE DEF n, m
  <2>4. m <= MaxItems
    BY <1>1, <2>2, <2>3, <2>3a
  <2> QED  BY <2>4 DEF m
<1> QED  BY <1>1, <1>2, <1>4, <1>5, HandleOK

(* The answer of a change is an answer. *)
LEMMA AnswerGiven ==
  ASSUME NEW code \in Codes
  PROVE  [code |-> code, data |-> None] # None
<1>1. [code |-> code, data |-> None] \in [code : Nat, data : {None}]
  BY DEF Codes
<1> QED  BY <1>1, PanelAssumption

LEMMA ServeIds ==
  ASSUME db \in Databases, IdsLeft, reqs \in Seq(Messages), NEW i \in 1..Len(reqs),
         reqs[i].ans = None, RequestOK(reqs[i], confirmed),
         NEW h, ServedOK(db, reqs[i], h, confirmed), db' = h.db,
         NEW a, a = [code |-> h.code, data |-> h.data],
         reqs' = RemoveAt(reqs, i) \/ reqs' = [reqs EXCEPT ![i].ans = a]
  PROVE  IdsLeft'
<1>1. MaxGroups \in Nat /\ MaxItems \in Nat
  BY PanelAssumption
<1>2. ASSUME NEW op \in {"newGroup", "newItem"}, NEW args
      PROVE  /\ Cardinality(Waiting(reqs', op, args)) \in Nat
             /\ Cardinality(Waiting(reqs, op, args)) \in Nat
             /\ Cardinality(Waiting(reqs', op, args)) <= Cardinality(Waiting(reqs, op, args))
             /\ i \in Waiting(reqs, op, args) =>
                  Cardinality(Waiting(reqs', op, args)) <= Cardinality(Waiting(reqs, op, args)) - 1
  <2>1. reqs[i].op = op => a # None
    <3> SUFFICES ASSUME reqs[i].op = op  PROVE a # None
      OBVIOUS
    <3>1. reqs[i].op \notin Reads \cup {"login"}
      BY DEF Reads, Measured
    <3>2. h.data = None /\ h.code \in Codes
      BY <3>1 DEF ServedOK
    <3> QED  BY <3>2, AnswerGiven
  <2> DEFINE rs == reqs'
  <2>2. rs = RemoveAt(reqs, i) \/ rs = [reqs EXCEPT ![i].ans = a]
    OBVIOUS
  <2> HIDE DEF rs
  <2>3. Fewer(rs, reqs, i, op, args)
    <3>1. CASE rs = RemoveAt(reqs, i)
      BY <3>1, RemovedWaiting
    <3>2. CASE rs = [reqs EXCEPT ![i].ans = a]
      BY <2>1, <3>2, AnsweredWaiting
    <3> QED  BY <2>2, <3>1, <3>2
  <2> QED  BY <2>3 DEF rs, Fewer
<1>3. /\ db.newGroup \in Int
      /\ \/ db'.newGroup = db.newGroup
         \/ reqs[i].op = "newGroup" /\ db'.newGroup = db.newGroup + 1
      /\ \A k \in Kinds : /\ db.newItem[k] \in Int
                          /\ \/ db'.newItem[k] = db.newItem[k]
                             \/ /\ reqs[i].op = "newItem" /\ reqs[i].arg = k
                                /\ db'.newItem[k] = db.newItem[k] + 1
  BY DEF ServedOK, Databases
<1>4. db'.newGroup + Cardinality(Waiting(reqs', "newGroup", Names)) <= MaxGroups + 1
  <2> DEFINE n == Cardinality(Waiting(reqs, "newGroup", Names))
             p == Cardinality(Waiting(reqs', "newGroup", Names))
             m == db.newGroup
  <2>1. reqs[i].op = "newGroup" => i \in Waiting(reqs, "newGroup", Names)
    BY DEF Waiting, RequestOK, ArgOK
  <2>2. /\ p \in Nat /\ n \in Nat /\ p <= n
        /\ reqs[i].op = "newGroup" => p <= n - 1
    BY <1>2, <2>1
  <2>3. m + n <= MaxGroups + 1
    BY DEF IdsLeft
  <2> HIDE DEF n, p
  <2>4. db'.newGroup + p <= MaxGroups + 1
    BY <1>1, <1>3, <2>2, <2>3
  <2> QED  BY <2>4 DEF p
<1>5. ASSUME NEW k \in Kinds
      PROVE  db'.newItem[k] + Cardinality(Waiting(reqs', "newItem", {k})) <= MaxItems + 1
  <2> DEFINE K == {k}
             n == Cardinality(Waiting(reqs, "newItem", K))
             p == Cardinality(Waiting(reqs', "newItem", K))
             m == db.newItem[k]
  <2>1. reqs[i].op = "newItem" /\ reqs[i].arg = k => i \in Waiting(reqs, "newItem", K)
    BY DEF Waiting
  <2>2. /\ p \in Nat /\ n \in Nat /\ p <= n
        /\ reqs[i].op = "newItem" /\ reqs[i].arg = k => p <= n - 1
    <3> HIDE DEF K
    <3> QED  BY <1>2, <2>1
  <2>3. m + n <= MaxItems + 1
    BY DEF IdsLeft
  <2>4. /\ m \in Int
        /\ \/ db'.newItem[k] = m
           \/ /\ reqs[i].op = "newItem" /\ reqs[i].arg = k
              /\ db'.newItem[k] = m + 1
    BY <1>3
  <2> HIDE DEF n, p, m
  <2>5. db'.newItem[k] + p <= MaxItems + 1
    BY <1>1, <2>2, <2>3, <2>4
  <2> QED  BY <2>5 DEF p, K
<1> QED  BY <1>4, <1>5 DEF IdsLeft

(* Nothing else of the state depends on what the server has carried out. *)
LEMMA ServeStep ==
  ASSUME IInv, NEW i \in DOMAIN reqs, Serve(i)
  PROVE  IInv'
<1> DEFINE r == reqs[i]
           h == Handle(db, r)
           a == [code |-> h.code, data |-> h.data]
<1>0. /\ reqs \in Seq(Messages) /\ i \in 1..Len(reqs) /\ reqs[i].ans = None
      /\ db \in Databases /\ RequestsOK /\ IdsLeft
  BY DEF IInv, RequestsOK, Serve
<1>1. /\ db' = h.db
      /\ reqs' = IF r.live = "gone" THEN RemoveAt(reqs, i) ELSE [reqs EXCEPT ![i].ans = a]
      /\ UNCHANGED <<token, authed, page, filter, tour, st, confirmed>>
  BY DEF Serve, shell
<1>2. ServedOK(db, r, h, confirmed) /\ r = reqs[i] /\ RequestOK(r, confirmed)
  <2>1. r = reqs[i]
    OBVIOUS
  <2>2. RequestOK(r, confirmed)
    BY <1>0 DEF RequestsOK
  <2> HIDE DEF r
  <2> QED  BY <1>0, <2>1, <2>2, ServeDb DEF h
<1> HIDE DEF r, h
<1>3. (db \in Databases)' /\ RouteOK' /\ ScreenOK' /\ FormOK'
  BY <1>1, <1>2 DEF IInv, ServedOK, RouteOK, ScreenOK, FormOK, Shows
<1>4. IdsLeft'
  <2>1. reqs' = RemoveAt(reqs, i) \/ reqs' = [reqs EXCEPT ![i].ans = a]
    BY <1>1
  <2>2. a = [code |-> h.code, data |-> h.data] /\ db' = h.db
    BY <1>1
  <2> HIDE DEF a
  <2> QED  BY <1>0, <1>2, <2>1, <2>2, ServeIds
<1>5. CASE r.live = "gone"
  <2> DEFINE rs == RemoveAt(reqs, i)
  <2>1. reqs' = rs
    BY <1>1, <1>5
  <2>2. KeptFrom(rs, reqs) /\ rs \in Seq(Messages)
    BY <1>0, ReqsWellFormed, KeptRemoveAt DEF KeptFrom
  <2>3. Removal(rs, reqs, i)
    BY <1>0, RemovedAt
  <2> HIDE DEF rs
  <2>4. PICK f \in [1..Len(rs) -> 1..Len(reqs)] :
              /\ \A j, k \in 1..Len(rs) : f[j] = f[k] => j = k
              /\ \A k \in 1..Len(rs) : f[k] # i /\ rs[k] = reqs[f[k]]
              /\ \A j \in 1..Len(reqs) : j # i => \E k \in 1..Len(rs) : f[k] = j
    BY <2>3 DEF Removal
  <2>5. RequestsOK'
    <3> DEFINE none == <<>>
    <3>1. /\ reqs' = rs \o none /\ Follows(none, confirmed)
          /\ \A k \in 1..Len(none) : none[k].live = "page" => authed' /\ none[k].op \in PageOps(page')
      BY <2>1, <2>2, NoneFollows, ConcatEmptySeq
    <3>2. \A k \in 1..Len(rs) : \A x : x = rs[k] => LiveOK(x)'
      BY <1>0, <1>1, <2>4 DEF RequestsOK, LiveOK
    <3> HIDE DEF none
    <3> QED  BY <1>0, <1>1, <2>2, <3>1, <3>2, RequestsNext
  <2>6. SubmitOK'
    <3>1. ~Submitted(reqs[i])
      BY <1>2, <1>5 DEF Submitted
    <3>2. (\E k \in 1..Len(rs) : Submitted(rs[k])) <=> (\E k \in 1..Len(reqs) : Submitted(reqs[k]))
      BY <2>4, <3>1
    <3>3. ASSUME \A j, k \in 1..Len(reqs) : Submitted(reqs[j]) /\ Submitted(reqs[k]) => j = k
          PROVE  \A j, k \in 1..Len(rs) : Submitted(rs[j]) /\ Submitted(rs[k]) => j = k
      <4> SUFFICES ASSUME NEW j \in 1..Len(rs), NEW k \in 1..Len(rs),
                          Submitted(rs[j]), Submitted(rs[k])
                   PROVE  j = k
        OBVIOUS
      <4>1. f[j] = f[k]
        BY <2>4, <3>3
      <4> QED  BY <2>4, <4>1
    <3> QED  BY <1>1, <2>1, <3>2, <3>3 DEF IInv, SubmitOK, Shows
  <2> QED  BY <1>3, <1>4, <2>5, <2>6 DEF IInv
<1>6. CASE r.live # "gone"
  <2> DEFINE rs == [reqs EXCEPT ![i].ans = a]
  <2>1. /\ Len(rs) = Len(reqs)
        /\ \A k \in 1..Len(reqs) : k # i => rs[k] = reqs[k]
        /\ rs[i] = [r EXCEPT !.ans = a]
    BY <1>0, <1>2
  <2>2. r \in Messages /\ a \in Replies /\ DataOK(r, a) /\ ArgOK(r, confirmed)
    BY <1>2 DEF RequestOK, ServedOK, Replies
  <2> DEFINE q == [r EXCEPT !.ans = a]
  <2> HIDE DEF a
  <2>3. /\ q \in Messages /\ q.ans = a
        /\ q.op = r.op /\ q.id = r.id /\ q.arg = r.arg /\ q.live = r.live
    BY <2>2 DEF Messages
  <2>4. reqs' = rs /\ rs[i] = q
    BY <1>1, <1>6, <2>1
  <2>5. rs \in Seq(Messages)
    <3>1. rs = [k \in 1..Len(reqs) |-> IF k = i THEN q ELSE reqs[k]] /\ Len(reqs) \in Nat
      BY <1>0, <1>2
    <3>2. \A k \in 1..Len(reqs) : (IF k = i THEN q ELSE reqs[k]) \in Messages
      BY <1>0, <2>3
    <3> HIDE DEF q, rs
    <3> QED  BY <3>1, <3>2
  <2> HIDE DEF q, rs
  <2>6. RequestOK(q, confirmed)
    <3>1. ArgOK(q, confirmed)
      BY <2>2, <2>3 DEF ArgOK
    <3>2. DataOK(q, a)
      BY <2>2, <2>3 DEF DataOK
    <3> QED  BY <1>6, <2>3, <3>1, <3>2 DEF RequestOK
  <2>7. \A k \in 1..Len(rs) : /\ rs[k].op = reqs[k].op /\ rs[k].live = reqs[k].live
                              /\ RequestOK(rs[k], confirmed)
    BY <1>0, <1>2, <2>1, <2>3, <2>4, <2>6 DEF RequestsOK
  <2>8. RequestsOK'
    <3>1. \A k \in 1..Len(rs) : \A x : x = rs[k] => LiveOK(x)'
      BY <1>0, <1>1, <2>1, <2>7 DEF RequestsOK, LiveOK
    <3>2. \A j, k \in 1..Len(rs) : rs[j].op = "login" /\ rs[k].op = "login" => j = k
      BY <1>0, <2>1, <2>7 DEF RequestsOK
    <3> QED  BY <1>1, <2>4, <2>5, <2>7, <3>1, <3>2 DEF RequestsOK
  <2>9. \A k \in 1..Len(rs) : Submitted(rs[k]) <=> Submitted(reqs[k])
    BY <2>7 DEF Submitted
  <2>10. SubmitOK'
    BY <1>1, <2>1, <2>4, <2>9 DEF IInv, SubmitOK, Shows
  <2> QED  BY <1>3, <1>4, <2>8, <2>10 DEF IInv
<1> QED  BY <1>5, <1>6

-----------------------------------------------------------------------------
(* The theorems.                                                           *)

LEMMA InitialDbOK ==
  /\ InitialDb \in Databases
  /\ InitialDb.newGroup = 2 /\ \A k \in Kinds : InitialDb.newItem[k] = 2
<1>1. /\ MaxClients \in Nat \ {0} /\ MaxGroups \in Nat \ {0} /\ MaxItems \in Nat \ {0}
      /\ (CHOOSE n \in Names : TRUE) \in Names
  BY PanelAssumption
<1> DEFINE cs == [c \in {1} |-> [group |-> 1, enabled |-> TRUE]]
           gs == [g \in {1} |-> CHOOSE n \in Names : TRUE]
           xs == [x \in {1} |-> TRUE]
<1>2. cs \in [{1} -> Clients] /\ gs \in [{1} -> Names] /\ xs \in [{1} -> BOOLEAN]
  BY <1>1 DEF Clients
<1>3. {1} \subseteq 1..MaxClients /\ {1} \subseteq 1..MaxGroups /\ {1} \subseteq 1..MaxItems
  BY <1>1
<1>4. InitialDb = [clients |-> cs, newClient |-> 2, groups |-> gs, newGroup |-> 2,
                   items |-> [k \in Kinds |-> xs], newItem |-> [k \in Kinds |-> 2],
                   settings |-> [s \in Sections |-> "stored"]]
  BY DEF InitialDb
<1> HIDE DEF cs, gs, xs
<1>5. /\ cs \in Partial(1..MaxClients, Clients) /\ gs \in Partial(1..MaxGroups, Names)
      /\ xs \in Partial(1..MaxItems, BOOLEAN)
  BY <1>2, <1>3 DEF Partial
<1>6. /\ 2 \in 1..(MaxClients + 1) /\ 2 \in 1..(MaxGroups + 1) /\ 2 \in 1..(MaxItems + 1)
      /\ [s \in Sections |-> "stored"] \in [Sections -> Texts]
  BY <1>1 DEF Texts
<1> QED  BY <1>4, <1>5, <1>6 DEF Databases

LEMMA InitIInv ==
  ASSUME Init
  PROVE  IInv
<1>0. /\ db = InitialDb /\ token = AdminPassword /\ authed = TRUE
      /\ tour \in Tours /\ page \in tour.pages /\ filter = None
      /\ st = Fresh(page) /\ reqs = Mounted(page) /\ confirmed = {}
  BY DEF Init
<1>1. page \in Routes
  BY <1>0, AdminAssumption
<1>2. RouteOK /\ db \in Databases
  BY <1>0, InitialDbOK DEF RouteOK, GroupIds
<1>3. ScreenOK
  BY <1>0, <1>1, FreshOK DEF ScreenOK
<1>4. /\ Follows(reqs, confirmed)
      /\ \A k \in 1..Len(reqs) : reqs[k].op \in PageOps(page) \cap Reads
  BY <1>0, <1>1, MountedOK
<1>5. \A k \in 1..Len(reqs) : reqs[k].op \notin {"login", "create", "update", "newGroup", "newItem"}
  BY <1>4 DEF Reads, Measured
<1>6. RequestsOK
  BY <1>0, <1>4, <1>5 DEF RequestsOK, Follows, WellFormed, LiveOK
<1>7. SubmitOK /\ FormOK
  BY <1>0, <1>5, FreshQuiet DEF SubmitOK, FormOK, Shows, Submitted
<1>8. IdsLeft
  <2>1. \A args : Waiting(reqs, "newGroup", args) = {} /\ Waiting(reqs, "newItem", args) = {}
    BY <1>5 DEF Waiting
  <2>2. Cardinality({}) = 0
    BY FS_EmptySet
  <2>3. MaxGroups \in Nat \ {0} /\ MaxItems \in Nat \ {0}
    BY PanelAssumption
  <2>4. db.newGroup = 2 /\ \A k \in Kinds : db.newItem[k] = 2
    BY <1>0, InitialDbOK
  <2> QED  BY <2>1, <2>2, <2>3, <2>4 DEF IdsLeft
<1> QED  BY <1>2, <1>3, <1>6, <1>7, <1>8 DEF IInv

LEMMA NextIInv ==
  ASSUME IInv, [Next]_vars
  PROVE  IInv'
<1>1. CASE \E i \in DOMAIN reqs : Serve(i)
  BY <1>1, ServeStep
<1>2. CASE \E i \in DOMAIN reqs : Arrive(i)
  BY <1>2, ArriveStep
<1>3. CASE \E i \in DOMAIN reqs : Fail(i)
  BY <1>3, FailStep
<1>4. CASE UsersAction
  BY <1>4, UsersStep
<1>5. CASE GroupsAction
  BY <1>5, GroupsStep
<1>6. CASE ListAction
  BY <1>6, ListStep
<1>7. CASE SettingsAction
  BY <1>7, SettingsStep
<1>8. CASE ProfilesAction
  BY <1>8, ProfilesStep
<1>9. CASE RefreshClients \/ FetchData
  BY <1>9, RefreshStep
<1>10. CASE \E p \in tour.pages : Navigate(p, None)
  <2>1. None \in GroupIds
    BY DEF GroupIds
  <2> QED  BY <1>10, <2>1, NavigateStep
<1>11. CASE \E g \in 1..MaxGroups : OpenGroup(g)
  <2>1. PICK g \in 1..MaxGroups : Navigate("users", g)
    BY <1>11 DEF OpenGroup
  <2>2. g \in GroupIds
    BY DEF GroupIds
  <2> QED  BY <2>1, <2>2, NavigateStep
<1>12. CASE \E w \in {AdminPassword, "wrong"} : HandleSubmit(w)
  BY <1>12, HandleSubmitStep
<1>13. CASE ReloadPage
  BY <1>13, ReloadStep
<1>14. CASE OtherTab
  BY <1>14, OtherTabStep
<1>15. CASE UNCHANGED vars
  <2>1. UNCHANGED <<db, token, authed, page, filter, tour, st, reqs, confirmed>>
    BY <1>15 DEF vars, shell
  <2>2. RouteOK' /\ (db \in Databases)' /\ ScreenOK' /\ IdsLeft' /\ SubmitOK' /\ FormOK'
    BY <2>1 DEF IInv, RouteOK, ScreenOK, IdsLeft, SubmitOK, FormOK, Shows
  <2>3. RequestsOK'
    BY <2>1 DEF IInv, RequestsOK, LiveOK
  <2> QED  BY <2>2, <2>3 DEF IInv
<1> QED
  BY <1>1, <1>2, <1>3, <1>4, <1>5, <1>6, <1>7, <1>8, <1>9, <1>10, <1>11, <1>12, <1>13, <1>14, <1>15
  DEF Next, Server, Answers

(* In every state of the panel IInv holds: its parts are what each page    *)
(* state and each request may hold, that ids are left for the creations    *)
(* under way, that one submission is under way exactly while the sidebar   *)
(* waits, and that the edit form's last timer holds the group's name.      *)
THEOREM PanelInvariant == Spec => []IInv
<1>1. Init => IInv
  BY InitIInv
<1>2. IInv /\ [Next]_vars => IInv'
  BY NextIInv
<1> QED  BY <1>1, <1>2, PTL DEF Spec

LEMMA DomainKept ==
  ASSUME NEW p \in Routes, NEW s, PageState(p, s)
  PROVE  DOMAIN s = DOMAIN Fresh(p)
<1>1. PageState(p, Fresh(p))
  BY FreshOK
<1>2. CASE p = "users"
  BY <1>1, <1>2 DEF PageState, UsersStates
<1>3. CASE p = "groups"
  BY <1>1, <1>3 DEF PageState, GroupsStates
<1>4. CASE p \in Kinds
  BY <1>1, <1>4 DEF PageState, ListStates
<1>5. CASE p = "settings"
  BY <1>1, <1>5 DEF PageState, SettingsStates
<1>6. CASE p = "profiles"
  BY <1>1, <1>6 DEF PageState, ProfilesStates
<1>7. CASE p = "devices"
  BY <1>1, <1>7 DEF PageState
<1>8. CASE p = "logs"
  BY <1>1, <1>8 DEF PageState
<1>9. CASE p = "home"
  BY <1>1, <1>9 DEF PageState
<1> QED  BY <1>2, <1>3, <1>4, <1>5, <1>6, <1>7, <1>8, <1>9 DEF Routes, Kinds

LEMMA StateTyped ==
  ASSUME IInv
  PROVE  StateOK
<1>1. authed \in BOOLEAN /\ page \in Routes
  BY AdminAssumption DEF IInv, RouteOK
<1>2. CASE ~authed
  BY <1>2 DEF IInv, ScreenOK, LoginStates, StateOK
<1>3. CASE authed
  <2>1. PageState(page, st)
    BY <1>3 DEF IInv, ScreenOK
  <2>2. DOMAIN st = DOMAIN Fresh(page)
    BY <1>1, <2>1, DomainKept
  <2>3. page = "users" =>
            /\ st.selectedUsers \subseteq 1..MaxClients
            /\ {st.selectedUser, st.qrModal} \subseteq {None} \cup 1..MaxClients
            /\ st.selectedGroupId \in {None} \cup 1..MaxGroups
    BY <2>1 DEF PageState, UsersStates, ClientIds, GroupIds
  <2>4. page = "groups" =>
            /\ {st.editId, st.assignGroupId} \subseteq {None} \cup 1..MaxGroups
            /\ Len(st.fills) <= MaxFills /\ st.name \in {None} \cup Names
    BY <2>1 DEF PageState, GroupsStates, GroupIds
  <2>5. page \in Kinds => st.items \in Partial(1..MaxItems, BOOLEAN)
    BY <2>1 DEF PageState, ListStates, ItemLists
  <2>6. page = "settings" => /\ st.inputs \in [Sections -> Texts] /\ st.labels \in 0..MaxLabels
                             /\ SettingsView(st).label => st.labels > 0
    BY <2>1 DEF PageState, SettingsStates, SettingsView
  <2>7. page = "profiles" => (ProfilesView(st).label # None => st.labels > 0)
    BY <2>1 DEF PageState, ProfilesView
  <2> QED  BY <1>3, <2>2, <2>3, <2>4, <2>5, <2>6, <2>7 DEF StateOK
<1> QED  BY <1>1, <1>2, <1>3

(* The database stays well-formed and the state is that of the page that   *)
(* is mounted, whichever answers come after a page was left, the document  *)
(* was loaded anew or the token refused (App.tsx, config.ts, the pages).   *)
THEOREM StateOfThePage == Spec => []TypeOK
<1>1. IInv => TypeOK
  <2> SUFFICES ASSUME IInv  PROVE TypeOK
    OBVIOUS
  <2>1. \A i \in DOMAIN reqs : [op |-> reqs[i].op, live |-> reqs[i].live] \in Requests
    <3> SUFFICES ASSUME NEW i \in DOMAIN reqs
                 PROVE  [op |-> reqs[i].op, live |-> reqs[i].live] \in Requests
      OBVIOUS
    <3>1. reqs[i] \in Messages
      BY DEF IInv, RequestsOK
    <3>2. reqs[i].op \in Ops /\ reqs[i].live \in {"page", "left", "gone"}
      BY <3>1 DEF Messages
    <3> QED  BY <3>2 DEF Requests, Ops
  <2>2. /\ db \in Databases /\ token \in {None, AdminPassword} /\ authed \in BOOLEAN
        /\ page \in tour.pages /\ filter \in {None} \cup 1..MaxGroups
    BY DEF IInv, RouteOK, GroupIds
  <2> QED  BY <2>1, <2>2, StateTyped DEF TypeOK
<1> QED  BY <1>1, PanelInvariant, PTL

(* However the sidebar is closed and opened, whatever fails or comes late, *)
(* the sidebar waits exactly while one creation or change is under way     *)
(* (Users.tsx, handleSubmit and its finally).                              *)
THEOREM OneAtATime == Spec => []OneSubmission
<1>1. IInv => OneSubmission
  <2> SUFFICES ASSUME IInv, Shows("users")
               PROVE  Cardinality({i \in DOMAIN reqs : reqs[i].live = "page"
                                                       /\ reqs[i].op \in {"create", "update"}})
                        = (IF st.loading THEN 1 ELSE 0)
    BY DEF OneSubmission
  <2> DEFINE sent == {i \in DOMAIN reqs : reqs[i].live = "page"
                                          /\ reqs[i].op \in {"create", "update"}}
  <2>1. /\ (\E i \in sent : TRUE) <=> st.loading
        /\ \A i, j \in sent : i = j
    <3>1. reqs \in Seq(Messages)
      BY DEF IInv, RequestsOK
    <3>2. \A i : i \in sent <=> i \in 1..Len(reqs) /\ Submitted(reqs[i])
      BY <3>1 DEF Submitted
    <3> HIDE DEF sent
    <3> QED  BY <3>2 DEF IInv, SubmitOK
  <2>2. st.loading \in BOOLEAN
    BY DEF IInv, ScreenOK, Shows, PageState, UsersStates
  <2> HIDE DEF sent
  <2>3. CASE st.loading
    <3>1. PICK i \in sent : TRUE
      BY <2>1, <2>3
    <3>2. sent = {i}
      BY <2>1
    <3>3. Cardinality(sent) = 1
      BY <3>2, FS_Singleton
    <3> QED  BY <2>3, <3>3 DEF sent
  <2>4. CASE ~st.loading
    <3>1. sent = {}
      BY <2>1, <2>4
    <3>2. Cardinality(sent) = 0
      BY <3>1, FS_EmptySet
    <3> QED  BY <2>4, <3>2 DEF sent
  <2> QED  BY <2>3, <2>4
<1> QED  BY <1>1, PanelInvariant, PTL

(* In whatever order groups are opened for editing, cancelled and saved    *)
(* while the timers that fill the form are pending, the form settles on    *)
(* the name of the group it saves to (Groups.tsx, openEdit).               *)
THEOREM FormSettles == Spec => []EditFormSettles
<1>1. IInv => EditFormSettles
  BY DEF IInv, FormOK, Form, EditFormSettles, Shows
<1> QED  BY <1>1, PanelInvariant, PTL

(* The database changes in the server's steps only. *)
LEMMA DbServed ==
  ASSUME [Next]_vars
  PROVE  db' = db \/ \E i \in DOMAIN reqs : Serve(i)
<1>1. \A s : Local(s) => db' = db
  BY DEF Local
<1>2. \A rs : Fetch(rs) => db' = db
  BY DEF Fetch
<1>3. \A s, r, ids : Submit(s, r, ids) => db' = db
  BY DEF Submit
<1>4. UsersAction => db' = db
  BY <1>1, <1>2, <1>3
  DEF UsersAction, FetchUsers, ToggleSelectAll, AddClient, CloseSidebar, CloseQr, HandleCreate,
      HandleUpdate, HandleBulkDelete, PickGroup, ToggleUserSelection, OpenUserDetails, OpenQr,
      HandleToggle, HandleDelete
<1>5. GroupsAction => db' = db
  BY <1>1, <1>3
  DEF GroupsAction, NewGroup, FillTimer, CancelForm, SaveGroup, CloseAssignPanel, HandleAssign,
      TypeName, StartEdit, RemoveGroup, OpenAssignPanel, ToggleClientSelection
<1>6. ListAction => db' = db
  BY <1>1, <1>3
  DEF ListAction, ShowForm, CancelItem, CreateTemplate, CreateNode, CreateRule, RemoveTemplate,
      RemoveNode, RemoveRule, SwitchRule
<1>7. SettingsAction \/ ProfilesAction => db' = db
  BY <1>1, <1>3
  DEF SettingsAction, SavedTimer, TypeSetting, SaveSection, ProfilesAction, CopyKey, CopiedTimer
<1>8. RefreshClients \/ FetchData => db' = db
  BY <1>2 DEF RefreshClients, FetchData
<1>9. (\E i \in DOMAIN reqs : Arrive(i) \/ Fail(i)) => db' = db
  BY DEF Arrive, Fail, Unauthorized, LoggedIn, Boot
<1>10. (\E p, g : Navigate(p, g)) \/ (\E w : HandleSubmit(w)) \/ ReloadPage \/ OtherTab => db' = db
  BY DEF Navigate, HandleSubmit, ReloadPage, OtherTab, Boot
<1>11. UNCHANGED vars => db' = db
  BY DEF vars
<1> QED
  BY <1>4, <1>5, <1>6, <1>7, <1>8, <1>9, <1>10, <1>11 DEF Next, Server, Answers, OpenGroup

(* The server deletes only clients whose deletion the admin confirmed,     *)
(* though a bulk deletion goes on one by one while lists and selections    *)
(* change or after the page is left (Users.tsx, main.py).                  *)
THEOREM OnlyConfirmedDeleted == Spec => DeleteOnlyConfirmed
<1> DEFINE Kept == DOMAIN db.clients \ DOMAIN db'.clients \subseteq confirmed
<1>1. IInv /\ [Next]_vars => [Kept]_vars
  <2> SUFFICES ASSUME IInv, [Next]_vars  PROVE Kept \/ UNCHANGED vars
    OBVIOUS
  <2>1. CASE \E i \in DOMAIN reqs : Serve(i)
    <3>1. PICK i \in DOMAIN reqs : Serve(i)
      BY <2>1
    <3> DEFINE r == reqs[i]
    <3>2. i \in 1..Len(reqs) /\ reqs[i].ans = None /\ r = reqs[i] /\ db' = Handle(db, r).db
      BY <3>1 DEF Serve, IInv, RequestsOK
    <3> HIDE DEF r
    <3>3. ServedOK(db, r, Handle(db, r), confirmed)
      BY <3>2, ServeDb
    <3> QED  BY <3>2, <3>3 DEF ServedOK
  <2>2. CASE db' = db
    BY <2>2
  <2> QED  BY <2>1, <2>2, DbServed
<1> QED  BY <1>1, PanelInvariant, PTL DEF Spec, DeleteOnlyConfirmed

-----------------------------------------------------------------------------
(* What the pages show and what the server holds.                          *)

(* What a page shows of the database, by the read that brings it. *)
PageLists(p) ==
  CASE p \in {"users", "profiles", "devices", "logs"} -> {"clients"}
    [] p = "groups"   -> {"groups", "clients"}
    [] p \in Kinds    -> {"items"}
    [] p = "home"     -> {"dash", "sys", "clients", "traffic", "chart"}
    [] p = "settings" -> {}

(* What the server would answer now. *)
Current(d, p, l) ==
  CASE l = "clients" -> ListClients(d)
    [] l = "groups"  -> ListGroups(d)
    [] l = "dash"    -> GetDashboard(d)
    [] l = "items"   -> d.items[p]
    [] l \in Measured -> "measured"

(* The page shows it. *)
Holds(d, p, s, l) ==
  IF p = "logs" THEN s = GenerateLogs(Current(d, p, l)) ELSE s[l] = Current(d, p, l)

(* The changes after which a page reads l again. *)
Changes(l) ==
  CASE l = "clients" -> UsersOps \cup {"deleteGroup", "assign"}
    [] l = "groups"  -> GroupsOps
    [] l = "items"   -> ListOps
    [] OTHER         -> {}

Reading(r, l) == r.live = "page" /\ r.op = l

(* Request r is answered with what l is now. *)
Answered(d, p, r, l) == r.ans.code = 200 /\ r.ans.data = Current(d, p, l)

(* Request r will bring what l is now, or have the page left. *)
Brings(d, p, r, l) ==
  /\ r.live = "page"
  /\ \/ r.op = l /\ r.ans = None
     \/ r.op = l /\ Answered(d, p, r, l)
     \/ r.op = "bulk" /\ l = "clients"
     \/ r.op \in Changes(l) /\ r.ans # None /\ r.ans.code = 200
     \/ r.ans # None /\ r.ans.code = 401

FreshIn(d, p, s, rs, l) ==
  /\ \A i, j \in 1..Len(rs) : Reading(rs[i], l) /\ Reading(rs[j], l) => i = j
  /\ \/ \E i \in 1..Len(rs) : Brings(d, p, rs[i], l)
     \/ Holds(d, p, s, l) /\ \A i \in 1..Len(rs) : ~Reading(rs[i], l)

(* The requests of a list page are about its own list. *)
KindOK(p, r) ==
  r.live = "page" => /\ r.op = "items" => r.id = p
                     /\ r.op \in ListOps => KindOf(r) = p

FreshInv ==
  authed => /\ \A i \in 1..Len(reqs) : KindOK(page, reqs[i])
            /\ ~skew => \A l \in PageLists(page) : FreshIn(db, page, st, reqs, l)

(* The first reads of page p: each of its lists once. *)
Mounts(new, p) ==
  /\ new \in Seq(Messages)
  /\ \A k \in 1..Len(new) : /\ new[k].ans = None /\ new[k].live = "page" /\ new[k].op \in Reads
                            /\ new[k].op = "items" => new[k].id = p
  /\ \A j, k \in 1..Len(new) : new[j].op = new[k].op => j = k
  /\ \A l \in PageLists(p) : \E k \in 1..Len(new) : new[k].op = l

LEMMA NoListOp ==
  /\ \A op \in Reads : op \notin ListOps /\ op # "bulk" /\ op # "login"
  /\ \A l : Changes(l) \cap Reads = {}
  /\ "bulk" \notin ListOps /\ "bulk" \notin Reads
BY DEF Reads, Measured, ListOps, Changes, UsersOps, GroupsOps

(* A page that was just mounted reads all it shows. *)
LEMMA MountFresh ==
  ASSUME NEW d, NEW p, NEW s, NEW rs \in Seq(Messages),
         \A k \in 1..Len(rs) : rs[k].live # "page",
         NEW new, Mounts(new, p), NEW all, all = rs \o new
  PROVE  /\ \A k \in 1..Len(all) : KindOK(p, all[k])
         /\ \A l \in PageLists(p) : FreshIn(d, p, s, all, l)
<1>1. /\ new \in Seq(Messages)
      /\ \A k \in 1..Len(new) : /\ new[k].ans = None /\ new[k].live = "page" /\ new[k].op \in Reads
                                /\ new[k].op = "items" => new[k].id = p
      /\ \A j, k \in 1..Len(new) : new[j].op = new[k].op => j = k
      /\ \A l \in PageLists(p) : \E k \in 1..Len(new) : new[k].op = l
  BY DEF Mounts
<1>2. /\ \A k \in 1..Len(new) : Len(rs) + k \in 1..Len(all) /\ all[Len(rs) + k] = new[k]
      /\ \A k \in 1..Len(all) : \/ k \in 1..Len(rs) /\ all[k] = rs[k]
                                \/ k - Len(rs) \in 1..Len(new) /\ all[k] = new[k - Len(rs)]
      /\ Len(rs) \in Nat
  BY <1>1, ConcatOK
<1>3. ASSUME NEW k \in 1..Len(all)  PROVE KindOK(p, all[k])
  BY <1>1, <1>2, NoListOp DEF KindOK
<1>4. ASSUME NEW l \in PageLists(p)  PROVE FreshIn(d, p, s, all, l)
  <2>1. PICK k \in 1..Len(new) : new[k].op = l
    BY <1>1
  <2>2. Brings(d, p, new[k], l)
    BY <1>1, <2>1 DEF Brings
  <2>3. ASSUME NEW i \in 1..Len(all), NEW j \in 1..Len(all), Reading(all[i], l), Reading(all[j], l)
        PROVE  i = j
    <3>1. /\ i - Len(rs) \in 1..Len(new) /\ all[i] = new[i - Len(rs)]
          /\ j - Len(rs) \in 1..Len(new) /\ all[j] = new[j - Len(rs)]
      BY <1>2, <2>3 DEF Reading
    <3>2. new[i - Len(rs)].op = new[j - Len(rs)].op
      BY <2>3, <3>1 DEF Reading
    <3>3. \A a, b \in 1..Len(new) : new[a].op = new[b].op => a = b
      BY <1>1
    <3>4. i - Len(rs) = j - Len(rs)
      BY <3>1, <3>2, <3>3
    <3> QED  BY <1>2, <3>4
  <2>4. Len(rs) + k \in 1..Len(all) /\ Brings(d, p, all[Len(rs) + k], l)
    BY <1>2, <2>2
  <2> QED  BY <2>3, <2>4 DEF FreshIn
<1> QED  BY <1>3, <1>4

LEMMA NothingRemoved ==
  ASSUME NEW rs \in Seq(Messages)
  PROVE  Removal(rs, rs, 0)
<1> DEFINE f == [k \in 1..Len(rs) |-> k]
<1>1. /\ f \in [1..Len(rs) -> 1..Len(rs)]
      /\ \A j, k \in 1..Len(rs) : f[j] = f[k] => j = k
      /\ \A k \in 1..Len(rs) : f[k] # 0 /\ rs[k] = rs[f[k]]
      /\ \A j \in 1..Len(rs) : j # 0 => \E k \in 1..Len(rs) : f[k] = j
  OBVIOUS
<1> HIDE DEF f
<1> QED  BY <1>1 DEF Removal

(* A page stays fresh when one request ends and others are sent, provided  *)
(* that what it was to bring is among these, and that no list is read by   *)
(* two requests at once.                                                   *)
LEMMA GrownFresh ==
  ASSUME NEW d, NEW p, NEW s, NEW u, NEW l, NEW old \in Seq(Messages), NEW i, NEW rs,
         Removal(rs, old, i), FreshIn(d, p, s, old, l), Holds(d, p, s, l) => Holds(d, p, u, l),
         NEW new \in Seq(Messages), \A k \in 1..Len(new) : new[k].ans = None,
         \A k \in 1..Len(new) : Reading(new[k], l) =>
           \A j \in 1..Len(old) : ~Reading(old[j], l),
         \A j, k \in 1..Len(new) : Reading(new[j], l) /\ Reading(new[k], l) => j = k,
         i \in 1..Len(old) /\ Brings(d, p, old[i], l) =>
           \E k \in 1..Len(new) : Brings(d, p, new[k], l),
         NEW all, all = rs \o new
  PROVE  FreshIn(d, p, u, all, l)
<1>1. PICK f \in [1..Len(rs) -> 1..Len(old)] :
        /\ \A j, k \in 1..Len(rs) : f[j] = f[k] => j = k
        /\ \A k \in 1..Len(rs) : f[k] # i /\ rs[k] = old[f[k]]
        /\ \A j \in 1..Len(old) : j # i => \E k \in 1..Len(rs) : f[k] = j
  BY DEF Removal
<1>2. /\ \A k \in 1..Len(new) : Len(rs) + k \in 1..Len(all) /\ all[Len(rs) + k] = new[k]
      /\ \A k \in 1..Len(rs) : k \in 1..Len(all) /\ all[k] = rs[k]
      /\ \A k \in 1..Len(all) : \/ k \in 1..Len(rs) /\ all[k] = rs[k]
                                \/ k - Len(rs) \in 1..Len(new) /\ all[k] = new[k - Len(rs)]
      /\ Len(rs) \in Nat
  <2>1. rs \in Seq(Messages)
    BY DEF Removal
  <2> QED  BY <2>1, ConcatOK
<1>3. \A a, b \in 1..Len(old) : Reading(old[a], l) /\ Reading(old[b], l) => a = b
  BY DEF FreshIn
<1>4. ASSUME NEW a \in 1..Len(all), NEW b \in 1..Len(all), Reading(all[a], l), Reading(all[b], l)
      PROVE  a = b
  <2>1. CASE a \in 1..Len(rs) /\ all[a] = rs[a] /\ b \in 1..Len(rs) /\ all[b] = rs[b]
    <3>1. /\ f[a] \in 1..Len(old) /\ Reading(old[f[a]], l)
          /\ f[b] \in 1..Len(old) /\ Reading(old[f[b]], l)
      BY <1>1, <1>4, <2>1
    <3>2. f[a] = f[b]
      BY <1>3, <3>1
    <3> QED  BY <1>1, <2>1, <3>2
  <2>2. ASSUME NEW x \in 1..Len(all), NEW y \in 1..Len(all), Reading(all[x], l), Reading(all[y], l),
               x \in 1..Len(rs), all[x] = rs[x],
               y - Len(rs) \in 1..Len(new), all[y] = new[y - Len(rs)]
        PROVE  FALSE
    <3>1. f[x] \in 1..Len(old) /\ Reading(old[f[x]], l)
      BY <1>1, <2>2
    <3>2. Reading(new[y - Len(rs)], l)
      BY <2>2
    <3> QED  BY <2>2, <3>1, <3>2
  <2>3. CASE /\ a - Len(rs) \in 1..Len(new) /\ all[a] = new[a - Len(rs)]
             /\ b - Len(rs) \in 1..Len(new) /\ all[b] = new[b - Len(rs)]
    <3>1. a - Len(rs) = b - Len(rs)
      BY <1>4, <2>3
    <3> QED  BY <1>2, <3>1
  <2> QED  BY <1>2, <1>4, <2>1, <2>2, <2>3
<1>5. CASE \E j \in 1..Len(old) : Brings(d, p, old[j], l)
  <2>1. PICK j \in 1..Len(old) : Brings(d, p, old[j], l)
    BY <1>5
  <2>2. CASE j = i
    <3>1. PICK k \in 1..Len(new) : Brings(d, p, new[k], l)
      BY <2>1, <2>2
    <3>2. Len(rs) + k \in 1..Len(all) /\ Brings(d, p, all[Len(rs) + k], l)
      BY <1>2, <3>1
    <3> QED  BY <1>4, <3>2 DEF FreshIn
  <2>3. CASE j # i
    <3>1. PICK k \in 1..Len(rs) : f[k] = j
      BY <1>1, <2>3
    <3>2. k \in 1..Len(all) /\ all[k] = old[j]
      BY <1>1, <1>2, <3>1
    <3> QED  BY <1>4, <2>1, <3>2 DEF FreshIn
  <2> QED  BY <2>2, <2>3
<1>6. CASE Holds(d, p, s, l) /\ \A j \in 1..Len(old) : ~Reading(old[j], l)
  <2>1. CASE \E k \in 1..Len(new) : Reading(new[k], l)
    <3>1. PICK k \in 1..Len(new) : Reading(new[k], l)
      BY <2>1
    <3>2. Brings(d, p, new[k], l)
      BY <3>1 DEF Reading, Brings
    <3>3. Len(rs) + k \in 1..Len(all) /\ Brings(d, p, all[Len(rs) + k], l)
      BY <1>2, <3>2
    <3> QED  BY <1>4, <3>3 DEF FreshIn
  <2>2. CASE \A k \in 1..Len(new) : ~Reading(new[k], l)
    <3>1. \A k \in 1..Len(rs) : ~Reading(rs[k], l)
      BY <1>1, <1>6
    <3>2. \A k \in 1..Len(all) : ~Reading(all[k], l)
      BY <1>2, <2>2, <3>1
    <3> QED  BY <1>4, <1>6, <3>2 DEF FreshIn
  <2> QED  BY <2>1, <2>2
<1> QED  BY <1>5, <1>6 DEF FreshIn

(* The answer to the one read of a list arrives. *)
LEMMA ArrivedFresh ==
  ASSUME NEW d, NEW p, NEW s, NEW u, NEW l \in Reads, NEW old, NEW i \in 1..Len(old), NEW rs,
         Removal(rs, old, i), FreshIn(d, p, s, old, l), Reading(old[i], l),
         old[i].ans # None, old[i].ans.code # 401,
         Answered(d, p, old[i], l) => Holds(d, p, u, l)
  PROVE  FreshIn(d, p, u, rs, l)
<1>1. PICK f \in [1..Len(rs) -> 1..Len(old)] :
        /\ \A j, k \in 1..Len(rs) : f[j] = f[k] => j = k
        /\ \A k \in 1..Len(rs) : f[k] # i /\ rs[k] = old[f[k]]
        /\ \A j \in 1..Len(old) : j # i => \E k \in 1..Len(rs) : f[k] = j
  BY DEF Removal
<1>2. \A a, b \in 1..Len(old) : Reading(old[a], l) /\ Reading(old[b], l) => a = b
  BY DEF FreshIn
<1>3. \A k \in 1..Len(rs) : ~Reading(rs[k], l)
  <2> SUFFICES ASSUME NEW k \in 1..Len(rs), Reading(rs[k], l)  PROVE FALSE
    OBVIOUS
  <2>1. f[k] \in 1..Len(old) /\ Reading(old[f[k]], l) /\ f[k] # i
    BY <1>1
  <2> QED  BY <1>2, <2>1
<1>4. PICK j \in 1..Len(old) : Brings(d, p, old[j], l)
  BY DEF FreshIn
<1>5. CASE j = i
  <2>1. l # "bulk" /\ l \notin Changes(l)
    BY NoListOp
  <2>2. Answered(d, p, old[i], l)
    BY <1>4, <1>5, <2>1 DEF Brings, Reading
  <2> QED  BY <1>3, <2>2 DEF FreshIn
<1>6. CASE j # i
  <2>1. PICK k \in 1..Len(rs) : f[k] = j
    BY <1>1, <1>6
  <2>2. Brings(d, p, rs[k], l)
    BY <1>1, <1>4, <2>1
  <2> QED  BY <1>3, <2>2 DEF FreshIn
<1> QED  BY <1>5, <1>6

(* Request i is replaced by q, the same one answered. *)
Replaced(rs, old, i, q) ==
  /\ Len(rs) = Len(old) /\ \A k \in 1..Len(old) : rs[k] = IF k = i THEN q ELSE old[k]
  /\ q.op = old[i].op /\ q.live = old[i].live

(* The server carries out a request of the page. *)
LEMMA ServedFresh ==
  ASSUME NEW d, NEW e, NEW p, NEW s, NEW l, NEW old, NEW i \in 1..Len(old), NEW rs, NEW q,
         Replaced(rs, old, i, q), FreshIn(d, p, s, old, l),
         Current(e, p, l) = Current(d, p, l) \/ Brings(e, p, q, l),
         Brings(d, p, old[i], l) => Brings(e, p, q, l)
  PROVE  FreshIn(e, p, s, rs, l)
<1>0. /\ Len(rs) = Len(old) /\ \A k \in 1..Len(old) : rs[k] = IF k = i THEN q ELSE old[k]
      /\ q.op = old[i].op /\ q.live = old[i].live
  BY DEF Replaced
<1>1. \A k \in 1..Len(old) : Reading(rs[k], l) <=> Reading(old[k], l)
  BY <1>0 DEF Reading
<1>2. \A a, b \in 1..Len(rs) : Reading(rs[a], l) /\ Reading(rs[b], l) => a = b
  BY <1>0, <1>1 DEF FreshIn
<1>3. CASE Brings(e, p, q, l)
  <2>1. rs[i] = q /\ i \in 1..Len(rs)
    BY <1>0
  <2> QED  BY <1>2, <1>3, <2>1 DEF FreshIn
<1>4. CASE ~Brings(e, p, q, l)
  <2>1. Current(e, p, l) = Current(d, p, l) /\ ~Brings(d, p, old[i], l)
    BY <1>4
  <2>2. \A k \in 1..Len(old) : Brings(d, p, old[k], l) => k # i /\ Brings(e, p, rs[k], l)
    BY <1>0, <2>1 DEF Brings, Answered
  <2>3. Holds(d, p, s, l) <=> Holds(e, p, s, l)
    BY <2>1 DEF Holds
  <2>4. \/ \E k \in 1..Len(old) : Brings(d, p, old[k], l)
        \/ Holds(d, p, s, l) /\ \A k \in 1..Len(old) : ~Reading(old[k], l)
    BY DEF FreshIn
  <2>5. \/ \E k \in 1..Len(rs) : Brings(e, p, rs[k], l)
        \/ Holds(e, p, s, l) /\ \A k \in 1..Len(rs) : ~Reading(rs[k], l)
    BY <1>0, <1>1, <2>2, <2>3, <2>4
  <2> QED  BY <1>2, <2>5 DEF FreshIn
<1> QED  BY <1>3, <1>4

(* What the pages read when they are mounted. *)
LEMMA GetFields ==
  ASSUME NEW op \in Reads \ {"items"}, token \in {None, AdminPassword}
  PROVE  /\ Get(op) \in Messages /\ Get(op).ans = None /\ Get(op).live = "page"
         /\ Get(op).op = op
BY GetOK DEF RequestOK

LEMMA LoadFields ==
  ASSUME NEW k \in Kinds, token \in {None, AdminPassword}
  PROVE  /\ Load(k) \in Messages /\ Load(k).ans = None /\ Load(k).live = "page"
         /\ Load(k).op = "items" /\ Load(k).id = k
<1>1. "items" \in Ops /\ k \in Ids
  BY DEF Ops, Reads, Ids
<1> QED  BY <1>1, NoneFits, RequestFields DEF Load

LEMMA OneMounts ==
  ASSUME NEW p, NEW r \in Messages, r.ans = None, r.live = "page", r.op \in Reads,
         r.op = "items" => r.id = p, PageLists(p) \subseteq {r.op}
  PROVE  Mounts(<<r>>, p)
<1>1. <<r>> \in Seq(Messages) /\ Len(<<r>>) = 1 /\ <<r>>[1] = r
  OBVIOUS
<1> QED  BY <1>1 DEF Mounts

LEMMA MountedMounts ==
  ASSUME NEW p \in Routes, token \in {None, AdminPassword}
  PROVE  Mounts(Mounted(p), p)
<1>1. CASE p = "home"
  <2> DEFINE a == Get("dash")
             b == Get("sys")
             c == Get("clients")
             d == Get("traffic")
             e == Get("chart")
             rs == <<a, b, c, d, e>>
  <2>1. {"dash", "sys", "clients", "traffic", "chart"} \subseteq Reads \ {"items"}
    BY DEF Reads, Measured
  <2>2. /\ a.op = "dash" /\ b.op = "sys" /\ c.op = "clients" /\ d.op = "traffic" /\ e.op = "chart"
        /\ \A x \in {a, b, c, d, e} : x \in Messages /\ x.ans = None /\ x.live = "page"
    BY <2>1, GetFields
  <2>3. Mounted(p) = rs
    BY <1>1 DEF Mounted, HomeReads, Kinds
  <2>4. PageLists(p) = {"dash", "sys", "clients", "traffic", "chart"}
    BY <1>1 DEF PageLists, Kinds
  <2> HIDE DEF a, b, c, d, e
  <2>5. /\ rs \in Seq(Messages) /\ Len(rs) = 5
        /\ rs[1] = a /\ rs[2] = b /\ rs[3] = c /\ rs[4] = d /\ rs[5] = e
    <3>1. a \in Messages /\ b \in Messages /\ c \in Messages /\ d \in Messages /\ e \in Messages
      BY <2>2
    <3> QED  BY <3>1
  <2>6. \A k \in 1..5 : k = 1 \/ k = 2 \/ k = 3 \/ k = 4 \/ k = 5
    OBVIOUS
  <2> HIDE DEF rs
  <2>7. \A k \in 1..Len(rs) : /\ rs[k].ans = None /\ rs[k].live = "page" /\ rs[k].op \in Reads
                              /\ rs[k].op # "items"
    BY <2>1, <2>2, <2>5, <2>6
  <2>8. \A j, k \in 1..Len(rs) : rs[j].op = rs[k].op => j = k
    BY <2>2, <2>5, <2>6
  <2>9. \A l \in PageLists(p) : \E k \in 1..Len(rs) : rs[k].op = l
    BY <2>2, <2>4, <2>5
  <2> QED  BY <2>3, <2>5, <2>7, <2>8, <2>9 DEF Mounts
<1>2. CASE p = "groups"
  <2> DEFINE a == Get("groups")
             b == Get("clients")
             rs == <<a, b>>
  <2>1. {"groups", "clients"} \subseteq Reads \ {"items"}
    BY DEF Reads, Measured
  <2>2. /\ a.op = "groups" /\ b.op = "clients"
        /\ \A x \in {a, b} : x \in Messages /\ x.ans = None /\ x.live = "page"
    BY <2>1, GetFields
  <2>3. Mounted(p) = rs
    BY <1>2 DEF Mounted, Kinds
  <2>4. PageLists(p) = {"groups", "clients"}
    BY <1>2 DEF PageLists, Kinds
  <2> HIDE DEF a, b
  <2>5. rs \in Seq(Messages) /\ Len(rs) = 2 /\ rs[1] = a /\ rs[2] = b
    BY <2>2
  <2>6. \A k \in 1..2 : k = 1 \/ k = 2
    OBVIOUS
  <2> HIDE DEF rs
  <2> QED  BY <2>1, <2>2, <2>3, <2>4, <2>5, <2>6 DEF Mounts
<1>3. CASE p \in Kinds
  <2>1. Mounted(p) = <<Load(p)>> /\ PageLists(p) = {"items"} /\ "items" \in Reads
    BY <1>3 DEF Mounted, PageLists, Kinds, Reads
  <2>2. /\ Load(p) \in Messages /\ Load(p).ans = None /\ Load(p).live = "page"
        /\ Load(p).op = "items" /\ Load(p).id = p
    BY <1>3, LoadFields
  <2> QED  BY <2>1, <2>2, OneMounts
<1>4. CASE p = "settings"
  <2>1. Mounted(p) = <<Get("settings")>> /\ PageLists(p) = {} /\ "settings" \in Reads \ {"items"}
    BY <1>4 DEF Mounted, PageLists, Kinds, Reads
  <2>2. /\ Get("settings") \in Messages /\ Get("settings").ans = None
        /\ Get("settings").live = "page" /\ Get("settings").op = "settings"
    BY <2>1, GetFields
  <2> QED  BY <2>1, <2>2, OneMounts
<1>5. CASE p \in {"users", "profiles", "devices", "logs"}
  <2>1. /\ Mounted(p) = <<Get("clients")>> /\ PageLists(p) = {"clients"}
        /\ "clients" \in Reads \ {"items"}
    BY <1>5 DEF Mounted, PageLists, Kinds, Reads
  <2>2. /\ Get("clients") \in Messages /\ Get("clients").ans = None
        /\ Get("clients").live = "page" /\ Get("clients").op = "clients"
    BY <2>1, GetFields
  <2> QED  BY <2>1, <2>2, OneMounts
<1> QED  BY <1>1, <1>2, <1>3, <1>4, <1>5 DEF Routes, Kinds

(* What the server does with a request of the page: a read gives what is   *)
(* current, a change is refused or one that the page reads again after, or *)
(* leaves what the list shows.                                             *)
LEMMA HandleRead ==
  ASSUME NEW d, NEW p, NEW r, r.op \in Reads \ {"settings"}, r.op = "items" => r.id = p,
         NEW h, h = Handle(d, r)
  PROVE  /\ h.db = d
         /\ \/ h.code = 401 /\ h.data = None
            \/ h.code = 200 /\ h.data = Current(d, p, r.op)
<1>0. Reads \ {"settings"} = {"clients", "groups", "items", "dash", "sys", "traffic", "chart"}
  BY DEF Reads, Measured
<1>1. CASE r.tok # AdminPassword
  BY <1>0, <1>1 DEF Handle, Answer
<1>2. CASE r.tok = AdminPassword
  <2>1. h = Endpoint(d, r)
    BY <1>0, <1>2 DEF Handle
  <2>2. CASE r.op = "clients"
    BY <2>1, <2>2 DEF Endpoint, Answer, Current, Measured
  <2>3. CASE r.op = "groups"
    BY <2>1, <2>3 DEF Endpoint, Answer, Current, Measured
  <2>4. CASE r.op = "items"
    BY <2>1, <2>4 DEF Endpoint, Answer, Current, Measured
  <2>5. CASE r.op = "dash"
    BY <2>1, <2>5 DEF Endpoint, Answer, Current, Measured
  <2>6. CASE r.op \in Measured
    <3>1. r.op \notin {"clients", "groups", "items", "dash"}
      BY <2>6 DEF Measured
    <3>2. h = Answer(d, 200, "measured")
      BY <2>1, <2>6 DEF Endpoint, Measured
    <3>3. Current(d, p, r.op) = "measured"
      BY <2>6, <3>1 DEF Current
    <3> QED  BY <3>2, <3>3 DEF Answer
  <2> QED  BY <1>0, <2>2, <2>3, <2>4, <2>5, <2>6 DEF Measured
<1> QED  BY <1>1, <1>2

LEMMA HandleReadDb ==
  ASSUME NEW d, NEW r, r.op \in Reads
  PROVE  Handle(d, r).db = d
<1>1. CASE r.op = "settings"
  BY <1>1 DEF Handle, Endpoint, Answer, Measured
<1>2. CASE r.op # "settings"
  <2> DEFINE p == r.id
  <2>1. r.op \in Reads \ {"settings"} /\ (r.op = "items" => r.id = p)
    BY <1>2
  <2> HIDE DEF p
  <2> QED  BY <2>1, HandleRead
<1> QED  BY <1>1, <1>2

LEMMA HandleChange ==
  ASSUME NEW d \in Databases, NEW r, r.op \in UsersOps \cup GroupsOps \cup ListOps,
         NEW h, h = Handle(d, r)
  PROVE  /\ h.db = d \/ h.code = 200
         /\ r.op \in {"newGroup", "editGroup"} => h.db.clients = d.clients
         /\ h.data = None
<1>0. r.op # "login"
  BY DEF UsersOps, GroupsOps, ListOps
<1>1. CASE r.tok # AdminPassword
  BY <1>0, <1>1 DEF Handle, Answer
<1>2. CASE r.tok = AdminPassword
  <2>0. h = Endpoint(d, r)
    BY <1>0, <1>2 DEF Handle
  <2>1. \A e : Done(e).code = 200 /\ Done(e).data = None /\ Done(e).db = e
    BY DEF Done, Answer
  <2>2. \A code : Answer(d, code, None).db = d /\ Answer(d, code, None).data = None
    BY DEF Answer
  <2>3. NotFound(d) = Answer(d, 404, None)
    BY DEF NotFound
  <2>4. CASE r.op = "create"
    <3>1. h = CreateClient(d, r.arg)
      BY <2>0, <2>4 DEF Endpoint, Measured
    <3>2. h = NotFound(d) \/ h = Answer(d, 500, None) \/ \E e : h = Done(e)
      BY <3>1, Zenon DEF CreateClient
    <3> QED  BY <2>1, <2>2, <2>3, <2>4, <3>2
  <2>5. CASE r.op = "update"
    <3>1. h = UpdateClient(d, r.id, r.arg)
      BY <2>0, <2>5 DEF Endpoint, Measured
    <3>2. h = NotFound(d) \/ h = Answer(d, 500, None) \/ \E e : h = Done(e)
      BY <3>1, Zenon DEF UpdateClient
    <3> QED  BY <2>1, <2>2, <2>3, <2>5, <3>2
  <2>6. CASE r.op = "toggle"
    <3>1. h = ToggleClient(d, r.id, r.arg)
      BY <2>0, <2>6 DEF Endpoint, Measured
    <3>2. h = NotFound(d) \/ h = Answer(d, 500, None) \/ \E e : h = Done(e)
      BY <3>1, Zenon DEF ToggleClient
    <3> QED  BY <2>1, <2>2, <2>3, <2>6, <3>2
  <2>7. CASE r.op \in {"delete", "bulk"}
    <3>1. h = DeleteClient(d, r.id)
      BY <2>0, <2>7 DEF Endpoint, Measured
    <3>2. h = NotFound(d) \/ h = Answer(d, 500, None) \/ \E e : h = Done(e)
      BY <3>1, Zenon DEF DeleteClient
    <3> QED  BY <2>1, <2>2, <2>3, <2>7, <3>2
  <2>8. CASE r.op = "deleteGroup"
    <3>1. h = DeleteGroup(d, r.id)
      BY <2>0, <2>8 DEF Endpoint, Measured
    <3>2. h = NotFound(d) \/ h = Answer(d, 500, None) \/ \E e : h = Done(e)
      BY <3>1, Zenon DEF DeleteGroup
    <3> QED  BY <2>1, <2>2, <2>3, <2>8, <3>2
  <2>9. CASE r.op = "assign"
    <3>1. h = AssignClients(d, r.id, r.arg)
      BY <2>0, <2>9 DEF Endpoint, Measured
    <3>2. h = NotFound(d) \/ h = Answer(d, 500, None) \/ \E e : h = Done(e)
      BY <3>1, Zenon DEF AssignClients
    <3> QED  BY <2>1, <2>2, <2>3, <2>9, <3>2
  <2>10. CASE r.op = "newItem"
    <3>1. h = CreateItem(d, r.arg)
      BY <2>0, <2>10 DEF Endpoint, Measured
    <3>2. h = NotFound(d) \/ h = Answer(d, 500, None) \/ \E e : h = Done(e)
      BY <3>1, Zenon DEF CreateItem
    <3> QED  BY <2>1, <2>2, <2>3, <2>10, <3>2
  <2>11. CASE r.op = "deleteItem"
    <3>1. h = DeleteItem(d, r.arg, r.id)
      BY <2>0, <2>11 DEF Endpoint, Measured
    <3>2. h = NotFound(d) \/ h = Answer(d, 500, None) \/ \E e : h = Done(e)
      BY <3>1, Zenon DEF DeleteItem
    <3> QED  BY <2>1, <2>2, <2>3, <2>11, <3>2
  <2>12. CASE r.op = "toggleRule"
    <3>1. h = ToggleRule(d, r.id, r.arg)
      BY <2>0, <2>12 DEF Endpoint, Measured
    <3>2. h = NotFound(d) \/ h = Answer(d, 500, None) \/ \E e : h = Done(e)
      BY <3>1, Zenon DEF ToggleRule
    <3> QED  BY <2>1, <2>2, <2>3, <2>12, <3>2
  <2>13. CASE r.op = "newGroup"
    <3> DEFINE e == [d EXCEPT !.groups = With(@, d.newGroup, r.arg), !.newGroup = @ + 1]
    <3>1. h = Done(e)
      BY <2>0, <2>13 DEF Endpoint, Measured, CreateGroup
    <3>2. e.clients = d.clients
      BY DEF Databases
    <3> HIDE DEF e
    <3> QED  BY <2>1, <3>1, <3>2
  <2>14. CASE r.op = "editGroup"
    <3> DEFINE e == [d EXCEPT !.groups[r.id] = r.arg]
    <3>1. h = IF r.id \notin DOMAIN d.groups THEN NotFound(d) ELSE Done(e)
      BY <2>0, <2>14 DEF Endpoint, Measured, UpdateGroup
    <3>2. e.clients = d.clients
      BY DEF Databases
    <3> HIDE DEF e
    <3> QED  BY <2>1, <2>2, <2>3, <3>1, <3>2
  <2> QED  BY <2>4, <2>5, <2>6, <2>7, <2>8, <2>9, <2>10, <2>11, <2>12, <2>13, <2>14 DEF UsersOps, GroupsOps, ListOps
<1> QED  BY <1>1, <1>2

-----------------------------------------------------------------------------
(* The steps of the pages keep them fresh.                                 *)

(* State s has the lists that the page shows. *)
SameLists(s) == \A l \in PageLists(page) : page # "logs" /\ s[l] = st[l]

LEMMA SameHolds ==
  ASSUME NEW s, SameLists(s), NEW l \in PageLists(page)
  PROVE  Holds(db, page, st, l) <=> Holds(db, page, s, l)
BY DEF SameLists, Holds

LEMMA LocalFresh ==
  ASSUME FreshInv, NEW s, Local(s), SameLists(s)
  PROVE  FreshInv'
<1>1. /\ st' = s /\ db' = db /\ authed' = authed /\ page' = page /\ reqs' = reqs /\ skew' = skew
  BY DEF Local, shell
<1>2. ASSUME NEW l \in PageLists(page), FreshIn(db, page, st, reqs, l)
      PROVE  FreshIn(db, page, s, reqs, l)
  BY <1>2, SameHolds DEF FreshIn
<1> QED  BY <1>1, <1>2 DEF FreshInv

LEMMA ReqsSeq == ASSUME IInv PROVE reqs \in Seq(Messages)
BY DEF IInv, RequestsOK

LEMMA ListsRead ==
  ASSUME NEW p \in Routes
  PROVE  PageLists(p) \subseteq (Reads \ {"settings"}) \cap PageOps(p)
BY DEF PageLists, Reads, Measured, Routes, Kinds, PageOps

LEMMA PageRoute == ASSUME IInv PROVE page \in Routes /\ token \in {None, AdminPassword}
BY RoutesOK DEF IInv, RouteOK

LEMMA GrowStep ==
  ASSUME IInv, FreshInv, authed, NEW i, NEW rs, Removal(rs, reqs, i),
         NEW new \in Seq(Messages), reqs' = rs \o new, UNCHANGED <<db, authed, page>>,
         \A k \in 1..Len(new) : new[k].ans = None /\ KindOK(page, new[k]),
         ~skew' =>
           /\ ~skew
           /\ \A l \in PageLists(page) :
                /\ Holds(db, page, st, l) => Holds(db, page, st', l)
                /\ \A k \in 1..Len(new) : Reading(new[k], l) =>
                     \A j \in 1..Len(reqs) : ~Reading(reqs[j], l)
                /\ \A j, k \in 1..Len(new) : Reading(new[j], l) /\ Reading(new[k], l) => j = k
                /\ i \in 1..Len(reqs) /\ Brings(db, page, reqs[i], l) =>
                     \E k \in 1..Len(new) : Brings(db, page, new[k], l)
  PROVE  FreshInv'
<1> DEFINE all == rs \o new
<1>0. db' = db /\ authed' = authed /\ page' = page /\ reqs' = all /\ reqs \in Seq(Messages)
  BY ReqsSeq
<1>1. PICK f \in [1..Len(rs) -> 1..Len(reqs)] : \A k \in 1..Len(rs) : rs[k] = reqs[f[k]]
  BY DEF Removal
<1>2. \A k \in 1..Len(all) : \/ k \in 1..Len(rs) /\ all[k] = rs[k]
                             \/ k - Len(rs) \in 1..Len(new) /\ all[k] = new[k - Len(rs)]
  <2>1. rs \in Seq(Messages)
    BY DEF Removal
  <2> QED  BY <2>1, ConcatOK
<1>3. \A k \in 1..Len(all) : KindOK(page, all[k])
  <2> HIDE DEF all
  <2>1. \A k \in 1..Len(rs) : f[k] \in 1..Len(reqs) /\ KindOK(page, rs[k])
    BY <1>1 DEF FreshInv
  <2> QED  BY <1>2, <2>1
<1>4. ASSUME ~skew', NEW l \in PageLists(page)
      PROVE  FreshIn(db, page, st', all, l)
  <2> DEFINE u == st'
  <2>1. FreshIn(db, page, st, reqs, l)
    BY <1>4 DEF FreshInv
  <2>2. /\ Holds(db, page, st, l) => Holds(db, page, u, l)
        /\ \A k \in 1..Len(new) : Reading(new[k], l) =>
             \A j \in 1..Len(reqs) : ~Reading(reqs[j], l)
        /\ \A j, k \in 1..Len(new) : Reading(new[j], l) /\ Reading(new[k], l) => j = k
        /\ i \in 1..Len(reqs) /\ Brings(db, page, reqs[i], l) =>
             \E k \in 1..Len(new) : Brings(db, page, new[k], l)
    BY <1>4
  <2>3. \A k \in 1..Len(new) : new[k].ans = None
    OBVIOUS
  <2> HIDE DEF u
  <2>4. FreshIn(db, page, u, all, l)
    BY <1>0, <2>1, <2>2, <2>3, GrownFresh
  <2> QED  BY <2>4 DEF u
<1> HIDE DEF all
<1> QED  BY <1>0, <1>3, <1>4 DEF FreshInv

LEMMA SubmitFresh ==
  ASSUME IInv, FreshInv, authed, NEW s, NEW r \in Messages, NEW ids, Submit(s, r, ids),
         r.ans = None, r.op \notin Reads, r.op \in ListOps => KindOf(r) = page, SameLists(s)
  PROVE  FreshInv'
<1> DEFINE new == <<r>>
<1>1. /\ reqs' = Append(reqs, r) /\ st' = s /\ skew' = skew
      /\ UNCHANGED <<db, authed, page>>
  BY DEF Submit, shell
<1>2. new \in Seq(Messages) /\ Len(new) = 1 /\ new[1] = r /\ reqs' = reqs \o new
  BY <1>1, ReqsSeq
<1>3. Removal(reqs, reqs, 0)
  BY ReqsSeq, NothingRemoved
<1> HIDE DEF new
<1>4. \A k \in 1..Len(new) : k = 1
  BY <1>2
<1>5. "items" \in Reads
  BY DEF Reads
<1>6. \A k \in 1..Len(new) : new[k].ans = None /\ KindOK(page, new[k])
  BY <1>2, <1>4, <1>5 DEF KindOK
<1>7. \A l \in PageLists(page) : l \in Reads
  BY ListsRead, PageRoute
<1>8. ASSUME NEW l \in PageLists(page)
      PROVE  /\ Holds(db, page, st, l) => Holds(db, page, st', l)
             /\ \A k \in 1..Len(new) : ~Reading(new[k], l)
             /\ 0 \notin 1..Len(reqs)
  <2>1. Holds(db, page, st, l) => Holds(db, page, s, l)
    BY SameHolds
  <2>2. \A k \in 1..Len(new) : ~Reading(new[k], l)
    BY <1>2, <1>4, <1>7 DEF Reading
  <2>3. 0 \notin 1..Len(reqs)
    BY ReqsSeq
  <2> QED  BY <1>1, <2>1, <2>2, <2>3
<1> QED  BY <1>1, <1>2, <1>3, <1>6, <1>8, GrowStep

LEMMA NoOverlap ==
  ASSUME IInv, NEW rs \in Seq(Messages), ~Overlaps(rs), NEW k \in 1..Len(rs), rs[k].op \in Reads,
         NEW j \in 1..Len(reqs)
  PROVE  ~Reading(reqs[j], rs[k].op)
<1>1. rs[k] \in ToSet(rs) /\ j \in DOMAIN reqs
  BY ReqsSeq DEF ToSet
<1> QED  BY <1>1 DEF Overlaps, InFlight, Reading

(* The page's timer or button reads again all it shows. *)
LEMMA FetchFresh ==
  ASSUME IInv, FreshInv, authed, NEW rs, Fetch(rs), Mounts(rs, page)
  PROVE  FreshInv'
<1>1. /\ reqs' = reqs \o rs /\ st' = st /\ skew' = (skew \/ Overlaps(rs))
      /\ UNCHANGED <<db, authed, page>>
  BY DEF Fetch, shell
<1>2. /\ rs \in Seq(Messages)
      /\ \A k \in 1..Len(rs) : /\ rs[k].ans = None /\ rs[k].live = "page" /\ rs[k].op \in Reads
                               /\ rs[k].op = "items" => rs[k].id = page
      /\ \A j, k \in 1..Len(rs) : rs[j].op = rs[k].op => j = k
  BY DEF Mounts
<1>3. Removal(reqs, reqs, 0)
  BY ReqsSeq, NothingRemoved
<1>4. \A k \in 1..Len(rs) : rs[k].ans = None /\ KindOK(page, rs[k])
  BY <1>2, NoListOp DEF KindOK
<1>5. ASSUME ~Overlaps(rs), NEW l, NEW k \in 1..Len(rs), Reading(rs[k], l), NEW j \in 1..Len(reqs)
      PROVE  ~Reading(reqs[j], l)
  <2>1. rs[k].op = l /\ rs[k].op \in Reads
    BY <1>2, <1>5 DEF Reading
  <2> QED  BY <1>2, <1>5, <2>1, NoOverlap
<1>6. \A l : \A j, k \in 1..Len(rs) : Reading(rs[j], l) /\ Reading(rs[k], l) => j = k
  BY <1>2 DEF Reading
<1>7. 0 \notin 1..Len(reqs)
  BY ReqsSeq
<1> QED  BY <1>1, <1>2, <1>3, <1>4, <1>5, <1>6, <1>7, GrowStep

(* The clients page. *)
LEMMA UsersLists ==
  ASSUME page = "users", NEW s, s.clients = st.clients
  PROVE  SameLists(s)
<1>1. PageLists(page) = {"clients"}
  BY DEF PageLists, Kinds
<1> QED  BY <1>1 DEF SameLists

LEMMA UsersSends ==
  ASSUME IInv, FreshInv, On("users"), NEW op \in UsersOps, NEW id \in Ids, NEW arg \in Args,
         NEW ids, NEW s, s.clients = st.clients, NEW r, r = Request(op, id, arg), Submit(s, r, ids)
  PROVE  FreshInv'
<1>1. authed /\ page = "users" /\ token \in {None, AdminPassword}
  BY PageRoute DEF On
<1>2. op \in Ops /\ op \notin Reads /\ op \notin ListOps
  BY DEF Ops, UsersOps, Reads, Measured, ListOps
<1>3. r \in Messages /\ r.ans = None /\ r.op = op
  BY <1>1, <1>2, RequestFields
<1> QED  BY <1>1, <1>2, <1>3, UsersLists, SubmitFresh

LEMMA ClientsMount ==
  ASSUME IInv, page \in {"users", "profiles", "devices", "logs"}
  PROVE  Mounts(<<Get("clients")>>, page)
<1>1. Mounted(page) = <<Get("clients")>>
  BY DEF Mounted, Kinds
<1> QED  BY <1>1, PageRoute, MountedMounts

LEMMA UsersFresh ==
  ASSUME IInv, FreshInv, UsersAction
  PROVE  FreshInv'
<1>0. /\ On("users") /\ authed /\ page = "users" /\ st \in UsersStates
      /\ DOMAIN st.clients \subseteq 1..MaxClients
      /\ TableView(st).rows \subseteq DOMAIN st.clients
  BY UsersFacts DEF UsersAction
<1>1. CASE FetchUsers
  BY <1>0, <1>1, ClientsMount, FetchFresh DEF FetchUsers
<1>2. ASSUME NEW s, Local(s), s.clients = st.clients
      PROVE  FreshInv'
  BY <1>0, <1>2, UsersLists, LocalFresh
<1>3. CASE ToggleSelectAll
  <2>1. PICK t : Local([st EXCEPT !.selectedUsers = t])
    BY <1>0, <1>3 DEF ToggleSelectAll, UsersStates
  <2> QED  BY <1>0, <1>2, <2>1 DEF UsersStates
<1>4. CASE AddClient
  BY <1>0, <1>2, <1>4 DEF AddClient, UsersStates
<1>5. CASE CloseSidebar
  BY <1>0, <1>2, <1>5 DEF CloseSidebar, UsersStates
<1>6. CASE CloseQr
  BY <1>0, <1>2, <1>6 DEF CloseQr, UsersStates
<1>7. ASSUME NEW g \in {None} \cup (1..MaxGroups), PickGroup(g)
      PROVE  FreshInv'
  BY <1>0, <1>2, <1>7 DEF PickGroup, UsersStates
<1>8. ASSUME NEW c \in 1..MaxClients, ToggleUserSelection(c)
      PROVE  FreshInv'
  <2>1. PICK t : Local([st EXCEPT !.selectedUsers = t])
    BY <1>0, <1>8 DEF ToggleUserSelection, UsersStates
  <2> QED  BY <1>0, <1>2, <2>1 DEF UsersStates
<1>9. ASSUME NEW c \in 1..MaxClients, OpenUserDetails(c)
      PROVE  FreshInv'
  BY <1>0, <1>2, <1>9 DEF OpenUserDetails, UsersStates
<1>10. ASSUME NEW c \in 1..MaxClients, OpenQr(c)
       PROVE  FreshInv'
  BY <1>0, <1>2, <1>10 DEF OpenQr, UsersStates
<1> DEFINE sent == [st EXCEPT !.loading = TRUE]
<1>11. /\ sent.clients = st.clients /\ st.selectedGroupId \in Args /\ st.selectedUser \in Ids
       /\ 1..MaxClients \subseteq Ids /\ BOOLEAN \subseteq Args
       /\ {"create", "update", "toggle", "delete", "bulk"} \subseteq UsersOps
  BY <1>0 DEF UsersStates, Ids, Args, ClientIds, UsersOps
<1>12. CASE HandleCreate
  <2>1. Submit(sent, Request("create", None, st.selectedGroupId), {})
    BY <1>12 DEF HandleCreate, SidebarForm
  <2> HIDE DEF sent
  <2> QED  BY <1>0, <1>11, <2>1, NoneFits, UsersSends
<1>13. CASE HandleUpdate
  <2>1. Submit(sent, Request("update", st.selectedUser, st.selectedGroupId), {})
    BY <1>13 DEF HandleUpdate, SidebarForm
  <2> HIDE DEF sent
  <2> QED  BY <1>0, <1>11, <2>1, UsersSends
<1>14. ASSUME NEW c \in 1..MaxClients, HandleToggle(c)
       PROVE  FreshInv'
  <2>1. PICK v \in BOOLEAN : Submit(st, Request("toggle", c, v), {})
    BY <1>14 DEF HandleToggle
  <2>2. c \in Ids /\ v \in Args
    BY <1>11
  <2> QED  BY <1>0, <1>11, <2>1, <2>2, UsersSends
<1>15. ASSUME NEW c \in 1..MaxClients, HandleDelete(c)
       PROVE  FreshInv'
  <2>1. Submit(st, Request("delete", c, None), {c})
    BY <1>15 DEF HandleDelete
  <2> QED  BY <1>0, <1>11, <2>1, NoneFits, UsersSends
<1>16. CASE HandleBulkDelete
  <2> DEFINE ids == st.selectedUsers
             c == Min(ids)
             rest == ids \ {c}
  <2>1. ids \in SUBSET (1..MaxClients) /\ ids # {} /\ Submit(st, NextDeletion(ids), ids)
    BY <1>0, <1>16 DEF HandleBulkDelete, ToolbarView, UsersStates
  <2> HIDE DEF ids
  <2>2. NextDeletion(ids) = Request("bulk", c, rest) /\ c \in Ids /\ rest \in Args
    BY <2>1, NextDeletionOK
  <2> HIDE DEF c, rest
  <2> QED  BY <1>0, <1>11, <2>1, <2>2, UsersSends
<1> QED  BY <1>1, <1>3, <1>4, <1>5, <1>6, <1>7, <1>8, <1>9, <1>10, <1>12, <1>13, <1>14, <1>15,
            <1>16 DEF UsersAction

(* The groups page. *)
LEMMA GroupsLists ==
  ASSUME page = "groups", NEW s, s.clients = st.clients, s.groups = st.groups
  PROVE  SameLists(s)
<1>1. PageLists(page) = {"groups", "clients"}
  BY DEF PageLists, Kinds
<1> QED  BY <1>1 DEF SameLists

LEMMA GroupsSends ==
  ASSUME IInv, FreshInv, On("groups"), NEW op \in GroupsOps, NEW id \in Ids, NEW arg \in Args,
         NEW r, r = Request(op, id, arg), Submit(st, r, {})
  PROVE  FreshInv'
<1>1. authed /\ page = "groups" /\ token \in {None, AdminPassword}
  BY PageRoute DEF On
<1>2. op \in Ops /\ op \notin Reads /\ op \notin ListOps
  BY DEF Ops, GroupsOps, Reads, Measured, ListOps
<1>3. r \in Messages /\ r.ans = None /\ r.op = op
  BY <1>1, <1>2, RequestFields
<1> QED  BY <1>1, <1>2, <1>3, GroupsLists, SubmitFresh

LEMMA GroupsFresh ==
  ASSUME IInv, FreshInv, GroupsAction
  PROVE  FreshInv'
<1>0. /\ On("groups") /\ authed /\ page = "groups" /\ st \in GroupsStates
      /\ DOMAIN st.groups \subseteq 1..MaxGroups
  BY GroupsFacts DEF GroupsAction
<1>1. ASSUME NEW s, Local(s), s.clients = st.clients, s.groups = st.groups
      PROVE  FreshInv'
  BY <1>0, <1>1, GroupsLists, LocalFresh
<1>2. /\ Shown(st) \in GroupsStates
      /\ Shown(st).clients = st.clients /\ Shown(st).groups = st.groups
  BY <1>0 DEF Shown, GroupsStates
<1> DEFINE sh == Shown(st)
<1>3. CASE NewGroup
  <2>1. Local([sh EXCEPT !.editId = None, !.base = None])
    BY <1>3 DEF NewGroup
  <2> HIDE DEF sh
  <2>2. sh \in GroupsStates /\ sh.clients = st.clients /\ sh.groups = st.groups
    BY <1>2 DEF sh
  <2> QED  BY <1>1, <2>1, <2>2 DEF GroupsStates
<1>4. CASE FillTimer
  <2>1. PICK x, y : Local([st EXCEPT !.fills = x, !.name = y])
    BY <1>0, <1>4 DEF FillTimer, GroupsStates
  <2> QED  BY <1>0, <1>1, <2>1 DEF GroupsStates
<1>5. CASE CancelForm
  BY <1>0, <1>1, <1>5 DEF CancelForm, Hidden, GroupsStates
<1>6. CASE CloseAssignPanel
  BY <1>0, <1>1, <1>6 DEF CloseAssignPanel, GroupsStates
<1>7. ASSUME NEW n \in Names, TypeName(n)
      PROVE  FreshInv'
  BY <1>0, <1>1, <1>7 DEF TypeName, GroupsStates
<1>8. ASSUME NEW g \in 1..MaxGroups, StartEdit(g)
      PROVE  FreshInv'
  <2>1. Local([sh EXCEPT !.editId = g, !.base = st.groups[g].name,
                         !.fills = Append(sh.fills, st.groups[g].name)])
    BY <1>2, <1>8 DEF StartEdit, GroupsStates
  <2> HIDE DEF sh
  <2>2. sh \in GroupsStates /\ sh.clients = st.clients /\ sh.groups = st.groups
    BY <1>2 DEF sh
  <2> QED  BY <1>1, <2>1, <2>2 DEF GroupsStates
<1>9. ASSUME NEW g \in 1..MaxGroups, OpenAssignPanel(g)
      PROVE  FreshInv'
  BY <1>0, <1>1, <1>9 DEF OpenAssignPanel, GroupsStates
<1>10. ASSUME NEW c \in 1..MaxClients, ToggleClientSelection(c)
       PROVE  FreshInv'
  <2>1. PICK t : Local([st EXCEPT !.selectedClients = t])
    BY <1>0, <1>10 DEF ToggleClientSelection, GroupsStates
  <2> QED  BY <1>0, <1>1, <2>1 DEF GroupsStates
<1>11. /\ st.editId \in Ids /\ st.assignGroupId \in Ids /\ st.selectedClients \in Args
       /\ st.name \in {None} \cup Names /\ Names \subseteq Args /\ 1..MaxGroups \subseteq Ids
       /\ GroupsOps = {"newGroup", "editGroup", "deleteGroup", "assign"}
  BY <1>0 DEF GroupsStates, Ids, Args, GroupIds, GroupsOps
<1>12. CASE SaveGroup
  <2>1. /\ st.name \in Args
        /\ Submit(st, IF st.editId # None THEN Request("editGroup", st.editId, st.name)
                      ELSE Request("newGroup", None, st.name), {})
    BY <1>11, <1>12 DEF SaveGroup
  <2>2. CASE st.editId # None
    <3>1. Submit(st, Request("editGroup", st.editId, st.name), {})
      BY <2>1, <2>2
    <3> QED  BY <1>0, <1>11, <2>1, <3>1, GroupsSends
  <2>3. CASE st.editId = None
    <3>1. Submit(st, Request("newGroup", None, st.name), {})
      BY <2>1, <2>3
    <3> QED  BY <1>0, <1>11, <2>1, <3>1, NoneFits, GroupsSends
  <2> QED  BY <2>2, <2>3
<1>13. CASE HandleAssign
  <2>1. Submit(st, Request("assign", st.assignGroupId, st.selectedClients), {})
    BY <1>13 DEF HandleAssign
  <2> QED  BY <1>0, <1>11, <2>1, GroupsSends
<1>14. ASSUME NEW g \in 1..MaxGroups, RemoveGroup(g)
       PROVE  FreshInv'
  <2>1. Submit(st, Request("deleteGroup", g, None), {}) /\ g \in Ids
    BY <1>11, <1>14 DEF RemoveGroup
  <2> QED  BY <1>0, <1>11, <2>1, NoneFits, GroupsSends
<1> QED  BY <1>3, <1>4, <1>5, <1>6, <1>7, <1>8, <1>9, <1>10, <1>12, <1>13, <1>14 DEF GroupsAction

(* The lists of templates, servers and rules. *)
LEMMA ItemsLists ==
  ASSUME page \in Kinds, NEW s, s.items = st.items
  PROVE  SameLists(s)
<1>1. PageLists(page) = {"items"} /\ page # "logs"
  BY DEF PageLists, Kinds
<1> QED  BY <1>1 DEF SameLists

LEMMA ListSends ==
  ASSUME IInv, FreshInv, OnList, NEW op \in ListOps, NEW id \in Ids, NEW arg \in Args,
         NEW r, r = Request(op, id, arg), Submit(st, r, {}),
         IF op = "toggleRule" THEN page = "rules" ELSE arg = page
  PROVE  FreshInv'
<1>1. authed /\ page \in Kinds /\ token \in {None, AdminPassword}
  BY PageRoute DEF OnList
<1>2. op \in Ops /\ op \notin Reads
  BY DEF Ops, Reads, Measured, ListOps
<1>3. r \in Messages /\ r.ans = None /\ r.op = op /\ r.arg = arg
  BY <1>1, <1>2, RequestFields
<1>4. KindOf(r) = page
  BY <1>3 DEF KindOf
<1> QED  BY <1>1, <1>2, <1>3, <1>4, ItemsLists, SubmitFresh

LEMMA ListFresh ==
  ASSUME IInv, FreshInv, ListAction
  PROVE  FreshInv'
<1>0. OnList /\ authed /\ page \in Kinds /\ st \in ListStates
  BY ListFacts DEF ListAction
<1>1. ASSUME NEW s, Local(s), s.items = st.items
      PROVE  FreshInv'
  BY <1>0, <1>1, ItemsLists, LocalFresh
<1>2. CASE ShowForm \/ CancelItem
  <2>1. PICK b : Local([st EXCEPT !.showForm = b])
    BY <1>2 DEF ShowForm, CancelItem
  <2> QED  BY <1>0, <1>1, <2>1 DEF ListStates
<1>3. page \in Args /\ 1..MaxItems \subseteq Ids /\ BOOLEAN \subseteq Args
      /\ ListOps = {"newItem", "deleteItem", "toggleRule"}
  BY <1>0 DEF Args, Ids, ListOps
<1>4. CASE CreateTemplate \/ CreateNode \/ CreateRule
  <2>1. Submit(st, Request("newItem", None, page), {})
    BY <1>4 DEF CreateTemplate, CreateNode, CreateRule
  <2> QED  BY <1>0, <1>3, <2>1, NoneFits, ListSends
<1>5. ASSUME NEW x \in 1..MaxItems, RemoveTemplate(x) \/ RemoveNode(x) \/ RemoveRule(x)
      PROVE  FreshInv'
  <2>1. Submit(st, Request("deleteItem", x, page), {}) /\ x \in Ids
    BY <1>3, <1>5 DEF RemoveTemplate, RemoveNode, RemoveRule
  <2> QED  BY <1>0, <1>3, <2>1, ListSends
<1>6. ASSUME NEW x \in 1..MaxItems, SwitchRule(x)
      PROVE  FreshInv'
  <2>1. PICK v \in BOOLEAN : Submit(st, Request("toggleRule", x, v), {})
    BY <1>6 DEF SwitchRule
  <2>2. page = "rules" /\ x \in Ids /\ v \in Args
    BY <1>3, <1>6 DEF SwitchRule
  <2> QED  BY <1>0, <1>3, <2>1, <2>2, ListSends
<1> QED  BY <1>2, <1>4, <1>5, <1>6 DEF ListAction

(* The settings and the pages that only read. *)
LEMMA SettingsFresh ==
  ASSUME IInv, FreshInv, SettingsAction
  PROVE  FreshInv'
<1>0. authed /\ page = "settings" /\ st \in SettingsStates
  BY DEF SettingsAction, On, IInv, ScreenOK, PageState
<1>1. \A s : SameLists(s)
  BY <1>0 DEF SameLists, PageLists, Kinds
<1>2. CASE SavedTimer
  BY <1>1, <1>2, LocalFresh DEF SavedTimer
<1>3. ASSUME NEW s \in Sections, TypeSetting(s)
      PROVE  FreshInv'
  BY <1>1, <1>3, LocalFresh DEF TypeSetting
<1>4. ASSUME NEW s \in Sections, SaveSection(s)
      PROVE  FreshInv'
  <2>1. PICK x \in Texts : Submit(st, Request("save", s, x), {})
    BY <1>0, <1>4 DEF SaveSection, BotSection, ServerSection, SettingsStates, Sections
  <2> DEFINE r == Request("save", s, x)
  <2>2. /\ "save" \in Ops /\ "save" \notin Reads /\ "save" \notin ListOps
        /\ s \in Ids /\ x \in Args
    BY DEF Ops, Reads, Measured, ListOps, Ids, Args
  <2>3. r \in Messages /\ r.ans = None /\ r.op = "save"
    BY <2>2, RequestFields, PageRoute
  <2> HIDE DEF r
  <2>4. Submit(st, r, {})
    BY <2>1 DEF r
  <2> QED  BY <1>0, <1>1, <2>2, <2>3, <2>4, SubmitFresh
<1> QED  BY <1>2, <1>3, <1>4 DEF SettingsAction

LEMMA ProfilesFresh ==
  ASSUME IInv, FreshInv, ProfilesAction
  PROVE  FreshInv'
<1>0. authed /\ page = "profiles" /\ st \in ProfilesStates
  BY DEF ProfilesAction, On, IInv, ScreenOK, PageState
<1>1. ASSUME NEW s, Local(s), s.clients = st.clients
      PROVE  FreshInv'
  <2>1. PageLists(page) = {"clients"}
    BY <1>0 DEF PageLists, Kinds
  <2>2. SameLists(s)
    BY <1>0, <1>1, <2>1 DEF SameLists
  <2> QED  BY <1>1, <2>2, LocalFresh
<1>2. CASE CopiedTimer
  <2>1. PICK x, y : Local([st EXCEPT !.labels = x, !.copied = y])
    BY <1>2 DEF CopiedTimer
  <2> QED  BY <1>0, <1>1, <2>1 DEF ProfilesStates
<1>3. ASSUME NEW c \in 1..MaxClients, CopyKey(c)
      PROVE  FreshInv'
  <2>1. PICK x, y : Local([st EXCEPT !.copied = y, !.labels = x])
    BY <1>3 DEF CopyKey
  <2> QED  BY <1>0, <1>1, <2>1 DEF ProfilesStates
<1> QED  BY <1>2, <1>3 DEF ProfilesAction

LEMMA RefreshFresh ==
  ASSUME IInv, FreshInv, RefreshClients \/ FetchData
  PROVE  FreshInv'
<1>1. CASE RefreshClients
  BY <1>1, ClientsMount, FetchFresh DEF RefreshClients
<1>2. CASE FetchData
  <2>1. authed /\ page = "home" /\ Fetch(HomeReads)
    BY <1>2 DEF FetchData, On
  <2>2. Mounted(page) = HomeReads
    BY <2>1 DEF Mounted, Kinds
  <2>3. Mounts(HomeReads, page)
    BY <2>2, PageRoute, MountedMounts
  <2> QED  BY <2>1, <2>3, FetchFresh
<1> QED  BY <1>1, <1>2

-----------------------------------------------------------------------------
(* Loading the document, the router, the login.                            *)

LEMMA MountStepFresh ==
  ASSUME authed' = TRUE, NEW rs \in Seq(Messages), \A k \in 1..Len(rs) : rs[k].live # "page",
         NEW new, Mounts(new, page'), reqs' = rs \o new
  PROVE  FreshInv'
<1> DEFINE all == rs \o new
           d == db'
           p == page'
           s == st'
<1>1. Mounts(new, p)
  OBVIOUS
<1> HIDE DEF all, d, p, s
<1>2. /\ \A k \in 1..Len(all) : KindOK(p, all[k])
      /\ \A l \in PageLists(p) : FreshIn(d, p, s, all, l)
  BY <1>1, MountFresh DEF all
<1>3. reqs' = all
  BY DEF all
<1> QED  BY <1>2, <1>3 DEF FreshInv, d, p, s

LEMMA LoggedOutFresh == ASSUME ~authed' PROVE FreshInv'
BY DEF FreshInv

LEMMA BootFresh ==
  ASSUME IInv, NEW t, NEW rs, KeptFrom(rs, reqs), Boot(t, rs)
  PROVE  FreshInv'
<1>1. CASE t = None
  BY <1>1, LoggedOutFresh DEF Boot
<1>2. CASE t # None
  <2> DEFINE old == AsGone(rs)
             new == Mounted(page)
  <2>1. authed' = TRUE /\ reqs' = old \o new /\ page' = page
    BY <1>2 DEF Boot
  <2>2. WellFormed(rs, confirmed)
    BY ReqsWellFormed, KeptWellFormed DEF IInv
  <2>3. KeptFrom(old, rs) /\ \A k \in 1..Len(old) : old[k].live = "gone"
    BY <2>2, KeptAsGone
  <2>4. Mounts(new, page)
    BY PageRoute, MountedMounts
  <2> HIDE DEF old, new
  <2>5. old \in Seq(Messages) /\ Mounts(new, page')
    BY <2>1, <2>3, <2>4 DEF KeptFrom
  <2> QED  BY <2>1, <2>3, <2>5, MountStepFresh
<1> QED  BY <1>1, <1>2

LEMMA NavigateFresh ==
  ASSUME IInv, FreshInv, NEW p, NEW g, Navigate(p, g)
  PROVE  FreshInv'
<1>1. CASE p = page
  <2>1. UNCHANGED <<db, authed, page, st, reqs, skew>>
    BY <1>1 DEF Navigate
  <2> QED  BY <2>1 DEF FreshInv
<1>2. CASE p # page
  <2> DEFINE old == AsLeft(reqs)
             new == Mounted(p)
  <2>1. /\ authed' = TRUE /\ reqs' = old \o new /\ page' = p /\ p \in Routes
        /\ token \in {None, AdminPassword}
    BY <1>2, AdminAssumption DEF Navigate, IInv, RouteOK
  <2>2. WellFormed(reqs, confirmed)
    BY ReqsWellFormed DEF IInv
  <2>3. /\ KeptFrom(old, reqs) /\ Len(old) = Len(reqs)
        /\ \A k \in 1..Len(reqs) : old[k].live # "page"
    BY <2>2, KeptAsLeft
  <2>4. Mounts(new, p)
    BY <2>1, MountedMounts
  <2> HIDE DEF old, new
  <2>5. old \in Seq(Messages) /\ Mounts(new, page') /\ \A k \in 1..Len(old) : old[k].live # "page"
    BY <2>1, <2>3, <2>4 DEF KeptFrom
  <2> QED  BY <2>1, <2>5, MountStepFresh
<1> QED  BY <1>1, <1>2

LEMMA LoggedInFresh ==
  ASSUME IInv, NEW i \in 1..Len(reqs), reqs[i].op = "login", reqs[i].ans # None,
         reqs[i].ans.code = 200, LoggedIn(i)
  PROVE  FreshInv'
<1> DEFINE rs == RemoveAt(reqs, i)
           m == Mounted(page)
           w == reqs[i].arg
           new == [k \in DOMAIN m |-> [m[k] EXCEPT !.tok = w]]
<1>1. authed' = TRUE /\ reqs' = rs \o new /\ page' = page
  BY DEF LoggedIn
<1>2. reqs \in Seq(Messages) /\ RequestOK(reqs[i], confirmed) /\ LiveOK(reqs[i])
  BY DEF IInv, RequestsOK
<1>3. w = AdminPassword
  BY <1>2 DEF RequestOK, DataOK
<1>4. ~authed
  BY <1>2 DEF LiveOK
<1>5. Removal(rs, reqs, i)
  BY <1>2, RemovedAt
<1> HIDE DEF rs
<1>6. rs \in Seq(Messages) /\ \A k \in 1..Len(rs) : \E j \in 1..Len(reqs) : j # i /\ rs[k] = reqs[j]
  BY <1>5, RemovedFrom DEF Removal
<1>7. ASSUME NEW k \in 1..Len(rs)
      PROVE  rs[k].live # "page"
  <2>1. PICK j \in 1..Len(reqs) : j # i /\ rs[k] = reqs[j]
    BY <1>6
  <2>2. reqs[j].op # "login"
    BY <2>1 DEF IInv, RequestsOK
  <2>3. reqs[j].live # "page"
    BY <1>4, <2>1, <2>2 DEF IInv, RequestsOK, LiveOK
  <2> QED  BY <2>1, <2>3
<1>8. Mounts(m, page)
  <2>1. Mounts(Mounted(page), page)
    BY PageRoute, MountedMounts
  <2> QED  BY <2>1
<1> HIDE DEF m, w
<1>9. /\ m \in Seq(Messages)
      /\ \A k \in 1..Len(m) : /\ m[k].ans = None /\ m[k].live = "page" /\ m[k].op \in Reads
                              /\ m[k].op = "items" => m[k].id = page
      /\ \A j, k \in 1..Len(m) : m[j].op = m[k].op => j = k
      /\ \A l \in PageLists(page) : \E k \in 1..Len(m) : m[k].op = l
  BY <1>8 DEF Mounts
<1>10. new = [k \in 1..Len(m) |-> [m[k] EXCEPT !.tok = w]]
  BY <1>9
<1>11. ASSUME NEW k \in 1..Len(m)
       PROVE  /\ new[k] \in Messages /\ new[k].op = m[k].op /\ new[k].ans = m[k].ans
              /\ new[k].live = m[k].live /\ new[k].id = m[k].id
  <2>1. new[k] = [m[k] EXCEPT !.tok = w] /\ m[k] \in Messages
    BY <1>9, <1>10
  <2> HIDE DEF new
  <2> QED  BY <1>3, <2>1 DEF Messages
<1>12. new \in Seq(Messages) /\ Len(new) = Len(m)
  BY <1>9, <1>10, <1>11
<1> HIDE DEF new
<1>13. Mounts(new, page')
  <2>1. \A k \in 1..Len(m) :
          /\ new[k].op = m[k].op /\ new[k].ans = m[k].ans
          /\ new[k].live = m[k].live /\ new[k].id = m[k].id
    BY <1>11
  <2>2. \A k \in 1..Len(new) : /\ new[k].ans = None /\ new[k].live = "page"
                               /\ new[k].op \in Reads
                               /\ new[k].op = "items" => new[k].id = page
    BY <1>9, <1>12, <2>1
  <2>3. \A j, k \in 1..Len(new) : new[j].op = new[k].op => j = k
    BY <1>9, <1>12, <2>1
  <2>4. ASSUME NEW l \in PageLists(page)
        PROVE  \E k \in 1..Len(new) : new[k].op = l
    <3>1. PICK k \in 1..Len(m) : m[k].op = l
      BY <1>9
    <3>2. k \in 1..Len(new) /\ new[k].op = l
      BY <1>12, <2>1, <3>1
    <3> QED  BY <3>2
  <2>5. Mounts(new, page)
    BY <1>12, <2>2, <2>3, <2>4 DEF Mounts
  <2> QED  BY <1>1, <2>5
<1> QED  BY <1>1, <1>6, <1>7, <1>13, MountStepFresh

-----------------------------------------------------------------------------
(* Answers.                                                                *)

(* What the page sends on: reads of its own lists, each at most once, and  *)
(* deletions.                                                              *)
Sends(rs) ==
  /\ rs \in Seq(Messages)
  /\ \A k \in 1..Len(rs) : /\ rs[k].ans = None /\ rs[k].op \in Reads \cup {"bulk"}
                           /\ rs[k].op = "items" => rs[k].id = page
  /\ \A j, k \in 1..Len(rs) : rs[j].op = rs[k].op => j = k

LEMMA SendsNone == Sends(<<>>)
<1>1. <<>> \in Seq(Messages) /\ Len(<<>>) = 0
  OBVIOUS
<1> QED  BY <1>1 DEF Sends

LEMMA SendsOne ==
  ASSUME NEW r \in Messages, r.ans = None, r.op \in Reads \cup {"bulk"},
         r.op = "items" => r.id = page
  PROVE  Sends(<<r>>) /\ Len(<<r>>) = 1 /\ <<r>>[1] = r
<1>1. <<r>> \in Seq(Messages) /\ Len(<<r>>) = 1 /\ <<r>>[1] = r
  OBVIOUS
<1> QED  BY <1>1 DEF Sends

LEMMA SendsAs ==
  ASSUME NEW m, Sends(m), NEW lv \in {"page", "left", "gone"}, NEW new, new = SentAs(m, lv)
  PROVE  /\ Sends(new) /\ Len(new) = Len(m)
         /\ \A k \in 1..Len(m) : new[k].op = m[k].op /\ new[k].live = lv
<1>1. /\ m \in Seq(Messages)
      /\ \A k \in 1..Len(m) : /\ m[k].ans = None /\ m[k].op \in Reads \cup {"bulk"}
                              /\ m[k].op = "items" => m[k].id = page
      /\ \A j, k \in 1..Len(m) : m[j].op = m[k].op => j = k
  BY DEF Sends
<1>2. new = [k \in 1..Len(m) |-> [m[k] EXCEPT !.live = lv]]
  BY <1>1 DEF SentAs
<1>3. ASSUME NEW k \in 1..Len(m)
      PROVE  /\ new[k] \in Messages /\ new[k].op = m[k].op /\ new[k].ans = m[k].ans
             /\ new[k].live = lv /\ new[k].id = m[k].id
  <2>1. new[k] = [m[k] EXCEPT !.live = lv] /\ m[k] \in Messages
    BY <1>1, <1>2
  <2> QED  BY <2>1 DEF Messages
<1>4. new \in Seq(Messages) /\ Len(new) = Len(m)
  BY <1>1, <1>2, <1>3
<1>5. Sends(new)
  BY <1>1, <1>3, <1>4 DEF Sends
<1> QED  BY <1>3, <1>4, <1>5

LEMMA SendsKind ==
  ASSUME NEW rs, Sends(rs), NEW k \in 1..Len(rs)
  PROVE  rs[k].ans = None /\ KindOK(page, rs[k])
BY NoListOp DEF Sends, KindOK

(* What the code after the await does to the requests. *)
ResumedWith(i, t, rs, new) ==
  /\ Removal(rs, reqs, i) /\ reqs' = rs \o new /\ new \in Seq(Messages)
  /\ Sends(new) /\ Len(new) = Len(t.send)
  /\ \A k \in 1..Len(new) : new[k].op = t.send[k].op /\ new[k].live = reqs[i].live

LEMMA Resumed ==
  ASSUME IInv, NEW i \in 1..Len(reqs), NEW t, Resume(i, t), Sends(t.send)
  PROVE  \E rs, new : ResumedWith(i, t, rs, new)
<1> DEFINE rs == RemoveAt(reqs, i)
           m == t.send
           lv == reqs[i].live
           new == SentAs(m, lv)
<1>1. reqs' = rs \o new
  BY DEF Resume, SentAs
<1>2. Removal(rs, reqs, i)
  BY ReqsSeq, RemovedAt
<1>3. lv \in {"page", "left", "gone"}
  <2>1. reqs[i] \in Messages
    BY ReqsSeq
  <2> QED  BY <2>1 DEF Messages
<1>3a. Sends(m) /\ new = SentAs(m, lv)
  OBVIOUS
<1> HIDE DEF rs, m, lv, new
<1>4. /\ Sends(new) /\ Len(new) = Len(m)
      /\ \A k \in 1..Len(m) : new[k].op = m[k].op /\ new[k].live = lv
  BY <1>3, <1>3a, SendsAs
<1>5. new \in Seq(Messages)
  BY <1>4 DEF Sends
<1>6. ResumedWith(i, t, rs, new)
  BY <1>1, <1>2, <1>4, <1>5 DEF ResumedWith, m, lv
<1> QED  BY <1>6

(* A request of a page that was left, or one that failed. *)
LEMMA ResumeElse ==
  ASSUME IInv, FreshInv, NEW i \in 1..Len(reqs), NEW t, Resume(i, t), Follows(t.send, confirmed),
         authed, UNCHANGED <<db, authed, page>>,
         reqs[i].live = "page" => \A k \in 1..Len(t.send) : t.send[k].op # "items",
         ~skew' => ~skew /\ reqs[i].live # "page"
  PROVE  FreshInv'
<1> DEFINE rs == RemoveAt(reqs, i)
           m == t.send
           lv == reqs[i].live
           new == SentAs(m, lv)
<1>1. reqs' = rs \o new
  BY DEF Resume, SentAs
<1>2. Removal(rs, reqs, i) /\ reqs[i] \in Messages
  BY ReqsSeq, RemovedAt
<1>3. lv \in {"page", "left", "gone"}
  BY <1>2 DEF Messages
<1>4. Relabelled(new, m, lv, confirmed)
  BY <1>3, SentFor
<1>5. /\ lv = "page" => \A k \in 1..Len(m) : m[k].op # "items"
      /\ ~skew' => ~skew /\ lv # "page" /\ st' = st
      /\ lv = reqs[i].live
  BY DEF Resume
<1> HIDE DEF rs, m, lv, new
<1>6. /\ new \in Seq(Messages) /\ Len(new) = Len(m)
      /\ \A k \in 1..Len(new) : /\ new[k].ans = None /\ new[k].live = lv /\ new[k].op = m[k].op
                               /\ new[k].op \in Reads \cup {"bulk"}
  BY <1>4 DEF Relabelled, Follows, WellFormed
<1>7. \A k \in 1..Len(new) : new[k].ans = None /\ KindOK(page, new[k])
  BY <1>5, <1>6, NoListOp DEF KindOK
<1>8. ASSUME ~skew', NEW l \in PageLists(page)
      PROVE  /\ ~skew /\ st' = st
             /\ \A k \in 1..Len(new) : ~Reading(new[k], l)
             /\ ~Brings(db, page, reqs[i], l)
  BY <1>5, <1>6, <1>8 DEF Reading, Brings
<1>9. ~skew' => ~skew
  OBVIOUS
<1> QED  BY <1>1, <1>2, <1>6, <1>7, <1>8, <1>9, GrowStep

(* After a change the page reads again what the change may have touched,   *)
(* and keeps the lists it has until then.                                  *)
ReadsAgain(r, t) ==
  /\ SameLists(t.st) /\ Sends(t.send)
  /\ \A l \in PageLists(page) :
       \/ r.op = "bulk" /\ l = "clients"
       \/ r.op \in Changes(l) /\ r.ans.code = 200
       => \E k \in 1..Len(t.send) : \/ t.send[k].op = l
                                    \/ t.send[k].op = "bulk" /\ l = "clients"

LEMMA OneRead ==
  ASSUME token \in {None, AdminPassword}, NEW op \in Reads \ {"items"}, NEW rs, rs = <<Get(op)>>
  PROVE  Sends(rs) /\ Len(rs) = 1 /\ rs[1].op = op
<1> DEFINE r == Get(op)
<1>1. r \in Messages /\ r.ans = None /\ r.op = op
  BY GetFields
<1>2. rs = <<r>>
  OBVIOUS
<1> HIDE DEF r
<1> QED  BY <1>1, <1>2, SendsOne

LEMMA UsersAgain ==
  ASSUME token \in {None, AdminPassword}, page = "users", st \in UsersStates,
         NEW r, RequestOK(r, confirmed), r.op \in UsersOps,
         NEW t, t = UsersThen(st, r, r.ans.code = 200)
  PROVE  ReadsAgain(r, t)
<1> DEFINE one == <<Get("clients")>>
<1>0. PageLists(page) = {"clients"} /\ "clients" \in Reads \ {"items"}
  BY DEF PageLists, Kinds, Reads
<1>1. Sends(one) /\ Len(one) = 1 /\ one[1].op = "clients"
  BY <1>0, OneRead
<1> HIDE DEF one
<1>2. CASE r.op \in {"create", "update"}
  <2> DEFINE ok == r.ans.code = 200
             b == ~(r.op = "create" /\ ok)
  <2>1. t = SavedThen(st, r, ok)
    BY <1>2 DEF UsersThen
  <2>2. t.st = [st EXCEPT !.loading = FALSE, !.sidebarOpen = @ /\ b]
    BY <2>1 DEF SavedThen, After
  <2>3. t.send = IF ok THEN one ELSE <<>>
    BY <2>1 DEF SavedThen, After, one
  <2>4. t.st.clients = st.clients
    BY <2>2 DEF UsersStates
  <2>5. SameLists(t.st)
    BY <2>4, UsersLists
  <2>6. Sends(t.send)
    BY <1>1, <2>3, SendsNone
  <2>7. ok => \E k \in 1..Len(t.send) : t.send[k].op = "clients"
    BY <1>1, <2>3
  <2> QED  BY <1>0, <1>2, <2>5, <2>6, <2>7 DEF ReadsAgain
<1>3. CASE r.op \in {"toggle", "delete"}
  <2>1. t = After(st, one) \/ t = After([st EXCEPT !.selectedUsers = @ \ {r.id}], one)
    BY <1>3 DEF UsersThen, DeletedThen, one
  <2>2. t.send = one /\ (t.st = st \/ t.st = [st EXCEPT !.selectedUsers = @ \ {r.id}])
    BY <2>1 DEF After
  <2>3. t.st.clients = st.clients
    BY <2>2 DEF UsersStates
  <2>4. SameLists(t.st)
    BY <2>3, UsersLists
  <2>5. \E k \in 1..Len(t.send) : t.send[k].op = "clients"
    <3>1. Len(t.send) = 1 /\ t.send[1].op = "clients"
      BY <1>1, <2>2, Zenon
    <3>2. 1 \in 1..1
      OBVIOUS
    <3> QED  BY <3>1, <3>2, Zenon
  <2> QED  BY <1>0, <1>1, <2>2, <2>4, <2>5 DEF ReadsAgain
<1>4. CASE r.op = "bulk" /\ r.arg = {}
  <2>1. t = After([st EXCEPT !.selectedUsers = {}], one)
    BY <1>4 DEF UsersThen, BulkThen, one
  <2>2. t.send = one /\ t.st = [st EXCEPT !.selectedUsers = {}]
    BY <2>1 DEF After
  <2>3. t.st.clients = st.clients
    BY <2>2 DEF UsersStates
  <2>4. SameLists(t.st)
    BY <2>3, UsersLists
  <2>5. \E k \in 1..Len(t.send) : t.send[k].op = "clients"
    <3>1. Len(t.send) = 1 /\ t.send[1].op = "clients"
      BY <1>1, <2>2, Zenon
    <3>2. 1 \in 1..1
      OBVIOUS
    <3> QED  BY <3>1, <3>2, Zenon
  <2> QED  BY <1>0, <1>1, <2>2, <2>4, <2>5 DEF ReadsAgain
<1>5. CASE r.op = "bulk" /\ r.arg # {}
  <2> DEFINE ids == r.arg
             c == Min(ids)
             rest == ids \ {c}
             q == Request("bulk", c, rest)
  <2>1. ids \in SUBSET (1..MaxClients) /\ ids # {}
    BY <1>5 DEF RequestOK, ArgOK
  <2>2. t = After(st, <<NextDeletion(ids)>>)
    BY <1>5 DEF UsersThen, BulkThen
  <2> HIDE DEF ids
  <2>3. NextDeletion(ids) = q /\ c \in Ids /\ rest \in Args
    BY <2>1, NextDeletionOK
  <2> HIDE DEF c, rest
  <2>4. "bulk" \in Ops
    BY DEF Ops, UsersOps
  <2>5. q \in Messages /\ q.op = "bulk" /\ q.ans = None
    BY <2>3, <2>4, RequestFields
  <2> HIDE DEF q
  <2>6. Sends(<<q>>) /\ Len(<<q>>) = 1 /\ <<q>>[1] = q
    BY <2>5, SendsOne
  <2>7. t.send = <<q>> /\ t.st = st
    BY <2>2, <2>3 DEF After
  <2>8. SameLists(t.st)
    BY <2>7, UsersLists
  <2>9. \E k \in 1..Len(t.send) : t.send[k].op = "bulk"
    <3>1. Len(t.send) = 1 /\ t.send[1].op = "bulk"
      BY <2>5, <2>6, <2>7, Zenon
    <3>2. 1 \in 1..1
      OBVIOUS
    <3> QED  BY <3>1, <3>2, Zenon
  <2> QED  BY <1>0, <2>6, <2>7, <2>8, <2>9 DEF ReadsAgain
<1> QED  BY <1>2, <1>3, <1>4, <1>5 DEF UsersOps

LEMMA TwoReads ==
  ASSUME token \in {None, AdminPassword}, NEW rs, rs = <<Get("groups"), Get("clients")>>
  PROVE  Sends(rs) /\ Len(rs) = 2 /\ rs[1].op = "groups" /\ rs[2].op = "clients"
<1> DEFINE a == Get("groups")
           b == Get("clients")
<1>1. {"groups", "clients"} \subseteq Reads \ {"items"}
  BY DEF Reads
<1>2. /\ a \in Messages /\ a.ans = None /\ a.op = "groups"
      /\ b \in Messages /\ b.ans = None /\ b.op = "clients"
  BY <1>1, GetFields
<1>3. rs = <<a, b>>
  OBVIOUS
<1> HIDE DEF a, b
<1>4. rs \in Seq(Messages) /\ Len(rs) = 2 /\ rs[1] = a /\ rs[2] = b
  BY <1>2, <1>3
<1>5. \A k \in 1..2 : k = 1 \/ k = 2
  OBVIOUS
<1> QED  BY <1>1, <1>2, <1>4, <1>5 DEF Sends

LEMMA GroupsAgain ==
  ASSUME token \in {None, AdminPassword}, page = "groups", st \in GroupsStates,
         NEW r, r.op \in GroupsOps, NEW t, t = GroupsThen(st, r)
  PROVE  ReadsAgain(r, t)
<1> DEFINE one == <<Get("groups")>>
           two == <<Get("groups"), Get("clients")>>
<1>0. PageLists(page) = {"groups", "clients"} /\ "groups" \in Reads \ {"items"}
  BY DEF PageLists, Kinds, Reads
<1>1. Sends(one) /\ Len(one) = 1 /\ one[1].op = "groups"
  BY <1>0, OneRead
<1>2. Sends(two) /\ Len(two) = 2 /\ two[1].op = "groups" /\ two[2].op = "clients"
  BY TwoReads
<1> HIDE DEF one, two
<1>3. CASE r.op \in {"newGroup", "editGroup"}
  <2>1. t = After(Hidden(st), one)
    BY <1>3 DEF GroupsThen, one
  <2>2. t.send = one /\ t.st = Hidden(st)
    BY <2>1 DEF After
  <2>3. t.st.clients = st.clients /\ t.st.groups = st.groups
    BY <2>2 DEF GroupsStates, Hidden
  <2>4. SameLists(t.st)
    BY <2>3, GroupsLists
  <2>5. \E k \in 1..Len(t.send) : t.send[k].op = "groups"
    <3>1. Len(t.send) = 1 /\ t.send[1].op = "groups"
      BY <1>1, <2>2, Zenon
    <3>2. 1 \in 1..1
      OBVIOUS
    <3> QED  BY <3>1, <3>2, Zenon
  <2>6. r.op # "bulk" /\ r.op \notin Changes("clients")
    BY <1>3 DEF Changes, UsersOps
  <2> QED  BY <1>0, <1>1, <2>2, <2>4, <2>5, <2>6 DEF ReadsAgain
<1>4. CASE r.op \in {"deleteGroup", "assign"}
  <2>1. \/ t = After(st, two)
        \/ t = After([st EXCEPT !.assignGroupId = None, !.selectedClients = {}], two)
    BY <1>4 DEF GroupsThen, two
  <2>2. /\ t.send = two
        /\ t.st = st \/ t.st = [st EXCEPT !.assignGroupId = None, !.selectedClients = {}]
    BY <2>1 DEF After
  <2>3. t.st.clients = st.clients /\ t.st.groups = st.groups
    BY <2>2 DEF GroupsStates
  <2>4. SameLists(t.st)
    BY <2>3, GroupsLists
  <2>5. \A l \in {"groups", "clients"} : \E k \in 1..Len(t.send) : t.send[k].op = l
    <3>1. Len(t.send) = 2 /\ t.send[1].op = "groups" /\ t.send[2].op = "clients"
      BY <1>2, <2>2, Zenon
    <3>2. 1 \in 1..2 /\ 2 \in 1..2
      OBVIOUS
    <3> QED  BY <3>1, <3>2, Zenon
  <2> QED  BY <1>0, <1>2, <2>2, <2>4, <2>5 DEF ReadsAgain
<1> QED  BY <1>3, <1>4 DEF GroupsOps

LEMMA ListAgain ==
  ASSUME token \in {None, AdminPassword}, page \in Kinds, st \in ListStates,
         NEW r, r.op \in ListOps, KindOf(r) = page, NEW t, t = ListThen(st, r)
  PROVE  ReadsAgain(r, t)
<1> DEFINE q == Load(page)
<1>0. PageLists(page) = {"items"} /\ "items" \in Reads
  BY DEF PageLists, Kinds, Reads
<1>1. q \in Messages /\ q.ans = None /\ q.op = "items" /\ q.id = page
  BY LoadFields
<1>2. t.send = <<q>> /\ t.st = [st EXCEPT !.showForm = @ /\ r.op # "newItem"]
  BY DEF ListThen, After
<1> HIDE DEF q
<1>3. Sends(<<q>>) /\ Len(<<q>>) = 1 /\ <<q>>[1] = q
  BY <1>0, <1>1, SendsOne
<1>4. t.st.items = st.items
  BY <1>2 DEF ListStates
<1>5. SameLists(t.st)
  BY <1>4, ItemsLists
<1>6. \E k \in 1..Len(t.send) : t.send[k].op = "items"
  BY <1>1, <1>2, <1>3
<1> QED  BY <1>0, <1>2, <1>3, <1>5, <1>6 DEF ReadsAgain

LEMMA SaveAgain ==
  ASSUME page = "settings", NEW r, NEW t, t = SettingsThen(st)
  PROVE  ReadsAgain(r, t)
<1>1. PageLists(page) = {}
  BY DEF PageLists, Kinds
<1>2. t.send = <<>>
  BY DEF SettingsThen, After
<1> QED  BY <1>1, <1>2, SendsNone DEF ReadsAgain, SameLists

LEMMA ChangeAgain ==
  ASSUME IInv, FreshInv, NEW i \in 1..Len(reqs), NEW r, r = reqs[i], r.op # "login",
         r.op \notin Reads, r.live = "page", NEW follow, NEW t, t = Then(r, follow)
  PROVE  ReadsAgain(r, t)
<1>0. /\ RequestOK(r, confirmed) /\ page \in Routes /\ r.op \in Ops
      /\ token \in {None, AdminPassword} /\ authed
      /\ r.op \in PageOps(page) /\ SenderState(r) = st /\ PageState(page, st)
  BY PageFacts
<1>1. CASE r.op \in UsersOps
  <2>1. t = UsersThen(st, r, r.ans.code = 200)
    BY <1>0, <1>1 DEF Then, UsersOps, GroupsOps, ListOps, Reads, Measured
  <2>2. page = "users" /\ st \in UsersStates
    BY <1>0, <1>1, SenderPage DEF PageState
  <2> QED  BY <1>0, <1>1, <2>1, <2>2, UsersAgain
<1>2. CASE r.op \in GroupsOps
  <2>1. t = GroupsThen(st, r)
    BY <1>0, <1>2 DEF Then, UsersOps, GroupsOps, ListOps, Reads, Measured
  <2>2. page = "groups" /\ st \in GroupsStates
    BY <1>0, <1>2, SenderPage DEF PageState
  <2> QED  BY <1>0, <1>2, <2>1, <2>2, GroupsAgain
<1>3. CASE r.op \in ListOps
  <2>1. t = ListThen(st, r)
    BY <1>0, <1>3 DEF Then, UsersOps, GroupsOps, ListOps, Reads, Measured
  <2>2. page \in Kinds
    BY <1>0, <1>3, SenderPage
  <2>3. st \in ListStates
    BY <1>0, <2>2 DEF PageState
  <2>4. KindOf(r) = page
    BY <1>0, <1>3 DEF FreshInv, KindOK
  <2> QED  BY <1>0, <1>3, <2>1, <2>2, <2>3, <2>4, ListAgain
<1>4. CASE r.op = "save"
  <2>1. t = SettingsThen(st)
    BY <1>0, <1>4 DEF Then, UsersOps, GroupsOps, ListOps, Reads, Measured
  <2>2. page = "settings"
    BY <1>0, <1>4, SenderPage
  <2> QED  BY <2>1, <2>2, SaveAgain
<1> QED  BY <1>0, <1>1, <1>2, <1>3, <1>4 DEF Ops

LEMMA ChangeArrives ==
  ASSUME IInv, FreshInv, authed, NEW i \in 1..Len(reqs), NEW r, r = reqs[i], r.live = "page",
         r.op \notin Reads, r.ans # None, r.ans.code # 401,
         NEW t, ReadsAgain(r, t), Resume(i, t), UNCHANGED <<db, authed, page>>,
         skew' = (skew \/ Overlaps(t.send))
  PROVE  FreshInv'
<1>1. Sends(t.send) /\ SameLists(t.st) /\ st' = t.st
  BY DEF ReadsAgain, Resume
<1>2. PICK rs, new : ResumedWith(i, t, rs, new)
  BY <1>1, Resumed
<1>2a. /\ Removal(rs, reqs, i) /\ reqs' = rs \o new /\ new \in Seq(Messages)
       /\ Sends(new) /\ Len(new) = Len(t.send)
       /\ \A k \in 1..Len(new) : new[k].op = t.send[k].op /\ new[k].live = "page"
  BY <1>2 DEF ResumedWith
<1>3. \A k \in 1..Len(new) : new[k].ans = None /\ KindOK(page, new[k])
  BY <1>2a, SendsKind
<1>4. \A l \in PageLists(page) : l \in Reads
  BY ListsRead, PageRoute
<1>5. t.send \in Seq(Messages)
  BY <1>1 DEF Sends
<1>6. ASSUME NEW l \in PageLists(page)
      PROVE  Holds(db, page, st, l) => Holds(db, page, st', l)
  BY <1>1, SameHolds
<1>7. ASSUME ~Overlaps(t.send), NEW l \in PageLists(page), NEW k \in 1..Len(new),
             Reading(new[k], l), NEW j \in 1..Len(reqs)
      PROVE  ~Reading(reqs[j], l)
  <2> DEFINE m == t.send
  <2>1. m[k].op = l /\ m[k].op \in Reads /\ k \in 1..Len(m) /\ m \in Seq(Messages) /\ ~Overlaps(m)
    BY <1>2a, <1>4, <1>5, <1>7 DEF Reading
  <2> HIDE DEF m
  <2> QED  BY <2>1, NoOverlap
<1>8. \A l : \A j, k \in 1..Len(new) : Reading(new[j], l) /\ Reading(new[k], l) => j = k
  BY <1>2a DEF Sends, Reading
<1>9. ASSUME NEW l \in PageLists(page), Brings(db, page, reqs[i], l)
      PROVE  \E k \in 1..Len(new) : Brings(db, page, new[k], l)
  <2>1. (r.op = "bulk" /\ l = "clients") \/ (r.op \in Changes(l) /\ r.ans.code = 200)
    BY <1>4, <1>9 DEF Brings
  <2>2. PICK k \in 1..Len(t.send) : t.send[k].op = l \/ (t.send[k].op = "bulk" /\ l = "clients")
    BY <2>1 DEF ReadsAgain
  <2>3. /\ k \in 1..Len(new) /\ new[k].ans = None /\ new[k].live = "page"
        /\ new[k].op = l \/ (new[k].op = "bulk" /\ l = "clients")
    BY <1>2a, <1>3, <2>2
  <2> QED  BY <2>3 DEF Brings
<1>10. ASSUME ~skew', NEW l \in PageLists(page)
       PROVE  /\ Holds(db, page, st, l) => Holds(db, page, st', l)
              /\ \A k \in 1..Len(new) : Reading(new[k], l) =>
                   \A j \in 1..Len(reqs) : ~Reading(reqs[j], l)
              /\ \A j, k \in 1..Len(new) : Reading(new[j], l) /\ Reading(new[k], l) => j = k
              /\ Brings(db, page, reqs[i], l) => \E k \in 1..Len(new) : Brings(db, page, new[k], l)
  BY <1>6, <1>7, <1>8, <1>9, <1>10
<1>11. ~skew' => ~skew
  OBVIOUS
<1> QED  BY <1>2a, <1>3, <1>10, <1>11, GrowStep

(* A page but the logs has a field for each of its lists. *)
LEMMA ListsKept ==
  ASSUME NEW p \in Routes, p # "logs", NEW s, PageState(p, s)
  PROVE  PageLists(p) \subseteq DOMAIN s
<1>1. CASE p = "users"
  BY <1>1 DEF PageLists, PageState, UsersStates, Kinds
<1>2. CASE p = "groups"
  BY <1>2 DEF PageLists, PageState, GroupsStates, Kinds
<1>3. CASE p \in Kinds
  BY <1>3 DEF PageLists, PageState, ListStates, Kinds
<1>4. CASE p = "settings"
  BY <1>4 DEF PageLists, Kinds
<1>5. CASE p = "profiles"
  BY <1>5 DEF PageLists, PageState, ProfilesStates, Kinds
<1>6. CASE p = "devices"
  BY <1>6 DEF PageLists, PageState, Kinds
<1>7. CASE p = "home"
  BY <1>7 DEF PageLists, PageState, Kinds
<1> QED  BY <1>1, <1>2, <1>3, <1>4, <1>5, <1>6, <1>7 DEF Routes, Kinds

LEMMA ReadArrives ==
  ASSUME IInv, FreshInv, authed, NEW i \in 1..Len(reqs), NEW r, r = reqs[i], r.live = "page",
         r.op \in Reads, r.ans # None, r.ans.code # 401, NEW follow,
         NEW t, t = Then(r, follow), Resume(i, t), UNCHANGED <<db, authed, page>>,
         ~skew' => ~skew
  PROVE  FreshInv'
<1> DEFINE data == r.ans.data
           op == r.op
           u == WithData(st, op, data, follow)
           rs == RemoveAt(reqs, i)
           none == <<>>
<1>0. /\ page \in Routes /\ op \in PageOps(page) /\ SenderState(r) = st /\ PageState(page, st)
      /\ op # "login"
  <2>1. op # "login"
    BY DEF Reads, Measured
  <2> QED  BY <2>1, PageFacts
<1>1. t = After(u, <<>>)
  <2>1. op \notin UsersOps /\ op \notin GroupsOps /\ op \notin ListOps /\ op # "save"
    BY DEF UsersOps, GroupsOps, ListOps, Reads, Measured
  <2> QED  BY <1>0, <2>1 DEF Then, WithData
<1>2. reqs' = rs \o none /\ st' = u
  <2>1. t.send = <<>> /\ t.st = u
    BY <1>1 DEF After
  <2>2. [k \in DOMAIN t.send |-> [t.send[k] EXCEPT !.live = r.live]] = <<>>
    BY <2>1
  <2> QED  BY <2>1, <2>2 DEF Resume
<1>3. Removal(rs, reqs, i) /\ reqs \in Seq(Messages)
  BY ReqsSeq, RemovedAt
<1>4. /\ none \in Seq(Messages) /\ Len(none) = 0
      /\ \A k \in 1..Len(none) : FALSE
  OBVIOUS
<1> HIDE DEF rs, none
<1>5. rs \in Seq(Messages) /\ reqs' = rs
  <2>1. rs \in Seq(Messages)
    BY <1>3 DEF Removal
  <2> QED  BY <1>2, <2>1, ConcatEmptySeq DEF none
<1>6. \A k \in 1..Len(rs) : KindOK(page, rs[k])
  BY <1>3, RemovedFrom DEF FreshInv
<1>7. ASSUME NEW l \in PageLists(page), ~skew
      PROVE  FreshIn(db, page, u, rs, l)
  <2>1. FreshIn(db, page, st, reqs, l) /\ l \in Reads \ {"settings"}
    BY <1>0, <1>7, ListsRead DEF FreshInv
  <2>2. CASE l = op
    <3>1. Answered(db, page, reqs[i], l) => Holds(db, page, u, l)
      <4> SUFFICES ASSUME Answered(db, page, reqs[i], l)  PROVE Holds(db, page, u, l)
        OBVIOUS
      <4>1. data = Current(db, page, l)
        BY DEF Answered
      <4>2. CASE page = "logs"
        <5>1. u = GenerateLogs(data)
          BY <2>1, <2>2, <4>2 DEF WithData
        <5> QED  BY <4>1, <4>2, <5>1 DEF Holds
      <4>3. CASE page # "logs"
        <5>1. u = [st EXCEPT ![op] = data]
          BY <2>1, <2>2, <4>3 DEF WithData
        <5>2. op \in DOMAIN st
          BY <1>0, <1>7, <2>2, <4>3, ListsKept
        <5> HIDE DEF u, op, data
        <5>3. u[op] = data
          BY <5>1, <5>2
        <5> QED  BY <2>2, <4>1, <4>3, <5>3 DEF Holds
      <4> QED  BY <4>2, <4>3
    <3>2. Reading(reqs[i], l)
      BY <2>2 DEF Reading
    <3> HIDE DEF u
    <3> QED  BY <1>3, <2>1, <3>1, <3>2, ArrivedFresh
  <2>3. CASE l # op
    <3>1. page # "logs" /\ op # "settings"
      <4>1. page = "logs" => op = "clients" /\ l = "clients"
        BY <1>0, <1>7 DEF PageOps, PageLists, Kinds
      <4>2. op = "settings" => page = "settings"
        BY <1>0 DEF PageOps, Routes, Kinds, UsersOps, GroupsOps, ListOps
      <4>3. page # "settings"
        BY <1>7 DEF PageLists, Kinds
      <4> QED  BY <2>3, <4>1, <4>2, <4>3
    <3>2. u = [st EXCEPT ![op] = data]
      BY <3>1 DEF WithData
    <3>3. l \in DOMAIN st
      BY <1>0, <1>7, <3>1, ListsKept
    <3>4. u[l] = st[l]
      <4> HIDE DEF u, op, data
      <4> QED  BY <2>3, <3>2, <3>3
    <3>5. Holds(db, page, st, l) => Holds(db, page, u, l)
      BY <3>1, <3>4 DEF Holds
    <3>6. ~Brings(db, page, reqs[i], l)
      BY <2>3, NoListOp DEF Brings
    <3> HIDE DEF u
    <3>7. reqs' = rs /\ rs = rs \o none
      BY <1>2, <1>5
    <3> QED  BY <1>3, <1>4, <2>1, <3>5, <3>6, <3>7, GrownFresh
  <2> QED  BY <2>2, <2>3
<1> HIDE DEF u
<1> QED  BY <1>2, <1>5, <1>6, <1>7 DEF FreshInv

LEMMA ArriveFresh ==
  ASSUME IInv, FreshInv, NEW i \in DOMAIN reqs, Arrive(i)
  PROVE  FreshInv'
<1>0. reqs \in Seq(Messages) /\ i \in 1..Len(reqs) /\ reqs[i].ans # None
  BY DEF IInv, RequestsOK, Arrive
<1>1. CASE Unauthorized(i)
  <2>1. ~authed'
    BY <1>1 DEF Unauthorized, Boot
  <2> QED  BY <2>1, LoggedOutFresh
<1>2. CASE reqs[i].ans.code = 200 /\ reqs[i].op = "login" /\ LoggedIn(i)
  BY <1>0, <1>2, LoggedInFresh
<1>3. ASSUME reqs[i].ans.code # 401, reqs[i].op # "login", NEW follow,
             Resume(i, Then(reqs[i], follow)), UNCHANGED <<db, shell, ops, confirmed>>,
             skew' = (skew \/ (reqs[i].live = "page" /\ Overlaps(Then(reqs[i], follow).send)))
      PROVE  FreshInv'
  <2> DEFINE r == reqs[i]
             t == Then(r, follow)
  <2>1. ThenFits(r, t)
    BY <1>0, <1>3, ThenOK
  <2>2. /\ Resume(i, t) /\ UNCHANGED <<db, authed, page>> /\ r.op # "login" /\ r = reqs[i]
        /\ skew' = (skew \/ (r.live = "page" /\ Overlaps(t.send)))
        /\ t = Then(r, follow) /\ r.ans # None /\ r.ans.code # 401
    BY <1>0, <1>3 DEF shell
  <2> HIDE DEF r, t
  <2>3. CASE ~authed
    BY <2>2, <2>3, LoggedOutFresh
  <2>4. CASE authed /\ r.live # "page"
    <3>1. Follows(t.send, confirmed)
      BY <2>1 DEF ThenFits
    <3> QED  BY <1>0, <2>2, <2>4, <3>1, ResumeElse
  <2>5. CASE authed /\ r.live = "page" /\ r.op \in Reads
    BY <1>0, <2>2, <2>5, ReadArrives
  <2>6. CASE authed /\ r.live = "page" /\ r.op \notin Reads
    <3>1. ReadsAgain(r, t)
      BY <1>0, <2>2, <2>6, ChangeAgain
    <3>2. skew' = (skew \/ Overlaps(t.send))
      BY <2>2, <2>6
    <3> QED  BY <1>0, <2>2, <2>6, <3>1, <3>2, ChangeArrives
  <2> QED  BY <2>3, <2>4, <2>5, <2>6
<1> QED  BY <1>1, <1>2, <1>3 DEF Arrive

LEMMA FailedSends ==
  ASSUME IInv, NEW i \in 1..Len(reqs), NEW r, r = reqs[i], r.op # "login", r.live = "page",
         NEW t, t = Failed(r), ThenFits(r, t)
  PROVE  \A k \in 1..Len(t.send) : t.send[k].op # "items"
<1>1. CASE r.op \in UsersOps
  <2>1. page \in Routes /\ r.op \in PageOps(page)
    BY PageFacts
  <2>2. page = "users"
    BY <1>1, <2>1, SenderPage
  <2>3. \A k \in 1..Len(t.send) : t.send[k].op \in PageOps(page)
    BY DEF ThenFits
  <2>4. "items" \notin PageOps(page)
    BY <2>2 DEF PageOps, UsersOps, Kinds
  <2> QED  BY <2>3, <2>4
<1>2. CASE r.op \notin UsersOps
  BY <1>2 DEF Failed, After
<1> QED  BY <1>1, <1>2

LEMMA FailFresh ==
  ASSUME IInv, FreshInv, NEW i \in DOMAIN reqs, Fail(i)
  PROVE  FreshInv'
<1>0. /\ reqs \in Seq(Messages) /\ i \in 1..Len(reqs) /\ UNCHANGED <<db, authed, page>>
      /\ skew' = TRUE
  BY DEF IInv, RequestsOK, Fail, shell
<1>1. CASE ~authed
  BY <1>0, <1>1, LoggedOutFresh
<1>2. CASE authed
  <2>1. reqs[i].op # "login"
    BY <1>0, <1>2 DEF IInv, RequestsOK, LiveOK
  <2> DEFINE r == reqs[i]
             t == IF r.live = "gone" THEN After(st, <<>>) ELSE Failed(r)
  <2>2. Resume(i, t) /\ r = reqs[i] /\ r.op # "login"
    BY <2>1 DEF Fail
  <2>3. /\ Follows(t.send, confirmed)
        /\ r.live = "page" => \A k \in 1..Len(t.send) : t.send[k].op # "items"
    <3>1. CASE r.live = "gone"
      <4>1. t.send = <<>>
        BY <3>1 DEF After
      <4> HIDE DEF t
      <4> QED  BY <4>1, NoneFollows
    <3>2. CASE r.live # "gone"
      <4>1. t = Failed(r)
        BY <3>2
      <4> HIDE DEF r, t
      <4>2. ThenFits(r, t)
        BY <1>0, <2>2, <4>1, FailedOK
      <4>3. r.live = "page" => \A k \in 1..Len(t.send) : t.send[k].op # "items"
        BY <1>0, <2>2, <4>1, <4>2, FailedSends
      <4> QED  BY <4>2, <4>3 DEF ThenFits
    <3> QED  BY <3>1, <3>2
  <2> HIDE DEF r, t
  <2> QED  BY <1>0, <1>2, <2>2, <2>3, ResumeElse
<1> QED  BY <1>1, <1>2

-----------------------------------------------------------------------------
(* The server.                                                             *)

LEMMA ServeFresh ==
  ASSUME IInv, FreshInv, NEW i \in DOMAIN reqs, Serve(i)
  PROVE  FreshInv'
<1> DEFINE r == reqs[i]
           h == Handle(db, r)
           a == [code |-> h.code, data |-> h.data]
<1>0. /\ reqs \in Seq(Messages) /\ i \in 1..Len(reqs) /\ reqs[i].ans = None
      /\ db \in Databases /\ RequestsOK /\ IdsLeft
  BY DEF IInv, RequestsOK, Serve
<1>1. /\ db' = h.db
      /\ reqs' = IF r.live = "gone" THEN RemoveAt(reqs, i) ELSE [reqs EXCEPT ![i].ans = a]
      /\ authed' = authed /\ page' = page /\ st' = st
      /\ skew' = (skew \/ (r.live # "page" /\ r.op \notin Reads))
  BY DEF Serve, shell
<1>2. /\ ServedOK(db, r, h, confirmed) /\ r = reqs[i] /\ RequestOK(r, confirmed)
      /\ r \in Messages /\ LiveOK(r)
  <2>1. r = reqs[i]
    OBVIOUS
  <2>2. RequestOK(r, confirmed) /\ r \in Messages /\ LiveOK(r)
    BY <1>0 DEF RequestsOK
  <2> HIDE DEF r
  <2> QED  BY <1>0, <2>1, <2>2, ServeDb DEF h
<1>3. h = Handle(db, r) /\ r.ans = None
  BY <1>0
<1> HIDE DEF r, h
<1>4. CASE ~authed
  BY <1>1, <1>4, LoggedOutFresh
<1>5. CASE authed /\ r.live = "gone"
  <2> DEFINE rs == RemoveAt(reqs, i)
             none == <<>>
  <2>1. reqs' = rs /\ Removal(rs, reqs, i)
    BY <1>0, <1>1, <1>5, RemovedAt
  <2>2. none \in Seq(Messages) /\ \A k \in 1..Len(none) : FALSE
    OBVIOUS
  <2> HIDE DEF rs, none
  <2>3. rs = rs \o none
    BY <2>1, ConcatEmptySeq DEF Removal, none
  <2>4. \A k \in 1..Len(rs) : KindOK(page, rs[k])
    BY <1>5, <2>1, RemovedFrom DEF FreshInv
  <2>5. ASSUME ~skew', NEW l \in PageLists(page)
        PROVE  FreshIn(db', page, st, rs, l)
    <3>1. ~skew /\ db' = db
      BY <1>1, <1>3, <1>5, <2>5, HandleReadDb
    <3>2. FreshIn(db, page, st, reqs, l)
      BY <1>5, <2>5, <3>1 DEF FreshInv
    <3>3. ~Brings(db, page, reqs[i], l)
      BY <1>2, <1>5 DEF Brings
    <3>4. FreshIn(db, page, st, rs, l)
      BY <1>0, <2>1, <2>2, <2>3, <3>2, <3>3, GrownFresh
    <3> QED  BY <3>1, <3>4
  <2> QED  BY <1>1, <2>1, <2>4, <2>5 DEF FreshInv
<1>6. CASE authed /\ r.live # "gone"
  <2> DEFINE rs == [reqs EXCEPT ![i].ans = a]
             q == [r EXCEPT !.ans = a]
  <2>1. /\ Len(rs) = Len(reqs)
        /\ \A k \in 1..Len(reqs) : rs[k] = IF k = i THEN q ELSE reqs[k]
        /\ reqs' = rs
    BY <1>0, <1>1, <1>2, <1>6
  <2>2. a.code = h.code /\ a.data = h.data
    OBVIOUS
  <2>3. /\ q.ans = a /\ q.op = r.op /\ q.id = r.id /\ q.arg = r.arg /\ q.live = r.live
    BY <1>2 DEF Messages
  <2>4. h.data = None => a # None
    <3>1. h.code \in Codes
      BY <1>2 DEF ServedOK, Replies
    <3> QED  BY <3>1, AnswerGiven
  <2> HIDE DEF rs, q, a
  <2>5. \A k \in 1..Len(rs) : KindOK(page, rs[k])
    <3>1. KindOK(page, r) => KindOK(page, q)
      BY <2>3 DEF KindOK, KindOf
    <3>2. \A k \in 1..Len(reqs) : KindOK(page, reqs[k])
      BY <1>6 DEF FreshInv
    <3> QED  BY <1>0, <1>2, <2>1, <3>1, <3>2
  <2>6. ASSUME ~skew', NEW l \in PageLists(page)
        PROVE  FreshIn(db', page, st, rs, l)
    <3> DEFINE e == db'
    <3>0. e = h.db
      BY <1>1
    <3> HIDE DEF e
    <3>1. /\ ~skew /\ FreshIn(db, page, st, reqs, l)
          /\ r.live = "page" \/ r.op \in Reads
          /\ l \in Reads \ {"settings"} /\ page \in Routes
      BY <1>1, <1>6, <2>6, ListsRead, PageRoute DEF FreshInv
    <3>2. /\ Current(e, page, l) = Current(db, page, l) \/ Brings(e, page, q, l)
          /\ Brings(db, page, r, l) => Brings(e, page, q, l)
      <4>1. CASE r.live # "page"
        <5>1. e = db
          BY <1>3, <3>0, <3>1, <4>1, HandleReadDb
        <5>2. ~Brings(db, page, r, l)
          BY <4>1 DEF Brings
        <5> QED  BY <5>1, <5>2
      <4>2. CASE r.live = "page" /\ r.op \in Reads
        <5>1. e = db
          BY <1>3, <3>0, <4>2, HandleReadDb
        <5>2. ASSUME Brings(db, page, r, l)
              PROVE  Brings(e, page, q, l)
          <6>1. r.op # "bulk" /\ r.op \notin Changes(l)
            BY <4>2, NoListOp
          <6>2. r.op = l
            BY <1>3, <5>2, <6>1 DEF Brings
          <6>3. r.op = "items" => r.id = page
            BY <1>0, <1>2, <1>6, <4>2 DEF FreshInv, KindOK
          <6>4. \/ h.code = 401 /\ h.data = None
                \/ h.code = 200 /\ h.data = Current(db, page, r.op)
            BY <1>3, <3>1, <6>2, <6>3, HandleRead
          <6>5. CASE h.code = 401 /\ h.data = None
            BY <2>2, <2>3, <2>4, <4>2, <6>5 DEF Brings
          <6>6. CASE h.code = 200 /\ h.data = Current(db, page, r.op)
            BY <2>2, <2>3, <4>2, <5>1, <6>2, <6>6 DEF Brings, Answered
          <6> QED  BY <6>4, <6>5, <6>6
        <5> QED  BY <5>1, <5>2
      <4>3. CASE r.live = "page" /\ r.op \notin Reads
        <5>1. r.op \in PageOps(page) /\ r.op # "login"
          BY <1>2, <1>6, <4>3 DEF LiveOK
        <5>2. page # "settings"
          BY <2>6 DEF PageLists, Kinds
        <5>3. r.op \in UsersOps \cup GroupsOps \cup ListOps
          BY <3>1, <4>3, <5>1, <5>2 DEF PageOps, Routes, Kinds, Reads, Measured
        <5>4. /\ e = db \/ h.code = 200
              /\ r.op \in {"newGroup", "editGroup"} => e.clients = db.clients
              /\ h.data = None
          BY <1>0, <1>3, <3>0, <5>3, HandleChange
        <5>5. a # None /\ q.ans = a /\ a.code = h.code
          BY <2>2, <2>3, <2>4, <5>4
        <5>6. Brings(db, page, r, l) => Brings(e, page, q, l)
          BY <1>3, <2>3, <3>1, <4>3 DEF Brings
        <5>7. CASE e = db
          BY <5>6, <5>7
        <5>8. CASE h.code = 200 /\ r.op \in Changes(l)
          <6>1. Brings(e, page, q, l)
            BY <2>3, <4>3, <5>5, <5>8 DEF Brings
          <6> QED  BY <6>1
        <5>9. CASE r.op \notin Changes(l)
          <6>1. l = "clients" /\ r.op \in {"newGroup", "editGroup"}
            <7>1. /\ page = "users" => l = "clients" /\ r.op \in UsersOps
                  /\ page = "groups" => l \in {"groups", "clients"} /\ r.op \in GroupsOps
                  /\ page \in Kinds => l = "items" /\ r.op \in ListOps
                  /\ page = "users" \/ page = "groups" \/ page \in Kinds
              BY <2>6, <3>1, <4>3, <5>1, <5>2 DEF PageOps, PageLists, Routes, Kinds, Reads, Measured
            <7> QED  BY <5>9, <7>1 DEF Changes, GroupsOps
          <6>2. Current(e, page, l) = Current(db, page, l)
            BY <5>4, <6>1 DEF Current, ListClients
          <6> QED  BY <5>6, <6>2
        <5> QED  BY <5>4, <5>7, <5>8, <5>9
      <4> QED  BY <3>1, <4>1, <4>2, <4>3
    <3>3. /\ Replaced(rs, reqs, i, q)
          /\ FreshIn(db, page, st, reqs, l) /\ i \in 1..Len(reqs)
          /\ Current(e, page, l) = Current(db, page, l) \/ Brings(e, page, q, l)
          /\ Brings(db, page, reqs[i], l) => Brings(e, page, q, l)
      BY <1>0, <1>2, <2>1, <2>3, <3>1, <3>2 DEF Replaced
    <3>4. FreshIn(e, page, st, rs, l)
      BY <3>3, ServedFresh
    <3> QED  BY <3>4 DEF e
  <2> QED  BY <1>1, <2>1, <2>5, <2>6 DEF FreshInv
<1> QED  BY <1>4, <1>5, <1>6

LEMMA InitFresh ==
  ASSUME Init
  PROVE  FreshInv
<1>1. IInv
  BY InitIInv
<1>2. authed /\ reqs = Mounted(page)
  BY DEF Init
<1>3. Mounts(reqs, page)
  BY <1>1, <1>2, PageRoute, MountedMounts
<1> DEFINE none == <<>>
<1>4. none \in Seq(Messages) /\ \A k \in 1..Len(none) : none[k].live # "page"
  OBVIOUS
<1>5. reqs = none \o reqs
  <2>1. reqs \in Seq(Messages)
    BY <1>1, ReqsSeq
  <2> QED  BY <2>1, ConcatEmptySeq
<1> HIDE DEF none
<1>6. /\ \A k \in 1..Len(reqs) : KindOK(page, reqs[k])
      /\ \A l \in PageLists(page) : FreshIn(db, page, st, reqs, l)
  BY <1>3, <1>4, <1>5, MountFresh
<1> QED  BY <1>6 DEF FreshInv

LEMMA NextFresh ==
  ASSUME IInv, FreshInv, [Next]_vars
  PROVE  FreshInv'
<1>1. CASE \E i \in DOMAIN reqs : Serve(i)
  BY <1>1, ServeFresh
<1>2. CASE \E i \in DOMAIN reqs : Arrive(i)
  BY <1>2, ArriveFresh
<1>3. CASE \E i \in DOMAIN reqs : Fail(i)
  BY <1>3, FailFresh
<1>4. CASE UsersAction
  BY <1>4, UsersFresh
<1>5. CASE GroupsAction
  BY <1>5, GroupsFresh
<1>6. CASE ListAction
  BY <1>6, ListFresh
<1>7. CASE SettingsAction
  BY <1>7, SettingsFresh
<1>8. CASE ProfilesAction
  BY <1>8, ProfilesFresh
<1>9. CASE RefreshClients \/ FetchData
  BY <1>9, RefreshFresh
<1>10. CASE \E p \in tour.pages : Navigate(p, None)
  BY <1>10, NavigateFresh
<1>11. CASE \E g \in 1..MaxGroups : OpenGroup(g)
  <2>1. PICK g \in 1..MaxGroups : Navigate("users", g)
    BY <1>11 DEF OpenGroup
  <2> QED  BY <2>1, NavigateFresh
<1>12. CASE \E w \in {AdminPassword, "wrong"} : HandleSubmit(w)
  <2>1. ~authed'
    BY <1>12 DEF HandleSubmit, shell
  <2> QED  BY <2>1, LoggedOutFresh
<1>13. CASE ReloadPage
  <2>1. KeptFrom(reqs, reqs)
    BY ReqsWellFormed, KeptSelf DEF IInv
  <2>2. Boot(token, reqs)
    BY <1>13 DEF ReloadPage
  <2> QED  BY <2>1, <2>2, BootFresh
<1>14. CASE OtherTab
  <2>1. UNCHANGED <<db, authed, page, st, reqs, skew>>
    BY <1>14 DEF OtherTab
  <2> QED  BY <2>1 DEF FreshInv
<1>15. CASE UNCHANGED vars
  <2>1. UNCHANGED <<db, authed, page, st, reqs, skew>>
    BY <1>15 DEF vars
  <2> QED  BY <2>1 DEF FreshInv
<1> QED
  BY <1>1, <1>2, <1>3, <1>4, <1>5, <1>6, <1>7, <1>8, <1>9, <1>10, <1>11, <1>12, <1>13, <1>14, <1>15
  DEF Next, Server, Answers

(* As long as no read overlapped, failed or was overtaken, each list of    *)
(* the page that is shown agrees with the server, or one request under way *)
(* brings what the server holds: the one read of that list, a change that  *)
(* is followed by one, or a refusal that takes the page away.              *)
THEOREM PagesFollow == Spec => []FreshInv
<1>1. Init => FreshInv
  BY InitFresh
<1>2. IInv /\ FreshInv /\ [Next]_vars => FreshInv'
  BY NextFresh
<1> QED  BY <1>1, <1>2, PanelInvariant, PTL DEF Spec

-----------------------------------------------------------------------------
(* What the pages show once their lists agree with the server.             *)

LEMMA MaxOfTwo ==
  ASSUME NEW a \in Int, NEW b \in Int
  PROVE  Max({a, b}) \in {a, b} /\ Max({a, b}) >= a /\ Max({a, b}) >= b
<1> DEFINE S == {a, b}
<1>1. \E x \in S : \A y \in S : x >= y
  OBVIOUS
<1>2. Max(S) = CHOOSE x \in S : \A y \in S : x >= y
  BY DEF Max
<1>3. Max(S) \in S /\ \A y \in S : Max(S) >= y
  BY <1>1, <1>2, Zenon
<1> QED  BY <1>3

LEMMA Remainder ==
  ASSUME NEW n \in Nat, n > 0
  PROVE  /\ \A a \in Nat : a < n => a % n = a /\ (a + n) % n = a
         /\ \A a \in Nat : a % n \in 0..(n - 1)
<1>1. ASSUME NEW a \in Nat, a < n  PROVE a % n = a
  BY <1>1
<1>2. ASSUME NEW a \in Nat, a < n  PROVE (a + n) % n = a
  BY <1>2
<1>3. ASSUME NEW a \in Nat  PROVE a % n \in 0..(n - 1)
  BY <1>3
<1> QED  BY <1>1, <1>2, <1>3

LEMMA TwoElements ==
  ASSUME NEW S, IsFiniteSet(S), NEW x \in S, NEW y \in S, x # y
  PROVE  Cardinality(S) >= 2
<1> DEFINE T == {x}
<1>1. IsFiniteSet(T) /\ Cardinality(T) = 1 /\ y \notin T
  BY FS_Singleton
<1>2. IsFiniteSet(T \cup {y}) /\ Cardinality(T \cup {y}) = 2
  BY <1>1, FS_AddElement
<1>3. T \cup {y} \subseteq S
  OBVIOUS
<1> HIDE DEF T
<1>4. Cardinality(T \cup {y}) <= Cardinality(S) /\ Cardinality(S) \in Nat
  BY <1>3, FS_Subset, FS_CardinalityType
<1> QED  BY <1>2, <1>4

LEMMA ClientsFinite ==
  ASSUME NEW d \in Databases
  PROVE  /\ DOMAIN d.clients \subseteq 1..MaxClients /\ IsFiniteSet(DOMAIN d.clients)
         /\ DOMAIN ListClients(d) = DOMAIN d.clients
         /\ \A c \in DOMAIN d.clients : d.clients[c].enabled \in BOOLEAN
<1>1. d.clients \in Partial(1..MaxClients, Clients)
  BY DEF Databases
<1>2. PICK D \in SUBSET (1..MaxClients) : d.clients \in [D -> Clients]
  BY <1>1 DEF Partial
<1>3. DOMAIN d.clients \subseteq 1..MaxClients
  BY <1>2
<1>4. MaxClients \in Nat
  BY PanelAssumption
<1>5. IsFiniteSet(DOMAIN d.clients)
  <2>1. IsFiniteSet(1..MaxClients)
    BY <1>4, FS_Interval
  <2> QED  BY <1>3, <2>1, FS_Subset
<1>6. \A c \in DOMAIN d.clients : d.clients[c].enabled \in BOOLEAN
  BY <1>2 DEF Clients
<1>7. DOMAIN ListClients(d) = DOMAIN d.clients
  BY DEF ListClients
<1> QED  BY <1>3, <1>5, <1>6, <1>7

(* Every client has two lines in the log page's table. *)
LEMMA LogsServed ==
  ASSUME NEW d \in Databases, NEW s, s = GenerateLogs(ListClients(d))
  PROVE  /\ \A c \in DOMAIN d.clients : Cardinality(LogsView(s, c)) >= 2
         /\ DOMAIN d.clients # {} => LogsView(s, None) = {}
<1> DEFINE D == DOMAIN d.clients
           ids == SetToSeq(D)
           n == Len(ids)
           m == Max({2 * n, 8})
<1>1. D \subseteq 1..MaxClients /\ IsFiniteSet(D) /\ DOMAIN ListClients(d) = D
  BY ClientsFinite
<1>2. DOMAIN s.logs = 1..m /\ \A k \in 1..m :
        s.logs[k].client = IF n = 0 THEN None ELSE ids[((k - 1) % n) + 1]
  BY <1>1 DEF GenerateLogs
<1>3. \A c : LogsView(s, c) = {k \in 1..m : s.logs[k].client = c}
  BY <1>2 DEF LogsView
<1> HIDE DEF D
<1> DEFINE N == Cardinality(D)
<1>4. /\ ids \in [1..N -> D] /\ N \in Nat
      /\ \A j, k \in 1..N : ids[j] = ids[k] => j = k
  BY <1>1, SetToSeqOK
<1> HIDE DEF ids, N
<1>5. n = N
  BY <1>4
<1> HIDE DEF n
<1>6. m \in Nat /\ m >= 2 * n
  <2>1. 2 * n \in Int /\ n \in Nat
    BY <1>4, <1>5
  <2> DEFINE x == 2 * n
  <2>2. x \in Nat /\ x \in Int /\ 8 \in Nat /\ 8 \in Int
    BY <2>1
  <2> HIDE DEF x
  <2>3. Max({x, 8}) \in {x, 8} /\ Max({x, 8}) >= x
    BY <2>2, MaxOfTwo, Zenon
  <2>4. Max({x, 8}) \in Nat
    BY <2>2, <2>3, Zenon
  <2> QED  BY <2>3, <2>4 DEF x
<1> HIDE DEF m
<1>7. ASSUME NEW c \in D
      PROVE  \E k \in 1..N : ids[k] = c
  <2> SUFFICES ASSUME \A k \in 1..N : ids[k] # c  PROVE FALSE
    OBVIOUS
  <2> DEFINE T == D \ {c}
             J == 1..N
  <2>1. IsFiniteSet(T) /\ Cardinality(T) = N - 1
    BY <1>1, <1>7, FS_RemoveElement DEF N
  <2>2. IsFiniteSet(J) /\ Cardinality(J) = N
    <3>1. IsFiniteSet(1..N) /\ Cardinality(1..N) = IF 1 > N THEN 0 ELSE N - 1 + 1
      BY <1>4, FS_Interval
    <3> QED  BY <1>4, <3>1
  <2>3. /\ \A k \in J : ids[k] \in T
        /\ \A j, k \in J : ids[j] = ids[k] => j = k
    BY <1>4
  <2> HIDE DEF T, J
  <2>4. Cardinality(J) <= Cardinality(T)
    <3>1. J \in SUBSET J
      OBVIOUS
    <3> QED  BY <2>1, <2>3, <3>1, InjectionBound
  <2> QED  BY <1>4, <2>1, <2>2, <2>4
<1>8. ASSUME NEW c \in D
      PROVE  Cardinality(LogsView(s, c)) >= 2
  <2>1. PICK k \in 1..N : ids[k] = c
    BY <1>7
  <2>2. n \in Nat /\ n > 0 /\ k \in 1..n
    BY <1>4, <1>5, <2>1
  <2>3. (k - 1) % n = k - 1 /\ ((k + n) - 1) % n = k - 1
    <3>1. k - 1 \in Nat /\ k - 1 < n /\ (k + n) - 1 = (k - 1) + n
      BY <2>2
    <3> QED  BY <2>2, <3>1, Remainder
  <2>4. k \in 1..m /\ k + n \in 1..m /\ k # k + n
    BY <1>6, <2>2
  <2>5. s.logs[k].client = c /\ s.logs[k + n].client = c
    <3>1. s.logs[k].client = ids[((k - 1) % n) + 1] /\ s.logs[k + n].client = ids[(((k + n) - 1) % n) + 1]
      BY <1>2, <2>2, <2>4
    <3>2. (k - 1) + 1 = k
      BY <2>2
    <3> QED  BY <2>1, <2>3, <3>1, <3>2
  <2> DEFINE S == LogsView(s, c)
             x == k + n
  <2>6. k \in S /\ x \in S /\ k # x
    BY <1>3, <2>4, <2>5
  <2>7. IsFiniteSet(S)
    <3>1. IsFiniteSet(1..m)
      BY <1>6, FS_Interval
    <3>2. S \subseteq 1..m
      BY <1>3
    <3> HIDE DEF S
    <3> QED  BY <3>1, <3>2, FS_Subset
  <2> HIDE DEF S, x
  <2>8. Cardinality(S) >= 2
    BY <2>6, <2>7, TwoElements
  <2> QED  BY <2>8 DEF S
<1>9. ASSUME D # {}
      PROVE  LogsView(s, None) = {}
  <2>1. N # 0
    BY <1>1, <1>9, FS_EmptySet DEF N
  <2>2. n \in Nat /\ n > 0
    BY <1>4, <1>5, <2>1
  <2>3. ASSUME NEW k \in 1..m
        PROVE  s.logs[k].client # None
    <3>1. ((k - 1) % n) + 1 \in 1..n
      <4>1. k - 1 \in Nat
        BY <1>6
      <4> DEFINE y == k - 1
      <4> HIDE DEF y
      <4>2. y % n \in 0..(n - 1)
        BY <2>2, <4>1, Remainder DEF y
      <4>3. (y % n) + 1 \in 1..n
        BY <2>2, <4>2
      <4> QED  BY <4>3 DEF y
    <3>2. s.logs[k].client = ids[((k - 1) % n) + 1]
      BY <1>2, <2>2
    <3>3. s.logs[k].client \in D
      BY <1>4, <1>5, <3>1, <3>2
    <3> QED  BY <1>1, <3>3, PanelAssumption
  <2> QED  BY <1>3, <2>3
<1> QED  BY <1>8, <1>9 DEF D

LEMMA DevicesServed ==
  ASSUME NEW d \in Databases, NEW s, s.clients = ListClients(d)
  PROVE  DevicesView(s).safe = Cardinality({c \in DOMAIN d.clients : d.clients[c].enabled})
<1>1. DOMAIN s.clients = DOMAIN d.clients
  BY ClientsFinite
<1>2. \A c \in DOMAIN d.clients :
        s.clients[c].status = "online" <=> d.clients[c].enabled
  BY ClientsFinite DEF ListClients
<1>3. {c \in DOMAIN s.clients : s.clients[c].status = "online"}
        = {c \in DOMAIN d.clients : d.clients[c].enabled}
  BY <1>1, <1>2
<1> QED  BY <1>3 DEF DevicesView

LEMMA HomeServed ==
  ASSUME NEW d \in Databases, NEW s, s.clients = ListClients(d), s.dash = GetDashboard(d),
         s.sys = "measured", s.traffic = "measured", s.chart = "measured"
  PROVE  /\ ClientTable(s) = DOMAIN d.clients
         /\ HomeHeader(s) = Cardinality(ClientTable(s))
         /\ PieChart(s)[1] + PieChart(s)[2] = HomeHeader(s)
         /\ {SystemCards(s), BandwidthCards(s), TrafficChart(s)} = {"measured"}
<1> DEFINE D == DOMAIN d.clients
           on == {c \in D : d.clients[c].enabled}
           total == Cardinality(D)
           up == Cardinality(on)
           down == Cardinality(D \ on)
<1>1. ClientTable(s) = D
  BY ClientsFinite DEF ClientTable
<1>2. total \in Nat /\ up \in Nat /\ down \in Nat /\ up + down = total
  <2>1. IsFiniteSet(D) /\ on \subseteq D /\ D \cap on = on
    BY ClientsFinite
  <2> HIDE DEF D, on
  <2>2. IsFiniteSet(on) /\ IsFiniteSet(D \ on) /\ Cardinality(D \ on) = Cardinality(D) - Cardinality(D \cap on)
    BY <2>1, FS_Subset, FS_Difference
  <2>3. Cardinality(D) \in Nat /\ Cardinality(on) \in Nat /\ Cardinality(D \ on) \in Nat
    BY <2>1, <2>2, FS_CardinalityType
  <2> QED  BY <2>1, <2>2, <2>3
<1>3. s.dash = [totalClients |-> total, enabledClients |-> up, disabledClients |-> down]
  BY DEF GetDashboard
<1> HIDE DEF total, up, down
<1>4. s.dash # None
  BY <1>2, <1>3, PanelAssumption
<1>5. Counters(s) = [total |-> total, enabled |-> up, disabled |-> down]
  BY <1>3, <1>4 DEF Counters
<1>6. HomeHeader(s) = total
  BY <1>4, <1>5 DEF HomeHeader
<1>7. PieChart(s)[1] = up /\ PieChart(s)[2] = down
  BY <1>5 DEF PieChart
<1>8. SystemCards(s) = "measured" /\ BandwidthCards(s) = "measured" /\ TrafficChart(s) = "measured"
  BY PanelAssumption DEF SystemCards, BandwidthCards, TrafficChart
<1>9. HomeHeader(s) = Cardinality(ClientTable(s))
  BY <1>1, <1>6 DEF total
<1>10. PieChart(s)[1] + PieChart(s)[2] = HomeHeader(s)
  BY <1>2, <1>6, <1>7
<1> QED  BY <1>1, <1>8, <1>9, <1>10

(* Lists that agree with the server make a page that does. *)
LEMMA HoldsServed ==
  ASSUME db \in Databases, page \in Routes, \A l \in PageLists(page) : Holds(db, page, st, l)
  PROVE  Served
<1>1. CASE page \in {"users", "profiles"}
  <2>1. st["clients"] = ListClients(db)
    BY <1>1 DEF PageLists, Holds, Current, Kinds, Measured
  <2> QED  BY <1>1, <2>1 DEF Served, Kinds
<1>2. CASE page = "groups"
  <2>1. st["clients"] = ListClients(db) /\ st["groups"] = ListGroups(db)
    BY <1>2 DEF PageLists, Holds, Current, Kinds, Measured
  <2> QED  BY <1>2, <2>1 DEF Served, Kinds
<1>3. CASE page = "devices"
  <2>1. st["clients"] = ListClients(db)
    BY <1>3 DEF PageLists, Holds, Current, Kinds, Measured
  <2>2. DevicesView(st).safe = Cardinality({c \in DOMAIN db.clients : db.clients[c].enabled})
    BY <2>1, DevicesServed
  <2> QED  BY <1>3, <2>2 DEF Served, Kinds
<1>4. CASE page = "home"
  <2>1. \A l \in {"dash", "sys", "clients", "traffic", "chart"} : st[l] = Current(db, page, l)
    BY <1>4 DEF PageLists, Holds, Kinds
  <2>2. /\ st["clients"] = ListClients(db) /\ st["dash"] = GetDashboard(db)
        /\ st["sys"] = "measured" /\ st["traffic"] = "measured" /\ st["chart"] = "measured"
    BY <2>1 DEF Current, Measured
  <2>3. /\ ClientTable(st) = DOMAIN db.clients
        /\ HomeHeader(st) = Cardinality(ClientTable(st))
        /\ PieChart(st)[1] + PieChart(st)[2] = HomeHeader(st)
        /\ {SystemCards(st), BandwidthCards(st), TrafficChart(st)} = {"measured"}
    BY <2>2, HomeServed
  <2> QED  BY <1>4, <2>3 DEF Served, Kinds
<1>5. CASE page \in Kinds
  <2>1. st["items"] = db.items[page]
    BY <1>5 DEF PageLists, Holds, Current, Kinds, Measured
  <2> QED  BY <1>5, <2>1 DEF Served, Kinds
<1>6. CASE page = "logs"
  <2>1. st = GenerateLogs(ListClients(db))
    BY <1>6 DEF PageLists, Holds, Current, Kinds, Measured
  <2>2. /\ \A c \in DOMAIN db.clients : Cardinality(LogsView(st, c)) >= 2
        /\ DOMAIN db.clients # {} => LogsView(st, None) = {}
    BY <2>1, LogsServed
  <2> QED  BY <1>6, <2>2 DEF Served, Kinds
<1>7. CASE page = "settings"
  BY <1>7 DEF Served, Kinds
<1> QED  BY <1>1, <1>2, <1>3, <1>4, <1>5, <1>6, <1>7 DEF Routes, Kinds

(* Every change a page makes is followed by reads of all it shows: once    *)
(* nothing of the page is under way, what is on the screen agrees with     *)
(* what the server holds, unless reads overlapped, failed or were          *)
(* overtaken by a change of an earlier visit.  FreshInv says that each     *)
(* list either agrees or has a request of the page on its way; without     *)
(* such a request it agrees.                                               *)
THEOREM QuietPagesFresh == Spec => []QuietMeansFresh
<1>1. IInv /\ FreshInv => QuietMeansFresh
  <2> SUFFICES ASSUME IInv, FreshInv, authed, ~skew, \A i \in DOMAIN reqs : reqs[i].live # "page"
               PROVE  Served
    BY DEF QuietMeansFresh
  <2>1. \A i \in 1..Len(reqs) : reqs[i].live # "page"
    BY ReqsSeq
  <2>2. ASSUME NEW l \in PageLists(page)
        PROVE  Holds(db, page, st, l)
    <3>1. FreshIn(db, page, st, reqs, l)
      BY <2>2 DEF FreshInv
    <3> QED  BY <2>1, <3>1 DEF FreshIn, Brings
  <2>3. db \in Databases /\ page \in Routes
    BY PageRoute DEF IInv
  <2> QED  BY <2>2, <2>3, HoldsServed
<1> QED  BY <1>1, PanelInvariant, PagesFollow, PTL
=============================================================================
