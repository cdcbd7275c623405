--------------------------- MODULE ClientDbProofs ---------------------------
(***************************************************************************)
(* Proofs about ClientDb, for any number of processes, clients and octets. *)
(* The argument: whatever overwrites what, a version of the database is    *)
(* only ever made from another one by adding a client on the next octet,   *)
(* by dropping a client, or by changing a field that is neither id nor     *)
(* address, and each of these keeps a well-formed version well formed.     *)
(***************************************************************************)
EXTENDS ClientDb, FiniteSetTheorems, TLAPS

(* Inodes are natural numbers, so None is not one of them. *)
LEMMA InodesType == Inodes \subseteq Nat /\ None \notin Inodes
<1>1. Cardinality(Procs) \in Nat
  BY DbAssumption, FS_CardinalityType
<1> QED
  BY <1>1, DbAssumption DEF Inodes

LEMMA EmptyGood == \A n \in Nat : Good(EmptyDb, n)
  BY DbAssumption DEF Good, EmptyDb, WellFormed, Versions

(* A version stays well formed when more ids are drawn. *)
LEMMA GoodLater ==
  ASSUME NEW n \in Nat, NEW v, Good(v, n)
  PROVE  Good(v, n + 1)
  BY DEF Good, Versions, Clients, Ids

(* add_client: the next octet is above all that are in use. *)
LEMMA AddGood ==
  ASSUME NEW n \in Ids, NEW v, Good(v, n), v.next <= MaxOctet, NEW name \in Names
  PROVE  Good(WithNewClient(name, n, v), n + 1)
<1> DEFINE new == NewClient(name, n, v)
           w   == WithNewClient(name, n, v)
<1>1. new \in Clients /\ new.id = n /\ new.ip = v.next
  BY DbAssumption DEF Good, Versions, Clients, NewClient, Ids, Octets
<1>2. w.clients = v.clients \cup {new} /\ w.next = v.next + 1
  BY DEF WithNewClient
<1>3. w \in Versions
  BY <1>1, DbAssumption DEF Good, Versions, WithNewClient
<1>4. \A c \in v.clients : c.ip \in Nat /\ c.id \in Nat /\ c.ip < v.next /\ c.id < n
  BY DEF Good, WellFormed, Versions, Clients, Octets, Ids
<1> HIDE DEF new, w
<1>5. WellFormed(w)
  <2>1. \A c \in w.clients : c.ip < w.next
    BY <1>1, <1>2, <1>4, DbAssumption DEF Good, Versions
  <2>2. ASSUME NEW c \in w.clients, NEW d \in w.clients, c.ip = d.ip \/ c.id = d.id
        PROVE  c = d
    <3>1. CASE c \in v.clients /\ d \in v.clients
      BY <2>2, <3>1 DEF Good, WellFormed
    <3>2. CASE c = new \/ d = new
      BY <2>2, <3>2, <1>1, <1>2, <1>4, DbAssumption DEF Good, Versions, Ids
    <3> QED
      BY <3>1, <3>2, <1>2
  <2> QED
    BY <2>1, <2>2 DEF WellFormed
<1>6. \A c \in w.clients : c.id < n + 1
  BY <1>1, <1>2, <1>4 DEF Ids
<1> QED
  BY <1>3, <1>5, <1>6 DEF Good, w

(* remove_client *)
LEMMA RemoveGood ==
  ASSUME NEW n \in Nat, NEW v, Good(v, n), NEW id
  PROVE  Good(WithoutClient(id, v), n)
<1>1. WithoutClient(id, v).clients \subseteq v.clients /\ WithoutClient(id, v).next = v.next
  BY DEF WithoutClient
<1>2. WithoutClient(id, v) \in Versions
  BY DEF WithoutClient, Good, Versions
<1> QED
  BY <1>1, <1>2 DEF Good, WellFormed

(* A change of fields that are neither id nor address. *)
LEMMA RelabelGood ==
  ASSUME NEW n \in Nat, NEW v, Good(v, n),
         NEW F \in [v.clients -> Clients],
         \A c \in v.clients : F[c].id = c.id /\ F[c].ip = c.ip
  PROVE  Good([clients |-> {F[c] : c \in v.clients}, next |-> v.next], n)
<1> DEFINE w == [clients |-> {F[c] : c \in v.clients}, next |-> v.next]
<1>1. w.clients = {F[c] : c \in v.clients} /\ w.next = v.next
  OBVIOUS
<1>2. w \in Versions
  BY DEF Good, Versions
<1> HIDE DEF w
<1>3. ASSUME NEW d \in w.clients
      PROVE  d.ip < w.next /\ d.id < n
  <2>1. PICK c \in v.clients : d = F[c]
    BY <1>1
  <2> QED
    BY <2>1, <1>1 DEF Good, WellFormed
<1>4. ASSUME NEW d \in w.clients, NEW e \in w.clients, d.ip = e.ip \/ d.id = e.id
      PROVE  d = e
  <2>1. PICK b \in v.clients : d = F[b]
    BY <1>1
  <2>2. PICK c \in v.clients : e = F[c]
    BY <1>1
  <2>3. b = c
    BY <2>1, <2>2, <1>4 DEF Good, WellFormed
  <2> QED
    BY <2>1, <2>2, <2>3
<1> QED
  BY <1>2, <1>3, <1>4 DEF Good, WellFormed, w

LEMMA EnabledGood ==
  ASSUME NEW n \in Nat, NEW v, Good(v, n), NEW id, NEW on \in BOOLEAN
  PROVE  Good(WithEnabled(id, on, v), n)
<1> DEFINE F == [c \in v.clients |->
                   IF c.id = id
                   THEN [id |-> c.id, name |-> c.name, ip |-> c.ip, enabled |-> on, stat |-> c.stat]
                   ELSE c]
<1>1. v.clients \subseteq Clients
  BY DEF Good, Versions
<1>2. F \in [v.clients -> Clients]
  BY <1>1 DEF Clients
<1>3. \A c \in v.clients : F[c].id = c.id /\ F[c].ip = c.ip
  OBVIOUS
<1>4. WithEnabled(id, on, v) = [clients |-> {F[c] : c \in v.clients}, next |-> v.next]
  BY DEF WithEnabled
<1> HIDE DEF F
<1> QED
  BY <1>2, <1>3, <1>4, RelabelGood

LEMMA NameGood ==
  ASSUME NEW n \in Nat, NEW v, Good(v, n), NEW id, NEW name \in Names
  PROVE  Good(WithName(id, name, v), n)
<1> DEFINE F == [c \in v.clients |->
                   IF c.id = id
                   THEN [id |-> c.id, name |-> name, ip |-> c.ip, enabled |-> c.enabled,
                         stat |-> c.stat]
                   ELSE c]
<1>1. v.clients \subseteq Clients
  BY DEF Good, Versions
<1>2. F \in [v.clients -> Clients]
  BY <1>1 DEF Clients
<1>3. \A c \in v.clients : F[c].id = c.id /\ F[c].ip = c.ip
  OBVIOUS
<1>4. WithName(id, name, v) = [clients |-> {F[c] : c \in v.clients}, next |-> v.next]
  BY DEF WithName
<1> HIDE DEF F
<1> QED
  BY <1>2, <1>3, <1>4, RelabelGood

(* record_traffic, below the bound on what is recorded. *)
LEMMA CountedGood ==
  ASSUME NEW n \in Nat, NEW v, Good(v, n), NEW k \in v.clients, k.stat < MaxStat
  PROVE  Good(Counted(k.id, v), n)
<1> DEFINE F == [c \in v.clients |->
                   IF c.id = k.id
                   THEN [id |-> c.id, name |-> c.name, ip |-> c.ip, enabled |-> c.enabled,
                         stat |-> c.stat + 1]
                   ELSE c]
<1>1. v.clients \subseteq Clients
  BY DEF Good, Versions
<1>2. F \in [v.clients -> Clients]
  <2>1. \A c \in v.clients : c.id = k.id => c.stat < MaxStat
    BY DEF Good, WellFormed
  <2> QED
    BY <1>1, <2>1, DbAssumption DEF Clients
<1>3. \A c \in v.clients : F[c].id = c.id /\ F[c].ip = c.ip
  OBVIOUS
<1>4. Counted(k.id, v) = [clients |-> {F[c] : c \in v.clients}, next |-> v.next]
  BY DEF Counted
<1> HIDE DEF F
<1> QED
  BY <1>2, <1>3, <1>4, RelabelGood

(* reload_from_disk: the statistics of a known client are taken over. *)
LEMMA StatInType ==
  ASSUME NEW m \in Versions, NEW id \in IdsOf(m)
  PROVE  StatIn(m, id) \in 0 .. MaxStat
<1>1. PICK c \in m.clients : c.id = id
  BY DEF IdsOf
<1>2. (CHOOSE d \in m.clients : d.id = id) \in m.clients
  BY <1>1
<1> QED
  BY <1>2 DEF StatIn, Versions, Clients

LEMMA MergedGood ==
  ASSUME NEW n \in Nat, NEW m \in Versions, NEW v, Good(v, n)
  PROVE  Good(Merged(m, v), n)
<1> DEFINE F == [c \in v.clients |->
                   IF c.id \in IdsOf(m)
                   THEN [id |-> c.id, name |-> c.name, ip |-> c.ip, enabled |-> c.enabled,
                         stat |-> StatIn(m, c.id)]
                   ELSE c]
<1>1. v.clients \subseteq Clients
  BY DEF Good, Versions
<1>2. F \in [v.clients -> Clients]
  BY <1>1, StatInType DEF Clients
<1>3. \A c \in v.clients : F[c].id = c.id /\ F[c].ip = c.ip
  OBVIOUS
<1>4. Merged(m, v) = [clients |-> {F[c] : c \in v.clients}, next |-> v.next]
  BY DEF Merged
<1> HIDE DEF F
<1> QED
  BY <1>2, <1>3, <1>4, RelabelGood

-----------------------------------------------------------------------------
(* What a process reads is well formed. *)
LEMMA DiskGood ==
  ASSUME IInv, Readable
  PROVE  Good(Disk, nextId)
<1>1. CASE json = None
  BY <1>1, EmptyGood DEF IInv, TypeOK, Disk
<1>2. CASE json # None
  <2>1. json \in Inodes
    BY <1>2 DEF IInv, TypeOK
  <2> QED
    BY <1>2, <2>1 DEF IInv, Readable, Disk
<1> QED
  BY <1>1, <1>2

LEMMA InitIInv == Init => IInv
<1> SUFFICES ASSUME Init PROVE IInv
  OBVIOUS
<1>1. Good(EmptyDb, 1) /\ EmptyDb \in Versions
  BY EmptyGood DEF Good
<1>2. TypeOK
  BY <1>1, DbAssumption DEF Init, TypeOK, Idle, NoFlush, CliOps
<1> QED
  BY <1>1, <1>2 DEF Init, IInv, Idle, NoFlush

(* The start of a request: a process takes a well-formed copy. *)
LEMMA BeginIInv ==
  ASSUME IInv, NEW p \in Procs, NEW op \in CliOps \cup PanelOps, NEW id \in Ids \cup {None},
         NEW data, Begin(p, op, id, data),
         nextId' \in {nextId, nextId + 1}, nextId' \in 1 .. (MaxIds + 1),
         Good(data, nextId'), UNCHANGED <<server, files>>
  PROVE  IInv'
<1>1. \A v : Good(v, nextId) => Good(v, nextId')
  BY GoodLater DEF IInv, TypeOK
<1>2. data \in Versions
  BY DEF Good
<1>3. TypeOK'
  BY <1>2 DEF IInv, TypeOK, Begin, server, files
<1>4. \A q \in Procs : Good(proc[q].data, nextId)'
  BY <1>1 DEF IInv, TypeOK, Begin
<1>5. \A q \in Procs : (proc[q].pc = "write" => proc[q].fd \in Inodes)'
  BY DEF IInv, TypeOK, Begin
<1>6. Good(mem, nextId)' /\ (reload = None \/ Good(reload, nextId))'
  BY <1>1 DEF IInv, server
<1>7. (\A i \in Inodes : content[i] = Torn \/ Good(content[i], nextId))'
  BY <1>1 DEF IInv, files
<1> QED
  BY <1>3, <1>4, <1>5, <1>6, <1>7 DEF IInv, server

LEMMA RequestIInv ==
  ASSUME IInv, NEW p \in Procs, Request(p)
  PROVE  IInv'
<1> USE DEF IInv
<1>0. nextId \in Nat /\ nextId \in 1 .. (MaxIds + 1)
  BY DbAssumption DEF TypeOK
<1>1. ASSUME NEW n \in Names, NEW op \in Ops, CliAdd(p, op, n)
      PROVE  IInv'
  <2>1. Good(Disk, nextId) /\ nextId \in Ids /\ nextId' = nextId + 1
    BY <1>1, <1>0, DiskGood, DbAssumption DEF CliAdd, Ids
  <2>2. Good(WithNewClient(n, nextId, Disk), nextId')
    BY <1>1, <2>1, AddGood DEF CliAdd
  <2>3. op \in CliOps \cup PanelOps
    BY DbAssumption
  <2>4. nextId' \in {nextId, nextId + 1} /\ nextId' \in 1 .. (MaxIds + 1)
    BY <2>1, DbAssumption DEF Ids
  <2>5. /\ Begin(p, op, None, WithNewClient(n, nextId, Disk))
        /\ UNCHANGED <<server, files>>
    BY <1>1 DEF CliAdd
  <2> QED
    BY <2>2, <2>3, <2>4, <2>5, BeginIInv
<1>2. ASSUME NEW id \in 1 .. (nextId - 1), CliRemove(p, id)
      PROVE  IInv'
  <2>1. Good(WithoutClient(id, Disk), nextId') /\ id \in Ids
    BY <1>2, <1>0, DiskGood, RemoveGood, DbAssumption DEF CliRemove, Ids
  <2> QED
    BY <1>2, <1>0, <2>1, BeginIInv DEF CliRemove, CliOps
<1>3. ASSUME NEW id \in 1 .. (nextId - 1), PanelDelete(p, id)
      PROVE  IInv'
  <2>1. Good(WithoutClient(id, Disk), nextId') /\ id \in Ids
    BY <1>3, <1>0, DiskGood, RemoveGood, DbAssumption DEF PanelDelete, Panel, Ids
  <2> QED
    BY <1>3, <1>0, <2>1, BeginIInv DEF PanelDelete, PanelOps
<1>4. ASSUME NEW id \in 1 .. (nextId - 1), NEW on \in BOOLEAN, PanelToggle(p, id, on)
      PROVE  IInv'
  <2>1. Good(WithEnabled(id, on, Disk), nextId') /\ id \in Ids
    BY <1>4, <1>0, DiskGood, EnabledGood, DbAssumption DEF PanelToggle, Panel, Ids
  <2> QED
    BY <1>4, <1>0, <2>1, BeginIInv DEF PanelToggle, PanelOps
<1>5. ASSUME NEW id \in 1 .. (nextId - 1), NEW n \in Names, PanelRename(p, id, n)
      PROVE  IInv'
  <2>1. Good(WithName(id, n, Disk), nextId') /\ id \in Ids
    BY <1>5, <1>0, DiskGood, NameGood, DbAssumption DEF PanelRename, Panel, Ids
  <2> QED
    BY <1>5, <1>0, <2>1, BeginIInv DEF PanelRename, PanelOps
<1> QED
  BY <1>1, <1>2, <1>3, <1>4, <1>5 DEF Request

(* An inode that can be opened is one. *)
LEMMA OpenableType ==
  ASSUME TypeOK
  PROVE  Openable(tmp) \subseteq Inodes /\ Openable(json) \subseteq Inodes
  BY DEF Openable, TypeOK

(* What a write leaves is torn or the version written. *)
LEMMA WrittenGood ==
  ASSUME NEW i, NEW v, Good(v, nextId), NEW c \in Written(i, v)
  PROVE  c = Torn \/ Good(c, nextId)
  BY DEF Written

(* Files after rename: fewer names, the same contents or torn ones. *)
LEMMA MoveTmpFiles ==
  ASSUME IInv, MoveTmp
  PROVE  /\ json' \in Inodes \cup {None} /\ tmp' \in Inodes \cup {None}
         /\ content' \in [Inodes -> Versions \cup {Torn}]
         /\ \A i \in Inodes : content'[i] = Torn \/ Good(content'[i], nextId)
  BY DEF IInv, TypeOK, MoveTmp

(* The steps of a process keep everything but files and its own state. *)
LEMMA StepIInv ==
  ASSUME IInv, NEW p \in Procs, Step(p)
  PROVE  IInv'
<1> DEFINE ProcOK(r) == /\ r \in [pc : {"idle", "open", "write", "rename", "restart"},
                                  op : CliOps \cup PanelOps, id : Ids \cup {None},
                                  data : Versions, fd : Inodes \cup {None}]
                        /\ Good(r.data, nextId)
                        /\ r.pc = "write" => r.fd \in Inodes
           FilesOK == /\ json' \in Inodes \cup {None} /\ tmp' \in Inodes \cup {None}
                      /\ content' \in [Inodes -> Versions \cup {Torn}]
                      /\ \A i \in Inodes : content'[i] = Torn \/ Good(content'[i], nextId)
<1>0. nextId \in Nat /\ \A q \in Procs : ProcOK(proc[q])
  BY DbAssumption DEF IInv, TypeOK
<1>1. Good(EmptyDb, nextId) /\ EmptyDb \in Versions
  BY <1>0, EmptyGood DEF Good
<1>2. ASSUME FilesOK, \E r : ProcOK(r) /\ proc' = [proc EXCEPT ![p] = r],
             UNCHANGED <<server, nextId>>
      PROVE  IInv'
  <2>1. PICK r : ProcOK(r) /\ proc' = [proc EXCEPT ![p] = r]
    BY <1>2
  <2>2. \A q \in Procs : ProcOK(proc'[q])
    BY <2>1, <1>0 DEF IInv, TypeOK
  <2>3. proc' \in [Procs -> [pc : {"idle", "open", "write", "rename", "restart"},
                              op : CliOps \cup PanelOps, id : Ids \cup {None},
                              data : Versions, fd : Inodes \cup {None}]]
    BY <2>1, <1>0 DEF IInv, TypeOK
  <2> QED
    BY <1>2, <2>2, <2>3 DEF IInv, TypeOK, server
<1>3. ASSUME OpenTmp(p) PROVE IInv'
  <2>1. PICK i \in Openable(tmp) :
          /\ tmp' = i
          /\ content' = [content EXCEPT ![i] = Torn]
          /\ proc' = [proc EXCEPT ![p].pc = "write", ![p].fd = i]
    BY <1>3 DEF OpenTmp
  <2>2. i \in Inodes
    BY <2>1, OpenableType DEF IInv
  <2>3. FilesOK
    BY <1>3, <2>1, <2>2 DEF IInv, TypeOK, OpenTmp
  <2>4. \E r : ProcOK(r) /\ proc' = [proc EXCEPT ![p] = r]
    <3>1. ProcOK([proc[p] EXCEPT !.pc = "write", !.fd = i])
      BY <1>0, <2>2
    <3>2. proc' = [proc EXCEPT ![p] = [proc[p] EXCEPT !.pc = "write", !.fd = i]]
      BY <2>1
    <3> QED
      BY <3>1, <3>2
  <2> QED
    BY <1>2, <1>3, <2>3, <2>4 DEF OpenTmp
<1>4. ASSUME OpenJson(p) PROVE IInv'
  <2>1. PICK i \in Openable(json) :
          /\ json' = i
          /\ content' = [content EXCEPT ![i] = Torn]
          /\ proc' = [proc EXCEPT ![p].pc = "write", ![p].fd = i]
    BY <1>4 DEF OpenJson
  <2>2. i \in Inodes
    BY <2>1, OpenableType DEF IInv
  <2>3. FilesOK
    BY <1>4, <2>1, <2>2 DEF IInv, TypeOK, OpenJson
  <2>4. \E r : ProcOK(r) /\ proc' = [proc EXCEPT ![p] = r]
    <3>1. ProcOK([proc[p] EXCEPT !.pc = "write", !.fd = i])
      BY <1>0, <2>2
    <3>2. proc' = [proc EXCEPT ![p] = [proc[p] EXCEPT !.pc = "write", !.fd = i]]
      BY <2>1
    <3> QED
      BY <3>1, <3>2
  <2> QED
    BY <1>2, <1>4, <2>3, <2>4 DEF OpenJson
<1>5. ASSUME Write(p) PROVE IInv'
  <2> DEFINE to == IF proc[p].op \in InPlace THEN "restart" ELSE "rename"
  <2>1. PICK c \in Written(proc[p].fd, proc[p].data) :
          content' = [content EXCEPT ![proc[p].fd] = c]
    BY <1>5 DEF Write
  <2>2. c = Torn \/ Good(c, nextId)
    BY <2>1, <1>0, WrittenGood
  <2>3. FilesOK
    BY <1>5, <1>0, <2>1, <2>2 DEF IInv, TypeOK, Write, Good
  <2>4. \E r : ProcOK(r) /\ proc' = [proc EXCEPT ![p] = r]
    <3>1. ProcOK([proc[p] EXCEPT !.pc = to, !.fd = None])
      BY <1>0
    <3>2. proc' = [proc EXCEPT ![p] = [proc[p] EXCEPT !.pc = to, !.fd = None]]
      BY <1>5 DEF Write
    <3> QED
      BY <3>1, <3>2
  <2> QED
    BY <1>2, <1>5, <2>3, <2>4 DEF Write
<1>6. ASSUME Rename(p) PROVE IInv'
  <2>1. FilesOK
    BY <1>6, MoveTmpFiles DEF Rename, files, IInv, TypeOK
  <2>2. ProcOK(Idle) /\ ProcOK(Restarting)
    BY <1>1 DEF Idle, Restarting, CliOps, PanelOps
  <2>3. \E r : ProcOK(r) /\ proc' = [proc EXCEPT ![p] = r]
    BY <1>6, <2>2 DEF Rename
  <2> QED
    BY <1>2, <1>6, <2>1, <2>3 DEF Rename
<1>7. ASSUME Restart(p) PROVE IInv'
  <2>1. ProcOK(Idle)
    BY <1>1 DEF Idle, CliOps
  <2>2. proc' = [proc EXCEPT ![p] = Idle]
    BY <1>7 DEF Restart
  <2>3. \A q \in Procs : ProcOK(proc'[q])
    BY <2>1, <2>2, <1>0 DEF IInv, TypeOK
  <2>4. TypeOK'
    <3>1. proc' \in [Procs -> [pc : {"idle", "open", "write", "rename", "restart"},
                                op : CliOps \cup PanelOps, id : Ids \cup {None},
                                data : Versions, fd : Inodes \cup {None}]]
      BY <2>1, <2>2, <1>0 DEF IInv, TypeOK
    <3>2. mem' \in Versions /\ up' \in BOOLEAN
      BY <1>7, <1>1 DEF Restart
    <3>3. /\ flush' \in [pc : {"idle", "write", "rename"}, fd : Inodes \cup {None}]
          /\ reload' \in Versions \cup {None}
      BY <1>7 DEF Restart, NoFlush
    <3> QED
      BY <1>7, <3>1, <3>2, <3>3 DEF Restart, IInv, TypeOK, files
  <2> QED
    BY <1>7, <1>1, <2>3, <2>4 DEF Restart, IInv, files, NoFlush
<1> QED
  BY <1>3, <1>4, <1>5, <1>6, <1>7 DEF Step

(* The steps of the server. *)
LEMMA ServerIInv ==
  ASSUME IInv,
         \/ Start \/ FlushOpen \/ FlushWrite \/ FlushRename
         \/ (\E id \in Ids : Record(id)) \/ ReloadRead \/ ReloadMerge
  PROVE  IInv'
<1>0. nextId \in Nat /\ mem \in Versions
  BY DbAssumption DEF IInv, TypeOK
<1>1. ASSUME Start PROVE IInv'
  <2>1. Good(Disk, nextId) /\ Disk \in Versions
    BY <1>1, DiskGood DEF Start, Good
  <2> QED
    BY <1>1, <2>1 DEF Start, IInv, TypeOK, files
<1>2. ASSUME FlushOpen PROVE IInv'
  <2>1. PICK i \in Openable(tmp) :
          /\ tmp' = i
          /\ content' = [content EXCEPT ![i] = Torn]
          /\ flush' = [pc |-> "write", fd |-> i]
    BY <1>2 DEF FlushOpen
  <2>2. i \in Inodes
    BY <2>1, OpenableType DEF IInv
  <2> QED
    BY <1>2, <2>1, <2>2 DEF FlushOpen, IInv, TypeOK
<1>3. ASSUME FlushWrite PROVE IInv'
  <2>1. PICK c \in Written(flush.fd, mem) : content' = [content EXCEPT ![flush.fd] = c]
    BY <1>3 DEF FlushWrite
  <2>2. c = Torn \/ Good(c, nextId)
    BY <2>1, WrittenGood DEF IInv
  <2>3. c \in Versions \cup {Torn} /\ flush.fd \in Inodes
    BY <1>3, <2>2 DEF Good, IInv, FlushWrite
  <2>4. flush' \in [pc : {"idle", "write", "rename"}, fd : Inodes \cup {None}]
    BY <1>3 DEF FlushWrite
  <2> QED
    BY <1>3, <2>1, <2>2, <2>3, <2>4 DEF FlushWrite, IInv, TypeOK
<1>4. ASSUME FlushRename PROVE IInv'
  <2>1. /\ json' \in Inodes \cup {None} /\ tmp' \in Inodes \cup {None}
        /\ content' \in [Inodes -> Versions \cup {Torn}]
        /\ \A i \in Inodes : content'[i] = Torn \/ Good(content'[i], nextId)
    BY <1>4, MoveTmpFiles DEF FlushRename, files, IInv, TypeOK
  <2> QED
    BY <1>4, <2>1 DEF FlushRename, IInv, TypeOK, NoFlush
<1>5. ASSUME NEW id \in Ids, Record(id) PROVE IInv'
  <2>1. PICK k \in mem.clients : k.id = id /\ k.stat < MaxStat
    BY <1>5 DEF Record
  <2>2. Good(mem', nextId)
    BY <1>5, <1>0, <2>1, CountedGood DEF Record, IInv
  <2> QED
    BY <1>5, <2>2 DEF Record, IInv, TypeOK, files, Good
<1>6. ASSUME ReloadRead PROVE IInv'
  <2>1. Good(reload', nextId) /\ reload' \in Versions
    BY <1>6 DEF ReloadRead, IInv, TypeOK, Good
  <2> QED
    BY <1>6, <2>1 DEF ReloadRead, IInv, TypeOK, files
<1>7. ASSUME ReloadMerge PROVE IInv'
  <2>1. Good(reload, nextId)
    BY <1>7 DEF ReloadMerge, IInv
  <2>2. Good(mem', nextId) /\ mem' \in Versions
    BY <1>7, <1>0, <2>1, MergedGood DEF ReloadMerge, IInv, Good
  <2> QED
    BY <1>7, <2>2 DEF ReloadMerge, IInv, TypeOK, files
<1> QED
  BY <1>1, <1>2, <1>3, <1>4, <1>5, <1>6, <1>7

LEMMA NextIInv == IInv /\ [Next]_vars => IInv'
<1> SUFFICES ASSUME IInv, [Next]_vars PROVE IInv'
  OBVIOUS
<1>1. CASE UNCHANGED vars
  BY <1>1 DEF vars, IInv, TypeOK
<1>2. CASE Next
  BY <1>2, RequestIInv, StepIInv, ServerIInv DEF Next
<1> QED
  BY <1>1, <1>2

(* DbInvariance: every version of the database that exists anywhere is     *)
(* well formed, for any number of clients, requests and octets.            *)
THEOREM DbInvariance == Spec => []IInv
  BY InitIInv, NextIInv, PTL DEF Spec

(* AddressesStayUnique: no interleaving of additions, removals, panel      *)
(* edits, flushes, reloads and restarts gives two clients of client_db.rs  *)
(* one VPN IP or one id, although updates may be lost.                     *)
THEOREM AddressesStayUnique == Spec => []UniqueAddresses
<1>1. IInv => UniqueAddresses
  BY DEF IInv, TypeOK, UniqueAddresses, Good
<1> QED
  BY <1>1, DbInvariance, PTL

-----------------------------------------------------------------------------
(* In a well-formed version, StatIn is the client's own counter. *)
LEMMA StatInExact ==
  ASSUME NEW m, WellFormed(m), NEW c \in m.clients
  PROVE  StatIn(m, c.id) = c.stat
<1>1. (CHOOSE d \in m.clients : d.id = c.id) = c
  BY DEF WellFormed
<1> QED
  BY <1>1 DEF StatIn

LEMMA StatsStep ==
  ASSUME IInv, [Next]_vars, up, up',
         NEW c \in mem.clients, NEW d \in mem'.clients, c.id = d.id
  PROVE  c.stat <= d.stat
<1>1. WellFormed(mem) /\ mem.clients \subseteq Clients /\ c.stat \in Nat
  BY DbAssumption DEF IInv, Good, Versions, Clients
<1>2. CASE mem' = mem
  <2>1. c = d
    BY <1>1, <1>2 DEF WellFormed
  <2> QED
    BY <1>1, <2>1
<1>3. ASSUME NEW id \in Ids, Record(id) PROVE c.stat <= d.stat
  <2>1. PICK b \in mem.clients :
          d = IF b.id = id
              THEN [id |-> b.id, name |-> b.name, ip |-> b.ip, enabled |-> b.enabled,
                    stat |-> b.stat + 1]
              ELSE b
    BY <1>3 DEF Record, Counted
  <2>2. b.id = d.id
    BY <2>1
  <2>3. b = c
    BY <1>1, <2>2 DEF WellFormed
  <2> QED
    BY <1>1, <2>1, <2>3
<1>4. ASSUME ReloadMerge PROVE c.stat <= d.stat
  <2>1. CASE ~ Changed(mem, reload)
    BY <1>4, <2>1, <1>2 DEF ReloadMerge
  <2>2. CASE Changed(mem, reload)
    <3>1. PICK b \in reload.clients :
            d = IF b.id \in IdsOf(mem)
                THEN [id |-> b.id, name |-> b.name, ip |-> b.ip, enabled |-> b.enabled,
                      stat |-> StatIn(mem, b.id)]
                ELSE b
      BY <1>4, <2>2 DEF ReloadMerge, Merged
    <3>2. b.id = c.id /\ c.id \in IdsOf(mem)
      BY <3>1 DEF IdsOf
    <3>3. d.stat = c.stat
      BY <1>1, <3>1, <3>2, StatInExact
    <3> QED
      BY <1>1, <3>3
  <2> QED
    BY <2>1, <2>2
<1>5. ASSUME NEW p \in Procs, Request(p) \/ Step(p) PROVE mem' = mem
  BY <1>5 DEF Request, CliAdd, CliRemove, PanelDelete, PanelToggle, PanelRename,
              Step, OpenTmp, OpenJson, Write, Rename, Restart, server
<1>6. ASSUME Start \/ FlushOpen \/ FlushWrite \/ FlushRename \/ ReloadRead \/ UNCHANGED vars
      PROVE  mem' = mem
  BY <1>6 DEF Start, FlushOpen, FlushWrite, FlushRename, ReloadRead, vars
<1> QED
  BY <1>2, <1>3, <1>4, <1>5, <1>6 DEF Next

(* StatsNeverLost: no reload of client_db.rs takes back traffic a client   *)
(* that stays registered was charged with while the server runs.           *)
THEOREM StatsNeverLost == Spec => StatsKept
<1>1. IInv /\ [Next]_vars =>
        [up /\ up' => \A c \in mem.clients, d \in mem'.clients :
                        c.id = d.id => c.stat <= d.stat]_vars
  BY StatsStep
<1> QED
  BY <1>1, DbInvariance, PTL DEF Spec, StatsKept
=============================================================================
