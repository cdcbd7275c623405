------------------------------ MODULE ClientDb ------------------------------
(***************************************************************************)
(* The registered clients: ClientDatabase of aivpn-server/src/client_db.rs *)
(* with the processes that share its file, clients.json.                   *)
(*                                                                         *)
(* The running server keeps the database in memory, writes it out every    *)
(* 300 s (flush_stats) and reads it in every 10 s (reload_if_changed, both *)
(* tasks of gateway.rs run).  Each shade-server --add-client or            *)
(* --remove-client is a process of its own that loads the file, changes    *)
(* its copy and saves it (aivpn-server/src/main.rs), and the admin panel   *)
(* rewrites the file in place and restarts the server                      *)
(* (shadevpn-admin-backend/main.py, sync.py).                              *)
(*                                                                         *)
(* Files are modelled with inodes: opening for writing truncates the inode *)
(* the name refers to, renaming moves the name and not the open inode.     *)
(***************************************************************************)
EXTENDS Integers, FiniteSets

CONSTANTS
  Procs,      \* command-line invocations and panel requests under way
  Names,      \* client names
  Ops,        \* what they do: some of CliOps and PanelOps
  MaxOctet,   \* last VPN IP octet, 254 in the code
  MaxIds,     \* bound: clients ever added (ids are random)
  MaxStat,    \* bound: traffic recorded per client
  None

CliOps   == {"add", "remove"}
PanelOps == {"create", "delete", "rename", "toggle"}
InPlace  == {"delete", "rename", "toggle"}   \* through write_clients_db

ASSUME DbAssumption ==
  /\ Ops \subseteq CliOps \cup PanelOps
  /\ MaxOctet \in Nat /\ MaxIds \in Nat /\ MaxStat \in Nat
  /\ None \notin Nat
  /\ IsFiniteSet(Procs)

Torn    == [torn |-> TRUE]   \* an empty or half-written file: does not parse
Octets  == 1 .. MaxOctet
Ids     == 1 .. MaxIds
Inodes  == 1 .. (Cardinality(Procs) + 3)

Clients  == [id : Ids, name : Names, ip : Octets, enabled : BOOLEAN, stat : 0 .. MaxStat]
Versions == [clients : SUBSET Clients, next : 1 .. (MaxOctet + 1)]

(* ClientDbFile::default *)
EmptyDb == [clients |-> {}, next |-> 1]

VARIABLES
  mem,      \* the server's data
  up,       \* the server is running
  json,     \* inode of clients.json, or None
  tmp,      \* inode of clients.tmp, or None
  content,  \* content of each inode
  proc,     \* per process: step, operation, its copy of the database, open inode
  flush,    \* the server's save: step and open inode
  reload,   \* what reload_from_disk has read and not merged yet, or None
  nextId    \* next client id

files  == <<json, tmp, content>>
server == <<mem, up, flush, reload>>
vars   == <<mem, up, json, tmp, content, proc, flush, reload, nextId>>

Idle == [pc |-> "idle", op |-> "add", id |-> None, data |-> EmptyDb, fd |-> None]

Restarting == [pc |-> "restart", op |-> "create", id |-> None, data |-> EmptyDb, fd |-> None]

TypeOK ==
  /\ mem \in Versions
  /\ up \in BOOLEAN
  /\ json \in Inodes \cup {None} /\ tmp \in Inodes \cup {None}
  /\ content \in [Inodes -> Versions \cup {Torn}]
  /\ proc \in [Procs -> [pc : {"idle", "open", "write", "rename", "restart"},
                         op : CliOps \cup PanelOps, id : Ids \cup {None},
                         data : Versions, fd : Inodes \cup {None}]]
  /\ flush \in [pc : {"idle", "write", "rename"}, fd : Inodes \cup {None}]
  /\ reload \in Versions \cup {None}
  /\ nextId \in 1 .. (MaxIds + 1)

NoFlush == [pc |-> "idle", fd |-> None]

Init ==
  /\ mem = EmptyDb /\ up = TRUE
  /\ json = None /\ tmp = None
  /\ content = [i \in Inodes |-> Torn]
  /\ proc = [p \in Procs |-> Idle]
  /\ flush = NoFlush
  /\ reload = None
  /\ nextId = 1

-----------------------------------------------------------------------------
(* ClientDatabase::load, read_clients_db: a missing file is an empty       *)
(* database, one that does not parse is an error.                          *)
Readable == json # None => content[json] # Torn
Disk     == IF json = None THEN EmptyDb ELSE content[json]

IdsOf(v) == {c.id : c \in v.clients}

OpenInodes == {proc[p].fd : p \in Procs} \cup {flush.fd}
FreeInode  == CHOOSE i \in Inodes : i \notin OpenInodes \cup {json, tmp}

(* The inode a name refers to once it is open for writing. *)
Openable(name) == IF name = None THEN {FreeInode} \cap Inodes ELSE {name}

Begin(p, op, id, data) ==
  proc' = [proc EXCEPT ![p] =
             [pc |-> "open", op |-> op, id |-> id, data |-> data, fd |-> None]]

(* --add-client, run from a shell or by the panel's create_client: load,   *)
(* add_client up to the save. A name in use, no octet left or an           *)
(* unreadable file end the process without any effect.                     *)
NewClient(n, id, v) ==
  [id |-> id, name |-> n, ip |-> v.next, enabled |-> TRUE, stat |-> 0]

(* Mutant of WithNewClient: the octet is not used up. *)
WithNewClientSameOctet(n, id, v) ==
  [clients |-> v.clients \cup {NewClient(n, id, v)}, next |-> v.next]

WithNewClient(n, id, v) ==
  [clients |-> v.clients \cup {NewClient(n, id, v)}, next |-> v.next + 1]

CliAdd(p, op, n) ==
  /\ op \in Ops \cap {"add", "create"}
  /\ proc[p].pc = "idle"
  /\ Readable
  /\ \A c \in Disk.clients : c.name # n
  /\ Disk.next <= MaxOctet
  /\ nextId <= MaxIds
  /\ Begin(p, op, None, WithNewClient(n, nextId, Disk))
  /\ nextId' = nextId + 1
  /\ UNCHANGED <<server, files>>

(* --remove-client: load, remove_client up to the save. The octet is not   *)
(* given back.                                                             *)
WithoutClient(id, v) == [clients |-> {c \in v.clients : c.id # id}, next |-> v.next]

CliRemove(p, id) ==
  /\ "remove" \in Ops
  /\ proc[p].pc = "idle"
  /\ Readable
  /\ id \in IdsOf(Disk)
  /\ Begin(p, "remove", id, WithoutClient(id, Disk))
  /\ UNCHANGED <<server, files, nextId>>

(* The panel's toggle_client, update_client and delete_client: read the    *)
(* file and change the client, if it is there.                             *)
WithEnabled(id, on, v) ==
  [clients |-> {IF c.id = id
                THEN [id |-> c.id, name |-> c.name, ip |-> c.ip, enabled |-> on, stat |-> c.stat]
                ELSE c : c \in v.clients},
   next |-> v.next]

WithName(id, n, v) ==
  [clients |-> {IF c.id = id
                THEN [id |-> c.id, name |-> n, ip |-> c.ip, enabled |-> c.enabled, stat |-> c.stat]
                ELSE c : c \in v.clients},
   next |-> v.next]

Panel(p, op) == op \in Ops /\ proc[p].pc = "idle" /\ Readable

PanelToggle(p, id, on) ==
  /\ Panel(p, "toggle")
  /\ Begin(p, "toggle", id, WithEnabled(id, on, Disk))
  /\ UNCHANGED <<server, files, nextId>>

(* update_client leaves the file and the server alone if the client is not *)
(* in the file.                                                            *)
PanelRename(p, id, n) ==
  /\ Panel(p, "rename")
  /\ id \in IdsOf(Disk)
  /\ Begin(p, "rename", id, WithName(id, n, Disk))
  /\ UNCHANGED <<server, files, nextId>>

PanelDelete(p, id) ==
  /\ Panel(p, "delete")
  /\ Begin(p, "delete", id, WithoutClient(id, Disk))
  /\ UNCHANGED <<server, files, nextId>>

(* save and write_clients_db open the file: clients.tmp, which every       *)
(* process shares, or clients.json itself.                                 *)
OpenTmp(p) ==
  /\ proc[p].pc = "open"
  /\ proc[p].op \notin InPlace
  /\ \E i \in Openable(tmp) :
       /\ tmp' = i
       /\ content' = [content EXCEPT ![i] = Torn]
       /\ proc' = [proc EXCEPT ![p].pc = "write", ![p].fd = i]
  /\ UNCHANGED <<server, json, nextId>>

OpenJson(p) ==
  /\ proc[p].pc = "open"
  /\ proc[p].op \in InPlace
  /\ \E i \in Openable(json) :
       /\ json' = i
       /\ content' = [content EXCEPT ![i] = Torn]
       /\ proc' = [proc EXCEPT ![p].pc = "write", ![p].fd = i]
  /\ UNCHANGED <<server, tmp, nextId>>

(* What inode i may hold once v is written and the file closed. An inode   *)
(* without a name disappears; writing over what another process has        *)
(* written since the truncation can leave its tail behind.                 *)
Written(i, v) ==
  IF i \notin {json, tmp} THEN {Torn}
  ELSE IF content[i] = Torn THEN {v}
  ELSE {v, Torn}

Write(p) ==
  /\ proc[p].pc = "write"
  /\ \E c \in Written(proc[p].fd, proc[p].data) :
       content' = [content EXCEPT ![proc[p].fd] = c]
  /\ proc' = [proc EXCEPT ![p].pc = IF proc[p].op \in InPlace
                                    THEN "restart" ELSE "rename",
                          ![p].fd = None]
  /\ UNCHANGED <<server, json, tmp, nextId>>

(* fs::rename of clients.tmp to clients.json. *)
MoveTmp ==
  /\ json' = tmp
  /\ tmp' = None
  /\ content' = [i \in Inodes |-> IF i = json THEN Torn ELSE content[i]]

(* The end of save, which fails when there is no clients.tmp any more;     *)
(* create_client goes on if it does not.                                   *)
Rename(p) ==
  /\ proc[p].pc = "rename"
  /\ IF tmp = None THEN UNCHANGED files ELSE MoveTmp
  /\ proc' = [proc EXCEPT ![p] = IF proc[p].op = "create" /\ tmp # None
                                 THEN Restarting ELSE Idle]
  /\ UNCHANGED <<server, nextId>>

(* systemctl restart: the server dies wherever it is ... *)
Restart(p) ==
  /\ proc[p].pc = "restart"
  /\ up' = FALSE
  /\ mem' = EmptyDb
  /\ flush' = NoFlush
  /\ reload' = None
  /\ proc' = [proc EXCEPT ![p] = Idle]
  /\ UNCHANGED <<files, nextId>>

(* ... and loads the database when it comes up again. *)
Start ==
  /\ ~ up
  /\ Readable
  /\ up' = TRUE
  /\ mem' = Disk
  /\ UNCHANGED <<files, proc, flush, reload, nextId>>

-----------------------------------------------------------------------------
(* flush_stats: save holds the read lock to its end, so data stands still. *)
FlushOpen ==
  /\ up /\ flush.pc = "idle"
  /\ \E i \in Openable(tmp) :
       /\ tmp' = i
       /\ content' = [content EXCEPT ![i] = Torn]
       /\ flush' = [pc |-> "write", fd |-> i]
  /\ UNCHANGED <<mem, up, json, proc, reload, nextId>>

FlushWrite ==
  /\ flush.pc = "write"
  /\ \E c \in Written(flush.fd, mem) : content' = [content EXCEPT ![flush.fd] = c]
  /\ flush' = [pc |-> "rename", fd |-> None]
  /\ UNCHANGED <<mem, up, json, tmp, proc, reload, nextId>>

FlushRename ==
  /\ flush.pc = "rename"
  /\ IF tmp = None THEN UNCHANGED files ELSE MoveTmp
  /\ flush' = NoFlush
  /\ UNCHANGED <<mem, up, proc, reload, nextId>>

(* record_handshake and record_traffic *)
Counted(id, v) ==
  [clients |-> {IF c.id = id
                THEN [id |-> c.id, name |-> c.name, ip |-> c.ip, enabled |-> c.enabled,
                      stat |-> c.stat + 1]
                ELSE c : c \in v.clients},
   next |-> v.next]

Record(id) ==
  /\ up /\ flush.pc = "idle"
  /\ \E c \in mem.clients : c.id = id /\ c.stat < MaxStat
  /\ mem' = Counted(id, mem)
  /\ UNCHANGED <<up, files, proc, flush, reload, nextId>>

(* reload_from_disk reads the file before it takes the lock ... *)
ReloadRead ==
  /\ up /\ reload = None
  /\ json # None /\ content[json] # Torn
  /\ reload' = content[json]
  /\ UNCHANGED <<mem, up, files, proc, flush, nextId>>

(* Mutant of Changed: only the number of clients is compared. *)
ChangedCount(m, v) == Cardinality(IdsOf(v)) # Cardinality(IdsOf(m))

Changed(m, v) == IdsOf(v) # IdsOf(m)

StatIn(m, id) == (CHOOSE c \in m.clients : c.id = id).stat

(* Mutants of Merged: next_octet is kept, the statistics are not. *)
MergedKeepsOctet(m, v) ==
  [clients |-> {IF c.id \in IdsOf(m)
                THEN [id |-> c.id, name |-> c.name, ip |-> c.ip, enabled |-> c.enabled,
                      stat |-> StatIn(m, c.id)]
                ELSE c : c \in v.clients},
   next |-> m.next]

MergedDropsStats(m, v) == v

(* The file's clients, with the statistics in memory. *)
Merged(m, v) ==
  [clients |-> {IF c.id \in IdsOf(m)
                THEN [id |-> c.id, name |-> c.name, ip |-> c.ip, enabled |-> c.enabled,
                      stat |-> StatIn(m, c.id)]
                ELSE c : c \in v.clients},
   next |-> v.next]

(* ... and merges it if the set of ids has changed. *)
ReloadMerge ==
  /\ reload # None
  /\ flush.pc = "idle"
  /\ mem' = IF Changed(mem, reload) THEN Merged(mem, reload) ELSE mem
  /\ reload' = None
  /\ UNCHANGED <<up, files, proc, flush, nextId>>

-----------------------------------------------------------------------------
Step(p) == OpenTmp(p) \/ OpenJson(p) \/ Write(p) \/ Rename(p) \/ Restart(p)

Request(p) ==
  \/ \E n \in Names, op \in Ops : CliAdd(p, op, n)
  \/ \E id \in 1 .. (nextId - 1) :
       \/ CliRemove(p, id) \/ PanelDelete(p, id)
       \/ \E on \in BOOLEAN : PanelToggle(p, id, on)
       \/ \E n \in Names : PanelRename(p, id, n)

Next ==
  \/ \E p \in Procs : Request(p) \/ Step(p)
  \/ Start
  \/ FlushOpen \/ FlushWrite \/ FlushRename
  \/ \E id \in Ids : Record(id)
  \/ ReloadRead \/ ReloadMerge

(* The reload task runs for ever, a save or a request that has begun goes  *)
(* on, and systemd starts the server. Nothing forces a flush: its period   *)
(* is thirty times the reload's.                                           *)
Fairness ==
  /\ SF_vars(ReloadRead) /\ SF_vars(ReloadMerge)
  /\ WF_vars(FlushWrite) /\ WF_vars(FlushRename)
  /\ SF_vars(Start)
  /\ \A p \in Procs : WF_vars(Step(p))

Spec == Init /\ [][Next]_vars /\ Fairness

-----------------------------------------------------------------------------
WellFormed(v) ==
  \A c \in v.clients :
    /\ c.ip < v.next
    /\ \A d \in v.clients : c.ip = d.ip \/ c.id = d.id => c = d

(* UniqueAddresses: no two clients share a VPN IP or an id, in memory or   *)
(* in the file, whatever updates overwrite each other: each version is     *)
(* internally consistent and hands out octets above all of its own         *)
(* (client_db.rs add_client, reload_from_disk).                            *)
UniqueAddresses ==
  /\ WellFormed(mem)
  /\ json # None /\ content[json] # Torn => WellFormed(content[json])

(* The inductive invariant: every version of the database there is, in     *)
(* memory, in a file or in the hands of a process, is well formed and      *)
(* holds only ids that have been drawn.                                    *)
Good(v, n) == v \in Versions /\ WellFormed(v) /\ \A c \in v.clients : c.id < n

IInv ==
  /\ TypeOK
  /\ Good(mem, nextId)
  /\ \A i \in Inodes : content[i] = Torn \/ Good(content[i], nextId)
  /\ \A p \in Procs : Good(proc[p].data, nextId)
  /\ reload = None \/ Good(reload, nextId)
  /\ \A p \in Procs : proc[p].pc = "write" => proc[p].fd \in Inodes
  /\ flush.pc = "write" => flush.fd \in Inodes

(* StatsKept: while the server runs, a client that stays registered never  *)
(* loses traffic it was charged with (client_db.rs, "Preserves in-memory   *)
(* traffic stats for existing clients").                                   *)
StatsKept ==
  [][up /\ up' => \A c \in mem.clients, d \in mem'.clients :
                    c.id = d.id => c.stat <= d.stat]_vars

(* Client id is in clients.json. *)
OnDisk(id) == json # None /\ content[json] # Torn /\ id \in IdsOf(content[json])

(* HotReload: a client in the file reaches the running server, unless the  *)
(* file is overwritten first (gateway.rs, "pick up new clients without     *)
(* restart").                                                              *)
HotReload == \A id \in Ids : OnDisk(id) ~> (id \in IdsOf(mem) \/ ~ OnDisk(id))

(* AddedClientKept: a client in the file stays there until someone removes *)
(* it (client_db.rs, "Persistent client database"; main.rs prints "Client  *)
(* '{}' created!" after the rename).                                       *)
AddedClientKept ==
  [][\A id \in Ids : OnDisk(id) /\ Readable' /\ ~ OnDisk(id)' =>
       \E p \in Procs : proc[p].op \in {"remove", "delete"} /\ proc[p].id = id]_vars
=============================================================================
