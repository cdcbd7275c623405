--------------------------- MODULE SessionWindow ---------------------------
(***************************************************************************)
(* How the server recognises the datagrams of one session and protects it  *)
(* against duplicates: Session and the tag lookups of SessionManager       *)
(* (aivpn-server/src/session.rs) with the part of Gateway::handle_packet   *)
(* (aivpn-server/src/gateway.rs) that uses them.                           *)
(*                                                                         *)
(* A datagram carries no counter, only a tag: a keyed hash of its counter  *)
(* and of the sender's time window.  The session keeps precomputed tags    *)
(* around a base counter (expected_tags) for one time window and, until    *)
(* the ratchet, the first tags of the ratcheted key.  What is precomputed  *)
(* is a range of counters, so the model keeps the base and the time        *)
(* window and not the tags.                                                *)
(*                                                                         *)
(* The network may lose, reorder and duplicate datagrams.  The receive     *)
(* task hands each one to a worker chosen by an address, so the datagrams  *)
(* of a session can be at two workers once its client has changed          *)
(* endpoint.  handle_packet locks the session several times; what happens  *)
(* under one lock is one step of a worker.  tag_map is brought up to date  *)
(* in the step that changes the tags it maps.                              *)
(***************************************************************************)
EXTENDS Integers

CONSTANTS
  TagWindow,      \* TAG_WINDOW_SIZE, 256 in the code
  RefreshEvery,   \* counters between two refreshes of the tags, 64
  RecoveryRange,  \* RECOVERY_RANGE, 65536
  Workers,        \* receive workers, 2 to 16 in the code
  Endpoints,      \* source addresses of the client
  IpOf,           \* the IP address of an endpoint
  WorkerOf,       \* the worker that an endpoint's shard key selects
  Home,           \* the endpoint of the client's first datagram
  MaxInit,        \* bound: the client sends counters 0 .. MaxInit of key 0
  MaxCtr,         \* bound: and 0 .. MaxCtr of key 1
  MaxTw,          \* bound: number of time windows that pass
  MaxMoves        \* bound: number of times the client changes endpoint

ASSUME SessionAssumption ==
  /\ TagWindow \in Nat \ {0}
  /\ RefreshEvery \in 1 .. TagWindow
  /\ RecoveryRange \in Nat \ {0}
  /\ MaxCtr \in Nat
  /\ MaxInit \in 0 .. MaxCtr
  /\ MaxTw \in Nat
  /\ MaxMoves \in Nat
  /\ WorkerOf \in [Endpoints -> Workers]
  /\ Home \in Endpoints

Ctrs     == 0 .. MaxCtr
Tws      == 0 .. MaxTw
BitRange == 0 .. (TagWindow - 1)

(* Key 0 is the initial key, key 1 the ratcheted one.  Before the ratchet  *)
(* handle_packet skips 32 bytes for the client's ephemeral key in every    *)
(* datagram of TAG_SIZE + mdh_len + 32 + 16 bytes or more: one that embeds *)
(* no such key is "misparsed", an init retry or a short one is "readable". *)
Datagrams == [key : {0, 1}, ctr : Ctrs, tw : Tws,
              kind : {"readable", "misparsed"}, src : Endpoints]

(* What a worker does: nothing, or the step of handle_packet it is at with *)
(* datagram p; rat is is_ratcheted_tag.  A queue holds one datagram.       *)
Idle  == [step |-> "idle"]
Steps == {"queued", "search", "recover", "decrypt", "ratchet", "mark"}
Jobs  == {Idle} \cup [step : Steps, p : Datagrams, rat : BOOLEAN]

VARIABLES
  key,         \* keys of the session; is_ratcheted is key = 1
  counter,     \* highest validated counter
  base,        \* tag_window_base
  expTw,       \* time window of expected_tags
  ratTw,       \* time window of ratcheted_expected_tags
  ratInMap,    \* the ratcheted tags are in tag_map
  bitmap,      \* received_bitmap
  addr,        \* client_addr of the session
  job,         \* what each worker is doing
  cliKey, cliCounter,   \* outbound key and counter of the client
  cliAddr,     \* the endpoint the client sends from
  moves,       \* how often the client changed endpoint
  now,         \* current time window of both machines
  uplink,      \* every datagram the client has sent
  delivered,   \* history: the <<key, counter>> pairs processed
  exact        \* history: since the last ratchet no recovery moved the
               \* counter and no datagram of another key was marked

tags     == <<base, expTw, ratTw, ratInMap>>
session  == <<key, counter, tags, bitmap, addr>>
client   == <<cliKey, cliCounter, cliAddr, moves, uplink>>
sessVars == <<session, job, client, now, delivered, exact>>

SessTypeOK ==
  /\ key \in {0, 1} /\ cliKey \in {0, 1}
  /\ counter \in Ctrs /\ base \in Ctrs
  /\ expTw \in Tws /\ ratTw \in Tws /\ now \in Tws
  /\ ratInMap \in BOOLEAN /\ exact \in BOOLEAN
  /\ bitmap \in SUBSET BitRange
  /\ addr \in Endpoints /\ cliAddr \in Endpoints
  /\ moves \in 0 .. MaxMoves
  /\ cliCounter \in 0 .. (MaxCtr + 1)
  /\ uplink \in SUBSET Datagrams
  /\ delivered \in SUBSET ({0, 1} \X Ctrs)
  /\ job \in [Workers -> Jobs]

(* create_session has just run for the client's first datagram, an init    *)
(* from its home endpoint, whose worker is about to decrypt it.            *)
FirstInit == [key |-> 0, ctr |-> 0, tw |-> 0, kind |-> "readable", src |-> Home]

SessInit ==
  /\ key = 0 /\ counter = 0 /\ base = 0
  /\ expTw = 0 /\ ratTw = 0 /\ ratInMap = TRUE
  /\ bitmap = {}
  /\ addr = Home /\ cliAddr = Home /\ moves = 0
  /\ cliKey = 0 /\ cliCounter = 1
  /\ now = 0
  /\ uplink = {FirstInit}
  /\ job = [w \in Workers |->
              IF w = WorkerOf[Home]
              THEN [step |-> "decrypt", p |-> FirstInit, rat |-> FALSE]
              ELSE Idle]
  /\ delivered = {} /\ exact = TRUE

-----------------------------------------------------------------------------
(* The client sends an init retry, a keepalive or tunnelled data. *)
ClientSend(kind) ==
  /\ cliCounter <= IF cliKey = 0 THEN MaxInit ELSE MaxCtr
  /\ cliKey = 1 => kind = "readable"
  /\ uplink' = uplink \cup {[key |-> cliKey, ctr |-> cliCounter, tw |-> now,
                             kind |-> kind, src |-> cliAddr]}
  /\ cliCounter' = cliCounter + 1
  /\ UNCHANGED <<session, job, cliKey, cliAddr, moves, now, delivered, exact>>

(* The client handles the ServerHello: new key, counters from 0. *)
ClientRatchets ==
  /\ cliKey = 0
  /\ cliKey' = 1
  /\ cliCounter' = 0
  /\ UNCHANGED <<session, job, cliAddr, moves, uplink, now, delivered, exact>>

(* The client's network or its NAT gives it another endpoint. *)
ClientMoves(e) ==
  /\ moves < MaxMoves
  /\ e # cliAddr
  /\ cliAddr' = e
  /\ moves' = moves + 1
  /\ UNCHANGED <<session, job, cliKey, cliCounter, uplink, now, delivered, exact>>

SessTick ==
  /\ now < MaxTw
  /\ now' = now + 1
  /\ UNCHANGED <<session, job, client, delivered, exact>>

-----------------------------------------------------------------------------
(* update_tag_window: the counters around b. *)
Around(b) == (b - (TagWindow - 1)) .. (b + (TagWindow - 1))

Adjacent(tw) == tw = now - 1 \/ tw = now + 1

(* p's tag is one of expected_tags precomputed at b in time window tw. *)
Expected(p, b, tw) == p.key = key /\ p.tw = tw /\ p.ctr \in Around(b)

(* p's tag is one of ratcheted_expected_tags precomputed in tw. *)
RatchetExpected(p, tw) ==
  key = 0 /\ p.key = 1 /\ p.tw = tw /\ p.ctr < TagWindow

(* get_session_by_tag finds the session. *)
InTagMap(p) == Expected(p, base, expTw) \/ (ratInMap /\ RatchetExpected(p, ratTw))

(* Mutant of IsReplay: the highest counter itself is not checked. *)
IsReplayBelowHighest(c) ==
  c < counter /\ counter - c < TagWindow /\ (counter - c) \in bitmap

(* The is_replay closure of validate_tag. *)
IsReplay(c) == c <= counter /\ counter - c < TagWindow /\ (counter - c) \in bitmap

(* validate_tag with tags precomputed at b and tw, ratcheted ones at rtw.  *)
ValidCurrent(p, b, tw) ==
  /\ Expected(p, b, tw) \/ (p.key = key /\ Adjacent(p.tw) /\ p.ctr \in Around(counter))
  /\ ~ IsReplay(p.ctr)

ValidRatcheted(p, rtw) ==
  RatchetExpected(p, rtw) \/ (RatchetExpected(p, p.tw) /\ Adjacent(p.tw))

(* One of the candidates of recover_session_by_tag. *)
Recoverable(p) ==
  /\ IpOf[p.src] = IpOf[addr]
  /\ p.key = key
  /\ p.tw \in (now - 1) .. (now + 1)
  /\ p.ctr \in counter .. (counter + RecoveryRange - 1)

-----------------------------------------------------------------------------
(* worker_index_for_packet: by the session's address if the tag is known,  *)
(* else by the datagram's own.                                             *)
WorkerIndex(p) == WorkerOf[IF InTagMap(p) THEN addr ELSE p.src]

(* process_packets_concurrent queues datagram p for its worker. *)
Dispatch(p) ==
  /\ job[WorkerIndex(p)] = Idle
  /\ job' = [job EXCEPT ![WorkerIndex(p)] =
               [step |-> "queued", p |-> p, rat |-> FALSE]]
  /\ UNCHANGED <<session, client, now, delivered, exact>>

At(w, step) == job[w].step = step

(* The worker goes on, with a tag of the current or of the ratcheted key. *)
GoTo(w, step, rat) ==
  job' = [job EXCEPT ![w] = [step |-> step, p |-> @.p, rat |-> rat]]

(* handle_packet returns. *)
Done(w) == job' = [job EXCEPT ![w] = Idle]

(* What a worker's step leaves alone when it only reads the session. *)
OnlyReads == UNCHANGED <<session, client, now, delivered, exact>>

(* get_session_by_tag finds the tag, and validate_tag accepts it or not. *)
LookupFast(w) ==
  /\ At(w, "queued")
  /\ InTagMap(job[w].p)
  /\ \/ ValidCurrent(job[w].p, base, expTw) /\ GoTo(w, "decrypt", FALSE)
     \/ /\ ~ ValidCurrent(job[w].p, base, expTw)
        /\ ValidRatcheted(job[w].p, ratTw)
        /\ GoTo(w, "decrypt", TRUE)
     \/ /\ ~ ValidCurrent(job[w].p, base, expTw)
        /\ ~ ValidRatcheted(job[w].p, ratTw)
        /\ Done(w)
  /\ OnlyReads

(* refresh_and_find_by_tag: all tags move to the current time window and   *)
(* the current counter, then validate_tag is asked; when it refuses,       *)
(* recover_session_by_tag comes next.                                      *)
RefreshedRatTw == IF key = 0 THEN now ELSE ratTw

LookupRefreshing(w) ==
  /\ At(w, "queued")
  /\ ~ InTagMap(job[w].p)
  /\ base' = counter /\ expTw' = now
  /\ ratTw' = RefreshedRatTw /\ ratInMap' = TRUE
  /\ \/ ValidCurrent(job[w].p, counter, now) /\ GoTo(w, "decrypt", FALSE)
     \/ /\ ~ ValidCurrent(job[w].p, counter, now)
        /\ ValidRatcheted(job[w].p, RefreshedRatTw)
        /\ GoTo(w, "decrypt", TRUE)
     \/ /\ ~ ValidCurrent(job[w].p, counter, now)
        /\ ~ ValidRatcheted(job[w].p, RefreshedRatTw)
        /\ GoTo(w, "search", FALSE)
  /\ UNCHANGED <<key, counter, bitmap, addr, client, now, delivered, exact>>

(* recover_session_by_tag looks for the counter and gives up the lock.     *)
(* When it finds none the datagram goes on to the handshake path, which    *)
(* does not touch this session.                                            *)
Search(w) ==
  /\ At(w, "search")
  /\ \/ Recoverable(job[w].p) /\ GoTo(w, "recover", FALSE)
     \/ ~ Recoverable(job[w].p) /\ Done(w)
  /\ OnlyReads

(* It takes the lock again: the counter becomes the datagram's, the bitmap *)
(* stays where it was, and only expected_tags go back into tag_map.        *)
Recover(w) ==
  /\ At(w, "recover")
  /\ counter' = job[w].p.ctr
  /\ base' = job[w].p.ctr /\ expTw' = now
  /\ ratInMap' = FALSE
  /\ exact' = (exact /\ job[w].p.ctr = counter)
  /\ GoTo(w, "decrypt", FALSE)
  /\ UNCHANGED <<key, ratTw, bitmap, addr, client, now, delivered>>

(* decrypt_payload, with the keys the tag stands for as they are now. *)
Decrypts(p, rat) ==
  /\ p.kind = "readable"
  /\ IF rat THEN key = 0 ELSE p.key = key

Decrypt(w) ==
  /\ At(w, "decrypt")
  /\ \/ /\ Decrypts(job[w].p, job[w].rat)
        /\ GoTo(w, IF job[w].rat THEN "ratchet" ELSE "mark", job[w].rat)
     \/ ~ Decrypts(job[w].p, job[w].rat) /\ Done(w)
  /\ OnlyReads

(* Mutant of Ratchet: the bitmap of the old key is kept. *)
RatchetKeepsBitmap(w) ==
  /\ At(w, "ratchet")
  /\ IF key = 0
     THEN /\ key' = 1 /\ counter' = 0 /\ base' = 0
          /\ expTw' = ratTw /\ exact' = TRUE
          /\ UNCHANGED bitmap
     ELSE UNCHANGED <<key, counter, base, expTw, bitmap, exact>>
  /\ ratInMap' = TRUE
  /\ GoTo(w, "mark", TRUE)
  /\ UNCHANGED <<ratTw, addr, client, now, delivered>>

(* complete_session_ratchet, without effect the second time: the ratcheted *)
(* tags become the expected ones, and the window starts again.             *)
Ratchet(w) ==
  /\ At(w, "ratchet")
  /\ IF key = 0
     THEN /\ key' = 1 /\ counter' = 0 /\ base' = 0
          /\ expTw' = ratTw /\ exact' = TRUE
          /\ bitmap' = {}
     ELSE UNCHANGED <<key, counter, base, expTw, bitmap, exact>>
  /\ ratInMap' = TRUE
  /\ GoTo(w, "mark", TRUE)
  /\ UNCHANGED <<ratTw, addr, client, now, delivered>>

(* Mutant of MarkBits: bits that leave the window are kept. *)
MarkBitsUnmasked(c, h, bs) ==
  IF c > h THEN {b + (c - h) : b \in bs} \cup {0}
  ELSE IF h - c < TagWindow THEN bs \cup {h - c} ELSE bs

(* Bitmap after mark_tag_received(c) on highest counter h and bits bs. *)
MarkBits(c, h, bs) ==
  IF c > h THEN ({b + (c - h) : b \in bs} \cap BitRange) \cup {0}
  ELSE IF h - c < TagWindow THEN bs \cup {h - c} ELSE bs

MaxOf(a, b) == IF a > b THEN a ELSE b

(* Mutant of NeedsRefresh: one counter too late. *)
NeedsRefreshLate(c) == c - base > RefreshEvery

(* refresh_tags in handle_packet. *)
NeedsRefresh(c) == c - base >= RefreshEvery

(* The update of the session: mark, follow the client to its endpoint, and *)
(* refresh the tags when their base is RefreshEvery behind.                *)
MarkReceived(w) ==
  LET p == job[w].p IN
  /\ At(w, "mark")
  /\ counter' = MaxOf(p.ctr, counter)
  /\ bitmap' = MarkBits(p.ctr, counter, bitmap)
  /\ addr' = p.src
  /\ IF NeedsRefresh(p.ctr)
     THEN base' = MaxOf(p.ctr, counter) /\ expTw' = now /\ ratInMap' = TRUE
     ELSE UNCHANGED <<base, expTw, ratInMap>>
  /\ delivered' = delivered \cup {<<p.key, p.ctr>>}
  /\ exact' = (exact /\ p.key = key)
  /\ Done(w)
  /\ UNCHANGED <<key, ratTw, client, now>>

(* handle_packet, one lock at a time. *)
HandlePacket(w) ==
  \/ LookupFast(w) \/ LookupRefreshing(w) \/ Search(w) \/ Recover(w)
  \/ Decrypt(w) \/ Ratchet(w) \/ MarkReceived(w)

SessNext ==
  \/ \E kind \in {"readable", "misparsed"} : ClientSend(kind)
  \/ ClientRatchets
  \/ \E e \in Endpoints : ClientMoves(e)
  \/ SessTick
  \/ \E p \in uplink : Dispatch(p)
  \/ \E w \in Workers : HandlePacket(w)

SessSpec == SessInit /\ [][SessNext]_sessVars

-----------------------------------------------------------------------------
(* ReplayRefused: as long as the bitmap is exact, validate_tag refuses     *)
(* every processed counter of the session's key among the last TagWindow,  *)
(* in any time window, with the tags as they are and refreshed, whatever   *)
(* the workers are doing (session.rs validate_tag, battle_tests.rs "Second *)
(* validation (replay) must fail").                                        *)
ReplayRefused ==
  \A p \in uplink :
    /\ exact
    /\ <<key, p.ctr>> \in delivered
    /\ counter - p.ctr < TagWindow
    => ~ ValidCurrent(p, base, expTw) /\ ~ ValidCurrent(p, counter, now)

(* NoReplay: no <<key, counter>> pair is processed twice, by way of any    *)
(* lookup and by any two workers (session.rs "Received tag bitmap (for     *)
(* anti-replay)", battle_tests.rs "Replay must be rejected").  The init    *)
(* datagram <<0, 0>> is left out: the handshake does not look at its       *)
(* payload.                                                                *)
NoReplay ==
  [][\A w \in Workers :
       MarkReceived(w) =>
         <<job[w].p.key, job[w].p.ctr>> \notin delivered \ {<<0, 0>>}]_sessVars

(* FastPathHeadroom: the next TagWindow - RefreshEvery counters are always *)
(* among the precomputed ones (gateway.rs, "refreshing every 64 packets    *)
(* keeps enough headroom").                                                *)
FastPathHeadroom ==
  \A c \in Ctrs :
    counter < c /\ c <= counter + (TagWindow - RefreshEvery) => c \in Around(base)

(* FreshAccepted: as long as the bitmap is exact, a datagram of the        *)
(* session's key that was never processed, is near the highest counter and *)
(* carries a near time window is recognised, whatever window the tags were *)
(* computed in (session.rs validate_tag, refresh_and_find_by_tag).         *)
FreshAccepted ==
  \A p \in uplink :
    /\ exact
    /\ p.key = key
    /\ <<p.key, p.ctr>> \notin delivered
    /\ p.ctr \in Around(counter)
    /\ p.tw \in (now - 1) .. (now + 1)
    => IF InTagMap(p) THEN ValidCurrent(p, base, expTw)
                      ELSE ValidCurrent(p, counter, now)

(* BitmapExact: the bitmap holds exactly the processed counters of the     *)
(* session's key among the last TagWindow, and no processed counter is     *)
(* above the highest, until a recovery moves the counter under it or a     *)
(* datagram is marked after the key it was decrypted with was replaced     *)
(* (session.rs mark_tag_received, complete_session_ratchet).               *)
BitmapExact ==
  exact =>
    \A c \in Ctrs :
      /\ <<key, c>> \in delivered => c <= counter
      /\ c <= counter /\ counter - c < TagWindow =>
           ((counter - c) \in bitmap <=> <<key, c>> \in delivered)

(* BaseBehind: the tags' base is never ahead of the highest counter, and   *)
(* less than RefreshEvery behind it (gateway.rs refresh_tags).             *)
BaseBehind == base <= counter /\ counter - base < RefreshEvery

(* RatchetFirst: nothing is processed, or about to be marked, under the    *)
(* ratcheted key before the session has switched to it (gateway.rs         *)
(* "Complete PFS ratchet only when the CLIENT proves it has ratcheted").   *)
RatchetFirst ==
  key = 0 =>
    /\ \A c \in Ctrs : <<1, c>> \notin delivered
    /\ \A w \in Workers : At(w, "mark") => job[w].p.key = 0

(* SessInv: the parts above hold together in every state of the session;   *)
(* the duplicate check, the headroom and the acceptance of fresh datagrams *)
(* follow from it (session.rs, gateway.rs handle_packet).                  *)
SessInv == SessTypeOK /\ BitmapExact /\ BaseBehind /\ RatchetFirst
=============================================================================
