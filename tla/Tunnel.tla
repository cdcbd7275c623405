------------------------------- MODULE Tunnel -------------------------------
(***************************************************************************)
(* One client and the server from handshake to reconnection: the UDP       *)
(* tunnel of aivpn-android-core/src/android_tunnel.rs (run_tunnel_android) *)
(* against Gateway::handle_packet of aivpn-server/src/gateway.rs.          *)
(*                                                                         *)
(* A connection has a fresh ephemeral key, so its number stands for its    *)
(* initial keys; a server session has a fresh server key, so the pair      *)
(* <<connection, session>> stands for the ratcheted keys.  Tags, windows   *)
(* and counters are the subject of SessionWindow and RecvWindow; here a    *)
(* datagram is recognised exactly when the receiver holds its keys.  The   *)
(* server handles one datagram at a time (SessionTable interleaves them).  *)
(***************************************************************************)
EXTENDS Integers, Sequences

CONSTANTS
  Downlink,    \* hosts keep sending packets to the client's VPN IP
  MaxConn,     \* bound: connections the client opens
  MaxSessions, \* bound: sessions the server creates
  MaxInFlight, \* bound: datagrams in flight when a timer adds one
  MaxFaults    \* bound: datagrams lost or overtaking others, restarts, rekeys

ASSUME TunnelAssumption ==
  /\ Downlink \in BOOLEAN
  /\ {MaxConn, MaxSessions, MaxInFlight} \subseteq Nat \ {0}
  /\ MaxFaults \in Nat

Conns   == 1 .. MaxConn
Ids     == 1 .. MaxSessions
Initial == 0    \* in place of a session: the initial keys

(* init: handshake with the ephemeral key; data: tunnelled packets and a   *)
(* keepalive; hello: ServerHello; ack: answer to a keepalive; push: packet *)
(* from the TUN device.  sid is the session whose ratcheted keys protect   *)
(* it, and the new session a hello announces.                              *)
Datagrams == [kind : {"init", "data", "hello", "ack", "push"}, conn : Conns,
              sid : {Initial} \cup Ids]

NoSession == [conn |-> 0, id |-> 0, ratcheted |-> FALSE]

VARIABLES
  phase,       \* client: "idle", "hello" (waits for ServerHello) or "up"
  conn,        \* client: current connection, 0 before the first
  sid,         \* client: session of its ratcheted keys
  unanswered,  \* client: data sent since the last datagram received, up to 2
  warm,        \* client: the last handshake datagram met no cooldown
  srv,         \* server: the client's session
  nextId,      \* server: next session
  cool,        \* server: handshake cooldown of the client's address
  upq, downq,  \* datagrams in flight
  faults       \* faults so far

client == <<phase, conn, sid, unanswered, warm>>
server == <<srv, nextId, cool>>
vars   == <<phase, conn, sid, unanswered, warm, srv, nextId, cool, upq, downq, faults>>

TypeOK ==
  /\ phase \in {"idle", "hello", "up"}
  /\ conn \in 0 .. MaxConn
  /\ sid \in {Initial} \cup Ids
  /\ unanswered \in 0 .. 2
  /\ {warm, cool} \subseteq BOOLEAN
  /\ srv \in [conn : 0 .. MaxConn, id : 0 .. MaxSessions, ratcheted : BOOLEAN]
  /\ nextId \in 1 .. (MaxSessions + 1)
  /\ upq \in Seq(Datagrams) /\ downq \in Seq(Datagrams)
  /\ faults \in 0 .. MaxFaults

Init ==
  /\ phase = "idle" /\ conn = 0 /\ sid = Initial
  /\ unanswered = 0 /\ warm = FALSE
  /\ srv = NoSession /\ nextId = 1 /\ cool = FALSE
  /\ upq = <<>> /\ downq = <<>>
  /\ faults = 0

-----------------------------------------------------------------------------
Msg(kind, c, s) == [kind |-> kind, conn |-> c, sid |-> s]
Without(q, i)   == SubSeq(q, 1, i - 1) \o SubSeq(q, i + 1, Len(q))

(* UDP does not keep order: any datagram in flight may be the next to      *)
(* arrive.  One that overtakes others counts as a fault.                   *)
Arrives(i) ==
  \/ i = 1 /\ UNCHANGED faults
  \/ i # 1 /\ faults < MaxFaults /\ faults' = faults + 1

NothingInFlight   ==
  /\ \A i \in DOMAIN upq : upq[i].conn # conn
  /\ \A i \in DOMAIN downq : downq[i].conn # conn
Roomy             == Len(upq) + Len(downq) < MaxInFlight

(* The Kotlin reconnect loop calls run_tunnel_android: fresh keys, the     *)
(* first handshake datagram.                                               *)
Connect ==
  /\ phase = "idle" /\ conn < MaxConn
  /\ phase' = "hello" /\ conn' = conn + 1 /\ sid' = Initial
  /\ unanswered' = 0 /\ warm' = ~ cool
  /\ upq' = Append(upq, Msg("init", conn + 1, Initial))
  /\ UNCHANGED <<server, downq, faults>>

(* HANDSHAKE_RETRY_INTERVAL has passed without an answer. *)
Retry ==
  /\ phase = "hello"
  /\ Roomy
  /\ upq' = Append(upq, Msg("init", conn, Initial))
  /\ warm' = ~ cool
  /\ UNCHANGED <<phase, conn, sid, unanswered, server, downq, faults>>

(* HANDSHAKE_TIMEOUT, which is longer than any cooldown and any delay. *)
HandshakeTimeout ==
  /\ phase = "hello"
  /\ warm /\ NothingInFlight
  /\ phase' = "idle"
  /\ UNCHANGED <<conn, sid, unanswered, warm, server, upq, downq, faults>>

(* The first datagram after the handshake must be the ServerHello: the     *)
(* client ratchets and is ready.  Anything else ends the attempt.          *)
ReceiveHandshake(m) ==
  /\ phase = "hello"
  /\ IF m.kind = "hello"
     THEN phase' = "up" /\ sid' = m.sid
     ELSE phase' = "idle" /\ UNCHANGED sid
  /\ UNCHANGED <<conn, unanswered, warm>>

(* The forwarding loop counts every datagram as a sign of life, before it  *)
(* tries to decode it.                                                     *)
ReceiveUp(m) ==
  /\ phase = "up"
  /\ unanswered' = 0
  /\ UNCHANGED <<phase, conn, sid, warm>>

ClientReceive(i) ==
  /\ i \in DOMAIN downq
  /\ LET m == downq[i]
     IN  IF m.conn # conn \/ phase = "idle"
         THEN UNCHANGED client   \* the socket of that connection is closed
         ELSE ReceiveHandshake(m) \/ ReceiveUp(m)
  /\ downq' = Without(downq, i)
  /\ Arrives(i)
  /\ UNCHANGED <<server, upq>>

(* Mutant of SendData: the upload task still holds the initial keys. *)
SendDataInitial ==
  /\ phase = "up"
  /\ Roomy
  /\ \A i \in DOMAIN upq : upq[i].kind = "data" => upq[i].conn # conn
  /\ upq' = Append(upq, Msg("data", conn, Initial))
  /\ unanswered' = IF unanswered < 2 THEN unanswered + 1 ELSE 2
  /\ UNCHANGED <<phase, conn, sid, warm, server, downq, faults>>

(* run_upload_loop: tunnelled packets up to and including the next         *)
(* keepalive, the one the server answers. The keepalive timer fires        *)
(* whenever the queue of packets is empty for a moment.                    *)
SendData ==
  /\ phase = "up"
  /\ Roomy
  /\ \A i \in DOMAIN upq : upq[i].kind = "data" => upq[i].conn # conn
  /\ upq' = Append(upq, Msg("data", conn, sid))
  /\ unanswered' = IF unanswered < 2 THEN unanswered + 1 ELSE 2
  /\ UNCHANGED <<phase, conn, sid, warm, server, downq, faults>>

(* Mutant of Silence: an off-by-one leaves the detector out of reach. *)
SilenceLate ==
  /\ phase = "up"
  /\ unanswered > 2 /\ NothingInFlight
  /\ phase' = "idle"
  /\ UNCHANGED <<conn, sid, unanswered, warm, server, upq, downq, faults>>

(* RX silence: data has been sent for longer than any round trip and       *)
(* nothing comes back (RX_SILENCE, TX_WITHOUT_RX_TIMEOUT).                 *)
Silence ==
  /\ phase = "up"
  /\ unanswered = 2 /\ NothingInFlight
  /\ phase' = "idle"
  /\ UNCHANGED <<conn, sid, unanswered, warm, server, upq, downq, faults>>

(* REKEY_INTERVAL: the tunnel returns and the loop reconnects. *)
Rekey ==
  /\ phase = "up" /\ faults < MaxFaults
  /\ phase' = "idle" /\ faults' = faults + 1
  /\ UNCHANGED <<conn, sid, unanswered, warm, server, upq, downq>>

-----------------------------------------------------------------------------
Hello(c, s) == Append(downq, Msg("hello", c, s))

(* Mutant of NewSession: the ratchet is completed with the ServerHello. *)
NewSessionRatcheted(c) ==
  /\ srv' = [conn |-> c, id |-> nextId, ratcheted |-> TRUE]
  /\ nextId' = nextId + 1
  /\ downq' = Hello(c, nextId)

(* A handshake whose tag validates: create_session, the client's older     *)
(* sessions are removed, ServerHello.                                      *)
NewSession(c) ==
  /\ srv' = [conn |-> c, id |-> nextId, ratcheted |-> FALSE]
  /\ nextId' = nextId + 1
  /\ downq' = Hello(c, nextId)

(* The handshake datagram is recognised by the session's own tags: until   *)
(* the ratchet they include those of the initial keys.                     *)
KnownRetry(m) == srv.conn = m.conn /\ ~ srv.ratcheted

(* handle_packet on a handshake datagram: a retry gets another ServerHello *)
(* for the same session, any other one establishes a session unless the    *)
(* address is cooling down.                                                *)
HandleInit(m) ==
  \/ /\ KnownRetry(m)
     /\ downq' = Hello(m.conn, srv.id)
     /\ UNCHANGED server
  \/ /\ ~ KnownRetry(m)
     /\ cool
     /\ UNCHANGED <<server, downq>>
  \/ /\ ~ KnownRetry(m)
     /\ ~ cool /\ nextId <= MaxSessions
     /\ NewSession(m.conn)
     /\ UNCHANGED cool

(* handle_packet on a datagram under ratcheted keys: the first one         *)
(* completes the ratchet; one the server has no keys for is taken for a    *)
(* handshake and fails, which starts a cooldown unless it is too short to  *)
(* hold an ephemeral key.                                                  *)
HandleData(m) ==
  \/ /\ srv.conn = m.conn /\ srv.id = m.sid
     /\ srv' = [conn |-> srv.conn, id |-> srv.id, ratcheted |-> TRUE]
     /\ downq' = Append(downq, Msg("ack", m.conn, m.sid))
     /\ UNCHANGED <<nextId, cool>>
  \/ /\ ~ (srv.conn = m.conn /\ srv.id = m.sid)
     /\ \E long \in BOOLEAN : cool' = (cool \/ long)
     /\ UNCHANGED <<srv, nextId, downq>>

HandlePacket(i) ==
  /\ i \in DOMAIN upq
  /\ \/ upq[i].kind = "init" /\ HandleInit(upq[i])
     \/ upq[i].kind = "data" /\ HandleData(upq[i])
  /\ upq' = Without(upq, i)
  /\ Arrives(i)
  /\ UNCHANGED client

(* tun_read_loop: a packet for the client's VPN IP. *)
ServerPush ==
  /\ Downlink
  /\ srv # NoSession
  /\ Roomy
  /\ downq' = Append(downq, Msg("push", srv.conn,
                                IF srv.ratcheted THEN srv.id ELSE Initial))
  /\ UNCHANGED <<client, server, upq, faults>>

(* The 250 ms to 4 s of handshake_cooldowns are over. *)
CooldownPasses ==
  /\ cool
  /\ cool' = FALSE
  /\ UNCHANGED <<client, srv, nextId, upq, downq, faults>>

-----------------------------------------------------------------------------
(* The server restarts: its sessions are only in memory. *)
Restart ==
  /\ faults < MaxFaults /\ srv # NoSession
  /\ srv' = NoSession /\ cool' = FALSE
  /\ faults' = faults + 1
  /\ UNCHANGED <<client, nextId, upq, downq>>

Lose ==
  /\ faults < MaxFaults
  /\ \/ /\ \E i \in DOMAIN upq : upq' = Without(upq, i)
        /\ UNCHANGED downq
     \/ /\ \E i \in DOMAIN downq : downq' = Without(downq, i)
        /\ UNCHANGED upq
  /\ faults' = faults + 1
  /\ UNCHANGED <<client, server>>

Next ==
  \/ Connect \/ Retry \/ HandshakeTimeout \/ SendData \/ Silence \/ Rekey
  \/ \E i \in DOMAIN upq : HandlePacket(i)
  \/ \E i \in DOMAIN downq : ClientReceive(i)
  \/ ServerPush \/ CooldownPasses
  \/ Restart \/ Lose

(* The client's timers and loops run, datagrams that are not lost arrive,  *)
(* time passes.  Nothing forces a fault or traffic from the network.  The  *)
(* timers of Retry, SendData and Silence keep running while datagrams come *)
(* and go, so they fire if they are enabled again and again.               *)
Fairness ==
  /\ WF_vars(Connect) /\ SF_vars(Retry) /\ WF_vars(HandshakeTimeout)
  /\ SF_vars(SendData) /\ SF_vars(Silence)
  /\ WF_vars(\E i \in DOMAIN upq : HandlePacket(i))
  /\ WF_vars(\E i \in DOMAIN downq : ClientReceive(i))
  /\ WF_vars(CooldownPasses)

Spec == Init /\ [][Next]_vars /\ Fairness

-----------------------------------------------------------------------------
(* Both ends hold the same ratcheted keys. *)
Up == phase = "up" /\ srv.conn = conn /\ srv.id = sid

(* RatchetAgreement: the server only switches to ratcheted keys the client *)
(* holds, however handshakes, retries and hellos cross (gateway.rs,        *)
(* "Complete PFS ratchet only when the CLIENT proves it has ratcheted").   *)
RatchetAgreement ==
  srv.ratcheted /\ srv.conn = conn /\ phase # "idle" => phase = "up" /\ srv.id = sid

(* The inductive invariant: nothing in flight or at the server is ahead of *)
(* the client's connection, data of the current connection is under the    *)
(* keys the client adopted, and so is a ratcheted session.                 *)
IInv ==
  /\ TypeOK
  /\ srv = NoSession \/ (srv.conn \in Conns /\ srv.id \in Ids)
  /\ srv.conn <= conn
  /\ phase # "idle" => conn \in Conns
  /\ \A i \in DOMAIN upq :
       /\ upq[i].conn <= conn
       /\ upq[i].kind = "data" /\ upq[i].conn = conn => phase # "hello" /\ upq[i].sid = sid
  /\ srv.ratcheted /\ srv.conn = conn => phase # "hello" /\ srv.id = sid

(* RetryKeepsSession: a retried handshake datagram of a connection that    *)
(* already has a session does not replace it (gateway.rs, "Once a session  *)
(* already exists, those retries validate against the existing tag         *)
(* window").                                                               *)
RetryKeepsSession ==
  [][\A i \in DOMAIN upq :
       HandlePacket(i) /\ upq[i].kind = "init" /\ srv.conn = upq[i].conn
         => srv' = srv]_vars

(* Recovery: after finitely many losses, overtakings, restarts and rekeys  *)
(* the tunnel comes up and stays up: retries, the handshake timeout, the   *)
(* cooldown and the RX-silence detector between them leave no state in     *)
(* which client and server hold different keys for ever.  The exception is *)
(* traffic that keeps coming to the client under keys it still reads: the  *)
(* silence detector then never fires, though what it sends is lost.        *)
Recovery == <>[]Up \/ []<><<ServerPush>>_vars
=============================================================================
