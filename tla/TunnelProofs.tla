---------------------------- MODULE TunnelProofs ----------------------------
(***************************************************************************)
(* RatchetAgreement of Tunnel for any number of connections, sessions,     *)
(* losses, overtaking datagrams and restarts.                              *)
(***************************************************************************)
EXTENDS Tunnel, SequenceTheorems, TLAPS

(* Receiving removes one element and keeps the others. *)
LEMMA WithoutElements ==
  ASSUME NEW S, NEW q \in Seq(S), NEW i \in DOMAIN q
  PROVE  /\ Without(q, i) \in Seq(S)
         /\ \A j \in DOMAIN Without(q, i) : \E k \in DOMAIN q : Without(q, i)[j] = q[k]
<1>1. i \in 1 .. Len(q) /\ Len(q) \in Nat /\ DOMAIN q = 1 .. Len(q)
  OBVIOUS
<1> DEFINE a == SubSeq(q, 1, i - 1)
           b == SubSeq(q, i + 1, Len(q))
<1>2. /\ a \in Seq(S) /\ Len(a) = i - 1
      /\ \A j \in 1 .. (i - 1) : a[j] = q[j]
  BY <1>1
<1>3. /\ b \in Seq(S) /\ Len(b) = Len(q) - i
      /\ \A j \in 1 .. (Len(q) - i) : b[j] = q[i + j]
  BY <1>1
<1> HIDE DEF a, b
<1>4. /\ a \o b \in Seq(S)
      /\ Len(a \o b) = Len(q) - 1
      /\ DOMAIN (a \o b) = 1 .. (Len(q) - 1)
      /\ \A j \in 1 .. (Len(q) - 1) :
           (a \o b)[j] = IF j <= i - 1 THEN a[j] ELSE b[j - (i - 1)]
  <2>1. a \o b \in Seq(S) /\ Len(a \o b) = Len(a) + Len(b)
    BY <1>2, <1>3, ConcatProperties
  <2>2. \A j \in 1 .. (Len(a) + Len(b)) :
          (a \o b)[j] = IF j <= Len(a) THEN a[j] ELSE b[j - Len(a)]
    BY <1>2, <1>3, ConcatProperties
  <2>3. Len(a) + Len(b) = Len(q) - 1
    BY <1>1, <1>2, <1>3
  <2>4. DOMAIN (a \o b) = 1 .. Len(a \o b)
    BY <2>1
  <2> QED
    BY <1>2, <2>1, <2>2, <2>3, <2>4
<1> DEFINE c == a \o b
<1>5. /\ c \in Seq(S) /\ DOMAIN c = 1 .. (Len(q) - 1)
      /\ \A j \in 1 .. (Len(q) - 1) : c[j] = IF j <= i - 1 THEN a[j] ELSE b[j - (i - 1)]
  BY <1>4
<1>6. Without(q, i) = c
  BY DEF Without, a, b
<1> HIDE DEF c
<1>7. ASSUME NEW j \in 1 .. (Len(q) - 1)
      PROVE  \E k \in DOMAIN q : c[j] = q[k]
  <2>0. i \in Int /\ j \in Int /\ Len(q) \in Int
    BY <1>1
  <2>1. CASE j <= i - 1
    <3>1. c[j] = a[j]
      BY <1>5, <2>1
    <3>2. j \in 1 .. (i - 1) /\ j \in 1 .. Len(q)
      BY <2>0, <2>1
    <3> QED
      BY <3>1, <3>2, <1>1, <1>2
  <2>2. CASE ~ (j <= i - 1)
    <3>1. c[j] = b[j - (i - 1)]
      BY <1>5, <2>2
    <3>2. j - (i - 1) \in 1 .. (Len(q) - i) /\ i + (j - (i - 1)) \in 1 .. Len(q)
      BY <1>1, <2>0, <2>2
    <3> QED
      BY <3>1, <3>2, <1>1, <1>3
  <2> QED
    BY <2>1, <2>2
<1> QED
  BY <1>5, <1>6, <1>7

(* Sending adds one element. *)
LEMMA AppendElements ==
  ASSUME NEW S, NEW q \in Seq(S), NEW m \in S
  PROVE  /\ Append(q, m) \in Seq(S)
         /\ \A j \in DOMAIN Append(q, m) :
              Append(q, m)[j] = m \/ \E k \in DOMAIN q : Append(q, m)[j] = q[k]
  OBVIOUS

LEMMA InitIInv == Init => IInv
<1> SUFFICES ASSUME Init PROVE IInv
  OBVIOUS
<1>1. upq = <<>> /\ downq = <<>>
  BY DEF Init
<1>2. TypeOK
  <2>1. upq \in Seq(Datagrams) /\ downq \in Seq(Datagrams)
    BY <1>1
  <2>2. srv \in [conn : 0 .. MaxConn, id : 0 .. MaxSessions, ratcheted : BOOLEAN]
    BY TunnelAssumption DEF Init, NoSession
  <2>3. conn \in 0 .. MaxConn /\ nextId \in 1 .. (MaxSessions + 1) /\ faults \in 0 .. MaxFaults
    BY TunnelAssumption DEF Init
  <2>4. {warm, cool} \subseteq BOOLEAN /\ phase \in {"idle", "hello", "up"}
    BY DEF Init
  <2> QED
    BY <2>1, <2>2, <2>3, <2>4 DEF Init, TypeOK
<1> QED
  BY <1>1, <1>2 DEF Init, IInv, NoSession

-----------------------------------------------------------------------------
(* The client's steps that send. *)
LEMMA ConnectIInv ==
  ASSUME IInv, Connect
  PROVE  IInv'
<1> DEFINE m == Msg("init", conn + 1, Initial)
<1>1. m \in Datagrams /\ m.kind = "init" /\ m.conn = conn + 1 /\ conn + 1 \in Conns
  BY TunnelAssumption DEF IInv, TypeOK, Connect, Msg, Datagrams, Conns, Initial
<1>2. /\ upq' \in Seq(Datagrams)
      /\ \A j \in DOMAIN upq' : upq'[j] = m \/ \E k \in DOMAIN upq : upq'[j] = upq[k]
  BY <1>1, AppendElements DEF Connect, IInv, TypeOK
<1> HIDE DEF m
<1>3. TypeOK'
  BY <1>1, <1>2 DEF IInv, TypeOK, Connect, server, Conns
<1>4. conn \in Nat /\ conn' = conn + 1 /\ srv' = srv /\ phase' = "hello"
  BY TunnelAssumption DEF IInv, TypeOK, Connect, server
<1>5. srv.conn \in Nat /\ srv.conn <= conn
  BY TunnelAssumption DEF IInv, TypeOK
<1>6. ASSUME NEW j \in DOMAIN upq'
      PROVE  /\ upq'[j].conn <= conn'
             /\ ~ (upq'[j].kind = "data" /\ upq'[j].conn = conn')
  <2>1. CASE upq'[j] = m
    BY <2>1, <1>1, <1>4
  <2>2. CASE \E k \in DOMAIN upq : upq'[j] = upq[k]
    <3>1. PICK k \in DOMAIN upq : upq'[j] = upq[k]
      BY <2>2
    <3>2. upq[k] \in Datagrams
      BY <3>1 DEF IInv, TypeOK
    <3>3. upq[k].conn \in Nat /\ upq[k].conn <= conn
      BY <3>1, <3>2 DEF IInv, Datagrams, Conns
    <3> QED
      BY <3>1, <3>3, <1>4
  <2> QED
    BY <2>1, <2>2, <1>2
<1> QED
  BY <1>1, <1>3, <1>4, <1>5, <1>6 DEF IInv

LEMMA SendIInv ==
  ASSUME IInv, Retry \/ SendData
  PROVE  IInv'
<1> DEFINE m == IF phase = "hello" THEN Msg("init", conn, Initial) ELSE Msg("data", conn, sid)
<1>1. /\ m \in Datagrams /\ m.conn = conn
      /\ m.kind = "data" => phase = "up" /\ m.sid = sid
  BY DEF IInv, TypeOK, Retry, SendData, Msg, Datagrams, Initial
<1>2. upq' = Append(upq, m)
  BY DEF Retry, SendData
<1>3. /\ upq' \in Seq(Datagrams)
      /\ \A j \in DOMAIN upq' : upq'[j] = m \/ \E k \in DOMAIN upq : upq'[j] = upq[k]
  BY <1>1, <1>2, AppendElements DEF IInv, TypeOK
<1> HIDE DEF m
<1>4. /\ phase' = phase /\ conn' = conn /\ sid' = sid /\ srv' = srv /\ conn \in Nat
      /\ unanswered' \in 0 .. 2
  BY TunnelAssumption DEF IInv, TypeOK, Retry, SendData, server
<1>5. TypeOK'
  BY <1>3, <1>4 DEF IInv, TypeOK, Retry, SendData, server
<1>6. ASSUME NEW j \in DOMAIN upq'
      PROVE  /\ upq'[j].conn <= conn
             /\ upq'[j].kind = "data" /\ upq'[j].conn = conn
                  => phase # "hello" /\ upq'[j].sid = sid
  BY <1>1, <1>3, <1>4 DEF IInv
<1> QED
  BY <1>4, <1>5, <1>6 DEF IInv

(* The client's steps that send nothing. *)
LEMMA TimerIInv ==
  ASSUME IInv, HandshakeTimeout \/ Silence \/ Rekey
  PROVE  IInv'
<1>1. /\ phase' = "idle" /\ conn' = conn /\ sid' = sid /\ srv' = srv /\ upq' = upq
      /\ phase \in {"hello", "up"}
  BY DEF HandshakeTimeout, Silence, Rekey, server
<1>2. TypeOK'
  BY TunnelAssumption DEF IInv, TypeOK, HandshakeTimeout, Silence, Rekey, server
<1> QED
  BY <1>1, <1>2 DEF IInv

-----------------------------------------------------------------------------
(* The client adopts the keys of a ServerHello only while it waits for     *)
(* one, when neither its data nor a ratcheted session of its connection    *)
(* can exist.                                                              *)
(* The count of faults stays within its bound. *)
LEMMA ArrivesType ==
  ASSUME TypeOK, NEW i, Arrives(i)
  PROVE  faults' \in 0 .. MaxFaults
BY TunnelAssumption DEF TypeOK, Arrives

LEMMA ClientReceiveIInv ==
  ASSUME IInv, NEW i \in DOMAIN downq, ClientReceive(i)
  PROVE  IInv'
<1> DEFINE m == downq[i]
<1>1. m \in Datagrams
  BY DEF IInv, TypeOK
<1>2. downq' \in Seq(Datagrams)
  BY WithoutElements DEF ClientReceive, IInv, TypeOK
<1>3. /\ conn' = conn /\ warm' = warm /\ srv' = srv /\ nextId' = nextId
      /\ cool' = cool /\ upq' = upq /\ faults' \in 0 .. MaxFaults
  BY ArrivesType DEF ClientReceive, ReceiveHandshake, ReceiveUp, client, server, IInv
<1>4. \/ phase' = phase /\ sid' = sid /\ unanswered' \in {unanswered, 0}
      \/ phase = "hello" /\ phase' = "up" /\ sid' = m.sid /\ unanswered' = unanswered
      \/ phase = "hello" /\ phase' = "idle" /\ sid' = sid /\ unanswered' = unanswered
  BY DEF ClientReceive, ReceiveHandshake, ReceiveUp, client
<1>5. m.sid \in {Initial} \cup Ids
  BY <1>1 DEF Datagrams
<1> HIDE DEF m
<1>6. TypeOK'
  <2>1. /\ phase' \in {"idle", "hello", "up"} /\ sid' \in {Initial} \cup Ids
        /\ unanswered' \in 0 .. 2
    BY <1>4, <1>5 DEF IInv, TypeOK
  <2> QED
    BY <2>1, <1>2, <1>3 DEF IInv, TypeOK
<1>7. CASE phase' = phase /\ sid' = sid
  BY <1>3, <1>6, <1>7 DEF IInv
<1>8. CASE phase = "hello" /\ phase' \in {"up", "idle"}
  BY <1>3, <1>6, <1>8 DEF IInv
<1> QED
  BY <1>4, <1>7, <1>8

-----------------------------------------------------------------------------
(* What is in flight to the server. *)
LEMMA UpDatagram ==
  ASSUME IInv, NEW i \in DOMAIN upq
  PROVE  /\ upq[i] \in Datagrams /\ upq[i].conn \in Conns
         /\ upq[i].conn \in 0 .. MaxConn /\ upq[i].conn # 0
         /\ upq[i].sid \in {Initial} \cup Ids
<1>1. upq[i] \in Datagrams
  BY DEF IInv, TypeOK
<1>2. \A d \in Datagrams : d.conn \in Conns /\ d.sid \in {Initial} \cup Ids
  BY DEF Datagrams
<1>3. \A c \in Conns : c \in 0 .. MaxConn /\ c # 0
  BY TunnelAssumption DEF Conns
<1> QED
  BY <1>1, <1>2, <1>3

(* A handshake datagram: the session keeps its state or is a new one,      *)
(* which is not ratcheted.                                                 *)
LEMMA HandleInitIInv ==
  ASSUME IInv, NEW i \in DOMAIN upq, HandlePacket(i), HandleInit(upq[i])
  PROVE  /\ srv' = srv \/ (srv'.conn = upq[i].conn /\ srv'.id \in Ids /\ ~ srv'.ratcheted)
         /\ srv' \in [conn : 0 .. MaxConn, id : 0 .. MaxSessions, ratcheted : BOOLEAN]
         /\ nextId' \in 1 .. (MaxSessions + 1) /\ cool' \in BOOLEAN
         /\ downq' \in Seq(Datagrams)
<1> DEFINE m == upq[i]
<1>1. m \in Datagrams /\ m.conn \in Conns /\ m.conn \in 0 .. MaxConn /\ m.conn # 0
  BY UpDatagram
<1>2. /\ srv \in [conn : 0 .. MaxConn, id : 0 .. MaxSessions, ratcheted : BOOLEAN]
      /\ nextId \in 1 .. (MaxSessions + 1) /\ cool \in BOOLEAN
      /\ downq \in Seq(Datagrams) /\ MaxSessions \in Nat
  BY TunnelAssumption DEF IInv, TypeOK
<1>3. CASE KnownRetry(m) /\ downq' = Hello(m.conn, srv.id) /\ UNCHANGED server
  <2>1. srv # NoSession
    BY <1>1, <1>3 DEF KnownRetry, NoSession
  <2>2. Msg("hello", m.conn, srv.id) \in Datagrams
    BY <2>1, <1>1 DEF IInv, Msg, Datagrams
  <2>3. downq' \in Seq(Datagrams)
    BY <1>2, <1>3, <2>2, AppendElements DEF Hello
  <2> QED
    BY <1>2, <1>3, <2>3 DEF server
<1>4. CASE cool /\ UNCHANGED <<server, downq>>
  BY <1>2, <1>4 DEF server
<1>5. CASE nextId <= MaxSessions /\ NewSession(m.conn) /\ UNCHANGED cool
  <2>1. nextId \in Ids /\ nextId \in 0 .. MaxSessions /\ nextId + 1 \in 1 .. (MaxSessions + 1)
    BY <1>2, <1>5 DEF Ids
  <2>2. Msg("hello", m.conn, nextId) \in Datagrams
    BY <2>1, <1>1 DEF Msg, Datagrams
  <2>3. downq' \in Seq(Datagrams)
    BY <1>2, <1>5, <2>2, AppendElements DEF NewSession, Hello
  <2>4. /\ srv' = [conn |-> m.conn, id |-> nextId, ratcheted |-> FALSE]
        /\ nextId' = nextId + 1 /\ cool' = cool
    BY <1>5 DEF NewSession
  <2> HIDE DEF m
  <2>5. /\ srv' \in [conn : 0 .. MaxConn, id : 0 .. MaxSessions, ratcheted : BOOLEAN]
        /\ srv'.conn = m.conn /\ srv'.id \in Ids /\ ~ srv'.ratcheted
    BY <1>1, <2>1, <2>4
  <2> QED
    BY <1>2, <2>1, <2>3, <2>4, <2>5 DEF m
<1> QED
  BY <1>3, <1>4, <1>5 DEF HandleInit

(* A datagram under ratcheted keys: the session keeps its state or is      *)
(* ratcheted by a datagram of its own connection and keys.                 *)
LEMMA HandleDataIInv ==
  ASSUME IInv, NEW i \in DOMAIN upq, HandlePacket(i), HandleData(upq[i])
  PROVE  /\ \/ srv' = srv
            \/ /\ srv.conn = upq[i].conn /\ srv.id = upq[i].sid
               /\ srv'.conn = srv.conn /\ srv'.id = srv.id
               /\ srv # NoSession
         /\ srv' \in [conn : 0 .. MaxConn, id : 0 .. MaxSessions, ratcheted : BOOLEAN]
         /\ nextId' = nextId /\ cool' \in BOOLEAN
         /\ downq' \in Seq(Datagrams)
<1> DEFINE m == upq[i]
<1>1. m \in Datagrams /\ m.conn \in Conns /\ m.conn # 0 /\ m.sid \in {Initial} \cup Ids
  BY UpDatagram
<1>2. /\ srv \in [conn : 0 .. MaxConn, id : 0 .. MaxSessions, ratcheted : BOOLEAN]
      /\ cool \in BOOLEAN /\ downq \in Seq(Datagrams)
  BY DEF IInv, TypeOK
<1>3. CASE /\ srv.conn = m.conn /\ srv.id = m.sid
           /\ srv' = [conn |-> srv.conn, id |-> srv.id, ratcheted |-> TRUE]
           /\ downq' = Append(downq, Msg("ack", m.conn, m.sid))
           /\ UNCHANGED <<nextId, cool>>
  <2>1. srv # NoSession
    BY <1>1, <1>3 DEF NoSession
  <2>2. Msg("ack", m.conn, m.sid) \in Datagrams
    BY <1>1 DEF Msg, Datagrams
  <2>3. downq' \in Seq(Datagrams)
    BY <1>2, <1>3, <2>2, AppendElements
  <2> QED
    BY <1>2, <1>3, <2>1, <2>3
<1>4. CASE /\ \E long \in BOOLEAN : cool' = (cool \/ long)
           /\ UNCHANGED <<srv, nextId, downq>>
  BY <1>2, <1>4
<1> QED
  BY <1>3, <1>4 DEF HandleData

LEMMA HandlePacketIInv ==
  ASSUME IInv, NEW i \in DOMAIN upq, HandlePacket(i)
  PROVE  IInv'
<1> DEFINE m == upq[i]
<1>1. /\ m \in Datagrams /\ m.conn \in Conns /\ m.conn <= conn
      /\ m.kind = "data" /\ m.conn = conn => phase # "hello" /\ m.sid = sid
  BY UpDatagram DEF IInv
<1>2. /\ upq' \in Seq(Datagrams)
      /\ \A j \in DOMAIN upq' : \E k \in DOMAIN upq : upq'[j] = upq[k]
  BY WithoutElements DEF HandlePacket, IInv, TypeOK
<1>3. /\ phase' = phase /\ conn' = conn /\ sid' = sid /\ unanswered' = unanswered
      /\ warm' = warm /\ faults' \in 0 .. MaxFaults
  BY ArrivesType DEF HandlePacket, client, IInv
<1>4. /\ srv' \in [conn : 0 .. MaxConn, id : 0 .. MaxSessions, ratcheted : BOOLEAN]
      /\ nextId' \in 1 .. (MaxSessions + 1) /\ cool' \in BOOLEAN
      /\ downq' \in Seq(Datagrams)
  BY HandleInitIInv, HandleDataIInv DEF HandlePacket, IInv, TypeOK
<1>5. \/ srv' = srv
      \/ srv'.conn = m.conn /\ srv'.id \in Ids /\ ~ srv'.ratcheted
      \/ /\ m.kind = "data" /\ srv.conn = m.conn /\ srv.id = m.sid
         /\ srv'.conn = srv.conn /\ srv'.id = srv.id
         /\ srv # NoSession
  BY HandleInitIInv, HandleDataIInv DEF HandlePacket
<1> HIDE DEF m
<1>6. TypeOK'
  BY <1>2, <1>3, <1>4 DEF IInv, TypeOK
<1>7. /\ srv' = NoSession \/ (srv'.conn \in Conns /\ srv'.id \in Ids)
      /\ srv'.conn <= conn
      /\ srv'.ratcheted /\ srv'.conn = conn => phase # "hello" /\ srv'.id = sid
  BY <1>1, <1>5 DEF IInv
<1>8. \A j \in DOMAIN upq' :
        /\ upq'[j].conn <= conn
        /\ upq'[j].kind = "data" /\ upq'[j].conn = conn
             => phase # "hello" /\ upq'[j].sid = sid
  BY <1>2 DEF IInv
<1>9. (NoSession)' = NoSession
  BY DEF NoSession
<1> QED
  BY <1>3, <1>6, <1>7, <1>8, <1>9 DEF IInv

(* The server's and the network's other steps. *)
LEMMA ServerPushIInv ==
  ASSUME IInv, ServerPush
  PROVE  IInv'
<1>1. Msg("push", srv.conn, IF srv.ratcheted THEN srv.id ELSE Initial) \in Datagrams
  BY DEF IInv, ServerPush, Msg, Datagrams
<1>2. downq' \in Seq(Datagrams)
  BY <1>1, AppendElements DEF ServerPush, IInv, TypeOK
<1>3. /\ UNCHANGED <<phase, conn, sid, unanswered, warm>> /\ UNCHANGED <<srv, nextId, cool>>
      /\ upq' = upq /\ faults' = faults
  BY DEF ServerPush, client, server
<1> QED
  BY <1>2, <1>3 DEF IInv, TypeOK

LEMMA CooldownIInv ==
  ASSUME IInv, CooldownPasses
  PROVE  IInv'
  BY DEF IInv, TypeOK, CooldownPasses, client

LEMMA RestartIInv ==
  ASSUME IInv, Restart
  PROVE  IInv'
<1>1. /\ UNCHANGED <<phase, conn, sid, unanswered, warm, nextId, upq, downq>>
      /\ srv' = NoSession /\ cool' = FALSE /\ faults' = faults + 1 /\ faults < MaxFaults
  BY DEF Restart, client
<1>2. srv' \in [conn : 0 .. MaxConn, id : 0 .. MaxSessions, ratcheted : BOOLEAN]
  BY <1>1, TunnelAssumption DEF NoSession
<1>3. faults' \in 0 .. MaxFaults
  BY <1>1, TunnelAssumption DEF IInv, TypeOK
<1>4. conn \in Nat
  BY TunnelAssumption DEF IInv, TypeOK
<1>5. TypeOK'
  BY <1>1, <1>2, <1>3 DEF IInv, TypeOK
<1>6. srv'.conn <= conn /\ srv'.ratcheted = FALSE
  BY <1>1, <1>4 DEF NoSession
<1> QED
  BY <1>1, <1>5, <1>6 DEF IInv, NoSession

LEMMA LoseIInv ==
  ASSUME IInv, Lose
  PROVE  IInv'
<1>1. /\ UNCHANGED <<phase, conn, sid, unanswered, warm, srv, nextId, cool>>
      /\ faults' = faults + 1 /\ faults < MaxFaults
  BY DEF Lose, client, server
<1>2. faults' \in 0 .. MaxFaults
  BY <1>1, TunnelAssumption DEF IInv, TypeOK
<1>3. CASE (\E i \in DOMAIN upq : upq' = Without(upq, i)) /\ UNCHANGED downq
  <2>1. PICK i \in DOMAIN upq : upq' = Without(upq, i)
    BY <1>3
  <2>2. /\ upq' \in Seq(Datagrams)
        /\ \A j \in DOMAIN upq' : \E k \in DOMAIN upq : upq'[j] = upq[k]
    BY <2>1, WithoutElements DEF IInv, TypeOK
  <2>3. TypeOK'
    BY <1>1, <1>2, <1>3, <2>2 DEF IInv, TypeOK
  <2>4. \A j \in DOMAIN upq' :
          /\ upq'[j].conn <= conn
          /\ upq'[j].kind = "data" /\ upq'[j].conn = conn
               => phase # "hello" /\ upq'[j].sid = sid
    BY <2>2 DEF IInv
  <2> QED
    BY <1>1, <2>3, <2>4 DEF IInv
<1>4. CASE (\E i \in DOMAIN downq : downq' = Without(downq, i)) /\ UNCHANGED upq
  <2>1. PICK i \in DOMAIN downq : downq' = Without(downq, i)
    BY <1>4
  <2>2. downq' \in Seq(Datagrams)
    BY <2>1, WithoutElements DEF IInv, TypeOK
  <2>3. TypeOK'
    BY <1>1, <1>2, <1>4, <2>2 DEF IInv, TypeOK
  <2> QED
    BY <1>1, <1>4, <2>3 DEF IInv
<1> QED
  BY <1>3, <1>4 DEF Lose

-----------------------------------------------------------------------------
(* One step of the client, the server or the network keeps the inductive   *)
(* invariant.                                                              *)
LEMMA NextIInv == IInv /\ [Next]_vars => IInv'
<1> SUFFICES ASSUME IInv, [Next]_vars PROVE IInv'
  OBVIOUS
<1>1. CASE UNCHANGED vars
  BY <1>1 DEF vars, IInv, TypeOK
<1>2. CASE Next
  BY <1>2, ConnectIInv, SendIInv, TimerIInv, ClientReceiveIInv, HandlePacketIInv,
     ServerPushIInv, CooldownIInv, RestartIInv, LoseIInv
     DEF Next
<1> QED
  BY <1>1, <1>2

(* The inductive invariant of the handshake holds in every execution of    *)
(* run_tunnel_android against handle_packet, whatever the network does.    *)
THEOREM TunnelInvariance == Spec => []IInv
<1>1. Init => IInv
  BY InitIInv
<1>2. IInv /\ [Next]_vars => IInv'
  BY NextIInv
<1> QED
  BY <1>1, <1>2, PTL DEF Spec

(* The server (complete_session_ratchet) only switches to ratcheted keys   *)
(* the connected client holds, with any loss, reordering and restarts.     *)
THEOREM RatchetsAgree == Spec => []RatchetAgreement
<1>1. IInv => RatchetAgreement
  BY DEF IInv, TypeOK, RatchetAgreement
<1> QED
  BY <1>1, TunnelInvariance, PTL
=============================================================================
