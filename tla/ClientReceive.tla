--------------------------- MODULE ClientReceive ---------------------------
(***************************************************************************)
(* The inbound path of the command-line client:                            *)
(* receive_and_write_packet_with_mdh and handle_server_control of          *)
(* aivpn-client/src/client.rs on top of the receive window of              *)
(* aivpn-common/src/client_wire.rs.                                        *)
(*                                                                         *)
(* Session keys form a chain: key 0 is derived from the static DH (0-RTT), *)
(* and every ServerHello the client handles derives key n + 1 from key n.  *)
(* The server holds key 0 until the client proves it has ratcheted, then   *)
(* key 1.  The network may lose, reorder and duplicate datagrams: a sent   *)
(* datagram stays available for ever and need never be received.           *)
(***************************************************************************)
EXTENDS RecvWindow

CONSTANTS
  MaxCounter,  \* bound: the server sends counters 0 .. MaxCounter per key
  MaxClock     \* bound: number of 5 s time windows that pass

ASSUME BoundAssumption == MaxCounter \in Nat /\ MaxClock \in Nat

Counters == 0 .. MaxCounter
Clocks   == 0 .. MaxClock
Keys     == 0 .. 2
NoKey    == -1
Packets  == [key : {0, 1}, ctr : Counters, tw : Clocks, kind : {"data", "hello"}]

VARIABLES
  keys,        \* session_keys of the client, as a position in the chain
  win,         \* recv_window
  trans,       \* transition_recv_keys and transition_recv_window
  deadline,    \* transition_recv_deadline: "none", "pending" or "passed"
  srvKey,      \* keys of the server's session
  srvCounter,  \* send_counter of the server's session
  clock,       \* current time window of both machines
  sent,        \* every datagram the server has sent
  accepted,    \* history: the <<key, counter>> pairs decoded by the client
  duplicated   \* history: the pairs decoded more than once

vars == <<keys, win, trans, deadline, srvKey, srvCounter, clock, sent,
          accepted, duplicated>>

NoTransition == [key |-> NoKey, win |-> EmptyWindow]

TypeOK ==
  /\ keys \in Keys
  /\ win \in Windows(Counters)
  /\ trans \in [key : {NoKey} \cup Keys, win : Windows(Counters)]
  /\ deadline \in {"none", "pending", "passed"}
  /\ srvKey \in {0, 1}
  /\ srvCounter \in 0 .. (MaxCounter + 1)
  /\ clock \in Clocks
  /\ sent \in SUBSET Packets
  /\ accepted \in SUBSET (Keys \X Counters)
  /\ duplicated \in SUBSET (Keys \X Counters)

Init ==
  /\ keys = 0
  /\ win = EmptyWindow
  /\ trans = NoTransition
  /\ deadline = "none"
  /\ srvKey = 0
  /\ srvCounter = 0
  /\ clock = 0
  /\ sent = {}
  /\ accepted = {}
  /\ duplicated = {}

-----------------------------------------------------------------------------
(* The server: every datagram takes the next counter of the current key,   *)
(* and a ServerHello is built only before the ratchet.                     *)
ServerSend(kind) ==
  /\ srvCounter <= MaxCounter
  /\ kind = "hello" => srvKey = 0
  /\ sent' = sent \cup {[key |-> srvKey, ctr |-> srvCounter, tw |-> clock,
                         kind |-> kind]}
  /\ srvCounter' = srvCounter + 1
  /\ UNCHANGED <<keys, win, trans, deadline, srvKey, clock, accepted, duplicated>>

(* complete_ratchet, run when a datagram under key 1 reaches the server. *)
ServerRatchets ==
  /\ srvKey = 0
  /\ keys >= 1
  /\ srvKey' = 1
  /\ srvCounter' = 0
  /\ UNCHANGED <<keys, win, trans, deadline, clock, sent, accepted, duplicated>>

(* The clock enters the next time window of DEFAULT_WINDOW_MS. *)
Tick ==
  /\ clock < MaxClock
  /\ clock' = clock + 1
  /\ UNCHANGED <<keys, win, trans, deadline, srvKey, srvCounter, sent,
                 accepted, duplicated>>

(* Two seconds have passed since the last ServerHello. *)
DeadlinePasses ==
  /\ deadline = "pending"
  /\ deadline' = "passed"
  /\ UNCHANGED <<keys, win, trans, srvKey, srvCounter, clock, sent, accepted,
                 duplicated>>

-----------------------------------------------------------------------------
(* The keys and window receive_and_write_packet_with_mdh falls back to,    *)
(* after it has dropped the ones whose deadline has passed.                *)
LiveTransition == IF deadline = "passed" THEN NoTransition ELSE trans
LiveDeadline   == IF deadline = "passed" THEN "none" ELSE deadline

(* decode_packet_with_mdh_len succeeds under key k and window w. *)
Decodes(p, k, w) == p.key = k /\ Finds(w, p.ctr, p.tw, clock)

Primary(p)  == Decodes(p, keys, win)
Fallback(p) == ~ Primary(p) /\ Decodes(p, LiveTransition.key, LiveTransition.win)

(* A datagram has been decoded. *)
Accept(p) ==
  /\ accepted' = accepted \cup {<<p.key, p.ctr>>}
  /\ duplicated' = duplicated \cup ({<<p.key, p.ctr>>} \cap accepted)

(* Mutant of HandleServerHello: the transition window starts empty. *)
HandleServerHelloForgetsWindow(w) ==
  /\ trans' = [key |-> keys, win |-> EmptyWindow]
  /\ deadline' = "pending"
  /\ keys' = keys + 1
  /\ win' = EmptyWindow

(* handle_server_control on ServerHello: the current keys and window       *)
(* become the transition ones, the next key of the chain is derived from   *)
(* the current one, and the window starts again.                           *)
HandleServerHello(w) ==
  /\ trans' = [key |-> keys, win |-> w]
  /\ deadline' = "pending"
  /\ keys' = keys + 1
  /\ win' = EmptyWindow

(* receive_and_write_packet_with_mdh, decoded under the session keys. *)
ReceivePrimary(p) ==
  /\ p \in sent
  /\ Primary(p)
  /\ Accept(p)
  /\ \/ /\ p.kind = "hello"
        /\ HandleServerHello(Mark(win, p.ctr))
     \/ /\ p.kind = "data"
        /\ win' = Mark(win, p.ctr)
        /\ trans' = LiveTransition
        /\ deadline' = LiveDeadline
        /\ UNCHANGED keys
  /\ UNCHANGED <<srvKey, srvCounter, clock, sent>>

(* The same, decoded under the transition keys. *)
ReceiveFallback(p) ==
  /\ p \in sent
  /\ Fallback(p)
  /\ Accept(p)
  /\ \/ /\ p.kind = "hello"
        /\ HandleServerHello(win)
     \/ /\ p.kind = "data"
        /\ trans' = [key |-> LiveTransition.key, win |-> Mark(LiveTransition.win, p.ctr)]
        /\ deadline' = LiveDeadline
        /\ UNCHANGED <<keys, win>>
  /\ UNCHANGED <<srvKey, srvCounter, clock, sent>>

(* "Invalid resonance tag": only the expired transition keys are dropped. *)
ReceiveInvalid(p) ==
  /\ p \in sent
  /\ ~ Primary(p) /\ ~ Fallback(p)
  /\ trans' = LiveTransition
  /\ deadline' = LiveDeadline
  /\ UNCHANGED <<keys, win, srvKey, srvCounter, clock, sent, accepted, duplicated>>

Receive(p) == ReceivePrimary(p) \/ ReceiveFallback(p) \/ ReceiveInvalid(p)

Next ==
  \/ \E kind \in {"data", "hello"} : ServerSend(kind)
  \/ ServerRatchets
  \/ Tick
  \/ DeadlinePasses
  \/ \E p \in sent : Receive(p)

Spec == Init /\ [][Next]_vars

-----------------------------------------------------------------------------
(* AtMostOnce: whatever the network duplicates or delays, and however key  *)
(* changes, window resets and the transition window interleave, no         *)
(* <<key, counter>> pair is decoded twice, so no inner packet is written   *)
(* to the TUN device twice (client_wire.rs is_new/mark/reset).             *)
AtMostOnce == duplicated = {}

(* p is within the range that window w of key k covers. *)
Covered(p, k, w) ==
  /\ p.key = k
  /\ p.ctr > w.highest - ReorderWindow
  /\ p.ctr <= w.highest + FutureWindow

(* NoFalseReplay: a datagram that was never decoded is not mistaken for a  *)
(* replay: it is decoded as long as it is at most ReorderWindow - 1 behind *)
(* and FutureWindow ahead of the highest counter, under the current keys   *)
(* and, until two seconds after the last ServerHello, under the previous   *)
(* ones, whatever arrived in between (client_wire.rs find_counter and mark *)
(* keep the bitmap exact, client.rs "Keep accepting old inbound keys").    *)
NoFalseReplay ==
  \A p \in sent :
    /\ <<p.key, p.ctr>> \notin accepted
    /\ NearWindow(p.tw, clock)
    => /\ Covered(p, keys, win) => Primary(p)
       /\ Covered(p, LiveTransition.key, LiveTransition.win) => Fallback(p)

-----------------------------------------------------------------------------
(* The inductive invariant. *)

(* Window w knows exactly which of the last ReorderWindow counters of key  *)
(* k have been decoded, and none above its highest counter has.            *)
WindowExact(w, k) ==
  \A c \in Counters :
    /\ <<k, c>> \in accepted => c <= w.highest
    /\ c <= w.highest /\ w.highest - c < ReorderWindow =>
         ((w.highest - c) \in w.bitmap <=> <<k, c>> \in accepted)

(* Keys the client has not derived yet have decoded nothing. *)
FutureKeysUnused == \A k \in Keys, c \in Counters : k > keys => <<k, c>> \notin accepted

(* The transition keys are the predecessor of the session keys. *)
TransitionExact ==
  trans.key # NoKey => trans.key = keys - 1 /\ WindowExact(trans.win, trans.key)

(* The server never sends a ServerHello after the ratchet. *)
HelloUnderInitialKey == \A p \in sent : p.kind = "hello" => p.key = 0

IInv ==
  /\ TypeOK
  /\ AtMostOnce
  /\ WindowExact(win, keys)
  /\ TransitionExact
  /\ FutureKeysUnused
  /\ HelloUnderInitialKey
=============================================================================
