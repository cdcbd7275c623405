------------------------ MODULE ClientReceiveProofs ------------------------
(***************************************************************************)
(* Proofs about the client's inbound path: for every window size, search   *)
(* range and number of datagrams, no datagram is decoded twice and none    *)
(* that is still inside the window is mistaken for a replay.               *)
(*                                                                         *)
(* The argument: each window knows exactly which of its last ReorderWindow *)
(* counters were decoded (WindowExact); marking a counter that is_new      *)
(* reports as new keeps that knowledge exact (MarkExact), and is_new never *)
(* calls a decoded counter new (NewNotAccepted).                           *)
(***************************************************************************)
EXTENDS ClientReceive, TLAPS

(* A counter find_counter returns was not decoded before under that key.   *)
LEMMA NewNotAccepted ==
  ASSUME NEW w \in Windows(Counters), NEW k \in Keys, NEW c \in Counters,
         WindowExact(w, k), IsNew(w, c)
  PROVE  <<k, c>> \notin accepted
BY WindowAssumption, BoundAssumption
   DEF Windows, Counters, WindowExact, IsNew, BitPositions

(* RecvWindow::mark returns a window. *)
LEMMA MarkType ==
  ASSUME NEW w \in Windows(Counters), NEW c \in Counters
  PROVE  Mark(w, c) \in Windows(Counters)
BY WindowAssumption, BoundAssumption
   DEF Windows, Counters, Mark, Shl, BitPositions

(* Marking the counter of a datagram just decoded keeps the window exact.  *)
LEMMA MarkExact ==
  ASSUME NEW w \in Windows(Counters), NEW k \in Keys, NEW c \in Counters,
         WindowExact(w, k),
         accepted' = accepted \cup {<<k, c>>}
  PROVE  WindowExact(Mark(w, c), k)'
<1> DEFINE m == Mark(w, c)
<1> USE WindowAssumption, BoundAssumption DEF Counters, Windows, BitPositions
<1> SUFFICES ASSUME NEW d \in Counters
             PROVE  /\ <<k, d>> \in accepted' => d <= m.highest
                    /\ d <= m.highest /\ m.highest - d < ReorderWindow =>
                         ((m.highest - d) \in m.bitmap <=> <<k, d>> \in accepted')
  BY DEF WindowExact
<1>0. /\ <<k, d>> \in accepted => d <= w.highest
      /\ d <= w.highest /\ w.highest - d < ReorderWindow =>
           ((w.highest - d) \in w.bitmap <=> <<k, d>> \in accepted)
  BY DEF WindowExact
<1>1. <<k, d>> \in accepted' <=> (<<k, d>> \in accepted \/ d = c)
  OBVIOUS
<1>2. CASE w.highest < 0
  <2>1. m.highest = c /\ m.bitmap = {0}
    BY <1>2 DEF Mark
  <2>2. QED BY <1>0, <1>1, <1>2, <2>1
<1>3. CASE w.highest >= 0 /\ c > w.highest /\ c - w.highest >= ReorderWindow
  <2>1. m.highest = c /\ m.bitmap = {0}
    BY <1>3 DEF Mark
  <2>2. QED BY <1>0, <1>1, <1>3, <2>1
<1>4. CASE w.highest >= 0 /\ c > w.highest /\ c - w.highest < ReorderWindow
  <2>1. m.highest = c /\ m.bitmap = Shl(w.bitmap, c - w.highest) \cup {0}
    BY <1>4 DEF Mark
  <2>2. \A b \in BitPositions :
          b \in Shl(w.bitmap, c - w.highest) <=> (b - (c - w.highest)) \in w.bitmap
    BY <1>4 DEF Shl
  <2>3. d <= c /\ c - d < ReorderWindow /\ d # c =>
          ((c - d) \in m.bitmap <=> (w.highest - d) \in w.bitmap)
    BY <1>4, <2>1, <2>2
  <2>4. QED BY <1>0, <1>1, <1>4, <2>1, <2>3
<1>5. CASE w.highest >= 0 /\ c <= w.highest
  <2>1. m.highest = w.highest
    BY <1>5 DEF Mark
  <2>2. CASE w.highest - c < ReorderWindow
    <3>1. m.bitmap = w.bitmap \cup {w.highest - c}
      BY <1>5, <2>2 DEF Mark
    <3>2. QED BY <1>0, <1>1, <1>5, <2>1, <2>2, <3>1
  <2>3. CASE ~ (w.highest - c < ReorderWindow)
    <3>1. m = w
      BY <1>5, <2>3 DEF Mark
    <3>2. QED BY <1>0, <1>1, <1>5, <2>1, <2>3, <3>1
  <2>4. QED BY <2>2, <2>3
<1>6. w.highest \in {-1} \cup Counters
  OBVIOUS
<1>7. QED BY <1>2, <1>3, <1>4, <1>5, <1>6

-----------------------------------------------------------------------------
(* What a step that decodes p under key k and window w establishes. *)
LEMMA AcceptFresh ==
  ASSUME TypeOK, AtMostOnce, NEW p \in sent, NEW w \in Windows(Counters),
         NEW k \in Keys, WindowExact(w, k), Decodes(p, k, w), Accept(p)
  PROVE  /\ AtMostOnce'
         /\ accepted' = accepted \cup {<<k, p.ctr>>}
         /\ accepted' \in SUBSET (Keys \X Counters)
         /\ p.ctr \in Counters
         /\ WindowExact(Mark(w, p.ctr), k)'
         /\ Mark(w, p.ctr) \in Windows(Counters)
<1>1. p.ctr \in Counters /\ p.key = k /\ IsNew(w, p.ctr)
  BY DEF TypeOK, Packets, Decodes, Finds
<1>2. <<k, p.ctr>> \notin accepted
  BY <1>1, NewNotAccepted
<1>3. accepted' = accepted \cup {<<k, p.ctr>>} /\ duplicated' = {}
  BY <1>1, <1>2 DEF Accept, AtMostOnce
<1>4. QED
  BY <1>1, <1>3, MarkExact, MarkType DEF AtMostOnce, TypeOK

(* A window of another key is as exact after the step as before. *)
LEMMA OtherWindowExact ==
  ASSUME NEW w, NEW j \in Keys, NEW k \in Keys, NEW c, j # k,
         WindowExact(w, j), accepted' = accepted \cup {<<k, c>>}
  PROVE  WindowExact(w, j)'
BY DEF WindowExact

(* So is a window when nothing is decoded. *)
LEMMA SameWindowExact ==
  ASSUME NEW w, NEW k, WindowExact(w, k), accepted' = accepted
  PROVE  WindowExact(w, k)'
BY DEF WindowExact

(* A window that starts again is exact for a key that has decoded nothing. *)
LEMMA EmptyWindowExact ==
  ASSUME NEW k \in Keys, \A c \in Counters : <<k, c>> \notin accepted'
  PROVE  WindowExact(EmptyWindow, k)'
BY BoundAssumption DEF WindowExact, EmptyWindow, Counters

LEMMA EmptyWindowType == EmptyWindow \in Windows(Counters)
BY DEF EmptyWindow, Windows

(* The live transition keys are exact too. *)
LEMMA LiveTransitionExact ==
  ASSUME IInv
  PROVE  /\ LiveTransition \in [key : {NoKey} \cup Keys, win : Windows(Counters)]
         /\ LiveTransition.key # NoKey =>
              /\ LiveTransition.key = keys - 1
              /\ WindowExact(LiveTransition.win, LiveTransition.key)
         /\ LiveDeadline \in {"none", "pending", "passed"}
BY EmptyWindowType
   DEF IInv, TypeOK, LiveTransition, LiveDeadline, NoTransition, TransitionExact

-----------------------------------------------------------------------------
LEMMA InitInv == Init => IInv
BY EmptyWindowType, BoundAssumption
   DEF Init, IInv, TypeOK, AtMostOnce, WindowExact, TransitionExact, NoTransition,
       FutureKeysUnused, HelloUnderInitialKey, EmptyWindow, Keys, NoKey, Counters,
       Clocks, Packets

(* The server's steps, the clock and the deadline disturb no window. *)
LEMMA EnvironmentInv ==
  ASSUME IInv,
         \/ \E kind \in {"data", "hello"} : ServerSend(kind)
         \/ ServerRatchets \/ Tick \/ DeadlinePasses \/ UNCHANGED vars
  PROVE  IInv'
<1> USE DEF IInv
<1>1. accepted' = accepted /\ duplicated' = duplicated /\ win' = win /\ keys' = keys
      /\ trans' = trans
  BY DEF ServerSend, ServerRatchets, Tick, DeadlinePasses, vars
<1>2. TypeOK'
  BY <1>1, BoundAssumption
     DEF TypeOK, ServerSend, ServerRatchets, Tick, DeadlinePasses, vars, Packets,
         Counters, Clocks
<1>3. HelloUnderInitialKey'
  BY DEF HelloUnderInitialKey, TypeOK, ServerSend, ServerRatchets, Tick,
         DeadlinePasses, vars
<1>4. WindowExact(win, keys)' /\ TransitionExact'
  BY <1>1 DEF WindowExact, TransitionExact
<1>5. QED
  BY <1>1, <1>2, <1>3, <1>4 DEF AtMostOnce, FutureKeysUnused

LEMMA PrimaryInv ==
  ASSUME IInv, NEW p \in sent, ReceivePrimary(p)
  PROVE  IInv'
<1> USE DEF IInv
<1>0. PICK k, w, lk, lw : /\ k = keys /\ w = win
                          /\ lk = LiveTransition.key /\ lw = LiveTransition.win
  OBVIOUS
<1>1. Decodes(p, k, w) /\ Accept(p)
  BY <1>0 DEF ReceivePrimary, Primary
<1>2. k \in Keys /\ w \in Windows(Counters) /\ WindowExact(w, k)
  BY <1>0 DEF TypeOK
<1>3. /\ AtMostOnce'
      /\ accepted' = accepted \cup {<<k, p.ctr>>}
      /\ accepted' \in SUBSET (Keys \X Counters)
      /\ p.ctr \in Counters
      /\ WindowExact(Mark(w, p.ctr), k)'
      /\ Mark(w, p.ctr) \in Windows(Counters)
  BY <1>1, <1>2, AcceptFresh
<1>4. UNCHANGED <<srvKey, srvCounter, clock, sent>>
  BY DEF ReceivePrimary
<1>5. HelloUnderInitialKey'
  BY <1>4 DEF HelloUnderInitialKey
<1>6. duplicated' \in SUBSET (Keys \X Counters)
  BY <1>3 DEF AtMostOnce
<1>7. \A j \in Keys, c \in Counters : j > k => <<j, c>> \notin accepted'
  <2>1. \A j \in Keys, c \in Counters : j > k => <<j, c>> \notin accepted
    BY <1>0 DEF FutureKeysUnused
  <2>2. \A j \in Keys, c \in Counters : j > k => <<j, c>> # <<k, p.ctr>>
    BY <1>2 DEF Keys
  <2>3. QED BY <1>3, <2>1, <2>2
<1>8. CASE p.kind = "hello" /\ HandleServerHello(Mark(win, p.ctr))
  <2>1. k = 0
    BY <1>1, <1>8 DEF HelloUnderInitialKey, Decodes
  <2>2. /\ keys' = 1 /\ win' = EmptyWindow /\ deadline' = "pending"
        /\ trans' = [key |-> 0, win |-> Mark(w, p.ctr)]
    BY <1>0, <1>8, <2>1 DEF HandleServerHello
  <2>3. TypeOK'
    BY <1>3, <1>4, <1>6, <2>2, EmptyWindowType DEF TypeOK, Keys
  <2>4. WindowExact(win, keys)'
    <3>1. WindowExact(EmptyWindow, 1)'
      BY <1>7, <2>1, EmptyWindowExact DEF Keys
    <3>2. QED BY <2>2, <3>1 DEF WindowExact
  <2>5. TransitionExact'
    <3>1. trans'.key = k /\ trans'.win = Mark(w, p.ctr) /\ keys' = k + 1
      BY <2>1, <2>2
    <3>2. QED BY <1>3, <2>1, <3>1 DEF TransitionExact, WindowExact
  <2>6. FutureKeysUnused'
    BY <1>7, <2>1, <2>2 DEF FutureKeysUnused, Keys
  <2>7. QED BY <1>3, <1>5, <2>3, <2>4, <2>5, <2>6
<1>9. CASE /\ win' = Mark(win, p.ctr) /\ trans' = LiveTransition
           /\ deadline' = LiveDeadline /\ keys' = keys
  <2>0. win' = Mark(w, p.ctr) /\ keys' = k /\ trans'.key = lk /\ trans'.win = lw
    BY <1>0, <1>9
  <2>1. TypeOK'
    BY <1>2, <1>3, <1>4, <1>6, <1>9, <2>0, LiveTransitionExact DEF TypeOK
  <2>2. WindowExact(win, keys)'
    BY <1>3, <2>0 DEF WindowExact
  <2>3. TransitionExact'
    <3>1. SUFFICES ASSUME lk # NoKey
                   PROVE  lk = k - 1 /\ WindowExact(lw, lk)'
      BY <2>0 DEF TransitionExact, WindowExact
    <3>2. lk = k - 1 /\ WindowExact(lw, lk) /\ lk \in Keys
      BY <1>0, <3>1, LiveTransitionExact
    <3>3. lk # k
      BY <1>2, <3>2 DEF Keys
    <3>4. QED BY <1>2, <1>3, <3>2, <3>3, OtherWindowExact
  <2>4. FutureKeysUnused'
    BY <1>7, <2>0 DEF FutureKeysUnused
  <2>5. QED BY <1>3, <1>5, <2>1, <2>2, <2>3, <2>4
<1>10. QED BY <1>8, <1>9 DEF ReceivePrimary

LEMMA FallbackInv ==
  ASSUME IInv, NEW p \in sent, ReceiveFallback(p)
  PROVE  IInv'
<1> USE DEF IInv
<1>0. PICK k, w : k = LiveTransition.key /\ w = LiveTransition.win
  OBVIOUS
<1>1. Decodes(p, k, w) /\ Accept(p)
  BY <1>0 DEF ReceiveFallback, Fallback
<1>2. k \in Keys /\ w \in Windows(Counters) /\ k = keys - 1
      /\ WindowExact(w, k) /\ keys \in Keys
  <2>1. k # NoKey
    BY <1>1 DEF Decodes, TypeOK, Packets, NoKey
  <2>2. QED BY <1>0, <2>1, LiveTransitionExact DEF TypeOK
<1>3. /\ AtMostOnce'
      /\ accepted' = accepted \cup {<<k, p.ctr>>}
      /\ accepted' \in SUBSET (Keys \X Counters)
      /\ p.ctr \in Counters
      /\ WindowExact(Mark(w, p.ctr), k)'
      /\ Mark(w, p.ctr) \in Windows(Counters)
  BY <1>1, <1>2, AcceptFresh
<1>4. UNCHANGED <<srvKey, srvCounter, clock, sent>>
  BY DEF ReceiveFallback
<1>5. HelloUnderInitialKey'
  BY <1>4 DEF HelloUnderInitialKey
<1>6. duplicated' \in SUBSET (Keys \X Counters)
  BY <1>3 DEF AtMostOnce
<1>7. k # keys
  BY <1>2 DEF Keys
<1>8. WindowExact(win, keys)
  OBVIOUS
<1>9. CASE p.kind = "hello" /\ HandleServerHello(win)
  <2>1. k = 0 /\ keys = 1
    BY <1>1, <1>2, <1>9 DEF HelloUnderInitialKey, Decodes, Keys
  <2>2. /\ keys' = 2 /\ win' = EmptyWindow /\ deadline' = "pending"
        /\ trans' = [key |-> 1, win |-> win]
    BY <1>9, <2>1 DEF HandleServerHello
  <2>3. TypeOK'
    BY <1>3, <1>4, <1>6, <2>2, EmptyWindowType DEF TypeOK, Keys
  <2>4. accepted' = accepted \cup {<<0, p.ctr>>}
    BY <1>3, <2>1
  <2>5. \A c \in Counters : <<2, c>> \notin accepted'
    <3>0. 2 \in Keys /\ 2 > keys
      BY <2>1 DEF Keys
    <3>1. \A c \in Counters : <<2, c>> \notin accepted
      BY <3>0 DEF FutureKeysUnused
    <3>2. \A c \in Counters : <<2, c>> # <<0, p.ctr>>
      OBVIOUS
    <3>3. QED BY <2>4, <3>1, <3>2
  <2>6. WindowExact(win, keys)'
    <3>1. WindowExact(EmptyWindow, 2)'
      BY <2>5, EmptyWindowExact DEF Keys
    <3>2. QED BY <2>2, <3>1 DEF WindowExact
  <2>7. TransitionExact'
    <3>1. PICK v : v = win
      OBVIOUS
    <3>2. WindowExact(v, 1)
      BY <1>8, <2>1, <3>1
    <3>3. WindowExact(v, 1)'
      BY <2>4, <3>2, OtherWindowExact DEF Keys
    <3>4. trans'.key = 1 /\ trans'.win = v /\ keys' = 2
      BY <2>2, <3>1
    <3>5. QED BY <3>3, <3>4 DEF TransitionExact, WindowExact
  <2>8. FutureKeysUnused'
    BY <2>2 DEF FutureKeysUnused, Keys
  <2>9. QED BY <1>3, <1>5, <2>3, <2>6, <2>7, <2>8
<1>10. CASE /\ trans' = [key |-> LiveTransition.key,
                        win |-> Mark(LiveTransition.win, p.ctr)]
            /\ deadline' = LiveDeadline /\ UNCHANGED <<keys, win>>
  <2>1. trans' = [key |-> k, win |-> Mark(w, p.ctr)]
    BY <1>0, <1>10
  <2>2. TypeOK'
    BY <1>2, <1>3, <1>4, <1>6, <1>10, <2>1, LiveTransitionExact DEF TypeOK
  <2>3. WindowExact(win, keys)'
    <3>1. WindowExact(win, keys) /\ k # keys
      BY <1>7
    <3>2. QED BY <1>3, <1>10, <3>1 DEF WindowExact
  <2>4. TransitionExact'
    <3>1. trans'.key = k /\ trans'.win = Mark(w, p.ctr) /\ keys' = keys
      BY <1>10, <2>1
    <3>2. QED BY <1>2, <1>3, <3>1 DEF TransitionExact, WindowExact
  <2>5. FutureKeysUnused'
    BY <1>2, <1>3, <1>10 DEF FutureKeysUnused, Keys
  <2>6. QED BY <1>3, <1>5, <2>2, <2>3, <2>4, <2>5
<1>11. QED BY <1>9, <1>10 DEF ReceiveFallback

LEMMA InvalidInv ==
  ASSUME IInv, NEW p \in sent, ReceiveInvalid(p)
  PROVE  IInv'
<1> USE DEF IInv
<1>1. /\ trans' = LiveTransition /\ deadline' = LiveDeadline
      /\ UNCHANGED <<keys, win, srvKey, srvCounter, clock, sent, accepted, duplicated>>
  BY DEF ReceiveInvalid
<1>2. TypeOK'
  BY <1>1, LiveTransitionExact DEF TypeOK
<1>3. TransitionExact'
  BY <1>1, LiveTransitionExact DEF TransitionExact, WindowExact
<1>4. QED
  BY <1>1, <1>2, <1>3
     DEF AtMostOnce, WindowExact, FutureKeysUnused, HelloUnderInitialKey

(* IInv is an invariant of the client's inbound path.                      *)
THEOREM Invariance == Spec => []IInv
<1>1. IInv /\ [Next]_vars => IInv'
  BY EnvironmentInv, PrimaryInv, FallbackInv, InvalidInv DEF Next, Receive
<1>2. QED BY InitInv, <1>1, PTL DEF Spec

(* No datagram is decoded twice: the receive windows of client_wire.rs and *)
(* the handling of the transition keys in client.rs are free of duplicates *)
(* for every window size, search range and number of datagrams.            *)
THEOREM ClientAtMostOnce == Spec => []AtMostOnce
<1>1. IInv => AtMostOnce
  BY DEF IInv
<1>2. QED BY Invariance, <1>1, PTL

(* An exact window decodes a covered datagram that is not accepted yet. *)
LEMMA CoveredDecodes ==
  ASSUME TypeOK, NEW p \in sent, NEW k, NEW w \in Windows(Counters),
         WindowExact(w, k), Covered(p, k, w),
         <<p.key, p.ctr>> \notin accepted, NearWindow(p.tw, clock)
  PROVE  Decodes(p, k, w)
<1>1. p.ctr \in Counters /\ w.highest \in {-1} \cup Counters /\ p.key = k
  BY DEF TypeOK, Packets, Windows, Covered
<1>2. IsNew(w, p.ctr)
  BY <1>1, WindowAssumption, BoundAssumption DEF WindowExact, IsNew, Counters, Covered
<1>3. SearchStart(w) <= p.ctr /\ p.ctr < SearchEnd(w)
  BY <1>1, WindowAssumption, BoundAssumption DEF SearchStart, SearchEnd, Counters, Covered
<1>4. QED BY <1>1, <1>2, <1>3 DEF Decodes, Finds

(* No datagram inside the window of the current keys, or of the previous   *)
(* ones while they are kept, is mistaken for a replay (find_counter of     *)
(* client_wire.rs, transition_recv_window of client.rs).                   *)
THEOREM ClientNoFalseReplay == Spec => []NoFalseReplay
<1>1. IInv => NoFalseReplay
  <2> SUFFICES ASSUME IInv, NEW p \in sent,
                      <<p.key, p.ctr>> \notin accepted, NearWindow(p.tw, clock)
               PROVE  /\ Covered(p, keys, win) => Primary(p)
                      /\ Covered(p, LiveTransition.key, LiveTransition.win) => Fallback(p)
    BY DEF NoFalseReplay
  <2>1. ASSUME Covered(p, keys, win) PROVE Primary(p)
    <3>1. TypeOK /\ win \in Windows(Counters) /\ WindowExact(win, keys)
      BY DEF IInv, TypeOK
    <3>2. QED BY <2>1, <3>1, CoveredDecodes DEF Primary
  <2>2. ASSUME Covered(p, LiveTransition.key, LiveTransition.win) PROVE Fallback(p)
    <3>1. p.key = LiveTransition.key /\ p.key \in {0, 1} /\ keys \in Keys
      BY <2>2 DEF Covered, IInv, TypeOK, Packets
    <3>2. LiveTransition.key # NoKey
      BY <3>1 DEF NoKey
    <3>3. /\ TypeOK /\ LiveTransition.win \in Windows(Counters)
          /\ WindowExact(LiveTransition.win, LiveTransition.key)
          /\ LiveTransition.key = keys - 1
      BY <3>2, LiveTransitionExact DEF IInv
    <3>4. Decodes(p, LiveTransition.key, LiveTransition.win)
      BY <2>2, <3>3, CoveredDecodes
    <3>5. ~ Primary(p)
      BY <3>1, <3>3 DEF Primary, Decodes, Keys
    <3>6. QED BY <3>4, <3>5 DEF Fallback
  <2>3. QED BY <2>1, <2>2
<1>2. QED BY Invariance, <1>1, PTL
=============================================================================
