----------------------------- MODULE MCWindows -----------------------------
(***************************************************************************)
(* The windows of the two ends: the client's on the way down, the          *)
(* server's on the way up, and the words that both are kept in.  The three *)
(* share no state: a behaviour is of one of them.                          *)
(***************************************************************************)
EXTENDS ClientReceive, SessionWindow, Bitset256

(* All endpoints are ports behind one address; the workers take turns. *)
OneIp      == [e \in Endpoints |-> "ip"]
PortModulo == [e \in Endpoints |-> e % 2]

WindowsInit == Init /\ SessInit /\ BitsInit

WindowsNext ==
  \/ SessInit /\ BitsInit /\ Next /\ UNCHANGED <<sessVars, bitsVars>>
  \/ Init /\ BitsInit /\ SessNext /\ UNCHANGED <<vars, bitsVars>>
  \/ Init /\ SessInit /\ BitsNext /\ UNCHANGED <<vars, sessVars>>

WindowsSpec == WindowsInit /\ [][WindowsNext]_<<vars, sessVars, bitsVars>>
=============================================================================
