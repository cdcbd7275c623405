--------------------------- MODULE MCSessionTable ---------------------------
(***************************************************************************)
(* Small instances of SessionTable.  Workers and public addresses are      *)
(* interchangeable: no definition of the model tells them apart.           *)
(***************************************************************************)
EXTENDS SessionTable, TLC

CONSTANT MaxHandshakes   \* bound: handshakes begun since the table was empty

VARIABLE begun           \* how many there were

WorkerAndIpSymmetry == Permutations(Workers) \cup Permutations(IPs)

BoundedInit == Init /\ begun = 0

BoundedNext ==
  /\ Next
  /\ begun' = IF live' = {} /\ Quiet' THEN 0
              ELSE IF \E w \in Workers : pc[w] = "idle" /\ pc'[w] = "create"
              THEN begun + 1 ELSE begun
  /\ begun' <= MaxHandshakes

BoundedSpec == BoundedInit /\ [][BoundedNext]_<<vars, begun>>
=============================================================================
