---------------------------- MODULE RecvWindow ----------------------------
(***************************************************************************)
(* The receive window every client keeps per set of session keys:          *)
(* RecvWindow of aivpn-common/src/client_wire.rs.  A window is a record    *)
(* with the highest counter accepted so far (-1 when none) and a bitmap of *)
(* the last ReorderWindow counters.  The 256-bit integer is represented by *)
(* the set of the positions of its 1 bits; module Bitset256 checks the two *)
(* halves of the integer against that set.                                 *)
(***************************************************************************)
EXTENDS Integers

CONSTANTS
  ReorderWindow,   \* RECV_REORDER_WINDOW, 256 in the code
  FutureWindow     \* RECV_FUTURE_SEARCH_WINDOW, 4096 in the code

ASSUME WindowAssumption ==
  /\ ReorderWindow \in Nat \ {0}
  /\ FutureWindow \in Nat \ {0}

BitPositions == 0 .. (ReorderWindow - 1)

(* RecvWindow::new and reset. *)
EmptyWindow == [highest |-> -1, bitmap |-> {}]

Windows(counters) == [highest : {-1} \cup counters, bitmap : SUBSET BitPositions]

(* Mutant of Shl: bits that leave the window are kept. *)
ShlUnmasked(bits, shift) == {b + shift : b \in bits}

(* Bitset256::shl: the bits that leave the window are lost. *)
Shl(bits, shift) == {b + shift : b \in bits} \cap BitPositions

(* RecvWindow::is_new *)
IsNew(w, counter) ==
  \/ w.highest < 0
  \/ counter > w.highest
  \/ /\ w.highest - counter < ReorderWindow
     /\ (w.highest - counter) \notin w.bitmap

(* The counters find_counter tries: start .. end - 1. *)
SearchStart(w) ==
  IF w.highest < ReorderWindow THEN 0 ELSE w.highest - (ReorderWindow - 1)

SearchEnd(w) ==
  IF w.highest < 0 THEN FutureWindow ELSE w.highest + FutureWindow + 1

(* The time windows find_counter tries: the current one and its neighbours. *)
NearWindow(tw, now) == tw \in (now - 1) .. (now + 1)

(* find_counter returns the packet's counter. A tag is a keyed hash of     *)
(* (counter, time window), so it matches no other pair.                    *)
Finds(w, counter, tw, now) ==
  /\ SearchStart(w) <= counter
  /\ counter < SearchEnd(w)
  /\ NearWindow(tw, now)
  /\ IsNew(w, counter)

(* Mutant of Mark: the bitmap is not shifted when the window advances. *)
MarkWithoutShift(w, counter) ==
  IF w.highest < 0 \/ counter > w.highest
  THEN [highest |-> counter, bitmap |-> w.bitmap \cup {0}]
  ELSE [highest |-> w.highest, bitmap |-> w.bitmap \cup {w.highest - counter}]

(* RecvWindow::mark *)
Mark(w, counter) ==
  IF w.highest < 0 \/ counter > w.highest
  THEN [highest |-> counter,
        bitmap  |-> IF w.highest < 0 \/ counter - w.highest >= ReorderWindow
                    THEN {0}
                    ELSE Shl(w.bitmap, counter - w.highest) \cup {0}]
  ELSE IF w.highest - counter < ReorderWindow
       THEN [highest |-> w.highest,
             bitmap  |-> w.bitmap \cup {w.highest - counter}]
       ELSE w
=============================================================================
