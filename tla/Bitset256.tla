----------------------------- MODULE Bitset256 -----------------------------
(***************************************************************************)
(* The two 256-bit bitmaps of the system, each a pair of 128-bit words:    *)
(* Bitset256 of aivpn-common/src/client_wire.rs and u256 of                *)
(* aivpn-server/src/session.rs.  The same operations are applied to both   *)
(* and to the set of bit positions that RecvWindow and SessionWindow use   *)
(* in their place.                                                         *)
(***************************************************************************)
EXTENDS Integers, Bitwise

CONSTANT Half   \* bits per word, 128 in the code

ASSUME HalfAssumption == Half \in Nat \ {0}

Size  == 2 * Half
Words == 0 .. (2^Half - 1)
Pairs == [lo : Words, hi : Words]

W == INSTANCE RecvWindow WITH ReorderWindow <- Size, FutureWindow <- 1

VARIABLES
  bitset,   \* client: Bitset256
  wide,     \* server: u256
  bits      \* the set both stand for

bitsVars == <<bitset, wide, bits>>

(* << and >> on one word; what leaves the word is lost. *)
Left(x, n)  == (x * 2^n) % 2^Half
Right(x, n) == x \div 2^n

Zero == [lo |-> 0, hi |-> 0]

(* Bitset256::shl *)
BitsetShl(b, n) ==
  IF n >= Size THEN Zero
  ELSE IF n = 0 THEN b
  ELSE IF n >= Half THEN [lo |-> 0, hi |-> Left(b.lo, n - Half)]
  ELSE [lo |-> Left(b.lo, n), hi |-> Left(b.hi, n) | Right(b.lo, Half - n)]

(* Mutant of ShiftLeft: lo is shifted before its high bits move to hi. *)
ShiftLeftLoFirst(b, n) ==
  IF n = 0 THEN b
  ELSE IF n >= Size THEN Zero
  ELSE IF n >= Half THEN [lo |-> 0, hi |-> Left(b.lo, n - Half)]
  ELSE [lo |-> Left(b.lo, n), hi |-> Left(b.hi, n) | Right(Left(b.lo, n), Half - n)]

(* u256::shift_left *)
ShiftLeft(b, n) ==
  IF n = 0 THEN b
  ELSE IF n >= Size THEN Zero
  ELSE IF n >= Half THEN [lo |-> 0, hi |-> Left(b.lo, n - Half)]
  ELSE [lo |-> Left(b.lo, n), hi |-> Left(b.hi, n) | Right(b.lo, Half - n)]

(* set_bit; no caller passes Size or more. *)
SetBit(b, n) ==
  IF n < Half THEN [lo |-> b.lo | Left(1, n), hi |-> b.hi]
              ELSE [lo |-> b.lo, hi |-> b.hi | Left(1, n - Half)]

(* get_bit *)
GetBit(b, n) ==
  IF n < Half THEN Right(b.lo, n) % 2 = 1 ELSE Right(b.hi, n - Half) % 2 = 1

-----------------------------------------------------------------------------
BitsInit == bitset = Zero /\ wide = Zero /\ bits = {}

Set(n) ==
  /\ bitset' = SetBit(bitset, n)
  /\ wide' = SetBit(wide, n)
  /\ bits' = bits \cup {n}

Shift(n) ==
  /\ bitset' = BitsetShl(bitset, n)
  /\ wide' = ShiftLeft(wide, n)
  /\ bits' = W!Shl(bits, n)

(* reset of the client's window, complete_ratchet of the session. *)
Clear == bitset' = Zero /\ wide' = Zero /\ bits' = {}

BitsNext ==
  \/ \E n \in 0 .. (Size - 1) : Set(n)
  \/ \E n \in 0 .. (Size + 1) : Shift(n)
  \/ Clear

-----------------------------------------------------------------------------
Denotes(b) == b \in Pairs /\ \A n \in 0 .. (Size - 1) : GetBit(b, n) <=> n \in bits

(* BitsExact: whatever bits are set and shifted, across the word boundary  *)
(* and by more than the width, Bitset256 and u256, whose shift_left works  *)
(* in place, hold the set of positions that RecvWindow and SessionWindow   *)
(* take them for (client_wire.rs shl, session.rs shift_left).              *)
BitsExact == Denotes(bitset) /\ Denotes(wide)
=============================================================================
