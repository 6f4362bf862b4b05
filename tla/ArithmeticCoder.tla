--------------------------- MODULE ArithmeticCoder ---------------------------
(***************************************************************************)
(* The arithmetic of codec/arithmetic.py: what both ends of a carrier do   *)
(* with their 32-bit interval for one token.  The registers have Precision *)
(* bits and the tables the frequency total Total; the renormalisation loop *)
(* is the step of its user, one iteration at a time.                       *)
(***************************************************************************)
EXTENDS Integers, Sequences

CONSTANTS
  Quarter,    \* QUARTER
  Total       \* FREQUENCY_TOTAL

(* 2^30 and 2^15 in the code. *)
ASSUME CoderAssumption ==
  /\ Quarter \in Nat \ {0}
  /\ Total \in Nat \ {0}
  /\ Total <= Quarter

Half == 2 * Quarter
Full == 4 * Quarter
Mask == Full - 1
Bit  == {0, 1}

Intervals == [low : 0..Mask, high : 0..Mask]
Whole     == [low |-> 0, high |-> Mask]
Size(r)   == r.high - r.low + 1

(* A cumulative table, as table_counts validates it; symbol s of the table *)
(* is the s-th candidate, with frequency c[s + 1] - c[s].                  *)
IsTable(c) ==
  /\ c \in Seq(0..Total)
  /\ Len(c) >= 3
  /\ c[1] = 0 /\ c[Len(c)] = Total
  /\ \A i \in 1..Len(c) - 1 : c[i] < c[i + 1]
Symbols(c) == 1..Len(c) - 1

(* Mutant of Scaled: the code is scaled without the rounding up. *)
ScaledPlain(r, code) == ((code - r.low) * Total) \div Size(r)

(* The symbol whose share of the interval holds the code; bisect_right.    *)
Scaled(r, code) == ((code - r.low + 1) * Total - 1) \div Size(r)
SymbolOf(r, code, c) ==
  CHOOSE s \in 0..Len(c) :
    /\ s > 0 => c[s] <= Scaled(r, code)
    /\ s < Len(c) => Scaled(r, code) < c[s + 1]

(* Mutant of Narrow: the high end is the next symbol's low end. *)
NarrowOver(r, c, s) ==
  [low  |-> r.low + (Size(r) * c[s]) \div Total,
   high |-> r.low + (Size(r) * c[s + 1]) \div Total]

(* The share of symbol s. *)
Narrow(r, c, s) ==
  [low  |-> r.low + (Size(r) * c[s]) \div Total,
   high |-> r.low + (Size(r) * c[s + 1]) \div Total - 1]

-----------------------------------------------------------------------------
(* The renormalisation loop goes on while the interval lies in the lower   *)
(* half, in the upper half, or in the two middle quarters.                 *)
Lower(r)  == r.high < Half
Upper(r)  == r.low >= Half
Middle(r) == r.low >= Quarter /\ r.high < 3 * Quarter
Narrowed(r) == Lower(r) \/ Upper(r) \/ Middle(r)

(* What an iteration subtracts, and its shift by one bit. *)
Offset(r) == IF Lower(r) THEN 0 ELSE IF Upper(r) THEN Half ELSE Quarter
Shift(x, bit) == (2 * x + bit) % Full

Widen(r) == [low  |-> Shift(r.low - Offset(r), 0),
             high |-> Shift(r.high - Offset(r), 1)]

(* ArithmeticBitEncoder: its interval, and how many middle shifts wait for *)
(* the bit that tells them.  An iteration in a half puts out that bit and  *)
(* then the pending ones inverted.                                         *)
Fresh == [r |-> Whole, pending |-> 0]
Output(bit, pending) == <<bit>> \o [i \in 1..pending |-> 1 - bit]

(* Mutant of Emitted: the pending bits repeat the bit. *)
EmittedSame(e) ==
  IF ~ (Lower(e.r) \/ Upper(e.r)) THEN <<>>
  ELSE [i \in 1..e.pending + 1 |-> IF Lower(e.r) THEN 0 ELSE 1]

Emitted(e) ==
  IF Lower(e.r) THEN Output(0, e.pending)
  ELSE IF Upper(e.r) THEN Output(1, e.pending)
  ELSE <<>>

(* Mutant of Encode: the pending bits stay after they were put out. *)
EncodeKept(e) ==
  [r |-> Widen(e.r), pending |-> e.pending + (IF Middle(e.r) THEN 1 ELSE 0)]

Encode(e) ==
  [r |-> Widen(e.r),
   pending |-> IF Lower(e.r) \/ Upper(e.r) THEN 0 ELSE e.pending + 1]
=============================================================================
