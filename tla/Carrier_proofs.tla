---------------------------- MODULE Carrier_proofs ----------------------------
(***************************************************************************)
(* The carrier for registers, tables, packets and texts of any size.       *)
(*  - The arithmetic of the coder: an interval wider than a quarter, as    *)
(*    the renormalisation leaves it, has a share for every symbol, and the *)
(*    shares leave no gap for a code to fall into.                         *)
(*  - The sender's two coders: the code stays inside the decoder's         *)
(*    interval, the mirror is back in the decoder's state at every token,  *)
(*    and what it confirms are the source's own bits.                      *)
(*  - The payload as a history of encoders: the sender's mirror went       *)
(*    through it, the receiver's encoder goes through it again, so that an *)
(*    intact text opens and one that is cut does not.                      *)
(*  - The labels the page shows for the tokens.                            *)
(***************************************************************************)
EXTENDS SectionLabels, FiniteSetTheorems, WellFoundedInduction, SequenceTheorems,
        TLAPS

(* An interval as the renormalisation leaves it, ready for a table. *)
Ordered(r) == r \in Intervals /\ r.low <= r.high
Wide(r)    == Ordered(r) /\ Size(r) > Quarter

LEMMA Quotient ==
  ASSUME NEW x \in Nat, NEW d \in Nat \ {0}
  PROVE  /\ x \div d \in Nat
         /\ d * (x \div d) <= x
         /\ x < d * (x \div d) + d
OBVIOUS

LEMMA Remainder ==
  ASSUME NEW x \in Nat, NEW d \in Nat \ {0}, x < d
  PROVE  x % d = x
OBVIOUS

(* The whole register, which both coders start from, is wide. *)
LEMMA WholeWide == Wide(Whole)
BY CoderAssumption DEF Wide, Ordered, Intervals, Whole, Size, Mask, Full

-----------------------------------------------------------------------------
(* Products of natural numbers, which the leaves below cite one by one. *)
LEMMA Monotone ==
  ASSUME NEW x \in Nat, NEW y \in Nat, NEW d \in Nat, x <= y
  PROVE  d * x <= d * y /\ d * x \in Nat /\ d * y \in Nat
OBVIOUS

LEMMA Cancelled ==
  ASSUME NEW x \in Nat, NEW y \in Nat, NEW d \in Nat \ {0}
  PROVE  /\ d * x < d * y => x < y
         /\ d * x <= d * y => x <= y
<1>1. ASSUME y <= x PROVE d * y <= d * x
  BY <1>1, Monotone
<1>2. ASSUME y + 1 <= x PROVE d * y + d <= d * x
  <2>1. d * (y + 1) <= d * x
    BY <1>2, Monotone
  <2> QED
    BY <2>1
<1>3. d * x \in Nat /\ d * y \in Nat
  BY Monotone
<1> QED
  BY <1>1, <1>2, <1>3

-----------------------------------------------------------------------------
(* Counting up: a set of numbers that holds 0 and every successor of its   *)
(* members holds them all.                                                 *)
LEMMA CountUp ==
  ASSUME NEW S, 0 \in S, \A n \in Nat : n \in S => n + 1 \in S
  PROVE  \A n \in Nat : n \in S
<1> SUFFICES ASSUME NEW m \in Nat, m \notin S PROVE FALSE
  OBVIOUS
<1> DEFINE T == {1..i : i \in {k \in 0..m : k \notin S}}
           R == StrictSubsetOrdering(1..m)
<1>1. T \subseteq FiniteSubsetsOf(1..m) /\ T # {}
  <2>1. \A i \in 0..m : 1..i \in SUBSET (1..m) /\ IsFiniteSet(1..i)
    BY FS_Interval
  <2>2. 1..m \in T
    OBVIOUS
  <2> QED
    BY <2>1, <2>2 DEF FiniteSubsetsOf
<1>2. IsWellFoundedOn(R, FiniteSubsetsOf(1..m))
  BY FS_StrictSubsetOrderingWellFounded
<1>3. PICK x \in T : \A y \in T : ~ (<<y, x>> \in R)
  <2> HIDE DEF T, R
  <2> QED
    BY <1>1, <1>2, WFMin
<1>4. PICK k \in 0..m : k \notin S /\ x = 1..k
  BY <1>3
<1>5. k # 0 /\ k - 1 \in Nat /\ k - 1 \notin S
  BY <1>4
<1>6. <<1..k - 1, 1..k>> \in R
  <2>1. 1..k - 1 \subseteq 1..k /\ k \in 1..k /\ k \notin 1..k - 1
        /\ 1..k \subseteq 1..m
    BY <1>5
  <2> QED
    BY <2>1 DEF StrictSubsetOrdering
<1>7. 1..k - 1 \in T
  BY <1>5
<1> QED
  BY <1>3, <1>4, <1>6, <1>7

(* The least element of a set of numbers. *)
LEMMA MinIs ==
  ASSUME NEW S \in SUBSET Nat, S # {}
  PROVE  Min(S) \in S /\ \A i \in S : Min(S) <= i
<1>1. \E x \in S : \A y \in S : x <= y
  <2> SUFFICES ASSUME \A x \in S : \E y \in S : y < x PROVE FALSE
    OBVIOUS
  <2> DEFINE N == {n \in Nat : \A i \in S : n <= i}
  <2>1. 0 \in N
    OBVIOUS
  <2>2. \A n \in Nat : n \in N => n + 1 \in N
    OBVIOUS
  <2>3. \A n \in Nat : n \in N
    <3> HIDE DEF N
    <3> QED
      BY <2>1, <2>2, CountUp
  <2>4. PICK x \in S : TRUE
    OBVIOUS
  <2>5. x + 1 \in N /\ x \in Nat
    BY <2>3
  <2> QED
    BY <2>5
<1> QED
  BY <1>1 DEF Min

(* Powers of two, counted as sets of numbers. *)
LEMMA PowerCounts ==
  ASSUME NEW n \in Nat
  PROVE  /\ IsFiniteSet(1..n) /\ IsFiniteSet(SUBSET (1..n))
         /\ Cardinality(SUBSET (1..n)) = 2 ^ n
         /\ 2 ^ n \in Nat \ {0}
<1>1. IsFiniteSet(1..n) /\ Cardinality(1..n) = n
  <2>1. 1 \in Int /\ n \in Int
    OBVIOUS
  <2>2. IsFiniteSet(1..n) /\ Cardinality(1..n) = IF 1 > n THEN 0 ELSE n - 1 + 1
    BY <2>1, FS_Interval
  <2> QED
    BY <2>2
<1>2. IsFiniteSet(SUBSET (1..n)) /\ Cardinality(SUBSET (1..n)) = 2 ^ n
  BY <1>1, FS_SUBSET
<1>3. Cardinality(SUBSET (1..n)) \in Nat \ {0}
  <2>1. SUBSET (1..n) # {}
    OBVIOUS
  <2> QED
    BY <1>2, <2>1, FS_CardinalityType, FS_EmptySet
<1> QED
  BY <1>1, <1>2, <1>3

LEMMA PowerDouble ==
  ASSUME NEW n \in Nat
  PROVE  2 ^ (n + 1) = 2 * 2 ^ n /\ 2 ^ n \in Nat \ {0} /\ 2 ^ (n + 1) \in Nat \ {0}
<1> DEFINE A == SUBSET (1..n)
           m == n + 1
           B == {x \cup {m} : x \in A}
           f == [x \in A |-> x \cup {m}]
<1>1. m \in Nat /\ m \notin 1..n /\ 1..m = 1..n \cup {m}
  OBVIOUS
<1>2. SUBSET (1..m) = A \cup B
  <2>1. ASSUME NEW x \in SUBSET (1..m) PROVE x \in A \cup B
    <3>1. CASE m \in x
      <4>1. x \ {m} \in A /\ x = (x \ {m}) \cup {m}
        BY <1>1, <3>1
      <4> QED
        BY <4>1
    <3>2. CASE m \notin x
      BY <1>1, <3>2
    <3> QED
      BY <3>1, <3>2
  <2>2. A \subseteq SUBSET (1..m) /\ B \subseteq SUBSET (1..m)
    BY <1>1
  <2> QED
    BY <2>1, <2>2
<1>3. A \cap B = {}
  BY <1>1
<1>4. IsFiniteSet(B) /\ Cardinality(B) = Cardinality(A)
  <2>1. f \in Bijection(A, B)
    <3>1. f \in [A -> B]
      OBVIOUS
    <3>2. \A x, y \in A : f[x] = f[y] => x = y
      BY <1>1
    <3>3. \A y \in B : \E x \in A : f[x] = y
      OBVIOUS
    <3> HIDE DEF f, A, B
    <3> QED
      BY <3>1, <3>2, <3>3 DEF Bijection, Injection, Surjection, IsInjective
  <2>2. ExistsBijection(A, B)
    BY <2>1 DEF ExistsBijection
  <2> HIDE DEF B
  <2> QED
    BY <2>2, PowerCounts, FS_Bijection
<1>5. Cardinality(A \cup B) = Cardinality(A) + Cardinality(B) - Cardinality({})
      /\ Cardinality({}) = 0
  <2>1. IsFiniteSet(A)
    BY PowerCounts
  <2> HIDE DEF A, B
  <2>2. Cardinality(A \cup B)
          = Cardinality(A) + Cardinality(B) - Cardinality(A \cap B)
    BY <2>1, <1>4, FS_Union
  <2> QED
    BY <2>2, <1>3, FS_EmptySet
<1>6. Cardinality(A) = 2 ^ n /\ 2 ^ n \in Nat \ {0}
      /\ Cardinality(SUBSET (1..m)) = 2 ^ m /\ 2 ^ m \in Nat \ {0}
  BY <1>1, PowerCounts
<1>7. 2 ^ m = 2 ^ n + 2 ^ n
  <2>1. Cardinality(A \cup B) = 2 ^ m
    BY <1>2, <1>6
  <2> HIDE DEF A, B, m
  <2> QED
    BY <2>1, <1>4, <1>5, <1>6
<1> QED
  BY <1>6, <1>7

LEMMA PowerSum ==
  ASSUME NEW a \in Nat, NEW b \in Nat
  PROVE  2 ^ (a + b) = 2 ^ a * 2 ^ b
<1> DEFINE S == {n \in Nat : 2 ^ (a + n) = 2 ^ a * 2 ^ n}
<1>1. 2 ^ 0 = 1 /\ 2 ^ a \in Nat
  BY PowerDouble
<1>2. 0 \in S
  BY <1>1
<1>3. ASSUME NEW n \in Nat, n \in S PROVE n + 1 \in S
  <2>1. 2 ^ (a + n + 1) = 2 * 2 ^ (a + n)
    <3>1. a + n \in Nat
      OBVIOUS
    <3> QED
      BY <3>1, PowerDouble
  <2>2. 2 ^ (n + 1) = 2 * 2 ^ n /\ 2 ^ n \in Nat
    BY PowerDouble
  <2>3. 2 ^ (a + n) = 2 ^ a * 2 ^ n
    BY <1>3
  <2>4. \A x, y \in Nat : 2 * (x * y) = x * (2 * y)
    OBVIOUS
  <2>5. 2 ^ (a + (n + 1)) = 2 ^ a * 2 ^ (n + 1)
    BY <1>1, <2>1, <2>2, <2>3, <2>4
  <2> QED
    BY <2>5
<1> HIDE DEF S
<1>4. b \in S
  BY <1>2, <1>3, CountUp
<1> QED
  BY <1>4 DEF S

-----------------------------------------------------------------------------
(* A table and its shares. *)
(* The ends of the shares a..b of S places cut by T frequencies. *)
LEMMA Shares ==
  ASSUME NEW S \in Nat, NEW T \in Nat \ {0}, T <= S,
         NEW a \in Nat, NEW b \in Nat, a < b, b <= T
  PROVE  /\ (S * a) \div T \in Nat /\ (S * b) \div T \in Nat
         /\ (S * a) \div T < (S * b) \div T
         /\ (S * b) \div T <= S
<1>1. S * a \in Nat /\ S * b \in Nat /\ S * T \in Nat
  BY Monotone
<1> DEFINE p == (S * a) \div T
           q == (S * b) \div T
<1>2. p \in Nat /\ T * p <= S * a /\ S * a < T * p + T
  BY <1>1, Quotient
<1>3. q \in Nat /\ T * q <= S * b /\ S * b < T * q + T
  BY <1>1, Quotient
<1>4. S * a + S <= S * b
  <2>1. S * (a + 1) <= S * b
    BY Monotone
  <2> QED
    BY <2>1
<1>5. S * b <= S * T
  BY Monotone
<1>6. T * p \in Nat /\ T * q \in Nat
  BY <1>2, <1>3, Monotone
<1> HIDE DEF p, q
<1>7. T * p < T * q
  BY <1>1, <1>2, <1>3, <1>4, <1>6
<1>8. T * q <= T * S
  BY <1>1, <1>3, <1>5, <1>6
<1>9. p < q /\ q <= S
  BY <1>2, <1>3, <1>7, <1>8, Cancelled
<1> QED
  BY <1>2, <1>3, <1>9 DEF p, q

(* A table narrows an interval to a part of it, and leaves something.      *)
LEMMA NarrowInside ==
  ASSUME NEW r, Wide(r), NEW c, IsTable(c), NEW s \in Symbols(c)
  PROVE  /\ Ordered(Narrow(r, c, s))
         /\ r.low <= Narrow(r, c, s).low /\ Narrow(r, c, s).high <= r.high
<1>1. /\ r.low \in Nat /\ r.high \in Nat /\ r.high <= Mask /\ Mask \in Nat
      /\ Size(r) \in Nat /\ Total <= Size(r)
      /\ r.high = r.low + Size(r) - 1
  BY CoderAssumption DEF Wide, Ordered, Intervals, Size, Mask, Full
<1>2. /\ c[s] \in Nat /\ c[s + 1] \in Nat
      /\ c[s] < c[s + 1] /\ c[s + 1] <= Total
  BY CoderAssumption DEF IsTable, Symbols
<1> DEFINE p == (Size(r) * c[s]) \div Total
           q == (Size(r) * c[s + 1]) \div Total
<1>3. p \in Nat /\ q \in Nat /\ p < q /\ q <= Size(r)
  BY <1>1, <1>2, Shares, CoderAssumption
<1>4. Narrow(r, c, s) = [low |-> r.low + p, high |-> r.low + q - 1]
  BY DEF Narrow
<1> HIDE DEF p, q
<1> QED
  BY <1>1, <1>3, <1>4 DEF Ordered, Intervals

(* When the loop stops, the interval is wide again. *)
LEMMA WideAfter ==
  ASSUME NEW r, Ordered(r), ~Narrowed(r)
  PROVE  Wide(r)
BY CoderAssumption
   DEF Wide, Ordered, Intervals, Size, Narrowed, Lower, Upper, Middle, Half,
       Mask, Full

(* An iteration keeps the ends of the interval, and the code between them. *)
LEMMA ShiftIs ==
  ASSUME NEW x \in 0..Half - 1, NEW bit \in Bit
  PROVE  Shift(x, bit) = 2 * x + bit /\ Shift(x, bit) \in 0..Mask
<1>1. 2 * x + bit \in Nat /\ Full \in Nat \ {0} /\ 2 * x + bit < Full
  BY CoderAssumption DEF Bit, Half, Full
<1>2. (2 * x + bit) % Full = 2 * x + bit
  BY <1>1, Remainder
<1> QED
  BY <1>1, <1>2 DEF Shift, Mask

LEMMA WidenInside ==
  ASSUME NEW r, Ordered(r), Narrowed(r)
  PROVE  /\ Ordered(Widen(r))
         /\ \A code \in r.low..r.high, bit \in Bit :
              Shift(code - Offset(r), bit) \in Widen(r).low..Widen(r).high
<1>1. \A x \in r.low..r.high : x - Offset(r) \in 0..Half - 1
  BY CoderAssumption
     DEF Ordered, Intervals, Narrowed, Lower, Upper, Middle, Offset, Half,
         Mask, Full
<1>2. /\ r.low \in Int /\ r.high \in Int /\ r.low <= r.high
      /\ Offset(r) \in Int
  BY CoderAssumption DEF Ordered, Intervals, Offset, Half, Mask, Full
<1>3. Widen(r).low = 2 * (r.low - Offset(r)) /\ Widen(r).low \in 0..Mask
  <2>1. Shift(r.low - Offset(r), 0) = 2 * (r.low - Offset(r)) + 0
        /\ Shift(r.low - Offset(r), 0) \in 0..Mask
    BY <1>1, <1>2, ShiftIs DEF Bit
  <2> QED
    BY <2>1, <1>2 DEF Widen
<1>4. Widen(r).high = 2 * (r.high - Offset(r)) + 1 /\ Widen(r).high \in 0..Mask
  <2>1. Shift(r.high - Offset(r), 1) = 2 * (r.high - Offset(r)) + 1
        /\ Shift(r.high - Offset(r), 1) \in 0..Mask
    BY <1>1, <1>2, ShiftIs DEF Bit
  <2> QED
    BY <2>1, <1>2 DEF Widen
<1>5. Ordered(Widen(r))
  BY <1>2, <1>3, <1>4 DEF Ordered, Intervals, Widen
<1>6. ASSUME NEW code \in r.low..r.high, NEW bit \in Bit
      PROVE  Shift(code - Offset(r), bit) \in Widen(r).low..Widen(r).high
  <2>1. Shift(code - Offset(r), bit) = 2 * (code - Offset(r)) + bit
    BY <1>1, ShiftIs
  <2> QED
    BY <2>1, <1>2, <1>3, <1>4 DEF Bit
<1> QED
  BY <1>5, <1>6

-----------------------------------------------------------------------------
(* A value below the total lies in the share of some symbol: the first one *)
(* whose upper end is above it.                                            *)
LEMMA SomeShare ==
  ASSUME NEW c, IsTable(c), NEW v \in 0..Total - 1
  PROVE  \E s \in Symbols(c) : c[s] <= v /\ v < c[s + 1]
<1> DEFINE I == {i \in 1..Len(c) - 1 : v < c[i + 1]}
           T == {1..i : i \in I}
           R == StrictSubsetOrdering(1..Len(c))
<1>1. Len(c) \in Nat /\ Len(c) >= 3 /\ \A i \in 1..Len(c) : c[i] \in Nat
  BY CoderAssumption DEF IsTable
<1>2. T \subseteq FiniteSubsetsOf(1..Len(c)) /\ T # {}
  <2>1. \A i \in I : 1..i \in SUBSET (1..Len(c)) /\ IsFiniteSet(1..i)
    <3>1. ASSUME NEW i \in I
          PROVE  1..i \in SUBSET (1..Len(c)) /\ IsFiniteSet(1..i)
      <4>1. i \in Int /\ 1 \in Int /\ i <= Len(c)
        BY <1>1
      <4>2. IsFiniteSet(1..i)
        BY <4>1, FS_Interval
      <4> QED
        BY <1>1, <4>1, <4>2
    <3> QED
      BY <3>1
  <2>2. Len(c) - 1 \in I
    BY <1>1, CoderAssumption DEF IsTable
  <2> QED
    BY <2>1, <2>2 DEF FiniteSubsetsOf
<1>3. IsWellFoundedOn(R, FiniteSubsetsOf(1..Len(c)))
  BY <1>1, FS_Interval, FS_StrictSubsetOrderingWellFounded
<1>4. PICK x \in T : \A y \in T : ~ (<<y, x>> \in R)
  <2> HIDE DEF T, R
  <2> QED
    BY <1>2, <1>3, WFMin
<1>5. PICK s \in I : x = 1..s
  BY <1>4
<1>6. c[s] <= v
  <2> SUFFICES ASSUME v < c[s] PROVE FALSE
    BY <1>1
  <2>1. s # 1
    BY CoderAssumption DEF IsTable
  <2>2. s - 1 \in I
    BY <2>1, <1>1
  <2>3. <<1..s - 1, 1..s>> \in R
    <3>1. 1..s - 1 \subseteq 1..s /\ s \in 1..s /\ s \notin 1..s - 1
      BY <1>1
    <3>2. 1..s \subseteq 1..Len(c)
      BY <1>1
    <3> QED
      BY <3>1, <3>2 DEF StrictSubsetOrdering
  <2> QED
    BY <2>2, <2>3, <1>4, <1>5
<1> QED
  BY <1>6 DEF Symbols

(* The place y of the S places 1..S lies in the part of a symbol whose     *)
(* share a..b holds its scaled value.                                      *)
LEMMA PlaceInShare ==
  ASSUME NEW S \in Nat \ {0}, NEW T \in Nat \ {0}, NEW y \in 1..S,
         NEW a \in Nat, NEW b \in Nat,
         a <= (y * T - 1) \div S, (y * T - 1) \div S < b
  PROVE  (S * a) \div T < y /\ y <= (S * b) \div T
<1> DEFINE z == y * T
           v == (z - 1) \div S
           p == (S * a) \div T
           q == (S * b) \div T
<1>1. z \in Nat \ {0} /\ z = T * y
  <2>1. T * 1 <= T * y /\ T * y \in Nat
    BY Monotone
  <2> QED
    BY <2>1
<1>2. v \in Nat /\ S * v <= z - 1 /\ z - 1 < S * v + S
  <2> HIDE DEF z
  <2> QED
    BY <1>1, Quotient
<1>3. S * a \in Nat /\ S * b \in Nat /\ S * v \in Nat
  <2> HIDE DEF v
  <2> QED
    BY <1>2, Monotone
<1>4. p \in Nat /\ T * p <= S * a
  BY <1>3, Quotient
<1>5. q \in Nat /\ S * b < T * q + T
  BY <1>3, Quotient
<1> HIDE DEF z, p, q
<1>6. S * a <= S * v
  BY <1>2, Monotone DEF z
<1>7. S * v + S <= S * b
  <2>1. v + 1 <= b
    BY <1>2 DEF z
  <2> HIDE DEF v
  <2>2. S * (v + 1) <= S * b
    BY <2>1, <1>2, Monotone
  <2>3. S * (v + 1) = S * v + S
    BY <1>2
  <2> QED
    BY <2>2, <2>3
<1> HIDE DEF v
<1>8. T * p < T * y
  <2>1. T * p \in Nat
    BY <1>4, Monotone
  <2> QED
    BY <2>1, <1>1, <1>2, <1>3, <1>4, <1>6
<1>9. T * y < T * (q + 1)
  <2>1. T * q \in Nat /\ T * (q + 1) = T * q + T
    BY <1>5, Monotone
  <2> QED
    BY <2>1, <1>1, <1>2, <1>3, <1>5, <1>7
<1>10. p < y /\ y < q + 1
  BY <1>4, <1>5, <1>8, <1>9, Cancelled
<1> QED
  BY <1>4, <1>5, <1>10 DEF p, q

(* A code in a wide interval selects a symbol of the table, and stays in   *)
(* the share of that symbol.                                               *)
LEMMA SymbolFound ==
  ASSUME NEW r, Wide(r), NEW c, IsTable(c), NEW code \in r.low..r.high
  PROVE  /\ SymbolOf(r, code, c) \in Symbols(c)
         /\ LET n == Narrow(r, c, SymbolOf(r, code, c))
            IN  code \in n.low..n.high
<1> DEFINE S == Size(r)
           y == code - r.low + 1
           v == Scaled(r, code)
           s == SymbolOf(r, code, c)
<1>1. /\ S \in Nat \ {0} /\ y \in 1..S /\ r.low \in Nat
      /\ v = (y * Total - 1) \div S
  BY CoderAssumption DEF Wide, Ordered, Intervals, Size, Mask, Full, Scaled
<1>2. v \in 0..Total - 1
  <2> HIDE DEF S, y
  <2>1. Total * 1 <= Total * y /\ Total * y <= Total * S
    BY <1>1, Monotone, CoderAssumption
  <2>2. y * Total - 1 \in Nat /\ y * Total - 1 < S * Total
    BY <1>1, <2>1, CoderAssumption
  <2>3. v \in Nat /\ S * v <= y * Total - 1
    BY <1>1, <2>2, Quotient
  <2>4. S * v < S * Total /\ S * v \in Nat
    BY <1>1, <2>2, <2>3, Monotone, CoderAssumption
  <2>5. v < Total
    BY <1>1, <2>3, <2>4, Cancelled, CoderAssumption
  <2> QED
    BY <2>3, <2>5, CoderAssumption
<1>3. Len(c) \in Nat /\ Len(c) >= 3 /\ \A i \in 1..Len(c) : c[i] \in Nat
  BY CoderAssumption DEF IsTable
<1>4. /\ s \in 0..Len(c)
      /\ s > 0 => c[s] <= v
      /\ s < Len(c) => v < c[s + 1]
  <2>1. \E i \in 0..Len(c) :
          (i > 0 => c[i] <= v) /\ (i < Len(c) => v < c[i + 1])
    BY <1>2, <1>3, SomeShare DEF Symbols
  <2> QED
    BY <2>1 DEF SymbolOf
<1>5. s \in Symbols(c)
  <2> HIDE DEF s, v
  <2>1. s # 0
    BY <1>2, <1>3, <1>4 DEF IsTable
  <2>2. s # Len(c)
    BY <1>2, <1>3, <1>4, CoderAssumption DEF IsTable
  <2> QED
    BY <2>1, <2>2, <1>3, <1>4 DEF Symbols
<1>6. c[s] \in Nat /\ c[s + 1] \in Nat /\ c[s] <= v /\ v < c[s + 1]
  <2> HIDE DEF s, v
  <2> QED
    BY <1>3, <1>4, <1>5 DEF Symbols
<1>7. (S * c[s]) \div Total < y /\ y <= (S * c[s + 1]) \div Total
  <2> HIDE DEF S, y, s
  <2> QED
    BY <1>1, <1>6, PlaceInShare, CoderAssumption
<1>8. /\ (S * c[s]) \div Total \in Nat
      /\ (S * c[s + 1]) \div Total \in Nat
  <2> HIDE DEF S, s
  <2>1. S * c[s] \in Nat /\ S * c[s + 1] \in Nat
    BY <1>1, <1>6, Monotone
  <2> QED
    BY <2>1, Quotient, CoderAssumption
<1>9. code = r.low + y - 1 /\ y \in Nat
  BY <1>1 DEF Wide, Ordered, Intervals
<1> DEFINE n == Narrow(r, c, s)
<1>10. /\ n.low = r.low + (S * c[s]) \div Total
       /\ n.high = r.low + (S * c[s + 1]) \div Total - 1
  BY DEF Narrow
<1>11. code \in n.low..n.high
  <2> HIDE DEF n, S, y, s
  <2> QED
    BY <1>1, <1>7, <1>8, <1>9, <1>10
<1> QED
  BY <1>5, <1>11

(* Division is settled by its bounds. *)
LEMMA QuotientIs ==
  ASSUME NEW x \in Nat, NEW d \in Nat \ {0}, NEW q \in Nat,
         d * q <= x, x < d * q + d
  PROVE  x \div d = q /\ x % d = x - d * q
<1> DEFINE y == x \div d
<1>1. y \in Nat /\ d * y <= x /\ x < d * y + d
  BY Quotient
<1> HIDE DEF y
<1>2. d * q \in Nat /\ d * y \in Nat /\ d * (q + 1) = d * q + d
      /\ d * (y + 1) = d * y + d
  BY <1>1, Monotone
<1>3. d * q < d * (y + 1) /\ d * y < d * (q + 1)
  BY <1>1, <1>2
<1>4. q < y + 1 /\ y < q + 1
  BY <1>1, <1>3, Cancelled
<1>5. y = q
  BY <1>1, <1>4
<1>6. x % d = x - d * (x \div d)
  OBVIOUS
<1> QED
  BY <1>5, <1>6 DEF y

LEMMA QuotientTwice ==
  ASSUME NEW x \in Nat, NEW d \in Nat \ {0}, NEW b \in Nat \ {0}
  PROVE  x \div (d * b) = (x \div d) \div b
<1> DEFINE y == x \div d
           z == y \div b
<1>1. y \in Nat /\ d * y <= x /\ x < d * y + d
  BY Quotient
<1> HIDE DEF y
<1>2. z \in Nat /\ b * z <= y /\ y < b * z + b
  BY <1>1, Quotient
<1> HIDE DEF z
<1>3. d * b \in Nat \ {0}
  <2>1. d * 1 <= d * b /\ d * b \in Nat
    BY Monotone
  <2> QED
    BY <2>1
<1>4. (d * b) * z = d * (b * z) /\ b * z \in Nat
  BY <1>2
<1>5. d * (b * z) <= d * y
  BY <1>1, <1>2, <1>4, Monotone
<1>6. d * y + d <= d * (b * z) + d * b
  <2>1. y + 1 <= b * z + b /\ b * z + b \in Nat
    BY <1>1, <1>2, <1>4
  <2>2. d * (y + 1) <= d * (b * z + b)
    BY <2>1, <1>1, Monotone
  <2>3. d * (y + 1) = d * y + d
    BY <1>1
  <2>4. d * (b * z + b) = d * (b * z) + d * b
    BY <1>4
  <2> QED
    BY <2>2, <2>3, <2>4
<1>7. d * y \in Nat /\ d * (b * z) \in Nat
  BY <1>1, <1>4, Monotone
<1>8. (d * b) * z <= x /\ x < (d * b) * z + d * b
  BY <1>1, <1>3, <1>4, <1>5, <1>6, <1>7
<1>9. x \div (d * b) = z
  <2>1. PICK e \in Nat \ {0} : e = d * b
    BY <1>3
  <2> QED
    BY <2>1, <1>2, <1>8, QuotientIs
<1> QED
  BY <1>9 DEF y, z

LEMMA DivMod ==
  ASSUME NEW x \in Nat, NEW d \in Nat \ {0}
  PROVE  x = d * (x \div d) + (x % d) /\ x % d \in 0..d - 1
<1>1. x % d = x - d * (x \div d) /\ x % d \in 0..d - 1
  OBVIOUS
<1>2. x \div d \in Nat /\ d * (x \div d) \in Nat
  <2>1. x \div d \in Nat
    BY Quotient
  <2> QED
    BY <2>1, Monotone
<1>3. PICK p \in Nat : p = d * (x \div d)
  BY <1>2
<1>4. PICK m \in 0..d - 1 : m = x % d
  BY <1>1
<1>5. m = x - p
  BY <1>1, <1>3, <1>4
<1>6. x = p + m
  BY <1>5
<1> QED
  BY <1>3, <1>4, <1>6

(* A number is known by its digits to any base. *)
LEMMA SameDigits ==
  ASSUME NEW b \in Nat \ {0}, NEW n \in Nat, NEW w \in [0..n -> Nat \ {0}],
         w[0] = 1, \A i \in 0..n - 1 : w[i + 1] = w[i] * b,
         NEW u \in Nat, NEW v \in Nat, u < w[n], v < w[n],
         \A i \in 0..n - 1 : (u \div w[i]) % b = (v \div w[i]) % b
  PROVE  u = v
<1> DEFINE S == {k \in Nat : k <= n => u \div w[n - k] = v \div w[n - k]}
<1>1. 0 \in S
  <2>1. PICK d \in Nat \ {0} : d = w[n]
    OBVIOUS
  <2>2. u \div d = 0 /\ v \div d = 0
    <3>1. d * 0 <= u /\ d * 0 <= v /\ u < d * 0 + d /\ v < d * 0 + d
      BY <2>1
    <3> QED
      BY <2>1, <3>1, QuotientIs
  <2> QED
    BY <2>1, <2>2
<1>2. ASSUME NEW k \in Nat, k \in S PROVE k + 1 \in S
  <2> SUFFICES ASSUME k + 1 <= n
               PROVE  u \div w[n - (k + 1)] = v \div w[n - (k + 1)]
    OBVIOUS
  <2>0. n - (k + 1) \in 0..n - 1
    OBVIOUS
  <2>1. PICK i \in 0..n - 1 : i = n - (k + 1)
    BY <2>0
  <2>2. n - k = i + 1 /\ w[i + 1] = w[i] * b
    BY <2>1
  <2>9. u \div w[i + 1] = v \div w[i + 1]
    BY <1>2, <2>1, <2>2
  <2>3. PICK d \in Nat \ {0} : d = w[i]
    BY <2>1
  <2>4. (u \div d) \div b = (v \div d) \div b
    <3>1. u \div (d * b) = v \div (d * b)
      BY <2>2, <2>3, <2>9
    <3> QED
      BY <3>1, QuotientTwice
  <2>5. (u \div d) % b = (v \div d) % b
    BY <2>1, <2>3
  <2>6. u \div d \in Nat /\ v \div d \in Nat
    BY Quotient
  <2>7. ASSUME NEW x \in Nat PROVE x = b * (x \div b) + (x % b)
    BY DivMod
  <2>8. u \div d = v \div d
    BY <2>4, <2>5, <2>6, <2>7
  <2> QED
    BY <2>1, <2>3, <2>8
<1>3. n \in S
  <2> HIDE DEF S
  <2> QED
    BY <1>1, <1>2, CountUp
<1>4. u \div 1 = v \div 1
  BY <1>3
<1> QED
  BY <1>4

-----------------------------------------------------------------------------
(* The header and the bits of its bytes *)

LEMMA BaseIs == Base \in Nat \ {0} /\ 2 ^ ByteBits = 2 * Base
                /\ ByteBits \in Nat \ {0} /\ Byte = 0..2 ^ ByteBits - 1
BY PowerDouble, HeaderAssumption, CarrierAssumption DEF Base, Byte

LEMMA GroupWeights ==
  /\ [i \in 0..MaxHeader |-> 2 ^ (GroupBits * i)] \in [0..MaxHeader -> Nat \ {0}]
  /\ 2 ^ (GroupBits * 0) = 1
  /\ \A i \in Nat : /\ GroupBits * i \in Nat
                    /\ 2 ^ (GroupBits * i) \in Nat \ {0}
                    /\ 2 ^ (GroupBits * (i + 1)) = 2 ^ (GroupBits * i) * Base
<1>1. \A i \in Nat : GroupBits * i \in Nat /\ GroupBits * (i + 1) = GroupBits * i + GroupBits
  BY HeaderAssumption
<1>2. \A i \in Nat : 2 ^ (GroupBits * i) \in Nat \ {0}
  BY <1>1, PowerDouble
<1>3. GroupBits * 0 = 0 /\ 2 ^ 0 = 1
  BY HeaderAssumption
<1>4. ASSUME NEW i \in Nat
      PROVE  2 ^ (GroupBits * (i + 1)) = 2 ^ (GroupBits * i) * Base
  <2>1. PICK a \in Nat : a = GroupBits * i /\ GroupBits * (i + 1) = a + GroupBits
    BY <1>1
  <2> QED
    BY <2>1, PowerSum, HeaderAssumption DEF Base
<1>5. [i \in 0..MaxHeader |-> 2 ^ (GroupBits * i)] \in [0..MaxHeader -> Nat \ {0}]
  <2>1. \A i \in 0..MaxHeader : 2 ^ (GroupBits * i) \in Nat \ {0}
    BY <1>2, HeaderAssumption
  <2> QED
    BY <2>1
<1> QED
  BY <1>1, <1>2, <1>3, <1>4, <1>5

LEMMA GroupType ==
  ASSUME NEW v \in Nat, NEW i \in Nat \ {0}
  PROVE  Group(v, i) \in 0..Base - 1
<1>1. PICK d \in Nat \ {0} : d = 2 ^ (GroupBits * (i - 1))
  BY GroupWeights
<1>2. v \div d \in Nat
  BY Quotient
<1> QED
  BY <1>1, <1>2, BaseIs DEF Group

LEMMA DigitsType ==
  ASSUME NEW v \in CapsuleLengths
  PROVE  /\ Digits(v) \in 1..MaxHeader
         /\ v < 2 ^ (GroupBits * Digits(v))
<1> DEFINE S == {n \in 1..MaxHeader : v < 2 ^ (GroupBits * n)}
<1>1. MaxHeader \in S
  <2>1. v <= MaxCapsule /\ v \in Int /\ MaxCapsule \in Int
    BY HeaderAssumption DEF CapsuleLengths
  <2>2. 2 ^ (GroupBits * MaxHeader) \in Int
    BY GroupWeights, HeaderAssumption
  <2> QED
    BY <2>1, <2>2, HeaderAssumption
<1>2. Min(S) \in S
  <2>1. S \in SUBSET Nat /\ S # {}
    BY <1>1
  <2> QED
    BY <2>1, MinIs
<1> QED
  BY <1>2 DEF Digits

LEMMA HeaderBytes ==
  ASSUME NEW v \in CapsuleLengths
  PROVE  LET B == PackHeader(v) IN
         /\ B \in Seq(Byte)
         /\ Len(B) \in 1..MaxHeader /\ Len(B) = Digits(v)
         /\ \A i \in 1..Len(B) :
              /\ B[i] < Base <=> i = Len(B)
              /\ B[i] % Base = Group(v, i)
<1> DEFINE B == PackHeader(v)
           n == Digits(v)
<1>1. n \in 1..MaxHeader /\ v \in Nat
  BY DigitsType, HeaderAssumption DEF CapsuleLengths
<1> HIDE DEF n
<1>2. B = [i \in 1..n |-> Group(v, i) + (IF i < n THEN Base ELSE 0)]
  BY DEF PackHeader, EncodeUvarint, n
<1>3. ASSUME NEW i \in 1..n
      PROVE  /\ B[i] \in Byte
             /\ B[i] < Base <=> i = n
             /\ B[i] % Base = Group(v, i)
  <2>1. PICK g \in 0..Base - 1 : g = Group(v, i)
    BY <1>1, GroupType
  <2>2. B[i] = g + (IF i < n THEN Base ELSE 0)
    BY <1>2, <2>1
  <2> HIDE DEF B
  <2>3. CASE i < n
    <3>1. B[i] = g + Base
      BY <2>2, <2>3
    <3>2. (g + Base) % Base = g
      <4>1. PICK b \in Nat \ {0} : b = Base
        BY BaseIs
      <4>2. PICK z \in Nat : z = g + b
        BY <4>1
      <4>3. b * 1 <= z /\ z < b * 1 + b
        BY <4>1, <4>2
      <4>4. z % b = z - b * 1
        BY <4>3, QuotientIs
      <4> QED
        BY <4>1, <4>2, <4>4
    <3> QED
      BY <2>1, <2>3, <3>1, <3>2, <1>1, BaseIs DEF Byte
  <2>4. CASE i = n
    <3>1. B[i] = g
      BY <2>2, <2>4, <1>1, BaseIs
    <3>2. g % Base = g
      BY Remainder, BaseIs
    <3> QED
      BY <2>1, <2>4, <3>1, <3>2, <1>1, BaseIs DEF Byte
  <2> QED
    BY <2>3, <2>4, <1>1
<1>4. B \in Seq(Byte) /\ Len(B) = n
  <2>1. B \in [1..n -> Byte]
    BY <1>2, <1>3
  <2> HIDE DEF B
  <2> QED
    BY <2>1, <1>1
<1> HIDE DEF B
<1>5. /\ B \in Seq(Byte)
      /\ Len(B) \in 1..MaxHeader /\ Len(B) = Digits(v)
      /\ \A i \in 1..Len(B) : /\ B[i] < Base <=> i = Len(B)
                              /\ B[i] % Base = Group(v, i)
  BY <1>1, <1>3, <1>4 DEF n
<1> QED
  BY <1>5 DEF B

LEMMA BitsOfType ==
  ASSUME NEW byte \in Byte
  PROVE  /\ BitsOf(byte) \in Seq(Bit) /\ Len(BitsOf(byte)) = ByteBits
         /\ BitsOf(byte) \in [1..ByteBits -> Bit]
<1>1. ASSUME NEW i \in 1..ByteBits
      PROVE  (byte \div 2 ^ (ByteBits - i)) % 2 \in Bit
  <2>1. PICK d \in Nat \ {0} : d = 2 ^ (ByteBits - i)
    BY PowerDouble, BaseIs
  <2>2. byte \div d \in Nat
    BY BaseIs, Quotient
  <2>3. (byte \div d) % 2 \in Bit
    BY <2>2 DEF Bit
  <2> QED
    BY <2>1, <2>3
<1>2. BitsOf(byte) \in [1..ByteBits -> Bit]
  BY <1>1 DEF BitsOf
<1> QED
  BY <1>2, BaseIs

LEMMA BitsOfDecide ==
  ASSUME NEW x \in Byte, NEW y \in Byte, BitsOf(x) = BitsOf(y)
  PROVE  x = y
<1> DEFINE w == [i \in 0..ByteBits |-> 2 ^ i]
<1>0. \A i \in Nat : 2 ^ i \in Nat \ {0} /\ 2 ^ (i + 1) = 2 ^ i * 2
  BY PowerDouble
<1>1. /\ w \in [0..ByteBits -> Nat \ {0}]
      /\ \A i \in 0..ByteBits - 1 : w[i + 1] = w[i] * 2
  <2>1. \A i \in 0..ByteBits : 2 ^ i \in Nat \ {0}
    BY <1>0, BaseIs
  <2>2. w \in [0..ByteBits -> Nat \ {0}]
    BY <2>1
  <2>3. ASSUME NEW i \in 0..ByteBits - 1 PROVE w[i + 1] = w[i] * 2
    <3>1. w[i] = 2 ^ i /\ w[i + 1] = 2 ^ (i + 1) /\ i \in Nat
      BY BaseIs
    <3> HIDE DEF w
    <3> QED
      BY <3>1, <1>0
  <2> QED
    BY <2>2, <2>3
<1>2. w[0] = 1
  <2>1. 2 ^ 0 = 1
    OBVIOUS
  <2> QED
    BY <2>1, BaseIs
<1>3. x \in Nat /\ y \in Nat /\ x < w[ByteBits] /\ y < w[ByteBits]
  BY BaseIs
<1>4. ASSUME NEW i \in 0..ByteBits - 1
      PROVE  (x \div w[i]) % 2 = (y \div w[i]) % 2
  <2>1. ByteBits - i \in 1..ByteBits /\ ByteBits - (ByteBits - i) = i
    BY BaseIs
  <2>2. BitsOf(x)[ByteBits - i] = BitsOf(y)[ByteBits - i]
    OBVIOUS
  <2>3. w[i] = 2 ^ i
    BY BaseIs
  <2> HIDE DEF w
  <2> QED
    BY <2>1, <2>2, <2>3 DEF BitsOf
<1> HIDE DEF w
<1>5. 2 \in Nat \ {0} /\ ByteBits \in Nat
  BY BaseIs
<1> QED
  BY <1>1, <1>2, <1>3, <1>4, <1>5, SameDigits

(* Where the j-th bit of the k-th byte is. *)
LEMMA BitPlace ==
  ASSUME NEW k \in Nat \ {0}, NEW j \in 1..ByteBits
  PROVE  LET i == (k - 1) * ByteBits + j IN
         /\ i \in Nat \ {0}
         /\ (i - 1) \div ByteBits = k - 1
         /\ ((i - 1) % ByteBits) + 1 = j
         /\ \A n \in Nat : k <= n => i <= n * ByteBits
<1>1. PICK d \in Nat \ {0} : d = ByteBits
  BY BaseIs
<1>2. PICK a \in Nat : a = d * (k - 1)
  <2>1. k - 1 \in Nat
    OBVIOUS
  <2> QED
    BY <2>1, Monotone
<1>3. PICK x \in Nat : x = a + (j - 1)
  BY <1>1, <1>2
<1>4. d * (k - 1) <= x /\ x < d * (k - 1) + d /\ k - 1 \in Nat
  BY <1>1, <1>2, <1>3
<1>5. x \div d = k - 1 /\ x % d = x - d * (k - 1)
  BY <1>4, QuotientIs
<1>6. (k - 1) * d = a
  BY <1>2
<1>7. ASSUME NEW n \in Nat, k <= n PROVE a + j <= n * d
  <2>1. d * k <= d * n /\ d * k = a + d
    BY <1>2, <1>7, Monotone
  <2> QED
    BY <2>1, <1>1, <1>2
<1>8. (k - 1) * ByteBits + j = a + j /\ (a + j) - 1 = x
  BY <1>1, <1>2, <1>3, <1>6
<1> QED
  BY <1>1, <1>2, <1>3, <1>5, <1>7, <1>8

LEMMA AsBitsType ==
  ASSUME NEW data \in Seq(Byte)
  PROVE  /\ AsBits(data) \in Seq(Bit)
         /\ Len(AsBits(data)) = Len(data) * ByteBits
         /\ \A k \in 1..Len(data), j \in 1..ByteBits :
              AsBits(data)[(k - 1) * ByteBits + j] = BitsOf(data[k])[j]
<1>1. Len(data) \in Nat /\ Len(data) * ByteBits \in Nat
  BY BaseIs, LenProperties
<1>2. ASSUME NEW i \in 1..Len(data) * ByteBits
      PROVE  /\ (i - 1) \div ByteBits + 1 \in 1..Len(data)
             /\ ((i - 1) % ByteBits) + 1 \in 1..ByteBits
  <2>1. PICK d \in Nat \ {0} : d = ByteBits
    BY BaseIs
  <2>2. PICK x \in Nat : x = i - 1
    OBVIOUS
  <2>3. PICK q \in Nat : q = x \div d /\ d * q <= x /\ x < d * q + d
    BY Quotient
  <2>4. PICK n \in Nat : n = Len(data) /\ d * n = Len(data) * ByteBits
    BY <1>1, <2>1
  <2>5. d * q < d * n
    <3>1. d * q \in Nat /\ d * n \in Nat
      BY Monotone
    <3> QED
      BY <3>1, <2>2, <2>3, <2>4
  <2>6. q < n
    BY <2>5, Cancelled
  <2>7. x % d \in 0..d - 1
    BY DivMod
  <2> QED
    BY <2>1, <2>2, <2>3, <2>4, <2>6, <2>7
<1>3. \A i \in 1..Len(data) * ByteBits :
        BitsOf(data[(i - 1) \div ByteBits + 1])[((i - 1) % ByteBits) + 1] \in Bit
  BY <1>2, BitsOfType, ElementOfSeq
<1>4. AsBits(data) \in [1..Len(data) * ByteBits -> Bit]
  BY <1>3 DEF AsBits
<1>5. ASSUME NEW k \in 1..Len(data), NEW j \in 1..ByteBits
      PROVE  AsBits(data)[(k - 1) * ByteBits + j] = BitsOf(data[k])[j]
  <2>1. PICK i \in Nat \ {0} :
          /\ i = (k - 1) * ByteBits + j
          /\ (i - 1) \div ByteBits = k - 1
          /\ ((i - 1) % ByteBits) + 1 = j
          /\ i <= Len(data) * ByteBits
    BY BitPlace, <1>1
  <2>2. i \in 1..Len(data) * ByteBits /\ k - 1 + 1 = k
    BY <2>1, <1>1
  <2> QED
    BY <2>1, <2>2 DEF AsBits
<1>6. AsBits(data) \in Seq(Bit) /\ Len(AsBits(data)) = Len(data) * ByteBits
  BY <1>1, <1>4
<1> QED
  BY <1>5, <1>6

(* Whoever has the bits has the byte. *)
LEMMA ByteBack ==
  ASSUME NEW s \in Seq(Bit), NEW data \in Seq(Byte), NEW k \in 1..Len(data),
         k * ByteBits <= Len(s),
         \A i \in 1..k * ByteBits : s[i] = AsBits(data)[i]
  PROVE  k \in 1..Len(s) \div ByteBits /\ CompleteBytes(s)[k] = data[k]
<1> DEFINE from == (k - 1) * ByteBits
           part == SubSeq(s, from + 1, k * ByteBits)
<1>1. /\ from \in Nat /\ k * ByteBits = from + ByteBits
      /\ from + ByteBits <= Len(s) /\ Len(s) \in Nat
      /\ from + ByteBits \in Nat
  <2>1. k - 1 \in Nat /\ ByteBits \in Nat \ {0}
    BY BaseIs
  <2>2. (k - 1) * ByteBits \in Nat /\ k * ByteBits = (k - 1) * ByteBits + ByteBits
    BY <2>1, Monotone
  <2> QED
    BY <2>1, <2>2, LenProperties
<1>2. data[k] \in Byte
  BY ElementOfSeq
<1>3. k <= Len(s) \div ByteBits
  <2>1. PICK d \in Nat \ {0} : d = ByteBits
    BY BaseIs
  <2>2. PICK n \in Nat : n = Len(s)
    BY <1>1
  <2>3. PICK q \in Nat : q = n \div d /\ n < d * q + d
    BY Quotient
  <2>4. d * k <= n
    BY <2>1, <2>2
  <2>5. d * k < d * (q + 1)
    <3>1. d * k \in Nat /\ d * (q + 1) = d * q + d /\ d * q \in Nat
      BY Monotone
    <3> QED
      BY <3>1, <2>3, <2>4
  <2>6. k < q + 1
    BY <2>5, Cancelled
  <2> QED
    BY <2>1, <2>2, <2>3, <2>6
<1>4. part = BitsOf(data[k])
  <2> HIDE DEF from
  <2>1. \A i \in from + 1..k * ByteBits : s[i] \in Bit
    BY <1>1, ElementOfSeq
  <2>2. /\ part \in Seq(Bit) /\ Len(part) = ByteBits
        /\ \A j \in 1..ByteBits : part[j] = s[from + j]
    <3>1. /\ part \in Seq(Bit)
          /\ Len(part) = IF from + 1 <= k * ByteBits
                         THEN k * ByteBits - (from + 1) + 1 ELSE 0
          /\ \A j \in 1..k * ByteBits - (from + 1) + 1 :
               part[j] = s[from + 1 + j - 1]
      BY <2>1, <1>1, SubSeqProperties
    <3> HIDE DEF part
    <3> QED
      BY <3>1, <1>1, BaseIs
  <2>3. /\ BitsOf(data[k]) \in Seq(Bit) /\ Len(BitsOf(data[k])) = ByteBits
    BY <1>2, BitsOfType
  <2>4. ASSUME NEW j \in 1..ByteBits PROVE part[j] = BitsOf(data[k])[j]
    <3>1. from + j \in 1..k * ByteBits
      BY <1>1, BaseIs
    <3>2. AsBits(data)[from + j] = BitsOf(data[k])[j]
      BY AsBitsType DEF from
    <3> QED
      BY <3>1, <3>2, <2>2
  <2> HIDE DEF part
  <2> QED
    BY <2>2, <2>3, <2>4, SeqEqual
<1>5. CompleteBytes(s)[k] = CHOOSE byte \in Byte : BitsOf(byte) = part
  BY <1>1, <1>3 DEF CompleteBytes
<1>6. CompleteBytes(s)[k] = data[k]
  <2> DEFINE b == CHOOSE byte \in Byte : BitsOf(byte) = BitsOf(data[k])
  <2>1. b \in Byte /\ BitsOf(b) = BitsOf(data[k])
    BY <1>2
  <2>2. b = data[k]
    <3> HIDE DEF b
    <3> QED
      BY <2>1, <1>2, BitsOfDecide
  <2> HIDE DEF part
  <2> QED
    BY <2>2, <1>4, <1>5
<1>7. Len(s) \div ByteBits \in Nat
  BY <1>1, BaseIs, Quotient
<1> QED
  BY <1>3, <1>6, <1>7

(* What any stream of complete bytes is. *)
LEMMA CompleteLen ==
  ASSUME NEW s \in Seq(Bit)
  PROVE  /\ Len(s) \div ByteBits \in Nat
         /\ DOMAIN CompleteBytes(s) = 1..Len(s) \div ByteBits
         /\ Len(CompleteBytes(s)) = Len(s) \div ByteBits
<1>1. Len(s) \div ByteBits \in Nat
  BY BaseIs, Quotient, LenProperties
<1>2. DOMAIN CompleteBytes(s) = 1..Len(s) \div ByteBits
  BY DEF CompleteBytes
<1>3. Len(CompleteBytes(s)) = Len(s) \div ByteBits
  BY <1>1 DEF CompleteBytes
<1> QED
  BY <1>1, <1>2, <1>3

(* The length is the only number with the groups of its header. *)
LEMMA ValueIs ==
  ASSUME NEW length \in CapsuleLengths, NEW n, n = Digits(length),
         NEW data, \A i \in 1..n : data[i] % Base = Group(length, i)
  PROVE  (CHOOSE v \in 0..2 ^ (GroupBits * n) - 1 :
            \A i \in 1..n : Group(v, i) = data[i] % Base) = length
<1> DEFINE w == [i \in 0..n |-> 2 ^ (GroupBits * i)]
           P(v) == \A i \in 1..n : Group(v, i) = data[i] % Base
           x == CHOOSE v \in 0..2 ^ (GroupBits * n) - 1 : P(v)
<1>1. /\ n \in Nat /\ length \in Nat
      /\ 2 ^ (GroupBits * n) \in Nat \ {0}
      /\ length \in 0..2 ^ (GroupBits * n) - 1
  BY DigitsType, GroupWeights, HeaderAssumption DEF CapsuleLengths
<1>2. P(length)
  OBVIOUS
<1>3. x \in 0..2 ^ (GroupBits * n) - 1 /\ P(x)
  <2> HIDE DEF P
  <2> QED
    BY <1>1, <1>2
<1>4. /\ w \in [0..n -> Nat \ {0}] /\ w[0] = 1
      /\ \A i \in 0..n - 1 : w[i + 1] = w[i] * Base
  <2>1. \A i \in 0..n : i \in Nat /\ w[i] = 2 ^ (GroupBits * i)
    BY <1>1
  <2>2. w[0] = 1
    BY <1>1, <2>1, GroupWeights
  <2>3. w \in [0..n -> Nat \ {0}]
    <3>1. \A i \in 0..n : 2 ^ (GroupBits * i) \in Nat \ {0}
      BY <2>1, GroupWeights
    <3> QED
      BY <3>1
  <2>4. ASSUME NEW i \in 0..n - 1 PROVE w[i + 1] = w[i] * Base
    <3>1. i \in 0..n /\ i + 1 \in 0..n /\ i \in Nat
      BY <1>1
    <3>2. w[i] = 2 ^ (GroupBits * i) /\ w[i + 1] = 2 ^ (GroupBits * (i + 1))
      BY <2>1, <3>1
    <3> HIDE DEF w
    <3> QED
      BY <3>1, <3>2, GroupWeights
  <2> QED
    BY <2>2, <2>3, <2>4
<1>5. ASSUME NEW i \in 0..n - 1
      PROVE  (x \div w[i]) % Base = (length \div w[i]) % Base
  <2>1. i + 1 \in 1..n /\ i + 1 - 1 = i
    BY <1>1
  <2>2. Group(x, i + 1) = Group(length, i + 1)
    BY <1>2, <1>3, <2>1
  <2>3. w[i] = 2 ^ (GroupBits * i)
    BY <1>1
  <2> HIDE DEF w, x
  <2> QED
    BY <2>1, <2>2, <2>3 DEF Group
<1>6. x \in Nat /\ x < w[n] /\ length < w[n]
  BY <1>1, <1>3
<1> HIDE DEF w, x, P
<1>7. x = length
  BY <1>1, <1>4, <1>5, <1>6, SameDigits, BaseIs
<1> QED
  BY <1>7 DEF x, P

(* parse_header on a stream that starts with the header: nothing before    *)
(* its last byte is complete, and then the length it was made from.        *)
LEMMA HeaderRead ==
  ASSUME NEW length \in CapsuleLengths, NEW s \in Seq(Bit),
         NEW B, B = PackHeader(length),
         \A i \in 1..Len(s) : i <= Len(B) * ByteBits => s[i] = AsBits(B)[i]
  PROVE  ParseHeader(CompleteBytes(s)) =
           IF Len(s) < Len(B) * ByteBits THEN Incomplete
           ELSE Parsed(length, Len(B))
<1> DEFINE data == CompleteBytes(s)
           m == Len(s) \div ByteBits
           n == Len(B)
           last == {i \in 1..Len(data) : i <= MaxHeader /\ data[i] < Base}
<1>1. /\ B \in Seq(Byte) /\ n \in 1..MaxHeader /\ n = Digits(length)
      /\ \A i \in 1..n : /\ B[i] < Base <=> i = n
                         /\ B[i] % Base = Group(length, i)
  BY HeaderBytes
<1>2. m \in Nat /\ Len(data) = m /\ Len(s) \in Nat
  BY CompleteLen, LenProperties
<1>3. m * ByteBits <= Len(s) /\ (Len(s) < n * ByteBits <=> m < n)
  <2>1. PICK d \in Nat \ {0} : d = ByteBits
    BY BaseIs
  <2>2. PICK x \in Nat : x = Len(s)
    BY <1>2
  <2>3. PICK q \in Nat : q = m /\ d * q <= x /\ x < d * q + d
    BY <2>1, <2>2, Quotient
  <2>4. PICK k \in Nat : k = n
    BY <1>1
  <2>5. d * q \in Nat /\ d * k \in Nat
    BY Monotone
  <2>6. x < d * k => q < k
    <3>1. x < d * k => d * q < d * k
      BY <2>3, <2>5
    <3> QED
      BY <3>1, Cancelled
  <2>7. q < k => x < d * k
    <3>1. q + 1 <= k => d * (q + 1) <= d * k
      BY Monotone
    <3>2. d * (q + 1) = d * q + d
      OBVIOUS
    <3> QED
      BY <3>1, <3>2, <2>3, <2>5
  <2>8. m * ByteBits = d * q /\ n * ByteBits = d * k
    BY <2>1, <2>3, <2>4
  <2> QED
    BY <2>2, <2>3, <2>4, <2>6, <2>7, <2>8
<1>4. ASSUME NEW k \in 1..n, k <= m PROVE data[k] = B[k]
  <2>1. k * ByteBits <= m * ByteBits /\ k * ByteBits <= n * ByteBits
        /\ k * ByteBits \in Nat /\ n * ByteBits \in Nat
        /\ m * ByteBits \in Nat
    <3>1. PICK d \in Nat : d = ByteBits
      BY BaseIs
    <3>2. d * k <= d * m /\ d * k <= d * n /\ d * k \in Nat /\ d * n \in Nat
          /\ d * m \in Nat
      <4> HIDE DEF m, n
      <4> QED
        BY <1>1, <1>2, <1>4, Monotone
    <3>3. k * ByteBits = d * k /\ m * ByteBits = d * m /\ n * ByteBits = d * n
      BY <3>1, <1>1, <1>2
    <3> HIDE DEF m, n
    <3> QED
      BY <3>2, <3>3
  <2>2. k * ByteBits <= Len(s)
    BY <2>1, <1>2, <1>3
  <2>3. \A i \in 1..k * ByteBits : s[i] = AsBits(B)[i]
    BY <2>1, <2>2, <1>2
  <2>4. CompleteBytes(s)[k] = B[k]
    <3>1. k \in 1..Len(B)
      OBVIOUS
    <3> QED
      BY <2>2, <2>3, <3>1, <1>1, ByteBack
  <2> QED
    BY <2>4
<1> HIDE DEF data, m, n
<1>5. CASE m < n
  <2>1. last = {}
    BY <1>1, <1>2, <1>4, <1>5
  <2>2. Len(data) < MaxHeader
    BY <1>1, <1>2, <1>5, HeaderAssumption
  <2> HIDE DEF last
  <2>3. DecodeUvarint(data, MaxHeader) = Incomplete
    BY <2>1, <2>2 DEF DecodeUvarint, last
  <2>4. ParseHeader(data) = Incomplete
    BY <2>3 DEF ParseHeader, Incomplete
  <2> QED
    BY <2>4, <1>3, <1>5 DEF n, data
<1>6. CASE n <= m
  <2>1. n \in last /\ \A i \in last : n <= i
    BY <1>1, <1>2, <1>4, <1>6
  <2>2. Min(last) = n
    <3>1. last \in SUBSET Nat /\ last # {}
      BY <2>1, <1>2
    <3>2. Min(last) \in last /\ \A i \in last : Min(last) <= i
      <4> HIDE DEF last
      <4> QED
        BY <3>1, MinIs
    <3>3. Min(last) <= n /\ n <= Min(last) /\ Min(last) \in Nat /\ n \in Nat
      <4> HIDE DEF last
      <4> QED
        BY <2>1, <3>1, <3>2, <1>1
    <3> HIDE DEF last
    <3> QED
      BY <3>3
  <2>3. SubSeq(data, 1, n) = B
    <3>1. \A i \in 1..n : data[i] \in Byte /\ data[i] = B[i]
      BY <1>1, <1>4, <1>6, <1>2, ElementOfSeq DEF n
    <3>2. /\ SubSeq(data, 1, n) \in Seq(Byte)
          /\ Len(SubSeq(data, 1, n)) = IF 1 <= n THEN n - 1 + 1 ELSE 0
          /\ \A i \in 1..n - 1 + 1 : SubSeq(data, 1, n)[i] = data[1 + i - 1]
      BY <3>1, <1>1, SubSeqProperties
    <3>3. /\ Len(SubSeq(data, 1, n)) = n
          /\ \A i \in 1..n : SubSeq(data, 1, n)[i] = B[i]
      <4>1. n - 1 + 1 = n /\ \A i \in 1..n : 1 + i - 1 = i
        BY <1>1
      <4> QED
        BY <3>1, <3>2, <4>1, <1>1
    <3> QED
      BY <3>2, <3>3, <1>1, SeqEqual DEF n
  <2>4. \A i \in 1..n : data[i] % Base = Group(length, i)
    BY <1>1, <1>2, <1>4, <1>6
  <2> DEFINE value == CHOOSE v \in 0..2 ^ (GroupBits * n) - 1 :
                        \A i \in 1..n : Group(v, i) = data[i] % Base
  <2>5. value = length
    BY <2>4, <1>1, ValueIs
  <2>6. last # {}
    BY <2>1
  <2> HIDE DEF last, value
  <2>7. B = EncodeUvarint(length)
    BY DEF PackHeader
  <2>8. DecodeUvarint(data, MaxHeader) = Parsed(length, n)
    BY <2>2, <2>3, <2>5, <2>6, <2>7 DEF DecodeUvarint, last, value
  <2>9. ParseHeader(data) = Parsed(length, n)
    BY <2>8 DEF ParseHeader, Parsed
  <2>10. ~ (Len(s) < n * ByteBits)
    BY <1>1, <1>2, <1>3, <1>6
  <2> QED
    BY <2>9, <2>10 DEF n, data
<1> QED
  BY <1>1, <1>2, <1>5, <1>6

(* The register as the bits it was filled with.  A middle shift takes out  *)
(* the second bit, which differs from the first, and keeps the first one;  *)
(* the others take out the first.                                          *)
Weight(k) == 2 ^ (Precision - k)
Spells(d, x) ==
  /\ d \in [1..Precision -> Bit]
  /\ \E v \in [0..Precision -> Nat] :
       /\ v[0] = x /\ v[Precision] = 0
       /\ \A k \in 1..Precision :
            /\ v[k] < Weight(k)
            /\ v[k - 1] = (IF d[k] = 1 THEN Weight(k) ELSE 0) + v[k]

Shifted(d, bit) ==
  [k \in 1..Precision |-> IF k = Precision THEN bit ELSE d[k + 1]]
MiddleShifted(d, bit) ==
  [k \in 1..Precision |->
     IF k = Precision THEN bit ELSE IF k = 1 THEN d[1] ELSE d[k + 1]]

LEMMA WeightIs ==
  /\ Precision \in Nat /\ Precision >= 2
  /\ \A k \in 0..Precision : Weight(k) \in Nat \ {0}
  /\ \A k \in 0..Precision - 1 : Weight(k) = 2 * Weight(k + 1)
  /\ Weight(1) = Half /\ Weight(2) = Quarter /\ Weight(Precision) = 1
<1>1. Precision \in Nat \ {0} /\ 2 ^ Precision = 4 * Quarter
      /\ Quarter \in Nat \ {0}
  BY CarrierAssumption, CoderAssumption DEF Full
<1>2. Precision # 1
  <2> SUFFICES ASSUME Precision = 1 PROVE FALSE
    OBVIOUS
  <2>1. 2 ^ 1 = 2
    OBVIOUS
  <2>2. 2 ^ Precision = 2
    BY <2>1
  <2> QED
    BY <1>1, <2>2
<1>3. \A k \in 0..Precision : Weight(k) \in Nat \ {0}
  BY <1>1, PowerDouble DEF Weight
<1>4. ASSUME NEW k \in 0..Precision - 1 PROVE Weight(k) = 2 * Weight(k + 1)
  <2>1. Precision - (k + 1) \in Nat /\ Precision - k = (Precision - (k + 1)) + 1
    BY <1>1
  <2> QED
    BY <2>1, PowerDouble DEF Weight
<1>5. Weight(Precision) = 1
  <2>1. Precision - Precision = 0 /\ 2 ^ 0 = 1
    BY <1>1
  <2> QED
    BY <2>1 DEF Weight
<1>6. Weight(0) = 4 * Quarter
  <2>1. Precision - 0 = Precision
    BY <1>1
  <2> QED
    BY <1>1, <2>1 DEF Weight
<1>7. Weight(0) = 2 * Weight(1) /\ Weight(1) = 2 * Weight(2)
      /\ Weight(1) \in Nat /\ Weight(2) \in Nat
  <2>1. 0 \in 0..Precision - 1 /\ 1 \in 0..Precision - 1 /\ 1 \in 0..Precision
        /\ 2 \in 0..Precision /\ 0 + 1 = 1 /\ 1 + 1 = 2
    BY <1>1, <1>2
  <2> QED
    BY <1>3, <1>4, <2>1
<1>8. Weight(1) = Half /\ Weight(2) = Quarter
  BY <1>1, <1>6, <1>7 DEF Half
<1>9. Precision \in Nat /\ Precision >= 2
  BY <1>1, <1>2
<1> QED
  BY <1>3, <1>4, <1>5, <1>8, <1>9

(* The first bit is the half the register is in. *)
LEMMA TopBit ==
  ASSUME NEW d, NEW x, Spells(d, x)
  PROVE  /\ x \in Nat /\ d[1] \in Bit
         /\ d[1] = 0 => x < Half
         /\ d[1] = 1 => x >= Half
<1>1. PICK v \in [0..Precision -> Nat] :
        /\ v[0] = x /\ v[Precision] = 0
        /\ \A k \in 1..Precision :
             /\ v[k] < Weight(k)
             /\ v[k - 1] = (IF d[k] = 1 THEN Weight(k) ELSE 0) + v[k]
  BY DEF Spells
<1>2. /\ v[1] < Half /\ x = (IF d[1] = 1 THEN Half ELSE 0) + v[1]
      /\ v[1] \in Nat /\ x \in Nat
  <2>1. 1 \in 1..Precision /\ 0 \in 0..Precision /\ 1 - 1 = 0 /\ 1 \in 0..Precision
    BY WeightIs
  <2> QED
    BY <1>1, <2>1, WeightIs
<1>3. Half \in Nat /\ d[1] \in Bit
  BY CoderAssumption, WeightIs DEF Half, Spells
<1> QED
  BY <1>2, <1>3 DEF Bit

LEMMA SpellsShift ==
  ASSUME NEW d, NEW x, Spells(d, x), NEW bit \in Bit
  PROVE  Spells(Shifted(d, bit), 2 * (x - (IF d[1] = 1 THEN Half ELSE 0)) + bit)
<1> DEFINE P == Precision
           top == IF d[1] = 1 THEN Half ELSE 0
           e == Shifted(d, bit)
<1>1. PICK v \in [0..P -> Nat] :
        /\ v[0] = x /\ v[P] = 0
        /\ \A k \in 1..P :
             /\ v[k] < Weight(k)
             /\ v[k - 1] = (IF d[k] = 1 THEN Weight(k) ELSE 0) + v[k]
  BY DEF Spells
<1>2. P \in Nat /\ P >= 2 /\ Half \in Nat /\ d \in [1..P -> Bit]
  BY WeightIs, CoderAssumption DEF Spells, Half
<1>3. x = top + v[1] /\ v[1] \in Nat
  <2>1. 1 \in 1..P /\ 1 - 1 = 0 /\ 1 \in 0..P
    BY <1>2
  <2> QED
    BY <1>1, <2>1, WeightIs
<1> DEFINE u == [k \in 0..P |-> IF k = P THEN 0 ELSE 2 * v[k + 1] + bit]
<1>4. u \in [0..P -> Nat] /\ u[P] = 0 /\ u[0] = 2 * v[1] + bit
  <2>1. \A k \in 0..P : k # P => v[k + 1] \in Nat
    BY <1>1, <1>2
  <2>2. bit \in Nat
    BY DEF Bit
  <2> QED
    BY <1>2, <2>1, <2>2
<1>5. e \in [1..P -> Bit]
  BY <1>2 DEF Shifted
<1>6. ASSUME NEW k \in 1..P
      PROVE  /\ u[k] < Weight(k)
             /\ u[k - 1] = (IF e[k] = 1 THEN Weight(k) ELSE 0) + u[k]
  <2>1. k \in 0..P /\ k - 1 \in 0..P /\ k - 1 # P /\ k - 1 + 1 = k
        /\ k \in Nat
    BY <1>2
  <2>2. u[k - 1] = 2 * v[k] + bit
    BY <2>1
  <2>3. bit \in {0, 1}
    BY DEF Bit
  <2>4. CASE k = P
    <3>1. u[k] = 0 /\ e[k] = bit /\ Weight(k) = 1 /\ v[k] = 0
      BY <2>4, <1>1, WeightIs DEF Shifted
    <3> HIDE DEF u, e
    <3> QED
      BY <2>2, <2>3, <3>1
  <2>5. CASE k # P
    <3>1. u[k] = 2 * v[k + 1] + bit /\ e[k] = d[k + 1]
      BY <2>1, <2>5 DEF Shifted
    <3>2. k + 1 \in 1..P /\ k + 1 - 1 = k /\ k + 1 \in 0..P /\ k \in 0..P - 1
      BY <2>1, <2>5, <1>2
    <3>3. /\ v[k + 1] < Weight(k + 1)
          /\ v[k] = (IF d[k + 1] = 1 THEN Weight(k + 1) ELSE 0) + v[k + 1]
      BY <1>1, <3>2
    <3>4. Weight(k) = 2 * Weight(k + 1) /\ Weight(k + 1) \in Nat
      BY <3>2, WeightIs
    <3>5. v[k + 1] \in Nat /\ v[k] \in Nat
      BY <1>1, <2>1, <3>2
    <3>6. PICK a \in Nat, m \in Nat : a = v[k + 1] /\ m = Weight(k + 1)
      BY <3>4, <3>5
    <3>7. u[k] = 2 * a + bit /\ a < m /\ Weight(k) = 2 * m
      BY <3>1, <3>3, <3>4, <3>6
    <3>8. u[k - 1] = 2 * ((IF e[k] = 1 THEN m ELSE 0) + a) + bit
      BY <2>2, <3>1, <3>3, <3>6
    <3> HIDE DEF u, e
    <3>9. CASE e[k] = 1
      BY <2>3, <3>7, <3>8, <3>9
    <3>10. CASE e[k] # 1
      BY <2>3, <3>7, <3>8, <3>10
    <3> QED
      BY <3>9, <3>10
  <2> QED
    BY <2>4, <2>5
<1>7. 2 * (x - top) + bit = u[0]
  <2>1. x - top = v[1]
    BY <1>2, <1>3
  <2> QED
    BY <1>4, <2>1
<1> HIDE DEF u, e, top
<1> QED
  BY <1>4, <1>5, <1>6, <1>7 DEF Spells, e, top

LEMMA SpellsMiddle ==
  ASSUME NEW d, NEW x, Spells(d, x), NEW bit \in Bit,
         Quarter <= x, x < 3 * Quarter
  PROVE  /\ d[2] = 1 - d[1]
         /\ Spells(MiddleShifted(d, bit), 2 * (x - Quarter) + bit)
<1> DEFINE P == Precision
           e == MiddleShifted(d, bit)
<1>1. PICK v \in [0..P -> Nat] :
        /\ v[0] = x /\ v[P] = 0
        /\ \A k \in 1..P :
             /\ v[k] < Weight(k)
             /\ v[k - 1] = (IF d[k] = 1 THEN Weight(k) ELSE 0) + v[k]
  BY DEF Spells
<1>2. /\ P \in Nat /\ P >= 2 /\ d \in [1..P -> Bit]
      /\ Quarter \in Nat \ {0} /\ Half = 2 * Quarter
  BY WeightIs, CoderAssumption DEF Spells, Half
<1>3. /\ d[1] \in {0, 1} /\ d[2] \in {0, 1}
      /\ x = (IF d[1] = 1 THEN Half ELSE 0) + v[1] /\ v[1] \in Nat
      /\ v[1] = (IF d[2] = 1 THEN Quarter ELSE 0) + v[2] /\ v[2] \in Nat
      /\ v[2] < Quarter
  <2>1. 1 \in 1..P /\ 2 \in 1..P /\ 1 - 1 = 0 /\ 2 - 1 = 1 /\ 1 \in 0..P
        /\ 2 \in 0..P
    BY <1>2
  <2>2. d[1] \in {0, 1} /\ d[2] \in {0, 1} /\ v[1] \in Nat /\ v[2] \in Nat
    BY <1>1, <1>2, <2>1 DEF Bit
  <2>3. v[0] = (IF d[1] = 1 THEN Weight(1) ELSE 0) + v[1] /\ v[0] = x
    BY <1>1, <2>1
  <2>4. v[1] = (IF d[2] = 1 THEN Weight(2) ELSE 0) + v[2] /\ v[2] < Weight(2)
    BY <1>1, <2>1
  <2>5. Weight(1) = Half /\ Weight(2) = Quarter
    BY <1>2, WeightIs
  <2> QED
    BY <2>2, <2>3, <2>4, <2>5
<1>4. d[2] = 1 - d[1]
      /\ x - Quarter = (IF d[1] = 1 THEN Quarter ELSE 0) + v[2]
  BY <1>2, <1>3
<1> DEFINE u == [k \in 0..P |->
                   IF k = 0 THEN 2 * (x - Quarter) + bit
                   ELSE IF k = P THEN 0 ELSE 2 * v[k + 1] + bit]
<1>5. u \in [0..P -> Nat] /\ u[P] = 0 /\ u[0] = 2 * (x - Quarter) + bit
  <2>1. \A k \in 0..P : k # P => v[k + 1] \in Nat
    BY <1>1, <1>2
  <2>2. bit \in Nat /\ x - Quarter \in Nat
    BY <1>2, <1>3, <1>4 DEF Bit
  <2>3. \A k \in 0..P : u[k] \in Nat
    BY <2>1, <2>2
  <2>4. 0 \in 0..P /\ P \in 0..P /\ P # 0
    BY <1>2
  <2> QED
    BY <2>3, <2>4
<1>6. e \in [1..P -> Bit]
  BY <1>2 DEF MiddleShifted
<1>7. ASSUME NEW k \in 1..P
      PROVE  /\ u[k] < Weight(k)
             /\ u[k - 1] = (IF e[k] = 1 THEN Weight(k) ELSE 0) + u[k]
  <2>1. bit \in {0, 1} /\ k \in Nat
    BY DEF Bit
  <2>2. CASE k = P
    <3>1. u[k] = 0 /\ e[k] = bit /\ Weight(k) = 1 /\ v[k] = 0
      BY <2>2, <1>1, <1>2, WeightIs DEF MiddleShifted
    <3>2. u[k - 1] = 2 * v[k] + bit
      <4>1. k - 1 \in 0..P /\ k - 1 # 0 /\ k - 1 # P /\ k - 1 + 1 = k
        BY <2>2, <1>2
      <4> QED
        BY <4>1
    <3> HIDE DEF u, e
    <3> QED
      BY <2>1, <3>1, <3>2
  <2>3. CASE k = 1
    <3>1. u[k] = 2 * v[2] + bit /\ e[k] = d[1]
      BY <2>3, <1>2 DEF MiddleShifted
    <3>2. u[k - 1] = 2 * (x - Quarter) + bit
      <4>1. k - 1 = 0
        BY <2>3
      <4> HIDE DEF u
      <4> QED
        BY <4>1, <1>5
    <3>3. Weight(k) = 2 * Quarter /\ Quarter \in Nat
      BY <2>3, <1>2, WeightIs
    <3>4. x - Quarter = (IF d[1] = 1 THEN Quarter ELSE 0) + v[2]
          /\ v[2] \in Nat /\ v[2] < Quarter
      BY <1>3, <1>4
    <3>5. PICK a \in Int : a = x - Quarter
      BY <3>4, <3>3
    <3>6. CASE d[1] = 1
      <4> HIDE DEF u, e
      <4> QED
        <5>1. a = Quarter + v[2]
          BY <3>4, <3>5, <3>6
        <5>4. u[k - 1] = 2 * a + bit
          BY <3>2, <3>5
        <5>2. u[k - 1] = Weight(k) + u[k]
          BY <2>1, <3>1, <3>3, <3>4, <5>1, <5>4, SMTT(60)
        <5>3. u[k] < Weight(k)
          BY <2>1, <3>1, <3>3, <3>4
        <5> QED
          BY <5>2, <5>3, <3>1, <3>6
    <3>7. CASE d[1] # 1
      <4> HIDE DEF u, e
      <4> QED
        BY <2>1, <3>1, <3>2, <3>3, <3>4, <3>5, <3>7, SMTT(60)
    <3> QED
      BY <3>6, <3>7
  <2>4. CASE k # P /\ k # 1
    <3>1. k + 1 \in 1..P /\ k + 1 - 1 = k /\ k + 1 \in 0..P
          /\ k \in 0..P - 1 /\ k \in 0..P /\ k # 0
          /\ k - 1 \in 0..P /\ k - 1 # 0 /\ k - 1 # P /\ k - 1 + 1 = k
      BY <2>1, <2>4, <1>2
    <3>2. u[k] = 2 * v[k + 1] + bit /\ u[k - 1] = 2 * v[k] + bit
          /\ e[k] = d[k + 1]
      BY <2>4, <3>1 DEF MiddleShifted
    <3>3. /\ v[k + 1] < Weight(k + 1)
          /\ v[k] = (IF d[k + 1] = 1 THEN Weight(k + 1) ELSE 0) + v[k + 1]
      BY <1>1, <3>1
    <3>4. Weight(k) = 2 * Weight(k + 1) /\ Weight(k + 1) \in Nat
      BY <3>1, WeightIs
    <3>5. v[k + 1] \in Nat /\ v[k] \in Nat
      BY <1>1, <3>1
    <3>6. PICK w \in Nat, y \in Nat, z \in Nat :
            w = Weight(k + 1) /\ y = v[k + 1] /\ z = v[k]
      BY <3>4, <3>5
    <3>7. /\ u[k] = 2 * y + bit /\ u[k - 1] = 2 * z + bit
          /\ Weight(k) = 2 * w /\ y < w /\ bit \in {0, 1}
          /\ z = (IF d[k + 1] = 1 THEN w ELSE 0) + y
      BY <3>2, <3>3, <3>4, <3>6 DEF Bit
    <3> HIDE DEF u, e
    <3>8. u[k] < Weight(k)
      BY <3>7
    <3>9. u[k - 1] = (IF d[k + 1] = 1 THEN Weight(k) ELSE 0) + u[k]
      <4>1. CASE d[k + 1] = 1
        BY <3>7, <4>1
      <4>2. CASE d[k + 1] # 1
        BY <3>7, <4>2
      <4> QED
        BY <4>1, <4>2
    <3> QED
      BY <2>1, <3>2, <3>8, <3>9
  <2> QED
    BY <2>2, <2>3, <2>4
<1> HIDE DEF u, e
<1>8. Spells(e, 2 * (x - Quarter) + bit)
  BY <1>5, <1>6, <1>7 DEF Spells
<1> QED
  BY <1>4, <1>8 DEF e

(* What an iteration of the encoder puts out. *)
LEMMA OutputIs ==
  ASSUME NEW bit \in Bit, NEW p \in Nat
  PROVE  /\ Output(bit, p) \in Seq(Bit) /\ Len(Output(bit, p)) = p + 1
         /\ Output(bit, p)[1] = bit
         /\ \A i \in 1..p : Output(bit, p)[i + 1] = 1 - bit
<1> DEFINE rest == [i \in 1..p |-> 1 - bit]
<1>1. rest \in Seq(Bit) /\ Len(rest) = p /\ \A i \in 1..p : rest[i] = 1 - bit
  BY DEF Bit
<1>2. <<bit>> \in Seq(Bit) /\ Len(<<bit>>) = 1 /\ <<bit>>[1] = bit
  OBVIOUS
<1>3. Output(bit, p) = <<bit>> \o rest
  BY DEF Output
<1> HIDE DEF rest
<1>4. /\ Output(bit, p) \in Seq(Bit) /\ Len(Output(bit, p)) = 1 + p
      /\ \A i \in 1..1 + p : Output(bit, p)[i] =
           IF i <= 1 THEN <<bit>>[i] ELSE rest[i - 1]
  <2>1. PICK o : o = <<bit>>
    OBVIOUS
  <2>2. /\ o \o rest \in Seq(Bit) /\ Len(o \o rest) = Len(o) + Len(rest)
        /\ \A i \in 1..Len(o) + Len(rest) : (o \o rest)[i] =
             IF i <= Len(o) THEN o[i] ELSE rest[i - Len(o)]
    BY <2>1, <1>1, <1>2, ConcatProperties
  <2> QED
    BY <2>1, <2>2, <1>1, <1>2, <1>3
<1>5. ASSUME NEW i \in 1..p PROVE Output(bit, p)[i + 1] = 1 - bit
  <2>1. i + 1 \in 1..1 + p /\ ~ (i + 1 <= 1) /\ i + 1 - 1 = i
    OBVIOUS
  <2> QED
    BY <2>1, <1>1, <1>4
<1> QED
  BY <1>2, <1>4, <1>5

LEMMA EmittedType ==
  ASSUME NEW e \in Encoders
  PROVE  Emitted(e) \in Seq(Bit)
<1>1. e.pending \in Nat /\ 0 \in Bit /\ 1 \in Bit
  BY DEF Encoders, Bit
<1>2. Output(0, e.pending) \in Seq(Bit) /\ Output(1, e.pending) \in Seq(Bit)
  BY <1>1, OutputIs
<1>3. <<>> \in Seq(Bit)
  OBVIOUS
<1> QED
  BY <1>2, <1>3 DEF Emitted

(* A slice of a sequence, place by place. *)
LEMMA Slice ==
  ASSUME NEW S, NEW s \in Seq(S), NEW c \in Nat, NEW n \in Nat, c + n <= Len(s)
  PROVE  /\ SubSeq(s, c + 1, c + n) \in Seq(S)
         /\ Len(SubSeq(s, c + 1, c + n)) = n
         /\ \A j \in 1..n : SubSeq(s, c + 1, c + n)[j] = s[c + j]
<1>1. \A i \in c + 1..c + n : s[i] \in S
  BY LenProperties, ElementOfSeq
<1>2. PICK a \in Int, b \in Int : a = c + 1 /\ b = c + n
  OBVIOUS
<1>3. /\ SubSeq(s, a, b) \in Seq(S)
      /\ Len(SubSeq(s, a, b)) = IF a <= b THEN b - a + 1 ELSE 0
      /\ \A j \in 1..b - a + 1 : SubSeq(s, a, b)[j] = s[a + j - 1]
  BY <1>1, <1>2, SubSeqProperties
<1>4. /\ b - a + 1 = n /\ (a <= b <=> n # 0)
      /\ \A j \in 1..n : a + j - 1 = c + j
  BY <1>2
<1> QED
  BY <1>2, <1>3, <1>4

(* Where a coder stands in a stream s of bits, with c of them confirmed and *)
(* p pending: the register holds the bits after those, and its first bit is *)
(* the one after the confirmed, which the pending ones differ from.         *)
Window(s, c, p, x) ==
  \E d : /\ Spells(d, x)
         /\ c + p + Precision <= Len(s)
         /\ s[c + 1] = d[1]
         /\ \A i \in 1..p : s[c + 1 + i] = 1 - d[1]
         /\ \A k \in 2..Precision : s[c + p + k] = d[k]

(* An iteration puts out the stream's own bits, and leaves the register in *)
(* its new place.                                                          *)
LEMMA WindowStep ==
  ASSUME NEW s \in Seq(Bit), NEW c \in Nat, NEW e \in Encoders, NEW x,
         Window(s, c, e.pending, x), Ordered(e.r), Narrowed(e.r),
         x \in e.r.low..e.r.high, NEW bit \in Bit,
         c + e.pending + Precision + 1 <= Len(s),
         s[c + e.pending + Precision + 1] = bit
  PROVE  /\ Len(Emitted(e)) \in Nat /\ c + Len(Emitted(e)) <= Len(s)
         /\ SubSeq(s, c + 1, c + Len(Emitted(e))) = Emitted(e)
         /\ Window(s, c + Len(Emitted(e)), Encode(e).pending,
                   Shift(x - Offset(e.r), bit))
<1> DEFINE p == e.pending
           P == Precision
           out == Emitted(e)
           y == Shift(x - Offset(e.r), bit)
<1>1. /\ p \in Nat /\ P \in Nat /\ P >= 2 /\ Len(s) \in Nat
      /\ Half = 2 * Quarter /\ Quarter \in Nat \ {0}
  BY WeightIs, CoderAssumption, LenProperties DEF Encoders, Half
<1>2. PICK d : /\ Spells(d, x)
               /\ c + p + P <= Len(s)
               /\ s[c + 1] = d[1]
               /\ \A i \in 1..p : s[c + 1 + i] = 1 - d[1]
               /\ \A k \in 2..P : s[c + p + k] = d[k]
  BY DEF Window
<1>3. x \in Nat /\ d[1] \in Bit
      /\ (d[1] = 0 => x < Half) /\ (d[1] = 1 => x >= Half)
  BY <1>2, TopBit
<1>4. e.r.low \in Int /\ e.r.high \in Int /\ e.r.low <= x /\ x <= e.r.high
      /\ e.r.high <= Mask /\ Mask = 4 * Quarter - 1
  BY CoderAssumption DEF Ordered, Intervals, Mask, Full
<1> HIDE DEF out
<1>5. CASE Lower(e.r) \/ Upper(e.r)
  <2>1. /\ Lower(e.r) => d[1] = 0
        /\ ~Lower(e.r) => d[1] = 1
    BY <1>1, <1>3, <1>4, <1>5 DEF Lower, Upper, Bit
  <2>2. out = Output(d[1], p) /\ Offset(e.r) = (IF d[1] = 1 THEN Half ELSE 0)
        /\ Encode(e).pending = 0
    <3>1. CASE Lower(e.r)
      BY <2>1, <3>1 DEF Emitted, Offset, Encode, out
    <3>2. CASE ~Lower(e.r)
      BY <2>1, <3>2, <1>5 DEF Emitted, Offset, Encode, out
    <3> QED
      BY <3>1, <3>2
  <2>3. /\ out \in Seq(Bit) /\ Len(out) = p + 1 /\ out[1] = d[1]
        /\ \A i \in 1..p : out[i + 1] = 1 - d[1]
    <3>1. PICK bt \in Bit : bt = d[1]
      BY <1>3
    <3>2. PICK q \in Nat : q = p
      BY <1>1
    <3>3. /\ Output(bt, q) \in Seq(Bit) /\ Len(Output(bt, q)) = q + 1
          /\ Output(bt, q)[1] = bt
          /\ \A i \in 1..q : Output(bt, q)[i + 1] = 1 - bt
      BY OutputIs
    <3>4. out = Output(bt, q)
      BY <2>2, <3>1, <3>2
    <3> QED
      BY <3>1, <3>2, <3>3, <3>4
  <2>4. SubSeq(s, c + 1, c + Len(out)) = out
    <3>2. /\ SubSeq(s, c + 1, c + (p + 1)) \in Seq(Bit)
          /\ Len(SubSeq(s, c + 1, c + (p + 1))) = p + 1
          /\ \A j \in 1..p + 1 : SubSeq(s, c + 1, c + (p + 1))[j] = s[c + j]
      <4>1. PICK n \in Nat : n = p + 1
        BY <1>1
      <4>2. c + n <= Len(s)
        BY <4>1, <1>1, <1>2
      <4> QED
        BY <4>1, <4>2, Slice
    <3>3. ASSUME NEW j \in 1..p + 1 PROVE s[c + j] = out[j]
      <4>1. CASE j = 1
        BY <4>1, <2>3, <1>2
      <4>2. CASE j # 1
        <5>1. PICK i \in 1..p : i = j - 1
          BY <4>2, <1>1
        <5>2. c + j = c + 1 + i /\ j = i + 1
          BY <5>1, <1>1
        <5> QED
          BY <5>2, <2>3, <1>2
      <4> QED
        BY <4>1, <4>2
    <3>4. PICK g : g = SubSeq(s, c + 1, c + (p + 1))
      OBVIOUS
    <3>5. g \in Seq(Bit) /\ Len(g) = Len(out)
      BY <2>3, <3>2, <3>4
    <3>6. \A j \in 1..Len(g) : g[j] = out[j]
      BY <3>2, <3>3, <3>4
    <3>7. g = out
      BY <2>3, <3>5, <3>6, SeqEqual
    <3> QED
      BY <2>3, <3>4, <3>7
  <2>5. y = 2 * (x - (IF d[1] = 1 THEN Half ELSE 0)) + bit
    <3>1. x - Offset(e.r) \in 0..Half - 1
      BY <2>1, <2>2, <1>1, <1>3, <1>4 DEF Lower, Upper, Bit
    <3>2. y = 2 * (x - Offset(e.r)) + bit
      BY <3>1, ShiftIs
    <3> QED
      BY <3>2, <2>2
  <2>6. Spells(Shifted(d, bit), y)
    BY <2>5, <1>2, SpellsShift
  <2> DEFINE f == Shifted(d, bit)
             b == c + (p + 1)
  <2>7. /\ b + 0 + P <= Len(s)
        /\ s[b + 1] = f[1]
        /\ \A i \in 1..0 : s[b + 1 + i] = 1 - f[1]
        /\ \A k \in 2..P : s[b + 0 + k] = f[k]
    <3>1. ASSUME NEW k \in 1..P PROVE s[b + k] = f[k]
      <4>1. CASE k = P
        <5>1. b + k = c + p + P + 1
          BY <4>1, <1>1
        <5> QED
          BY <5>1, <4>1 DEF Shifted
      <4>2. CASE k # P
        <5>0. PICK q \in Nat, w \in Nat : q = p /\ w = P
          BY <1>1
        <5>1. b + k = c + p + (k + 1) /\ k + 1 \in 2..P
          <6>1. k \in 1..w /\ k # w
            BY <4>2, <5>0
          <6>2. c + (q + 1) + k = c + q + (k + 1) /\ k + 1 \in 2..w
            BY <6>1
          <6> QED
            BY <6>2, <5>0
        <5>2. f[k] = d[k + 1]
          BY <4>2 DEF Shifted
        <5> QED
          BY <5>1, <5>2, <1>2
      <4> QED
        BY <4>1, <4>2
    <3>2. 1 \in 1..P /\ \A k \in 2..P : k \in 1..P /\ b + 0 + k = b + k
      BY <1>1
    <3>3. b + 0 + P <= Len(s)
      BY <1>1
    <3> HIDE DEF b, f
    <3> QED
      BY <3>1, <3>2, <3>3
  <2>8. Window(s, b, 0, y)
    BY <2>6, <2>7 DEF Window
  <2>9. c + Len(out) = b /\ b <= Len(s) /\ Len(out) \in Nat
    BY <2>3, <1>1
  <2> QED
    BY <2>2, <2>4, <2>8, <2>9 DEF out
<1>6. CASE ~ (Lower(e.r) \/ Upper(e.r))
  <2>1. Middle(e.r)
    BY <1>6 DEF Narrowed
  <2>2. out = <<>> /\ Offset(e.r) = Quarter /\ Encode(e).pending = p + 1
    BY <1>6 DEF Emitted, Offset, Encode, out
  <2>3. Quarter <= x /\ x < 3 * Quarter
    <3>1. PICK i \in Int, k \in Int, q \in Nat :
            i = e.r.low /\ k = e.r.high /\ q = Quarter
      BY <1>1, <1>4
    <3>2. i >= q /\ k < 3 * q
      BY <2>1, <3>1 DEF Middle
    <3>3. i <= x /\ x <= k
      BY <1>4, <3>1
    <3> QED
      BY <1>3, <3>1, <3>2, <3>3
  <2>4. y = 2 * (x - Quarter) + bit
    <3>1. x - Quarter \in 0..Half - 1
      BY <2>3, <1>1, <1>3
    <3> QED
      BY <3>1, <2>2, ShiftIs
  <2>5. d[2] = 1 - d[1] /\ Spells(MiddleShifted(d, bit), y)
    BY <2>3, <2>4, <1>2, SpellsMiddle
  <2> DEFINE f == MiddleShifted(d, bit)
  <2>6. f[1] = d[1]
    BY <1>1 DEF MiddleShifted
  <2>7. /\ c + (p + 1) + P <= Len(s)
        /\ s[c + 1] = f[1]
        /\ \A i \in 1..p + 1 : s[c + 1 + i] = 1 - f[1]
        /\ \A k \in 2..P : s[c + (p + 1) + k] = f[k]
    <3>1. ASSUME NEW k \in 2..P PROVE s[c + (p + 1) + k] = f[k]
      <4>1. CASE k = P
        <5>1. c + (p + 1) + k = c + p + P + 1
          BY <4>1, <1>1
        <5>2. k \in 1..P
          BY <1>1
        <5> QED
          BY <5>1, <5>2, <4>1 DEF MiddleShifted
      <4>2. CASE k # P
        <5>0. PICK q \in Nat, w \in Nat : q = p /\ w = P
          BY <1>1
        <5>1. c + (p + 1) + k = c + p + (k + 1) /\ k + 1 \in 2..P
              /\ k \in 1..P /\ k # 1
          <6>1. k \in 2..w /\ k # w
            BY <4>2, <5>0
          <6>2. /\ c + (q + 1) + k = c + q + (k + 1) /\ k + 1 \in 2..w
                /\ k \in 1..w /\ k # 1
            BY <6>1
          <6> QED
            BY <6>2, <5>0
        <5>2. f[k] = d[k + 1]
          BY <4>2, <5>1 DEF MiddleShifted
        <5> QED
          BY <5>1, <5>2, <1>2
      <4> QED
        BY <4>1, <4>2
    <3>2. ASSUME NEW i \in 1..p + 1 PROVE s[c + 1 + i] = 1 - f[1]
      <4>1. CASE i = p + 1
        <5>0. PICK q \in Nat, w \in Nat : q = p /\ w = P /\ w >= 2
          BY <1>1
        <5>1. c + 1 + (q + 1) = c + q + 2
          OBVIOUS
        <5>4. 2 \in 2..w
          BY <5>0
        <5>2. c + 1 + i = c + p + 2
          <6>1. c + 1 + i = c + 1 + (q + 1) /\ c + p + 2 = c + q + 2
            BY <4>1, <5>0
          <6> QED
            BY <6>1, <5>1
        <5>3. 2 \in 2..P
          BY <5>0, <5>4
        <5> QED
          BY <5>2, <5>3, <2>5, <2>6, <1>2
      <4>2. CASE i # p + 1
        <5>1. i \in 1..p
          BY <4>2, <1>1
        <5> QED
          BY <5>1, <2>6, <1>2
      <4> QED
        BY <4>1, <4>2
    <3>3. c + (p + 1) + P <= Len(s)
      BY <1>1
    <3> HIDE DEF f
    <3>4. s[c + 1] = f[1]
      BY <2>6, <1>2
    <3> QED
      BY <3>1, <3>2, <3>3, <3>4
  <2>8. Window(s, c, p + 1, y)
    BY <2>5, <2>7 DEF Window
  <2>9. Len(out) = 0 /\ c + 0 = c /\ c <= Len(s)
    BY <2>2, <1>1, <1>2
  <2>10. SubSeq(s, c + 1, c) = <<>>
    <3>1. c + 1 \in Int /\ c \in Int /\ c < c + 1
      OBVIOUS
    <3> QED
      BY <3>1, SubSeqEmpty
  <2> QED
    BY <2>2, <2>8, <2>9, <2>10 DEF out
<1> QED
  BY <1>5, <1>6

-----------------------------------------------------------------------------
(* The sender's coders *)

(* Where the sender's decoder stands: a full register at the start, a wide *)
(* interval whenever it asks for a table, the code inside it.              *)
DecoderInv ==
  /\ coder \in [r : Intervals, code : 0..Mask, symbol : Nat]
  /\ Ordered(coder.r)
  /\ asked \in Seq(Tables)
  /\ pc \in {"prefix", "encrypt", "load"} => coder.r = Whole
  /\ pc \in {"choose", "mirror"} => Wide(coder.r)
  /\ pc \in {"choose", "decode", "mirror"} =>
       coder.code \in coder.r.low..coder.r.high

(* The actions that leave both coders alone, and where they may lead. *)
Elsewhere == /\ UNCHANGED <<coder, offset, asked, mirror, confirmed,
                             desynchronized>>
             /\ pc' \notin {"choose", "decode", "mirror"}
             /\ pc' \in {"prefix", "encrypt", "load"} =>
                  pc \in {"prefix", "encrypt", "load"}

LEMMA ElsewhereSteps ==
  ASSUME \/ \E t \in Tokens : Prefix(t) \/ Finish(t)
         \/ \E length \in CapsuleLengths : Encrypt(length)
         \/ Check \/ Receive
         \/ \E how \in Damages :
              \E observed \in Arrivals(how) : Deliver(how, observed)
  PROVE  Elsewhere
<1>1. CASE \E t \in Tokens : Prefix(t) \/ Finish(t)
  BY <1>1 DEF Elsewhere, Prefix, Finish, coderVars, mirrorVars, textVars
<1>2. CASE \E length \in CapsuleLengths : Encrypt(length)
  BY <1>2 DEF Elsewhere, Encrypt, coderVars, mirrorVars, textVars
<1>3. CASE Check
  BY <1>3 DEF Elsewhere, Check, coderVars, mirrorVars, textVars
<1>4. CASE \E how \in Damages :
             \E observed \in Arrivals(how) : Deliver(how, observed)
  BY <1>4 DEF Elsewhere, Deliver, coderVars, mirrorVars, textVars
<1>5. CASE Receive
  <2>1. CASE \E c \in Tables : ReadToken(c)
    BY <2>1 DEF Elsewhere, ReadToken, coderVars, mirrorVars, textVars
  <2>2. CASE ReadEnd
    BY <2>2 DEF Elsewhere, ReadEnd, coderVars, mirrorVars, textVars
  <2>3. CASE EncodeShift
    BY <2>3 DEF Elsewhere, EncodeShift, coderVars, mirrorVars, textVars
  <2>4. CASE EncodeEnd
    BY <2>4 DEF Elsewhere, EncodeEnd, coderVars, mirrorVars, textVars
  <2>5. CASE Open
    BY <2>5 DEF Elsewhere, Open, coderVars, mirrorVars, textVars
  <2> QED
    BY <1>5, <2>1, <2>2, <2>3, <2>4, <2>5 DEF Receive
<1> QED
  BY <1>1, <1>2, <1>3, <1>4, <1>5

LEMMA DecoderInit == Init => DecoderInv
<1> SUFFICES ASSUME Init PROVE DecoderInv
  OBVIOUS
<1>1. /\ coder = [r |-> Whole, code |-> 0, symbol |-> 0]
      /\ asked = <<>> /\ pc = "prefix"
  BY DEF Init
<1>2. Ordered(Whole) /\ Whole \in Intervals
  BY WholeWide DEF Wide, Ordered
<1>3. 0 \in 0..Mask
  BY CoderAssumption DEF Mask, Full
<1> QED
  BY <1>1, <1>2, <1>3 DEF DecoderInv

LEMMA ShiftType ==
  ASSUME NEW x \in Int, NEW bit \in Bit
  PROVE  Shift(x, bit) \in 0..Mask
BY CoderAssumption DEF Shift, Bit, Mask, Full

(* Every step keeps the decoder's invariant. *)
LEMMA DecoderNext == DecoderInv /\ [Next]_vars => DecoderInv'
<1> SUFFICES ASSUME DecoderInv, [Next]_vars PROVE DecoderInv'
  OBVIOUS
<1>1. CASE UNCHANGED vars
  BY <1>1 DEF DecoderInv, vars, coderVars, textVars
<1>2. CASE Elsewhere
  BY <1>2 DEF DecoderInv, Elsewhere
<1>3. CASE Load
  <2>1. PICK bit \in Bit :
          coder' = [coder EXCEPT !.code = Shift(coder.code, bit)]
    BY <1>3 DEF Load
  <2>2. coder'.r = coder.r /\ coder'.code = Shift(coder.code, bit)
    BY <2>1 DEF DecoderInv
  <2>3. /\ coder'.code \in 0..Mask
        /\ coder' \in [r : Intervals, code : 0..Mask, symbol : Nat]
    <3>1. Shift(coder.code, bit) \in 0..Mask
      BY ShiftType DEF DecoderInv
    <3> QED
      BY <3>1, <2>1 DEF DecoderInv
  <2>4. /\ coder.r = Whole /\ asked' = asked
        /\ pc' \in {"choose", "load"}
    BY <1>3 DEF DecoderInv, Load, textVars
  <2>5. Whole.low = 0 /\ Whole.high = Mask
    BY DEF Whole
  <2> QED
    BY <2>2, <2>3, <2>4, <2>5, WholeWide DEF DecoderInv, Wide
<1>4. ASSUME NEW c \in Tables, Choose(c) PROVE DecoderInv'
  <2> DEFINE s == SymbolOf(coder.r, coder.code, c)
  <2>1. Wide(coder.r) /\ coder.code \in coder.r.low..coder.r.high
    BY <1>4 DEF DecoderInv, Choose
  <2>2. IsTable(c)
    BY CarrierAssumption
  <2>3. /\ s \in Symbols(c)
        /\ coder.code \in Narrow(coder.r, c, s).low..Narrow(coder.r, c, s).high
        /\ Ordered(Narrow(coder.r, c, s))
    BY <2>1, <2>2, SymbolFound, NarrowInside
  <2>4. /\ coder' = [coder EXCEPT !.r = Narrow(coder.r, c, s), !.symbol = s]
        /\ asked' = Append(asked, c) /\ pc' = "decode"
    BY <1>4, <2>3 DEF Choose
  <2> HIDE DEF s
  <2>5. coder'.r = Narrow(coder.r, c, s) /\ coder'.code = coder.code
    BY <2>4 DEF DecoderInv
  <2>6. coder' \in [r : Intervals, code : 0..Mask, symbol : Nat]
    <3>1. s \in Nat /\ Narrow(coder.r, c, s) \in Intervals
      BY <2>2, <2>3 DEF IsTable, Symbols, Ordered
    <3> QED
      BY <3>1, <2>4 DEF DecoderInv
  <2> QED
    BY <2>3, <2>4, <2>5, <2>6 DEF DecoderInv
<1>5. CASE DecodeShift
  <2>1. PICK bit \in Bit :
          coder' = [coder EXCEPT
            !.r = Widen(coder.r),
            !.code = Shift(coder.code - Offset(coder.r), bit)]
    BY <1>5 DEF DecodeShift
  <2>2. /\ coder'.r = Widen(coder.r)
        /\ coder'.code = Shift(coder.code - Offset(coder.r), bit)
    BY <2>1 DEF DecoderInv
  <2>3. /\ Ordered(Widen(coder.r))
        /\ coder'.code \in Widen(coder.r).low..Widen(coder.r).high
    BY <1>5, <2>2, WidenInside DEF DecoderInv, DecodeShift
  <2>4. Offset(coder.r) \in Int /\ coder.code \in Int
    BY CoderAssumption DEF DecoderInv, Offset, Half, Mask, Full
  <2>5. coder' \in [r : Intervals, code : 0..Mask, symbol : Nat]
    <3>1. Shift(coder.code - Offset(coder.r), bit) \in 0..Mask
      BY <2>4, ShiftType
    <3>2. Widen(coder.r) \in Intervals
      BY <2>3 DEF Ordered
    <3> QED
      BY <3>1, <3>2, <2>1 DEF DecoderInv
  <2>6. pc = "decode" /\ pc' = "decode" /\ asked' = asked
    BY <1>5 DEF DecodeShift, textVars
  <2> QED
    BY <2>2, <2>3, <2>5, <2>6 DEF DecoderInv
<1>6. CASE DecodeEnd
  <2>1. Wide(coder.r)
    BY <1>6, WideAfter DEF DecoderInv, DecodeEnd
  <2> QED
    BY <1>6, <2>1 DEF DecoderInv, DecodeEnd, coderVars, textVars
<1>7. CASE MirrorShift
  BY <1>7 DEF DecoderInv, MirrorShift, coderVars, textVars
<1>8. CASE Token
  BY <1>8 DEF DecoderInv, Token, coderVars
<1> QED
  BY <1>1, <1>2, <1>3, <1>4, <1>5, <1>6, <1>7, <1>8, ElsewhereSteps
     DEF Next, Send

(* The code never leaves the interval, so every table has a symbol for it: *)
(* ArithmeticSymbolDecoder.symbol never raises "arithmetic symbol outside  *)
(* table", whatever the model returns and whatever bits it reads.          *)
THEOREM CodeNeverOutside == Spec => []CodeInside
<1>1. DecoderInv => CodeInside
  BY DEF DecoderInv, CodeInside
<1> QED
  BY <1>1, DecoderInit, DecoderNext, PTL DEF Spec

-----------------------------------------------------------------------------
(* The decoder renormalises at once and the mirror only afterwards, so     *)
(* between two tokens the mirror lags behind.  A trail leads from one      *)
(* interval to another by n iterations of the loop.                        *)
Trail(from, to, n) ==
  \E t \in [0..n -> Intervals] :
    /\ t[0] = from /\ t[n] = to
    /\ \A i \in 0..n - 1 : Narrowed(t[i]) /\ t[i + 1] = Widen(t[i])

(* The decoder reads a bit in each iteration and the mirror confirms one   *)
(* or leaves it pending: n iterations are the bits they are apart.         *)
Lag(n) == offset = confirmed + mirror.pending + Precision + n

(* Where the mirror stands: fresh at the start, where the decoder is when  *)
(* it asks for a table, and a trail behind it in between.                  *)
MirrorInv ==
  /\ mirror \in Encoders /\ confirmed \in Nat /\ offset \in Nat
  /\ pc \in {"prefix", "encrypt", "load"} => mirror = Fresh /\ confirmed = 0
  /\ InStep
  /\ pc = "decode" =>
       \E n \in Nat :
         /\ Trail(Narrow(mirror.r, Last(asked), coder.symbol), coder.r, n)
         /\ Lag(n)
  /\ pc = "mirror" =>
       /\ ~Narrowed(coder.r)
       /\ \E n \in Nat : Trail(mirror.r, coder.r, n) /\ Lag(n)

LEMMA TrailStart == ASSUME NEW r \in Intervals PROVE Trail(r, r, 0)
<1> DEFINE t == [i \in 0..0 |-> r]
<1>1. t \in [0..0 -> Intervals] /\ t[0] = r
  OBVIOUS
<1>2. \A i \in 0..0 - 1 : Narrowed(t[i]) /\ t[i + 1] = Widen(t[i])
  OBVIOUS
<1> HIDE DEF t
<1> QED
  BY <1>1, <1>2 DEF Trail

LEMMA TrailLonger ==
  ASSUME NEW from, NEW to, NEW n \in Nat, Trail(from, to, n),
         Narrowed(to), Widen(to) \in Intervals
  PROVE  Trail(from, Widen(to), n + 1)
<1>1. PICK t \in [0..n -> Intervals] :
        /\ t[0] = from /\ t[n] = to
        /\ \A i \in 0..n - 1 : Narrowed(t[i]) /\ t[i + 1] = Widen(t[i])
  BY DEF Trail
<1> DEFINE u == [i \in 0..n + 1 |-> IF i = n + 1 THEN Widen(to) ELSE t[i]]
<1>2. u \in [0..n + 1 -> Intervals] /\ u[0] = from /\ u[n + 1] = Widen(to)
  BY <1>1
<1>3. ASSUME NEW i \in 0..(n + 1) - 1
      PROVE  Narrowed(u[i]) /\ u[i + 1] = Widen(u[i])
  BY <1>1
<1> HIDE DEF u
<1> QED
  BY <1>2, <1>3 DEF Trail

LEMMA TrailShorter ==
  ASSUME NEW from, NEW to, NEW n \in Nat, Trail(from, to, n),
         Narrowed(from), ~Narrowed(to)
  PROVE  n # 0 /\ Widen(from) \in Intervals /\ Trail(Widen(from), to, n - 1)
<1>1. PICK t \in [0..n -> Intervals] :
        /\ t[0] = from /\ t[n] = to
        /\ \A i \in 0..n - 1 : Narrowed(t[i]) /\ t[i + 1] = Widen(t[i])
  BY DEF Trail
<1>2. n # 0
  BY <1>1
<1> DEFINE u == [i \in 0..n - 1 |-> t[i + 1]]
<1>3. u \in [0..n - 1 -> Intervals] /\ u[0] = Widen(from) /\ u[n - 1] = to
  BY <1>1, <1>2
<1>4. ASSUME NEW i \in 0..(n - 1) - 1
      PROVE  Narrowed(u[i]) /\ u[i + 1] = Widen(u[i])
  <2>1. i \in 0..n - 1 /\ i + 1 \in 0..n - 1
    BY <1>2
  <2> QED
    BY <2>1, <1>1
<1>5. u[0] \in Intervals
  BY <1>2, <1>3
<1> HIDE DEF u
<1> QED
  BY <1>2, <1>3, <1>4, <1>5 DEF Trail

LEMMA TrailEnd ==
  ASSUME NEW from, NEW to, NEW n \in Nat, Trail(from, to, n), ~Narrowed(from)
  PROVE  n = 0 /\ from = to
<1>1. PICK t \in [0..n -> Intervals] :
        /\ t[0] = from /\ t[n] = to
        /\ \A i \in 0..n - 1 : Narrowed(t[i]) /\ t[i + 1] = Widen(t[i])
  BY DEF Trail
<1>2. n = 0
  BY <1>1
<1> QED
  BY <1>1, <1>2

(* An iteration of the encoder confirms one bit or leaves it pending. *)
LEMMA OneBit ==
  ASSUME NEW e \in Encoders, Narrowed(e.r)
  PROVE  /\ Len(Emitted(e)) \in Nat /\ Encode(e).pending \in Nat
         /\ Len(Emitted(e)) + Encode(e).pending = e.pending + 1
<1>1. e.pending \in Nat
  BY DEF Encoders
<1>2. \A bit \in Bit : Len(Output(bit, e.pending)) = e.pending + 1
  <2> TAKE bit \in Bit
  <2>1. [i \in 1..e.pending |-> 1 - bit] \in Seq(Int)
        /\ Len([i \in 1..e.pending |-> 1 - bit]) = e.pending
    BY <1>1 DEF Bit
  <2>2. <<bit>> \in Seq(Int) /\ Len(<<bit>>) = 1
    BY DEF Bit
  <2> QED
    BY <2>1, <2>2, <1>1, ConcatProperties DEF Output
<1>3. CASE Lower(e.r) \/ Upper(e.r)
  <2>1. Len(Emitted(e)) = e.pending + 1
    BY <1>2, <1>3 DEF Emitted, Bit
  <2>2. Encode(e).pending = 0
    BY <1>3 DEF Encode
  <2> QED
    BY <1>1, <2>1, <2>2
<1>4. CASE ~ (Lower(e.r) \/ Upper(e.r))
  <2>1. Emitted(e) = <<>>
    BY <1>4 DEF Emitted
  <2>2. Encode(e).pending = e.pending + 1
    BY <1>4 DEF Encode
  <2> QED
    BY <1>1, <2>1, <2>2
<1> QED
  BY <1>3, <1>4

LEMMA MirrorInit == Init => MirrorInv
<1> SUFFICES ASSUME Init PROVE MirrorInv
  OBVIOUS
<1>1. /\ mirror = Fresh /\ confirmed = 0 /\ offset = 0 /\ pc = "prefix"
  BY DEF Init
<1>2. Fresh \in Encoders
  BY WholeWide DEF Fresh, Encoders, Wide, Ordered
<1> QED
  BY <1>1, <1>2 DEF MirrorInv, InStep

(* Every step keeps the mirror's invariant. *)
LEMMA MirrorNext ==
  DecoderInv /\ DecoderInv' /\ MirrorInv /\ [Next]_vars => MirrorInv'
<1> SUFFICES ASSUME DecoderInv, DecoderInv', MirrorInv, [Next]_vars
             PROVE  MirrorInv'
  OBVIOUS
<1>1. CASE UNCHANGED vars
  BY <1>1 DEF MirrorInv, InStep, Trail, Lag, vars, coderVars, mirrorVars,
     textVars
<1>2. CASE Elsewhere
  BY <1>2 DEF MirrorInv, InStep, Elsewhere
<1>3. CASE Load
  <2>1. /\ mirror' = mirror /\ confirmed' = confirmed /\ offset' = offset + 1
        /\ coder'.r = Whole
        /\ pc = "load"
        /\ pc' = IF offset + 1 = Precision THEN "choose" ELSE "load"
    BY <1>3 DEF Load, ReadBit, mirrorVars, DecoderInv
  <2>2. mirror = Fresh /\ confirmed = 0 /\ offset \in Nat
    BY <2>1 DEF MirrorInv
  <2> QED
    BY <2>1, <2>2, CarrierAssumption DEF MirrorInv, InStep, Fresh
<1>4. ASSUME NEW c \in Tables, Choose(c) PROVE MirrorInv'
  <2>1. /\ mirror' = mirror /\ confirmed' = confirmed /\ offset' = offset
        /\ pc = "choose"
    BY <1>4 DEF Choose, mirrorVars
  <2>2. CASE pc' = "refused"
    BY <2>1, <2>2 DEF MirrorInv, InStep
  <2>3. CASE pc' = "decode"
    <3> DEFINE s == SymbolOf(coder.r, coder.code, c)
    <3>1. /\ coder' = [coder EXCEPT !.r = Narrow(coder.r, c, s), !.symbol = s]
          /\ asked' = Append(asked, c)
      BY <1>4, <2>3 DEF Choose
    <3> HIDE DEF s
    <3>2. coder'.r = Narrow(coder.r, c, s) /\ coder'.symbol = s
      BY <3>1 DEF DecoderInv
    <3>3. Last(asked') = c
      BY <3>1 DEF DecoderInv, Last
    <3>4. mirror.r = coder.r /\ Lag(0)
      BY <2>1 DEF MirrorInv, InStep, Lag, Encoders
    <3>5. Narrow(mirror'.r, Last(asked'), coder'.symbol) = coder'.r
      BY <2>1, <3>2, <3>3, <3>4
    <3>6. Trail(coder'.r, coder'.r, 0)
      BY TrailStart DEF DecoderInv
    <3>7. Lag(0)'
      BY <3>4, <2>1 DEF Lag
    <3> QED
      BY <2>1, <2>3, <3>5, <3>6, <3>7 DEF MirrorInv, InStep
  <2> QED
    BY <1>4, <2>2, <2>3 DEF Choose
<1>5. CASE DecodeShift
  <2>1. /\ mirror' = mirror /\ confirmed' = confirmed /\ offset' = offset + 1
        /\ asked' = asked
        /\ pc = "decode" /\ pc' = "decode" /\ Narrowed(coder.r)
    BY <1>5 DEF DecodeShift, ReadBit, mirrorVars, textVars
  <2>2. coder'.r = Widen(coder.r) /\ coder'.symbol = coder.symbol
    BY <1>5 DEF DecodeShift, DecoderInv
  <2> DEFINE from == Narrow(mirror.r, Last(asked), coder.symbol)
  <2>3. PICK n \in Nat : Trail(from, coder.r, n) /\ Lag(n)
    BY <2>1 DEF MirrorInv
  <2> HIDE DEF from
  <2>4. Trail(from, coder'.r, n + 1)
    <3>1. Widen(coder.r) \in Intervals
      BY <2>2 DEF DecoderInv
    <3> QED
      BY <3>1, <2>1, <2>2, <2>3, TrailLonger
  <2>5. Lag(n + 1)'
    BY <2>1, <2>3, CarrierAssumption DEF Lag, MirrorInv, Encoders
  <2>6. from = Narrow(mirror'.r, Last(asked'), coder'.symbol)
    BY <2>1, <2>2 DEF from
  <2>7. offset' \in Nat /\ n + 1 \in Nat
    BY <2>1, <2>3 DEF MirrorInv
  <2> QED
    BY <2>1, <2>4, <2>5, <2>6, <2>7 DEF MirrorInv, InStep
<1>6. CASE DecodeEnd
  <2>1. /\ coder' = coder /\ offset' = offset /\ confirmed' = confirmed
        /\ mirror' = [mirror EXCEPT
                        !.r = Narrow(mirror.r, Last(asked), coder.symbol)]
        /\ pc = "decode" /\ pc' = "mirror" /\ ~Narrowed(coder.r)
    BY <1>6 DEF DecodeEnd, coderVars
  <2> DEFINE from == Narrow(mirror.r, Last(asked), coder.symbol)
  <2>2. PICK n \in Nat : Trail(from, coder.r, n) /\ Lag(n)
    BY <2>1 DEF MirrorInv
  <2>3. from \in Intervals
    <3> HIDE DEF from
    <3> QED
      BY <2>2 DEF Trail
  <2>4. /\ mirror'.r = from /\ mirror'.pending = mirror.pending
        /\ mirror' \in Encoders
    BY <2>1, <2>3 DEF MirrorInv, Encoders
  <2> HIDE DEF from
  <2>5. Trail(mirror'.r, coder'.r, n) /\ Lag(n)'
    BY <2>1, <2>2, <2>4 DEF Lag
  <2> QED
    BY <2>1, <2>4, <2>5 DEF MirrorInv, InStep
<1>7. CASE MirrorShift
  <2>1. /\ coder' = coder /\ offset' = offset
        /\ mirror' = Encode(mirror)
        /\ confirmed' = confirmed + Len(Emitted(mirror))
        /\ pc = "mirror" /\ pc' = "mirror" /\ Narrowed(mirror.r)
    BY <1>7 DEF MirrorShift, coderVars
  <2>2. PICK n \in Nat : Trail(mirror.r, coder.r, n) /\ Lag(n)
    BY <2>1 DEF MirrorInv
  <2>3. ~Narrowed(coder.r) /\ mirror \in Encoders
    BY <2>1 DEF MirrorInv
  <2>4. /\ n # 0 /\ Widen(mirror.r) \in Intervals
        /\ Trail(Widen(mirror.r), coder.r, n - 1)
    BY <2>1, <2>2, <2>3, TrailShorter
  <2>5. /\ Len(Emitted(mirror)) \in Nat /\ Encode(mirror).pending \in Nat
        /\ Len(Emitted(mirror)) + Encode(mirror).pending = mirror.pending + 1
    BY <2>1, <2>3, OneBit
  <2>6. mirror'.r = Widen(mirror.r)
    BY <2>1 DEF Encode
  <2>7. mirror' \in Encoders
    BY <2>1, <2>4, <2>5 DEF Encode, Encoders
  <2>8. Lag(n - 1)'
    <3> DEFINE out == Len(Emitted(mirror))
               left == Encode(mirror).pending
    <3>1. confirmed \in Nat /\ mirror.pending \in Nat
      BY <2>3 DEF MirrorInv, Encoders
    <3>2. /\ offset = confirmed + mirror.pending + Precision + n
          /\ offset' = offset /\ confirmed' = confirmed + out
          /\ mirror'.pending = left
      BY <2>1, <2>2 DEF Lag
    <3>3. out \in Nat /\ left \in Nat /\ out + left = mirror.pending + 1
      BY <2>5
    <3> HIDE DEF out, left
    <3>4. offset' = confirmed' + mirror'.pending + Precision + (n - 1)
      BY <3>1, <3>2, <3>3, CarrierAssumption
    <3> QED
      BY <3>4 DEF Lag
  <2>9. confirmed' \in Nat /\ n - 1 \in Nat
    BY <2>1, <2>4, <2>5 DEF MirrorInv
  <2> QED
    BY <2>1, <2>3, <2>4, <2>6, <2>7, <2>8, <2>9 DEF MirrorInv, InStep
<1>8. CASE Token
  <2>1. /\ coder' = coder /\ offset' = offset /\ mirror' = mirror
        /\ confirmed' = confirmed /\ pc = "mirror" /\ ~Narrowed(mirror.r)
        /\ pc' \in {"refused", "choose", "finish"}
    BY <1>8 DEF Token, coderVars, mirrorVars
  <2>2. PICK n \in Nat : Trail(mirror.r, coder.r, n) /\ Lag(n)
    BY <2>1 DEF MirrorInv
  <2>3. n = 0 /\ mirror.r = coder.r
    BY <2>1, <2>2, TrailEnd
  <2>4. offset = confirmed + mirror.pending + Precision
    BY <2>2, <2>3, CarrierAssumption DEF Lag, MirrorInv, Encoders
  <2> QED
    BY <2>1, <2>3, <2>4 DEF MirrorInv, InStep
<1> QED
  BY <1>1, <1>2, <1>3, <1>4, <1>5, <1>6, <1>7, <1>8, ElsewhereSteps
     DEF Next, Send

(* At every token the mirror has the decoder's interval, and the decoder   *)
(* is exactly one register and the pending bits ahead of what it has       *)
(* confirmed: _encode_payload's two coders cannot drift apart.             *)
THEOREM CodersInStep == Spec => []InStep
<1>1. Init => DecoderInv /\ MirrorInv
  BY DecoderInit, MirrorInit
<1>2. DecoderInv /\ MirrorInv /\ [Next]_vars => (DecoderInv /\ MirrorInv)'
  BY DecoderNext, MirrorNext
<1>3. MirrorInv => InStep
  BY DEF MirrorInv
<1> QED
  BY <1>1, <1>2, <1>3, PTL DEF Spec

-----------------------------------------------------------------------------
(* The framed source: B and C are its first bits, and what was read of it  *)
(* stays.                                                                  *)
Unframed == {"prefix", "encrypt"}
PacketInv ==
  /\ header \in Seq(Bit) /\ capsule \in Seq(Bit) /\ bits \in Seq(Bit)
  /\ offset \in 0..Len(bits)
  /\ pc \in Unframed => /\ header = <<>> /\ capsule = <<>> /\ bits = <<>>
                        /\ coder.code = 0
  /\ pc \notin Unframed =>
       /\ \E length \in CapsuleLengths : /\ header = AsBits(PackHeader(length))
                                         /\ Len(capsule) = length * ByteBits
       /\ RealBits <= Len(bits)
       /\ \A i \in 1..RealBits : bits[i] = (header \o capsule)[i]

LEMMA ReadBitIs ==
  ASSUME bits \in Seq(Bit), offset \in 0..Len(bits), NEW bit \in Bit, ReadBit(bit)
  PROVE  /\ bits' \in Seq(Bit) /\ Len(bits) <= Len(bits')
         /\ \A i \in 1..Len(bits) : bits'[i] = bits[i]
         /\ offset' = offset + 1 /\ offset' \in 1..Len(bits')
         /\ bits'[offset'] = bit
<1>0. Len(bits) \in Nat /\ offset \in Nat /\ offset <= Len(bits)
  BY LenProperties
<1>1. CASE offset < Len(bits)
  BY <1>0, <1>1 DEF ReadBit
<1>2. CASE ~ (offset < Len(bits))
  <2>1. /\ bits' = Append(bits, bit) /\ offset' = offset + 1
        /\ offset = Len(bits)
    BY <1>0, <1>2 DEF ReadBit
  <2>2. /\ bits' \in Seq(Bit) /\ Len(bits') = Len(bits) + 1
        /\ \A i \in 1..Len(bits) : bits'[i] = bits[i]
        /\ bits'[Len(bits) + 1] = bit
    BY <2>1, AppendProperties
  <2> QED
    BY <1>0, <2>1, <2>2
<1> QED
  BY <1>1, <1>2

(* The actions that neither read the source nor frame it. *)
NoRead == /\ UNCHANGED <<header, capsule, bits, offset>>
          /\ (pc \in Unframed) = (pc' \in Unframed)
          /\ pc \in Unframed => coder' = coder

LEMMA NoReadSteps ==
  ASSUME \/ \E t \in Tokens : Prefix(t) \/ Finish(t)
         \/ \E c \in Tables : Choose(c)
         \/ DecodeEnd \/ MirrorShift \/ Token \/ Check \/ Receive
         \/ \E how \in Damages :
              \E observed \in Arrivals(how) : Deliver(how, observed)
  PROVE  NoRead
<1>1. CASE \E t \in Tokens : Prefix(t) \/ Finish(t)
  BY <1>1 DEF NoRead, Unframed, Prefix, Finish, coderVars, packetVars
<1>2. ASSUME NEW c \in Tables, Choose(c) PROVE NoRead
  <2>1. /\ UNCHANGED <<header, capsule, bits, offset>>
        /\ pc = "choose" /\ pc' \in {"decode", "refused"}
    BY <1>2 DEF Choose, packetVars
  <2> QED
    BY <2>1 DEF NoRead, Unframed
<1>3. CASE DecodeEnd
  BY <1>3 DEF NoRead, Unframed, DecodeEnd, coderVars, packetVars
<1>4. CASE MirrorShift
  BY <1>4 DEF NoRead, Unframed, MirrorShift, coderVars, packetVars
<1>5. CASE Token
  <2>1. /\ UNCHANGED <<header, capsule, bits, offset>>
        /\ pc = "mirror" /\ pc' \in {"choose", "refused", "finish"}
    BY <1>5 DEF Token, packetVars, coderVars
  <2> QED
    BY <2>1 DEF NoRead, Unframed
<1>6. CASE Check
  BY <1>6 DEF NoRead, Unframed, Check, coderVars, packetVars
<1>7. CASE \E how \in Damages :
             \E observed \in Arrivals(how) : Deliver(how, observed)
  BY <1>7 DEF NoRead, Unframed, Deliver, coderVars, packetVars
<1>8. CASE Receive
  <2>1. CASE \E c \in Tables : ReadToken(c)
    BY <2>1 DEF NoRead, Unframed, ReadToken, coderVars, packetVars
  <2>2. CASE ReadEnd
    BY <2>2 DEF NoRead, Unframed, ReadEnd, coderVars, packetVars
  <2>3. CASE EncodeShift
    BY <2>3 DEF NoRead, Unframed, EncodeShift, coderVars, packetVars
  <2>4. CASE EncodeEnd
    BY <2>4 DEF NoRead, Unframed, EncodeEnd, coderVars, packetVars
  <2>5. CASE Open
    BY <2>5 DEF NoRead, Unframed, Open, coderVars, packetVars
  <2> QED
    BY <1>8, <2>1, <2>2, <2>3, <2>4, <2>5 DEF Receive
<1> QED
  BY <1>1, <1>2, <1>3, <1>4, <1>5, <1>6, <1>7, <1>8

LEMMA PacketInit == Init => PacketInv
<1> SUFFICES ASSUME Init PROVE PacketInv
  OBVIOUS
<1>1. /\ header = <<>> /\ capsule = <<>> /\ bits = <<>> /\ offset = 0
      /\ pc = "prefix" /\ coder.code = 0
  BY DEF Init
<1>2. <<>> \in Seq(Bit) /\ Len(<<>>) = 0
  OBVIOUS
<1> QED
  BY <1>1, <1>2 DEF PacketInv, Unframed

(* Reading leaves the framed packet in its place. *)
LEMMA PacketRead ==
  ASSUME PacketInv, NEW bit \in Bit, ReadBit(bit), pc \notin Unframed,
         UNCHANGED packetVars, pc' \notin Unframed
  PROVE  PacketInv'
<1>1. /\ bits' \in Seq(Bit) /\ Len(bits) <= Len(bits')
      /\ \A i \in 1..Len(bits) : bits'[i] = bits[i]
      /\ offset' = offset + 1 /\ offset' \in 1..Len(bits')
  BY ReadBitIs DEF PacketInv
<1>2. /\ header' = header /\ capsule' = capsule
      /\ header \in Seq(Bit) /\ capsule \in Seq(Bit) /\ bits \in Seq(Bit)
  BY DEF packetVars, PacketInv
<1>3. RealBits \in Nat /\ RealBits' = RealBits /\ Len(bits) \in Nat
      /\ Len(bits') \in Nat
  BY <1>1, <1>2, LenProperties DEF RealBits
<1>4. /\ \E length \in CapsuleLengths : /\ header' = AsBits(PackHeader(length))
                                        /\ Len(capsule') = length * ByteBits
  BY <1>2 DEF PacketInv
<1>5. RealBits <= Len(bits) /\ \A i \in 1..RealBits : bits[i] = (header \o capsule)[i]
  BY DEF PacketInv
<1>6. ASSUME NEW i \in 1..RealBits PROVE bits'[i] = (header \o capsule)[i]
  <2>1. i \in 1..Len(bits)
    BY <1>3, <1>5
  <2> QED
    BY <2>1, <1>1, <1>5
<1>7. RealBits' <= Len(bits') /\ offset' \in 0..Len(bits')
  BY <1>1, <1>3, <1>5
<1> QED
  BY <1>1, <1>2, <1>3, <1>4, <1>6, <1>7 DEF PacketInv

LEMMA PacketNext == PacketInv /\ DecoderInv /\ [Next]_vars => PacketInv'
<1> SUFFICES ASSUME PacketInv, DecoderInv, [Next]_vars PROVE PacketInv'
  OBVIOUS
<1>1. CASE UNCHANGED vars
  BY <1>1 DEF PacketInv, RealBits, vars, coderVars, packetVars
<1>2. CASE NoRead
  <2>1. /\ header' = header /\ capsule' = capsule /\ bits' = bits
        /\ offset' = offset /\ RealBits' = RealBits
        /\ (pc \in Unframed) = (pc' \in Unframed)
        /\ pc \in Unframed => coder' = coder
    BY <1>2 DEF NoRead, RealBits
  <2> QED
    BY <2>1 DEF PacketInv
<1>3. ASSUME NEW length \in CapsuleLengths, Encrypt(length) PROVE PacketInv'
  <2>1. /\ header' = AsBits(PackHeader(length))
        /\ capsule' \in [1..length * ByteBits -> Bit]
        /\ bits' = header' \o capsule' /\ pc' = "load" /\ offset' = offset
        /\ pc = "encrypt"
    BY <1>3 DEF Encrypt
  <2>2. header' \in Seq(Bit)
    BY <2>1, HeaderBytes, AsBitsType
  <2>3. length * ByteBits \in Nat
    <3>1. length \in Nat /\ ByteBits \in Nat
      BY BaseIs, HeaderAssumption DEF CapsuleLengths
    <3> QED
      BY <3>1
  <2>4. capsule' \in Seq(Bit) /\ Len(capsule') = length * ByteBits
    BY <2>1, <2>3
  <2>5. /\ bits' \in Seq(Bit) /\ Len(bits') = Len(header') + Len(capsule')
    BY <2>1, <2>2, <2>4, ConcatProperties
  <2>6. Len(bits') \in Nat /\ offset' = 0 /\ RealBits' = Len(bits')
    <3>1. offset = 0
      <4>1. bits = <<>> /\ offset \in 0..Len(bits)
        BY <2>1 DEF PacketInv, Unframed
      <4> QED
        BY <4>1
    <3> QED
      BY <3>1, <2>1, <2>5, LenProperties DEF RealBits
  <2> QED
    BY <2>1, <2>2, <2>4, <2>5, <2>6 DEF PacketInv, Unframed
<1>4. CASE Load
  <2>1. PICK bit \in Bit : ReadBit(bit)
    BY <1>4 DEF Load
  <2>2. UNCHANGED packetVars /\ pc \notin Unframed /\ pc' \notin Unframed
    BY <1>4 DEF Load, Unframed
  <2> QED
    BY <2>1, <2>2, PacketRead
<1>5. CASE DecodeShift
  <2>1. PICK bit \in Bit : ReadBit(bit)
    BY <1>5 DEF DecodeShift
  <2>2. UNCHANGED packetVars /\ pc \notin Unframed /\ pc' \notin Unframed
    BY <1>5 DEF DecodeShift, Unframed
  <2> QED
    BY <2>1, <2>2, PacketRead
<1> QED
  BY <1>1, <1>2, <1>3, <1>4, <1>5, NoReadSteps DEF Next, Send

-----------------------------------------------------------------------------
(* The mirror's bits: behind the decoder by a trail, on which the register *)
(* took in the source's bits one by one.                                   *)
CodeTrail(s, from, x, to, y, at, n) ==
  \E t \in [0..n -> Intervals], c \in [0..n -> 0..Mask] :
    /\ t[0] = from /\ t[n] = to /\ c[0] = x /\ c[n] = y
    /\ \A i \in 0..n - 1 : /\ Narrowed(t[i]) /\ t[i + 1] = Widen(t[i])
                           /\ c[i + 1] = Shift(c[i] - Offset(t[i]), s[at + i + 1])

Following(from, s, c, p, read, to, y) ==
  \E n \in Nat, x \in from.low..from.high :
    /\ Ordered(from)
    /\ Window(s, c, p, x)
    /\ CodeTrail(s, from, x, to, y, c + p + Precision, n)
    /\ read = c + p + Precision + n

Loading ==
  /\ offset < Precision
  /\ \E d : /\ Spells(d, coder.code)
            /\ \A k \in 1..Precision :
                 d[k] = IF k <= Precision - offset THEN 0
                        ELSE bits[k - (Precision - offset)]

SyncInv ==
  /\ desynchronized = FALSE
  /\ pc = "load" => Loading
  /\ pc = "choose" => Window(bits, confirmed, mirror.pending, coder.code)
  /\ pc = "decode" =>
       Following(Narrow(mirror.r, Last(asked), coder.symbol), bits, confirmed,
                 mirror.pending, offset, coder.r, coder.code)
  /\ pc = "mirror" =>
       Following(mirror.r, bits, confirmed, mirror.pending, offset, coder.r,
                 coder.code)

LEMMA CodeTrailStart ==
  ASSUME NEW s, NEW from \in Intervals, NEW x \in 0..Mask, NEW at
  PROVE  CodeTrail(s, from, x, from, x, at, 0)
<1> DEFINE t == [i \in 0..0 |-> from]
           c == [i \in 0..0 |-> x]
<1>1. t \in [0..0 -> Intervals] /\ t[0] = from /\ c \in [0..0 -> 0..Mask] /\ c[0] = x
  OBVIOUS
<1>2. \A i \in 0..0 - 1 : FALSE
  OBVIOUS
<1> HIDE DEF t, c
<1> QED
  BY <1>1, <1>2 DEF CodeTrail

LEMMA CodeTrailEnd ==
  ASSUME NEW s, NEW from, NEW x, NEW to, NEW y, NEW at, NEW n \in Nat,
         CodeTrail(s, from, x, to, y, at, n), ~Narrowed(from)
  PROVE  n = 0 /\ from = to /\ x = y
<1>1. PICK t \in [0..n -> Intervals], c \in [0..n -> 0..Mask] :
        /\ t[0] = from /\ t[n] = to /\ c[0] = x /\ c[n] = y
        /\ \A i \in 0..n - 1 : Narrowed(t[i])
  BY DEF CodeTrail
<1>2. n = 0
  BY <1>1
<1> QED
  BY <1>1, <1>2

LEMMA CodeTrailShorter ==
  ASSUME NEW s, NEW from, NEW x, NEW to, NEW y, NEW at \in Nat, NEW n \in Nat,
         CodeTrail(s, from, x, to, y, at, n), Narrowed(from), ~Narrowed(to)
  PROVE  /\ n # 0
         /\ CodeTrail(s, Widen(from), Shift(x - Offset(from), s[at + 1]), to, y,
                      at + 1, n - 1)
<1>1. PICK t \in [0..n -> Intervals], c \in [0..n -> 0..Mask] :
        /\ t[0] = from /\ t[n] = to /\ c[0] = x /\ c[n] = y
        /\ \A i \in 0..n - 1 :
             /\ Narrowed(t[i]) /\ t[i + 1] = Widen(t[i])
             /\ c[i + 1] = Shift(c[i] - Offset(t[i]), s[at + i + 1])
  BY DEF CodeTrail
<1>2. n # 0
  BY <1>1
<1> DEFINE u == [i \in 0..n - 1 |-> t[i + 1]]
           b == [i \in 0..n - 1 |-> c[i + 1]]
<1>3. /\ u \in [0..n - 1 -> Intervals] /\ u[0] = Widen(from) /\ u[n - 1] = to
      /\ b \in [0..n - 1 -> 0..Mask] /\ b[n - 1] = y
      /\ b[0] = Shift(x - Offset(from), s[at + 1])
  <2>1. 0 \in 0..n - 1 /\ n - 1 \in 0..n - 1 /\ n - 1 + 1 = n /\ 0 + 1 = 1
        /\ at + 0 + 1 = at + 1 /\ \A i \in 0..n - 1 : i + 1 \in 0..n
    BY <1>2
  <2> QED
    BY <2>1, <1>1
<1>4. ASSUME NEW i \in 0..(n - 1) - 1
      PROVE  /\ Narrowed(u[i]) /\ u[i + 1] = Widen(u[i])
             /\ b[i + 1] = Shift(b[i] - Offset(u[i]), s[(at + 1) + i + 1])
  <2>1. i \in 0..n - 1 /\ i + 1 \in 0..n - 1 /\ at + (i + 1) + 1 = (at + 1) + i + 1
    BY <1>2
  <2> QED
    BY <2>1, <1>1
<1> HIDE DEF u, b
<1> QED
  BY <1>2, <1>3, <1>4 DEF CodeTrail

(* What was read stays, and the decoder's next bit joins at the end. *)
LEMMA WindowStays ==
  ASSUME NEW s \in Seq(Bit), NEW u \in Seq(Bit), NEW c \in Nat, NEW p \in Nat,
         NEW x, Window(s, c, p, x), Len(s) <= Len(u),
         \A i \in 1..Len(s) : u[i] = s[i]
  PROVE  Window(u, c, p, x)
<1>1. PICK d : /\ Spells(d, x)
               /\ c + p + Precision <= Len(s)
               /\ s[c + 1] = d[1]
               /\ \A i \in 1..p : s[c + 1 + i] = 1 - d[1]
               /\ \A k \in 2..Precision : s[c + p + k] = d[k]
  BY DEF Window
<1>2. Precision \in Nat /\ Precision >= 2 /\ Len(s) \in Nat /\ Len(u) \in Nat
  BY WeightIs, LenProperties
<1>3. /\ c + 1 \in 1..Len(s)
      /\ \A i \in 1..p : c + 1 + i \in 1..Len(s)
      /\ \A k \in 2..Precision : c + p + k \in 1..Len(s)
      /\ c + p + Precision <= Len(u)
  BY <1>1, <1>2
<1>4. /\ u[c + 1] = d[1]
      /\ \A i \in 1..p : u[c + 1 + i] = 1 - d[1]
      /\ \A k \in 2..Precision : u[c + p + k] = d[k]
  BY <1>1, <1>3
<1> QED
  BY <1>1, <1>3, <1>4 DEF Window

LEMMA CodeTrailLonger ==
  ASSUME NEW s \in Seq(Bit), NEW u \in Seq(Bit), NEW bit \in Bit,
         \A i \in 1..Len(s) : u[i] = s[i],
         NEW from, NEW x, NEW to, NEW y, NEW at \in Nat, NEW n \in Nat,
         CodeTrail(s, from, x, to, y, at, n), at + n <= Len(s), u[at + n + 1] = bit,
         Narrowed(to), Widen(to) \in Intervals,
         Shift(y - Offset(to), bit) \in 0..Mask
  PROVE  CodeTrail(u, from, x, Widen(to), Shift(y - Offset(to), bit), at, n + 1)
<1>1. PICK t \in [0..n -> Intervals], c \in [0..n -> 0..Mask] :
        /\ t[0] = from /\ t[n] = to /\ c[0] = x /\ c[n] = y
        /\ \A i \in 0..n - 1 :
             /\ Narrowed(t[i]) /\ t[i + 1] = Widen(t[i])
             /\ c[i + 1] = Shift(c[i] - Offset(t[i]), s[at + i + 1])
  BY DEF CodeTrail
<1>2. Len(s) \in Nat
  BY LenProperties
<1> DEFINE v == [i \in 0..n + 1 |-> IF i = n + 1 THEN Widen(to) ELSE t[i]]
           b == [i \in 0..n + 1 |->
                   IF i = n + 1 THEN Shift(y - Offset(to), bit) ELSE c[i]]
<1>3. /\ v \in [0..n + 1 -> Intervals] /\ v[0] = from /\ v[n + 1] = Widen(to)
      /\ b \in [0..n + 1 -> 0..Mask] /\ b[0] = x
      /\ b[n + 1] = Shift(y - Offset(to), bit)
  <2>1. \A i \in 0..n + 1 : i # n + 1 => i \in 0..n
    OBVIOUS
  <2> QED
    BY <2>1, <1>1
<1>4. ASSUME NEW i \in 0..(n + 1) - 1
      PROVE  /\ Narrowed(v[i]) /\ v[i + 1] = Widen(v[i])
             /\ b[i + 1] = Shift(b[i] - Offset(v[i]), u[at + i + 1])
  <2>1. CASE i = n
    BY <2>1, <1>1, <1>2
  <2>2. CASE i # n
    <3>1. /\ i \in 0..n - 1 /\ i + 1 \in 0..n /\ i + 1 # n + 1 /\ i # n + 1
          /\ at + i + 1 \in 1..Len(s)
      BY <2>2, <1>2
    <3> QED
      BY <3>1, <1>1, <1>2
  <2> QED
    BY <2>1, <2>2
<1> HIDE DEF v, b
<1> QED
  BY <1>3, <1>4 DEF CodeTrail

(* The decoder starts where the mirror is, *)
LEMMA FollowingStart ==
  ASSUME NEW s, NEW from \in Intervals, Ordered(from), NEW x \in 0..Mask,
         x \in from.low..from.high, NEW c \in Nat, NEW p \in Nat,
         Window(s, c, p, x)
  PROVE  Following(from, s, c, p, c + p + Precision, from, x)
<1>1. CodeTrail(s, from, x, from, x, c + p + Precision, 0)
  BY CodeTrailStart
<1>2. c + p + Precision = c + p + Precision + 0
  BY WeightIs
<1> QED
  BY <1>1, <1>2 DEF Following

(* goes ahead, *)
LEMMA FollowingLonger ==
  ASSUME NEW s \in Seq(Bit), NEW u \in Seq(Bit), NEW bit \in Bit,
         Len(s) <= Len(u), \A i \in 1..Len(s) : u[i] = s[i],
         NEW from, NEW c \in Nat, NEW p \in Nat, NEW read \in Nat, NEW to, NEW y,
         Following(from, s, c, p, read, to, y), read <= Len(s),
         u[read + 1] = bit,
         Narrowed(to), Widen(to) \in Intervals,
         Shift(y - Offset(to), bit) \in 0..Mask
  PROVE  Following(from, u, c, p, read + 1, Widen(to), Shift(y - Offset(to), bit))
<1>1. PICK n \in Nat, x \in from.low..from.high :
        /\ Ordered(from)
        /\ Window(s, c, p, x)
        /\ CodeTrail(s, from, x, to, y, c + p + Precision, n)
        /\ read = c + p + Precision + n
  BY DEF Following
<1>2. PICK at \in Nat : at = c + p + Precision
  BY WeightIs
<1>3. CodeTrail(s, from, x, to, y, at, n) /\ at + n <= Len(s)
      /\ u[at + n + 1] = bit
  BY <1>1, <1>2
<1>4. CodeTrail(u, from, x, Widen(to), Shift(y - Offset(to), bit), at, n + 1)
  BY <1>3, CodeTrailLonger
<1>5. Window(u, c, p, x)
  BY <1>1, WindowStays
<1>6. n + 1 \in Nat /\ read + 1 = at + (n + 1)
  BY <1>1, <1>2
<1> QED
  BY <1>1, <1>2, <1>4, <1>5, <1>6 DEF Following

(* and the mirror follows it: it puts out the stream's own bits, *)
LEMMA FollowingShorter ==
  ASSUME NEW s \in Seq(Bit), NEW e \in Encoders, NEW c \in Nat, NEW read \in Nat,
         NEW to, NEW y,
         Following(e.r, s, c, e.pending, read, to, y), read <= Len(s),
         Narrowed(e.r), ~Narrowed(to)
  PROVE  LET out == Emitted(e) IN
         /\ Len(out) \in Nat
         /\ SubSeq(s, c + 1, c + Len(out)) = out
         /\ Following(Widen(e.r), s, c + Len(out), Encode(e).pending, read, to, y)
<1> DEFINE out == Emitted(e)
<1>0. e.pending \in Nat /\ Precision \in Nat /\ Len(s) \in Nat
  BY WeightIs, LenProperties DEF Encoders
<1>1. PICK n \in Nat, x \in e.r.low..e.r.high :
        /\ Ordered(e.r)
        /\ Window(s, c, e.pending, x)
        /\ CodeTrail(s, e.r, x, to, y, c + e.pending + Precision, n)
        /\ read = c + e.pending + Precision + n
  BY DEF Following
<1>2. PICK at \in Nat : at = c + e.pending + Precision
  BY <1>0
<1>3. /\ n # 0
      /\ CodeTrail(s, Widen(e.r), Shift(x - Offset(e.r), s[at + 1]), to, y,
                   at + 1, n - 1)
  BY <1>1, <1>2, CodeTrailShorter
<1>4. at + 1 <= Len(s) /\ at + 1 \in 1..Len(s) /\ read = at + n
  <2>1. read = at + n
    BY <1>1, <1>2
  <2>2. 1 <= n
    BY <1>3
  <2>3. at + 1 <= Len(s)
    BY <1>0, <2>1, <2>2
  <2> QED
    BY <1>0, <2>1, <2>3
<1>5. PICK bit \in Bit : bit = s[at + 1]
  BY <1>4, ElementOfSeq
<1>6. /\ Len(out) \in Nat /\ c + Len(out) <= Len(s)
      /\ SubSeq(s, c + 1, c + Len(out)) = out
      /\ Window(s, c + Len(out), Encode(e).pending, Shift(x - Offset(e.r), bit))
  <2>1. /\ c + e.pending + Precision + 1 <= Len(s)
        /\ s[c + e.pending + Precision + 1] = bit
    BY <1>2, <1>4, <1>5
  <2> QED
    BY <2>1, <1>1, WindowStep
<1>7. /\ Ordered(Widen(e.r))
      /\ Shift(x - Offset(e.r), bit) \in Widen(e.r).low..Widen(e.r).high
  BY <1>1, WidenInside
<1>8. c + Len(out) + Encode(e).pending + Precision = at + 1
  <2>1. /\ Encode(e).pending \in Nat
        /\ Len(out) + Encode(e).pending = e.pending + 1
    BY OneBit
  <2>2. PICK l \in Nat, q \in Nat, p \in Nat :
          l = Len(out) /\ q = Encode(e).pending /\ p = e.pending
    BY <2>1, <1>0, <1>6
  <2>3. /\ l + q = p + 1 /\ at = c + p + Precision
    BY <2>1, <2>2, <1>2
  <2>4. c + l + q + Precision = at + 1
    BY <2>3, <1>0
  <2> QED
    BY <2>2, <2>4
<1>9. n - 1 \in Nat /\ read = at + 1 + (n - 1)
  BY <1>3, <1>4
<1> HIDE DEF out
<1>10. Following(Widen(e.r), s, c + Len(out), Encode(e).pending, read, to, y)
  BY <1>3, <1>5, <1>6, <1>7, <1>8, <1>9 DEF Following
<1> QED
  BY <1>6, <1>10 DEF out

(* until it has caught up. *)
LEMMA FollowingEnd ==
  ASSUME NEW from, NEW s, NEW c, NEW p, NEW read, NEW to, NEW y,
         Following(from, s, c, p, read, to, y), ~Narrowed(from)
  PROVE  Window(s, c, p, y)
BY CodeTrailEnd DEF Following

LEMMA SyncInit == Init => SyncInv
BY DEF Init, SyncInv

(* The register before its first bit is filled with zeros. *)
LEMMA LoadingStart ==
  ASSUME offset = 0, coder.code = 0
  PROVE  Loading
<1> DEFINE d == [k \in 1..Precision |-> 0]
           v == [k \in 0..Precision |-> 0]
<1>1. /\ Precision \in Nat /\ Precision >= 2
      /\ \A k \in 1..Precision : Weight(k) \in Nat \ {0}
  <2>1. /\ Precision \in Nat /\ Precision >= 2
        /\ \A k \in 0..Precision : Weight(k) \in Nat \ {0}
    BY WeightIs
  <2> QED
    BY <2>1
<1>2. Spells(d, 0)
  <2>1. d \in [1..Precision -> Bit] /\ v \in [0..Precision -> Nat]
    BY DEF Bit
  <2>2. v[0] = 0 /\ v[Precision] = 0
    BY <1>1
  <2>3. ASSUME NEW k \in 1..Precision
        PROVE  /\ v[k] < Weight(k)
               /\ v[k - 1] = (IF d[k] = 1 THEN Weight(k) ELSE 0) + v[k]
    <3>1. Weight(k) \in Nat \ {0} /\ k \in 0..Precision /\ k - 1 \in 0..Precision
      BY <1>1
    <3>2. v[k] = 0 /\ v[k - 1] = 0 /\ d[k] = 0
      BY <3>1
    <3> HIDE DEF d, v
    <3> QED
      BY <3>1, <3>2
  <2> HIDE DEF d, v
  <2> QED
    BY <2>1, <2>2, <2>3 DEF Spells
<1>3. \A k \in 1..Precision : k <= Precision - 0 /\ d[k] = 0
  BY <1>1
<1>4. offset < Precision
  BY <1>1
<1> HIDE DEF d
<1> QED
  BY <1>2, <1>3, <1>4 DEF Loading

(* A bit of the source enters the register, and the last one fills it. *)
LEMMA LoadStep ==
  ASSUME PacketInv, Loading, NEW bit \in Bit, ReadBit(bit),
         coder'.code = Shift(coder.code, bit)
  PROVE  /\ offset' < Precision => Loading'
         /\ offset' = Precision => Window(bits', 0, 0, coder'.code)
<1> DEFINE P == Precision
<1>1. PICK d : /\ Spells(d, coder.code)
               /\ \A k \in 1..P : d[k] = IF k <= P - offset THEN 0
                                         ELSE bits[k - (P - offset)]
  BY DEF Loading
<1>2. /\ P \in Nat /\ P >= 2 /\ Len(bits) \in Nat
      /\ offset \in 0..Len(bits) /\ offset < P
  BY WeightIs, LenProperties DEF PacketInv, Loading
<1>3. /\ \A i \in 1..Len(bits) : bits'[i] = bits[i]
      /\ offset' = offset + 1 /\ offset' <= Len(bits')
      /\ bits'[offset + 1] = bit
  BY ReadBitIs DEF PacketInv
<1>4. d[1] = 0
  <2>1. 1 \in 1..P /\ 1 <= P - offset
    BY <1>2
  <2> QED
    BY <2>1, <1>1
<1>5. coder.code \in 0..Half - 1 /\ coder'.code = 2 * coder.code + bit
  <2>1. coder.code \in Nat /\ coder.code < Half
    BY <1>1, <1>4, TopBit
  <2>2. coder.code \in 0..Half - 1
    BY <2>1, CoderAssumption DEF Half
  <2> QED
    BY <2>2, ShiftIs
<1> DEFINE f == Shifted(d, bit)
<1>6. Spells(f, coder'.code)
  <2>1. Spells(f, 2 * (coder.code - (IF d[1] = 1 THEN Half ELSE 0)) + bit)
    BY <1>1, SpellsShift
  <2>2. coder'.code = 2 * (coder.code - (IF d[1] = 1 THEN Half ELSE 0)) + bit
    BY <1>4, <1>5
  <2> HIDE DEF f
  <2> QED
    BY <2>1, <2>2
<1>10. PICK m \in Nat : m = P - offset /\ 1 <= m /\ m <= P
  BY <1>2
<1>11. /\ P - offset' = m - 1
       /\ \A k \in 1..P : d[k] = IF k <= m THEN 0 ELSE bits[k - m]
       /\ bits'[P - (m - 1)] = bit
       /\ \A i \in 1..P - m : bits'[i] = bits[i]
  <2>1. P - (m - 1) = offset + 1 /\ P - offset' = m - 1 /\ P - m = offset
    BY <1>2, <1>3, <1>10
  <2>2. \A i \in 1..offset : i \in 1..Len(bits)
    BY <1>2
  <2>3. \A k \in 1..P : d[k] = IF k <= m THEN 0 ELSE bits[k - m]
    BY <1>1, <1>10
  <2> QED
    BY <2>1, <2>2, <2>3, <1>3
<1>7. ASSUME NEW k \in 1..P
      PROVE  f[k] = IF k <= P - offset' THEN 0 ELSE bits'[k - (P - offset')]
  <2>1. CASE k = P
    <3>1. ~ (k <= m - 1) /\ f[k] = bit
      BY <2>1, <1>2, <1>10 DEF Shifted
    <3> QED
      BY <3>1, <2>1, <1>11
  <2>2. CASE k # P
    <3>1. PICK j \in 1..P : j = k + 1
      BY <2>2, <1>2
    <3>2. f[k] = d[j]
      BY <2>2, <3>1 DEF Shifted
    <3> HIDE DEF f
    <3>3. PICK i \in Int : i = j - m
      BY <3>1, <1>2
    <3>4. /\ j <= m <=> k <= m - 1
          /\ i = k - (m - 1)
          /\ ~ (j <= m) => i \in 1..P - m
      BY <3>1, <3>3, <1>2, <1>10
    <3>5. d[j] = IF j <= m THEN 0 ELSE bits[i]
      BY <3>3, <1>11
    <3>6. f[k] = IF k <= m - 1 THEN 0 ELSE bits'[i]
      BY <3>2, <3>4, <3>5, <1>11
    <3> QED
      BY <3>4, <3>6, <1>11
  <2> QED
    BY <2>1, <2>2
<1> HIDE DEF f
<1>8. ASSUME offset' < P PROVE Loading'
  BY <1>6, <1>7, <1>8 DEF Loading
<1>9. ASSUME offset' = P PROVE Window(bits', 0, 0, coder'.code)
  <2>1. \A k \in 1..P : ~ (k <= P - P) /\ k - (P - P) = k /\ 0 + 0 + k = k
    BY <1>2
  <2>2. \A k \in 1..P : f[k] = bits'[k]
    BY <2>1, <1>7, <1>9
  <2>3. 0 + 0 + P <= Len(bits') /\ 1 \in 1..P /\ 0 + 1 = 1
        /\ \A k \in 2..P : k \in 1..P
    BY <1>2, <1>3, <1>9
  <2> QED
    BY <2>1, <2>2, <2>3, <1>6 DEF Window
<1> QED
  BY <1>8, <1>9

LEMMA SyncNext ==
  /\ DecoderInv /\ DecoderInv' /\ MirrorInv /\ MirrorInv'
  /\ PacketInv /\ PacketInv' /\ SyncInv /\ [Next]_vars
  => SyncInv'
<1> SUFFICES ASSUME DecoderInv, DecoderInv', MirrorInv, MirrorInv', PacketInv,
                    PacketInv', SyncInv, [Next]_vars
             PROVE  SyncInv'
  OBVIOUS
<1>0. /\ bits \in Seq(Bit) /\ offset \in 0..Len(bits) /\ Len(bits) \in Nat
      /\ mirror \in Encoders /\ mirror.pending \in Nat /\ confirmed \in Nat
      /\ Precision \in Nat /\ desynchronized = FALSE
  BY WeightIs, LenProperties DEF PacketInv, MirrorInv, SyncInv, Encoders
<1>1. CASE UNCHANGED vars
  <2>1. /\ UNCHANGED <<pc, bits, coder, offset, mirror, confirmed>>
        /\ desynchronized' = desynchronized /\ asked' = asked
    BY <1>1 DEF vars, coderVars, mirrorVars, textVars
  <2> QED
    BY <2>1, <1>0 DEF SyncInv, Loading
<1>2. CASE Elsewhere /\ pc' # "load"
  BY <1>2 DEF SyncInv, Elsewhere
<1>3. ASSUME NEW length \in CapsuleLengths, Encrypt(length) PROVE SyncInv'
  <2>1. /\ pc = "encrypt" /\ pc' = "load" /\ coder' = coder /\ offset' = offset
        /\ desynchronized' = desynchronized
    BY <1>3 DEF Encrypt, mirrorVars
  <2>2. bits = <<>> /\ coder.code = 0
    BY <2>1 DEF PacketInv, Unframed
  <2>3. offset = 0
    <3>1. Len(bits) = 0
      BY <2>2
    <3> QED
      BY <3>1, <1>0
  <2>4. Loading'
    <3>1. Loading
      BY <2>2, <2>3, LoadingStart
    <3>2. PICK d : /\ Spells(d, coder.code)
                   /\ \A k \in 1..Precision :
                        d[k] = IF k <= Precision - offset THEN 0
                               ELSE bits[k - (Precision - offset)]
      BY <3>1 DEF Loading
    <3>3. \A k \in 1..Precision : k <= Precision - offset
      BY <2>3, <1>0
    <3>4. offset' < Precision
      BY <3>1, <2>1 DEF Loading
    <3> QED
      BY <2>1, <3>2, <3>3, <3>4 DEF Loading
  <2> QED
    BY <2>1, <2>4, <1>0 DEF SyncInv
<1>4. CASE Load
  <2>1. PICK bit \in Bit :
          /\ ReadBit(bit)
          /\ coder' = [coder EXCEPT !.code = Shift(coder.code, bit)]
    BY <1>4 DEF Load
  <2>2. coder'.code = Shift(coder.code, bit)
    BY <2>1 DEF DecoderInv
  <2>3. /\ pc = "load" /\ mirror' = mirror /\ confirmed' = confirmed
        /\ desynchronized' = desynchronized
        /\ pc' = IF offset + 1 = Precision THEN "choose" ELSE "load"
        /\ offset' = offset + 1
    BY <1>4, <2>1 DEF Load, ReadBit, mirrorVars
  <2>4. Loading /\ mirror = Fresh /\ confirmed = 0
    BY <2>3 DEF SyncInv, MirrorInv
  <2>5. /\ offset' < Precision => Loading'
        /\ offset' = Precision => Window(bits', 0, 0, coder'.code)
    BY <2>1, <2>2, <2>4, LoadStep
  <2>6. mirror'.pending = 0 /\ confirmed' = 0
    BY <2>3, <2>4 DEF Fresh
  <2>7. CASE offset + 1 = Precision
    BY <2>3, <2>5, <2>6, <2>7, <1>0 DEF SyncInv
  <2>8. CASE offset + 1 # Precision
    <3>1. offset' < Precision
      BY <2>3, <2>4, <2>8, <1>0 DEF Loading
    <3> QED
      BY <3>1, <2>3, <2>5, <2>8, <1>0 DEF SyncInv
  <2> QED
    BY <2>7, <2>8
<1>5. ASSUME NEW c \in Tables, Choose(c) PROVE SyncInv'
  <2>1. /\ mirror' = mirror /\ confirmed' = confirmed /\ offset' = offset
        /\ bits' = bits /\ desynchronized' = desynchronized /\ pc = "choose"
    BY <1>5 DEF Choose, mirrorVars
  <2>2. CASE pc' = "refused"
    BY <2>1, <2>2, <1>0 DEF SyncInv
  <2>3. CASE pc' = "decode"
    <3> DEFINE s == SymbolOf(coder.r, coder.code, c)
    <3>1. /\ coder' = [coder EXCEPT !.r = Narrow(coder.r, c, s), !.symbol = s]
          /\ asked' = Append(asked, c)
      BY <1>5, <2>3 DEF Choose
    <3> HIDE DEF s
    <3>2. /\ coder'.r = Narrow(coder.r, c, s) /\ coder'.symbol = s
          /\ coder'.code = coder.code
      BY <3>1 DEF DecoderInv
    <3>3. Last(asked') = c
      BY <3>1 DEF DecoderInv, Last
    <3>4. mirror.r = coder.r /\ offset = confirmed + mirror.pending + Precision
      BY <2>1 DEF MirrorInv, InStep
    <3>5. Narrow(mirror'.r, Last(asked'), coder'.symbol) = coder'.r
      BY <2>1, <3>2, <3>3, <3>4
    <3>6. /\ Ordered(coder'.r) /\ coder'.code \in coder'.r.low..coder'.r.high
          /\ coder'.r \in Intervals /\ coder'.code \in 0..Mask
      BY <2>3 DEF DecoderInv
    <3>7. Window(bits, confirmed, mirror.pending, coder'.code)
      BY <2>1, <3>2 DEF SyncInv
    <3>8. Following(coder'.r, bits, confirmed, mirror.pending,
                    confirmed + mirror.pending + Precision, coder'.r, coder'.code)
      BY <3>6, <3>7, <1>0, FollowingStart
    <3> QED
      BY <2>1, <2>3, <3>4, <3>5, <3>8, <1>0 DEF SyncInv
  <2> QED
    BY <1>5, <2>2, <2>3 DEF Choose
<1>6. CASE DecodeShift
  <2>1. PICK bit \in Bit :
          /\ ReadBit(bit)
          /\ coder' = [coder EXCEPT
               !.r = Widen(coder.r),
               !.code = Shift(coder.code - Offset(coder.r), bit)]
    BY <1>6 DEF DecodeShift
  <2>2. /\ coder'.r = Widen(coder.r) /\ coder'.symbol = coder.symbol
        /\ coder'.code = Shift(coder.code - Offset(coder.r), bit)
    BY <2>1 DEF DecoderInv
  <2>3. /\ mirror' = mirror /\ confirmed' = confirmed /\ asked' = asked
        /\ desynchronized' = desynchronized
        /\ pc = "decode" /\ pc' = "decode" /\ Narrowed(coder.r)
    BY <1>6 DEF DecodeShift, mirrorVars, textVars
  <2> DEFINE from == Narrow(mirror.r, Last(asked), coder.symbol)
  <2>4. Following(from, bits, confirmed, mirror.pending, offset, coder.r, coder.code)
    BY <2>3 DEF SyncInv
  <2>5. from = Narrow(mirror'.r, Last(asked'), coder'.symbol)
    BY <2>2, <2>3
  <2> HIDE DEF from
  <2>6. /\ bits' \in Seq(Bit) /\ Len(bits) <= Len(bits')
        /\ \A i \in 1..Len(bits) : bits'[i] = bits[i]
        /\ offset' = offset + 1 /\ bits'[offset + 1] = bit
    BY <2>1, <1>0, ReadBitIs
  <2>7. Widen(coder.r) \in Intervals
        /\ Shift(coder.code - Offset(coder.r), bit) \in 0..Mask
    BY <2>2 DEF DecoderInv
  <2>8. offset \in Nat /\ offset <= Len(bits)
    BY <1>0
  <2>9. Following(from, bits', confirmed, mirror.pending, offset + 1,
                  Widen(coder.r), Shift(coder.code - Offset(coder.r), bit))
    BY <2>3, <2>4, <2>6, <2>7, <2>8, <1>0, FollowingLonger
  <2> QED
    BY <2>2, <2>3, <2>5, <2>6, <2>9, <1>0 DEF SyncInv
<1>7. CASE DecodeEnd
  <2>1. /\ coder' = coder /\ bits' = bits /\ offset' = offset
        /\ confirmed' = confirmed /\ desynchronized' = desynchronized
        /\ mirror' = [mirror EXCEPT
                        !.r = Narrow(mirror.r, Last(asked), coder.symbol)]
        /\ pc = "decode" /\ pc' = "mirror"
    BY <1>7 DEF DecodeEnd, coderVars
  <2> DEFINE from == Narrow(mirror.r, Last(asked), coder.symbol)
  <2>2. Following(from, bits, confirmed, mirror.pending, offset, coder.r, coder.code)
    BY <2>1 DEF SyncInv
  <2>3. mirror'.r = from /\ mirror'.pending = mirror.pending
    BY <2>1, <1>0 DEF Encoders
  <2> HIDE DEF from
  <2> QED
    BY <2>1, <2>2, <2>3, <1>0 DEF SyncInv
<1>8. CASE MirrorShift
  <2> DEFINE out == Emitted(mirror)
  <2>1. /\ coder' = coder /\ bits' = bits /\ offset' = offset
        /\ confirmed' = confirmed + Len(out)
        /\ desynchronized' = (desynchronized
             \/ SubSeq(bits, confirmed + 1, confirmed + Len(out)) # out)
        /\ mirror' = Encode(mirror)
        /\ pc = "mirror" /\ pc' = "mirror" /\ Narrowed(mirror.r)
    BY <1>8 DEF MirrorShift, coderVars
  <2>2. /\ Following(mirror.r, bits, confirmed, mirror.pending, offset, coder.r,
                     coder.code)
        /\ ~Narrowed(coder.r) /\ offset \in Nat /\ offset <= Len(bits)
    BY <2>1, <1>0 DEF SyncInv, MirrorInv
  <2>3. /\ SubSeq(bits, confirmed + 1, confirmed + Len(out)) = out
        /\ Following(Widen(mirror.r), bits, confirmed + Len(out),
                     Encode(mirror).pending, offset, coder.r, coder.code)
    BY <2>1, <2>2, <1>0, FollowingShorter
  <2>4. /\ mirror'.r = Widen(mirror.r)
        /\ mirror'.pending = Encode(mirror).pending
    BY <2>1 DEF Encode
  <2>5. desynchronized' = FALSE
    BY <2>1, <2>3, <1>0
  <2> HIDE DEF out
  <2> QED
    BY <2>1, <2>3, <2>4, <2>5 DEF SyncInv
<1>9. CASE Token
  <2>1. /\ coder' = coder /\ bits' = bits /\ mirror' = mirror
        /\ confirmed' = confirmed /\ desynchronized' = desynchronized
        /\ pc = "mirror" /\ ~Narrowed(mirror.r)
        /\ pc' \in {"refused", "choose", "finish"}
    BY <1>9 DEF Token, coderVars, mirrorVars
  <2>2. Window(bits, confirmed, mirror.pending, coder.code)
    BY <2>1, FollowingEnd DEF SyncInv
  <2> QED
    BY <2>1, <2>2, <1>0 DEF SyncInv
<1>10. ASSUME \/ \E t \in Tokens : Prefix(t) \/ Finish(t)
              \/ Check \/ Receive
              \/ \E how \in Damages :
                   \E observed \in Arrivals(how) : Deliver(how, observed)
       PROVE  Elsewhere /\ pc' # "load"
  <2>1. Elsewhere
    BY <1>10, ElsewhereSteps
  <2>2. pc' # "load"
    BY <1>10 DEF Prefix, Finish, Check, Receive, Deliver, ReadToken, ReadEnd,
       EncodeShift, EncodeEnd, Open
  <2> QED
    BY <2>1, <2>2
<1> QED
  BY <1>1, <1>2, <1>3, <1>4, <1>5, <1>6, <1>7, <1>8, <1>9, <1>10
     DEF Next, Send

(* The mirror confirms the source's own bits, to the last one of a random  *)
(* suffix: whatever the model's tables and the bits, _encode_payload never *)
(* raises "payload arithmetic mirror desynchronized".                      *)
THEOREM MirrorConfirms == Spec => []Synchronized
<1> DEFINE CoderInv == DecoderInv /\ MirrorInv /\ PacketInv /\ SyncInv
<1>1. Init => CoderInv
  BY DecoderInit, MirrorInit, PacketInit, SyncInit
<1>2. CoderInv /\ [Next]_vars => CoderInv'
  <2>1. ASSUME CoderInv, [Next]_vars PROVE CoderInv'
    <3>1. DecoderInv'
      BY <2>1, DecoderNext
    <3>2. MirrorInv' /\ PacketInv'
      BY <2>1, <3>1, MirrorNext, PacketNext
    <3> QED
      BY <2>1, <3>1, <3>2, SyncNext
  <2> QED
    BY <2>1
<1>3. CoderInv => Synchronized
  BY DEF SyncInv, Synchronized
<1> QED
  BY <1>1, <1>2, <1>3, PTL DEF Spec

-----------------------------------------------------------------------------
(* The text and its receiver, as far as their types go: the receiver's     *)
(* encoder, too, has a wide interval whenever it takes a token.            *)
TextInv ==
  /\ pc \in Places
  /\ tokens \in Seq(Tokens) /\ copy \in Seq(Tokens)
  /\ damage \in Damages \cup {"none"}
  /\ reader \in [encoder : Encoders, at : Nat, headerBits : Nat, target : Nat]
  /\ Ordered(reader.encoder.r)
  /\ pc # "encode" => Wide(reader.encoder.r)
  /\ collected \in Seq(Bit)
  /\ pc \in {"decode", "mirror"} =>
       asked # <<>> /\ coder.symbol \in Symbols(Last(asked))

(* Whatever bytes there are, a length that is parsed is one of a capsule. *)
LEMMA LayoutType ==
  ASSUME NEW data, Len(data) \in Nat, ParseHeader(data).kind = "length"
  PROVE  ParseHeader(data).bytes \in Nat /\ ParseHeader(data).value \in CapsuleLengths
<1> DEFINE parsed == DecodeUvarint(data, MaxHeader)
           last == {i \in 1..Len(data) : i <= MaxHeader /\ data[i] < Base}
           n == Min(last)
           value == CHOOSE v \in 0..2 ^ (GroupBits * n) - 1 :
                      \A i \in 1..n : Group(v, i) = data[i] % Base
<1>1. ParseHeader(data) = IF parsed.kind = "length" /\ parsed.value \notin CapsuleLengths
                          THEN Malformed ELSE parsed
  BY DEF ParseHeader
<1>2. Malformed.kind = "error" /\ Incomplete.kind = "incomplete"
  BY DEF Malformed, Incomplete
<1>3. parsed = IF last = {} THEN IF Len(data) < MaxHeader THEN Incomplete ELSE Malformed
               ELSE IF SubSeq(data, 1, n) = EncodeUvarint(value) THEN Parsed(value, n)
               ELSE Malformed
  BY DEF DecodeUvarint
<1>4. last # {} => n \in Nat
  <2>1. last \in SUBSET Nat
    OBVIOUS
  <2> HIDE DEF last
  <2> QED
    BY <2>1, MinIs
<1> HIDE DEF last, n, value, parsed
<1>5. parsed.kind = "length" /\ parsed.value \in CapsuleLengths
      /\ ParseHeader(data) = parsed
  BY <1>1, <1>2
<1>6. last # {} /\ parsed = Parsed(value, n)
  BY <1>2, <1>3, <1>5
<1>7. parsed.bytes = n
  BY <1>6 DEF Parsed
<1> QED
  BY <1>4, <1>5, <1>6, <1>7

LEMMA LearnedType ==
  ASSUME TextInv
  PROVE  /\ Learned \in [encoder : Encoders, at : Nat, headerBits : Nat, target : Nat]
         /\ Learned.encoder = reader.encoder /\ Learned.at = reader.at
<1>1. reader \in [encoder : Encoders, at : Nat, headerBits : Nat, target : Nat]
  BY DEF TextInv
<1>2. CASE Layout.kind = "length"
  <2>1. Layout = ParseHeader(CompleteBytes(collected))
    BY <1>2 DEF Layout, Incomplete
  <2>2. Len(CompleteBytes(collected)) \in Nat
    BY CompleteLen DEF TextInv
  <2>3. Layout.bytes \in Nat /\ Layout.value \in Nat
    <3>1. Layout.bytes \in Nat /\ Layout.value \in CapsuleLengths
      BY <1>2, <2>1, <2>2, LayoutType
    <3> QED
      BY <3>1, HeaderAssumption DEF CapsuleLengths
  <2>4. Layout.bytes * ByteBits \in Nat /\ (Layout.bytes + Layout.value) * ByteBits \in Nat
    <3>1. PICK b \in Nat, v \in Nat, w \in Nat :
            b = Layout.bytes /\ v = Layout.value /\ w = ByteBits
      BY <2>3, BaseIs
    <3>2. b * w \in Nat /\ (b + v) * w \in Nat
      OBVIOUS
    <3> QED
      BY <3>1, <3>2
  <2> QED
    BY <1>1, <1>2, <2>4 DEF Learned
<1>3. CASE Layout.kind # "length"
  BY <1>1, <1>3 DEF Learned
<1> QED
  BY <1>2, <1>3

LEMMA EncodeType ==
  ASSUME NEW e \in Encoders, Ordered(e.r), Narrowed(e.r)
  PROVE  Encode(e) \in Encoders /\ Ordered(Encode(e).r) /\ Encode(e).r = Widen(e.r)
<1>1. Ordered(Widen(e.r)) /\ Encode(e).pending \in Nat
  BY WidenInside, OneBit
<1>2. Encode(e) = [r |-> Widen(e.r), pending |-> Encode(e).pending]
  BY DEF Encode
<1> QED
  BY <1>1, <1>2 DEF Encoders, Ordered

LEMMA TextInit == Init => TextInv
<1> SUFFICES ASSUME Init PROVE TextInv
  OBVIOUS
<1>1. /\ pc = "prefix" /\ tokens = <<>> /\ copy = <<>> /\ damage = "none"
      /\ reader = [encoder |-> Fresh, at |-> 0, headerBits |-> 0, target |-> 0]
      /\ collected = <<>>
  BY DEF Init
<1>2. Fresh \in Encoders /\ Fresh.r = Whole
  BY WholeWide DEF Fresh, Encoders, Wide, Ordered
<1>3. \A S : <<>> \in Seq(S)
  OBVIOUS
<1>4. reader \in [encoder : Encoders, at : Nat, headerBits : Nat, target : Nat]
      /\ reader.encoder.r = Whole
  BY <1>1, <1>2
<1> QED
  BY <1>1, <1>3, <1>4, WholeWide DEF TextInv, Places, Wide

LEMMA ArrivalsType ==
  ASSUME tokens \in Seq(Tokens), NEW how \in Damages, NEW observed \in Arrivals(how)
  PROVE  /\ observed \in Seq(Tokens) /\ Len(observed) <= Len(tokens)
         /\ how = "none" => observed = tokens
         /\ how = "cut" => \A i \in 1..Len(observed) : observed[i] = tokens[i]
<1>0. Len(tokens) \in Nat
  BY LenProperties
<1>1. CASE how = "none"
  BY <1>0, <1>1 DEF Arrivals
<1>2. CASE how = "cut"
  <2>1. PICK n \in 0..Len(tokens) - 1 : observed = SubSeq(tokens, 1, n)
    BY <1>2 DEF Arrivals
  <2>2. /\ SubSeq(tokens, 0 + 1, 0 + n) \in Seq(Tokens)
        /\ Len(SubSeq(tokens, 0 + 1, 0 + n)) = n
        /\ \A j \in 1..n : SubSeq(tokens, 0 + 1, 0 + n)[j] = tokens[0 + j]
    <3>1. n \in Nat /\ 0 + n <= Len(tokens)
      BY <1>0
    <3> QED
      BY <3>1, Slice
  <2>3. 0 + 1 = 1 /\ 0 + n = n /\ \A j \in 1..n : 0 + j = j
    BY <1>0
  <2> QED
    BY <1>0, <1>2, <2>1, <2>2, <2>3
<1>3. CASE how = "changed"
  <2>1. PICK i \in 1..Len(tokens), t \in Tokens : observed = [tokens EXCEPT ![i] = t]
    BY <1>3 DEF Arrivals
  <2>2. observed \in Seq(Tokens) /\ Len(observed) = Len(tokens)
    BY <2>1, ExceptSeq
  <2> QED
    BY <1>0, <1>3, <2>2
<1> QED
  BY <1>1, <1>2, <1>3, CarrierAssumption

(* The steps that leave the receiver alone. *)
LEMMA TextNext == DecoderInv /\ DecoderInv' /\ TextInv /\ [Next]_vars => TextInv'
<1> SUFFICES ASSUME DecoderInv, DecoderInv', TextInv, [Next]_vars PROVE TextInv'
  OBVIOUS
<1> DEFINE Readers == [encoder : Encoders, at : Nat, headerBits : Nat, target : Nat]
<1>0. /\ tokens \in Seq(Tokens) /\ copy \in Seq(Tokens)
      /\ reader \in Readers /\ reader.encoder \in Encoders
      /\ Ordered(reader.encoder.r) /\ collected \in Seq(Bit)
      /\ damage \in Damages \cup {"none"} /\ asked \in Seq(Tables)
  BY DEF TextInv, DecoderInv
<1>1. CASE UNCHANGED vars
  BY <1>1 DEF TextInv, vars, coderVars, textVars, readerVars
<1>2. ASSUME UNCHANGED readerVars, pc # "encode", pc' # "encode", pc' \in Places,
             tokens' \in Seq(Tokens),
             pc' \in {"decode", "mirror"} =>
               asked' # <<>> /\ coder'.symbol \in Symbols(Last(asked'))
      PROVE  TextInv'
  BY <1>2 DEF TextInv, readerVars
<1>3. ASSUME NEW t \in Tokens, Prefix(t) \/ Finish(t) PROVE TextInv'
  <2>1. tokens' = Append(tokens, t) /\ UNCHANGED readerVars
        /\ pc # "encode" /\ pc' \in {"prefix", "encrypt", "finish"}
    BY <1>3 DEF Prefix, Finish
  <2>2. tokens' \in Seq(Tokens)
    BY <2>1, <1>0, AppendProperties
  <2> QED
    BY <1>2, <2>1, <2>2 DEF Places
<1>4. ASSUME NEW length \in CapsuleLengths, Encrypt(length) PROVE TextInv'
  BY <1>0, <1>2, <1>4 DEF Encrypt, textVars, Places
<1>5. CASE Load
  <2>1. tokens' = tokens /\ UNCHANGED readerVars
        /\ pc = "load" /\ pc' \in {"choose", "load"}
    BY <1>5 DEF Load, textVars
  <2> QED
    BY <1>0, <1>2, <2>1 DEF Places
<1>6. ASSUME NEW c \in Tables, Choose(c) PROVE TextInv'
  <2> DEFINE s == SymbolOf(coder.r, coder.code, c)
  <2>1. tokens' = tokens /\ UNCHANGED readerVars /\ pc = "choose"
        /\ pc' \in {"decode", "refused"}
    BY <1>6 DEF Choose
  <2>2. ASSUME pc' = "decode"
        PROVE  asked' # <<>> /\ coder'.symbol \in Symbols(Last(asked'))
    <3>1. /\ coder' = [coder EXCEPT !.r = Narrow(coder.r, c, s), !.symbol = s]
          /\ asked' = Append(asked, c) /\ s \in Symbols(c)
      BY <1>6, <2>2 DEF Choose
    <3> HIDE DEF s
    <3>2. coder'.symbol = s /\ Last(asked') = c /\ asked' # <<>>
      <4>1. asked' # <<>> /\ asked'[Len(asked')] = c
        BY <1>0, <3>1, AppendProperties
      <4>2. coder'.symbol = s
        BY <3>1 DEF DecoderInv
      <4> QED
        BY <4>1, <4>2 DEF Last
    <3> QED
      BY <3>1, <3>2
  <2> QED
    BY <1>0, <1>2, <2>1, <2>2 DEF Places
<1>7. CASE DecodeShift
  <2>1. tokens' = tokens /\ UNCHANGED readerVars /\ pc = "decode" /\ pc' = "decode"
        /\ asked' = asked
    BY <1>7 DEF DecodeShift, textVars
  <2>2. coder'.symbol = coder.symbol
    BY <1>7 DEF DecodeShift, DecoderInv
  <2> QED
    BY <1>0, <1>2, <2>1, <2>2 DEF Places, TextInv
<1>8. CASE DecodeEnd \/ MirrorShift
  <2>1. tokens' = tokens /\ UNCHANGED readerVars /\ pc \in {"decode", "mirror"}
        /\ pc' = "mirror" /\ asked' = asked /\ coder' = coder
    BY <1>8 DEF DecodeEnd, MirrorShift, textVars, coderVars
  <2> QED
    BY <1>0, <1>2, <2>1 DEF Places, TextInv
<1>9. CASE Token
  <2>1. /\ UNCHANGED readerVars /\ pc = "mirror"
        /\ pc' \in {"refused", "choose", "finish"}
        /\ tokens' \in {tokens, Append(tokens, coder.symbol)}
    BY <1>9 DEF Token
  <2>2. coder.symbol \in Tokens
    <3>1. asked # <<>> /\ coder.symbol \in Symbols(Last(asked))
      BY <2>1 DEF TextInv
    <3>2. Last(asked) \in Tables
      <4>1. Len(asked) \in 1..Len(asked) /\ Last(asked) = asked[Len(asked)]
        BY <1>0, <3>1, EmptySeq DEF Last
      <4> QED
        BY <1>0, <4>1, ElementOfSeq
    <3> QED
      BY <3>1, <3>2 DEF Tokens
  <2>3. tokens' \in Seq(Tokens)
    <3>1. tokens \in Seq(Tokens)
      BY DEF TextInv
    <3>2. Append(tokens, coder.symbol) \in Seq(Tokens)
      BY <2>2, <3>1, AppendProperties
    <3> QED
      BY <2>1, <3>1, <3>2
  <2> QED
    BY <1>2, <2>1, <2>3 DEF Places
<1>10. CASE Check
  BY <1>0, <1>2, <1>10 DEF Check, textVars, Places
<1>11. ASSUME NEW how \in Damages, NEW observed \in Arrivals(how), Deliver(how, observed)
       PROVE  TextInv'
  <2>1. /\ pc = "sent" /\ pc' \in {"rejected", "read"} /\ tokens' = tokens
        /\ copy' = observed /\ damage' = how /\ collected' = collected
        /\ reader' = [reader EXCEPT !.at = PrefixTokens]
    BY <1>11 DEF Deliver, textVars
  <2>2. observed \in Seq(Tokens)
    BY <1>0, ArrivalsType
  <2>3. reader' \in Readers /\ reader'.encoder = reader.encoder
    BY <1>0, <2>1, CarrierAssumption
  <2> QED
    BY <1>0, <2>1, <2>2, <2>3 DEF TextInv, Places
<1>12. ASSUME NEW c \in Tables, ReadToken(c) PROVE TextInv'
  <2> DEFINE t == copy[reader.at + 1]
  <2>1. /\ pc = "read" /\ pc' \in {"encode", "rejected"}
        /\ UNCHANGED <<tokens, copy, damage, collected>>
    BY <1>12 DEF ReadToken, textVars
  <2>2. CASE t \in Symbols(c)
    <3>1. /\ reader' = [reader EXCEPT !.at = reader.at + 1,
                          !.encoder.r = Narrow(reader.encoder.r, c, t)]
          /\ pc' = "encode"
      BY <1>12, <2>2 DEF ReadToken
    <3>2. Ordered(Narrow(reader.encoder.r, c, t))
      BY <2>1, <2>2, CarrierAssumption, NarrowInside DEF TextInv
    <3> HIDE DEF t
    <3>3. reader'.encoder = [reader.encoder EXCEPT !.r = Narrow(reader.encoder.r, c, t)]
          /\ reader' = [reader EXCEPT !.at = reader.at + 1, !.encoder = reader'.encoder]
      BY <1>0, <3>1
    <3>4. reader'.encoder \in Encoders
          /\ reader'.encoder.r = Narrow(reader.encoder.r, c, t)
      BY <1>0, <3>2, <3>3 DEF Encoders, Ordered
    <3>5. reader' \in Readers
      <4>1. PICK e \in Encoders, n \in Nat : e = reader'.encoder /\ n = reader.at + 1
        BY <1>0, <3>4
      <4>2. reader' = [reader EXCEPT !.at = n, !.encoder = e]
        BY <3>3, <4>1
      <4> QED
        BY <1>0, <4>2
    <3> QED
      BY <1>0, <2>1, <3>1, <3>2, <3>4, <3>5 DEF TextInv, Places
  <2>3. CASE t \notin Symbols(c)
    <3>1. pc' = "rejected" /\ reader' = reader
      BY <1>12, <2>3 DEF ReadToken
    <3> QED
      BY <1>0, <2>1, <3>1 DEF TextInv, Places
  <2> QED
    BY <2>2, <2>3
<1>13. CASE ReadEnd
  <2>1. /\ pc = "read" /\ pc' = "rejected"
        /\ UNCHANGED <<tokens, copy, damage, collected, reader>>
    BY <1>13 DEF ReadEnd, textVars, readerVars
  <2> QED
    BY <2>1 DEF TextInv, Places
<1>14. CASE EncodeShift
  <2>1. /\ pc = "encode" /\ pc' = "encode"
        /\ UNCHANGED <<tokens, copy, damage>>
        /\ Narrowed(reader.encoder.r)
        /\ collected' = collected \o Emitted(reader.encoder)
        /\ reader' = [reader EXCEPT !.encoder = Encode(reader.encoder)]
    BY <1>14 DEF EncodeShift, textVars
  <2>2. collected' \in Seq(Bit)
    BY <1>0, <2>1, EmittedType, ConcatProperties
  <2>3. Encode(reader.encoder) \in Encoders /\ Ordered(Encode(reader.encoder).r)
    BY <1>0, <2>1, EncodeType
  <2>4. reader' \in Readers /\ reader'.encoder = Encode(reader.encoder)
    BY <1>0, <2>1, <2>3
  <2> QED
    BY <1>0, <2>1, <2>2, <2>3, <2>4 DEF TextInv, Places
<1>15. CASE EncodeEnd
  <2>1. /\ pc = "encode" /\ pc' \in {"rejected", "open", "read"}
        /\ UNCHANGED <<tokens, copy, damage, collected>>
        /\ ~Narrowed(reader.encoder.r) /\ reader' = Learned
    BY <1>15 DEF EncodeEnd, textVars
  <2>2. reader' \in Readers /\ reader'.encoder = reader.encoder
    BY <2>1, LearnedType
  <2>3. Wide(reader.encoder.r)
    BY <1>0, <2>1, WideAfter
  <2> QED
    BY <1>0, <2>1, <2>2, <2>3 DEF TextInv, Places
<1>16. CASE Open
  <2>1. /\ pc = "open" /\ pc' \in {"received", "rejected"}
        /\ UNCHANGED <<tokens, copy, damage, collected, reader>>
    BY <1>16 DEF Open, textVars, readerVars
  <2> QED
    BY <2>1 DEF TextInv, Places
<1> QED
  BY <1>1, <1>3, <1>4, <1>5, <1>6, <1>7, <1>8, <1>9, <1>10, <1>11, <1>12,
     <1>13, <1>14, <1>15, <1>16 DEF Next, Send, Receive

(* Every variable keeps its type, whatever text arrives: a changed token,  *)
(* too, leaves the receiver's registers and what it knows of B in range.   *)
THEOREM CarrierTypeCorrect == Spec => []TypeOK
<1> DEFINE TypeInv == DecoderInv /\ MirrorInv /\ PacketInv /\ SyncInv /\ TextInv
<1>1. Init => TypeInv
  BY DecoderInit, MirrorInit, PacketInit, SyncInit, TextInit
<1>2. TypeInv /\ [Next]_vars => TypeInv'
  <2>1. ASSUME TypeInv, [Next]_vars PROVE TypeInv'
    <3>1. DecoderInv'
      BY <2>1, DecoderNext
    <3>2. MirrorInv' /\ PacketInv' /\ TextInv'
      BY <2>1, <3>1, MirrorNext, PacketNext, TextNext
    <3> QED
      BY <2>1, <3>1, <3>2, SyncNext
  <2> QED
    BY <2>1
<1>3. TypeInv => TypeOK
  BY DEF DecoderInv, MirrorInv, PacketInv, SyncInv, TextInv, TypeOK
<1> QED
  BY <1>1, <1>2, <1>3, PTL DEF Spec

-----------------------------------------------------------------------------
(* An encoder and all that it has put out.  The mirror and the receiver's  *)
(* encoder go through the same states when they are given the same tables  *)
(* and the same symbols.                                                   *)
States == [e : Encoders, out : Seq(Bit)]
Fresher == [e |-> Fresh, out |-> <<>>]
Given(q, c, s) ==
  [e |-> [r |-> Narrow(q.e.r, c, s), pending |-> q.e.pending], out |-> q.out]
Renorm(q) == [e |-> Encode(q.e), out |-> q.out \o Emitted(q.e)]

Reaches(q, z) ==
  \E n \in Nat : \E t \in [0..n -> States] :
    /\ t[0] = q /\ t[n] = z
    /\ \A i \in 0..n - 1 : Narrowed(t[i].e.r) /\ t[i + 1] = Renorm(t[i])

Begins(s, u) == Len(s) <= Len(u) /\ \A i \in 1..Len(s) : s[i] = u[i]

LEMMA BeginsIs ==
  ASSUME NEW s \in Seq(Bit), NEW u \in Seq(Bit), Begins(s, u)
  PROVE  IsPrefix(s, u) /\ \A n \in 0..Len(s) : SubSeq(s, 1, n) = SubSeq(u, 1, n)
<1>0. Len(s) \in Nat /\ Len(u) \in Nat /\ Len(s) <= Len(u)
  BY LenProperties DEF Begins
<1>1. ASSUME NEW n \in 0..Len(s) PROVE SubSeq(s, 1, n) = SubSeq(u, 1, n)
  <2>1. n \in Nat /\ 0 + n <= Len(s) /\ 0 + n <= Len(u) /\ 0 + 1 = 1 /\ 0 + n = n
        /\ 0 \in Nat
    BY <1>0
  <2>2. /\ SubSeq(s, 0 + 1, 0 + n) \in Seq(Bit) /\ Len(SubSeq(s, 0 + 1, 0 + n)) = n
        /\ \A j \in 1..n : SubSeq(s, 0 + 1, 0 + n)[j] = s[0 + j]
    BY <2>1, Slice
  <2>3. /\ SubSeq(u, 0 + 1, 0 + n) \in Seq(Bit) /\ Len(SubSeq(u, 0 + 1, 0 + n)) = n
        /\ \A j \in 1..n : SubSeq(u, 0 + 1, 0 + n)[j] = u[0 + j]
    BY <2>1, Slice
  <2>4. \A j \in 1..n : s[0 + j] = u[0 + j]
    BY <1>0 DEF Begins
  <2>5. SubSeq(s, 0 + 1, 0 + n) = SubSeq(u, 0 + 1, 0 + n)
    BY <2>2, <2>3, <2>4, SeqEqual
  <2> QED
    BY <2>1, <2>5
<1> QED
  BY <1>0, <1>1 DEF IsPrefix

LEMMA BeginsTwice ==
  ASSUME NEW s \in Seq(Bit), NEW u \in Seq(Bit), NEW w \in Seq(Bit),
         Begins(s, u), Begins(u, w)
  PROVE  Begins(s, w)
<1>1. Len(s) \in Nat /\ Len(u) \in Nat /\ Len(w) \in Nat
  BY LenProperties
<1> QED
  BY <1>1 DEF Begins

LEMMA RenormType ==
  ASSUME NEW q \in States, Ordered(q.e.r), Narrowed(q.e.r)
  PROVE  Renorm(q) \in States
<1>1. q.e \in Encoders /\ q.out \in Seq(Bit)
  BY DEF States
<1>2. Encode(q.e) \in Encoders /\ q.out \o Emitted(q.e) \in Seq(Bit)
  BY <1>1, EncodeType, EmittedType, ConcatProperties
<1> QED
  BY <1>2 DEF Renorm, States

LEMMA ConcatBegins ==
  ASSUME NEW s \in Seq(Bit), NEW u \in Seq(Bit)
  PROVE  Begins(s, s \o u)
<1>1. PICK m \in Nat, n \in Nat : m = Len(s) /\ n = Len(u)
  BY LenProperties
<1>2. /\ Len(s \o u) = m + n
      /\ \A i \in 1..m + n : (s \o u)[i] = IF i <= m THEN s[i] ELSE u[i - m]
  BY <1>1, ConcatProperties
<1>3. m <= m + n /\ \A i \in 1..m : i \in 1..m + n /\ i <= m
  OBVIOUS
<1>4. \A i \in 1..m : s[i] = (s \o u)[i]
  BY <1>2, <1>3
<1> QED
  BY <1>1, <1>2, <1>3, <1>4 DEF Begins

LEMMA RenormGrows ==
  ASSUME NEW q \in States
  PROVE  Begins(q.out, Renorm(q).out)
<1>1. q.out \in Seq(Bit) /\ Emitted(q.e) \in Seq(Bit)
  BY EmittedType DEF States
<1>2. Renorm(q).out = q.out \o Emitted(q.e)
  BY DEF Renorm
<1> QED
  BY <1>1, <1>2, ConcatBegins

LEMMA ReachesSelf == ASSUME NEW q \in States PROVE Reaches(q, q)
<1> DEFINE t == [i \in 0..0 |-> q]
<1>1. t \in [0..0 -> States] /\ t[0] = q
  OBVIOUS
<1>2. \A i \in 0..0 - 1 : FALSE
  OBVIOUS
<1> HIDE DEF t
<1> QED
  BY <1>1, <1>2 DEF Reaches

LEMMA ReachesType ==
  ASSUME NEW q, NEW z, Reaches(q, z)
  PROVE  q \in States /\ z \in States
<1>0. PICK n \in Nat : \E t \in [0..n -> States] : t[0] = q /\ t[n] = z
  BY DEF Reaches
<1>1. PICK t \in [0..n -> States] : t[0] = q /\ t[n] = z
  BY <1>0
<1> QED
  BY <1>1

LEMMA ReachesLonger ==
  ASSUME NEW q, NEW z, Reaches(q, z), Narrowed(z.e.r), Renorm(z) \in States
  PROVE  Reaches(q, Renorm(z))
<1>0. PICK n \in Nat : \E t \in [0..n -> States] :
        /\ t[0] = q /\ t[n] = z
        /\ \A i \in 0..n - 1 : Narrowed(t[i].e.r) /\ t[i + 1] = Renorm(t[i])
  BY DEF Reaches
<1>1. PICK t \in [0..n -> States] :
        /\ t[0] = q /\ t[n] = z
        /\ \A i \in 0..n - 1 : Narrowed(t[i].e.r) /\ t[i + 1] = Renorm(t[i])
  BY <1>0
<1> DEFINE u == [i \in 0..n + 1 |-> IF i = n + 1 THEN Renorm(z) ELSE t[i]]
<1>2. u \in [0..n + 1 -> States] /\ u[0] = q /\ u[n + 1] = Renorm(z)
  BY <1>1
<1>3. ASSUME NEW i \in 0..(n + 1) - 1
      PROVE  Narrowed(u[i].e.r) /\ u[i + 1] = Renorm(u[i])
  <2>1. CASE i = n
    BY <2>1, <1>1
  <2>2. CASE i # n
    <3>1. i \in 0..n - 1 /\ i + 1 \in 0..n /\ i + 1 # n + 1 /\ i # n + 1
      BY <2>2
    <3> QED
      BY <3>1, <1>1
  <2> QED
    BY <2>1, <2>2
<1> HIDE DEF u
<1>4. n + 1 \in Nat
  OBVIOUS
<1> QED
  BY <1>2, <1>3, <1>4 DEF Reaches

LEMMA ReachesShorter ==
  ASSUME NEW q, NEW z, Reaches(q, z), Narrowed(q.e.r), ~Narrowed(z.e.r)
  PROVE  Renorm(q) \in States /\ Reaches(Renorm(q), z)
<1>0. PICK n \in Nat : \E t \in [0..n -> States] :
        /\ t[0] = q /\ t[n] = z
        /\ \A i \in 0..n - 1 : Narrowed(t[i].e.r) /\ t[i + 1] = Renorm(t[i])
  BY DEF Reaches
<1>1. PICK t \in [0..n -> States] :
        /\ t[0] = q /\ t[n] = z
        /\ \A i \in 0..n - 1 : Narrowed(t[i].e.r) /\ t[i + 1] = Renorm(t[i])
  BY <1>0
<1>2. n # 0 /\ n - 1 \in Nat
  BY <1>1
<1> DEFINE u == [i \in 0..n - 1 |-> t[i + 1]]
<1>3. u \in [0..n - 1 -> States] /\ u[0] = Renorm(q) /\ u[n - 1] = z
      /\ u[0] \in States
  <2>1. 0 \in 0..n - 1 /\ n - 1 \in 0..n - 1 /\ n - 1 + 1 = n /\ 0 + 1 = 1
        /\ \A i \in 0..n - 1 : i + 1 \in 0..n
    BY <1>2
  <2> QED
    BY <2>1, <1>1
<1>4. ASSUME NEW i \in 0..(n - 1) - 1
      PROVE  Narrowed(u[i].e.r) /\ u[i + 1] = Renorm(u[i])
  <2>1. i \in 0..n - 1 /\ i + 1 \in 0..n - 1
    BY <1>2
  <2> QED
    BY <2>1, <1>1
<1> HIDE DEF u
<1> QED
  BY <1>2, <1>3, <1>4 DEF Reaches

LEMMA ReachesEnd ==
  ASSUME NEW q, NEW z, Reaches(q, z), ~Narrowed(q.e.r)
  PROVE  q = z
<1>0. PICK n \in Nat : \E t \in [0..n -> States] :
        /\ t[0] = q /\ t[n] = z
        /\ \A i \in 0..n - 1 : Narrowed(t[i].e.r)
  BY DEF Reaches
<1>1. PICK t \in [0..n -> States] :
        /\ t[0] = q /\ t[n] = z
        /\ \A i \in 0..n - 1 : Narrowed(t[i].e.r)
  BY <1>0
<1>2. n = 0
  BY <1>1
<1> QED
  BY <1>1, <1>2

(* On the way an encoder only adds to what it has put out. *)
LEMMA ReachesGrows ==
  ASSUME NEW q, NEW z, Reaches(q, z)
  PROVE  Begins(q.out, z.out)
<1>0. PICK n \in Nat : \E t \in [0..n -> States] :
        /\ t[0] = q /\ t[n] = z
        /\ \A i \in 0..n - 1 : Narrowed(t[i].e.r) /\ t[i + 1] = Renorm(t[i])
  BY DEF Reaches
<1>1. PICK t \in [0..n -> States] :
        /\ t[0] = q /\ t[n] = z
        /\ \A i \in 0..n - 1 : Narrowed(t[i].e.r) /\ t[i + 1] = Renorm(t[i])
  BY <1>0
<1> DEFINE S == {k \in Nat : k <= n => Begins(q.out, t[k].out)}
<1>2. \A k \in 0..n : t[k] \in States /\ t[k].out \in Seq(Bit)
  BY <1>1 DEF States
<1>3. q.out \in Seq(Bit)
  BY <1>1, <1>2
<1>4. 0 \in S
  <2>1. Len(q.out) \in Nat
    BY <1>3, LenProperties
  <2>2. Begins(q.out, q.out)
    BY <2>1 DEF Begins
  <2> QED
    BY <1>1, <2>2
<1>5. ASSUME NEW k \in Nat, k \in S PROVE k + 1 \in S
  <2>1. CASE k + 1 <= n
    <3>1. k \in 0..n - 1 /\ k \in 0..n /\ k + 1 \in 0..n /\ k <= n
      BY <2>1
    <3>2. Begins(q.out, t[k].out) /\ t[k + 1] = Renorm(t[k])
      BY <3>1, <1>1, <1>5
    <3>3. Begins(t[k].out, t[k + 1].out)
      BY <3>1, <3>2, <1>2, RenormGrows
    <3>4. Begins(q.out, t[k + 1].out)
      BY <3>1, <3>2, <3>3, <1>2, <1>3, BeginsTwice
    <3> QED
      BY <3>4
  <2>2. CASE ~ (k + 1 <= n)
    BY <2>2
  <2> QED
    BY <2>1, <2>2
<1> HIDE DEF S
<1>6. n \in S
  BY <1>4, <1>5, CountUp
<1> QED
  BY <1>6, <1>1 DEF S

(* What the encoder went through: h[i] is its state after the i-th token.  *)
Encoded(h, n, tables, text, s) ==
  /\ h \in [0..n -> States]
  /\ h[0] = Fresher
  /\ \A i \in 1..n :
       /\ text[PrefixTokens + i] \in Symbols(tables[i])
       /\ Reaches(Given(h[i - 1], tables[i], text[PrefixTokens + i]), h[i])
       /\ ~Narrowed(h[i].e.r)
  /\ \A i \in 0..n : Begins(h[i].out, s)

LEMMA EncodedStart ==
  ASSUME NEW tables, NEW text, NEW s \in Seq(Bit)
  PROVE  \E h : Encoded(h, 0, tables, text, s) /\ h[0] = Fresher
<1> DEFINE h == [i \in 0..0 |-> Fresher]
<1>1. Fresher \in States /\ Fresher.out = <<>>
  <2>1. Fresh \in Encoders
    BY WholeWide DEF Fresh, Encoders, Wide, Ordered
  <2> QED
    BY <2>1 DEF Fresher, States
<1>2. h \in [0..0 -> States] /\ h[0] = Fresher
  BY <1>1
<1>3. \A i \in 1..0 : FALSE
  OBVIOUS
<1>4. Begins(<<>>, s)
  BY LenProperties DEF Begins
<1>5. \A i \in 0..0 : Begins(h[i].out, s)
  BY <1>1, <1>2, <1>4
<1> HIDE DEF h
<1>6. Encoded(h, 0, tables, text, s)
  BY <1>2, <1>3, <1>5 DEF Encoded
<1> QED
  BY <1>2, <1>6

LEMMA EncodedStays ==
  ASSUME NEW h, NEW n \in Nat, NEW as, NEW bs, NEW ts, NEW us,
         NEW s \in Seq(Bit), NEW w \in Seq(Bit),
         Encoded(h, n, as, ts, s),
         \A i \in 1..n : bs[i] = as[i] /\ us[PrefixTokens + i] = ts[PrefixTokens + i],
         Begins(s, w)
  PROVE  Encoded(h, n, bs, us, w)
<1>1. \A i \in 0..n : Begins(h[i].out, w)
  <2>1. ASSUME NEW i \in 0..n PROVE Begins(h[i].out, w)
    <3>1. h[i].out \in Seq(Bit) /\ Begins(h[i].out, s)
      BY DEF Encoded, States
    <3> QED
      BY <3>1, BeginsTwice
  <2> QED
    BY <2>1
<1> QED
  BY <1>1 DEF Encoded

LEMMA EncodedLonger ==
  ASSUME NEW h, NEW n \in Nat, NEW as, NEW ts, NEW s, NEW z,
         Encoded(h, n, as, ts, s),
         ts[PrefixTokens + (n + 1)] \in Symbols(as[n + 1]),
         Reaches(Given(h[n], as[n + 1], ts[PrefixTokens + (n + 1)]), z),
         ~Narrowed(z.e.r), Begins(z.out, s)
  PROVE  \E g : /\ Encoded(g, n + 1, as, ts, s)
                /\ g[n + 1] = z /\ \A i \in 0..n : g[i] = h[i]
<1> DEFINE g == [i \in 0..n + 1 |-> IF i = n + 1 THEN z ELSE h[i]]
<1>1. z \in States
  BY ReachesType
<1>2. h \in [0..n -> States] /\ h[0] = Fresher
  BY DEF Encoded
<1>3. g \in [0..n + 1 -> States] /\ g[0] = Fresher /\ g[n + 1] = z
      /\ \A i \in 0..n : g[i] = h[i]
  BY <1>1, <1>2
<1> HIDE DEF g
<1>4. ASSUME NEW i \in 1..n + 1
      PROVE  /\ ts[PrefixTokens + i] \in Symbols(as[i])
             /\ Reaches(Given(g[i - 1], as[i], ts[PrefixTokens + i]), g[i])
             /\ ~Narrowed(g[i].e.r)
  <2>1. CASE i = n + 1
    <3>1. i - 1 = n /\ n \in 0..n
      BY <2>1
    <3> QED
      BY <2>1, <3>1, <1>3
  <2>2. CASE i # n + 1
    <3>1. i \in 1..n /\ i - 1 \in 0..n /\ i \in 0..n
      BY <2>2
    <3> QED
      BY <3>1, <1>3 DEF Encoded
  <2> QED
    BY <2>1, <2>2
<1>5. ASSUME NEW i \in 0..n + 1 PROVE Begins(g[i].out, s)
  <2>1. CASE i = n + 1
    BY <2>1, <1>3
  <2>2. CASE i # n + 1
    <3>1. i \in 0..n
      BY <2>2
    <3> QED
      BY <3>1, <1>3 DEF Encoded
  <2> QED
    BY <2>1, <2>2
<1>6. Encoded(g, n + 1, as, ts, s)
  BY <1>3, <1>4, <1>5 DEF Encoded
<1> QED
  BY <1>3, <1>6

(* During the payload, every token but the last left a real bit to confirm; *)
(* the last one left none, and its state is the mirror's.                  *)
Payload(h, n, tables, text, s, real) ==
  /\ Encoded(h, n, tables, text, s)
  /\ Len(text) = PrefixTokens + n
  /\ \A i \in 0..n : Len(h[i].out) < real

Packed(h, tables, text, s, real) ==
  /\ Encoded(h, Len(tables), tables, text, s)
  /\ PrefixTokens + Len(tables) <= Len(text)
  /\ \A i \in 0..Len(tables) - 1 : Len(h[i].out) < real
  /\ Len(h[Len(tables)].out) >= real

Mirror == [e |-> mirror, out |-> SubSeq(bits, 1, confirmed)]
Done   == {"finish", "sent", "read", "encode", "open", "received", "rejected"}

SentInv ==
  /\ pc = "prefix" => Len(tokens) < PrefixTokens /\ asked = <<>>
  /\ pc \in {"encrypt", "load"} => Len(tokens) = PrefixTokens /\ asked = <<>>
  /\ pc = "choose" =>
       \E h : /\ Payload(h, Len(asked), asked, tokens, bits, RealBits)
              /\ h[Len(asked)] = Mirror
  /\ pc = "decode" =>
       \E h : /\ Payload(h, Len(asked) - 1, asked, tokens, bits, RealBits)
              /\ h[Len(asked) - 1] = Mirror
  /\ pc = "mirror" =>
       \E h : /\ Payload(h, Len(asked) - 1, asked, tokens, bits, RealBits)
              /\ Reaches(Given(h[Len(asked) - 1], Last(asked), coder.symbol), Mirror)
  /\ pc \in Done => \E h : Packed(h, asked, tokens, bits, RealBits)

LEMMA PayloadStays ==
  ASSUME NEW h, NEW n \in Nat, NEW as, NEW bs, NEW ts,
         NEW s \in Seq(Bit), NEW w \in Seq(Bit), NEW real,
         Payload(h, n, as, ts, s, real),
         \A i \in 1..n : bs[i] = as[i],
         Begins(s, w)
  PROVE  Payload(h, n, bs, ts, w, real)
<1>1. Encoded(h, n, as, ts, s)
  BY DEF Payload
<1>2. Encoded(h, n, bs, ts, w)
  BY <1>1, EncodedStays
<1> QED
  BY <1>2 DEF Payload

LEMMA BeginsSelf == ASSUME NEW s \in Seq(Bit) PROVE Begins(s, s)
BY LenProperties DEF Begins

LEMMA PackedStays ==
  ASSUME NEW h, NEW as \in Seq(Tables), NEW ts \in Seq(Tokens), NEW t \in Tokens,
         NEW s \in Seq(Bit), NEW real, Packed(h, as, ts, s, real)
  PROVE  Packed(h, as, Append(ts, t), s, real)
<1>1. PICK n \in Nat : n = Len(as)
  BY LenProperties
<1>2. Len(ts) \in Nat /\ PrefixTokens \in Nat
  BY LenProperties, CarrierAssumption
<1>3. /\ Len(Append(ts, t)) = Len(ts) + 1
      /\ \A i \in 1..Len(ts) : Append(ts, t)[i] = ts[i]
  BY AppendProperties
<1>4. PrefixTokens + n <= Len(ts) /\ Encoded(h, n, as, ts, s)
  BY <1>1 DEF Packed
<1>5. \A i \in 1..n : PrefixTokens + i \in 1..Len(ts)
  BY <1>2, <1>4
<1>6. Begins(s, s)
  BY BeginsSelf
<1>7. Encoded(h, n, as, Append(ts, t), s)
  BY <1>3, <1>4, <1>5, <1>6, EncodedStays
<1>8. PrefixTokens + n <= Len(Append(ts, t))
  BY <1>2, <1>3, <1>4
<1> QED
  BY <1>1, <1>7, <1>8 DEF Packed

(* A packet has bits, and its header fills bytes. *)
LEMMA PacketSize ==
  ASSUME PacketInv, pc \notin Unframed
  PROVE  /\ Len(header) \in Nat /\ Len(capsule) \in Nat
         /\ ByteBits \in Nat \ {0} /\ ByteBits <= Len(header)
         /\ RealBits = Len(header) + Len(capsule)
         /\ RealBits \in Nat /\ 0 < RealBits
<1>1. PICK length \in CapsuleLengths : header = AsBits(PackHeader(length))
  BY DEF PacketInv
<1>2. /\ PackHeader(length) \in Seq(Byte)
      /\ Len(PackHeader(length)) \in 1..MaxHeader
  BY HeaderBytes
<1>3. Len(header) = Len(PackHeader(length)) * ByteBits
  BY <1>1, <1>2, AsBitsType
<1>4. PICK n \in Nat \ {0}, b \in Nat \ {0} :
        n = Len(PackHeader(length)) /\ b = ByteBits
  BY <1>2, BaseIs, HeaderAssumption
<1>5. b <= n * b /\ n * b \in Nat
  <2>1. 1 <= n /\ 1 \in Nat /\ b \in Nat /\ n \in Nat
    BY <1>4
  <2>2. b * 1 <= b * n /\ b * n \in Nat
    BY <2>1, Monotone
  <2> QED
    BY <2>2, <1>4
<1>6. Len(capsule) \in Nat
  BY LenProperties DEF PacketInv
<1>7. Len(header) = n * b
  BY <1>3, <1>4
<1>8. Len(header) \in Nat /\ b <= Len(header)
  BY <1>5, <1>7
<1> QED
  BY <1>4, <1>6, <1>8 DEF RealBits

LEMMA WindowRead ==
  ASSUME NEW s \in Seq(Bit), NEW c \in Nat, NEW p \in Nat,
         \E x : Window(s, c, p, x)
  PROVE  /\ c <= Len(s)
         /\ SubSeq(s, 1, c) \in Seq(Bit) /\ Len(SubSeq(s, 1, c)) = c
         /\ Begins(SubSeq(s, 1, c), s)
<1>1. Precision \in Nat /\ Len(s) \in Nat
  BY WeightIs, LenProperties
<1>2. c <= Len(s)
  BY <1>1 DEF Window
<1>3. /\ SubSeq(s, 0 + 1, 0 + c) \in Seq(Bit) /\ Len(SubSeq(s, 0 + 1, 0 + c)) = c
      /\ \A j \in 1..c : SubSeq(s, 0 + 1, 0 + c)[j] = s[0 + j]
  <2>1. 0 \in Nat /\ 0 + c <= Len(s)
    BY <1>1, <1>2
  <2> QED
    BY <2>1, Slice
<1>4. 0 + 1 = 1 /\ 0 + c = c /\ \A j \in 1..c : 0 + j = j
  OBVIOUS
<1>5. /\ SubSeq(s, 1, c) \in Seq(Bit) /\ Len(SubSeq(s, 1, c)) = c
      /\ \A j \in 1..c : SubSeq(s, 1, c)[j] = s[j]
  BY <1>3, <1>4
<1>6. Begins(SubSeq(s, 1, c), s)
  BY <1>2, <1>5 DEF Begins
<1> QED
  BY <1>2, <1>5, <1>6

LEMMA ConfirmedRead ==
  ASSUME PacketInv, MirrorInv, SyncInv, pc \in {"choose", "decode", "mirror"}
  PROVE  confirmed \in Nat /\ confirmed <= Len(bits) /\ Mirror \in States
         /\ Len(SubSeq(bits, 1, confirmed)) = confirmed
         /\ Begins(SubSeq(bits, 1, confirmed), bits)
<1>1. /\ confirmed \in Nat /\ mirror \in Encoders /\ mirror.pending \in Nat
      /\ bits \in Seq(Bit)
  BY DEF MirrorInv, PacketInv, Encoders
<1>2. \E x : Window(bits, confirmed, mirror.pending, x)
  BY DEF SyncInv, Following
<1>3. /\ confirmed <= Len(bits) /\ SubSeq(bits, 1, confirmed) \in Seq(Bit)
      /\ Len(SubSeq(bits, 1, confirmed)) = confirmed
      /\ Begins(SubSeq(bits, 1, confirmed), bits)
  BY <1>1, <1>2, WindowRead
<1> QED
  BY <1>1, <1>3 DEF Mirror, States

LEMMA AskedSome ==
  ASSUME DecoderInv, TextInv, pc \in {"decode", "mirror"}
  PROVE  Len(asked) - 1 \in Nat
<1>1. asked \in Seq(Tables) /\ asked # <<>>
  BY DEF DecoderInv, TextInv
<1>2. Len(asked) \in Nat \ {0}
  BY <1>1, EmptySeq
<1> QED
  BY <1>2

LEMMA SentInit == Init => SentInv
<1> SUFFICES ASSUME Init PROVE SentInv
  OBVIOUS
<1>1. pc = "prefix" /\ tokens = <<>> /\ asked = <<>>
  BY DEF Init
<1>2. Len(<<>>) = 0 /\ 0 < PrefixTokens
  BY CarrierAssumption
<1> QED
  BY <1>1, <1>2 DEF SentInv, Done

(* The steps of the payload keep the history of its tokens, *)
LEMMA SentPayload ==
  ASSUME DecoderInv, DecoderInv', MirrorInv, MirrorInv', PacketInv, PacketInv',
         SyncInv, SyncInv', TextInv, TextInv', SentInv,
         Load \/ (\E c \in Tables : Choose(c)) \/ DecodeShift \/ DecodeEnd
         \/ MirrorShift
  PROVE  SentInv'
<1>0. /\ bits \in Seq(Bit) /\ asked \in Seq(Tables) /\ tokens \in Seq(Tokens)
      /\ Len(asked) \in Nat /\ Len(tokens) \in Nat /\ PrefixTokens \in Nat
      /\ bits' \in Seq(Bit) /\ Begins(bits, bits)
  BY LenProperties, BeginsSelf, CarrierAssumption DEF PacketInv, DecoderInv, TextInv
<1>1. CASE Load
  <2>1. /\ pc = "load" /\ pc' \in {"load", "choose"}
        /\ UNCHANGED <<mirror, confirmed, asked, tokens, header, capsule>>
    BY <1>1 DEF Load, mirrorVars, textVars, packetVars
  <2>2. mirror = Fresh /\ confirmed = 0 /\ asked = <<>> /\ Len(tokens) = PrefixTokens
    BY <2>1 DEF MirrorInv, SentInv
  <2>3. CASE pc' = "load"
    BY <2>1, <2>2, <2>3 DEF SentInv, Done
  <2>4. CASE pc' = "choose"
    <3>1. PICK h : Encoded(h, 0, asked', tokens', bits') /\ h[0] = Fresher
      BY <1>0, EncodedStart
    <3>2. Mirror' = Fresher
      <4>1. SubSeq(bits', 1, 0) = <<>>
        BY SubSeqEmpty
      <4> QED
        BY <2>1, <2>2, <4>1 DEF Mirror, Fresher
    <3>3. Len(asked') = 0
      BY <2>1, <2>2
    <3>4. 0 < RealBits'
      <4>1. pc' \notin Unframed
        BY <2>4 DEF Unframed
      <4>2. pc \notin Unframed /\ RealBits' = RealBits
        BY <2>1 DEF Unframed, RealBits
      <4> QED
        BY <4>2, PacketSize
    <3>5. Len(h[0].out) = 0
      BY <3>1 DEF Fresher
    <3>6. Payload(h, 0, asked', tokens', bits', RealBits')
      <4>1. \A i \in 0..0 : Len(h[i].out) < RealBits'
        BY <3>4, <3>5
      <4>2. Len(tokens') = PrefixTokens + 0
        BY <1>0, <2>1, <2>2
      <4> QED
        BY <3>1, <4>1, <4>2 DEF Payload
    <3> QED
      BY <2>4, <3>1, <3>2, <3>3, <3>6 DEF SentInv, Done
  <2> QED
    BY <2>1, <2>3, <2>4
<1>2. ASSUME NEW c \in Tables, Choose(c) PROVE SentInv'
  <2>1. /\ pc = "choose" /\ pc' \in {"decode", "refused"}
        /\ UNCHANGED <<mirror, confirmed, tokens, bits, header, capsule>>
    BY <1>2 DEF Choose, mirrorVars, packetVars
  <2>2. CASE pc' = "refused"
    BY <2>2 DEF SentInv, Done
  <2>3. CASE pc' = "decode"
    <3>1. asked' = Append(asked, c)
      BY <1>2, <2>3 DEF Choose
    <3>2. PICK n \in Nat : n = Len(asked)
      BY <1>0
    <3>3. Len(asked') - 1 = n /\ \A i \in 1..n : asked'[i] = asked[i]
      BY <1>0, <3>1, <3>2, AppendProperties
    <3>4. PICK h : Payload(h, n, asked, tokens, bits, RealBits) /\ h[n] = Mirror
      BY <2>1, <3>2 DEF SentInv
    <3>5. Payload(h, n, asked', tokens, bits, RealBits)
      BY <1>0, <3>3, <3>4, PayloadStays
    <3>6. Mirror' = Mirror /\ RealBits' = RealBits
      BY <2>1 DEF Mirror, RealBits
    <3> QED
      BY <2>1, <2>3, <3>3, <3>4, <3>5, <3>6 DEF SentInv, Done
  <2> QED
    BY <2>1, <2>2, <2>3
<1>3. CASE DecodeShift
  <2>1. /\ pc = "decode" /\ pc' = "decode"
        /\ UNCHANGED <<mirror, confirmed, tokens, asked, header, capsule>>
        /\ \E bit \in Bit : ReadBit(bit)
    BY <1>3 DEF DecodeShift, mirrorVars, textVars, packetVars
  <2>2. Len(bits) <= Len(bits') /\ \A i \in 1..Len(bits) : bits'[i] = bits[i]
    BY <2>1, ReadBitIs DEF PacketInv
  <2>3. Begins(bits, bits')
    BY <2>2 DEF Begins
  <2>5. PICK n \in Nat : n = Len(asked) - 1
    BY <2>1, AskedSome
  <2>6. PICK h : Payload(h, n, asked, tokens, bits, RealBits) /\ h[n] = Mirror
    BY <2>1, <2>5 DEF SentInv
  <2>7. Payload(h, n, asked, tokens, bits', RealBits)
    BY <1>0, <2>3, <2>6, PayloadStays
  <2>8. SubSeq(bits', 1, confirmed) = SubSeq(bits, 1, confirmed)
    <3>1. confirmed \in 0..Len(bits)
      BY <2>1, ConfirmedRead
    <3> QED
      BY <1>0, <2>3, <3>1, BeginsIs
  <2>9. Mirror' = Mirror /\ RealBits' = RealBits
    BY <2>1, <2>8 DEF Mirror, RealBits
  <2> QED
    BY <2>1, <2>5, <2>6, <2>7, <2>9 DEF SentInv, Done
<1>4. CASE DecodeEnd
  <2>1. /\ pc = "decode" /\ pc' = "mirror"
        /\ UNCHANGED <<confirmed, tokens, asked, header, capsule, bits, coder>>
        /\ mirror' = [mirror EXCEPT
                        !.r = Narrow(mirror.r, Last(asked), coder.symbol)]
    BY <1>4 DEF DecodeEnd, coderVars, textVars, packetVars
  <2>2. PICK n \in Nat : n = Len(asked) - 1
    BY <2>1, AskedSome
  <2>3. PICK h : Payload(h, n, asked, tokens, bits, RealBits) /\ h[n] = Mirror
    BY <2>1, <2>2 DEF SentInv
  <2>4. Mirror' = Given(Mirror, Last(asked), coder.symbol)
    <3>1. mirror' = [r |-> Narrow(mirror.r, Last(asked), coder.symbol),
                     pending |-> mirror.pending]
      BY <2>1 DEF MirrorInv, Encoders
    <3> QED
      BY <2>1, <3>1 DEF Mirror, Given
  <2>5. Mirror' \in States
    <3>1. /\ mirror' \in Encoders
      BY DEF MirrorInv
    <3>2. SubSeq(bits, 1, confirmed) \in Seq(Bit)
      <4>1. Mirror \in States
        BY <2>1, ConfirmedRead
      <4> QED
        BY <4>1 DEF Mirror, States
    <3> QED
      BY <2>1, <3>1, <3>2 DEF Mirror, States
  <2>6. Reaches(Mirror', Mirror')
    BY <2>5, ReachesSelf
  <2>7. Reaches(Given(h[n], Last(asked'), coder'.symbol), Mirror')
    BY <2>1, <2>3, <2>4, <2>6
  <2>8. RealBits' = RealBits
    BY <2>1 DEF RealBits
  <2> QED
    BY <2>1, <2>2, <2>3, <2>7, <2>8 DEF SentInv, Done
<1>5. CASE MirrorShift
  <2> DEFINE out == Emitted(mirror)
  <2>1. /\ pc = "mirror" /\ pc' = "mirror" /\ Narrowed(mirror.r)
        /\ UNCHANGED <<tokens, asked, header, capsule, bits, coder>>
        /\ mirror' = Encode(mirror)
        /\ confirmed' = confirmed + Len(out)
        /\ desynchronized' = (desynchronized
             \/ SubSeq(bits, confirmed + 1, confirmed + Len(out)) # out)
    BY <1>5 DEF MirrorShift, coderVars, textVars, packetVars
  <2>2. SubSeq(bits, confirmed + 1, confirmed + Len(out)) = out
    BY <2>1 DEF SyncInv
  <2>3. PICK n \in Nat : n = Len(asked) - 1
    BY <2>1, AskedSome
  <2>4. PICK h : /\ Payload(h, n, asked, tokens, bits, RealBits)
                 /\ Reaches(Given(h[n], Last(asked), coder.symbol), Mirror)
    BY <2>1, <2>3 DEF SentInv
  <2>5. /\ confirmed \in Nat /\ confirmed' \in Nat /\ confirmed' <= Len(bits)
        /\ Mirror' \in States /\ Len(out) \in Nat
    <3>1. confirmed \in Nat /\ mirror \in Encoders
      BY DEF MirrorInv
    <3>2. Len(out) \in Nat
      BY <2>1, <3>1, OneBit
    <3>3. /\ confirmed' \in Nat /\ mirror' \in Encoders /\ mirror'.pending \in Nat
      BY DEF MirrorInv, Encoders
    <3>4. \E x : Window(bits', confirmed', mirror'.pending, x)
      BY <2>1 DEF SyncInv, Following
    <3>5. confirmed' <= Len(bits') /\ SubSeq(bits', 1, confirmed') \in Seq(Bit)
      BY <1>0, <3>3, <3>4, WindowRead
    <3>6. Mirror' \in States
      BY <3>3, <3>5 DEF Mirror, States
    <3> QED
      BY <2>1, <3>1, <3>2, <3>3, <3>5, <3>6
  <2>6. Mirror' = Renorm(Mirror)
    <3>1. SubSeq(bits, 1, confirmed) \o SubSeq(bits, confirmed + 1, confirmed + Len(out))
            = SubSeq(bits, 1, confirmed + Len(out))
      <4>0. PICK l \in Nat : l = Len(out)
        BY <2>5
      <4>1. 1 \in 1..Len(bits) + 1 /\ confirmed \in 1 - 1..Len(bits)
            /\ confirmed + l \in confirmed..Len(bits)
        BY <1>0, <2>1, <2>5, <4>0, LenProperties
      <4>2. SubSeq(bits, 1, confirmed) \o SubSeq(bits, confirmed + 1, confirmed + l)
              = SubSeq(bits, 1, confirmed + l)
        BY <1>0, <4>1, ConcatAdjacentSubSeq
      <4> QED
        BY <4>0, <4>2
    <3> QED
      BY <2>1, <2>2, <3>1 DEF Mirror, Renorm
  <2>7. Reaches(Given(h[n], Last(asked), coder.symbol), Mirror')
    <3>1. Mirror.e = mirror
      BY DEF Mirror
    <3> QED
      BY <2>1, <2>4, <2>5, <2>6, <3>1, ReachesLonger
  <2>8. RealBits' = RealBits
    BY <2>1 DEF RealBits
  <2> QED
    BY <2>1, <2>3, <2>4, <2>7, <2>8 DEF SentInv, Done
<1> QED
  BY <1>1, <1>2, <1>3, <1>4, <1>5

(* a token that is written closes its entry, *)
LEMMA SentToken ==
  ASSUME DecoderInv, MirrorInv, PacketInv, SyncInv, TextInv, SentInv, Token
  PROVE  SentInv'
<1>1. /\ pc = "mirror" /\ ~Narrowed(mirror.r)
      /\ UNCHANGED <<mirror, confirmed, asked, header, capsule, bits>>
      /\ Mirror' = Mirror /\ RealBits' = RealBits
  BY DEF Token, coderVars, mirrorVars, packetVars, Mirror, RealBits
<1>2. CASE pc' = "refused"
  BY <1>2 DEF SentInv, Done
<1>3. CASE pc' # "refused"
  <2>1. /\ tokens' = Append(tokens, coder.symbol)
        /\ pc' = IF confirmed < RealBits THEN "choose" ELSE "finish"
    BY <1>3 DEF Token
  <2>2. PICK n \in Nat : n = Len(asked) - 1
    BY <1>1, AskedSome
  <2>3. PICK h : /\ Payload(h, n, asked, tokens, bits, RealBits)
                 /\ Reaches(Given(h[n], Last(asked), coder.symbol), Mirror)
    BY <1>1, <2>2 DEF SentInv
  <2>4. /\ bits \in Seq(Bit) /\ tokens \in Seq(Tokens) /\ asked \in Seq(Tables)
        /\ asked # <<>> /\ coder.symbol \in Symbols(Last(asked))
        /\ PrefixTokens \in Nat
    BY <1>1, CarrierAssumption DEF PacketInv, TextInv, DecoderInv
  <2>5. n + 1 = Len(asked) /\ Last(asked) = asked[n + 1] /\ Len(asked) \in Nat
    BY <2>2, <2>4, LenProperties DEF Last
  <2>6. asked[n + 1] \in Tables
    BY <2>4, <2>5, ElementOfSeq
  <2>7. coder.symbol \in Tokens
    BY <2>4, <2>5, <2>6 DEF Tokens
  <2>8. /\ Len(tokens) = PrefixTokens + n /\ Len(tokens') = PrefixTokens + (n + 1)
        /\ \A i \in 1..n : tokens'[PrefixTokens + i] = tokens[PrefixTokens + i]
        /\ tokens'[PrefixTokens + (n + 1)] = coder.symbol
    <3>1. Len(tokens) = PrefixTokens + n
      BY <2>3 DEF Payload
    <3>2. /\ Len(tokens') = Len(tokens) + 1
          /\ \A i \in 1..Len(tokens) : tokens'[i] = tokens[i]
          /\ tokens'[Len(tokens) + 1] = coder.symbol
      BY <2>1, <2>4, <2>7, AppendProperties
    <3>3. \A i \in 1..n : PrefixTokens + i \in 1..PrefixTokens + n
      BY <2>4
    <3>4. PrefixTokens + n + 1 = PrefixTokens + (n + 1)
      BY <2>4
    <3> QED
      BY <3>1, <3>2, <3>3, <3>4
  <2>9. Encoded(h, n, asked, tokens', bits)
    <3>1. Encoded(h, n, asked, tokens, bits) /\ Begins(bits, bits)
      BY <2>3, <2>4, BeginsSelf DEF Payload
    <3> QED
      BY <3>1, <2>4, <2>8, EncodedStays
  <2>10. PICK g : /\ Encoded(g, n + 1, asked, tokens', bits)
                  /\ g[n + 1] = Mirror /\ \A i \in 0..n : g[i] = h[i]
    <3>1. /\ tokens'[PrefixTokens + (n + 1)] \in Symbols(asked[n + 1])
          /\ Reaches(Given(h[n], asked[n + 1], tokens'[PrefixTokens + (n + 1)]), Mirror)
      BY <2>3, <2>4, <2>5, <2>8
    <3>2. ~Narrowed(Mirror.e.r) /\ Begins(Mirror.out, bits)
      BY <1>1, ConfirmedRead DEF Mirror
    <3> QED
      BY <2>9, <3>1, <3>2, EncodedLonger
  <2>11. \A i \in 0..n : Len(g[i].out) < RealBits
    BY <2>3, <2>10 DEF Payload
  <2>12. Len(g[n + 1].out) = confirmed
    BY <1>1, <2>10, ConfirmedRead DEF Mirror
  <2>13. CASE confirmed < RealBits
    <3>1. \A i \in 0..n + 1 : i = n + 1 \/ i \in 0..n
      OBVIOUS
    <3>2. \A i \in 0..n + 1 : Len(g[i].out) < RealBits
      BY <3>1, <2>11, <2>12, <2>13
    <3>3. Payload(g, Len(asked), asked, tokens', bits, RealBits)
      BY <2>5, <2>8, <2>10, <3>2 DEF Payload
    <3> QED
      BY <1>1, <2>1, <2>5, <2>10, <2>13, <3>3 DEF SentInv, Done
  <2>14. CASE ~ (confirmed < RealBits)
    <3>1. RealBits \in Nat /\ confirmed \in Nat
      <4>1. pc \notin Unframed
        BY <1>1 DEF Unframed
      <4> QED
        BY <4>1, PacketSize DEF MirrorInv
    <3>2. Len(g[Len(asked)].out) >= RealBits
      BY <2>5, <2>12, <2>14, <3>1
    <3>3. Len(asked) - 1 = n /\ PrefixTokens + Len(asked) <= Len(tokens')
      BY <2>4, <2>5, <2>8
    <3>4. Encoded(g, Len(asked), asked, tokens', bits)
      BY <2>5, <2>10
    <3>5. Packed(g, asked, tokens', bits, RealBits)
      BY <2>11, <3>2, <3>3, <3>4 DEF Packed
    <3>6. Packed(g, asked', tokens', bits', RealBits')
      BY <1>1, <3>5
    <3> QED
      BY <2>1, <2>14, <3>6 DEF SentInv, Done
  <2> QED
    BY <2>13, <2>14
<1> QED
  BY <1>2, <1>3

(* and no later step changes it. *)
LEMMA SentNext ==
  /\ DecoderInv /\ DecoderInv' /\ MirrorInv /\ MirrorInv' /\ PacketInv
  /\ PacketInv' /\ SyncInv /\ SyncInv' /\ TextInv /\ TextInv' /\ SentInv
  /\ [Next]_vars
  => SentInv'
<1> SUFFICES ASSUME DecoderInv, DecoderInv', MirrorInv, MirrorInv', PacketInv,
                    PacketInv', SyncInv, SyncInv', TextInv, TextInv', SentInv,
                    [Next]_vars
             PROVE  SentInv'
  OBVIOUS
<1>1. CASE UNCHANGED vars
  <2>1. UNCHANGED <<pc, mirror, confirmed, asked, tokens, bits, header, capsule, coder>>
        /\ Mirror' = Mirror /\ RealBits' = RealBits
    BY <1>1 DEF vars, coderVars, mirrorVars, textVars, packetVars, Mirror, RealBits
  <2> QED
    BY <2>1 DEF SentInv
<1>2. ASSUME NEW t \in Tokens, Prefix(t) PROVE SentInv'
  <2>1. /\ pc = "prefix" /\ tokens' = Append(tokens, t) /\ asked' = asked
        /\ pc' = IF Len(tokens) + 1 = PrefixTokens THEN "encrypt" ELSE "prefix"
    BY <1>2 DEF Prefix
  <2>2. Len(tokens) < PrefixTokens /\ asked = <<>>
    BY <2>1 DEF SentInv
  <2>3. Len(tokens) \in Nat /\ Len(tokens') = Len(tokens) + 1 /\ PrefixTokens \in Nat
    BY <2>1, AppendProperties, LenProperties, CarrierAssumption DEF TextInv
  <2>4. CASE Len(tokens) + 1 = PrefixTokens
    BY <2>1, <2>2, <2>3, <2>4 DEF SentInv, Done
  <2>5. CASE Len(tokens) + 1 # PrefixTokens
    <3>1. Len(tokens') < PrefixTokens
      BY <2>2, <2>3, <2>5
    <3> QED
      BY <2>1, <2>2, <2>5, <3>1 DEF SentInv, Done
  <2> QED
    BY <2>4, <2>5
<1>3. ASSUME NEW t \in Tokens, Finish(t) PROVE SentInv'
  <2>1. /\ pc = "finish" /\ pc' = "finish" /\ tokens' = Append(tokens, t)
        /\ UNCHANGED <<asked, bits, header, capsule>>
    BY <1>3 DEF Finish, coderVars, packetVars
  <2>2. RealBits' = RealBits
    BY <2>1 DEF RealBits
  <2>3. PICK h : Packed(h, asked, tokens, bits, RealBits)
    BY <2>1 DEF SentInv, Done
  <2>4. Packed(h, asked, tokens', bits, RealBits)
    BY <2>1, <2>3, PackedStays DEF PacketInv, TextInv, DecoderInv
  <2> QED
    BY <2>1, <2>2, <2>4 DEF SentInv, Done
<1>4. ASSUME NEW length \in CapsuleLengths, Encrypt(length) PROVE SentInv'
  <2>1. pc = "encrypt" /\ pc' = "load" /\ UNCHANGED <<asked, tokens>>
    BY <1>4 DEF Encrypt, textVars
  <2> QED
    BY <2>1 DEF SentInv, Done
<1>5. ASSUME UNCHANGED <<asked, tokens, bits, header, capsule>>, pc \in Done,
             pc' \in Done \cup {"refused"}
      PROVE  SentInv'
  <2>1. RealBits' = RealBits
    BY <1>5 DEF RealBits
  <2>2. PICK h : Packed(h, asked, tokens, bits, RealBits)
    BY <1>5 DEF SentInv
  <2>3. Packed(h, asked', tokens', bits', RealBits')
    BY <1>5, <2>1, <2>2
  <2> QED
    BY <1>5, <2>3 DEF SentInv, Done
<1>6. CASE Check
  BY <1>5, <1>6 DEF Check, Done, textVars, coderVars, packetVars
<1>7. ASSUME NEW how \in Damages, NEW observed \in Arrivals(how), Deliver(how, observed)
      PROVE  SentInv'
  BY <1>5, <1>7 DEF Deliver, Done, textVars, coderVars, packetVars
<1>8. CASE Receive
  <2>1. UNCHANGED <<asked, tokens, bits, header, capsule>>
    BY <1>8 DEF Receive, ReadToken, ReadEnd, EncodeShift, EncodeEnd, Open,
       textVars, coderVars, packetVars
  <2>2. pc \in Done /\ pc' \in Done
    BY <1>8 DEF Receive, ReadToken, ReadEnd, EncodeShift, EncodeEnd, Open, Done
  <2> QED
    BY <2>1, <2>2, <1>5
<1> QED
  BY <1>1, <1>2, <1>3, <1>4, <1>6, <1>7, <1>8, SentPayload, SentToken DEF Next, Send

-----------------------------------------------------------------------------
(* The text on its way: cut short or intact, it is the sender's as far as  *)
(* it goes.                                                                *)
Reading == {"read", "encode", "open", "received"}
DeliveryInv ==
  /\ pc \notin Reading \cup {"rejected"} =>
       /\ reader = [encoder |-> Fresh, at |-> 0, headerBits |-> 0, target |-> 0]
       /\ collected = <<>>
  /\ pc \in Reading \cup {"rejected"} =>
       /\ Len(copy) <= Len(tokens)
       /\ damage = "none" => copy = tokens
       /\ damage = "cut" => \A i \in 1..Len(copy) : copy[i] = tokens[i]
  /\ pc \in Reading => reader.at \in PrefixTokens..Len(copy)

LEMMA SamePrefixIs ==
  ASSUME NEW ts \in Seq(Tokens), NEW us \in Seq(Tokens), Len(ts) <= Len(us),
         NEW n \in 0..Len(ts)
  PROVE  SubSeq(ts, 1, n) = SubSeq(us, 1, n) <=> \A i \in 1..n : ts[i] = us[i]
<1>1. Len(ts) \in Nat /\ Len(us) \in Nat
  BY LenProperties
<1>2. n \in Nat /\ 0 + n <= Len(ts) /\ 0 + n <= Len(us) /\ 0 \in Nat
      /\ 0 + 1 = 1 /\ 0 + n = n /\ \A i \in 1..n : 0 + i = i
  BY <1>1
<1>3. /\ SubSeq(ts, 0 + 1, 0 + n) \in Seq(Tokens) /\ Len(SubSeq(ts, 0 + 1, 0 + n)) = n
      /\ \A j \in 1..n : SubSeq(ts, 0 + 1, 0 + n)[j] = ts[0 + j]
  BY <1>2, Slice
<1>4. /\ SubSeq(us, 0 + 1, 0 + n) \in Seq(Tokens) /\ Len(SubSeq(us, 0 + 1, 0 + n)) = n
      /\ \A j \in 1..n : SubSeq(us, 0 + 1, 0 + n)[j] = us[0 + j]
  BY <1>2, Slice
<1>5. /\ SubSeq(ts, 1, n) \in Seq(Tokens) /\ Len(SubSeq(ts, 1, n)) = n
      /\ SubSeq(us, 1, n) \in Seq(Tokens) /\ Len(SubSeq(us, 1, n)) = n
      /\ \A j \in 1..n : SubSeq(ts, 1, n)[j] = ts[j] /\ SubSeq(us, 1, n)[j] = us[j]
  BY <1>2, <1>3, <1>4
<1>6. ASSUME \A i \in 1..n : ts[i] = us[i]
      PROVE  SubSeq(ts, 1, n) = SubSeq(us, 1, n)
  BY <1>5, <1>6, SeqEqual
<1>7. ASSUME SubSeq(ts, 1, n) = SubSeq(us, 1, n), NEW i \in 1..n
      PROVE  ts[i] = us[i]
  BY <1>5, <1>7
<1> QED
  BY <1>6, <1>7

LEMMA DeliveryInit == Init => DeliveryInv
BY DEF Init, DeliveryInv, Reading

LEMMA DeliveryNext == TextInv /\ DeliveryInv /\ [Next]_vars => DeliveryInv'
<1> SUFFICES ASSUME TextInv, DeliveryInv, [Next]_vars PROVE DeliveryInv'
  OBVIOUS
<1>0. /\ reader \in [encoder : Encoders, at : Nat, headerBits : Nat, target : Nat]
      /\ copy \in Seq(Tokens) /\ tokens \in Seq(Tokens)
      /\ Len(copy) \in Nat /\ Len(tokens) \in Nat /\ PrefixTokens \in Nat
  BY LenProperties, CarrierAssumption DEF TextInv
<1>1. CASE UNCHANGED vars
  BY <1>1 DEF DeliveryInv, vars, textVars, readerVars
<1>2. CASE Send
  <2>1. UNCHANGED readerVars
    BY <1>2 DEF Send, Prefix, Finish, Encrypt, Choose, Load, DecodeShift, DecodeEnd,
       MirrorShift, Token, Check
  <2>2. pc \notin Reading \cup {"rejected"} /\ pc' \notin Reading \cup {"rejected"}
    BY <1>2 DEF Send, Prefix, Finish, Encrypt, Choose, Load, DecodeShift, DecodeEnd,
       MirrorShift, Token, Check, Reading
  <2> QED
    BY <2>1, <2>2 DEF DeliveryInv, readerVars, Reading
<1>3. ASSUME NEW how \in Damages, NEW observed \in Arrivals(how), Deliver(how, observed)
      PROVE  DeliveryInv'
  <2>1. /\ pc' = IF Len(observed) <= PrefixTokens THEN "rejected" ELSE "read"
        /\ tokens' = tokens /\ copy' = observed /\ damage' = how
        /\ reader' = [reader EXCEPT !.at = PrefixTokens]
    BY <1>3 DEF Deliver, textVars
  <2>2. /\ observed \in Seq(Tokens) /\ Len(observed) <= Len(tokens)
        /\ how = "none" => observed = tokens
        /\ how = "cut" => \A i \in 1..Len(observed) : observed[i] = tokens[i]
    BY <1>0, ArrivalsType
  <2>3. reader'.at = PrefixTokens
    BY <1>0, <2>1
  <2>4. Len(observed) \in Nat
    BY <2>2, LenProperties
  <2>5. pc' = "read" => PrefixTokens \in PrefixTokens..Len(observed)
    BY <1>0, <2>1, <2>4
  <2>6. pc' \in {"read", "rejected"}
    BY <2>1
  <2> HIDE <2>1
  <2>7. pc' \in Reading => pc' = "read"
    BY <2>6 DEF Reading
  <2> QED
    BY <2>1, <2>2, <2>3, <2>5, <2>6, <2>7 DEF DeliveryInv, Reading
<1>4. ASSUME UNCHANGED <<tokens, copy, damage>>, pc \in Reading,
             pc' \in Reading \cup {"rejected"},
             pc' \in Reading => reader'.at \in PrefixTokens..Len(copy)
      PROVE  DeliveryInv'
  BY <1>4 DEF DeliveryInv, Reading
<1>5. ASSUME NEW c \in Tables, ReadToken(c) PROVE DeliveryInv'
  <2> DEFINE t == copy[reader.at + 1]
  <2>1. /\ UNCHANGED <<tokens, copy, damage>> /\ pc = "read"
        /\ pc' \in {"encode", "rejected"} /\ reader.at < Len(copy)
        /\ t \in Symbols(c) \/ pc' = "rejected"
        /\ t \in Symbols(c) => reader' = [reader EXCEPT !.at = @ + 1,
             !.encoder.r = Narrow(reader.encoder.r, c, t)]
    BY <1>5 DEF ReadToken, textVars
  <2>2. t \in Symbols(c) => reader'.at = reader.at + 1
    BY <1>0, <2>1
  <2>3. reader.at \in PrefixTokens..Len(copy)
    BY <2>1 DEF DeliveryInv, Reading
  <2>4. reader.at + 1 \in PrefixTokens..Len(copy)
    BY <1>0, <2>1, <2>3
  <2> HIDE DEF t
  <2> QED
    BY <1>4, <2>1, <2>2, <2>4 DEF Reading
<1>6. CASE ReadEnd
  BY <1>4, <1>6 DEF ReadEnd, textVars, readerVars, Reading
<1>7. CASE EncodeShift
  <2>1. /\ UNCHANGED <<tokens, copy, damage>> /\ pc = "encode" /\ pc' = "encode"
        /\ reader' = [reader EXCEPT !.encoder = Encode(reader.encoder)]
    BY <1>7 DEF EncodeShift, textVars
  <2>2. reader'.at = reader.at
    BY <1>0, <2>1
  <2> QED
    BY <1>4, <2>1, <2>2 DEF DeliveryInv, Reading
<1>8. CASE EncodeEnd
  <2>1. /\ UNCHANGED <<tokens, copy, damage>> /\ pc = "encode"
        /\ pc' \in {"rejected", "open", "read"} /\ reader' = Learned
    BY <1>8 DEF EncodeEnd, textVars
  <2>2. reader'.at = reader.at
    BY <2>1, LearnedType
  <2> QED
    BY <1>4, <2>1, <2>2 DEF DeliveryInv, Reading
<1>9. CASE Open
  <2>1. /\ UNCHANGED <<tokens, copy, damage, reader>> /\ pc = "open"
        /\ pc' \in {"rejected", "received"}
    BY <1>9 DEF Open, textVars, readerVars
  <2> QED
    BY <1>4, <2>1 DEF DeliveryInv, Reading
<1> QED
  BY <1>1, <1>2, <1>3, <1>5, <1>6, <1>7, <1>8, <1>9 DEF Next, Receive

(* The receiver knows what B says as soon as it has its bytes, and it is   *)
(* what the sender put there.                                              *)
Here == [e |-> reader.encoder, out |-> collected]
Informed(r, real, size) ==
  /\ r.target \in {0, real}
  /\ r.target = real => r.headerBits = size

LEMMA CollectedIs ==
  ASSUME PacketInv, TextInv, pc \notin Unframed, Begins(collected, bits)
  PROVE  \A i \in 1..Len(collected) :
           i <= RealBits =>
             collected[i] = IF i <= Len(header) THEN header[i]
                            ELSE capsule[i - Len(header)]
<1>1. /\ header \in Seq(Bit) /\ capsule \in Seq(Bit) /\ collected \in Seq(Bit)
      /\ bits \in Seq(Bit)
      /\ \A i \in 1..RealBits : bits[i] = (header \o capsule)[i]
  BY DEF PacketInv, TextInv
<1>2. \A i \in 1..Len(header) + Len(capsule) :
        (header \o capsule)[i] = IF i <= Len(header) THEN header[i]
                                 ELSE capsule[i - Len(header)]
  BY <1>1, ConcatProperties
<1>3. Len(collected) \in Nat /\ RealBits \in Nat /\ RealBits = Len(header) + Len(capsule)
  BY <1>1, LenProperties, PacketSize
<1>4. \A i \in 1..Len(collected) : collected[i] = bits[i]
  BY DEF Begins
<1>5. \A i \in 1..Len(collected) : i <= RealBits => i \in 1..RealBits
  BY <1>3
<1> QED
  BY <1>1, <1>2, <1>3, <1>4, <1>5

LEMMA LearnedIs ==
  ASSUME PacketInv, TextInv, pc \notin Unframed, Begins(collected, bits),
         Informed(reader, RealBits, Len(header))
  PROVE  /\ Layout.kind # "error"
         /\ Informed(Learned, RealBits, Len(header))
         /\ Len(collected) >= RealBits => Learned.target = RealBits
<1>1. PICK length \in CapsuleLengths : /\ header = AsBits(PackHeader(length))
                                       /\ Len(capsule) = length * ByteBits
  BY DEF PacketInv
<1>2. PICK B : B = PackHeader(length)
  OBVIOUS
<1>3. B \in Seq(Byte) /\ Len(B) \in 1..MaxHeader /\ Len(header) = Len(B) * ByteBits
  BY <1>1, <1>2, HeaderBytes, AsBitsType
<1>4. /\ Len(header) \in Nat /\ Len(capsule) \in Nat
      /\ ByteBits \in Nat \ {0} /\ ByteBits <= Len(header)
      /\ RealBits = Len(header) + Len(capsule)
      /\ RealBits \in Nat /\ 0 < RealBits /\ collected \in Seq(Bit)
      /\ Len(collected) \in Nat
  BY PacketSize, LenProperties DEF TextInv
<1>5. \A i \in 1..Len(collected) :
        i <= Len(B) * ByteBits => collected[i] = AsBits(B)[i]
  <2>1. \A i \in 1..Len(collected) : i <= Len(header) => i <= RealBits
    BY <1>4
  <2>2. header = AsBits(B)
    BY <1>1, <1>2
  <2>3. \A i \in 1..Len(collected) : i <= Len(header) => collected[i] = header[i]
    BY <2>1, CollectedIs
  <2> QED
    BY <2>2, <2>3, <1>3
<1>6. ParseHeader(CompleteBytes(collected)) =
        IF Len(collected) < Len(B) * ByteBits THEN Incomplete
        ELSE Parsed(length, Len(B))
  BY <1>2, <1>4, <1>5, HeaderRead
<1>7. Incomplete.kind = "incomplete"
      /\ Parsed(length, Len(B)).kind = "length"
      /\ Parsed(length, Len(B)).value = length /\ Parsed(length, Len(B)).bytes = Len(B)
  BY DEF Incomplete, Parsed
<1>8. (Len(B) + length) * ByteBits = RealBits
  <2>1. PICK n \in Nat, l \in Nat, w \in Nat : n = Len(B) /\ l = length /\ w = ByteBits
    BY <1>3, <1>4, HeaderAssumption DEF CapsuleLengths
  <2>2. (n + l) * w = n * w + l * w
    OBVIOUS
  <2>3. Len(header) = n * w /\ Len(capsule) = l * w
    BY <1>1, <1>3, <2>1
  <2> QED
    BY <1>4, <2>1, <2>2, <2>3
<1>9. CASE reader.target = RealBits
  <2>1. Layout = Incomplete
    BY <1>4, <1>9 DEF Layout
  <2>2. Learned = reader
    BY <2>1, <1>7 DEF Learned
  <2> QED
    BY <2>1, <2>2, <1>7, <1>9
<1>10. CASE reader.target # RealBits
  <2>0. reader.target = 0
    BY <1>10 DEF Informed
  <2>1. CASE Len(collected) < Len(B) * ByteBits
    <3>1. Layout = Incomplete
      BY <2>1, <1>6 DEF Layout
    <3>2. Learned = reader
      BY <3>1, <1>7 DEF Learned
    <3>3. ~ (Len(collected) >= RealBits)
      BY <2>1, <1>3, <1>4
    <3> QED
      BY <3>1, <3>2, <3>3, <1>7
  <2>2. CASE ~ (Len(collected) < Len(B) * ByteBits)
    <3>1. Len(collected) >= ByteBits
      BY <2>2, <1>3, <1>4
    <3>2. Layout = Parsed(length, Len(B))
      BY <2>0, <2>2, <3>1, <1>6 DEF Layout
    <3>3. Learned = [reader EXCEPT !.headerBits = Len(B) * ByteBits,
                                   !.target = (Len(B) + length) * ByteBits]
      BY <3>2, <1>7 DEF Learned
    <3>4. Learned.headerBits = Len(header) /\ Learned.target = RealBits
      BY <3>3, <1>3, <1>8 DEF TextInv
    <3> QED
      BY <3>2, <3>4, <1>7 DEF Informed
  <2> QED
    BY <2>1, <2>2
<1> QED
  BY <1>9, <1>10

(* Once it has all the real bits, it has the packet. *)
LEMMA PacketIsRead ==
  ASSUME PacketInv, TextInv, pc \notin Unframed, Begins(collected, bits),
         Informed(reader, RealBits, Len(header)), reader.target = RealBits,
         Len(collected) >= RealBits
  PROVE  ReadHeader = header /\ ReadCapsule = capsule
<1>1. /\ Len(header) \in Nat /\ Len(capsule) \in Nat
      /\ RealBits = Len(header) + Len(capsule)
      /\ RealBits \in Nat /\ collected \in Seq(Bit) /\ Len(collected) \in Nat
      /\ header \in Seq(Bit) /\ capsule \in Seq(Bit)
      /\ reader.headerBits = Len(header)
  BY PacketSize, LenProperties DEF TextInv, PacketInv, Informed
<1>2. PICK m \in Nat, n \in Nat : m = Len(header) /\ n = Len(capsule)
  BY <1>1
<1>3. \A i \in 1..m + n : collected[i] = IF i <= m THEN header[i] ELSE capsule[i - m]
  <2>1. \A i \in 1..m + n : i \in 1..Len(collected) /\ i <= RealBits
    BY <1>1, <1>2
  <2> QED
    BY <2>1, <1>2, CollectedIs
<1>4. ReadHeader = header
  <2>1. m \in Nat /\ 0 + m <= Len(collected) /\ 0 \in Nat /\ 0 + 1 = 1 /\ 0 + m = m
    BY <1>1, <1>2
  <2>2. /\ SubSeq(collected, 0 + 1, 0 + m) \in Seq(Bit)
        /\ Len(SubSeq(collected, 0 + 1, 0 + m)) = m
        /\ \A j \in 1..m : SubSeq(collected, 0 + 1, 0 + m)[j] = collected[0 + j]
    BY <1>1, <2>1, Slice
  <2>3. \A j \in 1..m : 0 + j \in 1..m + n /\ 0 + j <= m /\ 0 + j = j
    OBVIOUS
  <2>4. SubSeq(collected, 0 + 1, 0 + m) = header
    BY <2>2, <2>3, <1>1, <1>2, <1>3, SeqEqual
  <2> QED
    BY <2>1, <2>4, <1>1, <1>2 DEF ReadHeader
<1>5. ReadCapsule = capsule
  <2>1. m \in Nat /\ n \in Nat /\ m + n <= Len(collected) /\ collected \in Seq(Bit)
    BY <1>1, <1>2
  <2>2. /\ SubSeq(collected, m + 1, m + n) \in Seq(Bit)
        /\ Len(SubSeq(collected, m + 1, m + n)) = n
        /\ \A j \in 1..n : SubSeq(collected, m + 1, m + n)[j] = collected[m + j]
    BY <2>1, Slice
  <2>3. ASSUME NEW j \in 1..n PROVE collected[m + j] = capsule[j]
    <3>1. j \in Nat /\ 1 <= j /\ j <= n
      BY <1>2
    <3>2. m + j \in 1..m + n /\ ~ (m + j <= m) /\ m + j - m = j
      BY <1>2, <3>1
    <3> QED
      BY <1>2, <1>3, <3>2
  <2>4. PICK g : g = SubSeq(collected, m + 1, m + n)
    OBVIOUS
  <2>5. g \in Seq(Bit) /\ capsule \in Seq(Bit) /\ Len(g) = Len(capsule)
    BY <2>2, <2>4, <1>1, <1>2
  <2>6. \A j \in 1..Len(g) : g[j] = capsule[j]
    BY <2>2, <2>3, <2>4
  <2>7. g = capsule
    BY <2>5, <2>6, SeqEqual
  <2> QED
    BY <2>4, <2>7, <1>1, <1>2 DEF ReadCapsule
<1> QED
  BY <1>4, <1>5

-----------------------------------------------------------------------------
(* As long as the text is the sender's, the receiver goes through the      *)
(* states of the history h, and through no others; a text that was only    *)
(* cut is refused when a token of the payload is missing.                  *)
Tracks(h, p, r, q, n, real, size) ==
  /\ Informed(r, real, size)
  /\ p = "read" => /\ r.at - PrefixTokens \in 0..n - 1
                   /\ q = h[r.at - PrefixTokens]
  /\ p = "encode" => /\ r.at - PrefixTokens \in 1..n
                     /\ Reaches(q, h[r.at - PrefixTokens])
  /\ p \in {"open", "received"} => /\ r.at - PrefixTokens = n
                                   /\ q = h[n] /\ r.target = real
Refused(p, how, cp, n) ==
  p = "rejected" /\ how \in {"none", "cut"} => Len(cp) < PrefixTokens + n
Follows(h, p, r, q, n) ==
  /\ p \in Reading /\ SamePrefix(r.at) => Tracks(h, p, r, q, n, RealBits, Len(header))
  /\ Refused(p, damage, copy, n)
ReaderInv ==
  \A h : Packed(h, asked, tokens, bits, RealBits) =>
    Follows(h, pc, reader, Here, Len(asked))

(* What the steps of the receiver have in common. *)
LEMMA Ahead ==
  ASSUME TextInv, DeliveryInv, pc \in Reading
  PROVE  /\ reader.at \in Nat /\ PrefixTokens \in Nat \ {0}
         /\ PrefixTokens <= reader.at /\ reader.at <= Len(copy)
         /\ Len(copy) <= Len(tokens) /\ Len(copy) \in Nat /\ Len(tokens) \in Nat
         /\ \A n \in 0..Len(copy) :
              SamePrefix(n) <=> \A i \in 1..n : copy[i] = tokens[i]
         /\ damage \in {"none", "cut"} =>
              \A i \in 1..Len(copy) : copy[i] = tokens[i]
         /\ damage \in {"none", "cut"} => SamePrefix(reader.at)
<1>1. /\ copy \in Seq(Tokens) /\ tokens \in Seq(Tokens)
      /\ Len(copy) \in Nat /\ Len(tokens) \in Nat /\ Len(copy) <= Len(tokens)
      /\ PrefixTokens \in Nat \ {0} /\ reader.at \in PrefixTokens..Len(copy)
  BY LenProperties, CarrierAssumption DEF TextInv, DeliveryInv, Reading
<1>2. reader.at \in Nat /\ PrefixTokens <= reader.at /\ reader.at <= Len(copy)
      /\ reader.at \in 0..Len(copy)
  BY <1>1
<1>3. \A n \in 0..Len(copy) :
        SamePrefix(n) <=> \A i \in 1..n : copy[i] = tokens[i]
  BY <1>1, SamePrefixIs DEF SamePrefix
<1>4. damage \in {"none", "cut"} => \A i \in 1..Len(copy) : copy[i] = tokens[i]
  BY DEF DeliveryInv
<1>5. \A i \in 1..reader.at : i \in 1..Len(copy)
  BY <1>2
<1> QED
  BY <1>1, <1>2, <1>3, <1>4, <1>5

(* What a history says of the receiver's state on the way to h[i]. *)
LEMMA OnTheWay ==
  ASSUME asked \in Seq(Tables), TextInv, PacketInv, pc \notin Unframed, NEW h,
         Packed(h, asked, tokens, bits, RealBits), NEW i \in 0..Len(asked)
  PROVE  /\ h[i] \in States
         /\ Here = h[i] \/ Reaches(Here, h[i]) =>
              Begins(collected, bits) /\ IsPrefix(collected, bits)
         /\ Here = h[i] => (Len(collected) >= RealBits <=> i = Len(asked))
<1>1. PICK n \in Nat : n = Len(asked)
  BY LenProperties
<1>2. /\ h \in [0..n -> States] /\ \A j \in 0..n : Begins(h[j].out, bits)
      /\ \A j \in 0..n - 1 : Len(h[j].out) < RealBits
      /\ Len(h[n].out) >= RealBits
  BY <1>1 DEF Packed, Encoded
<1>3. collected \in Seq(Bit) /\ bits \in Seq(Bit) /\ Here.out = collected
  BY DEF TextInv, PacketInv, Here
<1>4. h[i] \in States /\ h[i].out \in Seq(Bit) /\ Begins(h[i].out, bits)
  BY <1>1, <1>2 DEF States
<1>5. ASSUME Here = h[i] \/ Reaches(Here, h[i])
      PROVE  Begins(collected, bits) /\ IsPrefix(collected, bits)
  <2>1. Begins(collected, h[i].out)
    <3>1. CASE Here = h[i]
      BY <3>1, <1>3, BeginsSelf
    <3>2. CASE Reaches(Here, h[i])
      BY <3>2, <1>3, ReachesGrows
    <3> QED
      BY <1>5, <3>1, <3>2
  <2>2. Begins(collected, bits)
    BY <2>1, <1>3, <1>4, BeginsTwice
  <2> QED
    BY <2>2, <1>3, BeginsIs
<1>6. ASSUME Here = h[i] PROVE Len(collected) >= RealBits <=> i = Len(asked)
  <2>1. h[i].out = collected
    BY <1>3, <1>6
  <2>2. i = n \/ i \in 0..n - 1
    BY <1>1
  <2>3. Len(collected) \in Nat /\ RealBits \in Nat
    BY <1>3, PacketSize, LenProperties
  <2>4. CASE i = n
    BY <2>1, <2>4, <1>1, <1>2
  <2>5. CASE i \in 0..n - 1
    <3>1. Len(collected) < RealBits /\ i # n
      BY <2>1, <2>5, <1>2
    <3> QED
      BY <3>1, <2>3, <1>1
  <2> QED
    BY <2>2, <2>4, <2>5
<1> QED
  BY <1>4, <1>5, <1>6

LEMMA FollowRead ==
  ASSUME asked \in Seq(Tables), TextInv, DeliveryInv, PacketInv, NEW h,
         Packed(h, asked, tokens, bits, RealBits),
         Follows(h, pc, reader, Here, Len(asked)),
         NEW c \in Tables, ReadToken(c)
  PROVE  Follows(h, pc', reader', Here', Len(asked))
<1> DEFINE t == copy[reader.at + 1]
           z == [r |-> Narrow(reader.encoder.r, c, t),
                 pending |-> reader.encoder.pending]
<1>1. /\ pc = "read" /\ reader.at < Len(copy) /\ TableHere(c)
      /\ t \in Symbols(c) => pc' = "encode"
           /\ reader' = [reader EXCEPT !.at = @ + 1, !.encoder.r = z.r]
      /\ t \notin Symbols(c) => pc' = "rejected"
      /\ collected' = collected
  BY DEF ReadToken
<1>2. reader \in [encoder : Encoders, at : Nat, headerBits : Nat, target : Nat]
      /\ pc \in Reading
  BY <1>1 DEF TextInv, Reading
<1>3. /\ reader.at \in Nat /\ PrefixTokens \in Nat \ {0}
      /\ PrefixTokens <= reader.at /\ reader.at < Len(copy)
      /\ Len(copy) \in Nat
      /\ \A k \in 0..Len(copy) :
           SamePrefix(k) <=> \A i \in 1..k : copy[i] = tokens[i]
      /\ damage \in {"none", "cut"} =>
           \A i \in 1..Len(copy) : copy[i] = tokens[i]
      /\ damage \in {"none", "cut"} => SamePrefix(reader.at)
  BY <1>1, <1>2, Ahead
<1>4. PICK n \in Nat, a \in Nat : n = Len(asked) /\ a = reader.at
  BY <1>3, LenProperties
<1>5. ASSUME SamePrefix(reader.at), copy[a + 1] = tokens[a + 1]
      PROVE  /\ a - PrefixTokens \in 0..n - 1 /\ Here = h[a - PrefixTokens]
             /\ Informed(reader, RealBits, Len(header))
             /\ t \in Symbols(c)
             /\ Reaches(Given(Here, c, t), h[a + 1 - PrefixTokens])
  <2>1. /\ Informed(reader, RealBits, Len(header))
        /\ a - PrefixTokens \in 0..n - 1 /\ Here = h[a - PrefixTokens]
    BY <1>1, <1>2, <1>4, <1>5 DEF Follows, Tracks
  <2>2. PICK i \in Nat : i = a - PrefixTokens
    BY <2>1
  <2>3. /\ i + 1 \in 1..n /\ i + 1 - 1 = i /\ PrefixTokens + (i + 1) = a + 1
        /\ a + 1 - PrefixTokens = i + 1 /\ a - PrefixTokens + 1 = i + 1
        /\ i + 1 <= n
    BY <1>3, <1>4, <2>1, <2>2
  <2>4. c = asked[i + 1]
    BY <1>1, <1>4, <1>5, <2>3 DEF TableHere
  <2>5. /\ tokens[PrefixTokens + (i + 1)] \in Symbols(asked[i + 1])
        /\ Reaches(Given(h[i + 1 - 1], asked[i + 1], tokens[PrefixTokens + (i + 1)]),
                   h[i + 1])
    BY <1>4, <2>3 DEF Packed, Encoded
  <2>6. t = tokens[PrefixTokens + (i + 1)]
    BY <1>4, <1>5, <2>3
  <2> QED
    BY <2>1, <2>2, <2>3, <2>4, <2>5, <2>6
<1>6. ASSUME pc' \in Reading, SamePrefix(reader'.at)
      PROVE  Tracks(h, pc', reader', Here', n, RealBits, Len(header))
  <2>1. t \in Symbols(c) /\ pc' = "encode"
    BY <1>1, <1>6 DEF Reading
  <2>2. /\ reader'.at = a + 1 /\ reader'.encoder = z
        /\ reader'.target = reader.target /\ reader'.headerBits = reader.headerBits
    BY <1>1, <1>2, <1>4, <2>1 DEF Encoders
  <2>3. a + 1 \in 0..Len(copy) /\ a \in 0..Len(copy)
        /\ a + 1 \in 1..a + 1 /\ \A i \in 1..a : i \in 1..a + 1
    BY <1>3, <1>4
  <2>4. SamePrefix(reader.at) /\ copy[a + 1] = tokens[a + 1]
    BY <1>3, <1>4, <1>6, <2>2, <2>3
  <2>5. Here' = Given(Here, c, t)
    BY <1>1, <2>2 DEF Here, Given
  <2>6. reader'.at - PrefixTokens \in 1..n
    <3>1. PICK b \in Nat : b = PrefixTokens
      BY <1>3
    <3>2. a - b \in 0..n - 1
      BY <1>5, <2>4, <3>1
    <3>3. a + 1 - b \in 1..n
      BY <3>2
    <3> QED
      BY <2>2, <3>1, <3>3
  <2>7. Reaches(Here', h[reader'.at - PrefixTokens])
    <3> HIDE DEF t, z
    <3>1. Reaches(Given(Here, c, t), h[a + 1 - PrefixTokens])
      BY <1>5, <2>4
    <3>2. reader'.at = a + 1
      BY <2>2
    <3>3. reader'.at - PrefixTokens = a + 1 - PrefixTokens
      BY <3>2, <1>3
    <3> QED
      BY <3>1, <3>3, <2>5
  <2>8. Informed(reader', RealBits, Len(header))
    BY <1>5, <2>2, <2>4 DEF Informed
  <2> QED
    BY <2>1, <2>6, <2>7, <2>8 DEF Tracks
<1>7. ASSUME pc' = "rejected" PROVE damage \notin {"none", "cut"}
  <2>1. t \notin Symbols(c)
    BY <1>1, <1>7
  <2>2. a + 1 \in 1..Len(copy)
    BY <1>3, <1>4
  <2> QED
    BY <1>3, <1>5, <2>1, <2>2
<1> QED
  BY <1>4, <1>6, <1>7 DEF Follows, Refused

LEMMA FollowEnd ==
  ASSUME asked \in Seq(Tables), TextInv, DeliveryInv, NEW h,
         Follows(h, pc, reader, Here, Len(asked)), ReadEnd
  PROVE  Follows(h, pc', reader', Here', Len(asked))
<1>1. pc = "read" /\ reader.at = Len(copy) /\ pc' = "rejected" /\ pc \in Reading
  BY DEF ReadEnd, Reading
<1>2. /\ reader.at \in Nat /\ PrefixTokens \in Nat
      /\ damage \in {"none", "cut"} => SamePrefix(reader.at)
  BY <1>1, Ahead
<1>3. PICK n \in Nat : n = Len(asked)
  BY LenProperties
<1>4. ASSUME SamePrefix(reader.at) PROVE Len(copy) < PrefixTokens + n
  <2>1. reader.at - PrefixTokens \in 0..n - 1
    BY <1>1, <1>3, <1>4 DEF Follows, Tracks
  <2> QED
    BY <1>1, <1>2, <2>1
<1> QED
  BY <1>1, <1>2, <1>3, <1>4 DEF Follows, Refused, Reading

LEMMA FollowShift ==
  ASSUME asked \in Seq(Tables), TextInv, DeliveryInv, NEW h,
         Packed(h, asked, tokens, bits, RealBits),
         Follows(h, pc, reader, Here, Len(asked)), EncodeShift
  PROVE  Follows(h, pc', reader', Here', Len(asked))
<1>1. /\ pc = "encode" /\ pc' = "encode" /\ Narrowed(reader.encoder.r)
      /\ collected' = collected \o Emitted(reader.encoder)
      /\ reader' = [reader EXCEPT !.encoder = Encode(reader.encoder)]
  BY DEF EncodeShift
<1>2. /\ reader'.at = reader.at /\ reader'.encoder = Encode(reader.encoder)
      /\ reader'.target = reader.target /\ reader'.headerBits = reader.headerBits
  BY <1>1 DEF TextInv
<1>3. Here' = Renorm(Here) /\ Narrowed(Here.e.r)
  BY <1>1, <1>2 DEF Here, Renorm
<1>4. PICK n \in Nat : n = Len(asked)
  BY LenProperties
<1>5. ASSUME SamePrefix(reader.at)
      PROVE  Tracks(h, pc', reader', Here', n, RealBits, Len(header))
  <2>1. Tracks(h, pc, reader, Here, n, RealBits, Len(header))
    BY <1>1, <1>4, <1>5 DEF Follows, Reading
  <2>2. PICK i \in 1..n : i = reader.at - PrefixTokens
    BY <1>1, <2>1 DEF Tracks
  <2>3. Reaches(Here, h[i]) /\ ~Narrowed(h[i].e.r)
    BY <1>1, <1>4, <2>1, <2>2 DEF Tracks, Packed, Encoded
  <2>4. Reaches(Here', h[i])
    BY <1>3, <2>3, ReachesShorter
  <2> QED
    BY <1>1, <1>2, <2>1, <2>2, <2>4 DEF Tracks, Informed
<1> QED
  BY <1>1, <1>2, <1>4, <1>5 DEF Follows, Refused

LEMMA FollowLearn ==
  ASSUME asked \in Seq(Tables), TextInv, DeliveryInv, PacketInv, NEW h,
         Packed(h, asked, tokens, bits, RealBits),
         Follows(h, pc, reader, Here, Len(asked)), EncodeEnd
  PROVE  Follows(h, pc', reader', Here', Len(asked))
<1>1. /\ pc = "encode" /\ ~Narrowed(reader.encoder.r) /\ reader' = Learned
      /\ pc' = IF Layout.kind = "error" THEN "rejected"
               ELSE IF Enough(Learned.target) THEN "open" ELSE "read"
      /\ collected' = collected
  BY DEF EncodeEnd
<1>2. /\ pc \in Reading /\ pc \notin Unframed
      /\ Learned.at = reader.at /\ Learned.encoder = reader.encoder
  BY <1>1, LearnedType DEF Reading, Unframed
<1>3. Here' = Here
  BY <1>1, <1>2 DEF Here
<1>4. PICK n \in Nat : n = Len(asked)
  BY LenProperties
<1>5. ASSUME SamePrefix(reader.at)
      PROVE  /\ pc' # "rejected"
             /\ Tracks(h, pc', reader', Here', n, RealBits, Len(header))
  <2>1. Tracks(h, pc, reader, Here, n, RealBits, Len(header))
    BY <1>2, <1>4, <1>5 DEF Follows
  <2>2. PICK i \in 1..n : i = reader.at - PrefixTokens
    BY <1>1, <2>1 DEF Tracks
  <2>3. Reaches(Here, h[i]) /\ Informed(reader, RealBits, Len(header))
    BY <1>1, <2>1, <2>2 DEF Tracks
  <2>4. Here = h[i]
    BY <1>1, <2>3, ReachesEnd DEF Here
  <2>5. i \in 0..Len(asked)
    BY <1>4
  <2>6. /\ Begins(collected, bits)
        /\ Len(collected) >= RealBits <=> i = n
    BY <1>2, <1>4, <2>4, <2>5, OnTheWay
  <2>7. /\ Layout.kind # "error"
        /\ Informed(Learned, RealBits, Len(header))
        /\ Len(collected) >= RealBits => Learned.target = RealBits
    BY <1>2, <2>3, <2>6, LearnedIs
  <2>8. RealBits \in Nat /\ 0 < RealBits
    BY <1>2, PacketSize
  <2>9. Enough(Learned.target) <=> i = n
    BY <2>6, <2>7, <2>8 DEF Enough, Informed
  <2>10. Enough(Learned.target) => Learned.target = RealBits
    BY <2>7 DEF Enough, Informed
  <2>11. Learned.at - PrefixTokens = i
    BY <1>2, <2>2
  <2>12. i # n => i \in 0..n - 1
    OBVIOUS
  <2>13. CASE i = n
    <3>1. pc' = "open"
      BY <1>1, <2>7, <2>9, <2>13
    <3>2. reader'.at - PrefixTokens = n /\ Here' = h[n] /\ reader'.target = RealBits
      BY <1>1, <1>3, <2>4, <2>9, <2>10, <2>11, <2>13
    <3> QED
      BY <1>1, <2>7, <3>1, <3>2 DEF Tracks
  <2>14. CASE i # n
    <3>1. pc' = "read"
      BY <1>1, <2>7, <2>9, <2>14
    <3>2. /\ reader'.at - PrefixTokens \in 0..n - 1
          /\ Here' = h[reader'.at - PrefixTokens]
      BY <1>1, <1>3, <2>4, <2>11, <2>12, <2>14
    <3> QED
      BY <1>1, <2>7, <3>1, <3>2 DEF Tracks
  <2> QED
    BY <2>13, <2>14
<1>6. /\ damage \in {"none", "cut"} => SamePrefix(reader.at)
      /\ reader'.at = reader.at
  BY <1>1, <1>2, Ahead
<1> QED
  BY <1>4, <1>5, <1>6 DEF Follows, Refused

LEMMA FollowOpen ==
  ASSUME asked \in Seq(Tables), TextInv, DeliveryInv, PacketInv, NEW h,
         Packed(h, asked, tokens, bits, RealBits),
         Follows(h, pc, reader, Here, Len(asked)), Open
  PROVE  Follows(h, pc', reader', Here', Len(asked))
<1>1. /\ pc = "open" /\ pc \in Reading /\ pc \notin Unframed
      /\ reader' = reader /\ collected' = collected
      /\ pc' \in {"received", "rejected"}
      /\ pc' = "rejected" => \/ ReadHeader # header \/ ReadCapsule # capsule
                             \/ ~SamePrefix(PrefixTokens)
  BY DEF Open, Reading, Unframed, readerVars
<1>2. Here' = Here
  BY <1>1 DEF Here
<1>3. PICK n \in Nat : n = Len(asked)
  BY LenProperties
<1>4. ASSUME SamePrefix(reader.at)
      PROVE  /\ pc' # "rejected"
             /\ Tracks(h, pc', reader', Here', n, RealBits, Len(header))
  <2>1. Tracks(h, pc, reader, Here, n, RealBits, Len(header))
    BY <1>1, <1>3, <1>4 DEF Follows
  <2>2. /\ Informed(reader, RealBits, Len(header)) /\ reader.target = RealBits
        /\ reader.at - PrefixTokens = n /\ Here = h[n]
    BY <1>1, <2>1 DEF Tracks
  <2>3. n \in 0..Len(asked)
    BY <1>3
  <2>4. Begins(collected, bits) /\ Len(collected) >= RealBits
    BY <1>1, <1>3, <2>2, <2>3, OnTheWay
  <2>5. ReadHeader = header /\ ReadCapsule = capsule
    BY <1>1, <2>2, <2>4, PacketIsRead
  <2>6. SamePrefix(PrefixTokens)
    <3>1. /\ reader.at \in Nat /\ PrefixTokens \in Nat \ {0}
          /\ PrefixTokens <= reader.at /\ reader.at <= Len(copy)
          /\ Len(copy) \in Nat
          /\ \A k \in 0..Len(copy) :
               SamePrefix(k) <=> \A i \in 1..k : copy[i] = tokens[i]
      BY <1>1, Ahead
    <3>2. /\ reader.at \in 0..Len(copy) /\ PrefixTokens \in 0..Len(copy)
          /\ \A i \in 1..PrefixTokens : i \in 1..reader.at
      BY <3>1
    <3> QED
      BY <1>4, <3>1, <3>2
  <2>7. Tracks(h, "received", reader, Here, n, RealBits, Len(header))
    BY <2>2 DEF Tracks
  <2> QED
    BY <1>1, <1>2, <2>5, <2>6, <2>7
<1>5. damage \in {"none", "cut"} => SamePrefix(reader.at)
  BY <1>1, Ahead
<1> QED
  BY <1>1, <1>3, <1>4, <1>5 DEF Follows, Refused

(* It starts where the payload starts, with a fresh encoder. *)
LEMMA FollowDeliver ==
  ASSUME asked \in Seq(Tables), TextInv, DeliveryInv, PacketInv, NEW h,
         Packed(h, asked, tokens, bits, RealBits),
         NEW how \in Damages, NEW observed \in Arrivals(how), Deliver(how, observed)
  PROVE  /\ pc' \in Reading => Tracks(h, pc', reader', Here', Len(asked), RealBits,
                                      Len(header))
         /\ Refused(pc', damage', copy', Len(asked))
<1>1. /\ pc = "sent" /\ pc \notin Reading \cup {"rejected"} /\ pc \notin Unframed
      /\ pc' = IF Len(observed) <= PrefixTokens THEN "rejected" ELSE "read"
      /\ copy' = observed
      /\ reader' = [reader EXCEPT !.at = PrefixTokens]
      /\ collected' = collected
  BY DEF Deliver, Reading, Unframed
<1>2. reader = [encoder |-> Fresh, at |-> 0, headerBits |-> 0, target |-> 0]
      /\ collected = <<>>
  BY <1>1 DEF DeliveryInv
<1>3. /\ reader'.at = PrefixTokens /\ reader'.encoder = Fresh
      /\ reader'.target = 0
  BY <1>1, <1>2
<1>4. Here' = Fresher
  BY <1>1, <1>2, <1>3 DEF Here, Fresher
<1>5. PICK n \in Nat : n = Len(asked)
  BY LenProperties
<1>6. RealBits \in Nat /\ 0 < RealBits
  BY <1>1, PacketSize
<1>7. h[0] = Fresher /\ Len(h[n].out) >= RealBits
  BY <1>5 DEF Packed, Encoded
<1>8. n # 0
  <2>1. SUFFICES ASSUME n = 0 PROVE FALSE
    OBVIOUS
  <2>2. h[n].out = <<>>
    BY <1>7, <2>1 DEF Fresher
  <2>3. Len(h[n].out) = 0
    BY <2>2, LenProperties
  <2> QED
    BY <1>6, <1>7, <2>3
<1>9. observed \in Seq(Tokens) /\ Len(observed) \in Nat /\ PrefixTokens \in Nat
  <2>1. tokens \in Seq(Tokens)
    BY DEF TextInv
  <2> QED
    BY <2>1, ArrivalsType, LenProperties, CarrierAssumption
<1>10. ASSUME pc' \in Reading
       PROVE  Tracks(h, pc', reader', Here', n, RealBits, Len(header))
  <2>1. pc' = "read"
    BY <1>1, <1>10 DEF Reading
  <2>2. reader'.at - PrefixTokens = 0
    BY <1>3, <1>9
  <2>3. 0 \in 0..n - 1
    BY <1>8
  <2>4. Informed(reader', RealBits, Len(header))
    BY <1>3, <1>6 DEF Informed
  <2> QED
    BY <1>4, <1>7, <2>1, <2>2, <2>3, <2>4 DEF Tracks
<1>11. ASSUME pc' = "rejected" PROVE Len(copy') < PrefixTokens + n
  <2>1. Len(observed) <= PrefixTokens
    BY <1>1, <1>11
  <2> QED
    BY <1>1, <1>8, <1>9, <2>1
<1> QED
  BY <1>5, <1>10, <1>11 DEF Refused

LEMMA ReaderInit == Init => ReaderInv
<1> SUFFICES ASSUME Init PROVE ReaderInv
  OBVIOUS
<1>1. pc = "prefix"
  BY DEF Init
<1> QED
  BY <1>1 DEF ReaderInv, Follows, Refused, Reading

LEMMA ReaderNext ==
  DecoderInv /\ PacketInv /\ TextInv /\ DeliveryInv /\ ReaderInv /\ [Next]_vars
  => ReaderInv'
<1> SUFFICES ASSUME DecoderInv, PacketInv, TextInv, DeliveryInv, ReaderInv, [Next]_vars
             PROVE  ReaderInv'
  OBVIOUS
<1>0. asked \in Seq(Tables)
  BY DEF DecoderInv
<1>1. ASSUME UNCHANGED <<packetVars, bits, textVars, copy, damage>>,
             \A h : Packed(h, asked, tokens, bits, RealBits) =>
               Follows(h, pc', reader', Here', Len(asked))
      PROVE  ReaderInv'
  BY <1>1 DEF ReaderInv, Follows, Refused, SamePrefix, RealBits, packetVars, textVars
<1>2. CASE UNCHANGED vars
  BY <1>2 DEF ReaderInv, Follows, Refused, SamePrefix, RealBits, Here,
     vars, packetVars, coderVars, textVars, readerVars
<1>3. CASE Send
  <2>1. pc' \notin Reading \cup {"rejected"}
    BY <1>3 DEF Send, Prefix, Finish, Encrypt, Choose, Load, DecodeShift, DecodeEnd,
       MirrorShift, Token, Check, Reading
  <2> QED
    BY <2>1 DEF ReaderInv, Follows, Refused
<1>4. ASSUME NEW how \in Damages, NEW observed \in Arrivals(how), Deliver(how, observed)
      PROVE  ReaderInv'
  <2>1. UNCHANGED <<header, capsule, bits, asked, tokens>>
    BY <1>4 DEF Deliver, packetVars, coderVars, textVars
  <2>2. ASSUME NEW h, Packed(h, asked, tokens, bits, RealBits)
        PROVE  /\ pc' \in Reading =>
                    Tracks(h, pc', reader', Here', Len(asked), RealBits, Len(header))
               /\ Refused(pc', damage', copy', Len(asked))
    BY <2>2, <1>0, <1>4, FollowDeliver
  <2> QED
    BY <2>1, <2>2 DEF ReaderInv, Follows, Refused, RealBits
<1>5. ASSUME NEW c \in Tables, ReadToken(c) PROVE ReaderInv'
  <2>1. UNCHANGED <<packetVars, bits, textVars, copy, damage>>
    BY <1>5 DEF ReadToken, coderVars
  <2>2. ASSUME NEW h, Packed(h, asked, tokens, bits, RealBits)
        PROVE  Follows(h, pc', reader', Here', Len(asked))
    BY <2>2, <1>0, <1>5, FollowRead DEF ReaderInv
  <2> QED
    BY <1>1, <2>1, <2>2
<1>6. CASE ReadEnd
  <2>1. UNCHANGED <<packetVars, bits, textVars, copy, damage>>
    BY <1>6 DEF ReadEnd, coderVars, readerVars
  <2>2. ASSUME NEW h, Packed(h, asked, tokens, bits, RealBits)
        PROVE  Follows(h, pc', reader', Here', Len(asked))
    BY <2>2, <1>0, <1>6, FollowEnd DEF ReaderInv
  <2> QED
    BY <1>1, <2>1, <2>2
<1>7. CASE EncodeShift
  <2>1. UNCHANGED <<packetVars, bits, textVars, copy, damage>>
    BY <1>7 DEF EncodeShift, coderVars
  <2>2. ASSUME NEW h, Packed(h, asked, tokens, bits, RealBits)
        PROVE  Follows(h, pc', reader', Here', Len(asked))
    BY <2>2, <1>0, <1>7, FollowShift DEF ReaderInv
  <2> QED
    BY <1>1, <2>1, <2>2
<1>8. CASE EncodeEnd
  <2>1. UNCHANGED <<packetVars, bits, textVars, copy, damage>>
    BY <1>8 DEF EncodeEnd, coderVars
  <2>2. ASSUME NEW h, Packed(h, asked, tokens, bits, RealBits)
        PROVE  Follows(h, pc', reader', Here', Len(asked))
    BY <2>2, <1>0, <1>8, FollowLearn DEF ReaderInv
  <2> QED
    BY <1>1, <2>1, <2>2
<1>9. CASE Open
  <2>1. UNCHANGED <<packetVars, bits, textVars, copy, damage>>
    BY <1>9 DEF Open, coderVars, readerVars
  <2>2. ASSUME NEW h, Packed(h, asked, tokens, bits, RealBits)
        PROVE  Follows(h, pc', reader', Here', Len(asked))
    BY <2>2, <1>0, <1>9, FollowOpen DEF ReaderInv
  <2> QED
    BY <1>1, <2>1, <2>2
<1> QED
  BY <1>2, <1>3, <1>4, <1>5, <1>6, <1>7, <1>8, <1>9 DEF Next, Receive

CarrierInv == /\ DecoderInv /\ MirrorInv /\ PacketInv /\ SyncInv /\ TextInv
              /\ SentInv /\ DeliveryInv /\ ReaderInv

LEMMA CarriedInit == Init => CarrierInv
BY DecoderInit, MirrorInit, PacketInit, SyncInit, TextInit, SentInit,
   DeliveryInit, ReaderInit DEF CarrierInv

LEMMA CarriedNext == CarrierInv /\ [Next]_vars => CarrierInv'
<1> SUFFICES ASSUME CarrierInv, [Next]_vars PROVE CarrierInv'
  OBVIOUS
<1>0. /\ DecoderInv /\ MirrorInv /\ PacketInv /\ SyncInv /\ TextInv
      /\ SentInv /\ DeliveryInv /\ ReaderInv
  BY DEF CarrierInv
<1>1. DecoderInv'
  BY <1>0, DecoderNext
<1>2. MirrorInv' /\ PacketInv' /\ TextInv' /\ DeliveryInv'
  BY <1>0, <1>1, MirrorNext, PacketNext, TextNext, DeliveryNext
<1>3. SyncInv' /\ ReaderInv'
  BY <1>0, <1>1, <1>2, SyncNext, ReaderNext
<1>4. SentInv'
  BY <1>0, <1>1, <1>2, <1>3, SentNext
<1> QED
  BY <1>1, <1>2, <1>3, <1>4 DEF CarrierInv

LEMMA Carried == Spec => []CarrierInv
BY CarriedInit, CarriedNext, PTL DEF Spec

(* Once the payload is sent there is a history of it, which the receiver   *)
(* follows.                                                                *)
LEMMA Historic ==
  ASSUME CarrierInv, pc \in Reading \cup {"rejected"}
  PROVE  \E h : /\ Packed(h, asked, tokens, bits, RealBits)
                /\ Follows(h, pc, reader, Here, Len(asked))
<1>1. pc \in Done
  BY DEF Reading, Done
<1> QED
  BY <1>1 DEF CarrierInv, SentInv, ReaderInv

(* Every token encoded gives the receiver bits the sender confirmed: what  *)
(* decode_carrier_sections has collected is a prefix of what the framed    *)
(* source gave, as long as the copy is the sender's text.                  *)
THEOREM ReaderKeepsUp == Spec => []ReaderFollows
<1>1. CarrierInv => ReaderFollows
  <2> SUFFICES ASSUME CarrierInv, pc \in Reading, SamePrefix(reader.at)
               PROVE  IsPrefix(collected, bits)
    BY DEF ReaderFollows, Reading
  <2>1. PICK h : /\ Packed(h, asked, tokens, bits, RealBits)
                 /\ Follows(h, pc, reader, Here, Len(asked))
    BY Historic
  <2>2. Tracks(h, pc, reader, Here, Len(asked), RealBits, Len(header))
    BY <2>1 DEF Follows
  <2>3. asked \in Seq(Tables) /\ TextInv /\ PacketInv /\ pc \notin Unframed
    BY DEF CarrierInv, DecoderInv, Reading, Unframed
  <2>4. PICK n \in Nat : n = Len(asked)
    BY <2>3, LenProperties
  <2>5. \E i \in 0..n : Here = h[i] \/ Reaches(Here, h[i])
    <3>1. n \in 0..n /\ (\A i \in 0..n - 1 : i \in 0..n) /\ \A i \in 1..n : i \in 0..n
      OBVIOUS
    <3> QED
      BY <2>2, <2>4, <3>1 DEF Tracks, Reading
  <2> QED
    BY <2>1, <2>3, <2>4, <2>5, OnTheWay
<1> QED
  BY <1>1, Carried, PTL

(* When the packet is complete the receiver is at the payload's last token *)
(* and has the sender's header and capsule.                                *)
LEMMA Complete ==
  ASSUME CarrierInv, pc \in {"open", "received"}, SamePrefix(reader.at)
  PROVE  /\ reader.at = PrefixTokens + Len(asked)
         /\ ReadHeader = header /\ ReadCapsule = capsule
<1>1. pc \in Reading /\ pc \notin Unframed
  BY DEF Reading, Unframed
<1>2. PICK h : /\ Packed(h, asked, tokens, bits, RealBits)
               /\ Follows(h, pc, reader, Here, Len(asked))
  BY <1>1, Historic
<1>3. /\ Informed(reader, RealBits, Len(header)) /\ reader.target = RealBits
      /\ reader.at - PrefixTokens = Len(asked) /\ Here = h[Len(asked)]
  BY <1>1, <1>2 DEF Follows, Tracks
<1>4. asked \in Seq(Tables) /\ TextInv /\ PacketInv /\ DeliveryInv
  BY DEF CarrierInv, DecoderInv
<1>5. PICK n \in Nat : n = Len(asked)
  BY <1>4, LenProperties
<1>6. n \in 0..Len(asked)
  BY <1>5
<1>7. Begins(collected, bits) /\ Len(collected) >= RealBits
  BY <1>1, <1>2, <1>3, <1>4, <1>5, <1>6, OnTheWay
<1>8. reader.at \in Nat /\ PrefixTokens \in Nat
  BY <1>1, <1>4, Ahead
<1> QED
  BY <1>1, <1>3, <1>4, <1>5, <1>7, <1>8, PacketIsRead

(* An intact carrier is never refused: decode_carrier_sections recovers    *)
(* the packet encode_carrier put in, at the token that completed it.       *)
THEOREM IntactRoundTrip == Spec => []RoundTrip
<1>1. CarrierInv => RoundTrip
  <2> SUFFICES ASSUME CarrierInv, damage = "none" PROVE
        /\ pc # "rejected"
        /\ pc \in {"open", "received"} =>
             /\ ReadHeader = header /\ ReadCapsule = capsule
             /\ reader.at = PrefixTokens + Len(asked)
    BY DEF RoundTrip
  <2>1. ASSUME pc = "rejected" PROVE FALSE
    <3>1. PICK h : /\ Packed(h, asked, tokens, bits, RealBits)
                   /\ Follows(h, pc, reader, Here, Len(asked))
      BY <2>1, Historic
    <3>2. copy = tokens
      BY <2>1 DEF CarrierInv, DeliveryInv
    <3>3. /\ Len(copy) < PrefixTokens + Len(asked)
          /\ PrefixTokens + Len(asked) <= Len(tokens)
      BY <2>1, <3>1 DEF Follows, Refused, Packed
    <3>4. Len(tokens) \in Nat /\ Len(asked) \in Nat /\ PrefixTokens \in Nat
      BY LenProperties, CarrierAssumption DEF CarrierInv, TextInv, DecoderInv
    <3> QED
      BY <3>2, <3>3, <3>4
  <2>2. pc \in {"open", "received"} => SamePrefix(reader.at)
    BY Ahead DEF CarrierInv, Reading
  <2> QED
    BY <2>1, <2>2, Complete
<1> QED
  BY <1>1, Carried, PTL

(* A carrier that was cut is refused exactly when a token of A, B or C is  *)
(* missing: the receiver never takes a shorter packet for the whole one.   *)
THEOREM CutIsRefused == Spec => []CutFailsClosed
<1>1. CarrierInv => CutFailsClosed
  <2> SUFFICES ASSUME CarrierInv, damage = "cut" PROVE
        /\ pc \in {"open", "received"} => Len(copy) >= PrefixTokens + Len(asked)
        /\ pc = "rejected" => Len(copy) < PrefixTokens + Len(asked)
    BY DEF CutFailsClosed
  <2>1. ASSUME pc = "rejected" PROVE Len(copy) < PrefixTokens + Len(asked)
    <3>1. PICK h : /\ Packed(h, asked, tokens, bits, RealBits)
                   /\ Follows(h, pc, reader, Here, Len(asked))
      BY <2>1, Historic
    <3> QED
      BY <2>1, <3>1 DEF Follows, Refused
  <2>2. ASSUME pc \in {"open", "received"}
        PROVE  Len(copy) >= PrefixTokens + Len(asked)
    <3>1. /\ SamePrefix(reader.at) /\ reader.at <= Len(copy) /\ reader.at \in Nat
          /\ Len(copy) \in Nat
      BY <2>2, Ahead DEF CarrierInv, Reading
    <3>2. reader.at = PrefixTokens + Len(asked)
      BY <2>2, <3>1, Complete
    <3> QED
      BY <3>1, <3>2
  <2> QED
    BY <2>1, <2>2
<1> QED
  BY <1>1, Carried, PTL

-----------------------------------------------------------------------------
(* The labels.  What was attributed so far never passes the boundary of B  *)
(* and C without the section saying so: that the header's bits are those   *)
(* attributed while none of the capsule's are is why no token is a BC.     *)
LabelInv ==
  /\ previous_confirmed \in Nat /\ header_bits \in Nat
  /\ annotation \in [section : {"none", "A", "B", "C", "D"}, from : Nat, to : Nat]
  /\ pc \in {"prefix", "encrypt", "load"} =>
       /\ confirmed = 0 /\ previous_confirmed = 0 /\ header_bits = 0
       /\ annotation.section \in {"none", "A"}
  /\ pc \in {"choose", "decode", "mirror"} =>
       /\ previous_confirmed <= confirmed
       /\ annotation.section \in {"none", "A", "B", "C"}
       /\ annotation.section = "C" <=> Len(header) < previous_confirmed
       /\ header_bits <= Len(header)
       /\ previous_confirmed <= Len(header) => header_bits = previous_confirmed
  /\ pc \in {"finish", "sent"} => previous_confirmed = RealBits
  /\ annotation.section = "B" => annotation.to <= Len(header)
  /\ annotation.section = "C" => Len(header) < annotation.to
  /\ annotation.to = previous_confirmed

LEMMA LesserGreater ==
  ASSUME NEW a \in Nat, NEW b \in Nat
  PROVE  /\ Min({a, b}) = IF a <= b THEN a ELSE b
         /\ Max({a, b}) = IF a <= b THEN b ELSE a
<1>1. Min({a, b}) = IF a <= b THEN a ELSE b
  BY DEF Min
<1>2. Max({a, b}) = IF a <= b THEN b ELSE a
  BY DEF Max
<1> QED
  BY <1>1, <1>2

(* A header is a byte at least, a capsule too. *)
LEMMA PacketParts ==
  ASSUME PacketInv, pc \notin Unframed
  PROVE  /\ Len(header) \in Nat \ {0} /\ Len(capsule) \in Nat \ {0}
         /\ RealBits = Len(header) + Len(capsule)
<1>1. PICK length \in CapsuleLengths : Len(capsule) = length * ByteBits
  BY DEF PacketInv
<1>2. PICK n \in Nat \ {0}, w \in Nat \ {0} : n = length /\ w = ByteBits
  BY PacketSize, HeaderAssumption DEF CapsuleLengths
<1>3. n * w \in Nat \ {0}
  BY SMT
<1> QED
  BY <1>1, <1>2, <1>3, PacketSize

LEMMA LabelStart == LabelInit => LabelInv
BY LenProperties DEF LabelInit, Init, LabelInv

LEMMA LabelledToken ==
  ASSUME LabelInv, PacketInv, MirrorInv, SyncInv, LabelToken
  PROVE  LabelInv'
<1>1. /\ pc = "mirror" /\ UNCHANGED <<header, capsule, confirmed>>
      /\ pc' \in {"refused", "choose", "finish"}
      /\ pc' = "choose" => confirmed < RealBits
      /\ pc' = "finish" => ~(confirmed < RealBits)
  BY DEF LabelToken, Token, packetVars, mirrorVars
<1>2. pc \notin Unframed
  BY <1>1 DEF Unframed
<1>3. PICK h \in Nat \ {0}, k \in Nat \ {0}, n \in Nat, p \in Nat, b \in Nat :
        /\ h = Len(header) /\ k = Len(capsule) /\ n = confirmed
        /\ p = previous_confirmed /\ b = header_bits
  BY <1>2, PacketParts DEF LabelInv, MirrorInv
<1>4. RealBits = h + k /\ RealBits' = RealBits /\ Len(header)' = h
  BY <1>1, <1>2, <1>3, PacketParts DEF RealBits
<1>5. /\ p <= n /\ b <= h
      /\ p <= h => b = p
      /\ annotation.section = "C" <=> h < p
  BY <1>1, <1>3 DEF LabelInv
<1>6. PICK to \in Nat : /\ to = Min({confirmed, RealBits})
                        /\ to = IF n <= h + k THEN n ELSE h + k
  <2>1. h + k \in Nat
    OBVIOUS
  <2> QED
    BY <2>1, <1>3, <1>4, LesserGreater
<1>7. /\ annotation' = [section |-> PayloadSection(p, to), from |-> p, to |-> to]
      /\ header_bits' = IF InHeader THEN Max({b, to}) ELSE b
      /\ previous_confirmed' = to
  BY <1>3, <1>6 DEF LabelToken, Annotate
<1>8. /\ annotation'.section = PayloadSection(p, to) /\ annotation'.to = to
      /\ annotation'.from = p
  BY <1>7
<1>9. CASE n <= h
  <2>1. to = n /\ InHeader /\ p <= h
    BY <1>3, <1>5, <1>6, <1>9 DEF InHeader
  <2>2. PayloadSection(p, to) = "B"
    BY <2>1 DEF PayloadSection
  <2>3. header_bits' = n
    <3>1. b <= n
      BY <1>5, <2>1
    <3>2. Max({b, n}) = n
      BY <3>1, LesserGreater
    <3> QED
      BY <1>7, <2>1, <3>2
  <2>4. annotation' \in [section : {"none", "A", "B", "C", "D"}, from : Nat, to : Nat]
    BY <1>7, <2>2
  <2>5. pc' # "finish"
    BY <1>1, <1>3, <1>4, <1>9
  <2> HIDE DEF InHeader
  <2> QED
    BY <1>1, <1>3, <1>4, <1>7, <1>8, <1>9, <2>1, <2>2, <2>3, <2>4, <2>5 DEF LabelInv
<1>10. CASE h < n
  <2>1. ~InHeader /\ h < to
    BY <1>3, <1>6, <1>10 DEF InHeader
  <2>2. PayloadSection(p, to) = "C"
    <3>1. ~(p < b)
      BY <1>5
    <3> QED
      BY <1>3, <2>1, <3>1 DEF PayloadSection
  <2>3. header_bits' = b
    BY <1>7, <2>1
  <2>4. annotation' \in [section : {"none", "A", "B", "C", "D"}, from : Nat, to : Nat]
    BY <1>7, <2>2
  <2>5. pc' = "choose" => to = n
    BY <1>1, <1>3, <1>4, <1>6
  <2>6. pc' = "finish" => to = h + k
    BY <1>1, <1>3, <1>4, <1>6
  <2> QED
    BY <1>1, <1>3, <1>4, <1>5, <1>7, <1>8, <1>10, <2>1, <2>2, <2>3, <2>4, <2>5, <2>6
    DEF LabelInv
<1> QED
  BY <1>3, <1>9, <1>10

(* The steps that make no label do not touch what was attributed. *)
LEMMA Unlabelled ==
  ASSUME LabelInv, PacketInv, MirrorInv, SyncInv, LabelNothing
  PROVE  LabelInv'
<1>1. UNCHANGED labelVars
  BY DEF LabelNothing
<1>2. UNCHANGED <<previous_confirmed, header_bits, annotation>>
  BY <1>1 DEF labelVars
<1>3. ASSUME NEW length \in CapsuleLengths, Encrypt(length) PROVE LabelInv'
  <2>1. /\ pc = "encrypt" /\ pc' = "load" /\ UNCHANGED confirmed
    BY <1>3 DEF Encrypt, mirrorVars
  <2> QED
    BY <1>2, <2>1 DEF LabelInv
<1>4. ASSUME UNCHANGED <<header, capsule>>, confirmed' \in Nat, confirmed <= confirmed',
             \/ pc \in {"choose", "decode", "mirror"}
                  /\ pc' \in {"refused", "decode", "mirror"}
             \/ pc = "finish" /\ pc' \in {"sent", "refused"}
             \/ pc' \in Reading \cup {"rejected"}
      PROVE  LabelInv'
  <2>1. confirmed \in Nat /\ previous_confirmed \in Nat
    BY DEF MirrorInv, LabelInv
  <2>2. previous_confirmed <= confirmed => previous_confirmed <= confirmed'
    BY <1>4, <2>1
  <2> QED
    BY <1>2, <1>4, <2>2 DEF LabelInv, RealBits, Reading
<1>5. CASE Load
  <2>1. /\ pc = "load" /\ pc' \in {"load", "choose"} /\ pc \notin Unframed
        /\ UNCHANGED <<header, capsule, confirmed>>
    BY <1>5 DEF Load, Unframed, packetVars, mirrorVars
  <2>2. Len(header) \in Nat \ {0}
    BY <2>1, PacketParts
  <2> QED
    BY <1>2, <2>1, <2>2 DEF LabelInv
<1>6. CASE (\E c \in Tables : Choose(c)) \/ DecodeShift \/ DecodeEnd \/ Check
  <2>1. /\ UNCHANGED <<header, capsule, confirmed>>
        /\ \/ pc \in {"choose", "decode"} /\ pc' \in {"refused", "decode", "mirror"}
           \/ pc = "finish" /\ pc' \in {"sent", "refused"}
    BY <1>6 DEF Choose, DecodeShift, DecodeEnd, Check, packetVars, mirrorVars
  <2>2. confirmed' \in Nat /\ confirmed <= confirmed'
    BY <2>1 DEF MirrorInv
  <2> QED
    BY <1>4, <2>1, <2>2
<1>7. CASE MirrorShift
  <2>1. /\ UNCHANGED <<header, capsule>> /\ pc = "mirror" /\ pc' = "mirror"
        /\ confirmed' = confirmed + Len(Emitted(mirror))
    BY <1>7 DEF MirrorShift, packetVars
  <2>2. confirmed \in Nat /\ Len(Emitted(mirror)) \in Nat
    BY EmittedType, LenProperties DEF MirrorInv
  <2>3. confirmed' \in Nat /\ confirmed <= confirmed'
    BY <2>1, <2>2
  <2> QED
    BY <1>4, <2>1, <2>3
<1>8. CASE \/ \E how \in Damages : \E observed \in Arrivals(how) : Deliver(how, observed)
           \/ Receive
  <2>1. /\ UNCHANGED <<header, capsule, confirmed>>
        /\ pc' \in Reading \cup {"rejected"}
    BY <1>8 DEF Deliver, Receive, ReadToken, ReadEnd, EncodeShift, EncodeEnd, Open,
       Reading, packetVars, mirrorVars
  <2>2. confirmed' \in Nat /\ confirmed <= confirmed'
    BY <2>1 DEF MirrorInv
  <2> QED
    BY <1>4, <2>1, <2>2
<1>9. CASE Token /\ desynchronized
  BY <1>9 DEF SyncInv
<1> QED
  BY <1>3, <1>5, <1>6, <1>7, <1>8, <1>9 DEF LabelNothing

LEMMA LabelStep ==
  CarrierInv /\ LabelInv /\ [LabelNext]_<<vars, labelVars>>
  => [Next]_vars /\ LabelInv'
<1> SUFFICES ASSUME CarrierInv, LabelInv, [LabelNext]_<<vars, labelVars>>
             PROVE  [Next]_vars /\ LabelInv'
  OBVIOUS
<1>0. PacketInv /\ MirrorInv /\ SyncInv
  BY DEF CarrierInv
<1>1. CASE UNCHANGED <<vars, labelVars>>
  BY <1>1 DEF LabelInv, RealBits, vars, packetVars, mirrorVars, labelVars
<1>2. ASSUME NEW t \in Tokens, LabelPrefix(t) PROVE Next /\ LabelInv'
  <2>1. /\ Prefix(t) /\ UNCHANGED <<previous_confirmed, header_bits>>
        /\ annotation' = [section |-> "A", from |-> 0, to |-> 0]
    BY <1>2 DEF LabelPrefix, Annotate
  <2>2. pc = "prefix" /\ pc' \in {"prefix", "encrypt"} /\ confirmed' = confirmed
    BY <2>1 DEF Prefix, mirrorVars
  <2>3. annotation'.section = "A" /\ annotation' \in
          [section : {"none", "A", "B", "C", "D"}, from : Nat, to : Nat]
    BY <2>1
  <2>4. Next
    BY <2>1 DEF Next, Send
  <2> QED
    BY <2>1, <2>2, <2>3, <2>4 DEF LabelInv
<1>3. ASSUME NEW t \in Tokens, LabelFinish(t) PROVE Next /\ LabelInv'
  <2>1. /\ Finish(t) /\ UNCHANGED <<previous_confirmed, header_bits>>
        /\ annotation' = [section |-> "D", from |-> previous_confirmed,
                          to |-> previous_confirmed]
    BY <1>3 DEF LabelFinish, Annotate
  <2>2. pc = "finish" /\ pc' = "finish" /\ UNCHANGED <<header, capsule>>
    BY <2>1 DEF Finish, packetVars
  <2>3. annotation'.section = "D" /\ annotation' \in
          [section : {"none", "A", "B", "C", "D"}, from : Nat, to : Nat]
    BY <2>1 DEF LabelInv
  <2>4. Next
    BY <2>1 DEF Next, Send
  <2> QED
    BY <2>1, <2>2, <2>3, <2>4 DEF LabelInv, RealBits
<1>4. CASE LabelToken
  <2>1. Next
    BY <1>4 DEF LabelToken, Next, Send
  <2> QED
    BY <1>0, <1>4, <2>1, LabelledToken
<1>5. CASE LabelNothing
  <2>1. Next
    BY <1>5 DEF LabelNothing, Next, Send
  <2> QED
    BY <1>0, <1>5, <2>1, Unlabelled
<1> QED
  BY <1>1, <1>2, <1>3, <1>4, <1>5 DEF LabelNext

(* The label of the token just written, and the bits attributed to it: the *)
(* callback of encode_work keeps them those of the packet.                 *)
LEMMA Labelled == LabelSpec => [](CarrierInv /\ LabelInv)
<1>1. LabelInit => CarrierInv /\ LabelInv
  BY CarriedInit, LabelStart DEF LabelInit
<1>2. CarrierInv /\ LabelInv /\ [LabelNext]_<<vars, labelVars>>
      => (CarrierInv /\ LabelInv)'
  BY LabelStep, CarriedNext
<1> QED
  BY <1>1, <1>2, PTL DEF LabelSpec

(* web/app.py, encode_work: a token shown in B confirmed bits of the       *)
(* header only, one shown in C reaches into the capsule, wherever it       *)
(* begins, and the labels of a finished text come to the packet's last bit. *)
THEOREM BitsLabelled == LabelSpec => []BitsAttributed
<1>1. LabelInv => BitsAttributed
  BY DEF LabelInv, BitsAttributed
<1> QED
  BY <1>1, Labelled, PTL

(* No token is ever labelled as spanning B and C, whatever the tables: the *)
(* comparison of encode_work can only hold between bits that were          *)
(* attributed in B and B's own bits.                                       *)
THEOREM NothingSpans == LabelSpec => [](annotation.section # "BC")
<1>1. LabelInv => annotation.section # "BC"
  BY DEF LabelInv
<1> QED
  BY <1>1, Labelled, PTL

(* The page shows the sections in the order of the text, A, B, C, D, and   *)
(* the bits in the order of the packet: the callback never goes back to an *)
(* earlier section, and attributes no bit twice and leaves none out.       *)
THEOREM SectionOrder == LabelSpec => SectionsInOrder
<1>1. CarrierInv /\ LabelInv /\ LabelInv' /\ [LabelNext]_<<vars, labelVars>>
      => [/\ Rank[annotation.section] <= Rank[annotation'.section]
          /\ annotation'.from = annotation.to]_labelVars
  <2> SUFFICES ASSUME CarrierInv, LabelInv, LabelInv',
                      [LabelNext]_<<vars, labelVars>>
               PROVE  \/ /\ Rank[annotation.section] <= Rank[annotation'.section]
                         /\ annotation'.from = annotation.to
                      \/ UNCHANGED labelVars
    OBVIOUS
  <2>0. /\ Rank["none"] = 0 /\ Rank["A"] = 1 /\ Rank["B"] = 2
        /\ Rank["C"] = 4 /\ Rank["D"] = 5
    BY DEF Rank
  <2>1. /\ annotation.section \in {"none", "A", "B", "C", "D"}
        /\ annotation'.section \in {"none", "A", "B", "C", "D"}
    BY DEF LabelInv
  <2>2. CASE UNCHANGED <<vars, labelVars>> \/ LabelNothing
    BY <2>2 DEF LabelNothing
  <2>3. ASSUME NEW t \in Tokens, LabelPrefix(t)
        PROVE  /\ Rank[annotation.section] <= Rank[annotation'.section]
               /\ annotation'.from = annotation.to
    <3>1. /\ pc = "prefix"
          /\ annotation' = [section |-> "A", from |-> 0, to |-> 0]
      BY <2>3 DEF LabelPrefix, Annotate, Prefix
    <3>2. /\ annotation.section \in {"none", "A"} /\ annotation'.section = "A"
          /\ annotation'.from = annotation.to
      BY <3>1 DEF LabelInv
    <3> QED
      BY <2>0, <3>2
  <2>4. ASSUME NEW t \in Tokens, LabelFinish(t)
        PROVE  /\ Rank[annotation.section] <= Rank[annotation'.section]
               /\ annotation'.from = annotation.to
    <3>1. annotation'.section = "D" /\ annotation'.from = annotation.to
      BY <2>4 DEF LabelFinish, Annotate, LabelInv
    <3> QED
      BY <2>0, <2>1, <3>1
  <2>5. ASSUME LabelToken
        PROVE  /\ Rank[annotation.section] <= Rank[annotation'.section]
               /\ annotation'.from = annotation.to
    <3>1. /\ pc = "mirror" /\ PacketInv /\ MirrorInv /\ pc \notin Unframed
      BY <2>5 DEF LabelToken, Token, CarrierInv, Unframed
    <3>2. PICK h \in Nat, n \in Nat, p \in Nat :
            h = Len(header) /\ n = confirmed /\ p = previous_confirmed
      BY <3>1, PacketParts DEF MirrorInv, LabelInv
    <3>3. /\ annotation.section \in {"none", "A", "B", "C"} /\ p <= n
          /\ annotation.section = "C" => h < p
      BY <3>1, <3>2 DEF LabelInv
    <3>4. annotation'.section \in {"B", "BC", "C"}
          /\ (h < n => annotation'.section # "B")
      BY <2>5, <3>2 DEF LabelToken, Annotate, PayloadSection, InHeader
    <3>5. annotation.section = "C" => h < n
      BY <3>3
    <3>6. annotation'.section \in {"B", "C"}
          /\ (annotation.section = "C" => annotation'.section = "C")
      BY <2>1, <3>4, <3>5
    <3>7. annotation'.from = annotation.to
      BY <2>5 DEF LabelToken, Annotate, LabelInv
    <3> QED
      BY <2>0, <3>3, <3>6, <3>7
  <2> QED
    BY <2>2, <2>3, <2>4, <2>5 DEF LabelNext
<1> QED
  BY <1>1, Labelled, PTL DEF LabelSpec, SectionsInOrder
=============================================================================
