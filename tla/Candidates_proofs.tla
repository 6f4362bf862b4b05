-------------------------- MODULE Candidates_proofs --------------------------
(***************************************************************************)
(* For every vocabulary, every logits and every way the accelerator splits *)
(* ties: the ranking of what was fetched is that of the whole vocabulary.  *)
(* Two ends that hold the same logits therefore rank alike, although their *)
(* accelerators hand over different parts of them.  And for all weights:   *)
(* the counts of the largest remainders add up to the total the coders     *)
(* need, and share it fairly.                                              *)
(***************************************************************************)
EXTENDS Candidates, FiniteSetTheorems, WellFoundedInduction, SequenceTheorems,
        TLAPS

LEMMA Divided ==
  ASSUME NEW x \in Int, NEW d \in Nat \ {0}
  PROVE  /\ x \div d \in Int /\ x % d \in 0..(d - 1)
         /\ x = d * (x \div d) + (x % d)
<1>1. x \div d \in Int
  OBVIOUS
<1>2. x % d \in 0..(d - 1)
  OBVIOUS
<1>3. x = d * (x \div d) + (x % d)
  BY SMTT(30)
<1> QED BY <1>1, <1>2, <1>3

LEMMA MoreSteps ==
  ASSUME NEW d \in Nat \ {0}, NEW p \in Int, NEW q \in Int, p < q
  PROVE  d * p + d <= d * q
<1>1. q - p - 1 \in Nat
  OBVIOUS
<1>2. d * (q - p - 1) >= 0
  BY <1>1, SMT
<1>3. d * (q - p - 1) = d * q - d * p - d
  BY SMT
<1> QED BY <1>2, <1>3, SMT

LEMMA QuantizedMonotone ==
  ASSUME NEW v \in Int, NEW w \in Int, v <= w
  PROVE  /\ Quantized(v) \in Int /\ Quantized(w) \in Int
         /\ Quantized(v) <= Quantized(w)
<1> DEFINE p == v \div Unit
           q == w \div Unit
           r == v % Unit
           s == w % Unit
           Up(a, b) == 2 * b > Unit \/ (2 * b = Unit /\ a % 2 = 1)
<1>1. Unit \in Nat \ {0}
  BY CandidatesAssumption
<1>2. /\ p \in Int /\ r \in 0..(Unit - 1) /\ v = Unit * p + r
      /\ q \in Int /\ s \in 0..(Unit - 1) /\ w = Unit * q + s
  BY <1>1, Divided
<1>3. /\ Quantized(v) = IF Up(p, r) THEN p + 1 ELSE p
      /\ Quantized(w) = IF Up(q, s) THEN q + 1 ELSE q
  BY DEF Quantized
<1> HIDE DEF p, q, r, s
<1>4. ~(q < p)
  <2> SUFFICES ASSUME q < p PROVE FALSE
    OBVIOUS
  <2>1. Unit * q + Unit <= Unit * p
    BY <1>1, <1>2, MoreSteps
  <2>2. Unit * q \in Int /\ Unit * p \in Int
    BY <1>1, <1>2
  <2> DEFINE x == Unit * q
             y == Unit * p
  <2> HIDE DEF x, y
  <2>3. x + Unit <= y /\ v = y + r /\ w = x + s /\ x \in Int /\ y \in Int
    BY <1>2, <2>1, <2>2 DEF x, y
  <2> QED BY <1>1, <1>2, <2>3
<1>5. CASE p < q
  BY <1>2, <1>3, <1>5
<1>6. CASE p = q
  <2>1. r <= s
    <3> DEFINE x == Unit * p
    <3>1. x \in Int /\ v = x + r /\ w = x + s
      BY <1>1, <1>2, <1>6
    <3> HIDE DEF x
    <3> QED BY <1>1, <1>2, <3>1
  <2>2. Up(p, r) => Up(q, s)
    BY <1>1, <1>2, <1>6, <2>1
  <2> QED BY <1>2, <1>3, <1>6, <2>2
<1> QED BY <1>2, <1>4, <1>5, <1>6

-----------------------------------------------------------------------------
Asked == call \in [config : Configs, greedy : BOOLEAN]
         /\ logits \in [Vocabulary -> Logits]

LEMMA Scored ==
  ASSUME Asked, NEW t \in Vocabulary, NEW u \in Vocabulary
  PROVE  /\ t \in Int /\ Score(t) \in Int
         /\ logits[t] <= logits[u] => Score(t) <= Score(u)
<1>1. t \in Int /\ logits[t] \in Int /\ logits[u] \in Int
  BY CandidatesAssumption DEF Asked
<1> QED BY <1>1, QuantizedMonotone DEF Score

(* The normative order is a strict total order. *)
LEMMA StrictOrder ==
  ASSUME Asked, NEW t \in Vocabulary, NEW u \in Vocabulary,
         NEW w \in Vocabulary
  PROVE  /\ ~Before(t, t)
         /\ t # u => Before(t, u) \/ Before(u, t)
         /\ Before(t, u) => ~Before(u, t)
         /\ Before(t, u) /\ Before(u, w) => Before(t, w)
<1>1. /\ t \in Int /\ u \in Int /\ w \in Int
      /\ Score(t) \in Int /\ Score(u) \in Int /\ Score(w) \in Int
  BY Scored
<1> QED BY <1>1 DEF Before

LEMMA FinitePart ==
  ASSUME NEW S \in SUBSET Vocabulary
  PROVE  IsFiniteSet(S) /\ Cardinality(S) \in Nat
BY CandidatesAssumption, FS_Subset, FS_CardinalityType

(* The better one has fewer ahead of it. *)
LEMMA FewerAhead ==
  ASSUME Asked, NEW S \in SUBSET Vocabulary, NEW t \in S, NEW u \in S,
         Before(t, u)
  PROVE  Cardinality(Ahead(S, t)) < Cardinality(Ahead(S, u))
<1> DEFINE A == Ahead(S, t)
           B == Ahead(S, u)
<1>1. /\ A \in SUBSET Vocabulary /\ B \in SUBSET Vocabulary
      /\ t \notin A /\ A \cup {t} \subseteq B
  BY StrictOrder DEF Ahead
<1>2. /\ IsFiniteSet(A) /\ IsFiniteSet(B)
      /\ Cardinality(A) \in Nat /\ Cardinality(B) \in Nat
  BY <1>1, FinitePart
<1>3. Cardinality(A \cup {t}) = Cardinality(A) + 1
  BY <1>1, <1>2, FS_AddElement
<1>4. Cardinality(A \cup {t}) <= Cardinality(B)
  BY <1>1, <1>2, FS_Subset
<1> QED BY <1>2, <1>3, <1>4

LEMMA OneRank ==
  ASSUME Asked, NEW S \in SUBSET Vocabulary, NEW t \in S, NEW u \in S,
         Cardinality(Ahead(S, t)) = Cardinality(Ahead(S, u))
  PROVE  t = u
<1>1. Cardinality(Ahead(S, t)) \in Nat
  BY FinitePart DEF Ahead
<1> QED BY <1>1, FewerAhead, StrictOrder

(* Somebody has each rank: ranks are as many as tokens, and all different. *)
LEMMA EveryRank ==
  ASSUME Asked, NEW S \in SUBSET Vocabulary, NEW k \in Nat,
         k < Cardinality(S)
  PROVE  \E t \in S : Cardinality(Ahead(S, t)) = k
<1> DEFINE n == Cardinality(S)
           T == 0..(n - 1)
           f == [t \in S |-> Cardinality(Ahead(S, t))]
<1>1. IsFiniteSet(S) /\ n \in Nat
  BY FinitePart
<1>2. IsFiniteSet(T) /\ Cardinality(T) = n
  <2> HIDE DEF n
  <2>1. 0 \in Int /\ n - 1 \in Int
    BY <1>1
  <2>2. IsFiniteSet(T) /\ Cardinality(T) = IF 0 > n - 1 THEN 0 ELSE n - 1 - 0 + 1
    BY <2>1, FS_Interval
  <2> QED BY <1>1, <2>2
<1>3. ASSUME NEW t \in S
      PROVE  Cardinality(Ahead(S, t)) \in T
  <2>1. Ahead(S, t) \in SUBSET (S \ {t})
    BY StrictOrder DEF Ahead
  <2>2. IsFiniteSet(S \ {t}) /\ Cardinality(S \ {t}) = n - 1
    BY <1>1, FS_RemoveElement
  <2>3. /\ Cardinality(Ahead(S, t)) <= n - 1
        /\ Cardinality(Ahead(S, t)) \in Nat
    BY <2>1, <2>2, FS_Subset, FS_CardinalityType
  <2> QED BY <1>1, <2>3
<1>4. f \in Injection(S, T)
  <2>1. f \in [S -> T]
    BY <1>3
  <2>2. \A t, u \in S : f[t] = f[u] => t = u
    BY OneRank
  <2> QED BY <2>1, <2>2 DEF Injection, IsInjective
<1>5. f \in Surjection(S, T)
  BY <1>2, <1>4, FS_Injection
<1>6. k \in T
  BY <1>1
<1> QED BY <1>5, <1>6 DEF Surjection

LEMMA RankedAt ==
  ASSUME Asked, NEW S \in SUBSET Vocabulary, NEW n \in Nat,
         n <= Cardinality(S), NEW i \in 1..n
  PROVE  /\ Ranking(S, n)[i] \in S
         /\ Cardinality(Ahead(S, Ranking(S, n)[i])) = i - 1
<1>1. i - 1 \in Nat /\ i - 1 < Cardinality(S)
  BY FinitePart
<1>2. \E t \in S : Cardinality(Ahead(S, t)) = i - 1
  BY <1>1, EveryRank
<1>3. Ranking(S, n)[i] = CHOOSE t \in S : Cardinality(Ahead(S, t)) = i - 1
  BY DEF Ranking
<1> QED BY <1>2, <1>3

(* The ranking of a part is that of the whole, when all that is missing    *)
(* comes behind the last one that is ranked.                               *)
LEMMA RankingOfPart ==
  ASSUME Asked, NEW W \in SUBSET Vocabulary, NEW E \in SUBSET W,
         NEW n \in Nat \ {0}, n <= Cardinality(E),
         \A u \in W \ E : Before(Ranking(E, n)[n], u)
  PROVE  Ranking(W, n) = Ranking(E, n)
<1> DEFINE b == Ranking(E, n)
<1>1. \A i \in 1..n : b[i] \in E /\ Cardinality(Ahead(E, b[i])) = i - 1
  BY RankedAt
<1>2. n <= Cardinality(W)
  BY FinitePart, FS_Subset
<1>3. ASSUME NEW i \in 1..n
      PROVE  Ranking(W, n)[i] = b[i]
  <2>1. b[n] \in E /\ Cardinality(Ahead(E, b[n])) = n - 1
    BY <1>1
  <2>2. ~Before(b[n], b[i])
    <3> SUFFICES ASSUME Before(b[n], b[i]) PROVE FALSE
      OBVIOUS
    <3>1. Cardinality(Ahead(E, b[n])) < Cardinality(Ahead(E, b[i]))
      BY <1>1, <2>1, FewerAhead
    <3> QED BY <1>1, <2>1, <3>1
  <2> HIDE DEF b
  <2>3. \A u \in W \ E : Before(b[n], u)
    BY DEF b
  <2>4. \A u \in W \ E : ~Before(u, b[i])
    BY <1>1, <2>1, <2>2, <2>3, StrictOrder
  <2>5. Ahead(W, b[i]) = Ahead(E, b[i])
    BY <2>4 DEF Ahead
  <2>6. b[i] \in W /\ Cardinality(Ahead(W, b[i])) = i - 1
    BY <1>1, <2>5
  <2>7. /\ Ranking(W, n)[i] \in W
        /\ Cardinality(Ahead(W, Ranking(W, n)[i])) = i - 1
    BY <1>2, RankedAt
  <2> QED BY <2>6, <2>7, OneRank
<1> QED BY <1>3 DEF Ranking

-----------------------------------------------------------------------------
(* While a call runs, what was fetched last holds the best raw logits.     *)
Inv ==
  /\ Asked /\ fetch \in Nat
  /\ pc \in {"rank", "table", "greedy", "done"} => fetched \in Partitions(fetch)
  /\ RankingExact

LEMMA LimitPositive ==
  ASSUME Asked
  PROVE  /\ Limit \in Nat \ {0} /\ Target \in Nat
         /\ Excluded \in SUBSET Vocabulary
<1> DEFINE k == call.config.top_k
           m == call.config.multiplier
<1>1. k \in Nat \ {0} /\ m \in Nat \ {0}
  BY CandidatesAssumption, CoderAssumption DEF Asked
<1>2. k * m \in Nat \ {0}
  <2> HIDE DEF k, m
  <2> QED BY <1>1, SMT
<1>3. Excluded \in SUBSET Vocabulary
  BY CandidatesAssumption DEF Excluded
<1> QED BY <1>2, <1>3, FinitePart DEF Limit, Target

LEMMA AtMostNat ==
  ASSUME NEW n \in Nat
  PROVE  AtMost(n) \in Nat
<1>1. Cardinality(Vocabulary) \in Nat
  BY FinitePart
<1> QED BY <1>1 DEF AtMost

(* What Complete accepts: nothing that was not fetched could be ranked.    *)
LEMMA CompleteExact ==
  ASSUME Asked, fetched \in Partitions(fetch),
         Limit <= Cardinality(Eligible),
         Complete(Ranking(Eligible, Limit)[Limit])
  PROVE  Ranking(Eligible, Limit) = Ranking(Vocabulary \ Excluded, Limit)
<1> DEFINE W == Vocabulary \ Excluded
           last == Ranking(Eligible, Limit)[Limit]
<1>1. /\ fetched \in SUBSET Vocabulary /\ Cardinality(fetched) = fetch
      /\ \A s \in fetched : \A t \in Vocabulary \ fetched :
           logits[t] <= logits[s]
  BY DEF Partitions, kSubset
<1>2. /\ W \in SUBSET Vocabulary /\ Eligible \in SUBSET W
      /\ Eligible \in SUBSET Vocabulary /\ Limit \in Nat \ {0}
  BY <1>1, LimitPositive DEF Eligible
<1>3. CASE fetch = Cardinality(Vocabulary)
  <2>1. fetched = Vocabulary
    BY <1>1, <1>3, CandidatesAssumption, FS_Subset
  <2> QED BY <2>1 DEF Eligible
<1>4. CASE \E f \in fetched : Score(f) < Score(last)
  <2>1. PICK f \in fetched : Score(f) < Score(last)
    BY <1>4
  <2>2. last \in Eligible
    BY <1>2, RankedAt
  <2>3. ASSUME NEW u \in W \ Eligible
        PROVE  Before(last, u)
    <3>1. u \in Vocabulary \ fetched
      BY <2>3 DEF Eligible
    <3>2. logits[u] <= logits[f]
      BY <1>1, <3>1
    <3>3. Score(u) <= Score(f)
      BY <1>1, <3>1, <3>2, Scored
    <3>4. Score(u) \in Int /\ Score(f) \in Int /\ Score(last) \in Int
      BY <1>1, <1>2, <2>2, <3>1, Scored
    <3>5. Score(u) < Score(last)
      BY <2>1, <3>3, <3>4
    <3> QED BY <3>5 DEF Before
  <2> QED BY <1>2, <2>3, RankingOfPart
<1> QED BY <1>3, <1>4 DEF Complete

LEMMA InitInv == Init => Inv
<1> SUFFICES ASSUME Init
             PROVE  Inv
  OBVIOUS
<1> QED BY DEF Init, Inv, Asked, RankingExact

(* The call itself does not change, nor does the ranking it asks for.      *)
LEMMA SameCall ==
  ASSUME Asked, UNCHANGED <<call, logits>>
  PROVE  /\ Asked'
         /\ Partitions(fetch)' = {S \in kSubset(fetch', Vocabulary) :
              \A s \in S : \A t \in Vocabulary \ S : logits[t] <= logits[s]}
         /\ Ranking(Vocabulary \ Excluded, Limit)' =
              Ranking(Vocabulary \ Excluded, Limit)
<1>1. Asked'
  BY DEF Asked
<1>2. Partitions(fetch)' = {S \in kSubset(fetch', Vocabulary) :
              \A s \in S : \A t \in Vocabulary \ S : logits[t] <= logits[s]}
  BY DEF Partitions
<1>3. Ranking(Vocabulary \ Excluded, Limit)' =
        Ranking(Vocabulary \ Excluded, Limit)
  BY DEF Ranking, Ahead, Before, Score, Excluded, Limit
<1> QED BY <1>1, <1>2, <1>3

LEMMA NextInv ==
  ASSUME Inv, [Next]_vars
  PROVE  Inv'
<1>1. Asked /\ UNCHANGED <<call, logits>>
  BY DEF Inv, Next, vars, Ask, Fetch, Rank, Greedy, Build
<1>2. /\ Asked'
      /\ Partitions(fetch)' = {S \in kSubset(fetch', Vocabulary) :
           \A s \in S : \A t \in Vocabulary \ S : logits[t] <= logits[s]}
      /\ Ranking(Vocabulary \ Excluded, Limit)' =
           Ranking(Vocabulary \ Excluded, Limit)
  BY <1>1, SameCall
<1>3. CASE \E finite \in BOOLEAN : Ask(finite)
  <2>1. Max({2 * Target, Target + Margin}) \in Nat
    BY <1>1, LimitPositive, CandidatesAssumption DEF Max
  <2>2. fetch' \in Nat /\ pc' \in {"refused", "fetch"}
    BY <1>3, <2>1, AtMostNat DEF Inv, Ask, Refuse
  <2> QED BY <1>2, <2>2 DEF Inv, RankingExact
<1>4. CASE Fetch
  <2>1. fetch' = fetch /\ pc' = "rank" /\ fetched' \in Partitions(fetch)
    BY <1>4 DEF Fetch
  <2>2. fetched' \in Partitions(fetch)'
    BY <1>2, <2>1 DEF Partitions
  <2> QED BY <1>2, <2>1, <2>2 DEF Inv, RankingExact
<1>5. CASE Rank
  <2>1. /\ pc = "rank" /\ fetched' = fetched
        /\ fetched \in Partitions(fetch)
    BY <1>5 DEF Inv, Rank, Refuse
  <2>2. CASE pc' \in {"refused", "fetch"}
    <3>1. fetch' \in Nat
      <4>1. 2 * fetch \in Nat
        BY DEF Inv
      <4> QED BY <1>5, <4>1, AtMostNat DEF Inv, Rank, Refuse
    <3> QED BY <1>2, <2>2, <3>1 DEF Inv, RankingExact
  <2>3. CASE pc' \notin {"refused", "fetch"}
    <3>1. /\ ~(Cardinality(Eligible) < Limit)
          /\ Complete(Ranking(Eligible, Limit)[Limit])
          /\ ranked' = Ranking(Eligible, Limit) /\ fetch' = fetch
      BY <1>5, <2>3 DEF Rank, Refuse
    <3>2. Limit <= Cardinality(Eligible)
      <4>1. Eligible \in SUBSET Vocabulary
        BY <2>1 DEF Partitions, kSubset, Eligible
      <4>2. Cardinality(Eligible) \in Nat /\ Limit \in Nat
        BY <1>1, <4>1, FinitePart, LimitPositive
      <4> QED BY <3>1, <4>2
    <3>3. ranked' = Ranking(Vocabulary \ Excluded, Limit)
      BY <1>1, <2>1, <3>1, <3>2, CompleteExact
    <3>4. fetched' \in Partitions(fetch)'
      BY <1>2, <2>1, <3>1 DEF Partitions
    <3> QED BY <1>2, <3>1, <3>3, <3>4 DEF Inv, RankingExact
  <2> QED BY <2>2, <2>3
<1>6. CASE \E safe \in SUBSET Range(ranked) :
             Greedy(safe) \/ \E w \in Temperatures : Build(safe, w)
  <2>1. /\ pc \in {"greedy", "table"} /\ UNCHANGED <<fetch, fetched, ranked>>
    BY <1>6 DEF Greedy, Build, Refuse
  <2>2. fetched' \in Partitions(fetch)'
    BY <1>2, <2>1 DEF Inv, Partitions
  <2> QED BY <1>2, <2>1, <2>2 DEF Inv, RankingExact
<1>7. CASE UNCHANGED vars
  <2>1. UNCHANGED <<pc, fetch, fetched, ranked>>
    BY <1>7 DEF vars
  <2>2. fetched \in Partitions(fetch) => fetched' \in Partitions(fetch)'
    BY <1>2, <2>1 DEF Partitions
  <2> QED BY <1>2, <2>1, <2>2 DEF Inv, RankingExact
<1> QED BY <1>3, <1>4, <1>5, <1>6, <1>7 DEF Next

THEOREM AlwaysInv == Spec => []Inv
<1>1. Init => Inv
  BY InitInv
<1>2. Inv /\ [Next]_vars => Inv'
  BY NextInv
<1> QED BY <1>1, <1>2, PTL DEF Spec

(* docs/model-profiles.md: "The resulting candidate table is identical to  *)
(* a complete CPU sort": the ranking is that of the whole vocabulary.      *)
THEOREM CompleteSort == Spec => []RankingExact
<1>1. Inv => RankingExact
  BY DEF Inv
<1> QED BY <1>1, AlwaysInv, PTL

-----------------------------------------------------------------------------
(* Counting up: a set of numbers that holds 0 and every successor of its   *)
(* members holds them all.                                                 *)
LEMMA CountUp ==
  ASSUME NEW S, 0 \in S, \A n \in Nat : n \in S => n + 1 \in S
  PROVE  \A n \in Nat : n \in S
<1> SUFFICES ASSUME NEW m \in Nat, m \notin S PROVE FALSE
  OBVIOUS
<1> DEFINE T == {1..i : i \in {k \in 0..m : k \notin S}}
           R == StrictSubsetOrdering(1..m)
<1>1. T \subseteq FiniteSubsetsOf(1..m) /\ T # {}
  <2>1. \A i \in 0..m : 1..i \in SUBSET (1..m) /\ IsFiniteSet(1..i)
    BY FS_Interval
  <2>2. 1..m \in T
    OBVIOUS
  <2> QED
    BY <2>1, <2>2 DEF FiniteSubsetsOf
<1>2. IsWellFoundedOn(R, FiniteSubsetsOf(1..m))
  BY FS_StrictSubsetOrderingWellFounded
<1>3. PICK x \in T : \A y \in T : ~ (<<y, x>> \in R)
  <2> HIDE DEF T, R
  <2> QED
    BY <1>1, <1>2, WFMin
<1>4. PICK k \in 0..m : k \notin S /\ x = 1..k
  BY <1>3
<1>5. k # 0 /\ k - 1 \in Nat /\ k - 1 \notin S
  BY <1>4
<1>6. <<1..k - 1, 1..k>> \in R
  <2>1. 1..k - 1 \subseteq 1..k /\ k \in 1..k /\ k \notin 1..k - 1
        /\ 1..k \subseteq 1..m
    BY <1>5
  <2> QED
    BY <2>1 DEF StrictSubsetOrdering
<1>7. 1..k - 1 \in T
  BY <1>5
<1> QED
  BY <1>3, <1>4, <1>6, <1>7

(* frequency_counts sums with sum(), cumulative_counts with a loop: both   *)
(* add one element after the other.                                        *)
LEMMA AsSequence ==
  ASSUME NEW S, NEW n \in Nat, NEW s \in [1..n -> S]
  PROVE  s \in Seq(S) /\ Len(s) = n /\ DOMAIN s = 1..n
BY LenProperties

Adds(g, s, k) == /\ g \in [0..k -> Nat] /\ g[0] = 0
                 /\ \A i \in 1..k : g[i] = g[i - 1] + s[i]

LEMMA Sums ==
  ASSUME NEW s \in Seq(Nat)
  PROVE  Adds(RunningSum(s), s, Len(s))
<1>1. PICK n \in Nat : n = Len(s)
  BY LenProperties
<1>2. \A i \in 1..n : s[i] \in Nat
  BY <1>1, ElementOfSeq
<1> DEFINE S == {k \in Nat : k <= n => \E g : Adds(g, s, k)}
<1>3. 0 \in S
  <2> DEFINE g == [i \in 0..0 |-> 0]
  <2>1. Adds(g, s, 0)
    BY DEF Adds
  <2> QED
    BY <2>1
<1>4. ASSUME NEW k \in Nat, k \in S PROVE k + 1 \in S
  <2> SUFFICES ASSUME k + 1 <= n PROVE \E g : Adds(g, s, k + 1)
    OBVIOUS
  <2>1. PICK g : Adds(g, s, k)
    BY <1>4
  <2> DEFINE f == [i \in 0..k + 1 |-> IF i = k + 1 THEN g[k] + s[k + 1] ELSE g[i]]
  <2>2. s[k + 1] \in Nat /\ g[k] \in Nat
    BY <1>2, <2>1 DEF Adds
  <2>3. \A i \in 0..k + 1 : f[i] \in Nat
    BY <2>1, <2>2 DEF Adds
  <2>4. f \in [0..k + 1 -> Nat] /\ f[0] = 0
    BY <2>1, <2>3 DEF Adds
  <2>5. ASSUME NEW i \in 1..k + 1 PROVE f[i] = f[i - 1] + s[i]
    <3>1. CASE i = k + 1
      BY <2>1, <3>1 DEF Adds
    <3>2. CASE i # k + 1
      <4>1. i \in 1..k /\ i - 1 \in 0..k + 1 /\ i - 1 # k + 1
        BY <3>2
      <4> QED
        BY <2>1, <3>2, <4>1 DEF Adds
    <3> QED
      BY <3>1, <3>2
  <2> HIDE DEF f
  <2>6. Adds(f, s, k + 1)
    BY <2>4, <2>5 DEF Adds
  <2> QED
    BY <2>6
<1>5. n \in S
  <2> HIDE DEF S
  <2> QED
    BY <1>3, <1>4, CountUp
<1>6. PICK g : Adds(g, s, n)
  BY <1>5
<1>7. g = [i \in 0..n |-> IF i = 0 THEN 0 ELSE g[i - 1] + s[i]]
  BY <1>6 DEF Adds
<1>8. RunningSum(s) = [i \in 0..n |-> IF i = 0 THEN 0 ELSE RunningSum(s)[i - 1] + s[i]]
  BY <1>1, <1>7 DEF RunningSum
<1>9. PICK h : h = RunningSum(s)
  OBVIOUS
<1>10. h = [i \in 0..n |-> IF i = 0 THEN 0 ELSE h[i - 1] + s[i]]
  BY <1>8, <1>9
<1> DEFINE E == {k \in Nat : k <= n => h[k] = g[k]}
<1>11. 0 \in E
  BY <1>6, <1>10 DEF Adds
<1>12. ASSUME NEW k \in Nat, k \in E PROVE k + 1 \in E
  <2> SUFFICES ASSUME k + 1 <= n PROVE h[k + 1] = g[k + 1]
    OBVIOUS
  <2>1. k + 1 \in 1..n /\ k + 1 \in 0..n /\ k + 1 # 0 /\ k + 1 - 1 = k
    OBVIOUS
  <2>2. h[k] = g[k]
    BY <1>12
  <2>3. h[k + 1] = h[k] + s[k + 1]
    BY <1>10, <2>1
  <2>4. g[k + 1] = g[k] + s[k + 1]
    BY <1>6, <2>1 DEF Adds
  <2> QED
    BY <2>2, <2>3, <2>4
<1>13. \A k \in 0..n : h[k] = g[k]
  <2> HIDE DEF E
  <2>1. \A k \in Nat : k \in E
    BY <1>11, <1>12, CountUp
  <2> QED
    BY <2>1 DEF E
<1>14. h = g
  BY <1>6, <1>10, <1>13 DEF Adds
<1> QED
  BY <1>1, <1>6, <1>9, <1>14 DEF Adds

(* Weights frequency_counts accepts. *)
Weighed(w) == w \in Seq(Nat \ {0}) /\ Len(w) >= 2 /\ Len(w) < Total

LEMMA Distribute ==
  ASSUME NEW d \in Int, NEW x \in Int, NEW y \in Int
  PROVE  /\ d * x \in Int /\ d * y \in Int /\ d * (x + y) \in Int
         /\ d * (x + y) = d * x + d * y
         /\ d * x = x * d
BY SMT

LEMMA Weighing ==
  ASSUME NEW w, Weighed(w)
  PROVE  /\ Len(w) \in Nat \ {0, 1} /\ Total - Len(w) \in Nat \ {0}
         /\ DOMAIN w = 1..Len(w)
         /\ w \in Seq(Nat) /\ \A i \in 1..Len(w) : w[i] \in Nat \ {0}
         /\ Adds(RunningSum(w), w, Len(w))
         /\ SumOf(w) \in Nat \ {0}
<1>1. PICK n \in Nat : n = Len(w)
  BY LenProperties DEF Weighed
<1>2. n \in Nat \ {0, 1} /\ Total - n \in Nat \ {0} /\ DOMAIN w = 1..n
  BY <1>1, CoderAssumption, LenProperties DEF Weighed
<1>3. \A i \in 1..n : w[i] \in Nat \ {0}
  BY <1>1, ElementOfSeq DEF Weighed
<1>4. w \in Seq(Nat)
  <2>1. w \in [1..n -> Nat]
    BY <1>1, <1>2, <1>3, LenProperties DEF Weighed
  <2> QED
    BY <2>1, AsSequence
<1>5. Adds(RunningSum(w), w, n)
  BY <1>1, <1>4, Sums
<1>6. SumOf(w) \in Nat \ {0}
  <2>1. n - 1 \in 0..n /\ n \in 1..n /\ n \in 0..n
    BY <1>2
  <2>2. /\ RunningSum(w)[n] = RunningSum(w)[n - 1] + w[n]
        /\ RunningSum(w)[n - 1] \in Nat /\ w[n] \in Nat \ {0}
    BY <1>3, <1>5, <2>1 DEF Adds
  <2> QED
    BY <1>1, <2>2 DEF SumOf
<1> QED
  BY <1>1, <1>2, <1>3, <1>4, <1>5, <1>6

(* Everyone's proportion, in quotients and remainders. *)
LEMMA Proportions ==
  ASSUME NEW w, Weighed(w)
  PROVE  /\ Quotas(w) \in Seq(Nat) /\ Len(Quotas(w)) = Len(w)
         /\ \A i \in 1..Len(w) :
              /\ Quotas(w)[i] \in Nat \ {0}
              /\ Remainder(w, i) \in 0..SumOf(w) - 1
              /\ w[i] * (Total - Len(w)) =
                   SumOf(w) * (Quotas(w)[i] - 1) + Remainder(w, i)
<1>1. PICK n \in Nat, r \in Nat, s \in Nat \ {0} :
        n = Len(w) /\ r = Total - Len(w) /\ s = SumOf(w)
  BY Weighing
<1>2. DOMAIN w = 1..n /\ \A i \in 1..n : w[i] \in Nat
  BY <1>1, Weighing
<1>3. Quotas(w) = [i \in 1..n |-> 1 + (w[i] * r) \div s]
  BY <1>1, <1>2 DEF Quotas
<1>4. ASSUME NEW i \in 1..n
      PROVE  /\ Quotas(w)[i] \in Nat \ {0} /\ Remainder(w, i) \in 0..s - 1
             /\ w[i] * r = s * (Quotas(w)[i] - 1) + Remainder(w, i)
  <2>1. PICK x \in Nat : x = w[i] * r
    <3>1. w[i] * r \in Nat
      BY <1>2, SMT
    <3> QED
      BY <3>1
  <2>2. /\ x \div s \in Int /\ x % s \in 0..(s - 1)
        /\ x = s * (x \div s) + (x % s)
    BY Divided
  <2>3. x \div s \in Nat
    <3>1. CASE x \div s < 0
      <4>1. s * (x \div s) + s <= s * 0
        BY <2>2, <3>1, MoreSteps
      <4>2. s * 0 = 0 /\ s * (x \div s) \in Int
        BY <2>2
      <4> QED
        BY <2>2, <4>1, <4>2
    <3> QED
      BY <2>2, <3>1
  <2>4. PICK q \in Nat, y \in 0..s - 1 : q = x \div s /\ y = x % s
    BY <2>2, <2>3
  <2>5. Quotas(w)[i] = 1 + q
    BY <1>3, <2>1, <2>4
  <2>6. Remainder(w, i) = y
    BY <1>1, <2>1, <2>4 DEF Remainder
  <2>7. x = s * q + y
    BY <2>2, <2>4
  <2>8. 1 + q - 1 = q /\ 1 + q \in Nat \ {0}
    OBVIOUS
  <2> QED
    BY <2>1, <2>5, <2>6, <2>7, <2>8
<1>5. Quotas(w) \in Seq(Nat) /\ Len(Quotas(w)) = n
  <2>1. Quotas(w) \in [1..n -> Nat]
    BY <1>3, <1>4
  <2> QED
    BY <2>1, AsSequence
<1> QED
  BY <1>1, <1>4, <1>5

(* What the quotients leave is what the remainders add up to, in shares.   *)
LEMMA Missing ==
  ASSUME NEW w, Weighed(w)
  PROVE  Total - SumOf(Quotas(w)) \in 0..Len(w)
<1> DEFINE rest == [i \in 1..Len(w) |-> Remainder(w, i)]
<1>1. PICK n \in Nat \ {0}, r \in Nat \ {0}, s \in Nat \ {0} :
        n = Len(w) /\ r = Total - Len(w) /\ s = SumOf(w)
  BY Weighing
<1>2. PICK q \in Seq(Nat) : q = Quotas(w)
  BY Proportions
<1>3. PICK W, Q : W = RunningSum(w) /\ Q = RunningSum(q)
  OBVIOUS
<1>4. \A i \in 1..n : /\ q[i] \in Nat \ {0} /\ rest[i] \in 0..s - 1 /\ w[i] \in Nat
                      /\ w[i] * r = s * (q[i] - 1) + rest[i]
  BY <1>1, <1>2, Proportions, Weighing
<1>5. Adds(W, w, n) /\ Adds(Q, q, n) /\ W[n] = s /\ Q[n] = SumOf(Quotas(w))
  <2>1. Len(q) = n
    BY <1>1, <1>2, Proportions
  <2> QED
    BY <1>1, <1>2, <1>3, <2>1, Weighing, Sums DEF SumOf
<1> HIDE DEF rest
<1> DEFINE S == {k \in Nat : k <= n =>
                   \E x \in Nat : W[k] * r = s * (Q[k] - k) + x /\ x <= s * k}
<1>6. 0 \in S
  <2>1. W[0] = 0 /\ Q[0] = 0
    BY <1>5 DEF Adds
  <2>2. 0 * r = s * (0 - 0) + 0 /\ 0 <= s * 0
    OBVIOUS
  <2> QED
    BY <2>1, <2>2
<1>7. ASSUME NEW k \in Nat, k \in S PROVE k + 1 \in S
  <2> SUFFICES ASSUME k + 1 <= n
               PROVE  \E x \in Nat : /\ W[k + 1] * r = s * (Q[k + 1] - (k + 1)) + x
                                     /\ x <= s * (k + 1)
    OBVIOUS
  <2>0. k + 1 \in 1..n /\ k \in 0..n /\ k + 1 - 1 = k /\ k <= n
    OBVIOUS
  <2>1. PICK x \in Nat : W[k] * r = s * (Q[k] - k) + x /\ x <= s * k
    BY <1>7, <2>0
  <2>2. PICK a \in Nat, b \in Nat, c \in Nat, d \in Nat \ {0}, y \in 0..s - 1 :
          /\ a = W[k] /\ b = Q[k] /\ c = w[k + 1] /\ d = q[k + 1]
          /\ y = rest[k + 1]
    BY <1>4, <1>5, <2>0 DEF Adds
  <2>3. W[k + 1] = a + c /\ Q[k + 1] = b + d
    <3>1. W[k + 1] = W[k + 1 - 1] + w[k + 1] /\ Q[k + 1] = Q[k + 1 - 1] + q[k + 1]
      BY <1>5, <2>0 DEF Adds
    <3> QED
      BY <2>0, <2>2, <3>1
  <2>4. c * r = s * (d - 1) + y
    BY <1>4, <2>0, <2>2
  <2>5. a * r = s * (b - k) + x
    BY <2>1, <2>2
  <2>6. (a + c) * r = a * r + c * r
    BY Distribute
  <2>7. s * (b - k + (d - 1)) = s * (b - k) + s * (d - 1)
    BY Distribute
  <2>8. b + d - (k + 1) = b - k + (d - 1)
    OBVIOUS
  <2>9. s * (k + 1) = s * k + s
    BY Distribute
  <2>10. /\ s * (b - k) \in Int /\ s * (d - 1) \in Int /\ s * k \in Int
         /\ y \in Nat /\ x + y \in Nat
    OBVIOUS
  <2>11. (a + c) * r = s * (b + d - (k + 1)) + (x + y)
    BY <2>4, <2>5, <2>6, <2>7, <2>8, <2>10
  <2>12. x + y <= s * (k + 1)
    BY <2>1, <2>9, <2>10
  <2> QED
    BY <2>3, <2>10, <2>11, <2>12
<1>8. n \in S
  <2> HIDE DEF S
  <2> QED
    BY <1>6, <1>7, CountUp
<1>9. PICK x \in Nat : W[n] * r = s * (Q[n] - n) + x /\ x <= s * n
  BY <1>8
<1>10. PICK t \in Nat, m \in Int : t = Q[n] /\ m = Total - t
  <2>1. n \in 0..n /\ Total \in Nat
    BY CoderAssumption
  <2>2. Q[n] \in Nat
    BY <1>5, <2>1 DEF Adds
  <2> QED
    BY <2>1, <2>2
<1>11. s * m = x
  <2>1. s * r = s * (t - n) + x
    <3>1. W[n] = s /\ Q[n] = t
      BY <1>5, <1>10
    <3> QED
      BY <1>9, <3>1
  <2>2. r = m + (t - n)
    <3>1. PICK all \in Nat : all = Total
      BY CoderAssumption
    <3>2. r = all - n /\ m = all - t
      BY <1>1, <1>10, <3>1
    <3> QED
      BY <3>2
  <2>3. s * (m + (t - n)) = s * m + s * (t - n)
    BY Distribute
  <2>4. s * m \in Int /\ s * (t - n) \in Int
    OBVIOUS
  <2> QED
    BY <2>1, <2>2, <2>3, <2>4
<1>12. ~ (m < 0)
  <2> SUFFICES ASSUME m < 0 PROVE FALSE
    OBVIOUS
  <2>1. s * m + s <= s * 0
    BY MoreSteps
  <2>2. s * 0 = 0 /\ s * m \in Int
    OBVIOUS
  <2> QED
    BY <1>11, <2>1, <2>2
<1>13. ~ (n < m)
  <2> SUFFICES ASSUME n < m PROVE FALSE
    OBVIOUS
  <2>1. s * n + s <= s * m
    BY MoreSteps
  <2>2. PICK y \in Int : y = s * n
    OBVIOUS
  <2>3. y + s <= x /\ x <= y
    BY <1>9, <1>11, <2>1, <2>2
  <2> QED
    BY <2>2, <2>3
<1> QED
  BY <1>1, <1>5, <1>10, <1>12, <1>13

LEMMA Counted ==
  ASSUME NEW n \in Nat
  PROVE  /\ IsFiniteSet(1..n) /\ Cardinality(1..n) = n
         /\ IsFiniteSet(0..n - 1) /\ Cardinality(0..n - 1) = n
<1>1. 1 \in Int /\ 0 \in Int /\ n \in Int /\ n - 1 \in Int
  OBVIOUS
<1>2. /\ IsFiniteSet(1..n) /\ Cardinality(1..n) = IF 1 > n THEN 0 ELSE n - 1 + 1
  BY <1>1, FS_Interval
<1>3. /\ IsFiniteSet(0..n - 1)
      /\ Cardinality(0..n - 1) = IF 0 > n - 1 THEN 0 ELSE n - 1 - 0 + 1
  BY <1>1, FS_Interval
<1>4. /\ n = IF 1 > n THEN 0 ELSE n - 1 + 1
      /\ n = IF 0 > n - 1 THEN 0 ELSE n - 1 - 0 + 1
  OBVIOUS
<1> QED
  BY <1>2, <1>3, <1>4

(* The remainders rank the candidates, and nobody shares a rank. *)
Place(w, i) == Cardinality(RemaindersAhead(w, i))

LEMMA AheadOfMe ==
  ASSUME NEW w, Weighed(w), NEW i \in 1..Len(w), NEW k \in 1..Len(w), i # k
  PROVE  /\ k \in RemaindersAhead(w, i) \/ i \in RemaindersAhead(w, k)
         /\ k \in RemaindersAhead(w, i) =>
              /\ i \notin RemaindersAhead(w, k)
              /\ RemaindersAhead(w, k) \cup {k} \subseteq RemaindersAhead(w, i)
         /\ i \notin RemaindersAhead(w, i)
         /\ RemaindersAhead(w, i) \subseteq 1..Len(w)
<1>1. DOMAIN w = 1..Len(w) /\ Len(w) \in Nat
  BY Weighing
<1>2. \A j \in 1..Len(w) : Remainder(w, j) \in Nat
  BY Proportions, Weighing
<1> QED
  BY <1>1, <1>2 DEF RemaindersAhead

LEMMA PlaceType ==
  ASSUME NEW w, Weighed(w), NEW i \in 1..Len(w)
  PROVE  /\ IsFiniteSet(RemaindersAhead(w, i))
         /\ Place(w, i) \in 0..Len(w) - 1
<1>1. PICK n \in Nat \ {0, 1} : n = Len(w) /\ DOMAIN w = 1..n
  BY Weighing
<1>2. IsFiniteSet(1..n) /\ Cardinality(1..n) = n
  BY <1>1, Counted
<1>3. RemaindersAhead(w, i) \in SUBSET ((1..n) \ {i})
  <2>1. i \notin RemaindersAhead(w, i)
    <3>1. Remainder(w, i) \in Nat /\ i \in Nat
      BY <1>1, Proportions, Weighing
    <3> QED
      BY <3>1 DEF RemaindersAhead
  <2> QED
    BY <1>1, <2>1 DEF RemaindersAhead
<1>4. IsFiniteSet((1..n) \ {i}) /\ Cardinality((1..n) \ {i}) = n - 1
  BY <1>1, <1>2, FS_RemoveElement
<1>5. /\ IsFiniteSet(RemaindersAhead(w, i)) /\ Place(w, i) \in Nat
      /\ Place(w, i) <= n - 1
  BY <1>3, <1>4, FS_Subset, FS_CardinalityType DEF Place
<1> QED
  BY <1>1, <1>5

LEMMA PlaceOrder ==
  ASSUME NEW w, Weighed(w), NEW i \in 1..Len(w), NEW k \in 1..Len(w),
         k \in RemaindersAhead(w, i)
  PROVE  Place(w, k) < Place(w, i)
<1>1. IsFiniteSet(RemaindersAhead(w, i)) /\ IsFiniteSet(RemaindersAhead(w, k))
      /\ Place(w, i) \in Nat /\ Place(w, k) \in Nat
  BY PlaceType, Weighing
<1>2. i # k
  <2>1. Remainder(w, i) \in Nat /\ i \in Nat
    BY Proportions, Weighing
  <2> QED
    BY <2>1 DEF RemaindersAhead
<1>3. RemaindersAhead(w, k) \cup {k} \subseteq RemaindersAhead(w, i)
      /\ k \notin RemaindersAhead(w, k)
  BY <1>2, AheadOfMe
<1>4. Cardinality(RemaindersAhead(w, k) \cup {k}) = Place(w, k) + 1
  BY <1>1, <1>3, FS_AddElement DEF Place
<1>5. Cardinality(RemaindersAhead(w, k) \cup {k}) <= Place(w, i)
  BY <1>1, <1>3, FS_Subset DEF Place
<1> QED
  BY <1>1, <1>4, <1>5

(* So as many candidates are among the first m as m says. *)
Lucky(w, m) == {i \in 1..Len(w) : Place(w, i) < m}

LEMMA Winners ==
  ASSUME NEW w, Weighed(w), NEW m \in 0..Len(w)
  PROVE  Cardinality(Lucky(w, m)) = m
<1>1. PICK n \in Nat \ {0, 1} : n = Len(w)
  BY Weighing
<1> DEFINE f == [i \in 1..n |-> Place(w, i)]
           g == [i \in Lucky(w, m) |-> Place(w, i)]
<1>2. /\ IsFiniteSet(1..n) /\ Cardinality(1..n) = n
      /\ IsFiniteSet(0..n - 1) /\ Cardinality(0..n - 1) = n
      /\ IsFiniteSet(0..m - 1) /\ Cardinality(0..m - 1) = m
  BY <1>1, Counted
<1>3. f \in Injection(1..n, 0..n - 1)
  <2>1. f \in [1..n -> 0..n - 1]
    BY <1>1, PlaceType
  <2>2. ASSUME NEW i \in 1..n, NEW k \in 1..n, f[i] = f[k] PROVE i = k
    <3>1. Place(w, i) = Place(w, k) /\ Place(w, i) \in Nat
      BY <1>1, <2>2, PlaceType
    <3>2. ~ (Place(w, i) < Place(w, k)) /\ ~ (Place(w, k) < Place(w, i))
      BY <3>1
    <3> QED
      BY <1>1, <3>2, AheadOfMe, PlaceOrder
  <2> QED
    BY <2>1, <2>2 DEF Injection, IsInjective
<1>4. f \in Surjection(1..n, 0..n - 1)
  BY <1>2, <1>3, FS_Injection
<1>5. g \in Bijection(Lucky(w, m), 0..m - 1)
  <2>1. \A i \in Lucky(w, m) : i \in 1..n /\ Place(w, i) \in 0..m - 1
    <3> SUFFICES ASSUME NEW i \in Lucky(w, m)
                 PROVE  i \in 1..n /\ Place(w, i) \in 0..m - 1
      OBVIOUS
    <3>1. i \in 1..n /\ Place(w, i) < m /\ Place(w, i) \in Nat
      BY <1>1, PlaceType DEF Lucky
    <3> QED
      BY <1>1, <3>1
  <2>2. g \in [Lucky(w, m) -> 0..m - 1]
    BY <2>1
  <2>3. \A i, k \in Lucky(w, m) : g[i] = g[k] => i = k
    BY <2>1, <1>3 DEF Injection, IsInjective
  <2>4. \A p \in 0..m - 1 : \E i \in Lucky(w, m) : g[i] = p
    <3> SUFFICES ASSUME NEW p \in 0..m - 1 PROVE \E i \in Lucky(w, m) : g[i] = p
      OBVIOUS
    <3>1. p \in 0..n - 1 /\ p < m
      BY <1>1
    <3>2. PICK i \in 1..n : f[i] = p
      BY <1>4, <3>1 DEF Surjection
    <3>3. i \in Lucky(w, m)
      BY <1>1, <3>1, <3>2 DEF Lucky
    <3> QED
      BY <3>2, <3>3
  <2> QED
    BY <2>2, <2>3, <2>4 DEF Bijection, Injection, Surjection, IsInjective
<1>6. IsFiniteSet(Lucky(w, m))
  <2>1. Lucky(w, m) \in SUBSET (1..n)
    BY <1>1 DEF Lucky
  <2> QED
    BY <1>2, <2>1, FS_Subset
<1>7. ExistsBijection(Lucky(w, m), 0..m - 1)
  BY <1>5 DEF ExistsBijection
<1> QED
  BY <1>2, <1>6, <1>7, FS_Bijection

(* The counts: what is missing goes to the largest remainders, and nothing *)
(* is missing after that.                                                  *)
LEMMA CountsAre ==
  ASSUME NEW w, Weighed(w)
  PROVE  /\ FrequencyCounts(w) \in Seq(Nat) /\ Len(FrequencyCounts(w)) = Len(w)
         /\ \A i \in 1..Len(w) :
              /\ FrequencyCounts(w)[i] \in Nat \ {0}
              /\ FrequencyCounts(w)[i] = Quotas(w)[i] +
                   (IF i \in Lucky(w, Total - SumOf(Quotas(w))) THEN 1 ELSE 0)
<1>1. PICK n \in Nat, q \in Seq(Nat) :
        n = Len(w) /\ DOMAIN w = 1..n /\ q = Quotas(w)
  BY Weighing, Proportions
<1>2. PICK m : m = Total - SumOf(q)
  OBVIOUS
<1>3. FrequencyCounts(w) = [i \in 1..n |-> q[i] + (IF Place(w, i) < m THEN 1 ELSE 0)]
  BY <1>1, <1>2 DEF FrequencyCounts, Place
<1>4. ASSUME NEW i \in 1..n
      PROVE  /\ FrequencyCounts(w)[i] \in Nat \ {0}
             /\ FrequencyCounts(w)[i] = q[i] + (IF i \in Lucky(w, m) THEN 1 ELSE 0)
  <2>1. q[i] \in Nat \ {0}
    BY <1>1, Proportions
  <2>2. FrequencyCounts(w)[i] = q[i] + (IF i \in Lucky(w, m) THEN 1 ELSE 0)
    BY <1>1, <1>3 DEF Lucky
  <2> QED
    BY <2>1, <2>2
<1>5. FrequencyCounts(w) \in [1..n -> Nat]
  BY <1>3, <1>4
<1> QED
  BY <1>1, <1>2, <1>4, <1>5, AsSequence

LEMMA CountsSum ==
  ASSUME NEW w, Weighed(w)
  PROVE  SumOf(FrequencyCounts(w)) = Total
<1>1. PICK n \in Nat, q \in Seq(Nat), c \in Seq(Nat) :
        n = Len(w) /\ q = Quotas(w) /\ c = FrequencyCounts(w)
  BY Weighing, Proportions, CountsAre
<1>2. PICK m \in 0..n : m = Total - SumOf(q)
  BY <1>1, Missing
<1>3. PICK L \in SUBSET (1..n) : L = Lucky(w, m)
  BY <1>1 DEF Lucky
<1>4. Cardinality(L) = m
  BY <1>1, <1>3, Winners
<1>5. PICK Q, C : Q = RunningSum(q) /\ C = RunningSum(c)
  OBVIOUS
<1>6. /\ Adds(Q, q, n) /\ Adds(C, c, n) /\ SumOf(q) = Q[n] /\ SumOf(c) = C[n]
      /\ \A i \in 1..n : q[i] \in Nat /\ c[i] = q[i] + (IF i \in L THEN 1 ELSE 0)
  <2>1. Len(q) = n /\ Len(c) = n
    BY <1>1, Proportions, CountsAre
  <2>2. Adds(Q, q, n) /\ Adds(C, c, n) /\ SumOf(q) = Q[n] /\ SumOf(c) = C[n]
    BY <1>5, <2>1, Sums DEF SumOf
  <2>3. \A i \in 1..n : q[i] \in Nat /\ c[i] = q[i] + (IF i \in L THEN 1 ELSE 0)
    BY <1>1, <1>2, <1>3, Proportions, CountsAre
  <2> QED
    BY <2>2, <2>3
<1>7. \A k \in 0..n : /\ IsFiniteSet(L \cap (1..k))
                      /\ Cardinality(L \cap (1..k)) \in Nat
  <2>1. \A k \in 0..n : (L \cap (1..k)) \in SUBSET (1..n)
    OBVIOUS
  <2>2. IsFiniteSet(1..n)
    BY Counted
  <2> QED
    BY <2>1, <2>2, FS_Subset, FS_CardinalityType
<1> DEFINE S == {k \in Nat : k <= n => C[k] = Q[k] + Cardinality(L \cap (1..k))}
<1>8. 0 \in S
  <2>1. L \cap (1..0) = {}
    OBVIOUS
  <2>2. Cardinality({}) = 0
    BY FS_EmptySet
  <2> QED
    BY <1>6, <2>1, <2>2 DEF Adds
<1>9. ASSUME NEW k \in Nat, k \in S PROVE k + 1 \in S
  <2> SUFFICES ASSUME k + 1 <= n
               PROVE  C[k + 1] = Q[k + 1] + Cardinality(L \cap (1..k + 1))
    OBVIOUS
  <2>1. k \in 0..n /\ k + 1 \in 1..n /\ k + 1 \in 0..n /\ k + 1 - 1 = k
    OBVIOUS
  <2>2. PICK a \in Nat, b \in Nat, x \in Nat :
          a = Q[k] /\ b = Cardinality(L \cap (1..k)) /\ x = q[k + 1]
    BY <1>6, <1>7, <2>1 DEF Adds
  <2>3. C[k] = a + b
    BY <1>9, <2>1, <2>2
  <2>4. C[k + 1] = C[k + 1 - 1] + c[k + 1] /\ Q[k + 1] = Q[k + 1 - 1] + q[k + 1]
    <3>1. \A i \in 1..n : C[i] = C[i - 1] + c[i] /\ Q[i] = Q[i - 1] + q[i]
      BY <1>6 DEF Adds
    <3> QED
      BY <2>1, <3>1
  <2>5. c[k + 1] = x + (IF k + 1 \in L THEN 1 ELSE 0)
    BY <1>6, <2>1, <2>2
  <2>6. C[k + 1] = a + b + c[k + 1] /\ Q[k + 1] = a + x
    BY <2>1, <2>2, <2>3, <2>4
  <2>7. CASE k + 1 \in L
    <3>1. L \cap (1..k + 1) = (L \cap (1..k)) \cup {k + 1}
      BY <2>1, <2>7
    <3>2. k + 1 \notin L \cap (1..k)
      OBVIOUS
    <3>3. Cardinality(L \cap (1..k + 1)) = b + 1
      BY <1>7, <2>1, <2>2, <3>1, <3>2, FS_AddElement
    <3>4. c[k + 1] = x + 1
      BY <2>5, <2>7
    <3>5. C[k + 1] = (a + x) + (b + 1)
      <4>1. C[k + 1] = a + b + (x + 1)
        BY <2>6, <3>4
      <4>2. a + b + (x + 1) = (a + x) + (b + 1)
        OBVIOUS
      <4> QED
        BY <4>1, <4>2
    <3> QED
      BY <2>6, <3>3, <3>5
  <2>8. CASE k + 1 \notin L
    <3>1. L \cap (1..k + 1) = L \cap (1..k)
      BY <2>1, <2>8
    <3>2. c[k + 1] = x
      BY <2>5, <2>8
    <3>3. Cardinality(L \cap (1..k + 1)) = b
      BY <2>2, <3>1
    <3>4. C[k + 1] = (a + x) + b
      BY <2>2, <2>6, <3>2
    <3> QED
      BY <2>6, <3>3, <3>4
  <2> QED
    BY <2>7, <2>8
<1>10. n \in S
  <2> HIDE DEF S
  <2> QED
    BY <1>8, <1>9, CountUp
<1>11. L \cap (1..n) = L
  OBVIOUS
<1>12. C[n] = Q[n] + m
  <2>1. C[n] = Q[n] + Cardinality(L \cap (1..n))
    BY <1>10
  <2>2. Cardinality(L \cap (1..n)) = m
    BY <1>4, <1>11
  <2> HIDE DEF S
  <2> QED
    BY <2>1, <2>2
<1>13. Q[n] \in Nat
  <2>1. n \in 0..n
    OBVIOUS
  <2> QED
    BY <1>6, <2>1 DEF Adds
<1>14. PICK t \in Nat : t = Total
  BY CoderAssumption
<1>15. m = t - Q[n]
  BY <1>2, <1>6, <1>14
<1> QED
  BY <1>1, <1>6, <1>12, <1>13, <1>14, <1>15

(* They make a table. *)
LEMMA CountsTable ==
  ASSUME NEW w, Weighed(w)
  PROVE  LET c == CumulativeCounts(FrequencyCounts(w)) IN
         /\ IsTable(c)
         /\ \A i \in 1..Len(w) : c[i + 1] - c[i] = FrequencyCounts(w)[i]
<1>1. PICK n \in Nat \ {0, 1}, f \in Seq(Nat) :
        n = Len(w) /\ f = FrequencyCounts(w) /\ Len(f) = n
  BY Weighing, CountsAre
<1>2. PICK R : R = RunningSum(f)
  OBVIOUS
<1>3. /\ Adds(R, f, n) /\ R[n] = Total
      /\ \A i \in 1..n : f[i] \in Nat \ {0}
  BY <1>1, <1>2, Sums, CountsSum, CountsAre DEF SumOf
<1>4. PICK c : c = CumulativeCounts(f)
  OBVIOUS
<1>5. c = [i \in 1..n + 1 |-> R[i - 1]]
  BY <1>1, <1>2, <1>4 DEF CumulativeCounts
<1>6. PICK t \in Nat : t = Total
  BY CoderAssumption
<1>7. \A i \in 1..n : R[i] \in Nat /\ R[i - 1] \in Nat /\ R[i] = R[i - 1] + f[i]
  BY <1>3 DEF Adds
<1> DEFINE S == {j \in Nat : j <= n => R[n - j] <= t}
<1>8. 0 \in S
  BY <1>3, <1>6
<1>9. ASSUME NEW j \in Nat, j \in S PROVE j + 1 \in S
  <2> SUFFICES ASSUME j + 1 <= n PROVE R[n - (j + 1)] <= t
    OBVIOUS
  <2>1. n - j \in 1..n /\ n - j - 1 = n - (j + 1)
    OBVIOUS
  <2>2. R[n - j] <= t
    BY <1>9
  <2>3. /\ R[n - j] \in Nat /\ R[n - (j + 1)] \in Nat
        /\ R[n - j] = R[n - (j + 1)] + f[n - j] /\ f[n - j] \in Nat
    BY <1>3, <1>7, <2>1
  <2> QED
    BY <2>2, <2>3
<1>10. \A k \in 0..n : R[k] \in 0..t
  <2> SUFFICES ASSUME NEW k \in 0..n PROVE R[k] \in 0..t
    OBVIOUS
  <2>1. n - k \in S
    <3> HIDE DEF S
    <3>1. n - k \in Nat
      OBVIOUS
    <3> QED
      BY <1>8, <1>9, <3>1, CountUp
  <2>2. n - (n - k) = k /\ n - k <= n
    OBVIOUS
  <2>3. R[k] <= t
    BY <2>1, <2>2
  <2>4. R[k] \in Nat
    BY <1>3 DEF Adds
  <2> QED
    BY <2>3, <2>4
<1> HIDE DEF S
<1>11. \A i \in 1..n + 1 : c[i] \in 0..t
  <2>1. \A i \in 1..n + 1 : i - 1 \in 0..n
    OBVIOUS
  <2> QED
    BY <1>5, <1>10, <2>1
<1>12. c \in Seq(0..t) /\ Len(c) = n + 1
  <2>1. c \in [1..n + 1 -> 0..t] /\ n + 1 \in Nat
    BY <1>5, <1>11
  <2> QED
    BY <2>1, AsSequence
<1>13. c[1] = 0 /\ c[n + 1] = t
  <2>1. 1 \in 1..n + 1 /\ 1 - 1 = 0 /\ n + 1 \in 1..n + 1 /\ n + 1 - 1 = n
    OBVIOUS
  <2>2. R[0] = 0
    BY <1>3 DEF Adds
  <2> QED
    BY <1>3, <1>5, <1>6, <2>1, <2>2
<1>14. ASSUME NEW i \in 1..n
       PROVE  c[i] < c[i + 1] /\ c[i + 1] - c[i] = f[i]
  <2>1. i \in 1..n + 1 /\ i + 1 \in 1..n + 1 /\ i + 1 - 1 = i
    OBVIOUS
  <2>2. c[i] = R[i - 1] /\ c[i + 1] = R[i]
    BY <1>5, <2>1
  <2>3. f[i] \in Nat \ {0}
    BY <1>3
  <2> QED
    BY <1>7, <2>2, <2>3
<1>15. n + 1 - 1 = n /\ n + 1 >= 3
  OBVIOUS
<1>16. IsTable(c)
  BY <1>6, <1>12, <1>13, <1>14, <1>15 DEF IsTable
<1> QED
  BY <1>1, <1>4, <1>14, <1>16

(* How far a count is from the proportion of its weight. *)
LEMMA FarOff ==
  ASSUME NEW w, Weighed(w), NEW i \in 1..Len(w)
  PROVE  (FrequencyCounts(w)[i] - 1) * SumOf(w) - w[i] * (Total - Len(w)) =
           IF i \in Lucky(w, Total - SumOf(Quotas(w)))
           THEN SumOf(w) - Remainder(w, i) ELSE 0 - Remainder(w, i)
<1>1. PICK s \in Nat, q \in Nat, r \in Nat, c \in Nat :
        /\ s = SumOf(w) /\ q = Quotas(w)[i] /\ r = Remainder(w, i)
        /\ c = FrequencyCounts(w)[i]
  <2>1. PICK s \in Nat : s = SumOf(w)
    BY Weighing
  <2>2. Quotas(w)[i] \in Nat /\ Remainder(w, i) \in Nat
    BY <2>1, Proportions
  <2>3. FrequencyCounts(w)[i] \in Nat
    BY CountsAre
  <2> QED
    BY <2>1, <2>2, <2>3
<1>2. w[i] * (Total - Len(w)) = s * (q - 1) + r
  BY <1>1, Proportions
<1> DEFINE lucky == i \in Lucky(w, Total - SumOf(Quotas(w)))
<1>3. c = q + (IF lucky THEN 1 ELSE 0)
  BY <1>1, CountsAre
<1> HIDE DEF lucky
<1>4. CASE lucky
  <2>1. c - 1 = (q - 1) + 1
    BY <1>3, <1>4
  <2>2. s * ((q - 1) + 1) = s * (q - 1) + s * 1
        /\ s * (c - 1) = (c - 1) * s
    BY Distribute
  <2>3. s * (q - 1) \in Int /\ s * 1 = s
    OBVIOUS
  <2>4. (c - 1) * s = s * (q - 1) + s
    BY <2>1, <2>2, <2>3
  <2> QED
    BY <1>1, <1>2, <1>4, <2>3, <2>4 DEF lucky
<1>5. CASE ~lucky
  <2>1. c = q
    BY <1>3, <1>5
  <2>2. (c - 1) * s = s * (q - 1) /\ s * (q - 1) \in Int
    BY <2>1, Distribute
  <2> QED
    BY <1>1, <1>2, <1>5, <2>2 DEF lucky
<1> QED
  BY <1>4, <1>5

LEMMA LuckyFirst ==
  ASSUME NEW w, Weighed(w), NEW m \in Nat,
         NEW i \in Lucky(w, m), NEW k \in (1..Len(w)) \ Lucky(w, m)
  PROVE  Remainder(w, i) >= Remainder(w, k)
<1>1. i \in 1..Len(w) /\ k \in 1..Len(w) /\ Place(w, i) < m /\ ~ (Place(w, k) < m)
  BY DEF Lucky
<1>2. Place(w, i) \in Nat /\ Place(w, k) \in Nat
  BY <1>1, PlaceType, Weighing
<1>3. k \notin RemaindersAhead(w, i)
  BY <1>1, <1>2, PlaceOrder
<1>4. DOMAIN w = 1..Len(w) /\ Remainder(w, i) \in Nat /\ Remainder(w, k) \in Nat
  BY <1>1, Weighing, Proportions
<1> QED
  BY <1>1, <1>3, <1>4 DEF RemaindersAhead

(* A better candidate has the greater quota, or the same one and a place   *)
(* before the other's.                                                     *)
LEMMA BetterFirst ==
  ASSUME NEW w, Weighed(w), NEW i \in 1..Len(w), NEW k \in 1..Len(w),
         w[i] > w[k] \/ (w[i] = w[k] /\ i < k)
  PROVE  \/ Quotas(w)[i] > Quotas(w)[k]
         \/ Quotas(w)[i] = Quotas(w)[k] /\ i \in RemaindersAhead(w, k)
<1>1. PICK s \in Nat \ {0}, r \in Nat \ {0}, u \in Nat, v \in Nat :
        s = SumOf(w) /\ r = Total - Len(w) /\ u = w[i] /\ v = w[k]
  BY Weighing
<1>2. PICK p \in Nat, q \in Nat, x \in 0..s - 1, y \in 0..s - 1 :
        /\ p = Quotas(w)[i] /\ q = Quotas(w)[k]
        /\ x = Remainder(w, i) /\ y = Remainder(w, k)
  BY <1>1, Proportions
<1>3. u * r = s * (p - 1) + x /\ v * r = s * (q - 1) + y
  BY <1>1, <1>2, Proportions
<1>4. /\ s * (p - 1) \in Int /\ s * (q - 1) \in Int
      /\ p - 1 \in Int /\ q - 1 \in Int
  BY Distribute
<1>5. /\ u > v => u * r > v * r
      /\ u = v => u * r = v * r
  <2>1. ASSUME u > v PROVE u * r > v * r
    <3>1. r * v + r <= r * u
      BY <2>1, MoreSteps
    <3>2. r * v = v * r /\ r * u = u * r /\ v * r \in Int /\ u * r \in Int
      BY Distribute
    <3> QED
      BY <3>1, <3>2
  <2> QED
    BY <2>1
<1>6. PICK a \in Int, b \in Int, g \in Int, h \in Int :
        /\ a = s * (p - 1) /\ b = s * (q - 1) /\ g = u * r /\ h = v * r
  <2>1. u * r \in Int /\ v * r \in Int
    BY Distribute
  <2> QED
    BY <1>4, <2>1
<1>7. /\ g = a + x /\ h = b + y
      /\ u > v => g > h
      /\ u = v => g = h
      /\ u > v \/ (u = v /\ i < k)
  BY <1>1, <1>3, <1>5, <1>6
<1>8. ~ (p < q)
  <2> SUFFICES ASSUME p < q PROVE FALSE
    OBVIOUS
  <2>1. a + s <= b
    <3>1. s * (p - 1) + s <= s * (q - 1)
      BY <1>4, MoreSteps
    <3> QED
      BY <1>6, <3>1
  <2> QED
    BY <1>7, <2>1
<1>9. ASSUME p = q PROVE i \in RemaindersAhead(w, k)
  <2>1. a = b
    BY <1>6, <1>9
  <2>2. x > y \/ (x = y /\ i < k)
    BY <1>7, <2>1
  <2>3. DOMAIN w = 1..Len(w)
    BY Weighing
  <2> QED
    BY <1>2, <2>2, <2>3 DEF RemaindersAhead
<1> QED
  BY <1>2, <1>8, <1>9

LEMMA BetterGetsMore ==
  ASSUME NEW w, Weighed(w), NEW i \in 1..Len(w), NEW k \in 1..Len(w),
         w[i] > w[k] \/ (w[i] = w[k] /\ i < k)
  PROVE  FrequencyCounts(w)[i] >= FrequencyCounts(w)[k]
<1>1. PICK m \in Nat : m = Total - SumOf(Quotas(w))
  BY Missing, Weighing
<1>2. PICK p \in Nat, q \in Nat : p = Quotas(w)[i] /\ q = Quotas(w)[k]
  BY Proportions
<1>3. /\ FrequencyCounts(w)[i] = p + (IF i \in Lucky(w, m) THEN 1 ELSE 0)
      /\ FrequencyCounts(w)[k] = q + (IF k \in Lucky(w, m) THEN 1 ELSE 0)
  BY <1>1, <1>2, CountsAre
<1>4. CASE p > q
  BY <1>3, <1>4
<1>5. CASE p = q /\ i \in RemaindersAhead(w, k)
  <2>1. Place(w, i) < Place(w, k) /\ Place(w, i) \in Nat /\ Place(w, k) \in Nat
    BY <1>5, PlaceOrder, PlaceType, Weighing
  <2>2. k \in Lucky(w, m) => i \in Lucky(w, m)
    BY <2>1 DEF Lucky
  <2> QED
    BY <1>3, <1>5, <2>2
<1> QED
  BY <1>2, <1>4, <1>5, BetterFirst

(* What SharesFair says, of every table of accepted weights. *)
LEMMA TablesFair ==
  ASSUME NEW w, Weighed(w)
  PROVE  LET c == CumulativeCounts(FrequencyCounts(w))
             Count(i) == c[i + 1] - c[i]
             Off(i)   == (Count(i) - 1) * SumOf(w) - w[i] * (Total - Len(w))
         IN  /\ IsTable(c)
             /\ \A i, k \in DOMAIN w :
                  /\ Off(i) - Off(k) <= SumOf(w)
                  /\ w[i] > w[k] \/ (w[i] = w[k] /\ i < k) => Count(i) >= Count(k)
<1> DEFINE c == CumulativeCounts(FrequencyCounts(w))
           Count(i) == c[i + 1] - c[i]
           Off(i)   == (Count(i) - 1) * SumOf(w) - w[i] * (Total - Len(w))
<1>1. IsTable(c) /\ \A i \in 1..Len(w) : Count(i) = FrequencyCounts(w)[i]
  BY CountsTable
<1>2. DOMAIN w = 1..Len(w)
  BY Weighing
<1>3. ASSUME NEW i \in 1..Len(w), NEW k \in 1..Len(w)
      PROVE  Off(i) - Off(k) <= SumOf(w)
  <2>1. PICK m \in Nat, s \in Nat \ {0} :
          m = Total - SumOf(Quotas(w)) /\ s = SumOf(w)
    BY Missing, Weighing
  <2>2. PICK x \in 0..s - 1, y \in 0..s - 1 :
          x = Remainder(w, i) /\ y = Remainder(w, k)
    BY <2>1, Proportions
  <2>3. /\ Off(i) = IF i \in Lucky(w, m) THEN s - x ELSE 0 - x
        /\ Off(k) = IF k \in Lucky(w, m) THEN s - y ELSE 0 - y
    <3>1. Count(i) = FrequencyCounts(w)[i] /\ Count(k) = FrequencyCounts(w)[k]
      BY <1>1
    <3> HIDE DEF Count
    <3> QED
      BY <2>1, <2>2, <3>1, FarOff
  <2>4. i \in Lucky(w, m) /\ k \notin Lucky(w, m) => x >= y
    BY <2>2, LuckyFirst
  <2> HIDE DEF Off
  <2>5. CASE i \in Lucky(w, m) /\ k \in Lucky(w, m)
    BY <2>1, <2>3, <2>5
  <2>6. CASE i \in Lucky(w, m) /\ k \notin Lucky(w, m)
    BY <2>1, <2>3, <2>4, <2>6
  <2>7. CASE i \notin Lucky(w, m) /\ k \in Lucky(w, m)
    BY <2>1, <2>3, <2>7
  <2>8. CASE i \notin Lucky(w, m) /\ k \notin Lucky(w, m)
    BY <2>1, <2>3, <2>8
  <2> QED
    BY <2>5, <2>6, <2>7, <2>8
<1>4. ASSUME NEW i \in 1..Len(w), NEW k \in 1..Len(w),
             w[i] > w[k] \/ (w[i] = w[k] /\ i < k)
      PROVE  Count(i) >= Count(k)
  BY <1>1, <1>4, BetterGetsMore
<1> QED
  BY <1>1, <1>2, <1>3, <1>4

(* A table that was answered is the one of its weights, and what may still *)
(* enter a table is in the vocabulary.                                     *)
AnswerInv ==
  /\ Range(ranked) \subseteq Vocabulary
  /\ answer.cumulative # <<>> =>
       /\ Weighed(answer.weights)
       /\ answer.cumulative = CumulativeCounts(FrequencyCounts(answer.weights))

LEMMA InitAnswer == Init => AnswerInv
<1> SUFFICES ASSUME Init
             PROVE  AnswerInv
  OBVIOUS
<1>1. ranked = <<>> /\ answer.cumulative = <<>>
  BY DEF Init, NoAnswer
<1>2. Range(<<>>) = {}
  BY DEF Range
<1> QED
  BY <1>1, <1>2 DEF AnswerInv

(* The best candidate comes first, so each weight is one that              *)
(* deterministic_weights gives at some distance.                           *)
LEMMA WeightsAccepted ==
  ASSUME Asked, NEW safe \in SUBSET Vocabulary,
         ~ (Cardinality(safe) < call.config.top_k),
         NEW temperature \in Temperatures
  PROVE  Weighed(Weights(Ranking(safe, call.config.top_k), temperature))
<1>1. PICK n \in 2..Total - 1 : n = call.config.top_k
  BY CandidatesAssumption DEF Asked
<1>2. n \in Nat /\ 1 \in 1..n /\ n <= Cardinality(safe) /\ n >= 2 /\ n < Total
  BY <1>1, FinitePart, CoderAssumption
<1>3. PICK c : c = Ranking(safe, n)
  OBVIOUS
<1>4. DOMAIN c = 1..n
  BY <1>3 DEF Ranking
<1>5. \A i \in 1..n : c[i] \in safe /\ Cardinality(Ahead(safe, c[i])) = i - 1
  BY <1>2, <1>3, RankedAt
<1>6. Ahead(safe, c[1]) = {}
  <2>1. IsFiniteSet(Ahead(safe, c[1]))
    BY FinitePart DEF Ahead
  <2>2. Cardinality(Ahead(safe, c[1])) = 0
    BY <1>2, <1>5
  <2> QED
    BY <2>1, <2>2, FS_EmptySet
<1>7. ASSUME NEW i \in 1..n
      PROVE  temperature[Score(c[1]) - Score(c[i])] \in Nat \ {0}
  <2>1. c[1] \in Vocabulary /\ c[i] \in Vocabulary /\ c[i] \in safe
    BY <1>2, <1>5
  <2>2. Score(c[1]) \in Int /\ Score(c[i]) \in Int
    BY <2>1, Scored
  <2>3. ~ (Score(c[i]) > Score(c[1]))
    BY <1>6, <2>1 DEF Ahead, Before
  <2>4. logits[c[1]] \in Logits /\ logits[c[i]] \in Logits
    BY <2>1 DEF Asked
  <2>5. PICK d \in Nat : d = Score(c[1]) - Score(c[i])
    BY <2>2, <2>3
  <2>6. d = Quantized(logits[c[1]]) - Quantized(logits[c[i]]) /\ d >= 0
    BY <2>5 DEF Score
  <2> QED
    BY <2>4, <2>5, <2>6, TemperaturesAssumption
<1>8. PICK w : w = Weights(c, temperature)
  OBVIOUS
<1>9. w \in [1..n -> Nat \ {0}]
  BY <1>4, <1>7, <1>8 DEF Weights
<1>10. w \in Seq(Nat \ {0}) /\ Len(w) = n
  BY <1>2, <1>9, AsSequence
<1> QED
  BY <1>1, <1>2, <1>3, <1>8, <1>10 DEF Weighed

LEMMA NextAnswer ==
  ASSUME Inv, AnswerInv, [Next]_vars
  PROVE  AnswerInv'
<1>1. Asked
  BY DEF Inv
<1>2. CASE UNCHANGED <<ranked, answer>>
  BY <1>2 DEF AnswerInv
<1>3. CASE Rank /\ ~ UNCHANGED <<ranked, answer>>
  <2>1. /\ ~ (Cardinality(Eligible) < Limit)
        /\ ranked' = Ranking(Eligible, Limit) /\ answer' = answer
        /\ fetched \in Partitions(fetch)
    BY <1>3 DEF Rank, Refuse, Inv
  <2>2. Eligible \in SUBSET Vocabulary
    BY <2>1 DEF Partitions, kSubset, Eligible
  <2>3. Limit \in Nat /\ Limit <= Cardinality(Eligible)
    BY <1>1, <2>1, <2>2, FinitePart, LimitPositive
  <2>4. \A i \in 1..Limit : Ranking(Eligible, Limit)[i] \in Vocabulary
    BY <1>1, <2>2, <2>3, RankedAt
  <2>5. DOMAIN Ranking(Eligible, Limit) = 1..Limit
    BY DEF Ranking
  <2>6. Range(Ranking(Eligible, Limit)) \subseteq Vocabulary
    BY <2>4, <2>5 DEF Range
  <2> QED
    BY <2>1, <2>6 DEF AnswerInv
<1>4. CASE \E safe \in SUBSET Range(ranked) :
             Greedy(safe) /\ ~ UNCHANGED <<ranked, answer>>
  <2>1. ranked' = ranked /\ answer'.cumulative = <<>>
    BY <1>4 DEF Greedy, Refuse, NoAnswer
  <2> QED
    BY <2>1 DEF AnswerInv
<1>5. CASE \E safe \in SUBSET Range(ranked) : \E w \in Temperatures :
             Build(safe, w) /\ ~ UNCHANGED <<ranked, answer>>
  <2>1. PICK safe \in SUBSET Range(ranked), w \in Temperatures :
          Build(safe, w) /\ ~ UNCHANGED <<ranked, answer>>
    BY <1>5
  <2>2. PICK v : v = Weights(Ranking(safe, call.config.top_k), w)
    OBVIOUS
  <2>3. /\ ~ (Cardinality(safe) < call.config.top_k) /\ ranked' = ranked
        /\ answer'.weights = v
        /\ answer'.cumulative = CumulativeCounts(FrequencyCounts(v))
    BY <2>1, <2>2 DEF Build, Refuse
  <2>4. safe \in SUBSET Vocabulary
    BY DEF AnswerInv
  <2>5. Weighed(v)
    BY <1>1, <2>2, <2>3, <2>4, WeightsAccepted
  <2> QED
    BY <2>3, <2>5 DEF AnswerInv
<1>6. CASE Next /\ ~ UNCHANGED <<ranked, answer>>
  <2>1. \A finite \in BOOLEAN : ~ Ask(finite)
    BY <1>6 DEF Ask, Refuse
  <2>2. ~ Fetch
    BY <1>6 DEF Fetch
  <2> QED
    BY <1>3, <1>4, <1>5, <1>6, <2>1, <2>2 DEF Next
<1> QED
  BY <1>2, <1>6 DEF vars

(* The frequencies of every table make one the coders accept, and they are *)
(* fair: no count could move nearer to the proportion of the weights, and  *)
(* nobody gets less than a candidate behind (frequencies.py).              *)
THEOREM FairShares == Spec => []SharesFair
<1>1. Init => AnswerInv
  BY InitAnswer
<1>2. Inv /\ AnswerInv /\ [Next]_vars => AnswerInv'
  BY NextAnswer
<1>3. AnswerInv => SharesFair
  <2> SUFFICES ASSUME AnswerInv, answer.cumulative # <<>> PROVE SharesFair
    BY DEF SharesFair
  <2>1. PICK w : w = answer.weights
    OBVIOUS
  <2>2. Weighed(w) /\ answer.cumulative = CumulativeCounts(FrequencyCounts(w))
    BY <2>1 DEF AnswerInv
  <2> QED
    BY <2>1, <2>2, TablesFair DEF SharesFair
<1> QED
  BY <1>1, <1>2, <1>3, AlwaysInv, PTL DEF Spec
=============================================================================
