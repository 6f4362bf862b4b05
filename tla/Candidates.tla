------------------------------ MODULE Candidates ------------------------------
(***************************************************************************)
(* One question to the language model: from the raw logits of a context to *)
(* the candidate table both ends of a carrier must agree on, or to the     *)
(* next greedy token of the finish (models/mlx_adapter.py, _ranked_logits; *)
(* codec/candidates.py; codec/frequencies.py).  The accelerator hands over *)
(* a growing superset of the best raw logits; quantisation, the order of   *)
(* ties and the frequencies are computed exactly.                          *)
(***************************************************************************)
EXTENDS ArithmeticCoder, SequencesExt

CONSTANTS
  Vocabulary,   \* token IDs
  Logits,       \* the float32 values of a logit, in some unit
  Unit,         \* that many units are one quantised step, 1 / LOGIT_SCALE
  Specials,     \* special_token_ids
  Eos,          \* eos_token_ids
  Configs,      \* [top_k, candidate_pool_multiplier]
  Margin,       \* 256 in the first fetch
  Temperatures  \* deterministic_weights: the weight at each distance from
                \* the best score

ASSUME CandidatesAssumption ==
  /\ Vocabulary \subseteq Int /\ IsFiniteSet(Vocabulary)
  /\ Logits \subseteq Int
  /\ Unit \in Nat \ {0}
  /\ Eos \subseteq Specials /\ Specials \subseteq Vocabulary
  /\ Configs \subseteq [top_k : 2..Total - 1, multiplier : Nat \ {0}]
  /\ Margin \in Nat

VARIABLES
  pc,        \* where the call is
  call,      \* the caller's configuration, and whether it is the finish
  logits,    \* logits of the context
  fetch,     \* fetch
  fetched,   \* token_ids: what the accelerator handed over
  ranked,    \* the ranking _ranked_logits returns
  answer     \* the table, with its candidates and their weights

vars == <<pc, call, logits, fetch, fetched, ranked, answer>>

-----------------------------------------------------------------------------
(* quantize_logit: to the nearest step, ties to the even one. *)
Quantized(v) ==
  LET q == v \div Unit
      r == v % Unit
  IN  IF 2 * r > Unit \/ (2 * r = Unit /\ q % 2 = 1) THEN q + 1 ELSE q

(* deterministic_weights gives a positive weight at every distance.        *)
ASSUME TemperaturesAssumption ==
  \A w \in Temperatures : \A u, v \in Logits :
    LET distance == Quantized(u) - Quantized(v)
    IN  distance >= 0 => distance \in DOMAIN w /\ w[distance] \in Nat \ {0}

Score(t) == Quantized(logits[t])

(* The normative order: quantised score, then token ID. *)
Before(t, u) == \/ Score(t) > Score(u)
                \/ Score(t) = Score(u) /\ t < u
Ahead(S, t)  == {u \in S : Before(u, t)}
Ranking(S, n) ==
  [i \in 1..n |-> CHOOSE t \in S : Cardinality(Ahead(S, t)) = i - 1]

Excluded == IF call.greedy THEN {} ELSE Specials
Limit    == call.config.top_k * call.config.multiplier
Target   == Limit + Cardinality(Excluded)
AtMost(n) == IF n < Cardinality(Vocabulary) THEN n ELSE Cardinality(Vocabulary)

(* argpartition: any set of that size with the best raw logits. *)
Partitions(n) ==
  {S \in kSubset(n, Vocabulary) :
     \A s \in S : \A t \in Vocabulary \ S : logits[t] <= logits[s]}

(* frequency_counts: everyone gets one, the rest in proportion to the      *)
(* weights, what is missing by the largest remainders, first come first.   *)
RunningSum(s) ==
  LET upto[i \in 0..Len(s)] == IF i = 0 THEN 0 ELSE upto[i - 1] + s[i]
  IN  upto
SumOf(s) == RunningSum(s)[Len(s)]
Quotas(w) ==
  [i \in DOMAIN w |-> 1 + (w[i] * (Total - Len(w))) \div SumOf(w)]
Remainder(w, i) == (w[i] * (Total - Len(w))) % SumOf(w)
RemaindersAhead(w, i) ==
  {k \in DOMAIN w : \/ Remainder(w, k) > Remainder(w, i)
                    \/ Remainder(w, k) = Remainder(w, i) /\ k < i}

(* Mutant of FrequencyCounts: what is missing goes to the first ones. *)
FrequencyCountsFirst(w) ==
  [i \in DOMAIN w |->
     Quotas(w)[i] + (IF i <= Total - SumOf(Quotas(w)) THEN 1 ELSE 0)]

FrequencyCounts(w) ==
  [i \in DOMAIN w |->
     Quotas(w)[i] + (IF Cardinality(RemaindersAhead(w, i))
                          < Total - SumOf(Quotas(w)) THEN 1 ELSE 0)]

CumulativeCounts(c) == [i \in 1..Len(c) + 1 |-> RunningSum(c)[i - 1]]

NoAnswer == [candidates |-> <<>>, weights |-> <<>>, cumulative |-> <<>>]

-----------------------------------------------------------------------------
Init ==
  /\ pc = "ask"
  /\ call \in [config : Configs, greedy : BOOLEAN]
  /\ logits \in [Vocabulary -> Logits]
  /\ fetch = 0 /\ fetched = {} /\ ranked = <<>> /\ answer = NoAnswer

Refuse == pc' = "refused" /\ UNCHANGED <<fetch, fetched, ranked, answer>>

(* _ranked_logits refuses a limit beyond the vocabulary and a logit that   *)
(* is not finite; else it fetches twice what it needs, or Margin more.     *)
Ask(finite) ==
  /\ pc = "ask"
  /\ IF Target > Cardinality(Vocabulary) \/ ~finite
     THEN Refuse
     ELSE /\ fetch' = AtMost(Max({2 * Target, Target + Margin}))
          /\ pc' = "fetch"
          /\ UNCHANGED <<fetched, ranked, answer>>
  /\ UNCHANGED <<call, logits>>

Fetch ==
  /\ pc = "fetch"
  /\ fetched' \in Partitions(fetch)
  /\ pc' = "rank"
  /\ UNCHANGED <<call, logits, fetch, ranked, answer>>

Eligible == fetched \ Excluded

(* Mutant of Complete: a boundary tied with the fetched floor is trusted. *)
CompleteTied(t) ==
  \/ fetch = Cardinality(Vocabulary)
  \/ \E f \in fetched : Score(f) <= Score(t)

(* The ranking is complete when its last score t is above the fetched      *)
(* floor: nothing that was not fetched can tie with it.                    *)
Complete(t) ==
  \/ fetch = Cardinality(Vocabulary)
  \/ \E f \in fetched : Score(f) < Score(t)

(* Mutant of Rank: a tied boundary is fetched again with the same size. *)
RankAgain ==
  /\ pc = "rank"
  /\ LET best == Ranking(Eligible, Limit)
     IN  IF Complete(best[Limit])
         THEN /\ ranked' = best
              /\ pc' = IF call.greedy THEN "greedy" ELSE "table"
         ELSE pc' = "fetch" /\ UNCHANGED ranked
  /\ UNCHANGED <<call, logits, fetch, fetched, answer>>

Rank ==
  /\ pc = "rank"
  /\ LET best == Ranking(Eligible, Limit)
     IN  IF Cardinality(Eligible) < Limit
         THEN Refuse
         ELSE IF Complete(best[Limit])
         THEN /\ ranked' = best
              /\ pc' = IF call.greedy THEN "greedy" ELSE "table"
              /\ UNCHANGED <<fetch, fetched, answer>>
         ELSE /\ fetch' = AtMost(2 * fetch)
              /\ pc' = "fetch"
              /\ UNCHANGED <<fetched, ranked, answer>>
  /\ UNCHANGED <<call, logits>>

(* deterministic_weights: by the distance from the best score. *)
Weights(candidates, temperature) ==
  [i \in DOMAIN candidates |->
     temperature[Score(candidates[1]) - Score(candidates[i])]]

(* build_candidate_table sorts the pool again and takes the first top_k    *)
(* that are visible and copy-safe after this prefix, with frequencies.     *)
Build(safe, temperature) ==
  /\ pc = "table"
  /\ LET candidates == Ranking(safe, call.config.top_k)
         weights    == Weights(candidates, temperature)
     IN  IF Cardinality(safe) < call.config.top_k
         THEN Refuse
         ELSE /\ answer' = [candidates |-> candidates, weights |-> weights,
                            cumulative |->
                              CumulativeCounts(FrequencyCounts(weights))]
              /\ pc' = "done"
              /\ UNCHANGED <<fetch, fetched, ranked>>
  /\ UNCHANGED <<call, logits>>

(* next_greedy_token: the best visible copy-safe token, or none when the   *)
(* end of the text comes before it.                                        *)
Greedy(safe) ==
  /\ pc = "greedy"
  /\ LET seen == SelectSeq(ranked,
                   LAMBDA t : t \in Eos \/ t \in safe \ Specials)
     IN  IF seen = <<>>
         THEN Refuse
         ELSE /\ answer' = [NoAnswer EXCEPT !.candidates =
                              IF Head(seen) \in Eos THEN <<>>
                                                    ELSE <<Head(seen)>>]
              /\ pc' = "done"
              /\ UNCHANGED <<fetch, fetched, ranked>>
  /\ UNCHANGED <<call, logits>>

Next ==
  \/ \E finite \in BOOLEAN : Ask(finite)
  \/ Fetch \/ Rank
  \/ \E safe \in SUBSET Range(ranked) :
       Greedy(safe) \/ \E w \in Temperatures : Build(safe, w)

Spec == Init /\ [][Next]_vars

(* A call runs to its end in the worker's thread. *)
FairSpec == Spec /\ WF_vars(Next)

-----------------------------------------------------------------------------
(* "The resulting candidate table is identical to a complete CPU sort"     *)
(* (docs/model-profiles.md): whatever part of the logits was fetched, and  *)
(* however the accelerator split ties, the ranking is that of the whole    *)
(* vocabulary, so sender and receiver rank alike.                          *)
RankingExact ==
  pc \in {"table", "greedy", "done"} =>
    ranked = Ranking(Vocabulary \ Excluded, Limit)

(* The frequencies make a table the coders accept; no count could move     *)
(* from one candidate to another and come nearer to the proportion of the  *)
(* weights; and a better candidate never gets less than one behind it.     *)
SharesFair ==
  answer.cumulative # <<>> =>
    LET c == answer.cumulative
        w == answer.weights
        Count(i) == c[i + 1] - c[i]
        Off(i)   == (Count(i) - 1) * SumOf(w) - w[i] * (Total - Len(w))
    IN  /\ IsTable(c)
        /\ \A i, k \in DOMAIN w :
             /\ Off(i) - Off(k) <= SumOf(w)
             /\ w[i] > w[k] \/ (w[i] = w[k] /\ i < k) => Count(i) >= Count(k)

(* The fetch grows until the boundary is clear or nothing is left: every   *)
(* call comes to an answer or a refusal.                                   *)
Answered == <>(pc \in {"done", "refused"})
=============================================================================
