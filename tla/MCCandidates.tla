----------------------------- MODULE MCCandidates -----------------------------
(* Seven tokens, one of them special: a fetch may have to grow before it   *)
(* holds all.  Half a step rounds down from 1 and up from 3.               *)
EXTENDS Candidates

SmallConfigs == {[top_k |-> 2, multiplier |-> 1],
                 [top_k |-> 2, multiplier |-> 2],
                 [top_k |-> 3, multiplier |-> 1]}
Flat  == [d \in 0..2 |-> 5 - d]
Steep == [d \in 0..2 |-> IF d = 0 THEN 11 ELSE 1]
TwoTemperatures == {Flat, Steep}
=============================================================================
