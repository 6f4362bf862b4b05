--------------------------- MODULE IdentityDirectory ---------------------------
(***************************************************************************)
(* What the store of identities promises: an identity is complete or it is *)
(* not there, it has one creator, and nothing changes it.  A power loss    *)
(* may undo the newest ones, those after which nothing was synchronised.   *)
(***************************************************************************)
CONSTANTS Ids, Owners, Nobody

VARIABLES
  published,  \* who created the identity
  fresh       \* identities that a power loss may still undo

vars == <<published, fresh>>

Init == published = [i \in Ids |-> Nobody] /\ fresh = {}

Publish(i, o) ==
  /\ published[i] = Nobody
  /\ published' = [published EXCEPT ![i] = o]
  /\ fresh' = fresh \cup {i}

Settle == fresh' = {} /\ UNCHANGED published

Lose(lost) ==
  /\ lost \subseteq fresh
  /\ published' = [i \in Ids |-> IF i \in lost THEN Nobody ELSE published[i]]
  /\ fresh' = {}

Next ==
  \/ \E i \in Ids, o \in Owners : Publish(i, o)
  \/ Settle
  \/ \E lost \in SUBSET Ids : Lose(lost)

Spec == Init /\ [][Next]_vars
=============================================================================
