---------------------------- MODULE MCIdentityStore ----------------------------
(* Two saves, of an identity each or of the same. *)
EXTENDS IdentityStore, TLC

Interchangeable == Permutations(Ids) \cup Permutations(Savers)
=============================================================================
