---------------------------- MODULE MCJobManager ----------------------------
(* JobManager on small instances. *)
EXTENDS JobManager, TLC

Symmetry == Permutations(Jobs)
=============================================================================
