----------------------------- MODULE MCJobStream ----------------------------
(* JobStream on small instances: the readers of one job are independent of *)
(* each other, so one reader and one job meet every interleaving of a      *)
(* stream with the worker and the callers of the manager.                  *)
EXTENDS JobStream
=============================================================================
