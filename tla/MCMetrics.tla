------------------------------ MODULE MCMetrics ------------------------------
(* Instances of Metrics for TLC; the bounds are in the two .cfg files. *)
EXTENDS Metrics, TLC

HandlerSymmetry == Permutations(Requests)
==============================================================================
