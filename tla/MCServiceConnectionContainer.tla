-------------------- MODULE MCServiceConnectionContainer --------------------
(* A fixed and an on-demand connection for the properties that hold; two   *)
(* fixed ones, whose status handlers or rebalance pings race, for the two  *)
(* that do not.                                                            *)
EXTENDS ServiceConnectionContainer, TLC

ConnSymmetry == Permutations(Conns)
=============================================================================
