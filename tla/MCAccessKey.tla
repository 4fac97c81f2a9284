----------------------------- MODULE MCAccessKey -----------------------------
(* Two calls, so that one can join or outlive the refresh of the other, and *)
(* a delivery that meets them anywhere; a refresh is tried twice.           *)
EXTENDS AccessKey, TLC

CallerSymmetry == Permutations(Callers)
=============================================================================
