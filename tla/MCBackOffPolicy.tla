--------------------------- MODULE MCBackOffPolicy ---------------------------
(* Three calls: a leader, and two that follow it and then compete.         *)
EXTENDS BackOffPolicy
=============================================================================
