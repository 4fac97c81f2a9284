------------------------- MODULE MCClientInvocation -------------------------
(* An invocation through two endpoints, with a cancellation, a loss of the *)
(* client and an ack that times out.                                       *)
EXTENDS ClientInvocation
=============================================================================
