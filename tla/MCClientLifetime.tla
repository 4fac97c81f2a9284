-------------------------- MODULE MCClientLifetime --------------------------
(* One client, the server connection that opens it and one that it may be  *)
(* moved to.                                                               *)
EXTENDS ClientLifetime
=============================================================================
