-------------------------- MODULE MCClientIncoming --------------------------
(* Four data messages, any of them partial, and a client closed by the     *)
(* service, or migrated, and by the shutdown.                              *)
EXTENDS ClientIncoming
=============================================================================
