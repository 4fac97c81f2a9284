--------------------------- MODULE MCAckHandler ---------------------------
(* One ack of any kind, two connections that receive replies for it, up to *)
(* three replies.  Acks with different ids meet only in the passes of the  *)
(* timer and of Dispose.                                                   *)
EXTENDS AckHandler

MCReplies == {[status |-> "Ok", payload |-> "good"], [status |-> "NotFound", payload |-> "null"],
              [status |-> "Ok", payload |-> "bad"]}
=============================================================================
