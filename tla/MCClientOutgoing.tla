-------------------------- MODULE MCClientOutgoing --------------------------
(* A handshake response and two hub messages, and pauses one after another *)
(* or overlapping.                                                         *)
EXTENDS ClientOutgoing
=============================================================================
