----------------------- MODULE MCCustomizedPingTimer -----------------------
(* Two users that start and stop several times, and one thread that stops  *)
(* too often.                                                              *)
EXTENDS CustomizedPingTimer
=============================================================================
