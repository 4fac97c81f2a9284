------------------------ MODULE MCServiceConnection ------------------------
(* Two concurrent writers are enough for both to wait for the lock while   *)
(* StartAsync disposes the transport.                                      *)
EXTENDS ServiceConnection
=============================================================================
