-------------------------- MODULE MCTimerAwaitable --------------------------
(* Two callers of Stop, whose ticks and disposals interleave.              *)
EXTENDS TimerAwaitable
=============================================================================
