---------------------------- MODULE ClosablePipe ----------------------------
(***************************************************************************)
(* What the incoming half of a client connection promises to the           *)
(* application and to the rest of the server: an ordered channel that      *)
(* anybody may close, any number of times.  Once closing has begun it will *)
(* be closed, and nothing is delivered afterwards.                         *)
(***************************************************************************)
EXTENDS Naturals, Sequences

CONSTANT Items  \* what may be delivered

VARIABLES
  phase,    \* open, closing or closed
  received  \* what was delivered, in order

pipe == <<phase, received>>

PipeInit == phase = "open" /\ received = <<>>

Deliver ==
  /\ phase # "closed"
  /\ \E x \in Items : received' = Append(received, x)
  /\ UNCHANGED phase

BeginClose ==
  /\ phase = "open"
  /\ phase' = "closing"
  /\ UNCHANGED received

FinishClose ==
  /\ phase = "closing"
  /\ phase' = "closed"
  /\ UNCHANGED received

PipeNext == Deliver \/ BeginClose \/ FinishClose

\* Order, and no delivery once closed ...
PipeSafety == PipeInit /\ [][PipeNext]_pipe

\* ... and an end.
PipeSpec == PipeSafety /\ WF_pipe(FinishClose)
=============================================================================
