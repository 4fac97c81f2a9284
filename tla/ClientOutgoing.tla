--------------------------- MODULE ClientOutgoing ---------------------------
(***************************************************************************)
(* The outgoing half of a client connection: ProcessOutgoingMessagesAsync  *)
(* of ClientConnectionContext.cs, which forwards what the application      *)
(* writes to the service, and PauseHandler.cs, with which the service      *)
(* holds it back while it moves the client to another server connection.   *)
(* Messages are numbered; the first is the handshake response.             *)
(***************************************************************************)
EXTENDS Naturals, Sequences

CONSTANTS
  Pausers,      \* handlers of Pause messages, which run on by themselves
  Loop,         \* the name of the loop in the queue of the semaphore
  MaxMessages   \* bound on the messages of the application

ASSUME OutgoingAssumption ==
  /\ Loop \notin Pausers
  /\ MaxMessages \in Nat

VARIABLES
  written,    \* messages in the pipe of the application so far
  appDone,    \* the application completed its output
  consumed,   \* messages taken out of the pipe (buffer.Start)
  examined,   \* messages looked at when AdvanceTo was called last
  end,        \* the end of the buffer ReadAsync returned
  sawDone,    \* result.IsCompleted
  handshaken, \* HandshakeResponseTask is completed
  forwarded,  \* hub messages given to ServiceConnection.WriteAsync, in order
  loop,       \* where ProcessOutgoingMessagesAsync is
  aborted,    \* OutgoingAborted
  count,      \* CurrentCount of _pauseSemaphore
  queue,      \* its asynchronous waiters
  paused,     \* _paused
  pauseAcked, \* _pauseAcked
  pauser,     \* where each handler of Pause is
  service,    \* what the service knows: flowing, pausing, or paused (it has the PauseAck)
  repeated    \* the service has sent Pause again before its Resume (history)

vars == <<written, appDone, consumed, examined, end, sawDone, handshaken, forwarded, loop,
          aborted, count, queue, paused, pauseAcked, pauser, service,
          repeated>>

pipeVars == <<written, appDone>>
bufferVars == <<consumed, examined, end, sawDone, handshaken, forwarded>>
pauseVars == <<paused, pauseAcked, service, repeated>>
semaphore == <<count, queue, pauser>>

Init ==
  /\ written = 0
  /\ appDone = FALSE
  /\ consumed = 0
  /\ examined = 0
  /\ end = 0
  /\ sawDone = FALSE
  /\ handshaken = FALSE
  /\ forwarded = <<>>
  /\ loop = "read"
  /\ aborted = FALSE
  /\ count = 1
  /\ queue = <<>>
  /\ paused = FALSE
  /\ pauseAcked = TRUE
  /\ pauser = [p \in Pausers |-> "idle"]
  /\ service = "flowing"
  /\ repeated = FALSE

Goto(from, to) == loop = from /\ loop' = to

-----------------------------------------------------------------------------
(* SemaphoreSlim(1, 1).  A release goes to the first waiter if there is    *)
(* one; above the maximum it throws and changes nothing.                   *)

Release(loopAt, pausersAt) ==
  IF queue = <<>>
  THEN count' = 1 /\ loop' = loopAt /\ pauser' = pausersAt /\ UNCHANGED queue
  ELSE /\ queue' = Tail(queue)
       /\ loop' = IF Head(queue) = Loop THEN "forward" ELSE loopAt
       /\ pauser' = IF Head(queue) = Loop THEN pausersAt ELSE [pausersAt EXCEPT ![Head(queue)] = "ack"]
       /\ UNCHANGED count

Leave(w) == queue' = SelectSeq(queue, LAMBDA v : v # w)

-----------------------------------------------------------------------------
(* The application, and CancelOutgoing.                                    *)

AppWrite ==
  /\ ~appDone
  /\ written < MaxMessages
  /\ written' = written + 1
  /\ UNCHANGED <<appDone, bufferVars, loop, aborted, semaphore, pauseVars>>

\* ProcessApplicationAsync ends and completes Transport.Output.
AppComplete ==
  /\ ~appDone
  /\ appDone' = TRUE
  /\ UNCHANGED <<written, bufferVars, loop, aborted, semaphore, pauseVars>>

\* CancelOutgoing: at once when the client migrates away, after a time-out once the
\* application is done.
CancelOutgoing ==
  /\ ~aborted
  /\ aborted' = TRUE
  /\ UNCHANGED <<pipeVars, bufferVars, loop, semaphore, pauseVars>>

-----------------------------------------------------------------------------
(* ProcessOutgoingMessagesAsync.                                           *)

\* ReadAsync returns when there is more than was examined, or the end.
ReadReturns ==
  /\ Goto("read", "parse")
  /\ ~aborted
  /\ written > examined \/ appDone
  /\ end' = written
  /\ sawDone' = appDone
  /\ UNCHANGED <<pipeVars, consumed, examined, handshaken, forwarded, aborted, semaphore, pauseVars>>

\* OperationCanceledException from ReadAsync or from the semaphore ends the loop.
Canceled ==
  /\ aborted
  /\ \/ Goto("read", "exit") /\ UNCHANGED queue
     \/ Goto("wait", "exit") /\ UNCHANGED queue
     \/ Goto("queued", "exit") /\ Leave(Loop)
  /\ UNCHANGED <<pipeVars, bufferVars, aborted, count, pauser, pauseVars>>

Parse ==
  /\ Goto("parse", CASE consumed = end -> "end"
                     [] consumed # end /\ ~handshaken -> "handshake"
                     [] OTHER -> "wait")
  /\ UNCHANGED <<pipeVars, bufferVars, aborted, semaphore, pauseVars>>

\* The handshake response is forwarded without asking the PauseHandler; a migrated
\* connection skips it.  If it cannot be forwarded the loop ends.
Handshake ==
  /\ \/ /\ Goto("handshake", "parse")
        /\ consumed' = consumed + 1
        /\ handshaken' = TRUE
     \/ /\ Goto("handshake", "exit")
        /\ UNCHANGED <<consumed, handshaken>>
  /\ UNCHANGED <<pipeVars, examined, end, sawDone, forwarded, aborted, semaphore, pauseVars>>

\* WaitAsync: Wait(0), or a place in the queue.
WaitAsync ==
  /\ ~aborted
  /\ IF count = 1
     THEN Goto("wait", "forward") /\ count' = 0 /\ UNCHANGED queue
     ELSE Goto("wait", "queued") /\ queue' = Append(queue, Loop) /\ UNCHANGED count
  /\ UNCHANGED <<pipeVars, bufferVars, aborted, pauser, pauseVars>>

\* Mutant: the message that could not be sent is skipped.
WaitTimeoutSkips ==
  /\ Goto("queued", "end")
  /\ Leave(Loop)
  /\ consumed' = consumed + 1
  /\ UNCHANGED <<pipeVars, examined, end, sawDone, handshaken, forwarded, aborted, count, pauser, pauseVars>>

\* The wait times out: the message stays in the buffer.
WaitTimeout ==
  /\ Goto("queued", "end")
  /\ Leave(Loop)
  /\ UNCHANGED <<pipeVars, bufferVars, aborted, count, pauser, pauseVars>>

\* ForwardMessage: success, or an error that is logged; the message is done with either way.
Forward ==
  /\ Goto("forward", "release")
  /\ consumed' = consumed + 1
  /\ forwarded' = Append(forwarded, consumed')
  /\ UNCHANGED <<pipeVars, examined, end, sawDone, handshaken, aborted, semaphore, pauseVars>>

\* Mutant: the loop ends without releasing the semaphore.
ForwardFatalHolding ==
  /\ Goto("forward", "exit")
  /\ UNCHANGED <<pipeVars, bufferVars, aborted, semaphore, pauseVars>>

\* The service connection is not active: release, and the loop ends.
ForwardFatal ==
  /\ loop = "forward"
  /\ Release("exit", pauser)
  /\ UNCHANGED <<pipeVars, bufferVars, aborted, pauseVars>>

ReleaseAfterForward ==
  /\ loop = "release"
  /\ Release("parse", pauser)
  /\ UNCHANGED <<pipeVars, bufferVars, aborted, pauseVars>>

\* Mutant: the loop goes on as long as messages are left.
EndIterationDrained ==
  /\ Goto("end", IF sawDone /\ consumed = end THEN "exit" ELSE "read")
  /\ examined' = IF sawDone THEN examined ELSE end
  /\ UNCHANGED <<pipeVars, consumed, end, sawDone, handshaken, forwarded, aborted, semaphore, pauseVars>>

\* The end of an iteration; AdvanceTo(buffer.Start, buffer.End).
EndIteration ==
  /\ Goto("end", IF sawDone THEN "exit" ELSE "read")
  /\ examined' = IF sawDone THEN examined ELSE end
  /\ UNCHANGED <<pipeVars, consumed, end, sawDone, handshaken, forwarded, aborted, semaphore, pauseVars>>

-----------------------------------------------------------------------------
(* OnFlowControlMessageAsync for a client: Pause and Resume.               *)

\* Mutant: PauseAsync does not wait for the message on its way.
PauseAtOnce(p) ==
  /\ pauser[p] = "idle"
  /\ service' = IF service = "flowing" THEN "pausing" ELSE service
  /\ repeated' = (repeated \/ service # "flowing")
  /\ paused' = TRUE
  /\ pauseAcked' = (pauseAcked /\ paused)
  /\ pauser' = [pauser EXCEPT ![p] = "ack"]
  /\ count' = 0
  /\ UNCHANGED <<pipeVars, bufferVars, loop, aborted, queue>>

\* A Pause message.  PauseAsync runs on the read loop of the server connection up to
\* WaitAsync, so no other Pause or Resume comes in between: the CompareExchange on
\* _paused, _pauseAcked = 0, and WaitAsync without a time-out.
Pause(p) ==
  /\ pauser[p] = "idle"
  /\ service' = IF service = "flowing" THEN "pausing" ELSE service
  /\ repeated' = (repeated \/ service # "flowing")
  /\ paused' = TRUE
  /\ pauseAcked' = (pauseAcked /\ paused)
  /\ IF paused
     THEN pauser' = [pauser EXCEPT ![p] = "ack"] /\ UNCHANGED <<count, queue>>
     ELSE IF count = 1
     THEN pauser' = [pauser EXCEPT ![p] = "ack"] /\ count' = 0 /\ UNCHANGED queue
     ELSE pauser' = [pauser EXCEPT ![p] = "queued"] /\ queue' = Append(queue, p) /\ UNCHANGED count
  /\ UNCHANGED <<pipeVars, bufferVars, loop, aborted>>

\* PauseAckAsync: ShouldReplyAck, and the PauseAck, which may fail to be written.
PauseAck(p) ==
  /\ pauser[p] = "ack"
  /\ pauser' = [pauser EXCEPT ![p] = "idle"]
  /\ pauseAcked' = TRUE
  /\ service' \in IF pauseAcked THEN {service} ELSE {service, "paused"}
  /\ UNCHANGED <<pipeVars, bufferVars, loop, aborted, count, queue, paused, repeated>>

\* A Resume message, which answers a PauseAck.  ResumeAsync.
Resume ==
  /\ service = "paused"
  /\ service' = "flowing"
  /\ paused' = FALSE
  /\ IF paused THEN Release(loop, pauser) ELSE UNCHANGED <<loop, semaphore>>
  /\ UNCHANGED <<pipeVars, bufferVars, aborted, pauseAcked, repeated>>

-----------------------------------------------------------------------------
LoopStep ==
  \/ ReadReturns \/ Canceled \/ Parse \/ Handshake \/ WaitAsync \/ WaitTimeout
  \/ Forward \/ ForwardFatal \/ ReleaseAfterForward \/ EndIteration

Next ==
  \/ AppWrite \/ AppComplete \/ CancelOutgoing
  \/ LoopStep
  \/ \E p \in Pausers : Pause(p) \/ PauseAck(p)
  \/ Resume

Spec == Init /\ [][Next]_vars

\* The loop and the handlers run on, and the time-out of the semaphore passes.  Nothing
\* is assumed of the application, and a paused client need not be resumed.
Fairness == WF_vars(LoopStep) /\ \A p \in Pausers : WF_vars(PauseAck(p))

FairSpec == Spec /\ Fairness

-----------------------------------------------------------------------------
\* The type invariant of the outgoing pipe, its buffer, the pause state and the loop.
TypeOK ==
  /\ written \in 0..MaxMessages
  /\ appDone \in BOOLEAN
  /\ consumed \in 0..MaxMessages
  /\ examined \in 0..MaxMessages
  /\ end \in 0..MaxMessages
  /\ sawDone \in BOOLEAN
  /\ handshaken \in BOOLEAN
  /\ forwarded \in Seq(1..MaxMessages)
  /\ loop \in {"read", "parse", "handshake", "wait", "queued", "forward", "release", "end", "exit"}
  /\ aborted \in BOOLEAN
  /\ count \in 0..1
  /\ queue \in Seq(Pausers \cup {Loop})
  /\ paused \in BOOLEAN
  /\ pauseAcked \in BOOLEAN
  /\ pauser \in [Pausers -> {"idle", "queued", "ack"}]
  /\ service \in {"flowing", "pausing", "paused"}
  /\ repeated \in BOOLEAN

\* What PauseAck is for: from the moment the service has it until it sends Resume, no hub
\* message is on its way through the old server connection.  (The handshake response is
\* not held back.  A repeated Pause is answered at once, whether or not the first one
\* still waits, and after one this does not hold.)
AckedIsQuiet == service = "paused" /\ ~repeated => loop \notin {"forward", "release"}

\* However pauses, time-outs and aborts interleave, the permit is not lost: with no pause
\* in force or in progress and the loop not forwarding, the semaphore is free.
PermitNotLost ==
  ~paused /\ (\A p \in Pausers : pauser[p] \in {"idle", "ack"}) /\ loop \notin {"forward", "release"}
    => count = 1

\* Time-outs and re-reads neither skip nor repeat a message: what was given to the service
\* connection is exactly what was consumed, in the order the application wrote it.
ForwardedInOrder ==
  forwarded = IF handshaken THEN [i \in 1..(consumed - 1) |-> i + 1] ELSE <<>>

\* Once the application is done the loop ends, even if the service never resumes.
LoopEnds == appDone ~> loop = "exit"

\* A comment in the loop says "we still want messages to successfully going out when
\* application completes": it should not end by itself with messages left over.  It does
\* not hold; see the README.
DrainsOnCompletion == loop = "end" /\ sawDone => consumed = end
=============================================================================
