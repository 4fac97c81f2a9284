--------------------------- MODULE ClientIncoming ---------------------------
(***************************************************************************)
(* The incoming half of a client connection, in ClientConnectionContext.cs *)
(* : data messages of the service are written to the pipe of the           *)
(* application, partial ones after they were buffered, while the           *)
(* connection is being closed from several sides.                          *)
(*                                                                         *)
(* The read loop does not await the handler of a message.  A handler runs  *)
(* on the loop until it has to wait, for the write lock or for a flush,    *)
(* and goes on by itself afterwards, so several may be on their way.       *)
(* A data message is known by its number.                                  *)
(***************************************************************************)
EXTENDS Naturals, Sequences

CONSTANTS
  MaxData,    \* bound on the data messages of the service
  Closers,    \* the calls of PerformDisconnectAsync
  Migrating,  \* the ones for a client that migrates
  OffLoop     \* the ones that do not run on the read loop of the server connection

ASSUME IncomingAssumption ==
  /\ MaxData \in Nat
  /\ Migrating \subseteq Closers
  /\ OffLoop \subseteq Closers \ Migrating

Data == 1..MaxData
Nobody == 0
Junk == 0     \* bytes of an array that has been given back to the pool

VARIABLES
  sent,      \* data messages dispatched so far
  buffered,  \* _bufferedMessages
  at,        \* where the handler of each message is
  returned,  \* the buffered messages whose memory was given back to the pool
  todo,      \* what it has still to write, its own payload last
  scan,      \* its foreach over _bufferedMessages: not in it, in it, or invalidated
  onLoop,    \* the handler or closer that the read loop is executing
  queue,     \* the waiters of _writeLock
  state,     \* _connectionState
  complete,  \* Application.Output is completed
  received,  \* what the application was given, in order
  closer,    \* where each closer is
  overtaken, \* a message or a Clear came while a handler was Scanning (history)
  cleared    \* ClearBufferedMessages was called (history)

vars == <<sent, buffered, returned, at, todo, scan, onLoop, queue, state, complete,
          received, closer, overtaken, cleared>>

pipeVars == <<state, complete, received>>
bufferVars == <<buffered, returned, overtaken, cleared>>

Init ==
  /\ sent = 0
  /\ buffered = <<>>
  /\ returned = {}
  /\ at = [m \in Data |-> "none"]
  /\ todo = [m \in Data |-> <<>>]
  /\ scan = [m \in Data |-> "no"]
  /\ onLoop = Nobody
  /\ queue = <<>>
  /\ state = "Idle"
  /\ complete = FALSE
  /\ received = <<>>
  /\ closer = [k \in Closers |-> "idle"]
  /\ overtaken = FALSE
  /\ cleared = FALSE

-----------------------------------------------------------------------------
(* The write lock, SemaphoreSlim(1, 1), and _bufferedMessages, a Queue.    *)

Holding == {"locked", "write", "flush", "end"}
Held == \E m \in Data : at[m] \in Holding

\* Release: the first waiter has the lock.
ReleaseTo(m, next) ==
  IF queue = <<>>
  THEN at' = [at EXCEPT ![m] = next] /\ UNCHANGED queue
  ELSE at' = [at EXCEPT ![m] = next, ![Head(queue)] = "locked"] /\ queue' = Tail(queue)

Leave(m) == onLoop' = IF onLoop = m THEN Nobody ELSE onLoop

\* Any change of the queue invalidates the enumerators over it.
Invalidate(s) == [m \in Data |-> IF s[m] = "valid" THEN "invalid" ELSE s[m]]

\* A handler has buffered messages to write, or has written them and is not yet in line for
\* the lock with its own.
Scanning == \E m \in Data : scan[m] # "no" \/ at[m] = "wait"

\* ClearBufferedMessages.
ClearBufferedMessages ==
  /\ buffered' = <<>>
  /\ scan' = Invalidate(scan)
  /\ overtaken' = (overtaken \/ Scanning)
  /\ cleared' = TRUE

\* The manager still has the client: nobody has taken it out in order to close it.
Found == \A k \in Closers \ OffLoop : closer[k] = "idle"

-----------------------------------------------------------------------------
(* ProcessConnectionDataMessageAsync and WriteToApplicationAsync.          *)

\* A partial message is buffered.
Partial ==
  /\ onLoop = Nobody /\ Found
  /\ sent < MaxData
  /\ sent' = sent + 1
  /\ buffered' = Append(buffered, sent')
  /\ scan' = Invalidate(scan)
  /\ overtaken' = (overtaken \/ Scanning)
  /\ at' = [at EXCEPT ![sent'] = "done"]
  /\ UNCHANGED <<returned, todo, onLoop, queue, pipeVars, closer, cleared>>

\* Any other message is written after what is buffered: the foreach begins, or is over at
\* once, and the handler waits for the lock.  The memory of the first one may be gone.
Full ==
  /\ onLoop = Nobody /\ Found
  /\ sent < MaxData
  /\ sent' = sent + 1
  /\ overtaken' = (overtaken \/ Scanning)
  /\ IF buffered # <<>> /\ Head(buffered) \in returned
     THEN at' = [at EXCEPT ![sent'] = "done"] /\ UNCHANGED <<todo, scan, onLoop, queue>>
     ELSE /\ todo' = [todo EXCEPT ![sent'] = Append(buffered, sent')]
          /\ scan' = [scan EXCEPT ![sent'] = IF buffered = <<>> THEN "no" ELSE "valid"]
          /\ onLoop' = sent'
          /\ at' = [at EXCEPT ![sent'] = "wait"]
          /\ UNCHANGED queue
  /\ UNCHANGED <<buffered, returned, pipeVars, closer, cleared>>

\* _writeLock.WaitAsync: the handler goes on, or leaves the read loop and waits.
WaitAsync(m) ==
  /\ at[m] = "wait"
  /\ IF Held
     THEN at' = [at EXCEPT ![m] = "queued"] /\ queue' = Append(queue, m) /\ Leave(m)
     ELSE at' = [at EXCEPT ![m] = "locked"] /\ UNCHANGED <<queue, onLoop>>
  /\ UNCHANGED <<sent, bufferVars, todo, scan, pipeVars, closer>>

\* Mutant: an exchange instead of the CompareExchange, so a completed connection is written
\* to again.
BeginWriteAnyway(m) ==
  /\ at[m] = "locked"
  /\ state' = "Writing"
  /\ at' = [at EXCEPT ![m] = "write"]
  /\ UNCHANGED <<sent, bufferVars, queue, todo, scan, onLoop, complete, received, closer>>

\* The CompareExchange from Idle to Writing; nothing is written any more when completed.
BeginWrite(m) ==
  /\ at[m] = "locked"
  /\ IF state = "Completed"
     THEN ReleaseTo(m, "advance") /\ UNCHANGED state
     ELSE state' = "Writing" /\ at' = [at EXCEPT ![m] = "write"] /\ UNCHANGED queue
  /\ UNCHANGED <<sent, bufferVars, todo, scan, onLoop, complete, received, closer>>

\* What a write finds in the memory it was given.
Bytes(x) == IF x \in returned THEN {x, Junk} ELSE {x}

\* Application.Output.WriteAsync, which throws if the pipe is completed by now.
WritePipe(m) ==
  /\ at[m] = "write"
  /\ IF complete
     THEN /\ at' = [at EXCEPT ![m] = "end"]
          /\ todo' = [todo EXCEPT ![m] = <<>>]
          /\ scan' = [scan EXCEPT ![m] = "no"]
          /\ returned' = returned \cup ({Head(todo[m])} \ {m})
          /\ UNCHANGED received
     ELSE /\ at' = [at EXCEPT ![m] = "flush"]
          /\ \E x \in Bytes(Head(todo[m])) : received' = Append(received, x)
          /\ UNCHANGED <<todo, scan, returned>>
  /\ UNCHANGED <<sent, buffered, overtaken, cleared, onLoop, queue, state, complete, closer>>

\* The application does not keep up: the flush is pending and the read loop goes on.
Suspend(m) ==
  /\ onLoop = m
  /\ at[m] = "flush"
  /\ onLoop' = Nobody
  /\ UNCHANGED <<sent, bufferVars, at, todo, scan, queue, pipeVars, closer>>

FlushReturns(m) ==
  /\ at[m] = "flush"
  /\ at' = [at EXCEPT ![m] = "end"]
  /\ UNCHANGED <<sent, bufferVars, todo, scan, onLoop, queue, pipeVars, closer>>

\* Mutant: the writer does not look whether the connection was completed meanwhile.
EndWriteBlind(m) ==
  /\ at[m] = "end"
  /\ state' = IF state = "Writing" THEN "Idle" ELSE state
  /\ ReleaseTo(m, IF todo[m] = <<>> THEN "done" ELSE "advance")
  /\ IF todo[m] = <<>> THEN Leave(m) ELSE UNCHANGED onLoop
  /\ UNCHANGED <<sent, bufferVars, todo, scan, complete, received, closer>>

\* The CompareExchange back to Idle, the completion left to the writer, and the release.
EndWrite(m) ==
  /\ at[m] = "end"
  /\ state' = IF state = "Writing" THEN "Idle" ELSE state
  /\ complete' = (complete \/ state = "Completed")
  /\ ReleaseTo(m, IF todo[m] = <<>> THEN "done" ELSE "advance")
  /\ IF todo[m] = <<>> THEN Leave(m) ELSE UNCHANGED onLoop
  /\ UNCHANGED <<sent, bufferVars, todo, scan, received, closer>>

\* The element just written cannot be used again, nor, in the foreach, the next one.
Throws(m) ==
  \/ Head(todo[m]) \in returned
  \/ scan[m] = "invalid"
  \/ Len(todo[m]) > 2 /\ todo[m][2] \in returned

\* Mutant: the buffer is not cleared after the foreach.
AdvanceKeeps(m) ==
  /\ at[m] = "advance"
  /\ returned' = returned \cup ({Head(todo[m])} \ {m})
  /\ IF Len(todo[m]) = 1 \/ Throws(m)
     THEN /\ at' = [at EXCEPT ![m] = "done"]
          /\ todo' = [todo EXCEPT ![m] = <<>>]
          /\ scan' = [scan EXCEPT ![m] = "no"]
          /\ Leave(m)
     ELSE /\ at' = [at EXCEPT ![m] = "wait"]
          /\ todo' = [todo EXCEPT ![m] = Tail(@)]
          /\ scan' = IF Len(todo[m]) = 2 THEN [scan EXCEPT ![m] = "no"] ELSE scan
          /\ UNCHANGED onLoop
  /\ UNCHANGED <<sent, buffered, queue, pipeVars, closer, overtaken, cleared>>

\* After a write: the end of the handler, or the disposal of the owner and the next element
\* of the foreach, or the Clear at its end.  The foreach throws if it was invalidated.
Advance(m) ==
  /\ at[m] = "advance"
  /\ returned' = returned \cup ({Head(todo[m])} \ {m})
  /\ IF Len(todo[m]) = 1 \/ Throws(m)
     THEN /\ at' = [at EXCEPT ![m] = "done"]
          /\ todo' = [todo EXCEPT ![m] = <<>>]
          /\ scan' = [scan EXCEPT ![m] = "no"]
          /\ Leave(m)
          /\ UNCHANGED buffered
     ELSE /\ at' = [at EXCEPT ![m] = "wait"]
          /\ todo' = [todo EXCEPT ![m] = Tail(@)]
          /\ IF Len(todo[m]) = 2
             THEN buffered' = <<>> /\ scan' = Invalidate([scan EXCEPT ![m] = "no"])
             ELSE UNCHANGED <<buffered, scan>>
          /\ UNCHANGED onLoop
  /\ UNCHANGED <<sent, queue, pipeVars, closer, overtaken, cleared>>

-----------------------------------------------------------------------------
(* CompleteIncoming, in two steps, and PerformDisconnectAsync around it.   *)

\* A migrating client is completed once before PerformDisconnectAsync is called.
BeginMigration(k) ==
  /\ onLoop = Nobody /\ Found
  /\ k \in Migrating
  /\ closer' = [closer EXCEPT ![k] = "first"]
  /\ onLoop' = k
  /\ UNCHANGED <<sent, bufferVars, at, todo, scan, queue, pipeVars>>

\* PerformDisconnectAsync, on the read loop or, for the shutdown, by itself.
PerformDisconnect(k) ==
  /\ \/ /\ closer[k] = "idle" /\ k \notin Migrating
        /\ IF k \in OffLoop THEN UNCHANGED onLoop ELSE onLoop = Nobody /\ Found /\ onLoop' = k
     \/ closer[k] = "begin" /\ UNCHANGED onLoop
  /\ closer' = [closer EXCEPT ![k] = "exchange"]
  /\ ClearBufferedMessages
  /\ UNCHANGED <<sent, returned, at, todo, queue, pipeVars>>

\* Interlocked.Exchange; a writer is left to complete the pipe itself.
Exchange(k) ==
  /\ closer[k] \in {"first", "exchange"}
  /\ closer' = [closer EXCEPT ![k] =
       IF @ = "first" THEN IF state = "Writing" THEN "firstCancel" ELSE "firstComplete"
                      ELSE IF state = "Writing" THEN "cancel" ELSE "complete"]
  /\ state' = "Completed"
  /\ UNCHANGED <<sent, bufferVars, at, todo, scan, onLoop, queue, complete, received>>

\* Mutant: the closer completes the pipe also during a write.
CancelAndCompleteAlways(k) ==
  /\ closer[k] \in {"firstCancel", "firstComplete", "cancel", "complete"}
  /\ complete' = TRUE
  /\ closer' = [closer EXCEPT ![k] = IF @ \in {"firstCancel", "firstComplete"} THEN "begin" ELSE "wait"]
  /\ IF closer[k] \in {"cancel", "complete"} THEN Leave(k) ELSE UNCHANGED onLoop
  /\ UNCHANGED <<sent, bufferVars, at, todo, scan, queue, state, received>>

\* CancelPendingFlush, and Complete unless a write was in progress.
CancelAndComplete(k) ==
  /\ closer[k] \in {"firstCancel", "firstComplete", "cancel", "complete"}
  /\ complete' = (complete \/ closer[k] \in {"firstComplete", "complete"})
  /\ closer' = [closer EXCEPT ![k] = IF @ \in {"firstCancel", "firstComplete"} THEN "begin" ELSE "wait"]
  /\ IF closer[k] \in {"cancel", "complete"} THEN Leave(k) ELSE UNCHANGED onLoop
  /\ UNCHANGED <<sent, bufferVars, at, todo, scan, queue, state, received>>

\* OnConnectionReconnectAsync.
Reconnect ==
  /\ onLoop = Nobody /\ Found
  /\ ClearBufferedMessages
  /\ UNCHANGED <<sent, returned, at, todo, onLoop, queue, pipeVars, closer>>

-----------------------------------------------------------------------------
HandlerStep(m) ==
  WaitAsync(m) \/ BeginWrite(m) \/ WritePipe(m) \/ FlushReturns(m) \/ EndWrite(m) \/ Advance(m)

CloserStep(k) ==
  Exchange(k) \/ CancelAndComplete(k) \/ (closer[k] = "begin" /\ PerformDisconnect(k))

Next ==
  \/ Partial \/ Full \/ Reconnect
  \/ \E m \in Data : HandlerStep(m) \/ Suspend(m)
  \/ \E k \in Closers : BeginMigration(k) \/ PerformDisconnect(k) \/ CloserStep(k)

Spec == Init /\ [][Next]_vars

\* A handler or a closer that has begun goes on.  A flush returns once it is canceled;
\* before that, the application may leave it pending for ever.
Fairness ==
  /\ \A m \in Data :
       /\ WF_vars(WaitAsync(m)) /\ WF_vars(BeginWrite(m)) /\ WF_vars(WritePipe(m))
       /\ WF_vars(EndWrite(m)) /\ WF_vars(Advance(m))
       /\ WF_vars(state = "Completed" /\ FlushReturns(m))
  /\ \A k \in Closers : WF_vars(CloserStep(k))

FairSpec == Spec /\ Fairness

-----------------------------------------------------------------------------
\* The type of the incoming state.
TypeOK ==
  /\ sent \in 0..MaxData
  /\ buffered \in Seq(Data)
  /\ at \in [Data -> Holding \cup {"none", "wait", "queued", "advance", "done"}]
  /\ returned \subseteq Data
  /\ todo \in [Data -> Seq(Data)]
  /\ scan \in [Data -> {"no", "valid", "invalid"}]
  /\ onLoop \in Data \cup Closers \cup {Nobody}
  /\ queue \in Seq(Data)
  /\ state \in {"Idle", "Writing", "Completed"}
  /\ complete \in BOOLEAN
  /\ received \in Seq(Data \cup {Junk})
  /\ closer \in [Closers -> {"idle", "first", "firstCancel", "firstComplete", "begin",
                             "exchange", "cancel", "complete", "wait"}]
  /\ overtaken \in BOOLEAN
  /\ cleared \in BOOLEAN

\* Completion is not lost between a writer and the closers: once the state is Completed,
\* the pipe is completed, or a write in progress or a closer is about to complete it
\* (CompleteIncoming and the end of WriteToApplicationAsync leave it to each other).
CompletionNotLost ==
  state = "Completed" =>
    \/ complete
    \/ \E m \in Data : at[m] \in {"write", "flush", "end"}
    \/ \E k \in Closers : closer[k] \in {"firstComplete", "complete"}

\* A closer by itself never completes the pipe under a writer: for a write in progress to
\* meet a completed pipe, two must have closed it, or one of a migrating client, which
\* calls CompleteIncoming twice.
SingleCloserSparesWriter ==
  complete /\ (\E m \in Data : at[m] \in {"write", "flush"}) =>
    \/ \E k \in Migrating : closer[k] # "idle"
    \/ \E k, l \in Closers : k # l /\ closer[k] # "idle" /\ closer[l] # "idle"

\* "When next message comes, it should complete the previous partial message": once all
\* handlers are done, everything sent was received, or is buffered and waits for the next
\* message.  By itself it does not hold; see the README.
PartialCompleted ==
  ~cleared /\ state # "Completed" /\ (\A m \in 1..sent : at[m] = "done")
    => received \o buffered = [m \in 1..sent |-> m]

\* What the application receives is in the order of the service, without repetitions and,
\* unless the buffer was cleared on purpose, without gaps, as long as no message arrived
\* while another was being written together with the buffered ones before it.
ReceivedInOrder ==
  ~overtaken =>
    /\ \A i, j \in 1..Len(received) : i < j => received[i] < received[j]
    /\ PartialCompleted

\* The phase of the abstract pipe: closing begins with the first Exchange.
Phase == IF complete THEN "closed" ELSE IF state = "Completed" THEN "closing" ELSE "open"

Pipe == INSTANCE ClosablePipe WITH Items <- Data \cup {Junk}, phase <- Phase, received <- received

\* However writers and closers interleave, the incoming half is a pipe that delivers
\* nothing once it is closed, and that is closed in the end once one side asked for it.
ImplementsPipe == Pipe!PipeSpec
=============================================================================
