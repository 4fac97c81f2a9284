------------------------ MODULE ClientIncomingProofs ------------------------
(***************************************************************************)
(* The incoming half is a closable pipe, for any number of messages and    *)
(* of closers: the safety part of the refinement, and the invariants that  *)
(* it rests on.                                                            *)
(***************************************************************************)
EXTENDS ClientIncoming, SequenceTheorems, TLAPS

InWrite(m) == at[m] \in {"write", "flush", "end"}

\* A handler on its way has something to write, and one not yet begun is nowhere.
Work ==
  /\ \A m \in Data : at[m] \in {"wait", "queued", "locked", "write", "flush", "advance"}
                       => todo[m] # <<>>
  /\ \A m \in Data : m > sent => at[m] = "none"

\* The waiters of the write lock are in line once.
Line ==
  /\ \A i \in 1..Len(queue) : at[queue[i]] = "queued"
  /\ \A i, j \in 1..Len(queue) : queue[i] = queue[j] => i = j

\* One handler at a time has the lock, and _connectionState tells whether it writes.
Lock ==
  /\ \A m, n \in Data : at[m] \in Holding /\ at[n] \in Holding => m = n
  /\ \A m \in Data : InWrite(m) => state # "Idle"
  /\ state = "Writing" => \E m \in Data : InWrite(m)

\* The closers that have made their first Exchange.
Exchanged(k) ==
  \/ closer[k] \in {"firstCancel", "firstComplete", "begin", "cancel", "complete", "wait"}
  \/ closer[k] = "exchange" /\ k \in Migrating

\* A writer may meet a completed pipe.
Contended ==
  \/ \E k \in Migrating : closer[k] # "idle"
  \/ \E k, l \in Closers : k # l /\ closer[k] # "idle" /\ closer[l] # "idle"

\* The state is Completed by an Exchange only, and the pipe only after that.
Closes ==
  /\ complete => state = "Completed"
  /\ \A k \in Closers : Exchanged(k) => state = "Completed"
  /\ state = "Completed" => \E k \in Closers : Exchanged(k)
  /\ \A k \in Closers : closer[k] \in {"first", "firstCancel", "firstComplete", "begin"}
                          => k \in Migrating
  /\ CompletionNotLost

\* A closer that found the state idle has no writer under way.
Spares ==
  /\ \A k \in Closers, m \in Data :
       closer[k] \in {"complete", "firstComplete"} /\ InWrite(m) => Contended
  /\ \A m \in Data : complete /\ InWrite(m) => Contended

\* The inductive invariant.
IInv == TypeOK /\ Work /\ Line /\ Lock /\ Closes /\ Spares

\* What the steps mean for the lock and for the closing.  Some do not matter ...
Quiet == UNCHANGED <<at, queue, state, complete, closer>>

\* ... some move a handler that is not at the lock ...
Outside(m) ==
  /\ at[m] \in {"none", "advance"}
  /\ \E x \in {"wait", "done"} : at' = [at EXCEPT ![m] = x]
  /\ UNCHANGED <<queue, state, complete, closer>>

\* ... and some the one that has it.
Inside(m) ==
  /\ at[m] \in {"write", "flush"}
  /\ \E x \in {"flush", "end"} : at' = [at EXCEPT ![m] = x]
  /\ UNCHANGED <<queue, state, complete, closer>>

\* The initial states satisfy the invariant.
LEMMA InitIInv == Init => IInv
<1> SUFFICES ASSUME Init PROVE IInv
  OBVIOUS
<1> USE IncomingAssumption DEF Init
<1>1. TypeOK
  <2>1. sent \in 0..MaxData /\ onLoop \in Data \cup Closers \cup {Nobody}
    BY DEF Nobody
  <2>2. buffered \in Seq(Data) /\ queue \in Seq(Data) /\ received \in Seq(Data \cup {Junk}) /\ todo \in [Data -> Seq(Data)]
    OBVIOUS
  <2> QED
    BY <2>1, <2>2 DEF TypeOK
<1>2. Work /\ Line /\ Lock
  BY DEF Work, Line, Lock, InWrite, Holding
<1>3. Closes /\ Spares
  BY DEF Closes, Spares, Exchanged, CompletionNotLost, InWrite
<1> QED
  BY <1>1, <1>2, <1>3 DEF IInv

\* Release hands the lock to the first in line, if there is one, who waited.
LEMMA Release ==
  ASSUME TypeOK, Line, NEW m \in Data, NEW next, at[m] # "queued", next # "queued",
         next \in Holding \cup {"none", "wait", "queued", "advance", "done"}, ReleaseTo(m, next)
  PROVE  /\ at' \in [Data -> Holding \cup {"none", "wait", "queued", "advance", "done"}]
         /\ at'[m] = next
         /\ \A n \in Data : n # m => at'[n] = at[n] \/ (at[n] = "queued" /\ at'[n] = "locked")
         /\ \A n, l \in Data : n # m /\ l # m /\ at'[n] # at[n] /\ at'[l] # at[l] => n = l
         /\ queue' \in Seq(Data)
         /\ Line'
<1>1. CASE queue = <<>>
  <2>1. at' = [at EXCEPT ![m] = next] /\ queue' = <<>>
    BY <1>1 DEF ReleaseTo
  <2>2. at' \in [Data -> Holding \cup {"none", "wait", "queued", "advance", "done"}]
    BY <2>1 DEF TypeOK
  <2>3. Line'
    BY <2>1 DEF Line
  <2> QED
    BY <2>1, <2>2, <2>3 DEF TypeOK
<1>2. CASE queue # <<>>
  <2> DEFINE h == Head(queue)
  <2>1. h \in Data /\ h = queue[1] /\ Len(queue) \in Nat /\ 1 \in 1..Len(queue) /\ at[h] = "queued" /\ h # m
    BY <1>2 DEF TypeOK, Line
  <2>2. at' = [at EXCEPT ![m] = next, ![h] = "locked"] /\ queue' = Tail(queue)
    BY <1>2 DEF ReleaseTo
  <2>3. /\ queue' \in Seq(Data)
        /\ Len(queue') = Len(queue) - 1
        /\ \A i \in 1..Len(queue') : i + 1 \in 1..Len(queue) /\ queue'[i] = queue[i + 1]
    BY <1>2, <2>1, <2>2 DEF TypeOK
  <2>4. at'[m] = next /\ at'[h] = "locked" /\ \A n \in Data : n # m /\ n # h => at'[n] = at[n]
    BY <2>1, <2>2 DEF TypeOK
  <2>5. at' \in [Data -> Holding \cup {"none", "wait", "queued", "advance", "done"}]
    BY <2>1, <2>2 DEF TypeOK, Holding
  <2>6. Line'
    <3>1. ASSUME NEW i \in 1..Len(queue') PROVE at'[queue'[i]] = "queued"
      <4>0. queue \in Seq(Data)
        BY DEF TypeOK
      <4>1. i + 1 \in 1..Len(queue) /\ queue'[i] = queue[i + 1] /\ i + 1 # 1 /\ queue[i + 1] \in Data
        BY <2>1, <2>3, <4>0
      <4>2. queue[i + 1] # h /\ at[queue[i + 1]] = "queued"
        BY <2>1, <4>1 DEF Line
      <4> QED
        BY <2>4, <4>1, <4>2
    <3>2. ASSUME NEW i \in 1..Len(queue'), NEW j \in 1..Len(queue'), queue'[i] = queue'[j] PROVE i = j
      <4>1. /\ i + 1 \in 1..Len(queue) /\ j + 1 \in 1..Len(queue)
            /\ queue[i + 1] = queue[j + 1]
        BY <2>3, <3>2
      <4>2. i + 1 = j + 1
        BY <4>1, Zenon DEF Line
      <4>3. i \in Int /\ j \in Int
        BY <2>1, <2>3
      <4> QED
        BY <4>2, <4>3
    <3> QED
      BY <3>1, <3>2 DEF Line
  <2> QED
    BY <2>1, <2>3, <2>4, <2>5, <2>6
<1> QED
  BY <1>1, <1>2

\* A handler that finds the connection completed gives the lock to the next in line ...
LEMMA BeginReleases ==
  ASSUME IInv, NEW m \in Data, BeginWrite(m), state = "Completed"
  PROVE  /\ at' \in [Data -> Holding \cup {"none", "wait", "queued", "advance", "done"}]
         /\ at'[m] = "advance"
         /\ \A n \in Data : n # m => at'[n] = at[n] \/ (at[n] = "queued" /\ at'[n] = "locked")
         /\ \A n, l \in Data : n # m /\ l # m /\ at'[n] # at[n] /\ at'[l] # at[l] => n = l
         /\ queue' \in Seq(Data)
         /\ Line'
<1>1. at[m] = "locked" /\ ReleaseTo(m, "advance")
  BY DEF BeginWrite
<1> QED
  BY <1>1, Release DEF IInv

\* ... and so does one that has written.
LEMMA EndReleases ==
  ASSUME IInv, NEW m \in Data, EndWrite(m)
  PROVE  /\ at' \in [Data -> Holding \cup {"none", "wait", "queued", "advance", "done"}]
         /\ at'[m] = IF todo[m] = <<>> THEN "done" ELSE "advance"
         /\ \A n \in Data : n # m => at'[n] = at[n] \/ (at[n] = "queued" /\ at'[n] = "locked")
         /\ \A n, l \in Data : n # m /\ l # m /\ at'[n] # at[n] /\ at'[l] # at[l] => n = l
         /\ queue' \in Seq(Data)
         /\ Line'
<1>1. at[m] = "end" /\ ReleaseTo(m, IF todo[m] = <<>> THEN "done" ELSE "advance")
  BY DEF EndWrite
<1> QED
  BY <1>1, Release DEF IInv

\* Types are preserved.
LEMMA TypeStep == IInv /\ [Next]_vars => TypeOK'
<1> SUFFICES ASSUME IInv, [Next]_vars PROVE TypeOK'
  OBVIOUS
<1> USE IncomingAssumption DEF IInv, TypeOK, bufferVars, pipeVars
<1>1. CASE Partial
  <2>1. sent' \in Data
    BY <1>1 DEF Partial, Data
  <2>2. sent' \in 0..MaxData
    BY <1>1 DEF Partial
  <2>3. buffered' \in Seq(Data)
    BY <1>1, <2>1 DEF Partial
  <2>4. scan' \in [Data -> {"no", "valid", "invalid"}]
    BY <1>1 DEF Partial, Invalidate
  <2>5. overtaken' \in BOOLEAN
    BY <1>1 DEF Partial
  <2>6. at' \in [Data -> Holding \cup {"none", "wait", "queued", "advance", "done"}]
    BY <1>1, <2>1 DEF Partial
  <2>7. UNCHANGED <<returned, todo, onLoop, queue, pipeVars, closer, cleared>>
    BY <1>1 DEF Partial
  <2> QED
    BY <2>1, <2>2, <2>3, <2>4, <2>5, <2>6, <2>7
<1>2. CASE Full
  <2>1. sent' \in Data
    BY <1>2 DEF Full, Data
  <2>2. sent' \in 0..MaxData
    BY <1>2 DEF Full
  <2>3. overtaken' \in BOOLEAN
    BY <1>2 DEF Full
  <2>4. at' \in [Data -> Holding \cup {"none", "wait", "queued", "advance", "done"}]
    BY <1>2, <2>1 DEF Full
  <2>5. todo' \in [Data -> Seq(Data)]
    <3>1. Append(buffered, sent') \in Seq(Data)
      BY <2>1, AppendProperties
    <3>2. todo' = todo \/ todo' = [todo EXCEPT ![sent'] = Append(buffered, sent')]
      BY <1>2 DEF Full
    <3> QED
      BY <3>1, <3>2
  <2>6. scan' \in [Data -> {"no", "valid", "invalid"}]
    BY <1>2, <2>1 DEF Full
  <2>7. onLoop' \in Data \cup Closers \cup {Nobody}
    BY <1>2, <2>1 DEF Full
  <2>8. queue' \in Seq(Data)
    BY <1>2 DEF Full
  <2>9. UNCHANGED <<buffered, returned, pipeVars, closer, cleared>>
    BY <1>2 DEF Full
  <2> QED
    BY <2>1, <2>2, <2>3, <2>4, <2>5, <2>6, <2>7, <2>8, <2>9
<1>3. CASE Reconnect
  <2>1. buffered' \in Seq(Data)
    BY <1>3 DEF Reconnect, ClearBufferedMessages
  <2>2. scan' \in [Data -> {"no", "valid", "invalid"}]
    BY <1>3 DEF Reconnect, ClearBufferedMessages, Invalidate
  <2>3. overtaken' \in BOOLEAN /\ cleared' \in BOOLEAN
    BY <1>3 DEF Reconnect, ClearBufferedMessages
  <2>4. UNCHANGED <<sent, returned, at, todo, onLoop, queue, pipeVars, closer>>
    BY <1>3 DEF Reconnect
  <2> QED
    BY <2>1, <2>2, <2>3, <2>4
<1>4. ASSUME NEW m \in Data, WaitAsync(m) PROVE TypeOK'
  <2>1. at' \in [Data -> Holding \cup {"none", "wait", "queued", "advance", "done"}]
    BY <1>4 DEF WaitAsync, Holding
  <2>2. queue' \in Seq(Data)
    <3>1. Append(queue, m) \in Seq(Data)
      BY AppendProperties
    <3>2. queue' = queue \/ queue' = Append(queue, m)
      BY <1>4 DEF WaitAsync
    <3> QED
      BY <3>1, <3>2
  <2>3. onLoop' \in Data \cup Closers \cup {Nobody}
    BY <1>4 DEF WaitAsync, Leave
  <2>4. UNCHANGED <<sent, bufferVars, todo, scan, pipeVars, closer>>
    BY <1>4 DEF WaitAsync
  <2> QED
    BY <2>1, <2>2, <2>3, <2>4
<1>5. ASSUME NEW m \in Data, BeginWrite(m) PROVE TypeOK'
  <2>1. at' \in [Data -> Holding \cup {"none", "wait", "queued", "advance", "done"}]
    BY <1>5, BeginReleases, SMTT(20), ZenonT(60) DEF BeginWrite, Holding
  <2>2. queue' \in Seq(Data)
    BY <1>5, BeginReleases DEF BeginWrite
  <2>3. state' \in {"Idle", "Writing", "Completed"}
    BY <1>5 DEF BeginWrite
  <2>4. UNCHANGED <<sent, bufferVars, todo, scan, onLoop, complete, received, closer>>
    BY <1>5 DEF BeginWrite
  <2> QED
    BY <2>1, <2>2, <2>3, <2>4
<1>6. ASSUME NEW m \in Data, WritePipe(m) PROVE TypeOK'
  <2>1. at' \in [Data -> Holding \cup {"none", "wait", "queued", "advance", "done"}]
    <3>1. at' = [at EXCEPT ![m] = "end"] \/ at' = [at EXCEPT ![m] = "flush"]
      BY <1>6 DEF WritePipe
    <3> QED
      BY <3>1 DEF Holding
  <2>2. Head(todo[m]) \in Data
    BY <1>6 DEF WritePipe, Work
  <2>3. returned' \subseteq Data
    BY <1>6, <2>2 DEF WritePipe
  <2>4. todo' \in [Data -> Seq(Data)]
    <3>1. todo' = todo \/ todo' = [todo EXCEPT ![m] = <<>>]
      BY <1>6 DEF WritePipe
    <3>2. <<>> \in Seq(Data)
      OBVIOUS
    <3> QED
      BY <3>1, <3>2
  <2>5. scan' \in [Data -> {"no", "valid", "invalid"}]
    BY <1>6 DEF WritePipe
  <2>6. received' \in Seq(Data \cup {Junk})
    <3>1. \A x \in Data \cup {Junk} : Append(received, x) \in Seq(Data \cup {Junk})
      BY AppendProperties
    <3>2. received' = received \/ \E x \in Bytes(Head(todo[m])) : received' = Append(received, x)
      BY <1>6 DEF WritePipe
    <3>3. Bytes(Head(todo[m])) \subseteq Data \cup {Junk}
      BY <2>2 DEF Bytes
    <3> QED
      BY <3>1, <3>2, <3>3, ZenonT(60)
  <2>7. UNCHANGED <<sent, buffered, overtaken, cleared, onLoop, queue, state, complete, closer>>
    BY <1>6 DEF WritePipe
  <2> QED
    BY <2>1, <2>2, <2>3, <2>4, <2>5, <2>6, <2>7
<1>7. ASSUME NEW m \in Data, FlushReturns(m) PROVE TypeOK'
  <2>1. at' \in [Data -> Holding \cup {"none", "wait", "queued", "advance", "done"}]
    BY <1>7 DEF FlushReturns, Holding
  <2>2. UNCHANGED <<sent, bufferVars, todo, scan, onLoop, queue, pipeVars, closer>>
    BY <1>7 DEF FlushReturns
  <2> QED
    BY <2>1, <2>2
<1>8. ASSUME NEW m \in Data, EndWrite(m) PROVE TypeOK'
  <2>1. at' \in [Data -> Holding \cup {"none", "wait", "queued", "advance", "done"}]
    BY <1>8, EndReleases DEF EndWrite
  <2>2. queue' \in Seq(Data)
    BY <1>8, EndReleases DEF EndWrite
  <2>3. state' \in {"Idle", "Writing", "Completed"}
    BY <1>8 DEF EndWrite
  <2>4. complete' \in BOOLEAN
    BY <1>8 DEF EndWrite
  <2>5. onLoop' \in Data \cup Closers \cup {Nobody}
    BY <1>8 DEF EndWrite, Leave
  <2>6. UNCHANGED <<sent, bufferVars, todo, scan, received, closer>>
    BY <1>8 DEF EndWrite
  <2> QED
    BY <2>1, <2>2, <2>3, <2>4, <2>5, <2>6
<1>9. ASSUME NEW m \in Data, Advance(m) PROVE TypeOK'
  <2>1. at' \in [Data -> Holding \cup {"none", "wait", "queued", "advance", "done"}]
    BY <1>9 DEF Advance
  <2>2. Head(todo[m]) \in Data /\ todo[m] # <<>>
    BY <1>9 DEF Advance, Work
  <2>3. returned' \subseteq Data
    BY <1>9, <2>2 DEF Advance
  <2>4. todo' \in [Data -> Seq(Data)]
    <3>1. todo' = [todo EXCEPT ![m] = <<>>] \/ todo' = [todo EXCEPT ![m] = Tail(@)]
      BY <1>9 DEF Advance
    <3>2. <<>> \in Seq(Data) /\ Tail(todo[m]) \in Seq(Data)
      BY <2>2
    <3> QED
      BY <3>1, <3>2
  <2>5. scan' \in [Data -> {"no", "valid", "invalid"}]
    BY <1>9 DEF Advance, Invalidate
  <2>6. buffered' \in Seq(Data)
    <3>1. buffered' = buffered \/ buffered' = <<>>
      BY <1>9 DEF Advance
    <3>2. <<>> \in Seq(Data) /\ buffered \in Seq(Data)
      OBVIOUS
    <3> QED
      BY <3>1, <3>2
  <2>7. onLoop' \in Data \cup Closers \cup {Nobody}
    BY <1>9 DEF Advance, Leave
  <2>8. UNCHANGED <<sent, queue, pipeVars, closer, overtaken, cleared>>
    BY <1>9 DEF Advance
  <2> QED
    BY <2>1, <2>2, <2>3, <2>4, <2>5, <2>6, <2>7, <2>8
<1>10. ASSUME NEW m \in Data, Suspend(m) PROVE TypeOK'
  <2>1. onLoop' \in Data \cup Closers \cup {Nobody}
    BY <1>10 DEF Suspend
  <2>2. UNCHANGED <<sent, bufferVars, at, todo, scan, queue, pipeVars, closer>>
    BY <1>10 DEF Suspend
  <2> QED
    BY <2>1, <2>2
<1>11. ASSUME NEW k \in Closers, BeginMigration(k) PROVE TypeOK'
  <2>1. closer' \in [Closers -> {"idle", "first", "firstCancel", "firstComplete", "begin",
                              "exchange", "cancel", "complete", "wait"}]
    BY <1>11 DEF BeginMigration
  <2>2. onLoop' \in Data \cup Closers \cup {Nobody}
    BY <1>11 DEF BeginMigration
  <2>3. UNCHANGED <<sent, bufferVars, at, todo, scan, queue, pipeVars>>
    BY <1>11 DEF BeginMigration
  <2> QED
    BY <2>1, <2>2, <2>3
<1>12. ASSUME NEW k \in Closers, PerformDisconnect(k) PROVE TypeOK'
  <2>1. closer' \in [Closers -> {"idle", "first", "firstCancel", "firstComplete", "begin",
                              "exchange", "cancel", "complete", "wait"}]
    BY <1>12 DEF PerformDisconnect
  <2>2. onLoop' \in Data \cup Closers \cup {Nobody}
    BY <1>12 DEF PerformDisconnect
  <2>3. buffered' \in Seq(Data)
    BY <1>12 DEF PerformDisconnect, ClearBufferedMessages
  <2>4. scan' \in [Data -> {"no", "valid", "invalid"}]
    BY <1>12 DEF PerformDisconnect, ClearBufferedMessages, Invalidate
  <2>5. overtaken' \in BOOLEAN /\ cleared' \in BOOLEAN
    BY <1>12 DEF PerformDisconnect, ClearBufferedMessages
  <2>6. UNCHANGED <<sent, returned, at, todo, queue, pipeVars>>
    BY <1>12 DEF PerformDisconnect
  <2> QED
    BY <2>1, <2>2, <2>3, <2>4, <2>5, <2>6
<1>13. ASSUME NEW k \in Closers, Exchange(k) PROVE TypeOK'
  <2>1. closer' \in [Closers -> {"idle", "first", "firstCancel", "firstComplete", "begin",
                              "exchange", "cancel", "complete", "wait"}]
    BY <1>13 DEF Exchange
  <2>2. state' \in {"Idle", "Writing", "Completed"}
    BY <1>13 DEF Exchange
  <2>3. UNCHANGED <<sent, bufferVars, at, todo, scan, onLoop, queue, complete, received>>
    BY <1>13 DEF Exchange
  <2> QED
    BY <2>1, <2>2, <2>3
<1>14. ASSUME NEW k \in Closers, CancelAndComplete(k) PROVE TypeOK'
  <2>1. closer' \in [Closers -> {"idle", "first", "firstCancel", "firstComplete", "begin",
                              "exchange", "cancel", "complete", "wait"}]
    BY <1>14 DEF CancelAndComplete
  <2>2. complete' \in BOOLEAN
    BY <1>14 DEF CancelAndComplete
  <2>3. onLoop' \in Data \cup Closers \cup {Nobody}
    BY <1>14 DEF CancelAndComplete, Leave
  <2>4. UNCHANGED <<sent, bufferVars, at, todo, scan, queue, state, received>>
    BY <1>14 DEF CancelAndComplete
  <2> QED
    BY <2>1, <2>2, <2>3, <2>4
<1>15. CASE UNCHANGED vars
  BY <1>15 DEF vars
<1> QED
  BY <1>1, <1>2, <1>3, <1>4, <1>5, <1>6, <1>7, <1>8, <1>9, <1>10, <1>11, <1>12, <1>13, <1>14,
       <1>15
     DEF Next, HandlerStep, CloserStep

\* Handlers have work.
LEMMA WorkStep == IInv /\ [Next]_vars => Work'
<1> SUFFICES ASSUME IInv, [Next]_vars PROVE Work'
  OBVIOUS
<1> USE DEF IInv, TypeOK, Work
<1>1. CASE Partial
  <2>1. sent' = sent + 1 /\ sent' \in Data /\ at' = [at EXCEPT ![sent'] = "done"] /\ UNCHANGED todo
    BY <1>1, IncomingAssumption DEF Partial, Data
  <2> QED
    BY <2>1 DEF Data
<1>2. CASE Full
  <2>1. sent' = sent + 1 /\ sent' \in Data
    BY <1>2, IncomingAssumption DEF Full, Data
  <2>2. Append(buffered, sent') # <<>>
    <3>1. Len(Append(buffered, sent')) # 0 /\ Len(<<>>) = 0
      BY <2>1
    <3> QED
      BY <3>1, Zenon
  <2>3. CASE at' = [at EXCEPT ![sent'] = "done"] /\ UNCHANGED todo
    BY <2>1, <2>3 DEF Data
  <2>4. CASE at' = [at EXCEPT ![sent'] = "wait"] /\ todo' = [todo EXCEPT ![sent'] = Append(buffered, sent')]
    BY <2>1, <2>2, <2>4 DEF Data
  <2> QED
    BY <1>2, <2>3, <2>4 DEF Full
<1>3. ASSUME NEW m \in Data, BeginWrite(m) PROVE Work'
  <2>1. CASE state = "Completed"
    <3>1. UNCHANGED <<todo, sent>> /\ at[m] = "locked"
      BY <1>3 DEF BeginWrite, bufferVars
    <3>2. m <= sent
      BY <3>1 DEF Data
    <3> QED
      BY <1>3, <2>1, <3>1, <3>2, BeginReleases, ZenonT(60)
  <2>2. CASE state # "Completed"
    BY <1>3, <2>2 DEF BeginWrite, Data
  <2> QED
    BY <2>1, <2>2
<1>4. ASSUME NEW m \in Data, EndWrite(m) PROVE Work'
  <2>1. UNCHANGED <<todo, sent>> /\ at[m] = "end"
    BY <1>4 DEF EndWrite
  <2>2. m <= sent
    BY <2>1 DEF Data
  <2> QED
    BY <1>4, <2>1, <2>2, EndReleases, ZenonT(60)
<1>5. ASSUME NEW m \in Data, Advance(m) PROVE Work'
  <2>1. at[m] = "advance" /\ UNCHANGED sent /\ m <= sent /\ todo[m] # <<>> /\ todo[m] \in Seq(Data)
    BY <1>5 DEF Advance, Data
  <2>2. CASE at' = [at EXCEPT ![m] = "done"] /\ todo' = [todo EXCEPT ![m] = <<>>]
    BY <2>1, <2>2
  <2>3. CASE /\ Len(todo[m]) # 1
             /\ at' = [at EXCEPT ![m] = "wait"]
             /\ todo' = [todo EXCEPT ![m] = Tail(@)]
    <3>1. Len(Tail(todo[m])) # 0 /\ Len(<<>>) = 0
      BY <2>1, <2>3
    <3>2. Tail(todo[m]) # <<>>
      BY <3>1, Zenon
    <3> QED
      BY <2>1, <2>3, <3>2
  <2> QED
    BY <1>5, <2>2, <2>3 DEF Advance
<1>6. ASSUME NEW m \in Data, WaitAsync(m) \/ FlushReturns(m) \/ Suspend(m) PROVE Work'
  BY <1>6, SMTT(20), ZenonT(60) DEF WaitAsync, FlushReturns, Suspend, Data
<1>7. ASSUME NEW m \in Data, WritePipe(m) PROVE Work'
  BY <1>7, ZenonT(60) DEF WritePipe, Data
<1>8. CASE UNCHANGED <<sent, at, todo>>
  BY <1>8
<1> QED
  BY <1>1, <1>2, <1>3, <1>4, <1>5, <1>6, <1>7, <1>8
     DEF Next, HandlerStep, CloserStep, Reconnect, BeginMigration, PerformDisconnect, Exchange,
         CancelAndComplete, vars

\* Every step is of one of these kinds, or takes or releases the lock, or closes.
LEMMA Kinds ==
  IInv /\ [Next]_vars =>
    \/ Quiet
    \/ \E m \in Data : Outside(m) \/ Inside(m) \/ WaitAsync(m) \/ BeginWrite(m) \/ EndWrite(m)
    \/ \E k \in Closers : BeginMigration(k) \/ PerformDisconnect(k) \/ Exchange(k) \/ CancelAndComplete(k)
<1> SUFFICES ASSUME IInv, [Next]_vars
             PROVE  \/ Quiet
                    \/ \E m \in Data : Outside(m) \/ Inside(m) \/ WaitAsync(m) \/ BeginWrite(m) \/ EndWrite(m)
                    \/ \E k \in Closers : \/ BeginMigration(k) \/ PerformDisconnect(k)
                                          \/ Exchange(k) \/ CancelAndComplete(k)
  OBVIOUS
<1>1. CASE Partial \/ Full
  <2>1. sent' \in Data /\ at[sent'] = "none"
    BY <1>1, IncomingAssumption DEF Partial, Full, IInv, TypeOK, Work, Data
  <2>2. Outside(sent')
    BY <1>1, <2>1 DEF Partial, Full, Outside, pipeVars
  <2> QED
    BY <2>1, <2>2
<1>2. CASE Reconnect
  BY <1>2 DEF Reconnect, Quiet, pipeVars
<1>3. ASSUME NEW m \in Data, WritePipe(m) PROVE Inside(m)
  BY <1>3 DEF WritePipe, Inside
<1>4. ASSUME NEW m \in Data, FlushReturns(m) PROVE Inside(m)
  BY <1>4 DEF FlushReturns, Inside, pipeVars
<1>5. ASSUME NEW m \in Data, Advance(m) PROVE Outside(m)
  BY <1>5 DEF Advance, Outside, pipeVars
<1>6. ASSUME NEW m \in Data, Suspend(m) PROVE Quiet
  BY <1>6 DEF Suspend, Quiet, pipeVars
<1>7. CASE UNCHANGED vars
  BY <1>7 DEF vars, Quiet
<1> QED
  BY <1>1, <1>2, <1>3, <1>4, <1>5, <1>6, <1>7 DEF Next, HandlerStep, CloserStep

\* The line at the lock stays a line.
LEMMA LineStep == IInv /\ [Next]_vars => Line'
<1> SUFFICES ASSUME IInv, [Next]_vars PROVE Line'
  OBVIOUS
<1> USE IncomingAssumption DEF IInv, TypeOK, Line, pipeVars
<1>1. CASE Quiet
  BY <1>1 DEF Quiet
<1>2. ASSUME NEW m \in Data, Outside(m) PROVE Line'
  BY <1>2 DEF Outside
<1>3. ASSUME NEW m \in Data, Inside(m) PROVE Line'
  BY <1>3 DEF Inside
<1>4. ASSUME NEW m \in Data, WaitAsync(m) PROVE Line'
  <2>1. m \in Data /\ at[m] = "wait"
    BY <1>4 DEF WaitAsync
  <2>2. \A i \in 1..Len(queue) : queue[i] # m /\ queue[i] \in Data
    BY <2>1
  <2>3. CASE at' = [at EXCEPT ![m] = "queued"] /\ queue' = Append(queue, m)
    <3>1. /\ Len(queue') = Len(queue) + 1 /\ Len(queue) \in Nat
          /\ \A i \in 1..Len(queue) : queue'[i] = queue[i]
          /\ queue'[Len(queue) + 1] = m
      BY <2>3, AppendProperties
    <3>2. \A i \in 1..Len(queue') : i \in 1..Len(queue) \/ i = Len(queue) + 1
      BY <3>1
    <3>3. ASSUME NEW i \in 1..Len(queue') PROVE at'[queue'[i]] = "queued"
      BY <2>1, <2>2, <2>3, <3>1, <3>2
    <3>4. ASSUME NEW i \in 1..Len(queue'), NEW j \in 1..Len(queue'), queue'[i] = queue'[j] PROVE i = j
      <4>1. CASE i \in 1..Len(queue) /\ j \in 1..Len(queue)
        BY <3>1, <3>4, <4>1
      <4>2. CASE i = Len(queue) + 1 \/ j = Len(queue) + 1
        BY <2>2, <3>1, <3>2, <3>4, <4>2
      <4> QED
        BY <3>2, <4>1, <4>2
    <3> QED
      BY <3>3, <3>4
  <2>4. CASE at' = [at EXCEPT ![m] = "locked"] /\ UNCHANGED queue
    BY <2>1, <2>2, <2>4
  <2> QED
    BY <1>4, <2>3, <2>4 DEF WaitAsync
<1>5. ASSUME NEW m \in Data, BeginWrite(m) PROVE Line'
  BY <1>5, BeginReleases, SMTT(20), ZenonT(60) DEF BeginWrite
<1>6. ASSUME NEW m \in Data, EndWrite(m) PROVE Line'
  BY <1>6, EndReleases DEF EndWrite
<1>7. ASSUME NEW k \in Closers, BeginMigration(k) PROVE Line'
  BY <1>7 DEF BeginMigration, Found
<1>8. ASSUME NEW k \in Closers, PerformDisconnect(k) PROVE Line'
  BY <1>8 DEF PerformDisconnect, Found
<1>9. ASSUME NEW k \in Closers, Exchange(k) PROVE Line'
  BY <1>9 DEF Exchange
<1>10. ASSUME NEW k \in Closers, CancelAndComplete(k) PROVE Line'
  BY <1>10 DEF CancelAndComplete
<1> QED
  BY <1>1, <1>2, <1>3, <1>4, <1>5, <1>6, <1>7, <1>8, <1>9, <1>10, Kinds

\* The lock excludes.
LEMMA LockStep == IInv /\ [Next]_vars => Lock'
<1> SUFFICES ASSUME IInv, [Next]_vars PROVE Lock'
  OBVIOUS
<1> USE IncomingAssumption DEF IInv, TypeOK, pipeVars, Lock, InWrite, Holding
<1>1. CASE Quiet
  BY <1>1 DEF Quiet
<1>2. ASSUME NEW m \in Data, Outside(m) PROVE Lock'
  BY <1>2 DEF Outside
<1>3. ASSUME NEW m \in Data, Inside(m) PROVE Lock'
  BY <1>3 DEF Inside
<1>4. ASSUME NEW m \in Data, WaitAsync(m) PROVE Lock'
  <2>1. at[m] = "wait" /\ UNCHANGED <<state, complete, closer>>
    BY <1>4 DEF WaitAsync
  <2>2. CASE at' = [at EXCEPT ![m] = "queued"]
    BY <2>1, <2>2
  <2>3. CASE at' = [at EXCEPT ![m] = "locked"] /\ ~Held
    BY <2>1, <2>3 DEF Held
  <2> QED
    BY <1>4, <2>2, <2>3 DEF WaitAsync
<1>5. ASSUME NEW m \in Data, BeginWrite(m) PROVE Lock'
  <2>1. at[m] = "locked"
    BY <1>5 DEF BeginWrite
  <2>2. CASE state = "Completed"
    <3>1. UNCHANGED state
      BY <1>5, <2>2 DEF BeginWrite
    <3>2. \A n \in Data : at'[n] \in Holding => at'[n] = "locked" /\ at[n] = "queued" /\ n # m
      BY <1>5, <2>1, <2>2, BeginReleases
    <3>3. \A n, l \in Data : at'[n] \in Holding /\ at'[l] \in Holding => n = l
      <4>1. \A n \in Data : at'[n] \in Holding => n # m /\ at'[n] # at[n]
        BY <3>2
      <4>2. \A n, l \in Data : n # m /\ l # m /\ at'[n] # at[n] /\ at'[l] # at[l] => n = l
        BY <1>5, <2>2, BeginReleases
      <4> QED
        BY <4>1, <4>2
    <3> QED
      BY <2>2, <3>1, <3>2, <3>3
  <2>3. CASE state # "Completed"
    <3>1. state' = "Writing" /\ at' = [at EXCEPT ![m] = "write"]
      BY <1>5, <2>3 DEF BeginWrite
    <3> QED
      BY <2>1, <3>1
  <2> QED
    BY <2>2, <2>3
<1>6. ASSUME NEW m \in Data, EndWrite(m) PROVE Lock'
  <2>1. at[m] = "end" /\ state' # "Writing"
    BY <1>6 DEF EndWrite
  <2>2. \A n \in Data : at'[n] \in Holding => at'[n] = "locked" /\ at[n] = "queued" /\ n # m
    BY <1>6, <2>1, EndReleases
  <2>3. \A n, l \in Data : at'[n] \in Holding /\ at'[l] \in Holding => n = l
    <3>1. \A n \in Data : at'[n] \in Holding => n # m /\ at'[n] # at[n]
      BY <2>2
    <3>2. \A n, l \in Data : n # m /\ l # m /\ at'[n] # at[n] /\ at'[l] # at[l] => n = l
      BY <1>6, EndReleases
    <3> QED
      BY <3>1, <3>2
  <2> QED
    BY <2>1, <2>2, <2>3
<1>7. ASSUME NEW k \in Closers, BeginMigration(k) PROVE Lock'
  BY <1>7 DEF BeginMigration, Found
<1>8. ASSUME NEW k \in Closers, PerformDisconnect(k) PROVE Lock'
  BY <1>8 DEF PerformDisconnect, Found
<1>9. ASSUME NEW k \in Closers, Exchange(k) PROVE Lock'
  BY <1>9 DEF Exchange
<1>10. ASSUME NEW k \in Closers, CancelAndComplete(k) PROVE Lock'
  BY <1>10 DEF CancelAndComplete
<1> QED
  BY <1>1, <1>2, <1>3, <1>4, <1>5, <1>6, <1>7, <1>8, <1>9, <1>10, Kinds

\* Writers and closers leave the completion to each other.
LEMMA ClosesStep == IInv /\ [Next]_vars => Closes'
<1> SUFFICES ASSUME IInv, [Next]_vars PROVE Closes'
  OBVIOUS
<1> USE IncomingAssumption DEF IInv, TypeOK, pipeVars, Lock, Closes, Exchanged,
         CompletionNotLost, InWrite, Holding
<1>1. CASE Quiet
  BY <1>1 DEF Quiet
<1>2. ASSUME NEW m \in Data, Outside(m) PROVE Closes'
  BY <1>2 DEF Outside
<1>3. ASSUME NEW m \in Data, Inside(m) PROVE Closes'
  BY <1>3 DEF Inside
<1>4. ASSUME NEW m \in Data, WaitAsync(m) PROVE Closes'
  BY <1>4 DEF WaitAsync, Held
<1>5. ASSUME NEW m \in Data, BeginWrite(m) PROVE Closes'
  BY <1>5, BeginReleases DEF BeginWrite
<1>6. ASSUME NEW m \in Data, EndWrite(m) PROVE Closes'
  BY <1>6, EndReleases DEF EndWrite
<1>7. ASSUME NEW k \in Closers, BeginMigration(k) PROVE Closes'
  BY <1>7, SMTT(20), ZenonT(60) DEF BeginMigration, Found
<1>8. ASSUME NEW k \in Closers, PerformDisconnect(k) PROVE Closes'
  BY <1>8, SMTT(20), ZenonT(60) DEF PerformDisconnect, Found
<1>9. ASSUME NEW k \in Closers, Exchange(k) PROVE Closes'
  BY <1>9 DEF Exchange
<1>10. ASSUME NEW k \in Closers, CancelAndComplete(k) PROVE Closes'
  BY <1>10 DEF CancelAndComplete
<1> QED
  BY <1>1, <1>2, <1>3, <1>4, <1>5, <1>6, <1>7, <1>8, <1>9, <1>10, Kinds

\* Contention does not go away.
LEMMA ContendedStays == IInv /\ [Next]_vars => (Contended => Contended')
<1> SUFFICES ASSUME IInv, [Next]_vars PROVE \A k \in Closers : closer[k] # "idle" => closer'[k] # "idle"
  BY IncomingAssumption DEF Contended
<1>1. CASE UNCHANGED closer
  BY <1>1
<1>2. ASSUME NEW l \in Closers, BeginMigration(l) \/ PerformDisconnect(l) \/ Exchange(l) \/ CancelAndComplete(l)
      PROVE  \A k \in Closers : closer[k] # "idle" => closer'[k] # "idle"
  BY <1>2 DEF IInv, TypeOK, BeginMigration, PerformDisconnect, Exchange, CancelAndComplete
<1> QED
  BY <1>1, <1>2, Kinds DEF Quiet, Outside, Inside, WaitAsync, BeginWrite, EndWrite

\* No write begins once the state is Completed.
LEMMA NoNewWriter ==
  IInv /\ [Next]_vars /\ state = "Completed" => \A m \in Data : InWrite(m)' => InWrite(m)
<1> SUFFICES ASSUME IInv, [Next]_vars, state = "Completed" PROVE \A m \in Data : InWrite(m)' => InWrite(m)
  OBVIOUS
<1> USE DEF IInv, TypeOK, InWrite
<1>1. CASE UNCHANGED at
  BY <1>1
<1>2. ASSUME NEW n \in Data, Outside(n) PROVE \A m \in Data : InWrite(m)' => InWrite(m)
  BY <1>2 DEF Outside
<1>3. ASSUME NEW n \in Data, Inside(n) PROVE \A m \in Data : InWrite(m)' => InWrite(m)
  BY <1>3 DEF Inside
<1>4. ASSUME NEW n \in Data, WaitAsync(n) PROVE \A m \in Data : InWrite(m)' => InWrite(m)
  BY <1>4 DEF WaitAsync
<1>5. ASSUME NEW n \in Data, BeginWrite(n) PROVE \A m \in Data : InWrite(m)' => InWrite(m)
  BY <1>5, BeginReleases
<1>6. ASSUME NEW n \in Data, EndWrite(n) PROVE \A m \in Data : InWrite(m)' => InWrite(m)
  BY <1>6, EndReleases
<1> QED
  BY <1>1, <1>2, <1>3, <1>4, <1>5, <1>6, Kinds
     DEF Quiet, BeginMigration, PerformDisconnect, Exchange, CancelAndComplete

\* A writer meets a completed pipe only under contention.
LEMMA SparesStep == IInv /\ [Next]_vars => Spares'
<1> SUFFICES ASSUME IInv, [Next]_vars PROVE Spares'
  OBVIOUS
<1>1. \A k \in Closers : closer[k] \in {"complete", "firstComplete"} => state = "Completed"
  BY DEF IInv, Closes, Exchanged
<1>2. complete => state = "Completed"
  BY DEF IInv, Closes
<1>3. CASE UNCHANGED <<complete, closer>>
  BY <1>1, <1>2, <1>3, ContendedStays, NoNewWriter DEF IInv, Spares
<1>4. ASSUME NEW m \in Data, EndWrite(m) PROVE Spares'
  <2>1. \A n \in Data : ~InWrite(n)'
    <3>1. at'[m] \in {"done", "advance"}
      BY <1>4, EndReleases
    <3>2. \A n \in Data : n # m => at'[n] = at[n] \/ at'[n] = "locked"
      BY <1>4, EndReleases
    <3>3. \A n \in Data : n # m => at[n] \notin Holding
      BY <1>4 DEF EndWrite, IInv, Lock, Holding
    <3> QED
      BY <3>1, <3>2, <3>3 DEF InWrite, Holding
  <2> QED
    BY <2>1 DEF Spares
<1>5. ASSUME NEW k \in Closers, BeginMigration(k) \/ PerformDisconnect(k) PROVE Spares'
  <2>1. /\ UNCHANGED complete
        /\ \A l \in Closers : closer'[l] \in {"complete", "firstComplete"} => closer'[l] = closer[l]
    BY <1>5 DEF BeginMigration, PerformDisconnect, pipeVars, IInv, TypeOK
  <2> QED
    BY <1>1, <1>2, <2>1, ContendedStays, NoNewWriter DEF IInv, Spares
<1>6. ASSUME NEW k \in Closers, Exchange(k) PROVE Spares'
  <2>1. UNCHANGED <<at, complete>> /\ \A l \in Closers : l # k => closer'[l] = closer[l]
    BY <1>6 DEF Exchange, IInv, TypeOK
  <2>2. ASSUME closer'[k] \in {"complete", "firstComplete"}, NEW m \in Data, InWrite(m)' PROVE Contended'
    <3>1. state # "Writing" /\ state # "Idle" /\ state = "Completed"
      BY <1>6, <2>1, <2>2 DEF Exchange, IInv, TypeOK, Lock, InWrite
    <3>2. PICK l \in Closers : Exchanged(l)
      BY <3>1 DEF IInv, Closes
    <3>3. CASE l = k
      <4>1. k \in Migrating
        BY <1>6, <3>2, <3>3 DEF Exchange, Exchanged, IInv, Closes
      <4> QED
        BY <2>2, <4>1 DEF Contended
    <3>4. CASE l # k
      <4>1. closer'[l] # "idle" /\ closer'[k] # "idle"
        BY <2>1, <2>2, <3>2, <3>4 DEF Exchanged
      <4> QED
        BY <3>4, <4>1 DEF Contended
    <3> QED
      BY <3>3, <3>4
  <2> QED
    BY <1>1, <1>2, <2>1, <2>2, ContendedStays, NoNewWriter DEF IInv, Spares
<1>7. ASSUME NEW k \in Closers, CancelAndComplete(k) PROVE Spares'
  <2>1. /\ \A l \in Closers : closer'[l] \in {"complete", "firstComplete"} => closer'[l] = closer[l]
        /\ complete' => complete \/ closer[k] \in {"firstComplete", "complete"}
    BY <1>7 DEF CancelAndComplete, IInv, TypeOK
  <2> QED
    BY <1>1, <1>2, <2>1, ContendedStays, NoNewWriter DEF IInv, Spares
<1> QED
  BY <1>3, <1>4, <1>5, <1>6, <1>7, Kinds DEF Quiet, Outside, Inside, WaitAsync, BeginWrite,
           pipeVars

\* The invariant holds in every behaviour.
LEMMA Invariance == Spec => []IInv
<1>1. IInv /\ [Next]_vars => IInv'
  BY TypeStep, WorkStep, LineStep, LockStep, ClosesStep, SparesStep DEF IInv
<1> QED
  BY <1>1, InitIInv, PTL DEF Spec

\* Every step of the incoming half is a step of the abstract pipe, or none.
LEMMA PipeStep == IInv /\ [Next]_vars => [Pipe!PipeNext]_(Pipe!pipe)
<1> SUFFICES ASSUME IInv, [Next]_vars PROVE [Pipe!PipeNext]_(Pipe!pipe)
  OBVIOUS
<1> USE DEF Phase, Pipe!pipe
<1>0. ASSUME UNCHANGED <<received, complete>>, state' = "Completed" <=> state = "Completed"
      PROVE  UNCHANGED <<Phase, received>>
  BY <1>0
<1>1. CASE Partial \/ Full \/ Reconnect
  BY <1>0, <1>1 DEF Partial, Full, Reconnect, pipeVars
<1>2. ASSUME NEW m \in Data, WaitAsync(m) \/ FlushReturns(m) \/ Advance(m) \/ Suspend(m)
      PROVE  UNCHANGED <<Phase, received>>
  BY <1>0, <1>2 DEF WaitAsync, FlushReturns, Advance, Suspend, pipeVars
<1>3. ASSUME NEW m \in Data, BeginWrite(m) PROVE UNCHANGED <<Phase, received>>
  BY <1>0, <1>3 DEF BeginWrite
<1>4. ASSUME NEW m \in Data, WritePipe(m) PROVE Pipe!Deliver \/ UNCHANGED <<Phase, received>>
  <2>1. UNCHANGED <<state, complete>>
    BY <1>4 DEF WritePipe
  <2>2. CASE complete
    BY <1>0, <1>4, <2>1, <2>2 DEF WritePipe
  <2>3. CASE ~complete
    <3>1. Head(todo[m]) \in Data
      BY <1>4 DEF WritePipe, IInv, TypeOK, Work
    <3>2. \E x \in Data \cup {Junk} : received' = Append(received, x)
      BY <1>4, <2>3, <3>1 DEF WritePipe, Bytes
    <3> QED
      BY <2>1, <2>3, <3>2 DEF Pipe!Deliver
  <2> QED
    BY <2>2, <2>3
<1>5. ASSUME NEW m \in Data, EndWrite(m) PROVE Pipe!FinishClose \/ UNCHANGED <<Phase, received>>
  BY <1>5 DEF EndWrite, Pipe!FinishClose, IInv, TypeOK
<1>6. ASSUME NEW k \in Closers, BeginMigration(k) \/ PerformDisconnect(k)
      PROVE  UNCHANGED <<Phase, received>>
  BY <1>0, <1>6 DEF BeginMigration, PerformDisconnect, pipeVars
<1>7. ASSUME NEW k \in Closers, Exchange(k) PROVE Pipe!BeginClose \/ UNCHANGED <<Phase, received>>
  BY <1>7 DEF Exchange, Pipe!BeginClose, IInv, TypeOK
<1>8. ASSUME NEW k \in Closers, CancelAndComplete(k)
      PROVE  Pipe!FinishClose \/ UNCHANGED <<Phase, received>>
  <2>1. state = "Completed" /\ UNCHANGED <<state, received>>
    BY <1>8 DEF CancelAndComplete, IInv, Closes, Exchanged
  <2> QED
    BY <1>8, <2>1 DEF CancelAndComplete, Pipe!FinishClose, IInv, TypeOK
<1>9. CASE UNCHANGED vars
  BY <1>9 DEF vars
<1> QED
  BY <1>1, <1>2, <1>3, <1>4, <1>5, <1>6, <1>7, <1>8, <1>9
     DEF Next, HandlerStep, CloserStep, Pipe!PipeNext

\* WriteToApplicationAsync, CompleteIncoming and PerformDisconnectAsync together keep the
\* safety of a closable pipe, for any number of messages and closers: nothing is delivered
\* once it is closed, closing is never taken back, and it begins before it ends.
THEOREM IncomingIsPipe == Spec => Pipe!PipeSafety
<1>1. Init => Pipe!PipeInit
  BY DEF Init, Pipe!PipeInit, Phase
<1> QED
  BY <1>1, Invariance, PipeStep, PTL DEF Spec, Pipe!PipeSafety

\* The type invariant, for any number of messages and closers.
THEOREM IncomingTypes == Spec => []TypeOK
<1>1. IInv => TypeOK
  BY DEF IInv
<1> QED
  BY <1>1, Invariance, PTL

\* The Exchange of CompleteIncoming and the CompareExchange of WriteToApplicationAsync
\* never leave the completion of the pipe to nobody.
THEOREM CompletionKept == Spec => []CompletionNotLost
<1>1. IInv => CompletionNotLost
  BY DEF IInv, Closes
<1> QED
  BY <1>1, Invariance, PTL

\* CompleteIncoming called once never completes the pipe under a write in progress.
THEOREM WriterSpared == Spec => []SingleCloserSparesWriter
<1>1. IInv => SingleCloserSparesWriter
  BY DEF IInv, Spares, InWrite, Contended, SingleCloserSparesWriter
<1> QED
  BY <1>1, Invariance, PTL
=============================================================================
