------------------------- MODULE ServiceConnection -------------------------
(***************************************************************************)
(* ServiceConnectionBase.cs: one server connection to the service, from    *)
(* StartAsync to the disposal of its transport.  StartAsync (variable      *)
(* main) connects, shakes hands, reads until it is told to stop and then   *)
(* cleans up.  Meanwhile application threads write through SafeWriteAsync, *)
(* the keep-alive timer watches for a silent service, and the container    *)
(* may call StopAsync at any time.  A read returns one message at a time.  *)
(***************************************************************************)
EXTENDS Naturals

CONSTANTS Writers   \* calls of SafeWriteAsync that may be in progress together

VARIABLES
  main,         \* where StartAsync is
  status,       \* Status
  context,      \* _connectionContext is set
  transport,    \* the underlying connection: none, open or disposed
  startTcs,     \* _serviceConnectionStartTcs
  offlineTcs,   \* _serviceConnectionOfflineTcs is completed
  errorMessage, \* _errorMessage is set
  canceled,     \* CancelPendingRead is pending on the transport's reader
  lock,         \* the holders of _writeLock
  writer,       \* where each SafeWriteAsync is
  service,      \* the service's end: up, closed, or dead (gone without closing)
  stale         \* nothing was received for DefaultServiceTimeout

vars == <<main, status, context, transport, startTcs, offlineTcs, errorMessage,
          canceled, lock, writer, service, stale>>

Main == "StartAsync"  \* the name under which StartAsync holds the write lock

ASSUME MainAssumption == Main \notin Writers

Init ==
  /\ main = "new"
  /\ status = "Inited"
  /\ context = FALSE
  /\ transport = "none"
  /\ startTcs = "none"
  /\ offlineTcs = FALSE
  /\ errorMessage = FALSE
  /\ canceled = FALSE
  /\ lock = {}
  /\ writer = [w \in Writers |-> "idle"]
  /\ service = "up"
  /\ stale = FALSE

\* What a step that only moves StartAsync on leaves alone.
unchangedByConnect == <<errorMessage, canceled, lock, writer, service, stale>>

-----------------------------------------------------------------------------
(* StartAsync up to the read loop.                                         *)

\* The CAS on _started lets one caller through; Status = Connecting.
Start ==
  /\ main = "new"
  /\ main' = "connect"
  /\ status' = "Connecting"
  /\ UNCHANGED <<context, transport, startTcs, offlineTcs, unchangedByConnect>>

\* CreateConnection returns a transport, or throws.
CreateConnection ==
  /\ main = "connect"
  /\ \/ /\ service = "up"
        /\ main' = "handshake"
        /\ transport' = "open"
     \/ /\ main' = "failed"
        /\ UNCHANGED transport
  /\ UNCHANGED <<status, context, startTcs, offlineTcs, unchangedByConnect>>

\* HandshakeAsync: success, or an error response, a closed pipe or the timeout, after
\* which the transport is disposed.
Handshake ==
  /\ main = "handshake"
  /\ \/ /\ service = "up"
        /\ main' = "established"
        /\ UNCHANGED transport
     \/ /\ main' = "failed"
        /\ transport' = "disposed"
  /\ UNCHANGED <<status, context, startTcs, offlineTcs, unchangedByConnect>>

\* _connectionContext = connection.
SetContext ==
  /\ main = "established"
  /\ main' = "announce"
  /\ context' = TRUE
  /\ UNCHANGED <<status, transport, startTcs, offlineTcs, unchangedByConnect>>

\* Status = Connected: from here on the container may write to the connection.
Announce ==
  /\ main = "announce"
  /\ main' = "initialized"
  /\ status' = "Connected"
  /\ UNCHANGED <<context, transport, startTcs, offlineTcs, unchangedByConnect>>

\* _serviceConnectionStartTcs is completed, the keep-alive timer started.
Initialized ==
  /\ main = "initialized"
  /\ main' = "read"
  /\ startTcs' = "true"
  /\ UNCHANGED <<status, context, transport, offlineTcs, unchangedByConnect>>

\* Mutant: the start task is forgotten on the failure path.
FailToConnectSilently ==
  /\ main = "failed"
  /\ main' = "done"
  /\ status' = "Disconnected"
  /\ UNCHANGED <<context, transport, startTcs, offlineTcs, unchangedByConnect>>

\* EstablishConnectionAsync returned null.
FailToConnect ==
  /\ main = "failed"
  /\ main' = "done"
  /\ status' = "Disconnected"
  /\ startTcs' = "false"
  /\ UNCHANGED <<context, transport, offlineTcs, unchangedByConnect>>

-----------------------------------------------------------------------------
(* ProcessIncomingAsync.                                                   *)

\* ReadAsync returns a message; TrySendPingAsync takes the write lock if it is free.
Receive ==
  /\ main = "read"
  /\ ~canceled
  /\ service = "up"
  /\ stale' = FALSE
  /\ IF lock = {}
     THEN main' = "ping" /\ lock' = {Main}
     ELSE main' = "dispatch" /\ UNCHANGED lock
  /\ UNCHANGED <<status, context, transport, startTcs, offlineTcs, errorMessage, canceled, writer, service>>

\* The ping is written if one is due; the lock is released either way.
SentPing ==
  /\ main = "ping"
  /\ main' = "dispatch"
  /\ lock' = {}
  /\ UNCHANGED <<status, context, transport, startTcs, offlineTcs, errorMessage, canceled, writer, service, stale>>

\* DispatchMessageAsync: OnServiceErrorAsync.
OnServiceError ==
  /\ errorMessage' = TRUE
  /\ status' = "Disconnected"
  /\ UNCHANGED <<offlineTcs, writer>>

\* DispatchMessageAsync: OnFlowControlMessageAsync -> OfflineAsync.
OnServerOffline ==
  /\ status' = "Disconnected"
  /\ UNCHANGED <<offlineTcs, errorMessage, writer>>

\* DispatchMessageAsync: a FinAck ping answers the container's fin ping.
OnFinAck ==
  /\ offlineTcs' = TRUE
  /\ UNCHANGED <<status, errorMessage, writer>>

\* The first check of SafeWriteAsync, before the lock.
WriterGate(w) ==
  writer' = [writer EXCEPT ![w] = IF errorMessage \/ status # "Connected" THEN "refused" ELSE "wait"]

\* DispatchMessageAsync: an echo ping is written back.
OnEcho(w) ==
  /\ writer[w] = "idle"
  /\ WriterGate(w)
  /\ UNCHANGED <<status, offlineTcs, errorMessage>>

\* Every other message leaves the connection's own state alone.
OnOther == UNCHANGED <<status, offlineTcs, errorMessage, writer>>

Dispatch ==
  /\ main = "dispatch"
  /\ main' = "read"
  /\ OnServiceError \/ OnServerOffline \/ OnFinAck \/ (\E w \in Writers : OnEcho(w)) \/ OnOther
  /\ UNCHANGED <<context, transport, startTcs, canceled, lock, service, stale>>

\* Mutant: a canceled read does not end the loop.
EndReadClosed ==
  /\ main = "read"
  /\ service = "closed"
  /\ main' = "disconnect"
  /\ canceled' = FALSE
  /\ offlineTcs' = TRUE
  /\ UNCHANGED <<status, context, transport, startTcs, errorMessage, lock, writer, service, stale>>

\* ReadAsync returns canceled or completed: the loop ends, the keep-alive timer is
\* stopped and the offline task is completed.
EndRead ==
  /\ main = "read"
  /\ canceled \/ service = "closed"
  /\ main' = "disconnect"
  /\ canceled' = FALSE
  /\ offlineTcs' = TRUE
  /\ UNCHANGED <<status, context, transport, startTcs, errorMessage, lock, writer, service, stale>>

-----------------------------------------------------------------------------
(* StartAsync after the read loop.                                         *)

\* "mark the status as Disconnected so that no one will write to this connection anymore"
Disconnect ==
  /\ main = "disconnect"
  /\ main' = "cleanup"
  /\ status' = "Disconnected"
  /\ UNCHANGED <<context, transport, startTcs, offlineTcs, unchangedByConnect>>

\* CleanupClientConnections returned; WaitAsync on the write lock succeeds.
LockForDispose ==
  /\ main = "cleanup"
  /\ lock = {}
  /\ main' = "dispose"
  /\ lock' = {Main}
  /\ UNCHANGED <<status, context, transport, startTcs, offlineTcs, errorMessage, canceled, writer, service, stale>>

DisposeConnection ==
  /\ main = "dispose"
  /\ main' = "done"
  /\ transport' = "disposed"
  /\ lock' = {}
  /\ UNCHANGED <<status, context, startTcs, offlineTcs, errorMessage, canceled, writer, service, stale>>

-----------------------------------------------------------------------------
(* StopAsync, keep-alive and the service.                                  *)

\* Before _connectionContext is set there is nothing to cancel and the call is lost.
StopAsync ==
  /\ canceled' = (canceled \/ (context /\ transport = "open"))
  /\ UNCHANGED <<main, status, context, transport, startTcs, offlineTcs, errorMessage, lock, writer, service, stale>>

Reading == main \in {"read", "ping", "dispatch"}

\* Mutant: keep-alive ignores a connection that is no longer Connected.
KeepAliveConnected == Reading /\ stale /\ status = "Connected" /\ StopAsync

\* KeepAliveAsync: the timer ticks while ProcessIncomingAsync runs.
KeepAlive == Reading /\ stale /\ StopAsync

ServiceTimeout ==
  /\ Reading
  /\ ~stale
  /\ stale' = TRUE
  /\ UNCHANGED <<main, status, context, transport, startTcs, offlineTcs, errorMessage, canceled, lock, writer, service>>

\* The service closes the connection, or disappears without a word.
ServiceGone ==
  /\ service = "up"
  /\ service' \in {"closed", "dead"}
  /\ UNCHANGED <<main, status, context, transport, startTcs, offlineTcs, errorMessage, canceled, lock, writer, stale>>

-----------------------------------------------------------------------------
(* SafeWriteAsync.                                                         *)

Write(w) ==
  /\ writer[w] = "idle"
  /\ WriterGate(w)
  /\ UNCHANGED <<main, status, context, transport, startTcs, offlineTcs, errorMessage, canceled, lock, service, stale>>

\* Mutant: Status is not looked at again under the lock.
WriterLockUnchecked(w) ==
  /\ writer[w] = "wait"
  /\ lock = {}
  /\ writer' = [writer EXCEPT ![w] = "write"]
  /\ lock' = {w}
  /\ UNCHANGED <<main, status, context, transport, startTcs, offlineTcs, errorMessage, canceled, service, stale>>

\* _writeLock.WaitAsync, then Status is looked at again.
WriterLock(w) ==
  /\ writer[w] = "wait"
  /\ lock = {}
  /\ IF status # "Connected"
     THEN writer' = [writer EXCEPT ![w] = "refused"] /\ UNCHANGED lock
     ELSE writer' = [writer EXCEPT ![w] = "write"] /\ lock' = {w}
  /\ UNCHANGED <<main, status, context, transport, startTcs, offlineTcs, errorMessage, canceled, service, stale>>

\* WriteMessage and FlushAsync; they throw if there is no open transport to write to.
WriterFlush(w) ==
  /\ writer[w] = "write"
  /\ writer' = [writer EXCEPT ![w] = IF context /\ transport = "open" THEN "written" ELSE "failed"]
  /\ lock' = {}
  /\ UNCHANGED <<main, status, context, transport, startTcs, offlineTcs, errorMessage, canceled, service, stale>>

\* The caller has its answer and may write again.
WriterReturn(w) ==
  /\ writer[w] \in {"refused", "written", "failed"}
  /\ writer' = [writer EXCEPT ![w] = "idle"]
  /\ UNCHANGED <<main, status, context, transport, startTcs, offlineTcs, errorMessage, canceled, lock, service, stale>>

WriterStep(w) == WriterLock(w) \/ WriterFlush(w) \/ WriterReturn(w)

-----------------------------------------------------------------------------
StartStep ==
  \/ CreateConnection \/ Handshake \/ SetContext \/ Announce \/ Initialized \/ FailToConnect
  \/ SentPing \/ Dispatch \/ EndRead
  \/ Disconnect \/ LockForDispose \/ DisposeConnection

Next ==
  \/ Start \/ StartStep \/ Receive
  \/ StopAsync \/ KeepAlive \/ ServiceTimeout \/ ServiceGone
  \/ \E w \in Writers : Write(w) \/ WriterStep(w)

Spec == Init /\ [][Next]_vars

\* StartAsync and started writes run on, the keep-alive timer ticks, time passes.
\* The service owes nothing, and nobody has to call StopAsync.
Fairness ==
  /\ WF_vars(StartStep)
  /\ WF_vars(KeepAlive)
  /\ WF_vars(ServiceTimeout)
  /\ \A w \in Writers : WF_vars(WriterStep(w))

FairSpec == Spec /\ Fairness

-----------------------------------------------------------------------------
\* The type invariant of one ServiceConnectionBase, its transport and its writers.
TypeOK ==
  /\ main \in {"new", "connect", "handshake", "established", "announce", "initialized", "failed",
               "read", "ping", "dispatch", "disconnect", "cleanup", "dispose", "done"}
  /\ status \in {"Inited", "Connecting", "Connected", "Disconnected"}
  /\ context \in BOOLEAN
  /\ transport \in {"none", "open", "disposed"}
  /\ startTcs \in {"none", "true", "false"}
  /\ offlineTcs \in BOOLEAN
  /\ errorMessage \in BOOLEAN
  /\ canceled \in BOOLEAN
  /\ lock \subseteq Writers \cup {Main}
  /\ writer \in [Writers -> {"idle", "wait", "write", "written", "refused", "failed"}]
  /\ service \in {"up", "closed", "dead"}
  /\ stale \in BOOLEAN

\* SafeWriteAsync's catch block says of a failed write "in theory this log should
\* never trigger": whoever passed the second check of Status under _writeLock writes to
\* an open transport, whatever StopAsync, an error message or the service do meanwhile.
WritesReachTransport ==
  /\ \A w \in Writers : writer[w] = "write" => context /\ transport = "open"
  /\ \A w \in Writers : writer[w] # "failed"
  /\ main = "ping" => context /\ transport = "open"

\* A connection that was disconnected is never offered as Connected again: the
\* container replaces it and drops it from its list for good.
DisconnectedIsFinal == [][status = "Disconnected" => status' = "Disconnected"]_vars

\* StartAsync returns with both tasks others wait on settled: the container's restart
\* awaits ConnectionInitializedTask, its OfflineAsync awaits ConnectionOfflineTask of a
\* connection that had connected.
TasksSettled ==
  main = "done" => /\ startTcs # "none"
                   /\ startTcs = "true" => offlineTcs /\ transport = "disposed"

\* A service that disappears without closing is noticed: the keep-alive timer stops the
\* read loop and StartAsync returns, so that the container can restart the connection.
DeadServiceDetected == (service = "dead" /\ main # "new") ~> main = "done"

\* Once the connection is set up, StopAsync ends it.
StopTakesEffect == (canceled /\ Reading) ~> main = "done"
=============================================================================
