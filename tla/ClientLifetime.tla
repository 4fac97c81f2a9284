--------------------------- MODULE ClientLifetime ---------------------------
(***************************************************************************)
(* The life of a client connection on the application server: opened,      *)
(* closed, cleaned up and moved by the server connections                  *)
(* (ServiceConnection.cs, ServiceConnectionBase.cs), run by                *)
(* ProcessClientConnectionAsync, kept in the ClientConnectionManager, and  *)
(* waited for by the graceful shutdown (ServiceHubDispatcher.cs).  Its     *)
(* incoming half is the abstract pipe that ClientIncoming implements; of   *)
(* the outgoing half, ClientOutgoing, only what ends it and the last       *)
(* message of the application, its close message, are modelled here.       *)
(***************************************************************************)
EXTENDS Naturals

CONSTANTS Home, Other  \* the server connection that opens the client, and another one

ASSUME LifetimeAssumption == Home # Other

Conns == {Home, Other}

VARIABLES
  phase,         \* of the incoming pipe
  proc,          \* where ProcessClientConnectionAsync is
  registered,    \* the client is in the ClientConnectionManager
  ids,           \* the server connections that have it in _connectionIds
  owner,         \* its ServiceConnection
  mover,         \* where ResumeClientConnectionAsync of Other is
  conn,          \* each server connection: up, down, or down and its clients cleaned up
  app,           \* the application: running, has sent its close message, done
  seen,          \* it ended because its input was closed
  output,        \* its close message: none, written, forwarded
  transport,     \* ProcessOutgoingMessagesAsync runs
  aborted,       \* OutgoingAborted
  abortOnClose,  \* AbortOnClose
  migrating,     \* the pipe was closed first by a message with a migration target (history)
  told,          \* the service knows that the client is gone, or the instance is gone
  shutdown,      \* where the shutdown is
  mode,          \* its GracefulShutdownMode
  awaiting,      \* WhenAllCompleted waits for the client
  late           \* the shutdown timed out, or met the client unopened or on the move (history)

hostVars == <<proc, registered, ids, owner, mover, conn>>
appVars == <<app, seen, output, transport, aborted>>
closeVars == <<abortOnClose, migrating, told>>
shutdownVars == <<shutdown, mode, awaiting, late>>

vars == <<phase, hostVars, appVars, closeVars, shutdownVars>>

\* The incoming half; what it delivers does not matter here.
Pipe == INSTANCE ClosablePipe WITH Items <- {}, received <- <<>>

Init ==
  /\ Pipe!PipeInit
  /\ proc = "none"
  /\ registered = FALSE
  /\ ids = {}
  /\ owner = Home
  /\ mover = "idle"
  /\ conn = [s \in Conns |-> "up"]
  /\ app = "run"
  /\ seen = FALSE
  /\ output = "none"
  /\ transport = TRUE
  /\ aborted = FALSE
  /\ abortOnClose = TRUE
  /\ migrating = FALSE
  /\ told = FALSE
  /\ shutdown = "idle"
  /\ mode = "Off"
  /\ awaiting = FALSE
  /\ late = FALSE

\* A message for the client reaches the read loop of its server connection.
Arrives == proc # "none" /\ conn[owner] = "up" /\ ~told

\* CompleteIncoming: closing begins, unless it has begun before.
CompleteIncoming == Pipe!BeginClose \/ (phase # "open" /\ UNCHANGED phase)

\* PerformDisconnectAsync, up to its wait for the end of the client.
PerformDisconnect == abortOnClose' = FALSE /\ CompleteIncoming

PipeCloses == Pipe!FinishClose /\ UNCHANGED <<hostVars, appVars, closeVars, shutdownVars>>

-----------------------------------------------------------------------------
(* Messages of the service.                                                *)

\* OnClientConnectedAsync.
OnClientConnected ==
  /\ proc = "none"
  /\ conn[Home] = "up"
  /\ proc' = "run"
  /\ registered' = TRUE
  /\ ids' = ids \cup {Home}
  /\ UNCHANGED <<phase, owner, mover, conn, appVars, closeVars, shutdownVars>>

\* OnClientDisconnectedAsync, without a migration target.
OnClientDisconnected ==
  /\ Arrives
  /\ told' = TRUE
  /\ registered' = FALSE
  /\ IF registered THEN PerformDisconnect ELSE UNCHANGED <<phase, abortOnClose>>
  /\ UNCHANGED <<proc, ids, owner, mover, conn, appVars, migrating, shutdownVars>>

\* Mutant: the outgoing messages are not canceled.
OnClientMigratedLoud ==
  /\ Arrives
  /\ registered
  /\ told' = TRUE
  /\ registered' = FALSE
  /\ migrating' = (phase = "open")
  /\ PerformDisconnect
  /\ UNCHANGED <<proc, ids, owner, mover, conn, appVars, shutdownVars>>

\* ... and with one: CancelOutgoing, CompleteIncoming and PerformDisconnectAsync.
OnClientMigrated ==
  /\ Arrives
  /\ registered
  /\ told' = TRUE
  /\ registered' = FALSE
  /\ migrating' = (phase = "open")
  /\ aborted' = TRUE
  /\ PerformDisconnect
  /\ UNCHANGED <<proc, ids, owner, mover, conn, app, seen, output, transport, shutdownVars>>

\* CleanupClientConnections of s, for the client: it is disconnected if s lists it and
\* nobody else has taken it out of the manager.
CleanupClientConnections(s) ==
  /\ IF s \in ids /\ registered
     THEN registered' = FALSE /\ PerformDisconnect
     ELSE UNCHANGED <<phase, registered, abortOnClose>>
  /\ told' = (told \/ s = owner)

\* An offline ping: the service instance of the client is gone.
OnInstanceOffline ==
  /\ Arrives
  /\ CleanupClientConnections(owner)
  /\ UNCHANGED <<proc, ids, owner, mover, conn, appVars, migrating, shutdownVars>>

-----------------------------------------------------------------------------
(* The server connections: the end of the read loop, and Resume of a       *)
(* client that was paused on the one and is resumed on the other.          *)

\* The read loop of a server connection ends: the service closed it, or StopAsync.
Drop(s) ==
  /\ conn[s] = "up"
  /\ conn' = [conn EXCEPT ![s] = "down"]
  /\ UNCHANGED <<phase, proc, registered, ids, owner, mover, appVars, closeVars, shutdownVars>>

\* StartAsync goes on: CleanupClientConnections().
CleanupAfterDrop(s) ==
  /\ conn[s] = "down"
  /\ conn' = [conn EXCEPT ![s] = "clean"]
  /\ CleanupClientConnections(s)
  /\ UNCHANGED <<proc, ids, owner, mover, appVars, migrating, shutdownVars>>

\* ResumeClientConnectionAsync on Other: the client is found ...
MoveBegin ==
  /\ mover = "idle"
  /\ registered
  /\ conn[Other] = "up"
  /\ ~told
  /\ mover' = "remove"
  /\ UNCHANGED <<phase, proc, registered, ids, owner, conn, appVars, closeVars, shutdownVars>>

\* ... removed from the lists ...
MoveRemove ==
  /\ mover = "remove"
  /\ mover' = "add"
  /\ ids' = ids \ {Home}
  /\ registered' = FALSE
  /\ UNCHANGED <<phase, proc, owner, conn, appVars, closeVars, shutdownVars>>

\* ... and added again.
MoveAdd ==
  /\ mover = "add"
  /\ mover' = "done"
  /\ ids' = ids \cup {Other}
  /\ registered' = TRUE
  /\ owner' = Other
  /\ UNCHANGED <<phase, proc, conn, appVars, closeVars, shutdownVars>>

-----------------------------------------------------------------------------
(* The application, the outgoing loop and ProcessClientConnectionAsync.    *)

\* The application ends by itself, or because its input is completed or the connection is
\* closed by force; it may write a close message.
AppCloses ==
  /\ proc # "none"
  /\ app = "run"
  /\ app' = "closing"
  /\ seen' = (phase = "closed")
  /\ output' \in {"none", "written"}
  /\ UNCHANGED <<phase, hostVars, transport, aborted, closeVars, shutdownVars>>

\* ProcessApplicationAsync completes both pipes.
AppDone ==
  /\ app = "closing"
  /\ app' = "done"
  /\ UNCHANGED <<phase, hostVars, seen, output, transport, aborted, closeVars, shutdownVars>>

\* The close message is forwarded through the client's server connection.
Forward ==
  /\ transport
  /\ ~aborted
  /\ output = "written"
  /\ conn[owner] = "up"
  /\ output' = "forwarded"
  /\ UNCHANGED <<phase, hostVars, app, seen, transport, aborted, closeVars, shutdownVars>>

\* The outgoing loop ends: aborted, drained, or it cannot write.
TransportEnds ==
  /\ proc # "none"
  /\ transport
  /\ aborted \/ (app = "done" /\ output # "written") \/ conn[owner] # "up"
  /\ transport' = FALSE
  /\ UNCHANGED <<phase, hostVars, app, seen, output, aborted, closeVars, shutdownVars>>

\* One of the two has ended, and TryRemoveClientConnection.
WhenAny ==
  /\ proc = "run"
  /\ app = "done" \/ ~transport
  /\ proc' = IF app = "done" THEN "waitTransport" ELSE "waitApp"
  /\ ids' = ids \ {Home}
  /\ registered' = FALSE
  /\ UNCHANGED <<phase, owner, mover, conn, appVars, closeVars, shutdownVars>>

\* CancelOutgoing(wait: true): the outgoing loop is aborted after a while.
AbortOutgoing ==
  /\ proc = "waitTransport"
  /\ ~aborted
  /\ aborted' = TRUE
  /\ UNCHANGED <<phase, hostVars, app, seen, output, transport, closeVars, shutdownVars>>

\* The other one has ended too; AbortOnClose is read.
BothEnded ==
  /\ proc \in {"waitTransport", "waitApp"}
  /\ app = "done"
  /\ ~transport
  /\ proc' = IF abortOnClose THEN "notify" ELSE "done"
  /\ UNCHANGED <<phase, registered, ids, owner, mover, conn, appVars, closeVars, shutdownVars>>

\* Mutant: the service is not told.
NotifySilently ==
  /\ proc = "notify"
  /\ proc' = "done"
  /\ UNCHANGED <<phase, registered, ids, owner, mover, conn, appVars, closeVars, shutdownVars>>

\* Mutant: the message is retried until it can be written.
NotifyInsists ==
  /\ proc = "notify"
  /\ conn[Home] = "up"
  /\ proc' = "done"
  /\ told' = TRUE
  /\ UNCHANGED <<phase, registered, ids, owner, mover, conn, appVars, abortOnClose, migrating, shutdownVars>>

\* The CloseConnectionMessage, through the server connection that opened the client, and
\* OnCompleted.
Notify ==
  /\ proc = "notify"
  /\ proc' = "done"
  /\ told' = (told \/ conn[Home] = "up")
  /\ UNCHANGED <<phase, registered, ids, owner, mover, conn, appVars, abortOnClose, migrating, shutdownVars>>

-----------------------------------------------------------------------------
(* ShutdownAsync.                                                          *)

\* OfflineAsync: the service has answered the fin pings, or they were sent often enough.
ShutdownOffline ==
  /\ shutdown = "idle"
  /\ shutdown' = "close"
  /\ mode' \in {"Off", "WaitForClientsClose"}
  /\ UNCHANGED <<phase, hostVars, appVars, closeVars, awaiting, late>>

\* CloseClientConnections of the server connections, or the shutdown hooks.
ShutdownClose ==
  /\ shutdown = "close"
  /\ shutdown' = "closing"
  /\ late' = (late \/ mover \in {"remove", "add"})
  /\ IF mode = "Off" /\ ids # {} /\ registered
     THEN PerformDisconnect
     ELSE UNCHANGED <<phase, abortOnClose>>
  /\ UNCHANGED <<hostVars, appVars, migrating, told, mode, awaiting>>

\* Mutant: the shutdown does not wait for the clients.
ShutdownAwaitNobody ==
  /\ shutdown = "closing"
  /\ shutdown' = "await"
  /\ late' = (late \/ proc = "none" \/ mover \in {"remove", "add"})
  /\ UNCHANGED <<phase, hostVars, appVars, closeVars, mode, awaiting>>

\* PerformDisconnectAsync has returned, because the client has ended or the close time-out
\* is over; WhenAllCompleted waits for the clients that are in the manager.
ShutdownAwait ==
  /\ shutdown = "closing"
  /\ shutdown' = "await"
  /\ awaiting' = registered
  /\ late' = (late \/ proc = "none" \/ mover \in {"remove", "add"})
  /\ UNCHANGED <<phase, hostVars, appVars, closeVars, mode>>

ShutdownDone ==
  /\ shutdown = "await"
  /\ awaiting => proc = "done"
  /\ shutdown' = "stopped"
  /\ UNCHANGED <<phase, hostVars, appVars, closeVars, mode, awaiting, late>>

\* The time-out of the shutdown; StopAsync follows in either case.
ShutdownTimeout ==
  /\ shutdown \in {"close", "closing", "await"}
  /\ shutdown' = "stopped"
  /\ late' = TRUE
  /\ UNCHANGED <<phase, hostVars, appVars, closeVars, mode, awaiting>>

-----------------------------------------------------------------------------
ProcessStep == WhenAny \/ BothEnded \/ Notify
TransportStep == Forward \/ TransportEnds
MoveStep == MoveRemove \/ MoveAdd
ShutdownStep == ShutdownClose \/ ShutdownAwait \/ ShutdownDone \/ ShutdownTimeout

Next ==
  \/ OnClientConnected \/ OnClientDisconnected \/ OnClientMigrated \/ OnInstanceOffline
  \/ \E s \in Conns : Drop(s) \/ CleanupAfterDrop(s)
  \/ MoveBegin \/ MoveStep
  \/ PipeCloses \/ AppCloses \/ AppDone \/ TransportStep \/ AbortOutgoing \/ ProcessStep
  \/ ShutdownOffline \/ ShutdownStep

Spec == Init /\ [][Next]_vars

\* What has begun goes on; the application ends when its input is closed (but need not
\* otherwise), the time-outs of CancelOutgoing and of the shutdown pass, and the pipe
\* promises to be closed.
Fairness ==
  /\ WF_vars(PipeCloses)
  /\ WF_vars(phase = "closed" /\ AppCloses)
  /\ WF_vars(AppDone) /\ WF_vars((aborted \/ app = "done") /\ TransportEnds) /\ WF_vars(AbortOutgoing)
  /\ WF_vars(ProcessStep) /\ WF_vars(MoveStep) /\ WF_vars(ShutdownStep)
  /\ \A s \in Conns : WF_vars(CleanupAfterDrop(s))

FairSpec == Spec /\ Fairness

-----------------------------------------------------------------------------
\* The type invariant of the client, its lists, its two halves and the shutdown.
TypeOK ==
  /\ phase \in {"open", "closing", "closed"}
  /\ proc \in {"none", "run", "waitTransport", "waitApp", "notify", "done"}
  /\ registered \in BOOLEAN
  /\ ids \subseteq Conns
  /\ owner \in Conns
  /\ mover \in {"idle", "remove", "add", "done"}
  /\ conn \in [Conns -> {"up", "down", "clean"}]
  /\ app \in {"run", "closing", "done"}
  /\ seen \in BOOLEAN
  /\ output \in {"none", "written", "forwarded"}
  /\ transport \in BOOLEAN
  /\ aborted \in BOOLEAN
  /\ abortOnClose \in BOOLEAN
  /\ migrating \in BOOLEAN
  /\ told \in BOOLEAN
  /\ shutdown \in {"idle", "close", "closing", "await", "stopped"}
  /\ mode \in {"Off", "WaitForClientsClose"}
  /\ awaiting \in BOOLEAN
  /\ late \in BOOLEAN

\* A client that migrates gets no close message from the application it leaves, if that
\* ends because of the migration (OnClientDisconnectedAsync cancels the outgoing messages
\* before it completes the pipe: "We have to prevent SignalR {type: 7} (close message)
\* from reaching our client while doing migration").
MigrationSilent == migrating /\ seen => output # "forwarded"

\* Whoever closed it, when a client has ended the service knows: it closed the client
\* itself, or was told, or it sees that the server connection is gone, or that the server
\* shuts down.  (AbortOnClose decides whether ProcessClientConnectionAsync tells it.)
ServiceKnows ==
  proc = "done" => told \/ conn[Home] # "up" \/ (shutdown # "idle" /\ mode = "Off")

\* A client that has ended is in no list any more, if it was not moved meanwhile.
RemovedFromLists == proc = "done" /\ mover = "idle" => ~registered /\ ids = {}

\* A shutdown in time leaves no client behind that nobody has begun to close.
StopLeavesNoneOpen ==
  shutdown = "stopped" /\ ~late =>
    proc = "done" \/ phase # "open" \/ app # "run" \/ ~transport

\* "Once all connections on this server are closed properly, the server stops."  It does not
\* hold for a client that is not in the manager any more; see the README.
StopsAfterClients ==
  shutdown = "stopped" /\ ~late /\ mode = "WaitForClientsClose" => proc = "done"

\* However it is closed, and whatever happens to the server connections meanwhile, a client
\* whose pipe is being closed ends; and so does one whose server connection is lost, unless
\* it is on its way to another one.
ClientEnds ==
  /\ phase # "open" ~> proc = "done"
  /\ proc = "run" /\ conn[Home] = "clean" /\ mover = "idle" ~> proc = "done" \/ mover # "idle"
=============================================================================
