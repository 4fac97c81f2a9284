------------------------ MODULE ClientLifetimeProofs ------------------------
(***************************************************************************)
(* The safety of a client's life, for any two server connections.          *)
(***************************************************************************)
EXTENDS ClientLifetime, TLAPS

\* Why a client would end without its service being told by ProcessClientConnectionAsync.
Excused == told \/ conn[Home] # "up" \/ (shutdown # "idle" /\ mode = "Off")

\* Somebody has begun to close the client, or one of its halves has ended.
Ending == phase # "open" \/ app # "run" \/ ~transport

\* AbortOnClose is given up only for a reason, and a client belongs to Other once Other
\* lists it: this is what the reads of AbortOnClose rely on.
Reasons ==
  /\ Other \in ids => owner = Other
  /\ ~abortOnClose => Excused
  /\ ServiceKnows

\* A migration is silent because the outgoing half is aborted before the pipe is closed.
Silence ==
  /\ seen => phase = "closed"
  /\ app = "run" => ~seen
  /\ migrating => aborted
  /\ MigrationSilent

\* The lists: a client that is not being moved leaves the manager only to be closed.
Lists ==
  /\ mover = "idle" => ids \subseteq {Home}
  /\ mover = "idle" /\ proc \notin {"none", "run"} => ~registered /\ ids = {}
  /\ proc = "none" => ~registered /\ ids = {} /\ mover = "idle"
  /\ proc \notin {"none", "run"} => Ending
  /\ proc # "none" /\ ~registered /\ mover \notin {"remove", "add"} => Ending

\* The shutdown goes past its waits only when the client has ended or is ending.
Stops ==
  /\ shutdown = "await" /\ ~late /\ ~awaiting => Ending
  /\ shutdown = "stopped" /\ ~late => proc = "done" \/ Ending

\* The inductive invariant.
IInv == TypeOK /\ Reasons /\ Silence /\ Lists /\ Stops

\* The initial states satisfy the invariant.
LEMMA InitIInv == Init => IInv
BY LifetimeAssumption DEF Init, IInv, TypeOK, Reasons, Silence, Lists, Stops, Excused, Ending,
     ServiceKnows, MigrationSilent, Conns, Pipe!PipeInit

\* CompleteIncoming begins to close an open pipe and leaves any other alone.
LEMMA Closing == CompleteIncoming => phase' = IF phase = "open" THEN "closing" ELSE phase
BY DEF CompleteIncoming, Pipe!BeginClose

\* Every step of the client, its server connections and the shutdown preserves it.
LEMMA NextIInv == IInv /\ [Next]_vars => IInv'
<1> SUFFICES ASSUME IInv, [Next]_vars PROVE IInv'
  OBVIOUS
<1> USE LifetimeAssumption DEF IInv, TypeOK, Excused, Ending, ServiceKnows, MigrationSilent,
         hostVars, appVars, closeVars, shutdownVars
<1>0. Home \in Conns /\ Other \in Conns
  BY DEF Conns
<1>1. CASE OnClientConnected
  BY <1>1, <1>0 DEF OnClientConnected, Reasons, Silence, Lists, Stops
<1>2. CASE OnClientDisconnected
  <2>1. TypeOK'
    <3>1. phase' \in {"open", "closing", "closed"}
      BY <1>2, Closing DEF OnClientDisconnected, Arrives, PerformDisconnect
    <3>2. registered' \in BOOLEAN
      BY <1>2, Closing DEF OnClientDisconnected, Arrives, PerformDisconnect
    <3>3. abortOnClose' \in BOOLEAN
      BY <1>2, Closing DEF OnClientDisconnected, Arrives, PerformDisconnect
    <3>4. told' \in BOOLEAN
      BY <1>2, Closing DEF OnClientDisconnected, Arrives, PerformDisconnect
    <3>5. UNCHANGED <<proc, ids, owner, mover, conn, appVars, migrating, shutdownVars>>
      BY <1>2 DEF OnClientDisconnected
    <3> QED
      BY <3>1, <3>2, <3>3, <3>4, <3>5 DEF TypeOK
  <2>2. Reasons'
    BY <1>2, Closing DEF OnClientDisconnected, Arrives, PerformDisconnect, Reasons
  <2>3. Silence'
    BY <1>2, Closing DEF OnClientDisconnected, Arrives, PerformDisconnect, Silence
  <2>4. Lists'
    BY <1>2, Closing DEF OnClientDisconnected, Arrives, PerformDisconnect, Lists
  <2>5. Stops'
    BY <1>2, Closing DEF OnClientDisconnected, Arrives, PerformDisconnect, Stops, Lists
  <2> QED
    BY <2>1, <2>2, <2>3, <2>4, <2>5
<1>3. CASE OnClientMigrated
  <2>1. TypeOK'
    <3>1. phase' \in {"open", "closing", "closed"}
      BY <1>3, Closing DEF OnClientMigrated, Arrives, PerformDisconnect
    <3>2. registered' \in BOOLEAN
      BY <1>3, Closing DEF OnClientMigrated, Arrives, PerformDisconnect
    <3>3. abortOnClose' \in BOOLEAN
      BY <1>3, Closing DEF OnClientMigrated, Arrives, PerformDisconnect
    <3>4. told' \in BOOLEAN
      BY <1>3, Closing DEF OnClientMigrated, Arrives, PerformDisconnect
    <3>5. migrating' \in BOOLEAN
      BY <1>3, Closing DEF OnClientMigrated, Arrives, PerformDisconnect
    <3>6. aborted' \in BOOLEAN
      BY <1>3, Closing DEF OnClientMigrated, Arrives, PerformDisconnect
    <3>7. UNCHANGED <<proc, ids, owner, mover, conn, app, seen, output, transport, shutdownVars>>
      BY <1>3 DEF OnClientMigrated
    <3> QED
      BY <3>1, <3>2, <3>3, <3>4, <3>5, <3>6, <3>7 DEF TypeOK
  <2>2. Reasons'
    BY <1>3, Closing DEF OnClientMigrated, Arrives, PerformDisconnect, Reasons
  <2>3. Silence'
    BY <1>3, Closing DEF OnClientMigrated, Arrives, PerformDisconnect, Silence
  <2>4. Lists'
    BY <1>3, Closing DEF OnClientMigrated, Arrives, PerformDisconnect, Lists
  <2>5. Stops'
    BY <1>3, Closing DEF OnClientMigrated, Arrives, PerformDisconnect, Stops, Lists
  <2> QED
    BY <2>1, <2>2, <2>3, <2>4, <2>5
<1>4. CASE OnInstanceOffline
  <2>1. TypeOK'
    <3>1. phase' \in {"open", "closing", "closed"}
      BY <1>4, Closing DEF OnInstanceOffline, Arrives, CleanupClientConnections, PerformDisconnect
    <3>2. registered' \in BOOLEAN
      BY <1>4, Closing DEF OnInstanceOffline, Arrives, CleanupClientConnections, PerformDisconnect
    <3>3. abortOnClose' \in BOOLEAN
      BY <1>4, Closing DEF OnInstanceOffline, Arrives, CleanupClientConnections, PerformDisconnect
    <3>4. told' \in BOOLEAN
      BY <1>4, Closing DEF OnInstanceOffline, Arrives, CleanupClientConnections, PerformDisconnect
    <3>5. UNCHANGED <<proc, ids, owner, mover, conn, appVars, migrating, shutdownVars>>
      BY <1>4 DEF OnInstanceOffline
    <3> QED
      BY <3>1, <3>2, <3>3, <3>4, <3>5 DEF TypeOK
  <2>2. Reasons'
    BY <1>4, Closing DEF OnInstanceOffline, Arrives, CleanupClientConnections, PerformDisconnect,
             Reasons
  <2>3. Silence'
    BY <1>4, Closing DEF OnInstanceOffline, Arrives, CleanupClientConnections, PerformDisconnect,
             Silence
  <2>4. Lists'
    BY <1>4, Closing DEF OnInstanceOffline, Arrives, CleanupClientConnections, PerformDisconnect,
             Lists
  <2>5. Stops'
    BY <1>4, Closing DEF OnInstanceOffline, Arrives, CleanupClientConnections, PerformDisconnect,
             Stops, Lists
  <2> QED
    BY <2>1, <2>2, <2>3, <2>4, <2>5
<1>5. ASSUME NEW s \in Conns, Drop(s) PROVE IInv'
  BY <1>5, <1>0 DEF Drop, Reasons, Silence, Lists, Stops
<1>6. ASSUME NEW s \in Conns, CleanupAfterDrop(s) PROVE IInv'
  <2>1. TypeOK'
    <3>1. phase' \in {"open", "closing", "closed"}
      BY <1>6, Closing DEF CleanupAfterDrop, CleanupClientConnections, PerformDisconnect
    <3>2. registered' \in BOOLEAN
      BY <1>6, Closing DEF CleanupAfterDrop, CleanupClientConnections, PerformDisconnect
    <3>3. abortOnClose' \in BOOLEAN
      BY <1>6, Closing DEF CleanupAfterDrop, CleanupClientConnections, PerformDisconnect
    <3>4. told' \in BOOLEAN
      BY <1>6, Closing DEF CleanupAfterDrop, CleanupClientConnections, PerformDisconnect
    <3>5. conn' \in [Conns -> {"up", "down", "clean"}]
      BY <1>6, Closing DEF CleanupAfterDrop, CleanupClientConnections, PerformDisconnect
    <3>6. UNCHANGED <<proc, ids, owner, mover, appVars, migrating, shutdownVars>>
      BY <1>6 DEF CleanupAfterDrop
    <3> QED
      BY <3>1, <3>2, <3>3, <3>4, <3>5, <3>6 DEF TypeOK
  <2>2. Reasons'
    BY <1>6, Closing DEF CleanupAfterDrop, CleanupClientConnections, PerformDisconnect, Reasons,
             Conns
  <2>3. Silence'
    BY <1>6, Closing DEF CleanupAfterDrop, CleanupClientConnections, PerformDisconnect, Silence
  <2>4. Lists'
    BY <1>6, Closing DEF CleanupAfterDrop, CleanupClientConnections, PerformDisconnect, Lists
  <2>5. Stops'
    BY <1>6, Closing DEF CleanupAfterDrop, CleanupClientConnections, PerformDisconnect, Stops,
             Lists
  <2> QED
    BY <2>1, <2>2, <2>3, <2>4, <2>5
<1>7. CASE MoveBegin
  BY <1>7 DEF MoveBegin, Reasons, Silence, Lists, Stops
<1>8. CASE MoveRemove
  <2>1. TypeOK'
    <3>1. mover' \in {"idle", "remove", "add", "done"}
      BY <1>8 DEF MoveRemove
    <3>2. registered' \in BOOLEAN
      BY <1>8 DEF MoveRemove
    <3>3. ids' \subseteq Conns
      BY <1>8 DEF MoveRemove
    <3>4. UNCHANGED <<phase, proc, owner, conn, appVars, closeVars, shutdownVars>>
      BY <1>8 DEF MoveRemove
    <3> QED
      BY <3>1, <3>2, <3>3, <3>4 DEF TypeOK
  <2>2. Reasons'
    BY <1>8 DEF MoveRemove, Reasons
  <2>3. Silence'
    BY <1>8 DEF MoveRemove, Silence
  <2>4. Lists'
    BY <1>8 DEF MoveRemove, Lists
  <2>5. Stops'
    BY <1>8 DEF MoveRemove, Stops, Lists
  <2> QED
    BY <2>1, <2>2, <2>3, <2>4, <2>5
<1>9. CASE MoveAdd
  BY <1>9, <1>0 DEF MoveAdd, Reasons, Silence, Lists, Stops
<1>10. CASE PipeCloses
  BY <1>10 DEF PipeCloses, Pipe!FinishClose, Reasons, Silence, Lists, Stops
<1>11. CASE AppCloses
  BY <1>11 DEF AppCloses, Reasons, Silence, Lists, Stops
<1>12. CASE AppDone
  BY <1>12 DEF AppDone, Reasons, Silence, Lists, Stops
<1>13. CASE Forward
  BY <1>13 DEF Forward, Reasons, Silence, Lists, Stops
<1>14. CASE TransportEnds
  <2>1. TypeOK'
    <3>1. transport' \in BOOLEAN
      BY <1>14 DEF TransportEnds
    <3>2. UNCHANGED <<phase, hostVars, app, seen, output, aborted, closeVars, shutdownVars>>
      BY <1>14 DEF TransportEnds
    <3> QED
      BY <3>1, <3>2 DEF TypeOK
  <2>2. Reasons'
    BY <1>14 DEF TransportEnds, Reasons
  <2>3. Silence'
    BY <1>14 DEF TransportEnds, Silence
  <2>4. Lists'
    BY <1>14 DEF TransportEnds, Lists
  <2>5. Stops'
    BY <1>14 DEF TransportEnds, Stops, Lists
  <2> QED
    BY <2>1, <2>2, <2>3, <2>4, <2>5
<1>15. CASE AbortOutgoing
  BY <1>15 DEF AbortOutgoing, Reasons, Silence, Lists, Stops
<1>16. CASE WhenAny
  <2>1. TypeOK'
    <3>1. proc' \in {"none", "run", "waitTransport", "waitApp", "notify", "done"}
      BY <1>16 DEF WhenAny
    <3>2. registered' \in BOOLEAN
      BY <1>16 DEF WhenAny
    <3>3. ids' \subseteq Conns
      BY <1>16 DEF WhenAny
    <3>4. UNCHANGED <<phase, owner, mover, conn, appVars, closeVars, shutdownVars>>
      BY <1>16 DEF WhenAny
    <3> QED
      BY <3>1, <3>2, <3>3, <3>4 DEF TypeOK
  <2>2. Reasons'
    BY <1>16 DEF WhenAny, Reasons
  <2>3. Silence'
    BY <1>16 DEF WhenAny, Silence
  <2>4. Lists'
    BY <1>16 DEF WhenAny, Lists
  <2>5. Stops'
    BY <1>16 DEF WhenAny, Stops, Lists
  <2> QED
    BY <2>1, <2>2, <2>3, <2>4, <2>5
<1>17. CASE BothEnded
  BY <1>17 DEF BothEnded, Reasons, Silence, Lists, Stops
<1>18. CASE Notify
  BY <1>18, <1>0 DEF Notify, Reasons, Silence, Lists, Stops
<1>19. CASE ShutdownOffline
  BY <1>19 DEF ShutdownOffline, Reasons, Silence, Lists, Stops
<1>20. CASE ShutdownClose
  <2>1. TypeOK'
    <3>1. phase' \in {"open", "closing", "closed"}
      BY <1>20, Closing DEF ShutdownClose, PerformDisconnect
    <3>2. abortOnClose' \in BOOLEAN
      BY <1>20, Closing DEF ShutdownClose, PerformDisconnect
    <3>3. shutdown' \in {"idle", "close", "closing", "await", "stopped"}
      BY <1>20, Closing DEF ShutdownClose, PerformDisconnect
    <3>4. late' \in BOOLEAN
      BY <1>20, Closing DEF ShutdownClose, PerformDisconnect
    <3>5. UNCHANGED <<hostVars, appVars, migrating, told, mode, awaiting>>
      BY <1>20 DEF ShutdownClose
    <3> QED
      BY <3>1, <3>2, <3>3, <3>4, <3>5 DEF TypeOK
  <2>2. Reasons'
    BY <1>20, Closing DEF ShutdownClose, PerformDisconnect, Reasons
  <2>3. Silence'
    BY <1>20, Closing DEF ShutdownClose, PerformDisconnect, Silence
  <2>4. Lists'
    BY <1>20, Closing DEF ShutdownClose, PerformDisconnect, Lists
  <2>5. Stops'
    BY <1>20, Closing DEF ShutdownClose, PerformDisconnect, Stops, Lists
  <2> QED
    BY <2>1, <2>2, <2>3, <2>4, <2>5
<1>21. CASE ShutdownAwait
  BY <1>21 DEF ShutdownAwait, Reasons, Silence, Lists, Stops
<1>22. CASE ShutdownDone
  BY <1>22 DEF ShutdownDone, Reasons, Silence, Lists, Stops
<1>23. CASE ShutdownTimeout
  BY <1>23 DEF ShutdownTimeout, Reasons, Silence, Lists, Stops
<1>24. CASE UNCHANGED vars
  BY <1>24 DEF vars, Reasons, Silence, Lists, Stops
<1> QED
  BY <1>1, <1>2, <1>3, <1>4, <1>5, <1>6, <1>7, <1>8, <1>9, <1>10, <1>11, <1>12, <1>13, <1>14,
       <1>15,
     <1>16, <1>17, <1>18, <1>19, <1>20, <1>21, <1>22, <1>23, <1>24
     DEF Next, MoveStep, TransportStep, ProcessStep, ShutdownStep

\* The invariant holds in every behaviour.
LEMMA Invariance == Spec => []IInv
BY InitIInv, NextIInv, PTL DEF Spec

\* The type invariant holds for any two server connections.
THEOREM LifetimeTypes == Spec => []TypeOK
<1>1. IInv => TypeOK
  BY DEF IInv
<1> QED
  BY <1>1, Invariance, PTL

\* OnClientDisconnectedAsync migrates a client without a close message of the application
\* it leaves, wherever the application and the outgoing loop are.
THEOREM SilentMigration == Spec => []MigrationSilent
<1>1. IInv => MigrationSilent
  BY DEF IInv, Silence
<1> QED
  BY <1>1, Invariance, PTL

\* ProcessClientConnectionAsync and AbortOnClose: no client ends behind the back of the
\* service.
THEOREM ServiceIsTold == Spec => []ServiceKnows
<1>1. IInv => ServiceKnows
  BY DEF IInv, Reasons
<1> QED
  BY <1>1, Invariance, PTL

\* TryRemoveClientConnection: a client that ended without being moved is in no list.
THEOREM ListsAreClean == Spec => []RemovedFromLists
<1>1. IInv => RemovedFromLists
  BY DEF IInv, Lists, RemovedFromLists
<1> QED
  BY <1>1, Invariance, PTL

\* ShutdownAsync: a shutdown in time leaves no client that nobody has begun to close.
THEOREM ShutdownClosesAll == Spec => []StopLeavesNoneOpen
<1>1. IInv => StopLeavesNoneOpen
  BY DEF IInv, Stops, Ending, StopLeavesNoneOpen
<1> QED
  BY <1>1, Invariance, PTL
=============================================================================
