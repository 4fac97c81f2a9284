---------------------- MODULE ServiceConnectionProofs ----------------------
(* Proofs about ServiceConnection, for any number of writers.              *)
EXTENDS ServiceConnection, TLAPS

\* From "announce" until the transport is disposed StartAsync has a usable connection.
SetUp == {"announce", "initialized", "read", "ping", "dispatch", "disconnect", "cleanup", "dispose"}

\* Before the outcome of the handshake is known.
Connecting == {"connect", "handshake", "established", "announce", "failed"}

\* The inductive invariant: what holds at each place of StartAsync, and who holds the lock.
Inv ==
  /\ TypeOK
  /\ main = "new" => status = "Inited"
  /\ main \in Connecting => status = "Connecting"
  /\ status = "Connected" => main \in {"initialized", "read", "ping", "dispatch", "disconnect"}
  /\ main \in {"handshake", "established"} => transport = "open"
  /\ main \in SetUp => context /\ transport = "open"
  /\ main \in {"read", "ping", "dispatch", "disconnect", "cleanup", "dispose"} => startTcs = "true"
  /\ main \in {"new", "initialized"} \cup Connecting => startTcs = "none"
  /\ main \in {"disconnect", "cleanup", "dispose"} => offlineTcs
  /\ main \in {"ping", "dispose"} => lock = {Main}
  /\ \A w \in Writers : writer[w] = "write" => lock = {w} /\ main \in SetUp
  /\ \A w \in Writers : writer[w] # "failed"
  /\ TasksSettled

\* Every state is well typed and satisfies the invariant.
THEOREM Invariance == Spec => []Inv
<1>1. Init => Inv
  BY DEF Init, Inv, TypeOK, SetUp, Connecting, TasksSettled, Main
<1>2. Inv /\ [Next]_vars => Inv'
  <2> SUFFICES ASSUME Inv, [Next]_vars PROVE Inv'
    OBVIOUS
  <2> USE MainAssumption DEF Inv, TypeOK, SetUp, Connecting, TasksSettled, unchangedByConnect
  <2>1. CASE Start
    BY <2>1 DEF Start
  <2>2. CASE CreateConnection
    BY <2>2 DEF CreateConnection
  <2>3. CASE Handshake
    BY <2>3 DEF Handshake
  <2>4. CASE SetContext
    BY <2>4 DEF SetContext
  <2>5. CASE Announce
    BY <2>5 DEF Announce
  <2>6. CASE Initialized
    BY <2>6 DEF Initialized
  <2>7. CASE FailToConnect
    BY <2>7 DEF FailToConnect
  <2>8. CASE Receive
    <3>1. CASE lock = {}
      <4>1. \A w \in Writers : writer[w] # "write"
        BY <3>1
      <4> QED
        BY <2>8, <3>1, <4>1 DEF Receive
    <3>2. CASE lock # {}
      BY <2>8, <3>2 DEF Receive
    <3> QED
      BY <3>1, <3>2
  <2>9. CASE SentPing
    BY <2>9 DEF SentPing, Main
  <2>10. CASE Dispatch
    <3>1. CASE OnServiceError
      BY <2>10, <3>1 DEF Dispatch, OnServiceError
    <3>2. CASE OnServerOffline
      BY <2>10, <3>2 DEF Dispatch, OnServerOffline
    <3>3. CASE OnFinAck
      BY <2>10, <3>3 DEF Dispatch, OnFinAck
    <3>4. ASSUME NEW w \in Writers, OnEcho(w)
          PROVE  Inv'
      BY <2>10, <3>4 DEF Dispatch, OnEcho, WriterGate
    <3>5. CASE OnOther
      BY <2>10, <3>5 DEF Dispatch, OnOther
    <3> QED
      BY <2>10, <3>1, <3>2, <3>3, <3>4, <3>5 DEF Dispatch
  <2>11. CASE EndRead
    BY <2>11 DEF EndRead
  <2>12. CASE Disconnect
    BY <2>12 DEF Disconnect
  <2>13. CASE LockForDispose
    BY <2>13 DEF LockForDispose
  <2>14. CASE DisposeConnection
    BY <2>14 DEF DisposeConnection
  <2>15. CASE StopAsync \/ KeepAlive
    <3>1. canceled' \in BOOLEAN
      BY <2>15, Zenon DEF StopAsync, KeepAlive
    <3>2. UNCHANGED <<main, status, context, transport, startTcs, offlineTcs, errorMessage,
                      lock, writer, service, stale>>
      BY <2>15, Zenon DEF StopAsync, KeepAlive
    <3> QED
      BY <3>1, <3>2
  <2>16. CASE ServiceTimeout \/ ServiceGone
    <3>1. CASE ServiceTimeout
      BY <3>1 DEF ServiceTimeout
    <3>2. CASE ServiceGone
      BY <3>2 DEF ServiceGone
    <3> QED
      BY <2>16, <3>1, <3>2
  <2>17. ASSUME NEW w \in Writers, Write(w)
         PROVE  Inv'
    BY <2>17 DEF Write, WriterGate
  <2>18. ASSUME NEW w \in Writers, WriterLock(w)
         PROVE  Inv'
    BY <2>18 DEF WriterLock
  <2>19. ASSUME NEW w \in Writers, WriterFlush(w)
         PROVE  Inv'
    BY <2>19 DEF WriterFlush
  <2>20. ASSUME NEW w \in Writers, WriterReturn(w)
         PROVE  Inv'
    BY <2>20 DEF WriterReturn
  <2>21. CASE UNCHANGED vars
    BY <2>21 DEF vars
  <2> QED
    BY <2>1, <2>2, <2>3, <2>4, <2>5, <2>6, <2>7, <2>8, <2>9, <2>10, <2>11, <2>12, <2>13, <2>14,
       <2>15, <2>16, <2>17, <2>18, <2>19, <2>20, <2>21 DEF Next, StartStep, WriterStep
<1> QED
  BY <1>1, <1>2, PTL DEF Spec

\* A write that passed the check of Status under _writeLock reaches an open transport.
THEOREM WritesAreSafe == Spec => []WritesReachTransport
<1>1. Inv => WritesReachTransport
  BY DEF Inv, SetUp, WritesReachTransport
<1> QED
  BY <1>1, Invariance, PTL

\* StartAsync returns with the tasks others wait on settled and the transport disposed.
THEOREM ReturnsSettled == Spec => []TasksSettled
<1>1. Inv => TasksSettled
  BY DEF Inv
<1> QED
  BY <1>1, Invariance, PTL

\* No step makes a disconnected connection Connected again.
THEOREM NeverReconnected == Spec => DisconnectedIsFinal
<1>1. Inv /\ [Next]_vars => [status = "Disconnected" => status' = "Disconnected"]_vars
  <2> SUFFICES ASSUME Inv, Next, status = "Disconnected"
               PROVE  status' = "Disconnected"
    BY DEF vars
  <2> USE DEF Inv, Connecting, unchangedByConnect
  <2>1. CASE StartStep
    BY <2>1 DEF StartStep, CreateConnection, Handshake, SetContext, Announce, Initialized,
                FailToConnect, SentPing, Dispatch, OnServiceError, OnServerOffline, OnFinAck,
                OnEcho, OnOther, EndRead, Disconnect, LockForDispose, DisposeConnection
  <2>2. CASE Start \/ Receive \/ StopAsync \/ KeepAlive \/ ServiceTimeout \/ ServiceGone
    BY <2>2 DEF Start, Receive, StopAsync, KeepAlive, ServiceTimeout, ServiceGone
  <2>3. ASSUME NEW w \in Writers, Write(w) \/ WriterStep(w)
        PROVE  status' = "Disconnected"
    BY <2>3 DEF Write, WriterStep, WriterLock, WriterFlush, WriterReturn
  <2> QED
    BY <2>1, <2>2, <2>3 DEF Next
<1> QED
  BY <1>1, Invariance, PTL DEF Spec, DisconnectedIsFinal
=============================================================================
