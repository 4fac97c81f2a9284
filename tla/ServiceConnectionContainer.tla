--------------------- MODULE ServiceConnectionContainer ---------------------
(***************************************************************************)
(* ServiceConnectionContainerBase.cs and StrongServiceConnectionContainer: *)
(* the server connections of one hub to one endpoint.  The first Fixed     *)
(* positions of ServiceConnections are restarted for ever; the service may *)
(* ask for more ("rebalance"), which live after them and are not.  Each    *)
(* connection runs on its own thread (variable run), in which it also      *)
(* raises ConnectionStatusChanged, so the container's handlers of two      *)
(* connections interleave.  What a connection does by itself is the        *)
(* subject of ServiceConnection; here it connects or not, drops and ends.  *)
(***************************************************************************)
EXTENDS Naturals, Sequences, FiniteSets

CONSTANTS
  Conns,      \* connection objects; one that nobody refers to any more is reused
  Fixed,      \* FixedConnectionCount
  MaxCount    \* _maxConnectionCount

ASSUME ContainerAssumption ==
  /\ Fixed \in Nat
  /\ MaxCount \in Nat /\ MaxCount >= Fixed

VARIABLES
  list,        \* ServiceConnections
  type,        \* Default or OnDemand
  run,         \* where the thread of each connection is
  status,      \* IServiceConnection.Status
  established, \* connections that have been Connected (a failed one ends at once)
  value,       \* what GetStatus() returned to the handler running for a connection
  slot,        \* the index RestartFixedServiceConnectionCoreAsync was called with
  cstatus,     \* the container's Status
  online,      \* Endpoint.Online
  terminated,  \* _terminated
  stopper,     \* where StopAsync is
  toStop,      \* the connections whose StopAsync it has still to call, in order
  stopping,    \* connections whose read was canceled
  missed       \* connections that had nothing to cancel yet when StopAsync came (history)

vars == <<list, type, run, status, established, value, slot, cstatus, online, terminated,
          stopper, toStop, stopping, missed>>

Elements(s) == {s[i] : i \in DOMAIN s}

\* List.Remove: the first occurrence, if there is one, is taken out.
First(s, c) == CHOOSE i \in DOMAIN s : s[i] = c /\ \A j \in 1..(i - 1) : s[j] # c

Without(s, c) ==
  IF c \in Elements(s)
  THEN [i \in 1..(Len(s) - 1) |-> s[IF i < First(s, c) THEN i ELSE i + 1]]
  ELSE s

IndexOf(c) == First(list, c)

\* GetStatus.
GetStatus == IF \E i \in DOMAIN list : status[list[i]] = "Connected" THEN "Connected" ELSE "Disconnected"

\* The constructor fills the fixed positions; StartAsync calls StartCoreAsync for each.
Init ==
  /\ \E s \in [1..Fixed -> Conns] :
       /\ \A i, j \in 1..Fixed : s[i] = s[j] => i = j
       /\ list = s
       /\ run = [c \in Conns |-> IF c \in Elements(s) THEN "created" ELSE "unused"]
  /\ type = [c \in Conns |-> "Default"]
  /\ status = [c \in Conns |-> "Inited"]
  /\ established = {}
  /\ value = [c \in Conns |-> "Disconnected"]
  /\ slot = [c \in Conns |-> 0]
  /\ cstatus = "Inited"
  /\ online = TRUE
  /\ terminated = FALSE
  /\ stopper = "idle"
  /\ toStop = <<>>
  /\ stopping = {}
  /\ missed = {}

containerVars == <<cstatus, online, terminated>>
stopVars == <<stopper, toStop, stopping, missed>>

At(c, from, to) == run[c] = from /\ run' = [run EXCEPT ![c] = to]

-----------------------------------------------------------------------------
(* StartCoreAsync and the connection's own life.                           *)

\* Mutant: _terminated is not looked at.
StartCoreAlways(c) ==
  /\ At(c, "created", "starting")
  /\ UNCHANGED <<list, type, status, established, value, slot, containerVars, stopVars>>

\* StartCoreAsync reads _terminated; a connection it skips is never started.
StartCore(c) ==
  /\ At(c, "created", IF terminated THEN "abandoned" ELSE "starting")
  /\ UNCHANGED <<list, type, status, established, value, slot, containerVars, stopVars>>

\* connection.StartAsync: Status = Connecting, which the handler ignores.
Connect(c) ==
  /\ At(c, "starting", "connecting")
  /\ status' = [status EXCEPT ![c] = "Connecting"]
  /\ UNCHANGED <<list, type, established, value, slot, containerVars, stopVars>>

\* The connection is established or not; Status changes and the event is raised.
ConnectResult(c, new) ==
  /\ At(c, "connecting", "changed")
  /\ status' = [status EXCEPT ![c] = new]
  /\ established' = IF new = "Connected" THEN established \cup {c} ELSE established
  /\ UNCHANGED <<list, type, value, slot, containerVars, stopVars>>

\* The connection is lost or stopped, or the service says that it goes offline.
Drop(c) ==
  /\ At(c, "running", "changed")
  /\ status' = [status EXCEPT ![c] = "Disconnected"]
  /\ UNCHANGED <<list, type, established, value, slot, containerVars, stopVars>>

AfterEvent(c) ==
  CASE status[c] = "Connected" -> "running"
    [] status[c] # "Connected" /\ c \in established -> "draining"
    [] OTHER -> "ended"

\* OnConnectionStatusChanged compares with the container's Status ...
StatusChanged(c) ==
  /\ At(c, "changed", IF status[c] # cstatus THEN "computing" ELSE AfterEvent(c))
  /\ UNCHANGED <<list, type, status, established, value, slot, containerVars, stopVars>>

\* ... evaluates GetStatus(), holding no lock ...
ComputeStatus(c) ==
  /\ At(c, "computing", "setting")
  /\ value' = [value EXCEPT ![c] = GetStatus]
  /\ UNCHANGED <<list, type, status, established, slot, containerVars, stopVars>>

\* ... and assigns Status, whose setter raises OnStatusChanged if it is a change.
SetStatus(c) ==
  /\ At(c, "setting", AfterEvent(c))
  /\ cstatus' = value[c]
  /\ online' = IF cstatus # value[c] THEN value[c] = "Connected" ELSE online
  /\ value' = [value EXCEPT ![c] = "Disconnected"]
  /\ UNCHANGED <<list, type, status, established, slot, terminated, stopVars>>

\* The read loop is over, the clients are cleaned up, connection.StartAsync returns.
End(c) ==
  /\ At(c, "draining", "ended")
  /\ UNCHANGED <<list, type, status, established, value, slot, containerVars, stopVars>>

\* The object c is forgotten, and its name may stand for a new connection.
Forget(c) ==
  /\ type' = [type EXCEPT ![c] = "Default"]
  /\ status' = [status EXCEPT ![c] = "Inited"]
  /\ established' = established \ {c}
  /\ slot' = [slot EXCEPT ![c] = 0]
  /\ stopping' = stopping \ {c}
  /\ missed' = missed \ {c}
  /\ toStop' = Without(toStop, c)

\* Mutant: a connection that was never established is not restarted.
CompleteFixedEstablished(c) ==
  /\ IndexOf(c) <= Fixed
  /\ At(c, "ended", IF terminated \/ c \notin established THEN "finished" ELSE "backoff")
  /\ slot' = [slot EXCEPT ![c] = IndexOf(c)]
  /\ UNCHANGED <<list, type, status, established, value, containerVars, stopVars>>

\* OnConnectionComplete for one of the first FixedConnectionCount connections:
\* RestartFixedServiceConnectionCoreAsync(index) gives up or enters the back-off policy.
CompleteFixed(c) ==
  /\ IndexOf(c) <= Fixed
  /\ At(c, "ended", IF terminated THEN "finished" ELSE "backoff")
  /\ slot' = [slot EXCEPT ![c] = IndexOf(c)]
  /\ UNCHANGED <<list, type, status, established, value, containerVars, stopVars>>

\* OnConnectionComplete for the rest: RemoveOnDemandConnection.
CompleteOnDemand(c) ==
  /\ IndexOf(c) > Fixed
  /\ At(c, "ended", "unused")
  /\ list' = Without(list, c)
  /\ Forget(c)
  /\ UNCHANGED <<value, containerVars, stopper>>

OnConnectionComplete(c) == run[c] = "ended" /\ (CompleteFixed(c) \/ CompleteOnDemand(c))

\* Mutant: the new connection does not replace the lost one.
TryNewConnectionUnlisted(c, new) ==
  /\ run[c] = "backoff"
  /\ run[new] = "unused"
  /\ run' = [run EXCEPT ![c] = "unused", ![new] = "created"]
  /\ Forget(c)
  /\ UNCHANGED <<list, value, containerVars, stopper>>

\* The back-off policy calls tryNewConnection, which does not look at _terminated again:
\* a new connection takes position slot[c], and StartCoreAsync is called for it.
TryNewConnection(c, new) ==
  /\ run[c] = "backoff"
  /\ run[new] = "unused"
  /\ list' = [list EXCEPT ![slot[c]] = new]
  /\ run' = [run EXCEPT ![c] = "unused", ![new] = "created"]
  /\ Forget(c)
  /\ UNCHANGED <<value, containerVars, stopper>>

-----------------------------------------------------------------------------
(* StrongServiceConnectionContainer.HandlePingAsync, on the read loop of a *)
(* connection, also one that the service has told to go offline.           *)

\* Objects left for new connections besides the one tryNewConnection needs.  This bounds
\* the model: the program can always make another object.
SpareObjects ==
  Cardinality({c \in Conns : run[c] = "unused"}) > 1 + Cardinality({c \in Conns : run[c] = "rebalancing"})

\* A rebalance ping passes the comparison of ServiceConnections.Count with the maximum.
Rebalance(c) ==
  /\ SpareObjects
  /\ run[c] \in {"running", "draining"}
  /\ Len(list) < MaxCount
  /\ run' = [run EXCEPT ![c] = "rebalancing"]
  /\ UNCHANGED <<list, type, status, established, value, slot, containerVars, stopVars>>

\* Mutant: the new connection is put in front.
AddOnDemandFirst(c, new) ==
  /\ run[c] = "rebalancing"
  /\ run[new] = "unused"
  /\ list' = <<new>> \o list
  /\ run' = [run EXCEPT ![new] = "created", ![c] = AfterEvent(c)]
  /\ type' = [type EXCEPT ![new] = "OnDemand"]
  /\ UNCHANGED <<status, established, value, slot, containerVars, stopVars>>

\* AddOnDemandConnection under _lock; then StartCoreAsync, which is not waited for.
AddOnDemand(c, new) ==
  /\ run[c] = "rebalancing"
  /\ run[new] = "unused"
  /\ list' = Append(list, new)
  /\ run' = [run EXCEPT ![new] = "created", ![c] = AfterEvent(c)]
  /\ type' = [type EXCEPT ![new] = "OnDemand"]
  /\ UNCHANGED <<status, established, value, slot, containerVars, stopVars>>

-----------------------------------------------------------------------------
(* StopAsync and OfflineAsync.                                             *)

\* StopAsync: _terminated comes first ...
StopAsync ==
  /\ stopper # "terminated" /\ toStop = <<>>
  /\ terminated' = TRUE
  /\ stopper' = "terminated"
  /\ UNCHANGED <<list, type, run, status, established, value, slot, cstatus, online, toStop, stopping, missed>>

\* ... then it goes through the connections it finds ...
StopConnections ==
  /\ stopper = "terminated"
  /\ stopper' = "called"
  /\ toStop' = list
  /\ UNCHANGED <<list, type, run, status, established, value, slot, containerVars, stopping, missed>>

\* ... and calls StopAsync of each, which takes effect if it is connected and is lost
\* if it is still connecting.
StopConnection ==
  /\ toStop # <<>>
  /\ toStop' = Tail(toStop)
  /\ LET c == Head(toStop) IN
       /\ stopping' = IF status[c] = "Connected" THEN stopping \cup {c} ELSE stopping
       /\ missed' = IF run[c] \in {"starting", "connecting"} THEN missed \cup {c} ELSE missed
  /\ UNCHANGED <<list, type, run, status, established, value, slot, containerVars, stopper>>

\* OfflineAsync: _terminated; the fin pings it sends change nothing here.
OfflineAsync ==
  /\ terminated' = TRUE
  /\ UNCHANGED <<list, type, run, status, established, value, slot, cstatus, online, stopVars>>

-----------------------------------------------------------------------------
ConnStep(c) ==
  \/ StartCore(c) \/ Connect(c) \/ StatusChanged(c) \/ ComputeStatus(c) \/ SetStatus(c)
  \/ OnConnectionComplete(c)
  \/ \E new \in {"Connected", "Disconnected"} : ConnectResult(c, new)
  \/ \E new \in Conns : TryNewConnection(c, new) \/ AddOnDemand(c, new)

Next ==
  \/ \E c \in Conns : ConnStep(c) \/ Drop(c) \/ End(c) \/ Rebalance(c)
  \/ StopAsync \/ StopConnections \/ StopConnection \/ OfflineAsync

Spec == Init /\ [][Next]_vars

\* Threads run on, a connection attempt ends, a back-off delay passes, and a connection
\* whose read was canceled drops (ServiceConnection!StopTakesEffect).  No connection has
\* to succeed, none has to drop by itself, and one told to go offline may linger.
Fairness ==
  /\ \A c \in Conns : WF_vars(ConnStep(c)) /\ WF_vars(Drop(c) /\ c \in stopping)
  /\ WF_vars(StopConnections \/ StopConnection)

FairSpec == Spec /\ Fairness

-----------------------------------------------------------------------------
\* The type invariant of the container, its connections and StopAsync.
TypeOK ==
  /\ list \in Seq(Conns)
  /\ type \in [Conns -> {"Default", "OnDemand"}]
  /\ run \in [Conns -> {"unused", "created", "abandoned", "starting", "connecting", "changed", "computing",
                        "setting", "running", "rebalancing", "draining", "ended", "backoff", "finished"}]
  /\ status \in [Conns -> {"Inited", "Connecting", "Connected", "Disconnected"}]
  /\ established \subseteq Conns
  /\ value \in [Conns -> {"Connected", "Disconnected"}]
  /\ slot \in [Conns -> Nat]
  /\ cstatus \in {"Inited", "Connected", "Disconnected"}
  /\ online \in BOOLEAN
  /\ terminated \in BOOLEAN
  /\ stopper \in {"idle", "terminated", "called"}
  /\ toStop \in Seq(Conns)
  /\ stopping \subseteq Conns
  /\ missed \subseteq Conns

\* The asserts of AddOnDemandConnection and RemoveOnDemandConnection, and what the
\* restart relies on when it uses an index it took before the back-off delay: the first
\* FixedConnectionCount positions always hold the fixed connections, however many
\* on-demand ones come and go, and the index still belongs to the connection lost.
SlotsKept ==
  /\ Len(list) >= Fixed
  /\ \A i \in DOMAIN list : type[list[i]] = IF i <= Fixed THEN "Default" ELSE "OnDemand"
  /\ \A c \in Conns : run[c] = "backoff" => slot[c] \in 1..Fixed /\ list[slot[c]] = c

\* No connection escapes the container: whatever is being set up or running is in
\* ServiceConnections, once, so that StopAsync, OfflineAsync and GetStatus see it.
NoStray ==
  /\ \A i, j \in DOMAIN list : list[i] = list[j] => i = j
  /\ \A c \in Conns : run[c] # "unused" <=> c \in Elements(list)

\* Unless the container is terminated, a fixed connection that ended is replaced by one
\* that is started.
FixedRecovers ==
  \A i \in 1..Fixed : (run[list[i]] = "ended") ~> (terminated \/ run[list[i]] = "connecting")

\* StopAsync ends every connection for good: the ones it finds drop, and restarts and
\* rebalance requests still in flight no longer connect.  The exceptions are those it met
\* while they were connecting: ServiceConnectionBase.StopAsync has nothing to cancel then.
StopEndsAll ==
  (stopper # "idle") ~> [](\A c \in Conns : status[c] = "Connected" => c \in missed)

\* ServiceEndpoint.Online says "When current app server instance has server connections
\* connected to the target endpoint for current hub, it can deliver messages to that
\* endpoint. The endpoint is then considered as *Online*; otherwise, *Offline*."  Whenever
\* no status handler is running, after the first one, that is what Online should be.  It does
\* not hold; see the README.
OnlineMatchesConnections ==
  cstatus # "Inited" /\ (\A c \in Conns : run[c] \notin {"changed", "computing", "setting"})
    => (online <=> GetStatus = "Connected")

\* ServiceOptions.MaxHubServerConnectionCount says "When the max allowed server connection
\* count is configured, the SDK does not start new connections when server connection
\* count reaches the limit."  It does not hold; see the README.
CountWithinMax == Len(list) <= MaxCount
=============================================================================
