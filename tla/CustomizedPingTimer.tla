------------------------ MODULE CustomizedPingTimer ------------------------
(***************************************************************************)
(* CustomizedPingTimer, in ServiceConnectionContainerBase.cs: the counted  *)
(* timer of the status and servers pings.  Endpoints are added in parallel *)
(* and each addition calls Start and later Stop on the same timer; Stop    *)
(* takes a lock and Start does not.  A running timer is one with a         *)
(* PingAsync loop that nobody has stopped (TimerAwaitable).                *)
(***************************************************************************)
EXTENDS Naturals, FiniteSets

CONSTANTS
  Users,          \* threads that call Start, and Stop after it, again and again
  WrongStoppers,  \* threads that call Stop without a Start
  MaxTimers       \* bound on the TimerAwaitables made

ASSUME TimerAssumption == MaxTimers \in Nat /\ Users \cap WrongStoppers = {}

None == 0

VARIABLES
  counter,  \* _counter
  timer,    \* _timer
  made,     \* the number of TimerAwaitables made
  active,   \* the timers whose PingAsync loop runs
  lock,     \* the holders of _lock
  pc,       \* where each thread is
  overlap,  \* a Start and a Stop or Dispose have overlapped (history)
  disposed  \* Dispose was called (history)

vars == <<counter, timer, made, active, lock, pc, overlap, disposed>>

Threads == Users \cup WrongStoppers

InStart == {"create", "start", "ping"}
InStop == {"enterStop", "cleanup"}

Init ==
  /\ counter = 0
  /\ timer = None
  /\ made = 0
  /\ active = {}
  /\ lock = {}
  /\ pc = [t \in Threads |-> IF t \in Users THEN "stopped" ELSE "started"]
  /\ overlap = FALSE
  /\ disposed = FALSE

Goto(t, from, to) == pc[t] = from /\ pc' = [pc EXCEPT ![t] = to]

SomeIn(places) == \E t \in Threads : pc[t] \in places

-----------------------------------------------------------------------------
\* Mutant: every Start makes a timer.
StartIncrementCreates(t) ==
  /\ made + Cardinality({u \in Threads : pc[u] = "create"}) < MaxTimers
  /\ Goto(t, "stopped", "create")
  /\ counter' = counter + 1
  /\ overlap' = (overlap \/ SomeIn(InStop))
  /\ UNCHANGED <<timer, made, active, lock, disposed>>

\* Start increments; only the first has more to do.
StartIncrement(t) ==
  /\ made + Cardinality({u \in Threads : pc[u] = "create"}) < MaxTimers
  /\ Goto(t, "stopped", IF counter = 0 THEN "create" ELSE "started")
  /\ counter' = counter + 1
  /\ overlap' = (overlap \/ SomeIn(InStop))
  /\ UNCHANGED <<timer, made, active, lock, disposed>>

\* _timer = Init().
StartCreate(t) ==
  /\ Goto(t, "create", "start")
  /\ made' = made + 1
  /\ timer' = made'
  /\ UNCHANGED <<counter, active, lock, overlap, disposed>>

\* _timer.Start() reads the field again, and throws if it is null by now.
StartStart(t) ==
  /\ Goto(t, "start", IF timer = None THEN "started" ELSE "ping")
  /\ UNCHANGED <<counter, timer, made, active, lock, overlap, disposed>>

\* PingAsync(_timer), once more.
StartPing(t) ==
  /\ Goto(t, "ping", "started")
  /\ active' = IF timer = None THEN active ELSE active \cup {timer}
  /\ UNCHANGED <<counter, timer, made, lock, overlap, disposed>>

\* Stop takes the lock ...
StopEnter(t) ==
  /\ lock = {}
  /\ Goto(t, "started", "enterStop")
  /\ lock' = {t}
  /\ overlap' = (overlap \/ SomeIn(InStart))
  /\ UNCHANGED <<counter, timer, made, active, disposed>>

\* ... looks at the counter and decrements it ...
StopDecrement(t) ==
  /\ pc[t] = "enterStop"
  /\ IF counter = 1
     THEN pc' = [pc EXCEPT ![t] = "cleanup"] /\ UNCHANGED lock
     ELSE pc' = [pc EXCEPT ![t] = IF t \in Users THEN "stopped" ELSE "started"] /\ lock' = {}
  /\ counter' = IF counter = 0 THEN 0 ELSE counter - 1
  /\ UNCHANGED <<timer, made, active, overlap, disposed>>

\* ... and the last one stops whatever timer it finds.
CleanupTimer(t) ==
  /\ Goto(t, "cleanup", IF t \in Users THEN "stopped" ELSE "started")
  /\ timer' = None
  /\ active' = active \ {timer}
  /\ lock' = {}
  /\ UNCHANGED <<counter, made, overlap, disposed>>

\* Dispose stops the timer and does not count.
Dispose ==
  /\ ~disposed
  /\ disposed' = TRUE
  /\ timer' = None
  /\ active' = active \ {timer}
  /\ overlap' = (overlap \/ SomeIn(InStart))
  /\ UNCHANGED <<counter, made, lock, pc>>

Next == Dispose \/ \E t \in Threads :
  \/ StartIncrement(t) \/ StartCreate(t) \/ StartStart(t) \/ StartPing(t)
  \/ StopEnter(t) \/ StopDecrement(t) \/ CleanupTimer(t)

Spec == Init /\ [][Next]_vars

-----------------------------------------------------------------------------
\* The type invariant of the counter, the timer objects and the callers; the counter
\* never becomes negative (Stop tests it first).
TypeOK ==
  /\ counter \in Nat
  /\ timer \in 0..MaxTimers
  /\ made \in 0..MaxTimers
  /\ active \subseteq 1..MaxTimers
  /\ lock \subseteq Threads
  /\ pc \in [Threads -> InStart \cup InStop \cup {"started", "stopped"}]
  /\ overlap \in BOOLEAN
  /\ disposed \in BOOLEAN

\* Between calls, one PingAsync loop runs if the counter is positive and none otherwise.
TimerMatchesCounter ==
  ~SomeIn(InStart \cup InStop) /\ ~disposed
    => IF counter = 0 THEN active = {} ELSE timer # None /\ active = {timer}

\* As long as no Start overlaps with a Stop, that is so, however Starts overlap with each
\* other, Stops with each other, and Stop is called too often ("Avoid wrong Stop() to
\* break _counter in further scale").
SerialUseCounts == ~overlap => TimerMatchesCounter

\* "Considering parallel add endpoints to save time, Add a counter control multiple time
\* call Start() and Stop() correctly."  Parallel additions do overlap.
\* It does not hold; see the README.
ParallelUseCounts == TimerMatchesCounter
=============================================================================
