--------------------------- MODULE TimerAwaitable ---------------------------
(***************************************************************************)
(* TimerAwaitable.cs: the timer behind the keep-alive, status ping, client *)
(* heartbeat and access key loops, all written  while (await timer) body.  *)
(* The loop, the ticks of the system timer and callers of Stop/Dispose run *)
(* on different threads and meet in _callback.                             *)
(***************************************************************************)
EXTENDS Naturals

CONSTANTS Stoppers  \* threads that call Stop and then Dispose

VARIABLES
  callback,  \* _callback: null, a continuation, or _callbackCompleted
  running,   \* _running
  disposed,  \* _disposed
  timer,     \* the system timer exists
  loop,      \* where the loop is
  stopper    \* where each caller of Stop is

vars == <<callback, running, disposed, timer, loop, stopper>>

Init ==
  /\ callback = "null"
  /\ running = TRUE
  /\ disposed = FALSE
  /\ timer = FALSE
  /\ loop = "start"
  /\ stopper = [s \in Stoppers |-> "idle"]

\* Start creates the system timer unless the object is disposed; then the loop is entered.
Start ==
  /\ loop = "start"
  /\ loop' = "await"
  /\ timer' = ~disposed
  /\ UNCHANGED <<callback, running, disposed, stopper>>

\* IsCompleted.
IsCompleted ==
  /\ loop = "await"
  /\ loop' = IF callback = "completed" THEN "result" ELSE "register"
  /\ UNCHANGED <<callback, running, disposed, timer, stopper>>

\* OnCompleted: the continuation is stored, or run at once if a tick came in between.
OnCompleted ==
  /\ loop = "register"
  /\ IF callback = "completed"
     THEN loop' = "result" /\ UNCHANGED callback
     ELSE loop' = "parked" /\ callback' = "continuation"
  /\ UNCHANGED <<running, disposed, timer, stopper>>

\* GetResult forgets the callback ...
GetResult ==
  /\ loop = "result"
  /\ loop' = "return"
  /\ callback' = "null"
  /\ UNCHANGED <<running, disposed, timer, stopper>>

\* ... and then reads _running, which decides whether the loop goes on.
ReadRunning ==
  /\ loop = "return"
  /\ loop' = IF running THEN "body" ELSE "exit"
  /\ UNCHANGED <<callback, running, disposed, timer, stopper>>

\* The body of the loop returns.
Body ==
  /\ loop = "body"
  /\ loop' = "await"
  /\ UNCHANGED <<callback, running, disposed, timer, stopper>>

\* Mutant: a continuation is invoked and stays where it is.
TickKeeps ==
  /\ callback' = IF callback = "continuation" THEN callback ELSE "completed"
  /\ loop' = IF callback = "continuation" THEN "result" ELSE loop

\* Tick exchanges the callback for _callbackCompleted and invokes what was there.
Tick ==
  /\ callback' = "completed"
  /\ loop' = IF callback = "continuation" THEN "result" ELSE loop

TimerTick ==
  /\ timer
  /\ Tick
  /\ UNCHANGED <<running, disposed, timer, stopper>>

\* Mutant: Stop does not tick.
StopSilently(s) ==
  /\ stopper[s] = "idle"
  /\ stopper' = [stopper EXCEPT ![s] = "stopped"]
  /\ running' = (running /\ disposed)
  /\ UNCHANGED <<callback, disposed, timer, loop>>

\* Stop, under _lockObj: nothing if disposed, otherwise _running = false ...
Stop(s) ==
  /\ stopper[s] = "idle"
  /\ stopper' = [stopper EXCEPT ![s] = IF disposed THEN "stopped" ELSE "tick"]
  /\ running' = (running /\ disposed)
  /\ UNCHANGED <<callback, disposed, timer, loop>>

\* ... and a tick outside of the lock, so that a waiting loop notices.
StopTick(s) ==
  /\ stopper[s] = "tick"
  /\ stopper' = [stopper EXCEPT ![s] = "stopped"]
  /\ Tick
  /\ UNCHANGED <<running, disposed, timer>>

Dispose(s) ==
  /\ stopper[s] = "stopped"
  /\ stopper' = [stopper EXCEPT ![s] = "done"]
  /\ disposed' = TRUE
  /\ timer' = FALSE
  /\ UNCHANGED <<callback, running, loop>>

-----------------------------------------------------------------------------
LoopStep == Start \/ IsCompleted \/ OnCompleted \/ GetResult \/ ReadRunning \/ Body

Next == LoopStep \/ TimerTick \/ \E s \in Stoppers : Stop(s) \/ StopTick(s) \/ Dispose(s)

Spec == Init /\ [][Next]_vars

\* The loop and a started Stop run on; nobody has to call Stop.  The system timer needs
\* no fairness: after Stop there may be no tick other than Stop's own.
Fairness == WF_vars(LoopStep) /\ \A s \in Stoppers : WF_vars(StopTick(s))

FairSpec == Spec /\ Fairness

-----------------------------------------------------------------------------
\* The type invariant of the timer's callback, flags, the loop and the stoppers.
TypeOK ==
  /\ callback \in {"null", "continuation", "completed"}
  /\ running \in BOOLEAN
  /\ disposed \in BOOLEAN
  /\ timer \in BOOLEAN
  /\ loop \in {"start", "await", "register", "parked", "result", "return", "body", "exit"}
  /\ stopper \in [Stoppers -> {"idle", "tick", "stopped", "done"}]

\* A continuation is stored exactly while the loop is parked: no tick can resume the loop
\* a second time, and a parked loop can always be resumed.
ResumedOnce == callback = "continuation" <=> loop = "parked"

\* Stop ends the loop wherever it finds it: parked, about to park, in its body, or
\* between forgetting the callback and reading _running, and without a further tick.
StopEndsLoop == ~running ~> loop = "exit"
=============================================================================
