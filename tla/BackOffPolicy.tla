--------------------------- MODULE BackOffPolicy ---------------------------
(***************************************************************************)
(* BackOffPolicy.cs: CallProbeWithBackOffAsync, through which a container  *)
(* restarts its fixed connections.  Of the calls that meet, one leads: it  *)
(* probes (makes a connection) and publishes the result, at once if it is  *)
(* a success and after the delay otherwise.  The others wait for that      *)
(* result; on a success they all probe, on a failure they compete again.   *)
(***************************************************************************)
EXTENDS Naturals

CONSTANTS
  Calls,     \* the calls of CallProbeWithBackOffAsync; a container makes one per lost connection
  NoCall     \* _currentProbeTcs is null

ASSUME NoCallAssumption == NoCall \notin Calls

VARIABLES
  current,  \* _currentProbeTcs: the call whose TaskCompletionSource it is
  retry,    \* _currentRetryCount
  pc,       \* where each call is; one that has not been made yet is at "enter"
  tcs,      \* the result published by each call
  ongoing,  \* ongoingProbeTcs, while the call waits for it
  level,    \* what a call read from _currentRetryCount and has not written back
  probe,    \* the task its probe func returned
  probed,   \* how often its probe func was invoked (history)
  delay,    \* delayTask
  success   \* probeSuccess

vars == <<current, retry, pc, tcs, ongoing, level, probe, probed, delay, success>>

Init ==
  /\ current = NoCall
  /\ retry = 0
  /\ pc = [c \in Calls |-> "enter"]
  /\ tcs = [c \in Calls |-> "none"]
  /\ ongoing = [c \in Calls |-> NoCall]
  /\ level = [c \in Calls |-> 0]
  /\ probe = [c \in Calls |-> "none"]
  /\ probed = [c \in Calls |-> 0]
  /\ delay = [c \in Calls |-> "none"]
  /\ success = [c \in Calls |-> FALSE]

Goto(c, from, to) == pc[c] = from /\ pc' = [pc EXCEPT ![c] = to]

\* probe(): the func is invoked and returns a task.
CallProbe(c) ==
  /\ probe' = [probe EXCEPT ![c] = "running"]
  /\ probed' = [probed EXCEPT ![c] = @ + 1]

\* The CompareExchange on _currentProbeTcs succeeds: this call leads and probes.
Lead(c) ==
  /\ Goto(c, "enter", "count")
  /\ current = NoCall
  /\ current' = c
  /\ CallProbe(c)
  /\ UNCHANGED <<retry, tcs, ongoing, level, delay, success>>

\* It fails and returns the TaskCompletionSource of the call that leads.
Follow(c) ==
  /\ Goto(c, "enter", "follow")
  /\ current # NoCall
  /\ ongoing' = [ongoing EXCEPT ![c] = current]
  /\ UNCHANGED <<current, retry, tcs, level, probe, probed, delay, success>>

-----------------------------------------------------------------------------
(* The leader.                                                             *)

\* getRetryDelay(_currentRetryCount++): nothing orders the increment with the reset in
\* Finish of another call, so it is a read ...
ReadRetry(c) ==
  /\ Goto(c, "count", "counted")
  /\ level' = [level EXCEPT ![c] = retry]
  /\ UNCHANGED <<current, retry, tcs, ongoing, probe, probed, delay, success>>

\* ... and a write; then the delay starts.
WriteRetry(c) ==
  /\ Goto(c, "counted", "lead")
  /\ retry' = level[c] + 1
  /\ level' = [level EXCEPT ![c] = 0]
  /\ delay' = [delay EXCEPT ![c] = "running"]
  /\ UNCHANGED <<current, tcs, ongoing, probe, probed, success>>

\* After WhenAny: the probe succeeded, the delay has passed, or the probe failed first
\* and the rest of the delay is waited for.
AfterWhenAny(c) ==
  /\ pc[c] = "lead"
  /\ probe[c] # "running" \/ delay[c] = "passed"
  /\ success' = [success EXCEPT ![c] = probe[c] = "true"]
  /\ pc' = [pc EXCEPT ![c] = IF probe[c] = "true" \/ delay[c] = "passed" THEN "clear" ELSE "backoff"]
  /\ UNCHANGED <<current, retry, tcs, ongoing, level, probe, probed, delay>>

BackedOff(c) ==
  /\ Goto(c, "backoff", "clear")
  /\ delay[c] = "passed"
  /\ UNCHANGED <<current, retry, tcs, ongoing, level, probe, probed, delay, success>>

\* Mutant: _currentProbeTcs is not cleared.
ClearNothing(c) ==
  /\ Goto(c, "clear", "publish")
  /\ UNCHANGED <<current, retry, tcs, ongoing, level, probe, probed, delay, success>>

\* finally: _currentProbeTcs = null ...
Clear(c) ==
  /\ Goto(c, "clear", "publish")
  /\ current' = NoCall
  /\ UNCHANGED <<retry, tcs, ongoing, level, probe, probed, delay, success>>

\* ... and myTcs.SetResult(probeSuccess); an unfinished or failed probe is still awaited.
Publish(c) ==
  /\ Goto(c, "publish", IF success[c] THEN "finish" ELSE "await")
  /\ tcs' = [tcs EXCEPT ![c] = IF success[c] THEN "true" ELSE "false"]
  /\ UNCHANGED <<current, retry, ongoing, level, probe, probed, delay, success>>

-----------------------------------------------------------------------------
(* The followers.                                                          *)

\* The leader published a success: probe too.
FollowSuccess(c) ==
  /\ Goto(c, "follow", "await")
  /\ tcs[ongoing[c]] = "true"
  /\ ongoing' = [ongoing EXCEPT ![c] = NoCall]
  /\ CallProbe(c)
  /\ UNCHANGED <<current, retry, tcs, level, delay, success>>

\* Mutant: the followers probe whatever the leader's result is.
FollowFailureProbes(c) ==
  /\ Goto(c, "follow", "await")
  /\ tcs[ongoing[c]] = "false"
  /\ ongoing' = [ongoing EXCEPT ![c] = NoCall]
  /\ CallProbe(c)
  /\ UNCHANGED <<current, retry, tcs, level, delay, success>>

\* It published a failure: the loop starts again.
FollowFailure(c) ==
  /\ Goto(c, "follow", "enter")
  /\ tcs[ongoing[c]] = "false"
  /\ ongoing' = [ongoing EXCEPT ![c] = NoCall]
  /\ UNCHANGED <<current, retry, tcs, level, probe, probed, delay, success>>

-----------------------------------------------------------------------------
(* The end of a call, and the world.                                       *)

\* Mutant: the loop runs until the probe succeeds.
AwaitProbeAgain(c) ==
  /\ Goto(c, "await", IF probe[c] = "true" THEN "finish" ELSE "enter")
  /\ probe[c] # "running"
  /\ success' = [success EXCEPT ![c] = probe[c] = "true"]
  /\ UNCHANGED <<current, retry, tcs, ongoing, level, probe, probed, delay>>

\* probeSuccess = await probeTask; a faulted probe makes the call throw.
AwaitProbe(c) ==
  /\ Goto(c, "await", IF probe[c] = "faulted" THEN "done" ELSE "finish")
  /\ probe[c] # "running"
  /\ success' = [success EXCEPT ![c] = probe[c] = "true"]
  /\ UNCHANGED <<current, retry, tcs, ongoing, level, probe, probed, delay>>

\* A success resets the retry counter.
Finish(c) ==
  /\ Goto(c, "finish", "done")
  /\ retry' = IF success[c] THEN 0 ELSE retry
  /\ UNCHANGED <<current, tcs, ongoing, level, probe, probed, delay, success>>

ProbeEnds(c) ==
  /\ probe[c] = "running"
  /\ \E result \in {"true", "false", "faulted"} : probe' = [probe EXCEPT ![c] = result]
  /\ UNCHANGED <<current, retry, pc, tcs, ongoing, level, probed, delay, success>>

DelayPasses(c) ==
  /\ delay[c] = "running"
  /\ delay' = [delay EXCEPT ![c] = "passed"]
  /\ UNCHANGED <<current, retry, pc, tcs, ongoing, level, probe, probed, success>>

-----------------------------------------------------------------------------
CallStep(c) ==
  \/ Lead(c) \/ Follow(c)
  \/ ReadRetry(c) \/ WriteRetry(c) \/ AfterWhenAny(c) \/ BackedOff(c) \/ Clear(c) \/ Publish(c)
  \/ FollowSuccess(c) \/ FollowFailure(c)
  \/ AwaitProbe(c) \/ Finish(c)

Next == \E c \in Calls : CallStep(c) \/ ProbeEnds(c) \/ DelayPasses(c)

Spec == Init /\ [][Next]_vars

\* Calls run on, delays pass, and a probe ends: tryNewConnection awaits
\* ConnectionInitializedTask, which StartAsync of the connection always completes.
Fairness == \A c \in Calls : WF_vars(CallStep(c)) /\ WF_vars(ProbeEnds(c)) /\ WF_vars(DelayPasses(c))

FairSpec == Spec /\ Fairness

-----------------------------------------------------------------------------
\* The type invariant of the calls of CallProbeWithBackOffAsync and the policy's fields.
TypeOK ==
  /\ current \in Calls \cup {NoCall}
  /\ retry \in Nat
  /\ pc \in [Calls -> {"enter", "count", "counted", "lead", "backoff", "clear", "publish",
                       "follow", "await", "finish", "done"}]
  /\ tcs \in [Calls -> {"none", "true", "false"}]
  /\ ongoing \in [Calls -> Calls \cup {NoCall}]
  /\ level \in [Calls -> Nat]
  /\ probe \in [Calls -> {"none", "running", "true", "false", "faulted"}]
  /\ probed \in [Calls -> Nat]
  /\ delay \in [Calls -> {"none", "running", "passed"}]
  /\ success \in [Calls -> BOOLEAN]

\* "Each caller's probe func will be invoked exactly one time", on whichever of the two
\* paths, and however often a call had to follow a leader that failed.
ProbedExactlyOnce ==
  \A c \in Calls : probed[c] <= 1 /\ (pc[c] = "done" => probed[c] = 1)

\* The point of the policy: as long as no probe has succeeded, probes are not started
\* together.  If two are running, one of them has outlived its delay.
NoStampede ==
  (\A c \in Calls : probe[c] # "true") =>
    \A c, d \in Calls : c # d /\ probe[c] = "running" /\ probe[d] = "running"
                          => delay[c] = "passed" \/ delay[d] = "passed"

\* Every call returns: a follower is never left with a TaskCompletionSource that nobody
\* completes, and _currentProbeTcs never keeps a call that is over.
CallsReturn == \A c \in Calls : (pc[c] = "enter") ~> (pc[c] = "done")

\* A leader that failed, or whose probe is late, lets nobody else probe before its delay
\* has passed: neither by publishing its failure nor by clearing _currentProbeTcs.
FailureHeldBack ==
  \A c \in Calls :
    tcs[c] = "false" \/ (pc[c] \in {"clear", "publish"} /\ ~success[c]) => delay[c] = "passed"

\* The doc comment says that the task of a failed call completes when "probe's task.Result ==
\* false / faulted / cancelled and the delay defined by getRetryDelay has passed".  It does
\* not hold for a follower; see the README.
FailureReturnsAfterDelay ==
  \A c \in Calls : pc[c] = "done" /\ ~success[c] => delay[c] = "passed"
=============================================================================
