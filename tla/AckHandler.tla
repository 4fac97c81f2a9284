---------------------------- MODULE AckHandler ----------------------------
(***************************************************************************)
(* AckHandler.cs: the table of acks a server is waiting for.  A caller     *)
(* creates an ack and awaits its task; the connections that receive        *)
(* AckMessages trigger it; a timer expires it; Dispose cancels whatever is *)
(* left.  The four run on different threads.  One action is one operation  *)
(* on _acks, one critical section of an ack, or one TrySet of its task.    *)
(***************************************************************************)
EXTENDS Integers

CONSTANTS
  Ids,          \* the ids NextId hands out
  Receivers,    \* threads that may run TriggerAck at the same time
  Replies,      \* what an AckMessage carries: records [status, payload]
  MaxExpected,  \* largest expectedCount a caller passes
  MaxAcks       \* bound on the acks received for one id

Statuses == {"Ok", "NotFound", "Timeout", "InternalServerError"}

Payloads == {"null", "good", "bad"}

ASSUME RepliesAssumption == Replies \subseteq [status : Statuses, payload : Payloads]
ASSUME BoundsAssumption == MaxExpected \in Nat /\ MaxAcks \in Nat

VARIABLES
  disposed,   \* _disposed
  acks,       \* the keys of _acks
  kind,       \* the class of the ack: SingleStatusAck, SinglePayloadAck or MultiAckWithStatusInfo
  caller,     \* where the thread that created the ack is
  task,       \* the outcome of the ack's TaskCompletionSource
  expired,    \* utcNow > TimeoutAt
  ackCount,   \* _ackCount
  expected,   \* _expectedCount
  received,   \* how many acks were counted; unlike ackCount, never written by ForceAck
  recv,       \* the TriggerAck each receiver is running
  timer,      \* the CheckAcks in progress
  disposer    \* the Dispose in progress

vars == <<disposed, acks, kind, caller, task, expired, ackCount, expected,
          received, recv, timer, disposer>>

NoCount == -1

Kinds == {"status", "payload", "multi"}

Settled == Statuses \cup {"Value", "TimeoutException", "InvalidDataException",
                          "ParseException", "Canceled"}

IdleReceiver == [pc |-> "idle", holds |-> {}, reply |-> [status |-> "Ok", payload |-> "null"]]

Init ==
  /\ disposed = FALSE
  /\ acks = {}
  /\ kind = [i \in Ids |-> "status"]
  /\ caller = [i \in Ids |-> "free"]
  /\ task = [i \in Ids |-> "none"]
  /\ expired = [i \in Ids |-> FALSE]
  /\ ackCount = [i \in Ids |-> 0]
  /\ expected = [i \in Ids |-> NoCount]
  /\ received = [i \in Ids |-> 0]
  /\ recv = [r \in Receivers |-> IdleReceiver]
  /\ timer = [pc |-> "idle", left |-> {}, holds |-> {}]
  /\ disposer = [pc |-> "idle", holds |-> {}]

\* TrySetResult, TrySetException and TrySetCanceled: only the first one counts.
TrySet(i, outcome) ==
  task' = IF task[i] = "pending" THEN [task EXCEPT ![i] = outcome] ELSE task

\* What Ack(status, payload) puts in the task of an ack of kind k.
Outcome(k, reply) ==
  CASE k # "payload" -> reply.status
    [] k = "payload" /\ reply.status = "Timeout" -> "TimeoutException"
    [] k = "payload" /\ reply.status # "Timeout" /\ reply.payload = "null" -> "InvalidDataException"
    [] k = "payload" /\ reply.status # "Timeout" /\ reply.payload = "good" -> "Value"
    [] OTHER -> "ParseException"

-----------------------------------------------------------------------------
(* The caller: CreateSingleAck, CreateSingleAck<T>, CreateMultiAck.        *)

\* NextId, then the check of _disposed: a disposed handler answers at once.
CreateCheck(i, k) ==
  /\ caller[i] = "free"
  /\ kind' = [kind EXCEPT ![i] = k]
  /\ IF disposed
     THEN /\ caller' = [caller EXCEPT ![i] = "skipped"]
          /\ task' = [task EXCEPT ![i] = IF k = "payload" THEN "Value" ELSE "Ok"]
     ELSE /\ caller' = [caller EXCEPT ![i] = "adding"]
          /\ UNCHANGED task
  /\ UNCHANGED <<disposed, acks, expired, ackCount, expected, received, recv, timer, disposer>>

\* _acks.GetOrAdd, without looking at _disposed again.
CreateAdd(i) ==
  /\ caller[i] = "adding"
  /\ acks' = acks \cup {i}
  /\ task' = [task EXCEPT ![i] = "pending"]
  /\ caller' = [caller EXCEPT ![i] = "waiting"]
  /\ UNCHANGED <<disposed, kind, expired, ackCount, expected, received, recv, timer, disposer>>

\* The caller's cancellation token fires; multi acks take no token.
CancelByToken(i) ==
  /\ caller[i] = "waiting"
  /\ kind[i] # "multi"
  /\ TrySet(i, "Canceled")
  /\ caller' = [caller EXCEPT ![i] = "returned"]
  /\ UNCHANGED <<disposed, acks, kind, expired, ackCount, expected, received, recv, timer, disposer>>

\* SetExpectedCount: _disposed and _acks.TryGetValue.
SetExpectedLookup(i) ==
  /\ caller[i] = "waiting"
  /\ kind[i] = "multi"
  /\ caller' = [caller EXCEPT ![i] = IF disposed \/ i \notin acks THEN "returned" ELSE "expecting"]
  /\ UNCHANGED <<disposed, acks, kind, task, expired, ackCount, expected, received, recv, timer, disposer>>

\* Mutant: off by one.
SetExpectedCountEarly(i, n) ==
  /\ caller[i] = "expecting"
  /\ expected' = [expected EXCEPT ![i] = n]
  /\ caller' = [caller EXCEPT ![i] = IF n <= ackCount[i] + 1 THEN "settle" ELSE "returned"]
  /\ UNCHANGED <<disposed, acks, kind, task, expired, ackCount, received, recv, timer, disposer>>

\* MultiAckWithStatusInfo.SetExpectedCount under its lock.
SetExpectedCount(i, n) ==
  /\ caller[i] = "expecting"
  /\ expected' = [expected EXCEPT ![i] = n]
  /\ caller' = [caller EXCEPT ![i] = IF n <= ackCount[i] THEN "settle" ELSE "returned"]
  /\ UNCHANGED <<disposed, acks, kind, task, expired, ackCount, received, recv, timer, disposer>>

\* Mutant: the ack is settled and not removed.
SetExpectedSettleOnly(i) ==
  /\ caller[i] = "settle"
  /\ TrySet(i, "Ok")
  /\ caller' = [caller EXCEPT ![i] = "returned"]
  /\ UNCHANGED <<disposed, acks, kind, expired, ackCount, expected, received, recv, timer, disposer>>

\* SetExpectedCount outside the lock: every ack had already arrived.
SetExpectedSettle(i) ==
  /\ caller[i] = "settle"
  /\ TrySet(i, "Ok")
  /\ caller' = [caller EXCEPT ![i] = "remove"]
  /\ UNCHANGED <<disposed, acks, kind, expired, ackCount, expected, received, recv, timer, disposer>>

SetExpectedRemove(i) ==
  /\ caller[i] = "remove"
  /\ acks' = acks \ {i}
  /\ caller' = [caller EXCEPT ![i] = "returned"]
  /\ UNCHANGED <<disposed, kind, task, expired, ackCount, expected, received, recv, timer, disposer>>

-----------------------------------------------------------------------------
(* A receiver: TriggerAck.                                                 *)

\* _acks.TryGetValue succeeds; an id that is not there changes nothing.
TriggerLookup(r, i, reply) ==
  /\ recv[r].pc = "idle"
  /\ i \in acks
  /\ received[i] < MaxAcks
  /\ recv' = [recv EXCEPT ![r] = [pc |-> IF kind[i] = "multi" THEN "count" ELSE "settle",
                                  holds |-> {i}, reply |-> reply]]
  /\ UNCHANGED <<disposed, acks, kind, caller, task, expired, ackCount, expected, received, timer, disposer>>

\* Mutant: the result of Ack is ignored and the entry removed after the first ack.
TriggerCountRemoves(r, i) ==
  /\ recv[r].pc = "count"
  /\ i \in recv[r].holds
  /\ ackCount' = [ackCount EXCEPT ![i] = @ + 1]
  /\ received' = [received EXCEPT ![i] = @ + 1]
  /\ recv' = [recv EXCEPT ![r].pc =
                IF expected[i] # NoCount /\ expected[i] <= ackCount[i] + 1 THEN "settle" ELSE "remove"]
  /\ UNCHANGED <<disposed, acks, kind, caller, task, expired, expected, timer, disposer>>

\* MultiAckWithStatusInfo.Ack under its lock.
TriggerCount(r, i) ==
  /\ recv[r].pc = "count"
  /\ i \in recv[r].holds
  /\ ackCount' = [ackCount EXCEPT ![i] = @ + 1]
  /\ received' = [received EXCEPT ![i] = @ + 1]
  /\ recv' = [recv EXCEPT ![r] =
                IF expected[i] # NoCount /\ expected[i] <= ackCount[i] + 1
                THEN [@ EXCEPT !.pc = "settle"] ELSE IdleReceiver]
  /\ UNCHANGED <<disposed, acks, kind, caller, task, expired, expected, timer, disposer>>

\* The TrySet of Ack.  A single ack reports whether it won, a multi ack does not.
TriggerSettle(r, i) ==
  /\ recv[r].pc = "settle"
  /\ i \in recv[r].holds
  /\ TrySet(i, Outcome(kind[i], recv[r].reply))
  /\ recv' = [recv EXCEPT ![r] =
                IF kind[i] = "multi" \/ task[i] = "pending"
                THEN [@ EXCEPT !.pc = "remove"] ELSE IdleReceiver]
  /\ UNCHANGED <<disposed, acks, kind, caller, expired, ackCount, expected, received, timer, disposer>>

TriggerRemove(r, i) ==
  /\ recv[r].pc = "remove"
  /\ i \in recv[r].holds
  /\ acks' = acks \ {i}
  /\ recv' = [recv EXCEPT ![r] = IdleReceiver]
  /\ UNCHANGED <<disposed, kind, caller, task, expired, ackCount, expected, received, timer, disposer>>

-----------------------------------------------------------------------------
(* The timer: CheckAcks.                                                   *)

\* Time passes the ack's TimeoutAt.
Elapse(i) ==
  /\ i \in acks
  /\ ~expired[i]
  /\ expired' = [expired EXCEPT ![i] = TRUE]
  /\ UNCHANGED <<disposed, acks, kind, caller, task, ackCount, expected, received, recv, timer, disposer>>

\* Mutant: only acks still awaited expire.
CheckAcksPending ==
  /\ timer.pc = "idle"
  /\ ~disposed
  /\ timer' = [pc |-> "scan", left |-> {i \in acks : expired[i] /\ task[i] = "pending"}, holds |-> {}]
  /\ UNCHANGED <<disposed, acks, kind, caller, task, expired, ackCount, expected, received, recv, disposer>>

\* The callback starts: _disposed is read once, utcNow is fixed, and with it the
\* entries this pass will try to expire.
CheckAcks ==
  /\ timer.pc = "idle"
  /\ ~disposed
  /\ timer' = [pc |-> "scan", left |-> {i \in acks : expired[i]}, holds |-> {}]
  /\ UNCHANGED <<disposed, acks, kind, caller, task, expired, ackCount, expected, received, recv, disposer>>

\* _acks.TryRemove of an expired entry: only the remover goes on.
ExpireRemove(i) ==
  /\ timer.pc = "scan"
  /\ i \in timer.left
  /\ acks' = acks \ {i}
  /\ timer' = [pc |-> IF i \notin acks THEN "scan"
                      ELSE IF kind[i] = "multi" THEN "force" ELSE "settle",
               left |-> timer.left \ {i}, holds |-> {i} \cap acks]
  /\ UNCHANGED <<disposed, kind, caller, task, expired, ackCount, expected, received, recv, disposer>>

\* ForceAck under its lock.
ExpireForce(i) ==
  /\ timer.pc = "force"
  /\ i \in timer.holds
  /\ ackCount' = [ackCount EXCEPT ![i] = IF expected[i] = NoCount THEN 0 ELSE expected[i]]
  /\ timer' = [timer EXCEPT !.pc = "settle"]
  /\ UNCHANGED <<disposed, acks, kind, caller, task, expired, expected, received, recv, disposer>>

\* The TrySet of ForceAck or of Ack(Timeout); the Cancel that follows the latter
\* always finds the task settled.
ExpireSettle(i) ==
  /\ timer.pc = "settle"
  /\ i \in timer.holds
  /\ TrySet(i, Outcome(kind[i], [status |-> "Timeout", payload |-> "null"]))
  /\ timer' = [timer EXCEPT !.pc = "scan", !.holds = {}]
  /\ UNCHANGED <<disposed, acks, kind, caller, expired, ackCount, expected, received, recv, disposer>>

CheckAcksEnd ==
  /\ timer.pc = "scan"
  /\ timer.left = {}
  /\ timer' = [timer EXCEPT !.pc = "idle"]
  /\ UNCHANGED <<disposed, acks, kind, caller, task, expired, ackCount, expected, received, recv, disposer>>

-----------------------------------------------------------------------------
(* Dispose.                                                                *)

\* Containers share one handler, so Dispose may be called again.
Dispose ==
  /\ disposer.pc \in {"idle", "done"}
  /\ disposed' = TRUE
  /\ disposer' = [pc |-> "drain", holds |-> {}]
  /\ UNCHANGED <<acks, kind, caller, task, expired, ackCount, expected, received, recv, timer>>

DrainRemove(i) ==
  /\ disposer.pc = "drain"
  /\ i \in acks
  /\ acks' = acks \ {i}
  /\ disposer' = [pc |-> "cancel", holds |-> {i}]
  /\ UNCHANGED <<disposed, kind, caller, task, expired, ackCount, expected, received, recv, timer>>

DrainCancel(i) ==
  /\ disposer.pc = "cancel"
  /\ i \in disposer.holds
  /\ TrySet(i, "Canceled")
  /\ disposer' = [pc |-> "drain", holds |-> {}]
  /\ UNCHANGED <<disposed, acks, kind, caller, expired, ackCount, expected, received, recv, timer>>

DrainEnd ==
  /\ disposer.pc = "drain"
  /\ acks = {}
  /\ disposer' = [disposer EXCEPT !.pc = "done"]
  /\ UNCHANGED <<disposed, acks, kind, caller, task, expired, ackCount, expected, received, recv, timer>>

-----------------------------------------------------------------------------
CallerStep(i) ==
  \/ \E k \in Kinds : CreateCheck(i, k)
  \/ CreateAdd(i)
  \/ CancelByToken(i)
  \/ SetExpectedLookup(i)
  \/ \E n \in 0..MaxExpected : SetExpectedCount(i, n)
  \/ SetExpectedSettle(i)
  \/ SetExpectedRemove(i)

ReceiverStep(r, i) ==
  \/ \E reply \in Replies : TriggerLookup(r, i, reply)
  \/ TriggerCount(r, i)
  \/ TriggerSettle(r, i)
  \/ TriggerRemove(r, i)

TimerStep == CheckAcks \/ CheckAcksEnd \/ \E i \in Ids : ExpireRemove(i) \/ ExpireForce(i) \/ ExpireSettle(i)

DrainStep == DrainEnd \/ \E i \in Ids : DrainRemove(i) \/ DrainCancel(i)

Next ==
  \/ \E i \in Ids : CallerStep(i) \/ Elapse(i)
  \/ \E r \in Receivers, i \in Ids : ReceiverStep(r, i)
  \/ TimerStep
  \/ Dispose
  \/ DrainStep

Spec == Init /\ [][Next]_vars

\* Time passes, the timer keeps ticking and a started call runs on; no reply,
\* cancellation or Dispose is owed to anybody.
Fairness ==
  /\ \A i \in Ids : WF_vars(Elapse(i)) /\ WF_vars(SetExpectedSettle(i)) /\ WF_vars(SetExpectedRemove(i))
  /\ \A r \in Receivers, i \in Ids : WF_vars(TriggerCount(r, i) \/ TriggerSettle(r, i) \/ TriggerRemove(r, i))
  /\ WF_vars(TimerStep)
  /\ WF_vars(DrainStep)

FairSpec == Spec /\ Fairness

-----------------------------------------------------------------------------
\* The type invariant: what the table, its acks, the receivers and the passes of the
\* timer and of Dispose may hold.
TypeOK ==
  /\ disposed \in BOOLEAN
  /\ acks \subseteq Ids
  /\ kind \in [Ids -> Kinds]
  /\ caller \in [Ids -> {"free", "skipped", "adding", "waiting", "expecting", "settle", "remove",
                      "returned"}]
  /\ task \in [Ids -> {"none", "pending"} \cup Settled]
  /\ expired \in [Ids -> BOOLEAN]
  /\ ackCount \in [Ids -> Nat]
  /\ expected \in [Ids -> Nat \cup {NoCount}]
  /\ received \in [Ids -> Nat]
  /\ recv \in [Receivers -> [pc : {"idle", "count", "settle", "remove"}, holds : SUBSET Ids,
                             reply : [status : Statuses, payload : Payloads]]]
  /\ timer \in [pc : {"idle", "scan", "force", "settle"}, left : SUBSET Ids, holds : SUBSET Ids]
  /\ disposer \in [pc : {"idle", "drain", "cancel", "done"}, holds : SUBSET Ids]

\* An ack a caller may be awaiting is always reachable by somebody who will settle
\* it: it is in _acks, or the timer or Dispose took it out and has not settled it
\* yet.  TriggerAck and SetExpectedCount remove an ack only after settling it.
NoOrphan ==
  \A i \in Ids : task[i] = "pending" => i \in acks \cup timer.holds \cup disposer.holds

\* A multi ack reports a status only when as many acks as expected were counted, or
\* after its time ran out.  (After: ForceAck raises _ackCount before it sets the
\* task, so an ack that looked the entry up earlier can still win with its own status.)
MultiAckCounted ==
  \A i \in Ids :
    kind[i] = "multi" /\ caller[i] # "skipped" /\ task[i] \in Statuses
      => expired[i] \/ (expected[i] # NoCount /\ expected[i] <= received[i])

\* No leak: an ack that is settled but still in _acks is one its caller canceled, or
\* the thread that settled it is about to remove it.
SettledLeaves ==
  \A i \in acks :
    task[i] \in Settled \ {"Canceled"}
      => \/ caller[i] = "remove"
         \/ \E r \in Receivers : i \in recv[r].holds /\ recv[r].pc = "remove"

\* Every ack entered before Dispose leaves the table with its task settled, by a
\* reply, by the timer or by Dispose.  An ack entered after Dispose has drained the
\* table (CreateAdd does not look at _disposed again) is not covered: nobody is left
\* to settle it.
AckSettles ==
  \A i \in Ids : (i \in acks /\ ~disposed) ~> (i \notin acks /\ task[i] \in Settled)
=============================================================================
