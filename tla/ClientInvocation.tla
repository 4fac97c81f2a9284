-------------------------- MODULE ClientInvocation --------------------------
(***************************************************************************)
(* One invocation of a client method whose result the server awaits:       *)
(* InvokeConnectionAsync and SetConnectionResultAsync of                   *)
(* ServiceLifetimeManager.cs, CallerClientResultsManager.cs on the server  *)
(* that calls and RoutedClientResultsManager.cs on the server that has the *)
(* client.  The request goes to several endpoints, one of which has the    *)
(* client; the others answer with an error.  The answers, a cancellation   *)
(* and the loss of the client are handled by threads of their own.         *)
(***************************************************************************)
EXTENDS Naturals, FiniteSets

CONSTANTS
  Endpoints,  \* the endpoints that GetEndpointsForConnection returns
  Target,     \* the one that has the client
  Token       \* the cancellation token, which completes the invocation like an endpoint

ASSUME InvocationAssumption ==
  /\ IsFiniteSet(Endpoints)
  /\ Target \in Endpoints
  /\ Token \notin Endpoints

Senders == Endpoints \cup {Token}

VARIABLES
  local,     \* the client is on the server that calls
  call,      \* where InvokeConnectionAsync is
  pending,   \* the invocation is in _pendingInvocations
  task,      \* the task of the invocation
  count,     \* the acks of its multi-ack
  ackDone,   \* the task of the multi-ack is completed
  mapped,    \* RouterInstanceId is known
  routed,    \* _routedInvocations of the other server: not yet, yes, no longer
  answer,    \* the completion of the client: none, result or error
  reply,     \* where the completion from each sender is
  cleaner,   \* where CleanupInvocationsByConnection or ByInstance is
  early,     \* a completion or a mapping met no pending invocation yet (history)
  forced     \* the multi-ack timed out (history)

vars == <<local, call, pending, task, count, ackDone, mapped, routed, answer, reply, cleaner,
          early, forced>>

ackVars == <<count, ackDone, forced>>
clientVars == <<local, mapped, routed, answer>>

Init ==
  /\ local \in BOOLEAN
  /\ call = "write"
  /\ pending = FALSE
  /\ task = "none"
  /\ count = 0
  /\ ackDone = FALSE
  /\ mapped = FALSE
  /\ routed = "no"
  /\ answer = "none"
  /\ reply = [e \in Senders |-> "none"]
  /\ cleaner = "idle"
  /\ early = FALSE
  /\ forced = FALSE

Goto(e, from, to) == reply[e] = from /\ reply' = [reply EXCEPT ![e] = to]

Settle(outcome) == task' = IF task = "none" THEN outcome ELSE task

-----------------------------------------------------------------------------
(* InvokeConnectionAsync and AddInvocation.                                *)

\* The message is written first, which may fail ...
Write ==
  /\ call = "write"
  /\ call' \in {"add", "returned"}
  /\ UNCHANGED <<pending, task, ackVars, clientVars, reply, cleaner, early>>

\* ... and the invocation, with a multi-ack for all the endpoints, is entered afterwards.
AddInvocation ==
  /\ call = "add"
  /\ call' = "register"
  /\ pending' = TRUE
  /\ UNCHANGED <<task, ackVars, clientVars, reply, cleaner, early>>

RegisterCancellation ==
  /\ call = "register"
  /\ call' = "await"
  /\ UNCHANGED <<pending, task, ackVars, clientVars, reply, cleaner, early>>

\* The task has completed; if it failed, the invocation is removed once more.
TaskReturns ==
  /\ call = "await"
  /\ task # "none"
  /\ call' = IF task = "result" THEN "returned" ELSE "remove"
  /\ UNCHANGED <<pending, task, ackVars, clientVars, reply, cleaner, early>>

RemoveInvocation ==
  /\ call = "remove"
  /\ call' = "returned"
  /\ pending' = FALSE
  /\ UNCHANGED <<task, ackVars, clientVars, reply, cleaner, early>>

-----------------------------------------------------------------------------
(* The service and the server that has the client.                         *)

Requested == call # "write"

\* OnClientInvocationAsync on the other server.
RouterAdd ==
  /\ Requested
  /\ ~local
  /\ routed = "no"
  /\ routed' = "yes"
  /\ UNCHANGED <<local, call, pending, task, ackVars, mapped, answer, reply, cleaner, early>>

\* OnServiceMappingAsync tells the caller which instance routes the invocation.
AddServiceMapping ==
  /\ Requested
  /\ ~local
  /\ ~mapped
  /\ mapped' = pending
  /\ early' = (early \/ call = "add")
  /\ UNCHANGED <<local, call, pending, task, ackVars, routed, answer, reply, cleaner>>

\* SetConnectionResultAsync: the client has completed.  On the calling server that is
\* looked up at once; the other one takes the invocation out of its table and forwards it.
SetConnectionResult ==
  /\ Requested
  /\ answer = "none"
  /\ local \/ routed = "yes"
  /\ answer' \in {"result", "error"}
  /\ routed' = IF local THEN routed ELSE "gone"
  /\ Goto(Target, "none", "lookup")
  /\ UNCHANGED <<local, call, pending, task, ackVars, mapped, cleaner, early>>

\* An endpoint that does not have the client, or finds that it is gone, reports an error.
ErrorCompletion(e) ==
  /\ Requested
  /\ e # Token
  /\ Goto(e, "none", "lookup")
  /\ answer' = IF e = Target THEN "error" ELSE answer
  /\ UNCHANGED <<local, call, pending, task, ackVars, mapped, routed, cleaner, early>>

\* TrySetCanceled, from the cancellation token.
Cancel ==
  /\ call = "await"
  /\ task = "none"
  /\ Goto(Token, "none", "lookup")
  /\ UNCHANGED <<call, pending, task, ackVars, clientVars, cleaner, early>>

-----------------------------------------------------------------------------
(* TryCompleteResult.                                                      *)

Done(e) == IF e = Token THEN "cancel" ELSE "done"

Lookup(e) ==
  /\ Goto(e, "lookup", IF pending THEN "ack" ELSE Done(e))
  /\ early' = (early \/ call = "add")
  /\ UNCHANGED <<call, pending, task, ackVars, clientVars, cleaner>>

\* Mutant: the first answer completes the multi-ack.
TriggerAckFirst(e) ==
  /\ Goto(e, "ack", "check")
  /\ count' = count + 1
  /\ ackDone' = TRUE
  /\ UNCHANGED <<call, pending, task, clientVars, cleaner, early, forced>>

\* Mutant: one answer more is expected.
TriggerAckLast(e) ==
  /\ Goto(e, "ack", "check")
  /\ count' = IF ackDone THEN count ELSE count + 1
  /\ ackDone' = (ackDone \/ count' > Cardinality(Endpoints))
  /\ UNCHANGED <<call, pending, task, clientVars, cleaner, early, forced>>

\* TriggerAck counts the answers, of all the endpoints and of the token.
TriggerAck(e) ==
  /\ Goto(e, "ack", "check")
  /\ count' = IF ackDone THEN count ELSE count + 1
  /\ ackDone' = (ackDone \/ count' >= Cardinality(Endpoints))
  /\ UNCHANGED <<call, pending, task, clientVars, cleaner, early, forced>>

HasResult(e) == e = Target /\ answer = "result"

\* A result, or the last of the answers: the one that removes the invocation completes it.
TryRemove(e) ==
  /\ Goto(e, "check", IF (HasResult(e) \/ ackDone) /\ pending THEN "complete" ELSE Done(e))
  /\ pending' = (pending /\ ~(HasResult(e) \/ ackDone))
  /\ UNCHANGED <<call, task, ackVars, clientVars, cleaner, early>>

Complete(e) ==
  /\ Goto(e, "complete", Done(e))
  /\ Settle(IF HasResult(e) THEN "result" ELSE "error")
  /\ UNCHANGED <<call, pending, ackVars, clientVars, cleaner, early>>

\* base.TrySetCanceled.
SetCanceled ==
  /\ Goto(Token, "cancel", "done")
  /\ Settle("canceled")
  /\ UNCHANGED <<call, pending, ackVars, clientVars, cleaner, early>>

\* The AckHandler forces an ack that is too old.
AckTimeout ==
  /\ pending
  /\ ~ackDone
  /\ ackDone' = TRUE
  /\ forced' = TRUE
  /\ UNCHANGED <<call, pending, task, count, clientVars, reply, cleaner, early>>

-----------------------------------------------------------------------------
(* CleanupInvocationsByConnection when the client was here, and            *)
(* CleanupInvocationsByInstance when its instance went offline.            *)

CleanupInvocations ==
  /\ Requested
  /\ cleaner = "idle"
  /\ local \/ mapped
  /\ cleaner' = IF pending THEN "complete" ELSE "done"
  /\ UNCHANGED <<call, pending, task, ackVars, clientVars, reply, early>>

\* Mutant: the invocation is removed without being completed.
CleanupCompleteNot ==
  /\ cleaner = "complete"
  /\ cleaner' = "remove"
  /\ UNCHANGED <<call, pending, task, ackVars, clientVars, reply, early>>

CleanupComplete ==
  /\ cleaner = "complete"
  /\ cleaner' = "remove"
  /\ Settle("error")
  /\ UNCHANGED <<call, pending, ackVars, clientVars, reply, early>>

CleanupRemove ==
  /\ cleaner = "remove"
  /\ cleaner' = "done"
  /\ pending' = FALSE
  /\ UNCHANGED <<call, task, ackVars, clientVars, reply, early>>

\* CleanupInvocationsByConnection of the other server.
RouterCleanup ==
  /\ routed = "yes"
  /\ routed' = "gone"
  /\ UNCHANGED <<local, call, pending, task, ackVars, mapped, answer, reply, cleaner, early>>

-----------------------------------------------------------------------------
CallStep == AddInvocation \/ RegisterCancellation \/ TaskReturns \/ RemoveInvocation
CompletionStep(e) == Lookup(e) \/ TriggerAck(e) \/ TryRemove(e) \/ Complete(e)
CleanupStep == CleanupComplete \/ CleanupRemove

Next ==
  \/ Write \/ CallStep
  \/ RouterAdd \/ AddServiceMapping \/ SetConnectionResult \/ Cancel
  \/ \E e \in Endpoints : ErrorCompletion(e)
  \/ \E e \in Senders : CompletionStep(e)
  \/ SetCanceled \/ AckTimeout
  \/ CleanupInvocations \/ CleanupStep \/ RouterCleanup

Spec == Init /\ [][Next]_vars

\* What has begun goes on.  Nothing is assumed of the client, the service or the canceler.
Fairness ==
  /\ WF_vars(CallStep) /\ WF_vars(SetCanceled) /\ WF_vars(CleanupStep)
  /\ \A e \in Senders : WF_vars(CompletionStep(e))

FairSpec == Spec /\ Fairness

-----------------------------------------------------------------------------
\* The type invariant of the invocation, its tables and the completions on their way.
TypeOK ==
  /\ local \in BOOLEAN
  /\ call \in {"write", "add", "register", "await", "remove", "returned"}
  /\ pending \in BOOLEAN
  /\ task \in {"none", "result", "error", "canceled"}
  /\ count \in Nat
  /\ ackDone \in BOOLEAN
  /\ mapped \in BOOLEAN
  /\ routed \in {"no", "yes", "gone"}
  /\ answer \in {"none", "result", "error"}
  /\ reply \in [Senders -> {"none", "lookup", "ack", "check", "complete", "cancel", "done"}]
  /\ cleaner \in {"idle", "complete", "remove", "done"}
  /\ early \in BOOLEAN
  /\ forced \in BOOLEAN

Undisturbed == reply[Token] = "none" /\ cleaner = "idle" /\ ~forced

\* The error of an endpoint without the client never hides the result of the one that has
\* it: the caller sees an error only when all have answered, unless it canceled, the client
\* was lost or the ack timed out.
ErrorIsUnanimous ==
  task = "error" /\ Undisturbed => \A e \in Endpoints : reply[e] \notin {"none", "lookup", "ack"}

\* An invocation is taken out of the table only by somebody who completes it.
RemovedIsSettled ==
  call \in {"register", "await"} /\ ~pending =>
    task # "none" \/ \E e \in Senders : reply[e] = "complete"

\* When the caller is done with an invocation it is no longer in the table.
SettledIsForgotten == call = "returned" => ~pending

\* Once all endpoints have answered, after the invocation was entered, the caller goes on.
AnsweredReturns == Requested /\ ~early /\ (\A e \in Endpoints : reply[e] = "done") ~> call = "returned" \/ early

\* "wait until 1. Received a non-error CompletionMessage or 2. Received messages from all
\* endpoints": a caller whose client's result was received gets no error.  It does not
\* hold; see the README.
ResultIsDelivered ==
  Undisturbed /\ answer = "result" /\ ~early /\ reply[Target] = "done" => task # "error"
=============================================================================
