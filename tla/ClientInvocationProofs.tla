----------------------- MODULE ClientInvocationProofs -----------------------
(***************************************************************************)
(* The safety of an invocation, for any finite set of endpoints.           *)
(***************************************************************************)
EXTENDS ClientInvocation, FiniteSetTheorems, TLAPS

\* The senders whose answer was counted, or met no pending invocation.
Counted == {e \in Senders : reply[e] \notin {"none", "lookup", "ack"}}

\* Nothing is completed before the invocation is entered, or when it never is.
Before ==
  /\ call \in {"write", "add"} => ~pending /\ task = "none" /\ cleaner \in {"idle", "done"}
  /\ call \in {"write", "add"} =>
       \A e \in Senders : reply[e] \in {"none", "lookup", "done"}
  /\ call \in {"write", "add", "register"} => reply[Token] = "none"

\* Who completes the invocation has removed it, with a result or with the last answer.
Completing ==
  /\ \A e \in Senders : reply[e] = "complete" => ~pending /\ (HasResult(e) \/ ackDone)
  /\ reply[Target] = "none" => answer = "none"

\* A result belongs to an invocation that is no longer in the table; any other outcome that
\* neither the token nor the cleanup caused needed all acks.
Outcome ==
  /\ task = "result" => ~pending
  /\ task = "error" => ackDone \/ cleaner # "idle"
  /\ cleaner = "remove" => task # "none"
  /\ RemovedIsSettled
  /\ SettledIsForgotten

\* The multi-ack counts no answer twice.
Counting ==
  /\ count <= Cardinality(Counted)
  /\ ackDone /\ ~forced => count >= Cardinality(Endpoints)

\* The inductive invariant.
IInv == TypeOK /\ Before /\ Completing /\ Outcome /\ Counting

\* The initial states satisfy the invariant.
LEMMA InitIInv == Init => IInv
<1> SUFFICES ASSUME Init PROVE IInv
  OBVIOUS
<1> USE InvocationAssumption DEF Init, Senders
<1>1. TypeOK
  BY DEF TypeOK
<1>2. Before /\ Completing /\ Outcome
  BY DEF Before, Completing, Outcome, RemovedIsSettled, SettledIsForgotten
<1>3. Counting
  <2>1. Counted = {}
    BY DEF Counted
  <2> QED
    BY <2>1, FS_EmptySet DEF Counting
<1> QED
  BY <1>1, <1>2, <1>3 DEF IInv

\* Types are preserved.
LEMMA TypeStep == IInv /\ [Next]_vars => TypeOK'
<1> SUFFICES ASSUME IInv, [Next]_vars PROVE TypeOK'
  OBVIOUS
<1> USE InvocationAssumption DEF IInv, TypeOK, Senders, ackVars, clientVars, Requested
<1>1. CASE Write
  BY <1>1 DEF Write
<1>2. CASE AddInvocation
  BY <1>2 DEF AddInvocation
<1>3. CASE RegisterCancellation
  BY <1>3 DEF RegisterCancellation
<1>4. CASE TaskReturns
  BY <1>4 DEF TaskReturns
<1>5. CASE RemoveInvocation
  <2>1. pending' \in BOOLEAN /\ call' \in {"returned"}
    BY <1>5 DEF RemoveInvocation
  <2>2. UNCHANGED <<task, ackVars, clientVars, reply, cleaner, early>>
    BY <1>5 DEF RemoveInvocation
  <2> QED
    BY <2>1, <2>2
<1>6. CASE RouterAdd
  BY <1>6 DEF RouterAdd
<1>7. CASE AddServiceMapping
  BY <1>7 DEF AddServiceMapping
<1>8. CASE SetConnectionResult
  BY <1>8 DEF SetConnectionResult, Goto
<1>9. CASE Cancel
  BY <1>9 DEF Cancel, Goto
<1>10. ASSUME NEW e \in Endpoints, ErrorCompletion(e) PROVE TypeOK'
  BY <1>10 DEF ErrorCompletion, Goto
<1>11. ASSUME NEW e \in Senders, Lookup(e) PROVE TypeOK'
  BY <1>11 DEF Lookup, Goto, Done
<1>12. ASSUME NEW e \in Senders, TriggerAck(e) PROVE TypeOK'
  BY <1>12 DEF TriggerAck, Goto
<1>13. ASSUME NEW e \in Senders, TryRemove(e) PROVE TypeOK'
  BY <1>13 DEF TryRemove, Goto, Done
<1>14. ASSUME NEW e \in Senders, Complete(e) PROVE TypeOK'
  BY <1>14 DEF Complete, Goto, Done, Settle
<1>15. CASE SetCanceled
  BY <1>15 DEF SetCanceled, Goto, Settle
<1>16. CASE AckTimeout
  BY <1>16 DEF AckTimeout
<1>17. CASE CleanupInvocations
  BY <1>17 DEF CleanupInvocations
<1>18. CASE CleanupComplete
  BY <1>18 DEF CleanupComplete, Settle
<1>19. CASE CleanupRemove
  <2>1. pending' \in BOOLEAN /\ cleaner' \in {"done"}
    BY <1>19 DEF CleanupRemove
  <2>2. UNCHANGED <<call, task, ackVars, clientVars, reply, early>>
    BY <1>19 DEF CleanupRemove
  <2> QED
    BY <2>1, <2>2
<1>20. CASE RouterCleanup
  BY <1>20 DEF RouterCleanup
<1>21. CASE UNCHANGED vars
  BY <1>21 DEF vars
<1> QED
  BY <1>1, <1>2, <1>3, <1>4, <1>5, <1>6, <1>7, <1>8, <1>9, <1>10,
     <1>11, <1>12, <1>13, <1>14, <1>15, <1>16, <1>17, <1>18, <1>19, <1>20, <1>21
     DEF Next, CallStep, CompletionStep, CleanupStep

\* Nothing happens to the invocation before it is entered.
LEMMA BeforeStep == IInv /\ [Next]_vars => Before'
<1> SUFFICES ASSUME IInv, [Next]_vars PROVE Before'
  OBVIOUS
<1> USE InvocationAssumption DEF IInv, TypeOK, Before, Senders, ackVars, clientVars, Requested
<1>1. CASE Write
  BY <1>1 DEF Write
<1>2. CASE AddInvocation
  BY <1>2 DEF AddInvocation
<1>3. CASE RegisterCancellation
  BY <1>3 DEF RegisterCancellation
<1>4. CASE TaskReturns
  BY <1>4 DEF TaskReturns
<1>5. CASE RemoveInvocation
  BY <1>5 DEF RemoveInvocation
<1>6. CASE RouterAdd
  BY <1>6 DEF RouterAdd
<1>7. CASE AddServiceMapping
  BY <1>7 DEF AddServiceMapping
<1>8. CASE SetConnectionResult
  BY <1>8 DEF SetConnectionResult, Goto
<1>9. CASE Cancel
  BY <1>9 DEF Cancel, Goto
<1>10. ASSUME NEW e \in Endpoints, ErrorCompletion(e) PROVE Before'
  BY <1>10 DEF ErrorCompletion, Goto
<1>11. ASSUME NEW e \in Senders, Lookup(e) PROVE Before'
  BY <1>11 DEF Lookup, Goto, Done
<1>12. ASSUME NEW e \in Senders, TriggerAck(e) PROVE Before'
  BY <1>12 DEF TriggerAck, Goto
<1>13. ASSUME NEW e \in Senders, TryRemove(e) PROVE Before'
  BY <1>13 DEF TryRemove, Goto, Done
<1>14. ASSUME NEW e \in Senders, Complete(e) PROVE Before'
  BY <1>14 DEF Complete, Goto, Done, Settle
<1>15. CASE SetCanceled
  BY <1>15 DEF SetCanceled, Goto, Settle
<1>16. CASE AckTimeout
  BY <1>16 DEF AckTimeout
<1>17. CASE CleanupInvocations
  BY <1>17 DEF CleanupInvocations
<1>18. CASE CleanupComplete
  BY <1>18 DEF CleanupComplete, Settle
<1>19. CASE CleanupRemove
  BY <1>19 DEF CleanupRemove
<1>20. CASE RouterCleanup
  BY <1>20 DEF RouterCleanup
<1>21. CASE UNCHANGED vars
  BY <1>21 DEF vars
<1> QED
  BY <1>1, <1>2, <1>3, <1>4, <1>5, <1>6, <1>7, <1>8, <1>9, <1>10,
     <1>11, <1>12, <1>13, <1>14, <1>15, <1>16, <1>17, <1>18, <1>19, <1>20, <1>21
     DEF Next, CallStep, CompletionStep, CleanupStep

\* Only the one that removed the invocation is about to complete it.
LEMMA CompletingStep == IInv /\ [Next]_vars => Completing'
<1> SUFFICES ASSUME IInv, [Next]_vars PROVE Completing'
  OBVIOUS
<1> USE InvocationAssumption DEF IInv, TypeOK, Before, Completing, HasResult, Senders, ackVars,
         clientVars, Requested
<1>1. CASE Write
  BY <1>1 DEF Write
<1>2. CASE AddInvocation
  BY <1>2 DEF AddInvocation
<1>3. CASE RegisterCancellation
  BY <1>3 DEF RegisterCancellation
<1>4. CASE TaskReturns
  BY <1>4 DEF TaskReturns
<1>5. CASE RemoveInvocation
  BY <1>5 DEF RemoveInvocation
<1>6. CASE RouterAdd
  BY <1>6 DEF RouterAdd
<1>7. CASE AddServiceMapping
  BY <1>7 DEF AddServiceMapping
<1>8. CASE SetConnectionResult
  BY <1>8 DEF SetConnectionResult, Goto
<1>9. CASE Cancel
  BY <1>9 DEF Cancel, Goto
<1>10. ASSUME NEW e \in Endpoints, ErrorCompletion(e) PROVE Completing'
  BY <1>10 DEF ErrorCompletion, Goto
<1>11. ASSUME NEW e \in Senders, Lookup(e) PROVE Completing'
  BY <1>11 DEF Lookup, Goto, Done
<1>12. ASSUME NEW e \in Senders, TriggerAck(e) PROVE Completing'
  BY <1>12 DEF TriggerAck, Goto
<1>13. ASSUME NEW e \in Senders, TryRemove(e) PROVE Completing'
  BY <1>13 DEF TryRemove, Goto, Done
<1>14. ASSUME NEW e \in Senders, Complete(e) PROVE Completing'
  BY <1>14 DEF Complete, Goto, Done, Settle
<1>15. CASE SetCanceled
  BY <1>15 DEF SetCanceled, Goto, Settle
<1>16. CASE AckTimeout
  BY <1>16 DEF AckTimeout
<1>17. CASE CleanupInvocations
  BY <1>17 DEF CleanupInvocations
<1>18. CASE CleanupComplete
  BY <1>18 DEF CleanupComplete, Settle
<1>19. CASE CleanupRemove
  BY <1>19 DEF CleanupRemove
<1>20. CASE RouterCleanup
  BY <1>20 DEF RouterCleanup
<1>21. CASE UNCHANGED vars
  BY <1>21 DEF vars
<1> QED
  BY <1>1, <1>2, <1>3, <1>4, <1>5, <1>6, <1>7, <1>8, <1>9, <1>10,
     <1>11, <1>12, <1>13, <1>14, <1>15, <1>16, <1>17, <1>18, <1>19, <1>20, <1>21
     DEF Next, CallStep, CompletionStep, CleanupStep

\* The outcome and the table stay in step.
LEMMA OutcomeStep == IInv /\ [Next]_vars => Outcome'
<1> SUFFICES ASSUME IInv, [Next]_vars PROVE Outcome'
  OBVIOUS
<1> USE InvocationAssumption DEF IInv, TypeOK, Before, Completing, Outcome, HasResult,
         RemovedIsSettled, SettledIsForgotten, Senders, ackVars, clientVars, Requested
<1>1. CASE Write
  BY <1>1 DEF Write
<1>2. CASE AddInvocation
  BY <1>2 DEF AddInvocation
<1>3. CASE RegisterCancellation
  BY <1>3 DEF RegisterCancellation
<1>4. CASE TaskReturns
  BY <1>4 DEF TaskReturns
<1>5. CASE RemoveInvocation
  BY <1>5 DEF RemoveInvocation
<1>6. CASE RouterAdd
  BY <1>6 DEF RouterAdd
<1>7. CASE AddServiceMapping
  BY <1>7 DEF AddServiceMapping
<1>8. CASE SetConnectionResult
  BY <1>8 DEF SetConnectionResult, Goto
<1>9. CASE Cancel
  BY <1>9 DEF Cancel, Goto
<1>10. ASSUME NEW e \in Endpoints, ErrorCompletion(e) PROVE Outcome'
  BY <1>10 DEF ErrorCompletion, Goto
<1>11. ASSUME NEW e \in Senders, Lookup(e) PROVE Outcome'
  BY <1>11 DEF Lookup, Goto, Done
<1>12. ASSUME NEW e \in Senders, TriggerAck(e) PROVE Outcome'
  BY <1>12 DEF TriggerAck, Goto
<1>13. ASSUME NEW e \in Senders, TryRemove(e) PROVE Outcome'
  BY <1>13 DEF TryRemove, Goto, Done
<1>14. ASSUME NEW e \in Senders, Complete(e) PROVE Outcome'
  BY <1>14 DEF Complete, Goto, Done, Settle
<1>15. CASE SetCanceled
  BY <1>15 DEF SetCanceled, Goto, Settle
<1>16. CASE AckTimeout
  BY <1>16 DEF AckTimeout
<1>17. CASE CleanupInvocations
  BY <1>17 DEF CleanupInvocations
<1>18. CASE CleanupComplete
  BY <1>18 DEF CleanupComplete, Settle
<1>19. CASE CleanupRemove
  BY <1>19 DEF CleanupRemove
<1>20. CASE RouterCleanup
  BY <1>20 DEF RouterCleanup
<1>21. CASE UNCHANGED vars
  BY <1>21 DEF vars
<1> QED
  BY <1>1, <1>2, <1>3, <1>4, <1>5, <1>6, <1>7, <1>8, <1>9, <1>10,
     <1>11, <1>12, <1>13, <1>14, <1>15, <1>16, <1>17, <1>18, <1>19, <1>20, <1>21
     DEF Next, CallStep, CompletionStep, CleanupStep

\* The counted senders are a finite set, now and after any step.
LEMMA Finite ==
  /\ IsFiniteSet(Senders) /\ IsFiniteSet(Counted) /\ IsFiniteSet(Counted')
  /\ Cardinality(Counted) \in Nat /\ Cardinality(Counted') \in Nat
  /\ Cardinality(Endpoints) \in Nat
<1>1. IsFiniteSet(Senders)
  BY InvocationAssumption, FS_AddElement DEF Senders
<1>2. Counted \subseteq Senders /\ Counted' \subseteq Senders
  BY DEF Counted
<1> QED
  BY <1>1, <1>2, InvocationAssumption, FS_Subset, FS_CardinalityType

\* A sender that was counted remains so.
LEMMA GrowStep == IInv /\ [Next]_vars => Counted \subseteq Counted'
<1> SUFFICES ASSUME IInv, [Next]_vars PROVE Counted \subseteq Counted'
  OBVIOUS
<1> USE InvocationAssumption DEF IInv, TypeOK, Counted, Senders, ackVars, clientVars, Requested
<1>1. CASE Write
  BY <1>1 DEF Write
<1>2. CASE AddInvocation
  BY <1>2 DEF AddInvocation
<1>3. CASE RegisterCancellation
  BY <1>3 DEF RegisterCancellation
<1>4. CASE TaskReturns
  BY <1>4 DEF TaskReturns
<1>5. CASE RemoveInvocation
  BY <1>5 DEF RemoveInvocation
<1>6. CASE RouterAdd
  BY <1>6 DEF RouterAdd
<1>7. CASE AddServiceMapping
  BY <1>7 DEF AddServiceMapping
<1>8. CASE SetConnectionResult
  BY <1>8 DEF SetConnectionResult, Goto
<1>9. CASE Cancel
  BY <1>9 DEF Cancel, Goto
<1>10. ASSUME NEW e \in Endpoints, ErrorCompletion(e) PROVE Counted \subseteq Counted'
  BY <1>10 DEF ErrorCompletion, Goto
<1>11. ASSUME NEW e \in Senders, Lookup(e) PROVE Counted \subseteq Counted'
  BY <1>11 DEF Lookup, Goto, Done
<1>12. ASSUME NEW e \in Senders, TriggerAck(e) PROVE Counted \subseteq Counted'
  BY <1>12 DEF TriggerAck, Goto
<1>13. ASSUME NEW e \in Senders, TryRemove(e) PROVE Counted \subseteq Counted'
  BY <1>13 DEF TryRemove, Goto, Done
<1>14. ASSUME NEW e \in Senders, Complete(e) PROVE Counted \subseteq Counted'
  BY <1>14 DEF Complete, Goto, Done, Settle
<1>15. CASE SetCanceled
  BY <1>15 DEF SetCanceled, Goto, Settle
<1>16. CASE AckTimeout
  BY <1>16 DEF AckTimeout
<1>17. CASE CleanupInvocations
  BY <1>17 DEF CleanupInvocations
<1>18. CASE CleanupComplete
  BY <1>18 DEF CleanupComplete, Settle
<1>19. CASE CleanupRemove
  BY <1>19 DEF CleanupRemove
<1>20. CASE RouterCleanup
  BY <1>20 DEF RouterCleanup
<1>21. CASE UNCHANGED vars
  BY <1>21 DEF vars
<1> QED
  BY <1>1, <1>2, <1>3, <1>4, <1>5, <1>6, <1>7, <1>8, <1>9, <1>10,
     <1>11, <1>12, <1>13, <1>14, <1>15, <1>16, <1>17, <1>18, <1>19, <1>20, <1>21
     DEF Next, CallStep, CompletionStep, CleanupStep

\* The multi-ack counts a sender once.
LEMMA CountingStep == IInv /\ [Next]_vars => Counting'
<1> SUFFICES ASSUME IInv, [Next]_vars PROVE Counting'
  OBVIOUS
<1> USE DEF IInv, TypeOK, Counting
<1>1. Counted \subseteq Counted'
  BY GrowStep
<1>2. Cardinality(Counted) <= Cardinality(Counted')
  BY <1>1, Finite, FS_Subset
<1>3. ASSUME NEW e \in Senders, TriggerAck(e) PROVE Counting'
  <2>1. e \notin Counted /\ e \in Counted'
    BY <1>3 DEF TriggerAck, Goto, Counted
  <2>2. Cardinality(Counted \cup {e}) = Cardinality(Counted) + 1
    BY <2>1, Finite, FS_AddElement
  <2>3. Cardinality(Counted \cup {e}) <= Cardinality(Counted')
    <3>1. Counted \cup {e} \subseteq Counted'
      BY <1>1, <2>1
    <3> QED
      BY <3>1, Finite, FS_Subset
  <2> QED
    BY <1>3, <2>2, <2>3, Finite DEF TriggerAck
<1>4. CASE AckTimeout
  BY <1>2, <1>4, Finite DEF AckTimeout
<1>5. CASE UNCHANGED ackVars
  BY <1>2, <1>5, Finite DEF ackVars
<1> QED
  BY <1>3, <1>4, <1>5
     DEF Next, CallStep, CompletionStep, CleanupStep, Write, AddInvocation, RegisterCancellation,
         TaskReturns, RemoveInvocation, RouterAdd, AddServiceMapping, SetConnectionResult, Cancel,
         ErrorCompletion, Lookup, TryRemove, Complete, SetCanceled, CleanupInvocations,
         CleanupComplete, CleanupRemove, RouterCleanup, vars, ackVars

\* The invariant holds in every behaviour.
LEMMA Invariance == Spec => []IInv
<1>1. IInv /\ [Next]_vars => IInv'
  BY TypeStep, BeforeStep, CompletingStep, OutcomeStep, CountingStep DEF IInv
<1> QED
  BY <1>1, InitIInv, PTL DEF Spec

\* The type invariant holds for any set of endpoints.
THEOREM InvocationTypes == Spec => []TypeOK
<1>1. IInv => TypeOK
  BY DEF IInv
<1> QED
  BY <1>1, Invariance, PTL

\* TriggerAck and TryCompleteResult: an undisturbed caller sees an error only after the
\* answers of all endpoints, however many there are.
THEOREM ErrorsAreUnanimous == Spec => []ErrorIsUnanimous
<1>1. IInv => ErrorIsUnanimous
  <2> SUFFICES ASSUME IInv, task = "error", Undisturbed
               PROVE  \A e \in Endpoints : reply[e] \notin {"none", "lookup", "ack"}
    BY DEF ErrorIsUnanimous
  <2>1. Cardinality(Endpoints) <= Cardinality(Counted)
    BY Finite DEF IInv, TypeOK, Outcome, Counting, Undisturbed
  <2>2. Counted \subseteq Endpoints
    BY DEF Counted, Undisturbed, Senders
  <2>3. Counted = Endpoints
    BY <2>1, <2>2, Finite, InvocationAssumption, FS_Subset
  <2> QED
    BY <2>3 DEF Counted
<1> QED
  BY <1>1, Invariance, PTL

\* TryCompleteResult and CleanupInvocations: the table loses an invocation that is awaited
\* only to somebody who completes it.
THEOREM RemovalSettles == Spec => []RemovedIsSettled
<1>1. IInv => RemovedIsSettled
  BY DEF IInv, Outcome
<1> QED
  BY <1>1, Invariance, PTL

\* InvokeConnectionAsync: a caller that has returned leaves nothing in the table.
THEOREM NothingLeaks == Spec => []SettledIsForgotten
<1>1. IInv => SettledIsForgotten
  BY DEF IInv, Outcome
<1> QED
  BY <1>1, Invariance, PTL
=============================================================================
