-------------------------- MODULE AckHandlerProofs --------------------------
(***************************************************************************)
(* The safety properties of AckHandler for every set of ids, of receivers  *)
(* and of replies.                                                         *)
(***************************************************************************)
EXTENDS AckHandler, TLAPS

\* The caller of i has not entered it in _acks.
NotEntered(i) == caller[i] \in {"free", "skipped", "adding"}

\* Enough acks were counted for the multi ack i, or its time is over.
Due(i) == expired[i] \/ (expected[i] # NoCount /\ expected[i] <= received[i])

\* An ack somebody holds or that is in _acks was entered by its caller, and an ack
\* taken out by the timer or by Dispose never comes back.
Entered ==
  \A i \in Ids :
    /\ NotEntered(i) => /\ i \notin acks \cup timer.left \cup timer.holds \cup disposer.holds
                        /\ \A r \in Receivers : i \notin recv[r].holds
                        /\ task[i] # "pending"
    /\ caller[i] \in {"free", "adding"} => task[i] = "none"
    /\ i \in timer.holds \cup disposer.holds => i \notin acks

\* Each thread holds at most the one ack it is working on, and nothing between two;
\* it removes an ack only after it is settled.
RecvHolding ==
  \A r \in Receivers :
    /\ \A i, j \in recv[r].holds : i = j
    /\ recv[r].pc = "idle" => recv[r].holds = {}
    /\ recv[r].pc = "count" => \A i \in recv[r].holds : kind[i] = "multi"
    /\ recv[r].pc = "remove" => \A i \in recv[r].holds : task[i] # "pending"

PassHolding ==
  /\ \A i, j \in timer.holds : i = j
  /\ timer.pc \in {"idle", "scan"} => timer.holds = {}
  /\ timer.pc = "idle" => timer.left = {}
  /\ \A i, j \in disposer.holds : i = j
  /\ disposer.pc # "cancel" => disposer.holds = {}
  /\ \A i \in Ids : caller[i] = "remove" => task[i] # "pending"

\* What the counting of a multi ack rests on.
Counting ==
  /\ \A i \in Ids : ackCount[i] <= received[i] \/ expired[i]
  /\ \A i \in Ids : caller[i] \in {"free", "adding", "waiting", "expecting"} => expected[i] = NoCount
  /\ \A i \in Ids : caller[i] \in {"expecting", "settle", "remove"} => kind[i] = "multi"
  /\ \A i \in Ids : caller[i] = "settle" => Due(i)
  /\ \A i \in timer.left \cup timer.holds : expired[i]

\* A receiver about to settle a multi ack may do so.
RecvDue ==
  \A r \in Receivers : \A i \in recv[r].holds :
    recv[r].pc = "settle" /\ kind[i] = "multi" => Due(i)

\* The inductive invariant.
Inv ==
  /\ TypeOK
  /\ Entered
  /\ RecvHolding
  /\ PassHolding
  /\ Counting
  /\ RecvDue
  /\ NoOrphan
  /\ MultiAckCounted
  /\ SettledLeaves

\* A new AckHandler satisfies the invariant.
LEMMA InitInv == Init => Inv
<1> SUFFICES ASSUME Init PROVE Inv
  OBVIOUS
<1>1. TypeOK
  BY DEF Init, TypeOK, Kinds, Statuses, Payloads, IdleReceiver, NoCount
<1>2. Entered /\ RecvHolding /\ PassHolding /\ RecvDue
  BY DEF Init, Entered, RecvHolding, PassHolding, RecvDue, IdleReceiver
<1>3. Counting /\ NoOrphan /\ MultiAckCounted /\ SettledLeaves
  BY DEF Init, Counting, NoOrphan, MultiAckCounted, SettledLeaves
<1> QED BY <1>1, <1>2, <1>3 DEF Inv

\* Reading _disposed in CreateSingleAck and CreateMultiAck keeps the invariant.
LEMMA CreateCheckStep ==
  ASSUME NEW i \in Ids, NEW k \in Kinds, Inv, CreateCheck(i, k)
  PROVE  Inv'
<1>1. TypeOK'
  BY SMTT(30) DEF Inv, CreateCheck, TypeOK, Kinds, Statuses, Payloads, Settled, NoCount, IdleReceiver
<1>2. Entered'
  BY DEF Inv, CreateCheck, TypeOK, Entered, NotEntered
<1>3. RecvHolding'
  BY DEF Inv, CreateCheck, TypeOK, Entered, NotEntered, RecvHolding
<1>4. PassHolding'
  BY DEF Inv, CreateCheck, TypeOK, PassHolding
<1>5. Counting'
  BY DEF Inv, CreateCheck, TypeOK, Counting, Due
<1>6. RecvDue'
  BY DEF Inv, CreateCheck, Entered, NotEntered, RecvDue, Due
<1>7. NoOrphan'
  BY DEF Inv, CreateCheck, TypeOK, NoOrphan
<1>8. MultiAckCounted'
  BY DEF Inv, CreateCheck, TypeOK, Entered, MultiAckCounted, Statuses
<1>9. SettledLeaves'
  BY DEF Inv, CreateCheck, TypeOK, Entered, NotEntered, SettledLeaves
<1> QED BY <1>1, <1>2, <1>3, <1>4, <1>5, <1>6, <1>7, <1>8, <1>9 DEF Inv

\* So does _acks.GetOrAdd: the new ack is pending and in the table.
LEMMA CreateAddStep ==
  ASSUME NEW i \in Ids, Inv, CreateAdd(i)
  PROVE  Inv'
<1>1. TypeOK'
  BY DEF Inv, CreateAdd, TypeOK
<1>2. Entered'
  BY DEF Inv, CreateAdd, TypeOK, Entered, NotEntered
<1>3. RecvHolding'
  BY DEF Inv, CreateAdd, Entered, NotEntered, RecvHolding
<1>4. PassHolding'
  BY DEF Inv, CreateAdd, PassHolding
<1>5. Counting'
  BY DEF Inv, CreateAdd, Counting, Due
<1>6. NoOrphan'
  BY DEF Inv, CreateAdd, NoOrphan
<1>7. MultiAckCounted'
  BY DEF Inv, CreateAdd, MultiAckCounted, Statuses
<1>8. SettledLeaves'
  BY DEF Inv, CreateAdd, TypeOK, SettledLeaves, Settled, Statuses
<1>9. RecvDue'
  BY DEF Inv, CreateAdd, RecvDue, Due
<1> QED BY <1>1, <1>2, <1>3, <1>4, <1>5, <1>6, <1>7, <1>8, <1>9 DEF Inv

\* So does the caller's cancellation token.
LEMMA CancelByTokenStep ==
  ASSUME NEW i \in Ids, Inv, CancelByToken(i)
  PROVE  Inv'
<1>1. TypeOK'
  BY DEF Inv, CancelByToken, TrySet, TypeOK, Settled
<1>2. Entered'
  BY DEF Inv, CancelByToken, TrySet, Entered, NotEntered
<1>3. RecvHolding'
  BY DEF Inv, CancelByToken, TrySet, RecvHolding
<1>4. PassHolding'
  BY DEF Inv, CancelByToken, TrySet, PassHolding
<1>5. Counting'
  BY DEF Inv, CancelByToken, Counting, Due
<1>6. NoOrphan'
  BY DEF Inv, CancelByToken, TrySet, NoOrphan
<1>7. MultiAckCounted'
  BY DEF Inv, CancelByToken, TrySet, MultiAckCounted
<1>8. SettledLeaves'
  BY DEF Inv, CancelByToken, TrySet, SettledLeaves
<1>9. RecvDue'
  BY DEF Inv, CancelByToken, RecvDue, Due
<1> QED BY <1>1, <1>2, <1>3, <1>4, <1>5, <1>6, <1>7, <1>8, <1>9 DEF Inv

\* So does the lookup of SetExpectedCount.
LEMMA SetExpectedLookupStep ==
  ASSUME NEW i \in Ids, Inv, SetExpectedLookup(i)
  PROVE  Inv'
<1>1. TypeOK'
  BY DEF Inv, SetExpectedLookup, TypeOK
<1>2. Entered'
  BY DEF Inv, SetExpectedLookup, Entered, NotEntered
<1>3. PassHolding'
  BY DEF Inv, SetExpectedLookup, PassHolding
<1>4. Counting'
  BY DEF Inv, SetExpectedLookup, Counting, Due
<1>5. MultiAckCounted'
  BY DEF Inv, SetExpectedLookup, MultiAckCounted
<1>6. SettledLeaves'
  BY DEF Inv, SetExpectedLookup, SettledLeaves
<1>7. RecvHolding' /\ RecvDue' /\ NoOrphan'
  BY DEF Inv, SetExpectedLookup, RecvHolding, RecvDue, Due, NoOrphan
<1> QED BY <1>1, <1>2, <1>3, <1>4, <1>5, <1>6, <1>7 DEF Inv

\* So does its critical section, which may set the expected count only once.
LEMMA SetExpectedCountStep ==
  ASSUME NEW i \in Ids, NEW n \in 0..MaxExpected, Inv, SetExpectedCount(i, n)
  PROVE  Inv'
<1>1. TypeOK'
  BY RepliesAssumption, BoundsAssumption DEF Inv, SetExpectedCount, TypeOK
<1>2. Entered'
  BY DEF Inv, SetExpectedCount, Entered, NotEntered
<1>3. PassHolding'
  BY DEF Inv, SetExpectedCount, PassHolding
<1>4. Counting'
  BY DEF Inv, SetExpectedCount, TypeOK, Counting, Due, NoCount
<1>5. RecvDue'
  BY DEF Inv, SetExpectedCount, Counting, RecvDue, Due
<1>6. MultiAckCounted'
  BY DEF Inv, SetExpectedCount, Counting, MultiAckCounted
<1>7. SettledLeaves'
  BY DEF Inv, SetExpectedCount, SettledLeaves
<1>8. RecvHolding' /\ NoOrphan'
  BY DEF Inv, SetExpectedCount, RecvHolding, NoOrphan
<1> QED BY <1>1, <1>2, <1>3, <1>4, <1>5, <1>6, <1>7, <1>8 DEF Inv

\* So does settling a multi ack whose acks had all arrived.
LEMMA SetExpectedSettleStep ==
  ASSUME NEW i \in Ids, Inv, SetExpectedSettle(i)
  PROVE  Inv'
<1>1. TypeOK'
  BY DEF Inv, SetExpectedSettle, TrySet, TypeOK, Statuses, Settled
<1>2. Entered'
  BY DEF Inv, SetExpectedSettle, TrySet, Entered, NotEntered
<1>3. RecvHolding'
  BY DEF Inv, SetExpectedSettle, TrySet, RecvHolding
<1>4. PassHolding'
  BY DEF Inv, SetExpectedSettle, TrySet, TypeOK, PassHolding
<1>5. Counting'
  BY DEF Inv, SetExpectedSettle, Counting, Due
<1>6. NoOrphan'
  BY DEF Inv, SetExpectedSettle, TrySet, NoOrphan
<1>7. MultiAckCounted'
  BY DEF Inv, SetExpectedSettle, TrySet, Counting, Due, MultiAckCounted
<1>8. SettledLeaves'
  BY DEF Inv, SetExpectedSettle, TrySet, TypeOK, SettledLeaves
<1>9. RecvDue'
  BY DEF Inv, SetExpectedSettle, RecvDue, Due
<1> QED BY <1>1, <1>2, <1>3, <1>4, <1>5, <1>6, <1>7, <1>8, <1>9 DEF Inv

\* So does removing it: it is settled.
LEMMA SetExpectedRemoveStep ==
  ASSUME NEW i \in Ids, Inv, SetExpectedRemove(i)
  PROVE  Inv'
<1>1. TypeOK'
  BY DEF Inv, SetExpectedRemove, TypeOK
<1>2. Entered'
  BY DEF Inv, SetExpectedRemove, Entered, NotEntered
<1>3. PassHolding'
  BY DEF Inv, SetExpectedRemove, PassHolding
<1>4. Counting'
  BY DEF Inv, SetExpectedRemove, Counting, Due
<1>5. NoOrphan'
  BY DEF Inv, SetExpectedRemove, PassHolding, NoOrphan
<1>6. MultiAckCounted'
  BY DEF Inv, SetExpectedRemove, MultiAckCounted
<1>7. SettledLeaves'
  BY DEF Inv, SetExpectedRemove, SettledLeaves
<1>8. RecvHolding' /\ RecvDue'
  BY DEF Inv, SetExpectedRemove, RecvHolding, RecvDue, Due
<1> QED BY <1>1, <1>2, <1>3, <1>4, <1>5, <1>6, <1>7, <1>8 DEF Inv

\* So does the lookup of TriggerAck.
LEMMA TriggerLookupStep ==
  ASSUME NEW r \in Receivers, NEW i \in Ids, NEW reply \in Replies, Inv, TriggerLookup(r, i, reply)
  PROVE  Inv'
<1>1. TypeOK'
  BY RepliesAssumption, BoundsAssumption DEF Inv, TriggerLookup, TypeOK
<1>2. Entered'
  BY DEF Inv, TriggerLookup, Entered, NotEntered
<1>3. RecvHolding'
  BY DEF Inv, TriggerLookup, RecvHolding
<1>4. RecvDue'
  BY DEF Inv, TriggerLookup, RecvDue, Due
<1>5. SettledLeaves'
  BY DEF Inv, TriggerLookup, SettledLeaves
<1>6. PassHolding' /\ Counting' /\ NoOrphan' /\ MultiAckCounted'
  BY DEF Inv, TriggerLookup, PassHolding, Counting, Due, NoOrphan, MultiAckCounted
<1> QED BY <1>1, <1>2, <1>3, <1>4, <1>5, <1>6 DEF Inv

\* So does counting an ack under the lock of a multi ack.
LEMMA TriggerCountStep ==
  ASSUME NEW r \in Receivers, NEW i \in Ids, Inv, TriggerCount(r, i)
  PROVE  Inv'
<1>1. TypeOK'
  BY SMTT(30) DEF Inv, TriggerCount, TypeOK, Kinds, Statuses, Payloads, Settled, NoCount, IdleReceiver
<1>2. Entered'
  <2>1. \A q \in Receivers : recv'[q].holds \subseteq recv[q].holds
    BY DEF Inv, TriggerCount, IdleReceiver
  <2> QED BY <2>1 DEF Inv, TriggerCount, Entered, NotEntered
<1>3. RecvHolding'
  BY DEF Inv, TriggerCount, RecvHolding, IdleReceiver
<1>4. Counting'
  BY DEF Inv, TriggerCount, TypeOK, Counting, Due
<1>5. RecvDue'
  BY DEF Inv, TriggerCount, TypeOK, RecvHolding, Counting, RecvDue, Due, IdleReceiver
<1>6. MultiAckCounted'
  BY DEF Inv, TriggerCount, TypeOK, MultiAckCounted
<1>7. SettledLeaves'
  BY DEF Inv, TriggerCount, SettledLeaves
<1>8. PassHolding' /\ NoOrphan'
  BY DEF Inv, TriggerCount, PassHolding, NoOrphan
<1> QED BY <1>1, <1>2, <1>3, <1>4, <1>5, <1>6, <1>7, <1>8 DEF Inv

\* So does settling the task in TriggerAck.
LEMMA TriggerSettleStep ==
  ASSUME NEW r \in Receivers, NEW i \in Ids, Inv, TriggerSettle(r, i)
  PROVE  Inv'
<1>1. TypeOK'
  BY DEF Inv, TriggerSettle, TrySet, Outcome, TypeOK, Statuses, Payloads, Settled, IdleReceiver
<1>2. Entered'
  <2>1. \A q \in Receivers : recv'[q].holds \subseteq recv[q].holds
    BY DEF Inv, TriggerSettle, IdleReceiver
  <2>2. Outcome(kind[i], recv[r].reply) # "pending"
    BY DEF Inv, TypeOK, Outcome, Statuses, Payloads
  <2>3. \A j \in Ids : task'[j] = task[j] \/ (task[j] = "pending" /\ task'[j] # "pending")
    BY <2>2 DEF Inv, TriggerSettle, TrySet
  <2> QED BY <2>1, <2>3 DEF Inv, TriggerSettle, Entered, NotEntered
<1>3. RecvHolding'
  <2>1. task'[i] # "pending" /\ \A j \in Ids : task[j] # "pending" => task'[j] # "pending"
    BY DEF Inv, TriggerSettle, TrySet, Outcome, TypeOK, Statuses
  <2>2. \A q \in Receivers \ {r} : recv'[q] = recv[q]
    BY DEF Inv, TriggerSettle, TypeOK
  <2>3. /\ recv'[r].holds \subseteq recv[r].holds
        /\ recv'[r].pc = "idle" => recv'[r].holds = {}
        /\ recv'[r].pc \in {"idle", "remove"}
    BY DEF Inv, TriggerSettle, TypeOK, IdleReceiver
  <2> QED BY <2>1, <2>2, <2>3 DEF Inv, TriggerSettle, TypeOK, RecvHolding
<1>4. PassHolding'
  BY DEF Inv, TriggerSettle, TrySet, PassHolding
<1>5. RecvDue'
  BY DEF Inv, TriggerSettle, RecvDue, Due, IdleReceiver
<1>6. NoOrphan'
  BY DEF Inv, TriggerSettle, TrySet, NoOrphan
<1>7. MultiAckCounted'
  BY DEF Inv, TriggerSettle, TrySet, RecvDue, Due, MultiAckCounted
<1>8. SettledLeaves'
  BY DEF Inv, TriggerSettle, TrySet, TypeOK, Counting, SettledLeaves
<1>9. Counting'
  BY DEF Inv, TriggerSettle, Counting, Due
<1> QED BY <1>1, <1>2, <1>3, <1>4, <1>5, <1>6, <1>7, <1>8, <1>9 DEF Inv

\* So does the removal that follows: the ack is settled.
LEMMA TriggerRemoveStep ==
  ASSUME NEW r \in Receivers, NEW i \in Ids, Inv, TriggerRemove(r, i)
  PROVE  Inv'
<1>1. TypeOK'
  BY DEF Inv, TriggerRemove, TypeOK, Statuses, Payloads, IdleReceiver
<1>2. Entered'
  <2>1. \A q \in Receivers : recv'[q].holds \subseteq recv[q].holds
    BY DEF Inv, TriggerRemove, IdleReceiver
  <2> QED BY <2>1 DEF Inv, TriggerRemove, Entered, NotEntered
<1>3. RecvHolding'
  BY DEF Inv, TriggerRemove, RecvHolding, IdleReceiver
<1>4. RecvDue'
  BY DEF Inv, TriggerRemove, RecvDue, Due, IdleReceiver
<1>5. NoOrphan'
  BY DEF Inv, TriggerRemove, RecvHolding, NoOrphan
<1>6. SettledLeaves'
  <2>1. \A q \in Receivers \ {r} : recv'[q] = recv[q]
    BY DEF Inv, TriggerRemove, TypeOK
  <2>2. \A j \in recv[r].holds : j = i
    BY DEF Inv, TriggerRemove, RecvHolding
  <2> QED BY <2>1, <2>2 DEF Inv, TriggerRemove, SettledLeaves
<1>7. PassHolding' /\ Counting' /\ MultiAckCounted'
  BY DEF Inv, TriggerRemove, PassHolding, Counting, Due, MultiAckCounted
<1> QED BY <1>1, <1>2, <1>3, <1>4, <1>5, <1>6, <1>7 DEF Inv

\* So does the passing of time.
LEMMA ElapseStep ==
  ASSUME NEW i \in Ids, Inv, Elapse(i)
  PROVE  Inv'
<1>1. TypeOK'
  BY DEF Inv, Elapse, TypeOK
<1>2. Counting'
  BY DEF Inv, Elapse, TypeOK, Counting, Due
<1>3. RecvDue'
  BY DEF Inv, Elapse, RecvDue, Due
<1>4. MultiAckCounted'
  BY DEF Inv, Elapse, MultiAckCounted
<1>5. Entered' /\ RecvHolding' /\ PassHolding' /\ NoOrphan' /\ SettledLeaves'
  BY DEF Inv, Elapse, Entered, NotEntered, RecvHolding, PassHolding, NoOrphan, SettledLeaves
<1> QED BY <1>1, <1>2, <1>3, <1>4, <1>5 DEF Inv

\* So does the start of a timer pass: it is going to expire only expired acks.
LEMMA CheckAcksStep ==
  ASSUME Inv, CheckAcks
  PROVE  Inv'
<1>1. TypeOK'
  BY DEF Inv, CheckAcks, TypeOK
<1>2. Entered'
  BY DEF Inv, CheckAcks, Entered, NotEntered
<1>3. PassHolding'
  BY DEF Inv, CheckAcks, PassHolding
<1>4. Counting'
  BY DEF Inv, CheckAcks, Counting, Due
<1>5. NoOrphan'
  BY DEF Inv, CheckAcks, PassHolding, NoOrphan
<1>6. RecvHolding' /\ RecvDue' /\ MultiAckCounted' /\ SettledLeaves'
  BY DEF Inv, CheckAcks, RecvHolding, RecvDue, Due, MultiAckCounted, SettledLeaves
<1> QED BY <1>1, <1>2, <1>3, <1>4, <1>5, <1>6 DEF Inv

\* So does taking an expired ack out: the timer now holds it.
LEMMA ExpireRemoveStep ==
  ASSUME NEW i \in Ids, Inv, ExpireRemove(i)
  PROVE  Inv'
<1>1. TypeOK'
  BY DEF Inv, ExpireRemove, TypeOK
<1>2. Entered'
  BY DEF Inv, ExpireRemove, Entered, NotEntered
<1>3. PassHolding'
  BY DEF Inv, ExpireRemove, PassHolding
<1>4. Counting'
  BY DEF Inv, ExpireRemove, Counting, Due
<1>5. NoOrphan'
  BY DEF Inv, ExpireRemove, PassHolding, NoOrphan
<1>6. SettledLeaves'
  BY DEF Inv, ExpireRemove, SettledLeaves
<1>7. RecvHolding' /\ RecvDue' /\ MultiAckCounted'
  BY DEF Inv, ExpireRemove, RecvHolding, RecvDue, Due, MultiAckCounted
<1> QED BY <1>1, <1>2, <1>3, <1>4, <1>5, <1>6, <1>7 DEF Inv

\* So does ForceAck, which may raise _ackCount over what was received.
LEMMA ExpireForceStep ==
  ASSUME NEW i \in Ids, Inv, ExpireForce(i)
  PROVE  Inv'
<1>1. TypeOK'
  BY DEF Inv, ExpireForce, TypeOK, Kinds, Payloads, Settled, NoCount, IdleReceiver
<1>2. Entered'
  BY DEF Inv, ExpireForce, Entered, NotEntered
<1>3. PassHolding'
  BY DEF Inv, ExpireForce, PassHolding
<1>4. Counting'
  BY DEF Inv, ExpireForce, Counting, Due
<1>5. NoOrphan'
  BY DEF Inv, ExpireForce, NoOrphan
<1>6. RecvHolding' /\ RecvDue' /\ MultiAckCounted' /\ SettledLeaves'
  BY DEF Inv, ExpireForce, RecvHolding, RecvDue, Due, MultiAckCounted, SettledLeaves
<1> QED BY <1>1, <1>2, <1>3, <1>4, <1>5, <1>6 DEF Inv

\* So does settling the expired ack.
LEMMA ExpireSettleStep ==
  ASSUME NEW i \in Ids, Inv, ExpireSettle(i)
  PROVE  Inv'
<1>1. TypeOK'
  BY DEF Inv, ExpireSettle, TrySet, Outcome, TypeOK, Kinds, Statuses, Payloads, Settled, NoCount,
         IdleReceiver
<1>2. Entered'
  BY DEF Inv, ExpireSettle, TrySet, Entered, NotEntered
<1>3. RecvHolding'
  BY DEF Inv, ExpireSettle, TrySet, RecvHolding
<1>4. PassHolding'
  BY DEF Inv, ExpireSettle, TrySet, PassHolding
<1>5. Counting'
  BY DEF Inv, ExpireSettle, Counting, Due
<1>6. NoOrphan'
  BY DEF Inv, ExpireSettle, TrySet, Outcome, TypeOK, PassHolding, NoOrphan
<1>7. MultiAckCounted'
  BY DEF Inv, ExpireSettle, TrySet, Counting, MultiAckCounted
<1>8. SettledLeaves'
  BY DEF Inv, ExpireSettle, TrySet, Entered, SettledLeaves
<1>9. RecvDue'
  BY DEF Inv, ExpireSettle, RecvDue, Due
<1> QED BY <1>1, <1>2, <1>3, <1>4, <1>5, <1>6, <1>7, <1>8, <1>9 DEF Inv

\* So does the end of a timer pass.
LEMMA CheckAcksEndStep ==
  ASSUME Inv, CheckAcksEnd
  PROVE  Inv'
<1>1. TypeOK'
  BY DEF Inv, CheckAcksEnd, TypeOK, Statuses
<1>2. Entered'
  BY DEF Inv, CheckAcksEnd, Entered, NotEntered
<1>3. PassHolding'
  BY DEF Inv, CheckAcksEnd, PassHolding
<1>4. Counting'
  BY DEF Inv, CheckAcksEnd, Counting, Due
<1>5. NoOrphan'
  BY DEF Inv, CheckAcksEnd, NoOrphan
<1>6. RecvHolding' /\ RecvDue' /\ MultiAckCounted' /\ SettledLeaves'
  BY DEF Inv, CheckAcksEnd, RecvHolding, RecvDue, Due, MultiAckCounted, SettledLeaves
<1> QED BY <1>1, <1>2, <1>3, <1>4, <1>5, <1>6 DEF Inv

\* So does the start of Dispose.
LEMMA DisposeStep ==
  ASSUME Inv, Dispose
  PROVE  Inv'
<1>1. TypeOK'
  BY DEF Inv, Dispose, TypeOK
<1>2. Entered'
  BY DEF Inv, Dispose, Entered, NotEntered
<1>3. PassHolding'
  BY DEF Inv, Dispose, PassHolding
<1>4. NoOrphan'
  BY DEF Inv, Dispose, PassHolding, NoOrphan
<1>5. RecvHolding' /\ Counting' /\ RecvDue' /\ MultiAckCounted' /\ SettledLeaves'
  BY DEF Inv, Dispose, RecvHolding, Counting, Due, RecvDue, MultiAckCounted, SettledLeaves
<1> QED BY <1>1, <1>2, <1>3, <1>4, <1>5 DEF Inv

\* So does taking an ack out in Dispose: Dispose now holds it.
LEMMA DrainRemoveStep ==
  ASSUME NEW i \in Ids, Inv, DrainRemove(i)
  PROVE  Inv'
<1>1. TypeOK'
  BY DEF Inv, DrainRemove, TypeOK
<1>2. Entered'
  BY DEF Inv, DrainRemove, Entered, NotEntered
<1>3. PassHolding'
  BY DEF Inv, DrainRemove, PassHolding
<1>4. NoOrphan'
  BY DEF Inv, DrainRemove, PassHolding, NoOrphan
<1>5. SettledLeaves'
  BY DEF Inv, DrainRemove, SettledLeaves
<1>6. RecvHolding' /\ Counting' /\ RecvDue' /\ MultiAckCounted'
  BY DEF Inv, DrainRemove, RecvHolding, Counting, Due, RecvDue, MultiAckCounted
<1> QED BY <1>1, <1>2, <1>3, <1>4, <1>5, <1>6 DEF Inv

\* So does canceling it.
LEMMA DrainCancelStep ==
  ASSUME NEW i \in Ids, Inv, DrainCancel(i)
  PROVE  Inv'
<1>1. TypeOK'
  BY DEF Inv, DrainCancel, TrySet, TypeOK, Settled
<1>2. Entered'
  BY DEF Inv, DrainCancel, TrySet, Entered, NotEntered
<1>3. RecvHolding'
  BY DEF Inv, DrainCancel, TrySet, RecvHolding
<1>4. PassHolding'
  BY DEF Inv, DrainCancel, TrySet, PassHolding
<1>5. NoOrphan'
  BY DEF Inv, DrainCancel, TrySet, TypeOK, PassHolding, NoOrphan
<1>6. MultiAckCounted'
  BY DEF Inv, DrainCancel, TrySet, TypeOK, MultiAckCounted, Statuses
<1>7. SettledLeaves'
  <2>1. i \notin acks /\ acks \subseteq Ids
    BY DEF Inv, DrainCancel, TypeOK, Entered
  <2>2. \A j \in Ids \ {i} : task'[j] = task[j]
    BY DEF Inv, DrainCancel, TrySet, TypeOK
  <2> QED BY <2>1, <2>2 DEF Inv, DrainCancel, SettledLeaves
<1>8. Counting' /\ RecvDue'
  BY DEF Inv, DrainCancel, Counting, Due, RecvDue
<1> QED BY <1>1, <1>2, <1>3, <1>4, <1>5, <1>6, <1>7, <1>8 DEF Inv

\* So does the end of Dispose.
LEMMA DrainEndStep ==
  ASSUME Inv, DrainEnd
  PROVE  Inv'
<1>1. TypeOK'
  BY DEF Inv, DrainEnd, TypeOK
<1>2. Entered'
  BY DEF Inv, DrainEnd, Entered, NotEntered
<1>3. PassHolding'
  BY DEF Inv, DrainEnd, PassHolding
<1>4. NoOrphan'
  BY DEF Inv, DrainEnd, NoOrphan
<1>5. RecvHolding' /\ Counting' /\ RecvDue' /\ MultiAckCounted' /\ SettledLeaves'
  BY DEF Inv, DrainEnd, RecvHolding, Counting, Due, RecvDue, MultiAckCounted, SettledLeaves
<1> QED BY <1>1, <1>2, <1>3, <1>4, <1>5 DEF Inv

\* Every step keeps the invariant.
LEMMA NextInv == Inv /\ [Next]_vars => Inv'
<1> SUFFICES ASSUME Inv, [Next]_vars PROVE Inv'
  OBVIOUS
<1>1. ASSUME NEW i \in Ids, CallerStep(i) PROVE Inv'
  BY <1>1, CreateCheckStep, CreateAddStep, CancelByTokenStep, SetExpectedLookupStep,
     SetExpectedCountStep, SetExpectedSettleStep, SetExpectedRemoveStep DEF CallerStep
<1>2. ASSUME NEW r \in Receivers, NEW i \in Ids, ReceiverStep(r, i) PROVE Inv'
  BY <1>2, TriggerLookupStep, TriggerCountStep, TriggerSettleStep, TriggerRemoveStep DEF ReceiverStep
<1>3. CASE TimerStep
  BY <1>3, CheckAcksStep, CheckAcksEndStep, ExpireRemoveStep, ExpireForceStep, ExpireSettleStep
  DEF TimerStep
<1>4. CASE DrainStep
  BY <1>4, DrainEndStep, DrainRemoveStep, DrainCancelStep DEF DrainStep
<1>5. CASE UNCHANGED vars
  <2>1. TypeOK' /\ Entered'
    BY <1>5 DEF vars, Inv, TypeOK, Entered, NotEntered
  <2>2. RecvHolding' /\ PassHolding'
    BY <1>5 DEF vars, Inv, RecvHolding, PassHolding
  <2>3. Counting' /\ RecvDue'
    BY <1>5 DEF vars, Inv, Counting, RecvDue, Due
  <2>4. NoOrphan' /\ MultiAckCounted' /\ SettledLeaves'
    BY <1>5 DEF vars, Inv, NoOrphan, MultiAckCounted, SettledLeaves
  <2> QED BY <2>1, <2>2, <2>3, <2>4 DEF Inv
<1> QED BY <1>1, <1>2, <1>3, <1>4, <1>5, ElapseStep, DisposeStep DEF Next

\* Inv is an invariant of AckHandler, whatever the ids, the receivers and the replies.
THEOREM Invariance == Spec => []Inv
  BY InitInv, NextInv, PTL DEF Spec

\* Nobody awaits an ack that no thread can settle any more: TriggerAck and
\* SetExpectedCount take an ack out of _acks only after its task is settled, and
\* the timer and Dispose settle what they took out.
THEOREM NeverOrphaned == Spec => []NoOrphan
<1>1. Inv => NoOrphan
  BY DEF Inv
<1> QED BY <1>1, Invariance, PTL

\* A multi ack that was not skipped by a disposed handler reports a status only
\* once the expected number of acks was counted or its time is over.
THEOREM CountedBeforeReported == Spec => []MultiAckCounted
<1>1. Inv => MultiAckCounted
  BY DEF Inv
<1> QED BY <1>1, Invariance, PTL

\* _acks does not leak settled acks: only a canceled one may stay there until its
\* time is over.
THEOREM NoLeak == Spec => []SettledLeaves
<1>1. Inv => SettledLeaves
  BY DEF Inv
<1> QED BY <1>1, Invariance, PTL
=============================================================================
