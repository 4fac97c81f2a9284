------------------------ MODULE BackOffPolicyProofs ------------------------
(***************************************************************************)
(* The safety properties of BackOffPolicy for every set of calls.          *)
(***************************************************************************)
EXTENDS BackOffPolicy, TLAPS

\* The calls between the CompareExchange and the Exchange that clears _currentProbeTcs.
Leading == {"count", "counted", "lead", "backoff", "clear"}

SomeSuccess == \E c \in Calls : probe[c] = "true"

\* A call that has not been let through has not probed, and every other has probed once.
ProbeCounted ==
  \A c \in Calls :
    /\ pc[c] \in {"enter", "follow"} => probed[c] = 0 /\ probe[c] = "none"
    /\ pc[c] \notin {"enter", "follow"} => probed[c] = 1

\* One call leads at a time; it gives the lead up after a success or after its delay.
OneLeader ==
  /\ \A c \in Calls : pc[c] \in Leading => current = c
  /\ \A c \in Calls : pc[c] = "clear" => probe[c] = "true" \/ delay[c] = "passed"

\* A follower waits for another call; success is only reported where there is one;
\* and until there is one, a call that no longer leads has outlived its delay.
SuccessIsReal ==
  /\ \A c \in Calls : pc[c] = "follow" => ongoing[c] \in Calls
  /\ \A c \in Calls : success[c] \/ tcs[c] = "true" => SomeSuccess
  /\ \A c \in Calls :
       pc[c] \in {"publish", "await", "finish", "done"} => SomeSuccess \/ delay[c] = "passed"

\* The inductive invariant.
Inv == TypeOK /\ ProbeCounted /\ OneLeader /\ SuccessIsReal

\* Until a probe succeeds only the leader can be probing within its delay.
LEMMA InvNoStampede == Inv => NoStampede
<1> SUFFICES ASSUME Inv, ~SomeSuccess,
                    NEW c \in Calls, NEW d \in Calls, c # d,
                    probe[c] = "running", probe[d] = "running"
             PROVE  delay[c] = "passed" \/ delay[d] = "passed"
  BY DEF NoStampede, SomeSuccess
<1>1. \A e \in {c, d} : pc[e] \in Leading \/ delay[e] = "passed"
  BY DEF Inv, TypeOK, ProbeCounted, SuccessIsReal, Leading
<1>2. ~(pc[c] \in Leading /\ pc[d] \in Leading)
  BY DEF Inv, OneLeader
<1> QED BY <1>1, <1>2

\* One step of a call, of its probe or of its delay keeps the invariant.
LEMMA NextInv == Inv /\ [Next]_vars => Inv'
<1> SUFFICES ASSUME Inv, [Next]_vars PROVE Inv'
  OBVIOUS
<1> USE NoCallAssumption DEF Inv
<1>1. ASSUME NEW c \in Calls, Lead(c) PROVE Inv'
  <2>1. TypeOK' /\ ProbeCounted' /\ OneLeader'
    BY <1>1 DEF Lead, Goto, CallProbe, TypeOK, ProbeCounted, OneLeader, Leading
  <2>2. probe[c] # "true" /\ \A d \in Calls \ {c} : probe'[d] = probe[d]
    BY <1>1 DEF Lead, Goto, CallProbe, TypeOK, ProbeCounted
  <2>3. SuccessIsReal'
    BY <1>1, <2>2 DEF Lead, Goto, TypeOK, SuccessIsReal, SomeSuccess
  <2> QED BY <2>1, <2>3
<1>2. ASSUME NEW c \in Calls, Follow(c) PROVE Inv'
  BY <1>2 DEF Follow, Goto, TypeOK, ProbeCounted, OneLeader, Leading, SuccessIsReal, SomeSuccess
<1>3. ASSUME NEW c \in Calls, ReadRetry(c) PROVE Inv'
  BY <1>3 DEF ReadRetry, Goto, TypeOK, ProbeCounted, OneLeader, Leading, SuccessIsReal, SomeSuccess
<1>4. ASSUME NEW c \in Calls, WriteRetry(c) PROVE Inv'
  BY <1>4 DEF WriteRetry, Goto, TypeOK, ProbeCounted, OneLeader, Leading, SuccessIsReal, SomeSuccess
<1>5. ASSUME NEW c \in Calls, AfterWhenAny(c) PROVE Inv'
  BY <1>5 DEF AfterWhenAny, TypeOK, ProbeCounted, OneLeader, Leading, SuccessIsReal, SomeSuccess
<1>6. ASSUME NEW c \in Calls, BackedOff(c) PROVE Inv'
  BY <1>6 DEF BackedOff, Goto, TypeOK, ProbeCounted, OneLeader, Leading, SuccessIsReal, SomeSuccess
<1>7. ASSUME NEW c \in Calls, Clear(c) PROVE Inv'
  BY <1>7 DEF Clear, Goto, TypeOK, ProbeCounted, OneLeader, Leading, SuccessIsReal, SomeSuccess
<1>8. ASSUME NEW c \in Calls, Publish(c) PROVE Inv'
  BY <1>8 DEF Publish, Goto, TypeOK, ProbeCounted, OneLeader, Leading, SuccessIsReal, SomeSuccess
<1>9. ASSUME NEW c \in Calls, FollowSuccess(c) PROVE Inv'
  <2>1. TypeOK' /\ ProbeCounted' /\ OneLeader'
    BY <1>9 DEF FollowSuccess, Goto, CallProbe, TypeOK, ProbeCounted, OneLeader, Leading
  <2>2. SomeSuccess /\ probe[c] = "none"
    BY <1>9 DEF FollowSuccess, Goto, ProbeCounted, SuccessIsReal
  <2>3. SomeSuccess'
    BY <1>9, <2>2 DEF FollowSuccess, CallProbe, TypeOK, SomeSuccess
  <2>4. SuccessIsReal'
    BY <1>9, <2>3 DEF FollowSuccess, Goto, TypeOK, SuccessIsReal
  <2> QED BY <2>1, <2>4
<1>10. ASSUME NEW c \in Calls, FollowFailure(c) PROVE Inv'
  BY <1>10 DEF FollowFailure, Goto, TypeOK, ProbeCounted, OneLeader, Leading, SuccessIsReal, SomeSuccess
<1>11. ASSUME NEW c \in Calls, AwaitProbe(c) PROVE Inv'
  BY <1>11 DEF AwaitProbe, Goto, TypeOK, ProbeCounted, OneLeader, Leading, SuccessIsReal, SomeSuccess
<1>12. ASSUME NEW c \in Calls, Finish(c) PROVE Inv'
  BY <1>12 DEF Finish, Goto, TypeOK, ProbeCounted, OneLeader, Leading, SuccessIsReal, SomeSuccess
<1>13. ASSUME NEW c \in Calls, ProbeEnds(c) PROVE Inv'
  BY <1>13 DEF ProbeEnds, TypeOK, ProbeCounted, OneLeader, Leading, SuccessIsReal, SomeSuccess
<1>14. ASSUME NEW c \in Calls, DelayPasses(c) PROVE Inv'
  BY <1>14 DEF DelayPasses, TypeOK, ProbeCounted, OneLeader, Leading, SuccessIsReal, SomeSuccess
<1>15. CASE UNCHANGED vars
  BY <1>15 DEF vars, TypeOK, ProbeCounted, OneLeader, SuccessIsReal, SomeSuccess
<1> QED
  BY <1>1, <1>2, <1>3, <1>4, <1>5, <1>6, <1>7, <1>8, <1>9, <1>10, <1>11, <1>12, <1>13, <1>14, <1>15
  DEF Next, CallStep

\* Inv is an invariant of BackOffPolicy, however many calls meet.
THEOREM Invariance == Spec => []Inv
<1>1. Init => TypeOK
  BY DEF Init, TypeOK
<1>2. Init => ProbeCounted /\ OneLeader
  BY DEF Init, ProbeCounted, OneLeader, Leading
<1>3. Init => \A c \in Calls : ~success[c]
  BY Zenon DEF Init
<1>4. Init => \A c \in Calls : /\ tcs[c] # "true"
                               /\ pc[c] \notin {"follow", "publish", "await", "finish", "done"}
  BY DEF Init
<1>5. Init => SuccessIsReal
  BY <1>3, <1>4, Zenon DEF SuccessIsReal
<1>6. Init => Inv
  BY <1>1, <1>2, <1>5 DEF Inv
<1> QED BY <1>6, NextInv, PTL DEF Spec

\* "Each caller's probe func will be invoked exactly one time."
THEOREM EachProbedOnce == Spec => []ProbedExactlyOnce
<1>1. Inv => ProbedExactlyOnce
  <2> SUFFICES ASSUME Inv, NEW c \in Calls
               PROVE  probed[c] <= 1 /\ (pc[c] = "done" => probed[c] = 1)
    BY DEF ProbedExactlyOnce
  <2> QED BY DEF Inv, ProbeCounted
<1> QED BY <1>1, Invariance, PTL

\* As long as no probe has succeeded, CallProbeWithBackOffAsync lets a second probe run
\* only next to one that has outlived its delay.
THEOREM NeverStampedes == Spec => []NoStampede
  BY InvNoStampede, Invariance, PTL

\* A call publishes its result once, at the end of its lead.
Unpublished ==
  \A c \in Calls : pc[c] \in Leading \cup {"enter", "follow", "publish"} => tcs[c] = "none"

\* The step that lets others go on, by Clear or by Publish, comes after the delay.
LEMMA NextHeldBack ==
  TypeOK /\ Unpublished /\ FailureHeldBack /\ [Next]_vars => Unpublished' /\ FailureHeldBack'
<1> SUFFICES ASSUME TypeOK, Unpublished, FailureHeldBack, [Next]_vars
             PROVE  Unpublished' /\ FailureHeldBack'
  OBVIOUS
<1> USE DEF TypeOK, Unpublished, FailureHeldBack, Leading
<1>1. ASSUME NEW c \in Calls, Lead(c) \/ Follow(c) \/ ReadRetry(c) \/ WriteRetry(c)
      PROVE  Unpublished' /\ FailureHeldBack'
  BY <1>1 DEF Lead, Follow, ReadRetry, WriteRetry, Goto
<1>2. ASSUME NEW c \in Calls, AfterWhenAny(c) PROVE Unpublished' /\ FailureHeldBack'
  <2>1. Unpublished'
    BY <1>2 DEF AfterWhenAny
  <2>2. success'[c] <=> probe[c] = "true"
    BY <1>2 DEF AfterWhenAny
  <2>3. \A d \in Calls \ {c} : success'[d] = success[d] /\ pc'[d] = pc[d]
    BY <1>2 DEF AfterWhenAny
  <2>4. pc'[c] \in {"clear", "publish"} => probe[c] = "true" \/ delay[c] = "passed"
    BY <1>2 DEF AfterWhenAny
  <2>5. tcs' = tcs /\ delay' = delay
    BY <1>2 DEF AfterWhenAny
  <2> QED BY <2>1, <2>2, <2>3, <2>4, <2>5
<1>3. ASSUME NEW c \in Calls, BackedOff(c) \/ Clear(c) \/ Publish(c)
      PROVE  Unpublished' /\ FailureHeldBack'
  BY <1>3 DEF BackedOff, Clear, Publish, Goto
<1>4. ASSUME NEW c \in Calls, FollowSuccess(c) \/ FollowFailure(c)
      PROVE  Unpublished' /\ FailureHeldBack'
  BY <1>4 DEF FollowSuccess, FollowFailure, Goto
<1>5. ASSUME NEW c \in Calls, AwaitProbe(c) PROVE Unpublished' /\ FailureHeldBack'
  <2>1. \A d \in Calls \ {c} : success'[d] = success[d] /\ pc'[d] = pc[d]
    BY <1>5 DEF AwaitProbe, Goto
  <2>2. pc'[c] \in {"done", "finish"} /\ UNCHANGED <<tcs, delay>>
    BY <1>5 DEF AwaitProbe, Goto
  <2> QED BY <2>1, <2>2
<1>6. ASSUME NEW c \in Calls, Finish(c) \/ ProbeEnds(c) \/ DelayPasses(c)
      PROVE  Unpublished' /\ FailureHeldBack'
  BY <1>6 DEF Finish, ProbeEnds, DelayPasses, Goto
<1>7. CASE UNCHANGED vars
  BY <1>7 DEF vars
<1> QED BY <1>1, <1>2, <1>3, <1>4, <1>5, <1>6, <1>7 DEF Next, CallStep

\* A leader that fails holds the others back until its delay has passed, however many calls
\* meet in CallProbeWithBackOffAsync.
THEOREM FailuresHeldBack == Spec => []FailureHeldBack
<1>1. Init => Unpublished /\ FailureHeldBack
  BY DEF Init, Unpublished, FailureHeldBack
<1>2. Spec => []TypeOK
  BY Invariance, PTL DEF Inv
<1> QED BY <1>1, <1>2, NextHeldBack, PTL DEF Spec
=============================================================================
