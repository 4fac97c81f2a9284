--------------------------- MODULE AccessKeyProofs ---------------------------
(***************************************************************************)
(* The safety properties of AccessKey, for any number of calls, deliveries,*)
(* refreshes and tries.                                                    *)
(***************************************************************************)
EXTENDS AccessKey, TLAPS

Failed == \E r \in Refreshes : tries[r] = MaxTries

\* Task sources: those after the current one are untouched, and the current one is completed
\* or its refresh goes on.
Sources ==
  /\ None \in completed
  /\ completed \subseteq 0..source
  /\ source \in completed \/ writer[source] \notin {"idle", "done"}
  /\ \A r \in Refreshes : r > source => writer[r] = "idle"
  /\ \A c \in Callers : update[c] <= source

\* What is under way is the current refresh, and nobody has completed its task source.
Flight ==
  (\A d \in Deliveries : writer[d] # "done")
    => \A r \in Refreshes : Underway(r) => r = source /\ r \notin completed

\* Only a refresh that has a key writes one; a delivery is never anywhere else.
Places ==
  /\ \A d \in Deliveries : writer[d] \in {"idle", "kid", "updateAt", "authorize", "complete", "done"}
  /\ \A r \in Refreshes : writer[r] \in {"idle", "try"} => tries[r] < MaxTries
  /\ \A r \in Refreshes : writer[r] \in {"giveUp", "expire", "unauthorize"} => tries[r] = MaxTries

\* A key and an id are there before Available is.
Written ==
  /\ authorized => bytes # None /\ kid # None
  /\ \A w \in Writers : writer[w] \in {"kid", "updateAt", "authorize"} => bytes # None
  /\ \A w \in Writers : writer[w] \in {"updateAt", "authorize"} => kid # None
  /\ \A c \in Callers : caller[c] = "sign" => bytes # None /\ kid # None
  /\ \A c \in Callers : caller[c] # "null"

\* Between a key and its id, the key is the writer's.
Paired ==
  ~mixed =>
    /\ \A w \in Writers : writer[w] = "kid" => bytes = w
    /\ (\A w \in Writers : writer[w] # "kid") => bytes = kid

\* As long as no refresh has failed for good, _isAuthorized is set for good.
Reasons ==
  /\ ~authorized => age = 3 \/ Failed \/ \E w \in Writers : writer[w] = "authorize"
  /\ \A w \in Writers : writer[w] \in {"complete", "finish"} => authorized \/ Failed
  /\ \A r \in completed : r # None => authorized \/ Failed
  /\ \A c \in Callers :
       caller[c] \in {"check", "await"} /\ update[c] = None => authorized \/ Failed \/ halfway
  /\ \A c \in Callers : caller[c] = "result" => authorized \/ Failed \/ halfway
  /\ \A c \in Callers : caller[c] = "refused" => Failed \/ halfway

IInv ==
  /\ TypeOK
  /\ Sources
  /\ NoneStranded
  /\ Flight
  /\ Places
  /\ Written
  /\ Paired
  /\ Reasons

\* The initial state.
LEMMA InitIInv == Init => IInv
<1>. SUFFICES ASSUME Init PROVE IInv
  OBVIOUS
<1>. USE KeyAssumption DEF Init, Refreshes, Writers, None
<1>1. TypeOK
  <2>1. tries \in [Refreshes -> 0..MaxTries]
    OBVIOUS
  <2>2. mixed \in BOOLEAN /\ halfway \in BOOLEAN /\ authorized \in BOOLEAN
    OBVIOUS
  <2>3. age \in Ages
    BY DEF Ages
  <2>. QED
    BY <2>1, <2>2, <2>3 DEF TypeOK
<1>2. Sources /\ NoneStranded
  BY DEF Sources, NoneStranded
<1>3. Flight
  BY DEF Flight, Underway
<1>4. Places /\ Written /\ Paired
  BY DEF Places, Written, Paired
<1>5. Reasons
  BY DEF Reasons
<1>. QED
  BY <1>1, <1>2, <1>3, <1>4, <1>5 DEF IInv

\* Types.
LEMMA TypeStep == IInv /\ Next => TypeOK'
<1>. SUFFICES ASSUME IInv, Next PROVE TypeOK'
  OBVIOUS
<1>. USE KeyAssumption DEF IInv, Refreshes, Writers, None, key, call, Goto, Step, TypeOK, Ages,
         Sources, Places
<1>1. CASE Time
  BY <1>1 DEF Time
<1>2. ASSUME NEW c \in Callers, CheckRefresh(c) PROVE TypeOK'
  BY <1>2 DEF CheckRefresh
<1>3. ASSUME NEW c \in Callers, UpdateAccessKeyAsync(c) PROVE TypeOK'
  BY <1>3 DEF UpdateAccessKeyAsync
<1>4. ASSUME NEW c \in Callers, CheckAvailable(c) PROVE TypeOK'
  BY <1>4 DEF CheckAvailable
<1>5. ASSUME NEW c \in Callers, AwaitUpdate(c) PROVE TypeOK'
  BY <1>5 DEF AwaitUpdate
<1>6. ASSUME NEW c \in Callers, CheckResult(c) PROVE TypeOK'
  BY <1>6 DEF CheckResult, Result
<1>7. ASSUME NEW c \in Callers, Cancel(c) PROVE TypeOK'
  BY <1>7 DEF Cancel, Result
<1>8. ASSUME NEW c \in Callers, GenerateAccessToken(c) PROVE TypeOK'
  BY <1>8 DEF GenerateAccessToken
<1>9. ASSUME NEW w \in Writers, WriteKeyBytes(w) PROVE TypeOK'
  BY <1>9 DEF WriteKeyBytes
<1>10. ASSUME NEW w \in Writers, WriteKid(w) PROVE TypeOK'
  BY <1>10 DEF WriteKid
<1>11. ASSUME NEW w \in Writers, SetUpdateAt(w) PROVE TypeOK'
  BY <1>11 DEF SetUpdateAt
<1>12. ASSUME NEW w \in Writers, SetAuthorized(w) PROVE TypeOK'
  BY <1>12 DEF SetAuthorized
<1>13. ASSUME NEW w \in Writers, CompleteSource(w) PROVE TypeOK'
  BY <1>13 DEF CompleteSource
<1>14. ASSUME NEW r \in Refreshes, Fetch(r) PROVE TypeOK'
  BY <1>14 DEF Fetch
<1>15. ASSUME NEW r \in Refreshes, FetchFails(r) PROVE TypeOK'
  BY <1>15 DEF FetchFails
<1>16. ASSUME NEW r \in Refreshes, GiveUp(r) PROVE TypeOK'
  BY <1>16 DEF GiveUp
<1>17. ASSUME NEW r \in Refreshes, ResetUpdateAt(r) PROVE TypeOK'
  BY <1>17 DEF ResetUpdateAt
<1>18. ASSUME NEW r \in Refreshes, Unauthorize(r) PROVE TypeOK'
  BY <1>18 DEF Unauthorize
<1>19. ASSUME NEW r \in Refreshes, Finish(r) PROVE TypeOK'
  BY <1>19 DEF Finish
<1>. QED
  BY <1>1, <1>2, <1>3, <1>4, <1>5, <1>6, <1>7, <1>8, <1>9, <1>10, <1>11, <1>12, <1>13, <1>14,
       <1>15, <1>16, <1>17, <1>18, <1>19 DEF Next, CallerStep, WriteStep, RefreshStep

\* Task sources are used one after the other.
LEMMA SourcesStep == IInv /\ Next => Sources'
<1>. SUFFICES ASSUME IInv, Next PROVE Sources'
  OBVIOUS
<1>. USE KeyAssumption DEF IInv, Refreshes, Writers, None, key, call, Goto, Step, TypeOK, Sources
<1>1. CASE Time
  BY <1>1 DEF Time
<1>2. ASSUME NEW c \in Callers, CheckRefresh(c) PROVE Sources'
  BY <1>2 DEF CheckRefresh
<1>3. ASSUME NEW c \in Callers, UpdateAccessKeyAsync(c) PROVE Sources'
  BY <1>3, SMTT(30) DEF UpdateAccessKeyAsync
<1>4. ASSUME NEW c \in Callers, CheckAvailable(c) PROVE Sources'
  BY <1>4 DEF CheckAvailable
<1>5. ASSUME NEW c \in Callers, AwaitUpdate(c) PROVE Sources'
  BY <1>5 DEF AwaitUpdate
<1>6. ASSUME NEW c \in Callers, CheckResult(c) PROVE Sources'
  BY <1>6 DEF CheckResult, Result
<1>7. ASSUME NEW c \in Callers, Cancel(c) PROVE Sources'
  BY <1>7 DEF Cancel, Result
<1>8. ASSUME NEW c \in Callers, GenerateAccessToken(c) PROVE Sources'
  BY <1>8 DEF GenerateAccessToken
<1>9. ASSUME NEW w \in Writers, WriteKeyBytes(w) PROVE Sources'
  BY <1>9 DEF WriteKeyBytes
<1>10. ASSUME NEW w \in Writers, WriteKid(w) PROVE Sources'
  BY <1>10 DEF WriteKid
<1>11. ASSUME NEW w \in Writers, SetUpdateAt(w) PROVE Sources'
  BY <1>11 DEF SetUpdateAt
<1>12. ASSUME NEW w \in Writers, SetAuthorized(w) PROVE Sources'
  BY <1>12 DEF SetAuthorized
<1>13. ASSUME NEW w \in Writers, CompleteSource(w) PROVE Sources'
  BY <1>13 DEF CompleteSource
<1>14. ASSUME NEW r \in Refreshes, Fetch(r) PROVE Sources'
  BY <1>14 DEF Fetch
<1>15. ASSUME NEW r \in Refreshes, FetchFails(r) PROVE Sources'
  BY <1>15 DEF FetchFails
<1>16. ASSUME NEW r \in Refreshes, GiveUp(r) PROVE Sources'
  BY <1>16 DEF GiveUp
<1>17. ASSUME NEW r \in Refreshes, ResetUpdateAt(r) PROVE Sources'
  BY <1>17 DEF ResetUpdateAt
<1>18. ASSUME NEW r \in Refreshes, Unauthorize(r) PROVE Sources'
  BY <1>18 DEF Unauthorize
<1>19. ASSUME NEW r \in Refreshes, Finish(r) PROVE Sources'
  BY <1>19 DEF Finish
<1>. QED
  BY <1>1, <1>2, <1>3, <1>4, <1>5, <1>6, <1>7, <1>8, <1>9, <1>10, <1>11, <1>12, <1>13, <1>14,
       <1>15, <1>16, <1>17, <1>18, <1>19 DEF Next, CallerStep, WriteStep, RefreshStep

\* A task source that is waited for is completed in the end.
LEMMA StrandedStep == IInv /\ Next => NoneStranded'
<1>. SUFFICES ASSUME IInv, Next PROVE NoneStranded'
  OBVIOUS
<1>. USE KeyAssumption DEF IInv, Refreshes, Writers, None, key, call, Goto, Step, TypeOK,
         Sources, NoneStranded, Places
<1>1. CASE Time
  BY <1>1 DEF Time
<1>2. ASSUME NEW c \in Callers, CheckRefresh(c) PROVE NoneStranded'
  BY <1>2 DEF CheckRefresh
<1>3. ASSUME NEW c \in Callers, UpdateAccessKeyAsync(c) PROVE NoneStranded'
  BY <1>3 DEF UpdateAccessKeyAsync
<1>4. ASSUME NEW c \in Callers, CheckAvailable(c) PROVE NoneStranded'
  BY <1>4 DEF CheckAvailable
<1>5. ASSUME NEW c \in Callers, AwaitUpdate(c) PROVE NoneStranded'
  BY <1>5 DEF AwaitUpdate
<1>6. ASSUME NEW c \in Callers, CheckResult(c) PROVE NoneStranded'
  BY <1>6 DEF CheckResult, Result
<1>7. ASSUME NEW c \in Callers, Cancel(c) PROVE NoneStranded'
  BY <1>7 DEF Cancel, Result
<1>8. ASSUME NEW c \in Callers, GenerateAccessToken(c) PROVE NoneStranded'
  BY <1>8 DEF GenerateAccessToken
<1>9. ASSUME NEW w \in Writers, WriteKeyBytes(w) PROVE NoneStranded'
  BY <1>9 DEF WriteKeyBytes
<1>10. ASSUME NEW w \in Writers, WriteKid(w) PROVE NoneStranded'
  BY <1>10 DEF WriteKid
<1>11. ASSUME NEW w \in Writers, SetUpdateAt(w) PROVE NoneStranded'
  BY <1>11 DEF SetUpdateAt
<1>12. ASSUME NEW w \in Writers, SetAuthorized(w) PROVE NoneStranded'
  BY <1>12 DEF SetAuthorized
<1>13. ASSUME NEW w \in Writers, CompleteSource(w) PROVE NoneStranded'
  BY <1>13 DEF CompleteSource
<1>14. ASSUME NEW r \in Refreshes, Fetch(r) PROVE NoneStranded'
  BY <1>14 DEF Fetch
<1>15. ASSUME NEW r \in Refreshes, FetchFails(r) PROVE NoneStranded'
  BY <1>15 DEF FetchFails
<1>16. ASSUME NEW r \in Refreshes, GiveUp(r) PROVE NoneStranded'
  BY <1>16 DEF GiveUp
<1>17. ASSUME NEW r \in Refreshes, ResetUpdateAt(r) PROVE NoneStranded'
  BY <1>17 DEF ResetUpdateAt
<1>18. ASSUME NEW r \in Refreshes, Unauthorize(r) PROVE NoneStranded'
  BY <1>18 DEF Unauthorize
<1>19. ASSUME NEW r \in Refreshes, Finish(r) PROVE NoneStranded'
  BY <1>19 DEF Finish
<1>. QED
  BY <1>1, <1>2, <1>3, <1>4, <1>5, <1>6, <1>7, <1>8, <1>9, <1>10, <1>11, <1>12, <1>13, <1>14,
       <1>15, <1>16, <1>17, <1>18, <1>19 DEF Next, CallerStep, WriteStep, RefreshStep

\* One refresh at a time.
LEMMA FlightStep == IInv /\ Next => Flight'
<1>. SUFFICES ASSUME IInv, Next PROVE Flight'
  OBVIOUS
<1>. USE KeyAssumption DEF IInv, Refreshes, Writers, None, key, call, Goto, Step, TypeOK,
         Sources, Flight, Places, Underway
<1>1. CASE Time
  BY <1>1 DEF Time
<1>2. ASSUME NEW c \in Callers, CheckRefresh(c) PROVE Flight'
  BY <1>2 DEF CheckRefresh
<1>3. ASSUME NEW c \in Callers, UpdateAccessKeyAsync(c) PROVE Flight'
  BY <1>3 DEF UpdateAccessKeyAsync
<1>4. ASSUME NEW c \in Callers, CheckAvailable(c) PROVE Flight'
  BY <1>4 DEF CheckAvailable
<1>5. ASSUME NEW c \in Callers, AwaitUpdate(c) PROVE Flight'
  BY <1>5 DEF AwaitUpdate
<1>6. ASSUME NEW c \in Callers, CheckResult(c) PROVE Flight'
  BY <1>6 DEF CheckResult, Result
<1>7. ASSUME NEW c \in Callers, Cancel(c) PROVE Flight'
  BY <1>7 DEF Cancel, Result
<1>8. ASSUME NEW c \in Callers, GenerateAccessToken(c) PROVE Flight'
  BY <1>8 DEF GenerateAccessToken
<1>9. ASSUME NEW w \in Writers, WriteKeyBytes(w) PROVE Flight'
  BY <1>9 DEF WriteKeyBytes
<1>10. ASSUME NEW w \in Writers, WriteKid(w) PROVE Flight'
  BY <1>10 DEF WriteKid
<1>11. ASSUME NEW w \in Writers, SetUpdateAt(w) PROVE Flight'
  BY <1>11 DEF SetUpdateAt
<1>12. ASSUME NEW w \in Writers, SetAuthorized(w) PROVE Flight'
  BY <1>12 DEF SetAuthorized
<1>13. ASSUME NEW w \in Writers, CompleteSource(w) PROVE Flight'
  BY <1>13 DEF CompleteSource
<1>14. ASSUME NEW r \in Refreshes, Fetch(r) PROVE Flight'
  BY <1>14 DEF Fetch
<1>15. ASSUME NEW r \in Refreshes, FetchFails(r) PROVE Flight'
  BY <1>15 DEF FetchFails
<1>16. ASSUME NEW r \in Refreshes, GiveUp(r) PROVE Flight'
  BY <1>16 DEF GiveUp
<1>17. ASSUME NEW r \in Refreshes, ResetUpdateAt(r) PROVE Flight'
  BY <1>17 DEF ResetUpdateAt
<1>18. ASSUME NEW r \in Refreshes, Unauthorize(r) PROVE Flight'
  BY <1>18 DEF Unauthorize
<1>19. ASSUME NEW r \in Refreshes, Finish(r) PROVE Flight'
  BY <1>19 DEF Finish
<1>. QED
  BY <1>1, <1>2, <1>3, <1>4, <1>5, <1>6, <1>7, <1>8, <1>9, <1>10, <1>11, <1>12, <1>13, <1>14,
       <1>15, <1>16, <1>17, <1>18, <1>19 DEF Next, CallerStep, WriteStep, RefreshStep

\* Deliveries and tries.
LEMMA PlacesStep == IInv /\ Next => Places'
<1>. SUFFICES ASSUME IInv, Next PROVE Places'
  OBVIOUS
<1>. USE KeyAssumption DEF IInv, Refreshes, Writers, None, key, call, Goto, Step, TypeOK,
         Sources, Places
<1>1. CASE Time
  BY <1>1 DEF Time
<1>2. ASSUME NEW c \in Callers, CheckRefresh(c) PROVE Places'
  BY <1>2 DEF CheckRefresh
<1>3. ASSUME NEW c \in Callers, UpdateAccessKeyAsync(c) PROVE Places'
  <2>1. CASE source \notin completed
    BY <1>3, <2>1 DEF UpdateAccessKeyAsync
  <2>2. CASE source \in completed
    <3>1. source' \in Refreshes /\ source' \notin Deliveries /\ source' = source + 1
      BY <1>3, <2>2 DEF UpdateAccessKeyAsync
    <3>2. writer[source'] = "idle"
      BY <3>1
    <3>3. writer' = [writer EXCEPT ![source'] = "try"]
      BY <1>3, <2>2 DEF UpdateAccessKeyAsync
    <3>4. UNCHANGED <<bytes, kid, mixed, tries>>
      BY <1>3 DEF UpdateAccessKeyAsync
    <3>. QED
      BY <3>1, <3>2, <3>3, <3>4
  <2>. QED
    BY <2>1, <2>2
<1>4. ASSUME NEW c \in Callers, CheckAvailable(c) PROVE Places'
  BY <1>4 DEF CheckAvailable
<1>5. ASSUME NEW c \in Callers, AwaitUpdate(c) PROVE Places'
  BY <1>5 DEF AwaitUpdate
<1>6. ASSUME NEW c \in Callers, CheckResult(c) PROVE Places'
  BY <1>6 DEF CheckResult, Result
<1>7. ASSUME NEW c \in Callers, Cancel(c) PROVE Places'
  BY <1>7 DEF Cancel, Result
<1>8. ASSUME NEW c \in Callers, GenerateAccessToken(c) PROVE Places'
  BY <1>8 DEF GenerateAccessToken
<1>9. ASSUME NEW w \in Writers, WriteKeyBytes(w) PROVE Places'
  BY <1>9 DEF WriteKeyBytes
<1>10. ASSUME NEW w \in Writers, WriteKid(w) PROVE Places'
  BY <1>10 DEF WriteKid
<1>11. ASSUME NEW w \in Writers, SetUpdateAt(w) PROVE Places'
  BY <1>11 DEF SetUpdateAt
<1>12. ASSUME NEW w \in Writers, SetAuthorized(w) PROVE Places'
  BY <1>12 DEF SetAuthorized
<1>13. ASSUME NEW w \in Writers, CompleteSource(w) PROVE Places'
  BY <1>13 DEF CompleteSource
<1>14. ASSUME NEW r \in Refreshes, Fetch(r) PROVE Places'
  BY <1>14 DEF Fetch
<1>15. ASSUME NEW r \in Refreshes, FetchFails(r) PROVE Places'
  BY <1>15 DEF FetchFails
<1>16. ASSUME NEW r \in Refreshes, GiveUp(r) PROVE Places'
  BY <1>16 DEF GiveUp
<1>17. ASSUME NEW r \in Refreshes, ResetUpdateAt(r) PROVE Places'
  BY <1>17 DEF ResetUpdateAt
<1>18. ASSUME NEW r \in Refreshes, Unauthorize(r) PROVE Places'
  BY <1>18 DEF Unauthorize
<1>19. ASSUME NEW r \in Refreshes, Finish(r) PROVE Places'
  BY <1>19 DEF Finish
<1>. QED
  BY <1>1, <1>2, <1>3, <1>4, <1>5, <1>6, <1>7, <1>8, <1>9, <1>10, <1>11, <1>12, <1>13, <1>14,
       <1>15, <1>16, <1>17, <1>18, <1>19 DEF Next, CallerStep, WriteStep, RefreshStep

\* Keys and ids do not go away.
LEMMA WrittenStep == IInv /\ Next => Written'
<1>. SUFFICES ASSUME IInv, Next PROVE Written'
  OBVIOUS
<1>. USE KeyAssumption DEF IInv, Refreshes, Writers, None, key, call, Goto, Step, TypeOK,
         Written, Available, Places
<1>1. CASE Time
  BY <1>1 DEF Time
<1>2. ASSUME NEW c \in Callers, CheckRefresh(c) PROVE Written'
  BY <1>2 DEF CheckRefresh
<1>3. ASSUME NEW c \in Callers, UpdateAccessKeyAsync(c) PROVE Written'
  BY <1>3 DEF UpdateAccessKeyAsync
<1>4. ASSUME NEW c \in Callers, CheckAvailable(c) PROVE Written'
  BY <1>4 DEF CheckAvailable
<1>5. ASSUME NEW c \in Callers, AwaitUpdate(c) PROVE Written'
  BY <1>5 DEF AwaitUpdate
<1>6. ASSUME NEW c \in Callers, CheckResult(c) PROVE Written'
  BY <1>6 DEF CheckResult, Result
<1>7. ASSUME NEW c \in Callers, Cancel(c) PROVE Written'
  BY <1>7 DEF Cancel, Result
<1>8. ASSUME NEW c \in Callers, GenerateAccessToken(c) PROVE Written'
  BY <1>8 DEF GenerateAccessToken
<1>9. ASSUME NEW w \in Writers, WriteKeyBytes(w) PROVE Written'
  BY <1>9 DEF WriteKeyBytes
<1>10. ASSUME NEW w \in Writers, WriteKid(w) PROVE Written'
  BY <1>10 DEF WriteKid
<1>11. ASSUME NEW w \in Writers, SetUpdateAt(w) PROVE Written'
  BY <1>11 DEF SetUpdateAt
<1>12. ASSUME NEW w \in Writers, SetAuthorized(w) PROVE Written'
  BY <1>12 DEF SetAuthorized
<1>13. ASSUME NEW w \in Writers, CompleteSource(w) PROVE Written'
  BY <1>13 DEF CompleteSource
<1>14. ASSUME NEW r \in Refreshes, Fetch(r) PROVE Written'
  BY <1>14 DEF Fetch
<1>15. ASSUME NEW r \in Refreshes, FetchFails(r) PROVE Written'
  BY <1>15 DEF FetchFails
<1>16. ASSUME NEW r \in Refreshes, GiveUp(r) PROVE Written'
  BY <1>16 DEF GiveUp
<1>17. ASSUME NEW r \in Refreshes, ResetUpdateAt(r) PROVE Written'
  BY <1>17 DEF ResetUpdateAt
<1>18. ASSUME NEW r \in Refreshes, Unauthorize(r) PROVE Written'
  BY <1>18 DEF Unauthorize
<1>19. ASSUME NEW r \in Refreshes, Finish(r) PROVE Written'
  BY <1>19 DEF Finish
<1>. QED
  BY <1>1, <1>2, <1>3, <1>4, <1>5, <1>6, <1>7, <1>8, <1>9, <1>10, <1>11, <1>12, <1>13, <1>14,
       <1>15, <1>16, <1>17, <1>18, <1>19 DEF Next, CallerStep, WriteStep, RefreshStep

\* Keys and ids come in pairs.
LEMMA PairedStep == IInv /\ Next => Paired'
<1>. SUFFICES ASSUME IInv, Next PROVE Paired'
  OBVIOUS
<1>. USE KeyAssumption DEF IInv, Refreshes, Writers, None, key, call, Goto, Step, TypeOK,
         Sources, Paired, Places
<1>1. CASE Time
  BY <1>1 DEF Time
<1>2. ASSUME NEW c \in Callers, CheckRefresh(c) PROVE Paired'
  BY <1>2 DEF CheckRefresh
<1>3. ASSUME NEW c \in Callers, UpdateAccessKeyAsync(c) PROVE Paired'
  <2>1. CASE source \notin completed
    BY <1>3, <2>1 DEF UpdateAccessKeyAsync
  <2>2. CASE source \in completed
    <3>1. source' \in Refreshes /\ source' \notin Deliveries /\ source' = source + 1
      BY <1>3, <2>2 DEF UpdateAccessKeyAsync
    <3>2. writer[source'] = "idle"
      BY <3>1
    <3>3. writer' = [writer EXCEPT ![source'] = "try"]
      BY <1>3, <2>2 DEF UpdateAccessKeyAsync
    <3>4. UNCHANGED <<bytes, kid, mixed, tries>>
      BY <1>3 DEF UpdateAccessKeyAsync
    <3>. QED
      BY <3>1, <3>2, <3>3, <3>4
  <2>. QED
    BY <2>1, <2>2
<1>4. ASSUME NEW c \in Callers, CheckAvailable(c) PROVE Paired'
  BY <1>4 DEF CheckAvailable
<1>5. ASSUME NEW c \in Callers, AwaitUpdate(c) PROVE Paired'
  BY <1>5 DEF AwaitUpdate
<1>6. ASSUME NEW c \in Callers, CheckResult(c) PROVE Paired'
  BY <1>6 DEF CheckResult, Result
<1>7. ASSUME NEW c \in Callers, Cancel(c) PROVE Paired'
  BY <1>7 DEF Cancel, Result
<1>8. ASSUME NEW c \in Callers, GenerateAccessToken(c) PROVE Paired'
  BY <1>8 DEF GenerateAccessToken
<1>9. ASSUME NEW w \in Writers, WriteKeyBytes(w) PROVE Paired'
  BY <1>9 DEF WriteKeyBytes
<1>10. ASSUME NEW w \in Writers, WriteKid(w) PROVE Paired'
  BY <1>10 DEF WriteKid
<1>11. ASSUME NEW w \in Writers, SetUpdateAt(w) PROVE Paired'
  BY <1>11 DEF SetUpdateAt
<1>12. ASSUME NEW w \in Writers, SetAuthorized(w) PROVE Paired'
  BY <1>12 DEF SetAuthorized
<1>13. ASSUME NEW w \in Writers, CompleteSource(w) PROVE Paired'
  BY <1>13 DEF CompleteSource
<1>14. ASSUME NEW r \in Refreshes, Fetch(r) PROVE Paired'
  BY <1>14 DEF Fetch
<1>15. ASSUME NEW r \in Refreshes, FetchFails(r) PROVE Paired'
  BY <1>15 DEF FetchFails
<1>16. ASSUME NEW r \in Refreshes, GiveUp(r) PROVE Paired'
  BY <1>16 DEF GiveUp
<1>17. ASSUME NEW r \in Refreshes, ResetUpdateAt(r) PROVE Paired'
  BY <1>17 DEF ResetUpdateAt
<1>18. ASSUME NEW r \in Refreshes, Unauthorize(r) PROVE Paired'
  BY <1>18 DEF Unauthorize
<1>19. ASSUME NEW r \in Refreshes, Finish(r) PROVE Paired'
  BY <1>19 DEF Finish
<1>. QED
  BY <1>1, <1>2, <1>3, <1>4, <1>5, <1>6, <1>7, <1>8, <1>9, <1>10, <1>11, <1>12, <1>13, <1>14,
       <1>15, <1>16, <1>17, <1>18, <1>19 DEF Next, CallerStep, WriteStep, RefreshStep

\* Who is refused has a reason.
LEMMA ReasonsStep == IInv /\ Next => Reasons'
<1>. SUFFICES ASSUME IInv, Next PROVE Reasons'
  OBVIOUS
<1>. USE KeyAssumption DEF IInv, Refreshes, Writers, None, key, call, Goto, Step, TypeOK, Ages,
         Sources, Places, Reasons, Failed, Available, NeedRefresh, Halfway
<1>1. CASE Time
  BY <1>1 DEF Time
<1>2. ASSUME NEW c \in Callers, CheckRefresh(c) PROVE Reasons'
  <2>1. UNCHANGED <<authorized, age, completed, writer, tries, update>>
    BY <1>2 DEF CheckRefresh
  <2>2. caller'[c] = "check" => authorized \/ Failed \/ halfway'
    <3>. SUFFICES ASSUME caller'[c] = "check", ~authorized, ~Failed PROVE halfway'
      OBVIOUS
    <3>1. ~NeedRefresh
      BY <1>2 DEF CheckRefresh
    <3>2. age = 0
      BY <3>1
    <3>3. Halfway
      BY <3>2
    <3>. QED
      BY <1>2, <3>3 DEF CheckRefresh
  <2>3. halfway => halfway'
    BY <1>2 DEF CheckRefresh
  <2>4. \A b \in Callers : b # c => caller'[b] = caller[b]
    BY <1>2 DEF CheckRefresh
  <2>5. caller'[c] \in {"update", "check"}
    BY <1>2 DEF CheckRefresh
  <2>6. Failed' = Failed
    BY <2>1
  <2>. QED
    BY <2>1, <2>2, <2>3, <2>4, <2>5, <2>6
<1>3. ASSUME NEW c \in Callers, UpdateAccessKeyAsync(c) PROVE Reasons'
  BY <1>3 DEF UpdateAccessKeyAsync
<1>4. ASSUME NEW c \in Callers, CheckAvailable(c) PROVE Reasons'
  BY <1>4 DEF CheckAvailable
<1>5. ASSUME NEW c \in Callers, AwaitUpdate(c) PROVE Reasons'
  BY <1>5 DEF AwaitUpdate
<1>6. ASSUME NEW c \in Callers, CheckResult(c) PROVE Reasons'
  BY <1>6 DEF CheckResult, Result
<1>7. ASSUME NEW c \in Callers, Cancel(c) PROVE Reasons'
  BY <1>7 DEF Cancel, Result
<1>8. ASSUME NEW c \in Callers, GenerateAccessToken(c) PROVE Reasons'
  BY <1>8 DEF GenerateAccessToken
<1>9. ASSUME NEW w \in Writers, WriteKeyBytes(w) PROVE Reasons'
  BY <1>9 DEF WriteKeyBytes
<1>10. ASSUME NEW w \in Writers, WriteKid(w) PROVE Reasons'
  BY <1>10 DEF WriteKid
<1>11. ASSUME NEW w \in Writers, SetUpdateAt(w) PROVE Reasons'
  BY <1>11 DEF SetUpdateAt
<1>12. ASSUME NEW w \in Writers, SetAuthorized(w) PROVE Reasons'
  BY <1>12 DEF SetAuthorized
<1>13. ASSUME NEW w \in Writers, CompleteSource(w) PROVE Reasons'
  BY <1>13 DEF CompleteSource
<1>14. ASSUME NEW r \in Refreshes, Fetch(r) PROVE Reasons'
  BY <1>14 DEF Fetch
<1>15. ASSUME NEW r \in Refreshes, FetchFails(r) PROVE Reasons'
  BY <1>15, SMTT(20), ZenonT(60) DEF FetchFails
<1>16. ASSUME NEW r \in Refreshes, GiveUp(r) PROVE Reasons'
  BY <1>16 DEF GiveUp
<1>17. ASSUME NEW r \in Refreshes, ResetUpdateAt(r) PROVE Reasons'
  BY <1>17 DEF ResetUpdateAt
<1>18. ASSUME NEW r \in Refreshes, Unauthorize(r) PROVE Reasons'
  BY <1>18 DEF Unauthorize
<1>19. ASSUME NEW r \in Refreshes, Finish(r) PROVE Reasons'
  BY <1>19 DEF Finish
<1>. QED
  BY <1>1, <1>2, <1>3, <1>4, <1>5, <1>6, <1>7, <1>8, <1>9, <1>10, <1>11, <1>12, <1>13, <1>14,
       <1>15, <1>16, <1>17, <1>18, <1>19 DEF Next, CallerStep, WriteStep, RefreshStep

\* Every step preserves the inductive invariant.
LEMMA NextIInv == IInv /\ [Next]_vars => IInv'
<1>. SUFFICES ASSUME IInv, [Next]_vars PROVE IInv'
  OBVIOUS
<1>1. CASE Next
  BY <1>1, TypeStep, SourcesStep, StrandedStep, FlightStep, PlacesStep, WrittenStep, PairedStep,
    ReasonsStep DEF IInv
<1>2. CASE UNCHANGED vars
  BY <1>2, ZenonT(60) DEF vars, IInv, TypeOK, Sources, NoneStranded, Flight, Underway, Places, Written,
           Paired,
    Reasons, Failed
<1>. QED
  BY <1>1, <1>2

\* The inductive invariant is one.
LEMMA Invariance == Spec => []IInv
BY InitIInv, NextIInv, PTL DEF Spec

\* Types, for every number of calls, deliveries and refreshes.
THEOREM TypeCorrect == Spec => []TypeOK
<1>1. IInv => TypeOK
  BY DEF IInv
<1>. QED
  BY <1>1, Invariance, PTL

\* A call that finds the key available has a key and an id to sign with: UpdateAccessKey
\* writes them before Available, and nothing takes them away.
THEOREM KeyIsThere == Spec => []NeverNull
<1>1. IInv => NeverNull
  BY DEF IInv, Written, NeverNull
<1>. QED
  BY <1>1, Invariance, PTL

\* Key and id belong together, unless one UpdateAccessKey came between the two assignments
\* of another.
THEOREM KeysPair == Spec => []PairMatches
<1>1. IInv => PairMatches
  BY DEF IInv, Paired, PairMatches
<1>. QED
  BY <1>1, Invariance, PTL

\* UpdateAccessKeyAsync shares a refresh among all callers, until a delivery completes the
\* task source early.
THEOREM RefreshShared == Spec => []SingleFlight
<1>1. IInv => SingleFlight
  BY DEF IInv, Flight, SingleFlight
<1>. QED
  BY <1>1, Invariance, PTL

\* GenerateAccessTokenAsync throws for lack of authorization only after
\* UpdateAccessKeyInternalAsync has used up its tries, or in the middle of the setter of
\* Available.
THEOREM RefusalExplained == Spec => []RefusedHasReason
<1>1. IInv => RefusedHasReason
  BY DEF IInv, Reasons, RefusedHasReason, Failed
<1>. QED
  BY <1>1, Invariance, PTL

\* Nobody waits for a task source that no refresh will complete.
THEOREM WaitersServed == Spec => []NoneStranded
<1>1. IInv => NoneStranded
  BY DEF IInv
<1>. QED
  BY <1>1, Invariance, PTL
=============================================================================
