------------------------------ MODULE AccessKey ------------------------------
(***************************************************************************)
(* MicrosoftEntraAccessKey.cs: the key that signs the tokens of an         *)
(* endpoint.  Callers of GenerateAccessTokenAsync start a refresh when the *)
(* key is old, and wait for it when there is no usable key; a refresh is   *)
(* tried several times; service connections deliver keys at any time.      *)
(* The fields are written one after the other, without a lock.             *)
(* Exceptions, kept for their message only, are left out.                  *)
(***************************************************************************)
EXTENDS Naturals

CONSTANTS
  Callers,     \* calls of GenerateAccessTokenAsync
  Deliveries,  \* calls of UpdateAccessKey by a service connection
  MaxTries,    \* GetAccessKeyMaxRetryTimes
  MaxRefreshes \* bound on the refreshes; a call starts at most one

Refreshes == 1..MaxRefreshes
Writers == Refreshes \cup Deliveries
None == 0

ASSUME KeyAssumption ==
  /\ MaxRefreshes \in Nat
  /\ MaxTries \in Nat \ {0}
  /\ Deliveries \cap (Refreshes \cup {None}) = {}

\* The time since _updateAt, cut at GetAccessKeyIntervalUnavailable, GetAccessKeyInterval
\* and AccessKeyExpireTime.
Ages == 0..3

VARIABLES
  bytes,       \* _keyBytes, by the writer whose key it is
  kid,         \* _kid, likewise
  authorized,  \* _isAuthorized
  age,         \* DateTime.UtcNow - _updateAt
  source,      \* _updateTaskSource: the refresh it belongs to
  completed,   \* the refreshes whose task source is completed
  writer,      \* where each refresh and each delivery is
  tries,       \* the failed tries of each refresh
  caller,      \* where each call is
  update,      \* the task source a call waits for
  mixed,       \* a key was written between another and its id (history)
  halfway      \* a call has met _updateAt and _isAuthorized out of step (history)

vars == <<bytes, kid, authorized, age, source, completed, writer, tries, caller, update,
          mixed, halfway>>

Available == authorized /\ age < 3
NeedRefresh == IF Available THEN age > 1 ELSE age > 0

Init ==
  /\ bytes = None
  /\ kid = None
  /\ authorized = FALSE
  /\ age = 3
  /\ source = None
  /\ completed = {None}
  /\ writer = [w \in Writers |-> "idle"]
  /\ tries = [r \in Refreshes |-> 0]
  /\ caller = [c \in Callers |-> "idle"]
  /\ update = [c \in Callers |-> None]
  /\ mixed = FALSE
  /\ halfway = FALSE

Time ==
  /\ age < 3
  /\ age' = age + 1
  /\ UNCHANGED <<bytes, kid, authorized, source, completed, writer, tries, caller, update,
                 mixed, halfway>>

-----------------------------------------------------------------------------
(* GenerateAccessTokenAsync.                                               *)

key == <<bytes, kid, authorized, age>>

Goto(c, to) == caller' = [caller EXCEPT ![c] = to]
\* _updateAt is set and _isAuthorized is not yet.
Halfway == \E w \in Writers : writer[w] \in {"authorize", "unauthorize"}

CheckRefresh(c) ==
  /\ caller[c] = "idle"
  /\ Goto(c, IF NeedRefresh THEN "update" ELSE "check")
  /\ halfway' = (halfway \/ Halfway)
  /\ UNCHANGED <<key, source, completed, writer, tries, update, mixed>>

\* UpdateAccessKeyAsync, under _lock: join the refresh under way, or start one.
UpdateAccessKeyAsync(c) ==
  /\ caller[c] = "update"
  /\ source \in completed => source < MaxRefreshes
  /\ Goto(c, "check")
  /\ source' = IF source \in completed THEN source + 1 ELSE source
  /\ writer' = IF source \in completed THEN [writer EXCEPT ![source'] = "try"] ELSE writer
  /\ update' = [update EXCEPT ![c] = source']
  /\ UNCHANGED <<key, completed, tries, mixed, halfway>>

CheckAvailable(c) ==
  /\ caller[c] = "check"
  /\ Goto(c, IF Available THEN "result" ELSE "await")
  /\ halfway' = (halfway \/ Halfway)
  /\ UNCHANGED <<key, source, completed, writer, tries, update, mixed>>

\* updateTask is completed; if there was no need for one, it is from the beginning.
AwaitUpdate(c) ==
  /\ caller[c] = "await"
  /\ update[c] \in completed
  /\ Goto(c, "result")
  /\ UNCHANGED <<key, source, completed, writer, tries, update, mixed, halfway>>

\* Otherwise, an exception: not authorized, or the key is too old.
Result(c, otherwise) ==
  /\ Goto(c, IF Available THEN "sign" ELSE IF authorized THEN "returned" ELSE otherwise)
  /\ halfway' = (halfway \/ Halfway)
  /\ UNCHANGED <<key, source, completed, writer, tries, update, mixed>>

CheckResult(c) == caller[c] = "result" /\ Result(c, "refused")

\* The wait is canceled; the result is looked at all the same.
Cancel(c) == caller[c] = "await" /\ update[c] \notin completed /\ Result(c, "returned")

\* KeyBytes and Kid are read for the token; null makes them throw.
GenerateAccessToken(c) ==
  /\ caller[c] = "sign"
  /\ Goto(c, IF bytes = None \/ kid = None THEN "null" ELSE "returned")
  /\ UNCHANGED <<key, source, completed, writer, tries, update, mixed, halfway>>

-----------------------------------------------------------------------------
(* UpdateAccessKeyInternalAsync.                                           *)

call == <<caller, update, halfway>>
Step(w, from, to) == writer[w] = from /\ writer' = [writer EXCEPT ![w] = to]

\* The service answers with a key.
Fetch(r) ==
  /\ Step(r, "try", "bytes")
  /\ UNCHANGED <<key, source, completed, tries, call, mixed>>

\* An error, or no answer within GetAccessKeyTimeout: again, a few times.
FetchFails(r) ==
  /\ Step(r, "try", IF tries[r] + 1 < MaxTries THEN "try" ELSE "giveUp")
  /\ tries' = [tries EXCEPT ![r] = @ + 1]
  /\ UNCHANGED <<key, source, completed, call, mixed>>

\* A key that cannot be used any more is marked so, with a new _updateAt ...
GiveUp(r) ==
  /\ Step(r, "giveUp", IF Available THEN "finish" ELSE "expire")
  /\ UNCHANGED <<key, source, completed, tries, call, mixed>>

\* ... which is assigned first.
ResetUpdateAt(r) ==
  /\ Step(r, "expire", "unauthorize")
  /\ age' = 0
  /\ UNCHANGED <<bytes, kid, authorized, source, completed, tries, call, mixed>>

Unauthorize(r) ==
  /\ Step(r, "unauthorize", "finish")
  /\ authorized' = FALSE
  /\ UNCHANGED <<bytes, kid, age, source, completed, tries, call, mixed>>

\* Mutant: only a refresh that succeeds completes its task source.
FinishGladly(r) ==
  /\ Step(r, "finish", "done")
  /\ completed' = IF tries[r] < MaxTries THEN completed \cup {r} ELSE completed
  /\ UNCHANGED <<key, source, tries, call, mixed>>

\* tcs.TrySetResult.
Finish(r) ==
  /\ Step(r, "finish", "done")
  /\ completed' = completed \cup {r}
  /\ UNCHANGED <<key, source, tries, call, mixed>>

-----------------------------------------------------------------------------
(* UpdateAccessKey, by a refresh or for a message of the service.          *)

\* Mutant: the key is made available at once.
WriteKeyBytesAvailable(w) ==
  /\ Step(w, IF w \in Refreshes THEN "bytes" ELSE "idle", "kid")
  /\ bytes' = w
  /\ age' = 0
  /\ authorized' = TRUE
  /\ mixed' = (mixed \/ \E v \in Writers : writer[v] = "kid")
  /\ UNCHANGED <<kid, source, completed, tries, call>>

WriteKeyBytes(w) ==
  /\ Step(w, IF w \in Refreshes THEN "bytes" ELSE "idle", "kid")
  /\ bytes' = w
  /\ mixed' = (mixed \/ \E v \in Writers : writer[v] = "kid")
  /\ UNCHANGED <<kid, authorized, age, source, completed, tries, call>>

\* Mutant: an old id stays.
WriteKidOnce(w) ==
  /\ Step(w, "kid", "updateAt")
  /\ kid' = IF kid = None THEN w ELSE kid
  /\ UNCHANGED <<bytes, authorized, age, source, completed, tries, call, mixed>>

WriteKid(w) ==
  /\ Step(w, "kid", "updateAt")
  /\ kid' = w
  /\ UNCHANGED <<bytes, authorized, age, source, completed, tries, call, mixed>>

\* Available = true: _updateAt ...
SetUpdateAt(w) ==
  /\ Step(w, "updateAt", "authorize")
  /\ age' = 0
  /\ UNCHANGED <<bytes, kid, authorized, source, completed, tries, call, mixed>>

\* ... and _isAuthorized.
SetAuthorized(w) ==
  /\ Step(w, "authorize", "complete")
  /\ authorized' = TRUE
  /\ UNCHANGED <<bytes, kid, age, source, completed, tries, call, mixed>>

\* Under _lock, whatever _updateTaskSource is now is completed.
CompleteSource(w) ==
  /\ Step(w, "complete", IF w \in Refreshes THEN "finish" ELSE "done")
  /\ completed' = completed \cup {source}
  /\ UNCHANGED <<key, source, tries, call, mixed>>

-----------------------------------------------------------------------------
CallerStep(c) ==
  \/ CheckRefresh(c) \/ UpdateAccessKeyAsync(c) \/ CheckAvailable(c) \/ AwaitUpdate(c)
  \/ CheckResult(c) \/ Cancel(c) \/ GenerateAccessToken(c)

WriteStep(w) ==
  WriteKeyBytes(w) \/ WriteKid(w) \/ SetUpdateAt(w) \/ SetAuthorized(w) \/ CompleteSource(w)

RefreshStep(r) ==
  Fetch(r) \/ FetchFails(r) \/ GiveUp(r) \/ ResetUpdateAt(r) \/ Unauthorize(r) \/ Finish(r)

Next ==
  \/ Time
  \/ \E c \in Callers : CallerStep(c)
  \/ \E w \in Writers : WriteStep(w)
  \/ \E r \in Refreshes : RefreshStep(r)

Spec == Init /\ [][Next]_vars

-----------------------------------------------------------------------------
\* The type invariant of the key, the refreshes and the calls.
TypeOK ==
  /\ bytes \in Writers \cup {None}
  /\ kid \in Writers \cup {None}
  /\ authorized \in BOOLEAN
  /\ age \in Ages
  /\ source \in Refreshes \cup {None}
  /\ completed \subseteq Refreshes \cup {None}
  /\ writer \in [Writers -> {"idle", "try", "giveUp", "expire", "unauthorize", "bytes", "kid",
                             "updateAt", "authorize", "complete", "finish", "done"}]
  /\ tries \in [Refreshes -> 0..MaxTries]
  /\ caller \in [Callers -> {"idle", "update", "check", "await", "result", "sign", "returned",
                             "refused", "null"}]
  /\ update \in [Callers -> Refreshes \cup {None}]
  /\ mixed \in BOOLEAN
  /\ halfway \in BOOLEAN

\* A call that finds the key available never finds it or its id missing, though it looks at
\* three fields that are written one by one.
NeverNull == \A c \in Callers : caller[c] # "null"

\* Unless a key was written between another and its id, the key and its id belong together
\* whenever neither is being written.
PairMatches == ~mixed /\ (\A w \in Writers : writer[w] # "kid") => bytes = kid

Underway(r) == writer[r] \notin {"idle", "finish", "done"}

\* Calls share a refresh: only that of the current task source is under way, until a delivery
\* completes the task source before the refresh is over.
SingleFlight ==
  (\A d \in Deliveries : writer[d] # "done") => \A r \in Refreshes : Underway(r) => r = source

\* A call that was not canceled is refused for lack of authorization only after a refresh
\* has failed for good, or because it met the two halves of Available out of step.
RefusedHasReason ==
  ~halfway /\ (\E c \in Callers : caller[c] = "refused") => \E r \in Refreshes : tries[r] = MaxTries

\* No call waits in vain: the task source it waits for is completed or belongs to a refresh
\* that is still under way, also if deliveries and later refreshes have come in between.
NoneStranded ==
  \A c \in Callers : update[c] \in completed \/ writer[update[c]] \notin {"idle", "done"}
=============================================================================
