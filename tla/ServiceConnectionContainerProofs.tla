------------------ MODULE ServiceConnectionContainerProofs ------------------
(***************************************************************************)
(* The safety properties of ServiceConnectionContainer for any number of   *)
(* fixed and of on-demand connections.                                     *)
(***************************************************************************)
EXTENDS ServiceConnectionContainer, TLAPS

Distinct(s) == \A i, j \in DOMAIN s : s[i] = s[j] => i = j

\* The place First finds in a sequence without repetitions is the only one.
LEMMA FirstOfDistinct ==
  ASSUME NEW S, NEW s \in Seq(S), Distinct(s), NEW k \in 1..Len(s)
  PROVE  First(s, s[k]) = k
<1>1. k \in DOMAIN s /\ \A j \in 1..(k - 1) : s[j] # s[k]
  BY DEF Distinct
<1>2. \E i \in DOMAIN s : s[i] = s[k] /\ \A j \in 1..(i - 1) : s[j] # s[k]
  BY <1>1
<1>3. First(s, s[k]) \in DOMAIN s /\ s[First(s, s[k])] = s[k]
  BY <1>2 DEF First
<1> QED
  BY <1>1, <1>3 DEF Distinct

\* What is left after List.Remove of element k: k is skipped, the rest moves up.
LEMMA WithoutElement ==
  ASSUME NEW S, NEW s \in Seq(S), Distinct(s), NEW k \in 1..Len(s)
  PROVE  /\ Without(s, s[k]) \in Seq(S)
         /\ Len(Without(s, s[k])) = Len(s) - 1
         /\ \A i \in 1..(Len(s) - 1) : Without(s, s[k])[i] = s[IF i < k THEN i ELSE i + 1]
<1> DEFINE t == [i \in 1..(Len(s) - 1) |-> s[IF i < k THEN i ELSE i + 1]]
<1>1. Without(s, s[k]) = t
  <2>1. s[k] \in Elements(s)
    BY DEF Elements
  <2> QED
    BY <2>1, FirstOfDistinct DEF Without
<1>2. Len(s) - 1 \in Nat /\ \A i \in 1..(Len(s) - 1) : s[IF i < k THEN i ELSE i + 1] \in S
  OBVIOUS
<1>3. t \in Seq(S) /\ Len(t) = Len(s) - 1
  BY <1>2
<1> QED
  BY <1>1, <1>3

\* List.Remove of anything leaves a list.
LEMMA WithoutSeq ==
  ASSUME NEW S, NEW s \in Seq(S), NEW c
  PROVE  Without(s, c) \in Seq(S)
<1>1. CASE c \notin Elements(s)
  BY <1>1 DEF Without
<1>2. CASE c \in Elements(s)
  <2> DEFINE t == [i \in 1..(Len(s) - 1) |-> s[IF i < First(s, c) THEN i ELSE i + 1]]
  <2>1. Len(s) - 1 \in Nat
    BY <1>2 DEF Elements
  <2>2. \A i \in 1..(Len(s) - 1) : s[IF i < First(s, c) THEN i ELSE i + 1] \in S
    OBVIOUS
  <2>3. t \in Seq(S)
    BY <2>1, <2>2
  <2> QED
    BY <1>2, <2>3 DEF Without
<1> QED
  BY <1>1, <1>2

-----------------------------------------------------------------------------
\* A new connection is a fixed one until AddOnDemand makes it an on-demand one.
Fresh == \A c \in Conns : run[c] = "unused" => type[c] = "Default"

\* The inductive invariant.
Inv == TypeOK /\ SlotsKept /\ NoStray /\ Fresh

\* A connection that was started is at the one place where IndexOf finds it.
LEMMA Listed ==
  ASSUME TypeOK, NoStray, NEW c \in Conns, run[c] # "unused"
  PROVE  IndexOf(c) \in 1..Len(list) /\ list[IndexOf(c)] = c
<1>1. PICK k \in 1..Len(list) : list[k] = c
  BY DEF TypeOK, NoStray, Elements
<1>2. Distinct(list)
  BY DEF NoStray, Distinct
<1> QED
  BY <1>1, <1>2, FirstOfDistinct DEF TypeOK, IndexOf

\* A step that keeps the list, the types, what is in use and who waits to restart where
\* keeps the invariant if it keeps the types of the variables.
LEMMA Unmoved ==
  ASSUME Inv, TypeOK', list' = list, type' = type, slot' = slot,
         \A c \in Conns : /\ (run'[c] = "unused" <=> run[c] = "unused")
                          /\ (run'[c] = "backoff" => run[c] = "backoff")
  PROVE  Inv'
  BY DEF Inv, SlotsKept, NoStray, Fresh, Elements

\* The connections the constructor makes satisfy the invariant.
LEMMA InitInv == Init => Inv
<1> SUFFICES ASSUME Init PROVE Inv
  OBVIOUS
<1>1. PICK s \in [1..Fixed -> Conns] :
         /\ \A i, j \in 1..Fixed : s[i] = s[j] => i = j
         /\ list = s
         /\ run = [c \in Conns |-> IF c \in Elements(s) THEN "created" ELSE "unused"]
  BY DEF Init
<1>2. list \in Seq(Conns) /\ Len(list) = Fixed /\ DOMAIN list = 1..Fixed
  BY <1>1, ContainerAssumption
<1>3. <<>> \in Seq(Conns)
  OBVIOUS
<1>4. TypeOK
  BY <1>1, <1>2, <1>3 DEF Init, TypeOK
<1>5. SlotsKept
  BY <1>1, <1>2, ContainerAssumption DEF Init, SlotsKept
<1>6. NoStray
  BY <1>1, <1>2 DEF NoStray
<1>7. Fresh
  BY DEF Init, Fresh
<1> QED
  BY <1>4, <1>5, <1>6, <1>7 DEF Inv

\* Forget keeps the types, whatever is forgotten.
LEMMA ForgetTypes ==
  ASSUME TypeOK, NEW c \in Conns, Forget(c)
  PROVE  /\ type' \in [Conns -> {"Default", "OnDemand"}]
         /\ status' \in [Conns -> {"Inited", "Connecting", "Connected", "Disconnected"}]
         /\ established' \subseteq Conns
         /\ slot' \in [Conns -> Nat]
         /\ stopping' \subseteq Conns
         /\ missed' \subseteq Conns
         /\ toStop' \in Seq(Conns)
<1>1. toStop' \in Seq(Conns)
  BY WithoutSeq DEF TypeOK, Forget
<1> QED
  BY <1>1 DEF TypeOK, Forget

\* RemoveOnDemandConnection takes an element after the fixed positions out.
LEMMA CompleteOnDemandStep ==
  ASSUME Inv, NEW c \in Conns, CompleteOnDemand(c)
  PROVE  Inv'
<1> DEFINE k == IndexOf(c)
<1>1. k \in 1..Len(list) /\ list[k] = c /\ k > Fixed
  BY Listed DEF Inv, CompleteOnDemand, At
<1>2. list \in Seq(Conns) /\ Distinct(list)
  BY DEF Inv, TypeOK, NoStray, Distinct
<1>3. /\ list' \in Seq(Conns)
      /\ Len(list') = Len(list) - 1
      /\ \A i \in 1..(Len(list) - 1) : list'[i] = list[IF i < k THEN i ELSE i + 1]
  <2> HIDE DEF k
  <2>1. list' = Without(list, list[k])
    BY <1>1 DEF CompleteOnDemand
  <2> QED
    BY <1>1, <1>2, <2>1, WithoutElement
<1> HIDE DEF k
<1>4. Forget(c) /\ run' = [run EXCEPT ![c] = "unused"] /\ run[c] = "ended"
  BY DEF CompleteOnDemand, At
<1>5. TypeOK'
  BY <1>3, <1>4, ForgetTypes DEF Inv, TypeOK, CompleteOnDemand, containerVars
<1>6. /\ \A d \in Conns \ {c} : type'[d] = type[d] /\ slot'[d] = slot[d] /\ run'[d] = run[d]
      /\ type'[c] = "Default" /\ run'[c] = "unused"
  BY <1>4 DEF Inv, TypeOK, Forget
<1>7. \A i \in 1..(Len(list) - 1) : list'[i] \in Conns \ {c}
  BY <1>1, <1>2, <1>3 DEF Distinct
<1>8. SlotsKept'
  <2>1. Len(list') >= Fixed
    BY <1>1, <1>3, ContainerAssumption
  <2>2. ASSUME NEW i \in DOMAIN list'
        PROVE  type'[list'[i]] = IF i <= Fixed THEN "Default" ELSE "OnDemand"
    <3>1. i \in 1..(Len(list) - 1)
      BY <1>3
    <3>2. list'[i] = list[IF i < k THEN i ELSE i + 1] /\ type'[list'[i]] = type[list'[i]]
      BY <1>3, <1>6, <1>7, <3>1
    <3>3. \A j \in 1..Len(list) : type[list[j]] = IF j <= Fixed THEN "Default" ELSE "OnDemand"
      BY <1>2 DEF Inv, SlotsKept
    <3>4. CASE i < k
      BY <3>1, <3>2, <3>3, <3>4
    <3>5. CASE i >= k
      BY <1>1, <3>1, <3>2, <3>3, <3>5, ContainerAssumption
    <3> QED
      BY <1>1, <3>1, <3>4, <3>5
  <2>3. ASSUME NEW d \in Conns, run'[d] = "backoff"
        PROVE  slot'[d] \in 1..Fixed /\ list'[slot'[d]] = d
    <3>1. d # c /\ slot'[d] = slot[d] /\ slot[d] \in 1..Fixed /\ list[slot[d]] = d
      BY <1>6, <2>3 DEF Inv, SlotsKept
    <3>2. slot[d] < k /\ slot[d] \in 1..(Len(list) - 1)
      BY <1>1, <3>1, ContainerAssumption
    <3> QED
      BY <1>3, <3>1, <3>2
  <2> QED
    BY <2>1, <2>2, <2>3 DEF SlotsKept
<1>9. NoStray'
  <2>1. ASSUME NEW i \in DOMAIN list', NEW j \in DOMAIN list', list'[i] = list'[j]
        PROVE  i = j
    <3>1. i \in 1..(Len(list) - 1) /\ j \in 1..(Len(list) - 1)
      BY <1>3
    <3> DEFINE oi == IF i < k THEN i ELSE i + 1
               oj == IF j < k THEN j ELSE j + 1
    <3>2. oi \in 1..Len(list) /\ oj \in 1..Len(list)
      BY <1>1, <3>1
    <3>3. list[oi] = list[oj]
      BY <1>3, <2>1, <3>1
    <3>4. \A m, n \in 1..Len(list) : list[m] = list[n] => m = n
      BY <1>2 DEF Distinct
    <3>5. oi = oj
      <4> HIDE DEF oi, oj
      <4> QED
        BY <3>2, <3>3, <3>4
    <3> QED
      BY <1>1, <3>1, <3>5
  <2>2. ASSUME NEW d \in Conns, run'[d] # "unused"
        PROVE  d \in Elements(list')
    <3>1. d # c /\ d \in Elements(list)
      BY <1>6, <2>2 DEF Inv, NoStray
    <3>2. PICK j \in 1..Len(list) : list[j] = d
      BY <1>2, <3>1 DEF Elements
    <3>3. j # k
      BY <1>1, <3>1, <3>2
    <3>4. CASE j < k
      <4>1. j \in 1..(Len(list) - 1) /\ list'[j] = d
        BY <1>1, <1>3, <3>2, <3>4
      <4> QED
        BY <1>3, <4>1 DEF Elements
    <3>5. CASE j > k
      <4>1. j - 1 \in 1..(Len(list) - 1) /\ list'[j - 1] = d
        BY <1>1, <1>3, <3>2, <3>5
      <4> QED
        BY <1>3, <4>1 DEF Elements
    <3> QED
      BY <1>1, <3>3, <3>4, <3>5
  <2>3. ASSUME NEW d \in Conns, d \in Elements(list')
        PROVE  run'[d] # "unused"
    <3>1. PICK i \in 1..(Len(list) - 1) : list'[i] = d
      BY <1>3, <2>3 DEF Elements
    <3>2. d # c
      BY <1>7, <3>1
    <3>3. PICK j \in 1..Len(list) : list[j] = d
      <4>1. CASE i < k
        BY <1>1, <1>3, <3>1, <4>1
      <4>2. CASE ~(i < k)
        BY <1>1, <1>3, <3>1, <4>2
      <4> QED
        BY <4>1, <4>2
    <3>4. d \in Elements(list)
      BY <1>2, <3>3 DEF Elements
    <3> QED
      BY <1>6, <3>2, <3>4 DEF Inv, NoStray
  <2> QED
    BY <2>1, <2>2, <2>3 DEF NoStray
<1>10. Fresh'
  BY <1>6 DEF Inv, Fresh
<1> QED
  BY <1>5, <1>8, <1>9, <1>10 DEF Inv

\* A lost fixed connection starts to wait for its turn, and remembers where it was.
LEMMA CompleteFixedStep ==
  ASSUME Inv, NEW c \in Conns, CompleteFixed(c)
  PROVE  Inv'
<1>1. IndexOf(c) \in 1..Len(list) /\ list[IndexOf(c)] = c /\ IndexOf(c) \in 1..Fixed
  BY Listed, ContainerAssumption DEF Inv, CompleteFixed, At
<1>2. TypeOK'
  BY <1>1, ContainerAssumption DEF Inv, TypeOK, CompleteFixed, At, containerVars, stopVars
<1>3. SlotsKept'
  BY <1>1 DEF Inv, TypeOK, SlotsKept, CompleteFixed, At
<1>4. NoStray' /\ Fresh'
  BY DEF Inv, TypeOK, NoStray, Fresh, CompleteFixed, At, Elements
<1> QED
  BY <1>2, <1>3, <1>4 DEF Inv

\* tryNewConnection puts a new connection where the lost one still is.
LEMMA TryNewConnectionStep ==
  ASSUME Inv, NEW c \in Conns, NEW new \in Conns, TryNewConnection(c, new)
  PROVE  Inv'
<1>1. /\ run[c] = "backoff" /\ run[new] = "unused" /\ c # new
      /\ slot[c] \in 1..Fixed /\ slot[c] \in 1..Len(list) /\ list[slot[c]] = c
  BY ContainerAssumption DEF Inv, TypeOK, SlotsKept, TryNewConnection
<1>2. list \in Seq(Conns) /\ Distinct(list)
  BY DEF Inv, TypeOK, NoStray, Distinct
<1>3. /\ list' \in Seq(Conns) /\ Len(list') = Len(list) /\ DOMAIN list' = DOMAIN list
      /\ list'[slot[c]] = new
      /\ \A i \in 1..Len(list) : i # slot[c] => list'[i] = list[i]
  BY <1>1, <1>2 DEF TryNewConnection
<1>4. TypeOK'
  BY <1>3, ForgetTypes DEF Inv, TypeOK, TryNewConnection, containerVars
<1>5. /\ \A d \in Conns \ {c} : type'[d] = type[d] /\ slot'[d] = slot[d]
      /\ \A d \in Conns \ {c, new} : run'[d] = run[d]
      /\ type'[c] = "Default" /\ run'[c] = "unused" /\ run'[new] = "created" /\ type[new] = "Default"
  BY <1>1 DEF Inv, TypeOK, Fresh, TryNewConnection, Forget
<1>6. \A i \in 1..Len(list) : list[i] # new /\ (i # slot[c] => list[i] \in Conns \ {c})
  <2>1. new \notin Elements(list)
    BY <1>1 DEF Inv, NoStray
  <2> QED
    BY <1>1, <1>2, <2>1 DEF Distinct, Elements
<1>7. SlotsKept'
  <2>1. Len(list') >= Fixed
    BY <1>3 DEF Inv, SlotsKept
  <2>2. \A i \in DOMAIN list' : type'[list'[i]] = IF i <= Fixed THEN "Default" ELSE "OnDemand"
    BY <1>1, <1>2, <1>3, <1>5, <1>6 DEF Inv, SlotsKept
  <2>3. ASSUME NEW d \in Conns, run'[d] = "backoff"
        PROVE  slot'[d] \in 1..Fixed /\ list'[slot'[d]] = d
    <3>1. d \in Conns \ {c, new} /\ run[d] = "backoff" /\ slot'[d] = slot[d]
      BY <1>5, <2>3
    <3>2. slot[d] \in 1..Fixed /\ list[slot[d]] = d /\ slot[d] # slot[c]
      BY <1>1, <3>1 DEF Inv, SlotsKept
    <3>3. slot[d] \in 1..Len(list)
      BY <1>2, <3>2, ContainerAssumption DEF Inv, SlotsKept
    <3> QED
      BY <1>3, <3>1, <3>2, <3>3
  <2> QED
    BY <2>1, <2>2, <2>3 DEF SlotsKept
<1>8. NoStray'
  <2>1. \A i, j \in DOMAIN list' : list'[i] = list'[j] => i = j
    BY <1>1, <1>2, <1>3, <1>6 DEF Distinct
  <2>2. Elements(list') = (Elements(list) \ {c}) \cup {new}
    BY <1>1, <1>2, <1>3, <1>6 DEF Elements
  <2> QED
    BY <1>1, <1>5, <2>1, <2>2 DEF Inv, NoStray
<1>9. Fresh'
  BY <1>1, <1>5 DEF Inv, Fresh
<1> QED
  BY <1>4, <1>7, <1>8, <1>9 DEF Inv

\* AddOnDemandConnection appends, after the fixed positions.
LEMMA AddOnDemandStep ==
  ASSUME Inv, NEW c \in Conns, NEW new \in Conns, AddOnDemand(c, new)
  PROVE  Inv'
<1>1. /\ run[c] = "rebalancing" /\ run[new] = "unused" /\ c # new
      /\ list' = Append(list, new) /\ list \in Seq(Conns) /\ Len(list) >= Fixed
  BY DEF Inv, TypeOK, SlotsKept, AddOnDemand
<1>2. /\ list' \in Seq(Conns) /\ Len(list') = Len(list) + 1 /\ DOMAIN list' = 1..(Len(list) + 1)
      /\ list'[Len(list) + 1] = new
      /\ \A i \in 1..Len(list) : list'[i] = list[i]
  BY <1>1
<1>3. AfterEvent(c) \in {"running", "draining", "ended"}
  BY DEF AfterEvent
<1>4. TypeOK'
  BY <1>2, <1>3 DEF Inv, TypeOK, AddOnDemand, containerVars, stopVars
<1>5. /\ \A d \in Conns \ {new} : type'[d] = type[d] /\ (run'[d] = "unused" <=> run[d] = "unused")
      /\ \A d \in Conns : run'[d] = "backoff" => run[d] = "backoff" /\ d # new
      /\ type'[new] = "OnDemand" /\ run'[new] = "created" /\ slot' = slot
  BY <1>1, <1>3 DEF Inv, TypeOK, AddOnDemand
<1>6. \A i \in 1..Len(list) : list[i] \in Conns \ {new}
  <2>1. new \notin Elements(list)
    BY <1>1 DEF Inv, NoStray
  <2> QED
    BY <1>1, <2>1 DEF Elements
<1>7. SlotsKept'
  <2>1. Len(list') >= Fixed
    BY <1>1, <1>2, ContainerAssumption
  <2>2. ASSUME NEW i \in DOMAIN list'
        PROVE  type'[list'[i]] = IF i <= Fixed THEN "Default" ELSE "OnDemand"
    <3>1. CASE i = Len(list) + 1
      BY <1>1, <1>2, <1>5, <3>1, ContainerAssumption
    <3>2. CASE i \in 1..Len(list)
      BY <1>1, <1>2, <1>5, <1>6, <3>2 DEF Inv, SlotsKept
    <3> QED
      BY <1>1, <1>2, <3>1, <3>2
  <2>3. \A d \in Conns : run'[d] = "backoff" => slot'[d] \in 1..Fixed /\ list'[slot'[d]] = d
    BY <1>1, <1>2, <1>5, ContainerAssumption DEF Inv, SlotsKept
  <2> QED
    BY <2>1, <2>2, <2>3 DEF SlotsKept
<1>8. NoStray'
  <2>1. ASSUME NEW i \in DOMAIN list', NEW j \in DOMAIN list', list'[i] = list'[j]
        PROVE  i = j
    BY <1>1, <1>2, <1>6, <2>1 DEF Inv, NoStray
  <2>2. Elements(list') = Elements(list) \cup {new}
    BY <1>1, <1>2 DEF Elements
  <2> QED
    BY <1>1, <1>5, <2>1, <2>2 DEF Inv, NoStray
<1>9. Fresh'
  BY <1>5 DEF Inv, Fresh
<1> QED
  BY <1>4, <1>7, <1>8, <1>9 DEF Inv

\* Every step of every connection, of StopAsync and of OfflineAsync keeps the invariant.
LEMMA NextInv == Inv /\ [Next]_vars => Inv'
<1> SUFFICES ASSUME Inv, [Next]_vars PROVE Inv'
  OBVIOUS
<1>1. ASSUME NEW c \in Conns, OnConnectionComplete(c) PROVE Inv'
  BY <1>1, CompleteFixedStep, CompleteOnDemandStep DEF OnConnectionComplete
<1>2. ASSUME NEW c \in Conns, NEW new \in Conns, TryNewConnection(c, new) PROVE Inv'
  BY <1>2, TryNewConnectionStep
<1>3. ASSUME NEW c \in Conns, NEW new \in Conns, AddOnDemand(c, new) PROVE Inv'
  BY <1>3, AddOnDemandStep
<1>4. ASSUME NEW c \in Conns, StartCore(c) \/ Connect(c) PROVE Inv'
  <2>1. TypeOK'
    BY <1>4 DEF Inv, TypeOK, StartCore, Connect, At, containerVars, stopVars
  <2> QED
    BY <1>4, <2>1, Unmoved DEF Inv, TypeOK, StartCore, Connect, At
<1>5. ASSUME NEW c \in Conns, NEW new \in {"Connected", "Disconnected"}, ConnectResult(c, new) PROVE Inv'
  <2>1. TypeOK'
    BY <1>5 DEF Inv, TypeOK, ConnectResult, At, containerVars, stopVars
  <2> QED
    BY <1>5, <2>1, Unmoved DEF Inv, TypeOK, ConnectResult, At
<1>6. ASSUME NEW c \in Conns, StatusChanged(c) PROVE Inv'
  <2>1. AfterEvent(c) \in {"running", "draining", "ended"}
    BY DEF AfterEvent
  <2>2. TypeOK'
    BY <1>6, <2>1 DEF Inv, TypeOK, StatusChanged, At, containerVars, stopVars
  <2> QED
    BY <1>6, <2>1, <2>2, Unmoved DEF Inv, TypeOK, StatusChanged, At
<1>7. ASSUME NEW c \in Conns, SetStatus(c) PROVE Inv'
  <2>1. AfterEvent(c) \in {"running", "draining", "ended"}
    BY DEF AfterEvent
  <2>2. online' \in BOOLEAN
    BY <1>7, Zenon DEF Inv, TypeOK, SetStatus
  <2>3. TypeOK'
    BY <1>7, <2>1, <2>2 DEF Inv, TypeOK, SetStatus, At, stopVars
  <2> QED
    BY <1>7, <2>1, <2>3, Unmoved DEF Inv, TypeOK, SetStatus, At
<1>8. ASSUME NEW c \in Conns, ComputeStatus(c) PROVE Inv'
  <2>1. GetStatus \in {"Connected", "Disconnected"}
    BY DEF GetStatus
  <2>2. TypeOK'
    BY <1>8, <2>1 DEF Inv, TypeOK, ComputeStatus, At, containerVars, stopVars
  <2> QED
    BY <1>8, <2>2, Unmoved DEF Inv, TypeOK, ComputeStatus, At
<1>9. ASSUME NEW c \in Conns, Drop(c) \/ End(c) \/ Rebalance(c) PROVE Inv'
  <2>1. TypeOK'
    BY <1>9 DEF Inv, TypeOK, Drop, End, Rebalance, At, containerVars, stopVars
  <2>2. \A d \in Conns : /\ (run'[d] = "unused" <=> run[d] = "unused")
                         /\ (run'[d] = "backoff" => run[d] = "backoff")
    BY <1>9 DEF Inv, TypeOK, Drop, End, Rebalance, At
  <2> QED
    BY <1>9, <2>1, <2>2, Unmoved DEF Drop, End, Rebalance
<1>10. ASSUME StopAsync \/ StopConnections \/ OfflineAsync PROVE Inv'
  <2>1. TypeOK'
    BY <1>10 DEF Inv, TypeOK, StopAsync, StopConnections, OfflineAsync, containerVars, stopVars
  <2> QED
    BY <1>10, <2>1, Unmoved DEF StopAsync, StopConnections, OfflineAsync
<1>11. ASSUME StopConnection PROVE Inv'
  <2>1. toStop \in Seq(Conns) /\ toStop # <<>>
    BY <1>11 DEF Inv, TypeOK, StopConnection
  <2>2. Tail(toStop) \in Seq(Conns) /\ Head(toStop) \in Conns
    BY <2>1
  <2>3. TypeOK'
    BY <1>11, <2>2 DEF Inv, TypeOK, StopConnection, containerVars
  <2> QED
    BY <1>11, <2>3, Unmoved DEF StopConnection
<1>12. ASSUME UNCHANGED vars PROVE Inv'
  BY <1>12 DEF vars, Inv, TypeOK, SlotsKept, NoStray, Fresh, Elements
<1> QED
  BY <1>1, <1>2, <1>3, <1>4, <1>5, <1>6, <1>7, <1>8, <1>9, <1>10, <1>11, <1>12
     DEF Next, ConnStep

\* Every state is well typed and satisfies the inductive invariant.
THEOREM Invariance == Spec => []Inv
  BY InitInv, NextInv, PTL DEF Spec

\* However connections are lost, restarted after a delay, added and removed, the fixed
\* positions keep fixed connections and a remembered index is still right (the asserts of
\* AddOnDemandConnection and RemoveOnDemandConnection).
THEOREM PositionsKept == Spec => []SlotsKept
<1>1. Inv => SlotsKept
  BY DEF Inv
<1> QED
  BY <1>1, Invariance, PTL

\* No connection that was made and not yet removed is missing in ServiceConnections, and
\* none is there twice.
THEOREM NoneEscapes == Spec => []NoStray
<1>1. Inv => NoStray
  BY DEF Inv
<1> QED
  BY <1>1, Invariance, PTL
=============================================================================
