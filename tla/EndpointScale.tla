---------------------------- MODULE EndpointScale ----------------------------
(***************************************************************************)
(* Endpoints that are added, removed and renamed while the server runs:    *)
(* ReloadServiceEndpointsAsync of ServiceEndpointManagerBase.cs, started   *)
(* by every change of the options and awaited by nobody, and the part of   *)
(* MultiEndpointServiceConnectionContainer.cs that starts and stops the    *)
(* container of an endpoint and keeps the list used for routing.  One hub. *)
(* An endpoint has an address, by which the weak comparer knows it, and a  *)
(* name: all else that Equals looks at.  A new address takes a container   *)
(* and time; a new name for an address is an instant change.               *)
(***************************************************************************)
EXTENDS Naturals, Sequences, FiniteSets, SequencesExt

CONSTANTS
  Addrs,       \* addresses of endpoints
  Names,       \* names of endpoints
  Configs,     \* the configurations: an address has a name or is not configured
  Initial,     \* those to begin with
  MaxReloads   \* bound on the changes of the options

Reloads == 1..MaxReloads
None == "none"       \* the name of what is not configured, or does not exist
NoContainer == <<>>  \* ConnectionContainer is null

\* The HubServiceEndpoints made by each reload, and by the constructor (0).  A container is
\* called after the HubServiceEndpoint it was generated for.
Objects == (0..MaxReloads) \X Addrs
Addr(o) == o[2]

Configured(c) == {a \in Addrs : c[a] # None}

ASSUME ScaleAssumption ==
  /\ MaxReloads \in Nat
  /\ IsFiniteSet(Addrs)
  /\ \A c \in Configs : c \in [Addrs -> Names \cup {None}] /\ Configured(c) # {}
  /\ Initial \subseteq Configs

VARIABLES
  config,     \* Endpoints: the name of each configured address
  name,       \* the name of each HubServiceEndpoint
  cont,       \* its ConnectionContainer
  scaled,     \* its ScaleTask is completed
  hub,        \* the list of _endpointsPerHub, from which clients are negotiated
  router,     \* _routerEndpoints
  running,    \* the containers that were started and not stopped
  ping,       \* the counter of the servers ping of each container
  adding,     \* where AddServiceEndpointsAsync of each reload is
  deleting,   \* where RemoveServiceEndpointsAsync of each reload is
  removed,    \* removedEndpoints: address, name, and PendingReload
  gone,       \* the HubServiceEndpoints found for them
  current,    \* the updates of the list, by reload, that have read what is still there
  adder,      \* where AddHubServiceEndpointAsync of the container is, for each object
  remover,    \* where RemoveHubServiceEndpointAsync of the container is
  target,     \* the container it stops
  expired,    \* the reloads whose scaleTimeout for the additions has passed
  kept,       \* the addresses configured all the time (history)
  overlap,    \* a change of the options came before an earlier one was over (history)
  lost        \* a TryUpdate has failed (history)

vars == <<config, name, cont, scaled, hub, router, running, ping, adding, deleting, removed,
          gone, current, adder, remover, target, expired, kept, overlap, lost>>

fixed == <<config, name, cont, kept, overlap>>  \* changed only when a reload begins

Init ==
  /\ config \in Initial
  /\ name = [o \in Objects |-> IF o[1] = 0 THEN config[Addr(o)] ELSE None]
  /\ running = {o \in Objects : name[o] # None}
  /\ hub = SetToSeq(running)
  /\ router = hub
  /\ cont = [o \in Objects |-> IF o \in running THEN o ELSE NoContainer]
  /\ scaled = [o \in Objects |-> TRUE]
  /\ ping = [o \in Objects |-> 0]
  /\ adding = [r \in Reloads |-> "idle"]
  /\ deleting = [r \in Reloads |-> "idle"]
  /\ removed = [r \in Reloads |-> {}]
  /\ gone = [r \in Reloads |-> {}]
  /\ current = {}
  /\ adder = [o \in Objects |-> "idle"]
  /\ remover = [o \in Objects |-> "idle"]
  /\ target = [o \in Objects |-> NoContainer]
  /\ kept = Configured(config)
  /\ expired = {}
  /\ overlap = FALSE
  /\ lost = FALSE

\* FirstOrDefault by address.
At(list, a) == SelectSeq(list, LAMBDA o : Addr(o) = a)

\* What is left of a list without the objects that are Equal to one of those given.
Without(list, os) ==
  SelectSeq(list, LAMBDA p : ~ \E o \in os : Addr(o) = Addr(p) /\ name[o] = name[p])

Made(r) == {o \in Objects : o[1] = r /\ name[o] # None}

Ended == {"idle", "done"}
Busy ==
  \/ \E r \in Reloads : adding[r] \notin Ended \/ deleting[r] \notin Ended
  \/ \E o \in Objects : adder[o] \notin Ended \/ remover[o] \notin Ended

-----------------------------------------------------------------------------
(* ReloadServiceEndpointsAsync.                                            *)

\* UpdateEndpoints, CreateHubServiceEndpoints for what was added, and OnAdd for each: a
\* renamed one is routed to at once, with the container of its predecessor in the list of
\* the hub; for a new one a container is generated and started.
ReloadBegin(r, new) ==
  LET added == {a \in Configured(new) : new[a] # config[a]}
      dropped == {a \in Configured(config) : new[a] # config[a]}
      renamed == {<<r, a>> : a \in added \cap dropped}
      fresh == {<<r, a>> : a \in added \ dropped}
  IN /\ adding[r] = "idle"
     /\ \A q \in 1..(r - 1) : adding[q] # "idle"
     /\ new # config
     /\ adding' = [adding EXCEPT ![r] = IF added = {} THEN "done" ELSE "wait"]
     /\ deleting' = [deleting EXCEPT ![r] = IF dropped = {} THEN "idle" ELSE "begin"]
     /\ config' = new
     /\ name' = [o \in Objects |-> IF o \in renamed \cup fresh THEN new[Addr(o)] ELSE name[o]]
     /\ cont' = [o \in Objects |->
          IF o \in fresh THEN o
          ELSE IF o \in renamed /\ At(hub, Addr(o)) # <<>> THEN cont[At(hub, Addr(o))[1]]
          ELSE cont[o]]
     /\ scaled' = [o \in Objects |-> scaled[o] /\ o \notin fresh]
     /\ router' = router \o SetToSeq(renamed)
     /\ running' = running \cup fresh
     /\ adder' = [o \in Objects |-> IF o \in fresh THEN "init" ELSE adder[o]]
     /\ removed' = [removed EXCEPT ![r] = {<<a, config[a], a \notin added>> : a \in dropped}]
     /\ kept' = kept \cap Configured(new)
     /\ overlap' = (overlap \/ Busy)
     /\ UNCHANGED <<hub, ping, current, remover, target, gone, expired, lost>>

\* scaleTimeout passes before all of them are ready.
AddTimeout(r) ==
  /\ adding[r] = "wait"
  /\ r \notin expired
  /\ \E o \in Made(r) : ~scaled[o]
  /\ expired' = expired \cup {r}
  /\ UNCHANGED <<fixed, removed, scaled, hub, router, running, ping, adding, deleting, gone, current,
                 adder, remover, target, lost>>

\* Mutant: nothing is waited for.
AddReadAtOnce(r) ==
  /\ adding[r] = "wait"
  /\ adding' = [adding EXCEPT ![r] = "store"]
  /\ scaled' = [o \in Objects |-> scaled[o] \/ o \in Made(r)]
  /\ current' = current \cup {<<"add", r>>}
  /\ UNCHANGED <<fixed, removed, hub, router, running, ping, deleting, gone, adder, remover, target,
                 expired, lost>>

\* Mutant: there is no time-out.
AddReadPatient(r) ==
  /\ adding[r] = "wait"
  /\ \A o \in Made(r) : scaled[o]
  /\ adding' = [adding EXCEPT ![r] = "store"]
  /\ scaled' = [o \in Objects |-> scaled[o] \/ o \in Made(r)]
  /\ current' = current \cup {<<"add", r>>}
  /\ UNCHANGED <<fixed, removed, hub, router, running, ping, deleting, gone, adder, remover, target,
                 expired, lost>>

\* All are ready, or time is over: CompleteScale, and AddEndpointsToNegotiationStore reads
\* the list ...
AddRead(r) ==
  /\ adding[r] = "wait"
  /\ r \in expired \/ \A o \in Made(r) : scaled[o]
  /\ adding' = [adding EXCEPT ![r] = "store"]
  /\ scaled' = [o \in Objects |-> scaled[o] \/ o \in Made(r)]
  /\ current' = current \cup {<<"add", r>>}
  /\ UNCHANGED <<fixed, removed, hub, router, running, ping, deleting, gone, adder, remover, target,
                 expired, lost>>

\* TryUpdate fails, and is not repeated, if the list is not the one that was read.
TryUpdate(update, list) ==
  /\ lost' = (lost \/ update \notin current)
  /\ IF update \notin current THEN UNCHANGED <<hub, current>> ELSE hub' = list /\ current' = {}

\* Mutant: only what has a new container is added to the list.
AddStoreFresh(r) ==
  /\ adding[r] = "store"
  /\ adding' = [adding EXCEPT ![r] = "done"]
  /\ TryUpdate(<<"add", r>>, hub \o SetToSeq({o \in Made(r) : cont[o] = o}))
  /\ UNCHANGED <<fixed, removed, scaled, router, running, ping, deleting, gone, adder, remover, target,
                 expired>>

\* ... and replaces it.
AddStore(r) ==
  /\ adding[r] = "store"
  /\ adding' = [adding EXCEPT ![r] = "done"]
  /\ TryUpdate(<<"add", r>>, hub \o SetToSeq(Made(r)))
  /\ UNCHANGED <<fixed, removed, scaled, router, running, ping, deleting, gone, adder, remover, target,
                 expired>>

\* Mutant: what is removed is found by its address.
RemovedByAddress(r, o) == o \in ToSet(hub) /\ \E e \in removed[r] : e[1] = Addr(o)

\* An entry of the list is Equal to an endpoint to be removed.
Removed(r, o) == o \in ToSet(hub) /\ \E e \in removed[r] : e[1] = Addr(o) /\ e[2] = name[o]

\* The additions are over or, when time is over, perhaps not quite:
\* UpdateAndGetRemovedHubServiceEndpoints reads the list, with ResetScale for every entry
\* whose removal takes time ...
RemoveRead(r) ==
  /\ deleting[r] = "begin"
  /\ adding[r] = "done" \/ r \in expired
  /\ deleting' = [deleting EXCEPT ![r] = "store"]
  /\ gone' = [gone EXCEPT ![r] = {o \in Objects : Removed(r, o)}]
  /\ scaled' = [o \in Objects |->
       scaled[o] /\ ~(o \in gone'[r] /\ <<Addr(o), name[o], TRUE>> \in removed[r])]
  /\ current' = current \cup {<<"remove", r>>}
  /\ UNCHANGED <<fixed, removed, hub, router, running, ping, adding, adder, remover, target, expired, lost>>

\* ... and replaces it; OnRemove: what is scaled is taken out of the routing at once, and
\* the first container routed to at the address of any other is told to go offline.
RemoveStore(r) ==
  LET slow == {o \in gone[r] : ~scaled[o]}
      found == {o \in slow : LET there == At(router, Addr(o))
                             IN there # <<>> /\ cont[there[1]] # NoContainer}
  IN /\ deleting[r] = "store"
     /\ deleting' = [deleting EXCEPT ![r] = "wait"]
     /\ TryUpdate(<<"remove", r>>, Without(hub, gone[r]))
     /\ router' = Without(router, gone[r] \ slow)
     /\ scaled' = [o \in Objects |-> IF o \in slow THEN o \notin found ELSE scaled[o]]
     /\ remover' = [o \in Objects |-> IF o \in found THEN "clients" ELSE remover[o]]
     /\ target' = [o \in Objects |->
          IF o \in found THEN cont[At(router, Addr(o))[1]] ELSE target[o]]
     /\ UNCHANGED <<fixed, removed, running, ping, adding, gone, adder, expired>>

\* All are removed, or time is over: CompleteScale.
RemoveDone(r) ==
  /\ deleting[r] = "wait"
  /\ deleting' = [deleting EXCEPT ![r] = "done"]
  /\ scaled' = [o \in Objects |-> scaled[o] \/ o \in gone[r]]
  /\ gone' = [gone EXCEPT ![r] = {}]
  /\ removed' = [removed EXCEPT ![r] = {}]
  /\ UNCHANGED <<fixed, hub, router, running, ping, adding, current, adder, remover,
                 target, expired, lost>>

manager == <<hub, adding, deleting, removed, gone, current, expired, lost>>

-----------------------------------------------------------------------------
(* AddHubServiceEndpointAsync of the multi-endpoint container.             *)

\* The container is initialized: its endpoint is routed to ...
AdderRoutes(o) ==
  /\ adder[o] = "init"
  /\ adder' = [adder EXCEPT ![o] = "start"]
  /\ router' = Append(router, o)
  /\ UNCHANGED <<fixed, manager, scaled, running, ping, remover, target>>

\* A loop over the routing list ends, with an exception, at an endpoint without a container.
Unreached == {i \in 1..Len(router) : \E j \in 1..i : cont[router[j]] = NoContainer}
Visits(c) == Cardinality({i \in 1..Len(router) \ Unreached : cont[router[i]] = c})

\* ... StartGetServersPing, for all that are routed to; then it waits for the servers to
\* agree, for time to be over, or for nothing after an exception ...
StartGetServersPing(o) ==
  /\ adder[o] = "start"
  /\ adder' = [adder EXCEPT ![o] = "wait"]
  /\ ping' = [c \in Objects |-> ping[c] + Visits(c)]
  /\ UNCHANGED <<fixed, manager, scaled, router, running, remover, target>>

\* ... and calls StopGetServersPing, for all that are routed to by then, and, unless that
\* throws, CompleteScale.
StopGetServersPing(o) ==
  /\ adder[o] = "wait"
  /\ adder' = [adder EXCEPT ![o] = "done"]
  /\ ping' = [c \in Objects |-> IF ping[c] > Visits(c) THEN ping[c] - Visits(c) ELSE 0]
  /\ scaled' = [scaled EXCEPT ![o] = @ \/ Unreached = {}]
  /\ UNCHANGED <<fixed, manager, router, running, remover, target>>

-----------------------------------------------------------------------------
(* RemoveHubServiceEndpointAsync of the multi-endpoint container.          *)

\* The clients are gone, or time is over: the endpoint is not routed to any more ...
RemoverUnroutes(o) ==
  /\ remover[o] = "clients"
  /\ remover' = [remover EXCEPT ![o] = "stop"]
  /\ router' = Without(router, {o})
  /\ UNCHANGED <<fixed, manager, scaled, running, ping, adder, target>>

\* ... and its container is stopped and disposed.
RemoverStops(o) ==
  /\ remover[o] = "stop"
  /\ remover' = [remover EXCEPT ![o] = "done"]
  /\ running' = running \ {target[o]}
  /\ target' = [target EXCEPT ![o] = NoContainer]
  /\ scaled' = [scaled EXCEPT ![o] = TRUE]
  /\ UNCHANGED <<fixed, manager, router, ping, adder>>

-----------------------------------------------------------------------------
\* What goes on by itself or by its time-out.
ReloadStep(r) ==
  AddTimeout(r) \/ AddRead(r) \/ AddStore(r) \/ RemoveRead(r) \/ RemoveStore(r) \/ RemoveDone(r)
ObjectStep(o) ==
  StartGetServersPing(o) \/ StopGetServersPing(o) \/ RemoverUnroutes(o) \/ RemoverStops(o)
Step == (\E r \in Reloads : ReloadStep(r)) \/ \E o \in Objects : ObjectStep(o)

Next ==
  \/ \E r \in Reloads, new \in Configs : ReloadBegin(r, new)
  \/ \E o \in Objects : AdderRoutes(o)
  \/ Step

Spec == Init /\ [][Next]_vars

\* The options need not change, and the container of a new endpoint may never be
\* initialized.  All else is bounded: one fairness condition makes every reload, addition
\* and removal go on.
Fairness == WF_vars(Step)

FairSpec == Spec /\ Fairness

-----------------------------------------------------------------------------
\* The type invariant of the lists, the HubServiceEndpoints and what is done to them.
TypeOK ==
  /\ config \in Configs
  /\ name \in [Objects -> Names \cup {None}]
  /\ cont \in [Objects -> Objects \cup {NoContainer}]
  /\ scaled \in [Objects -> BOOLEAN]
  /\ ToSet(hub) \subseteq Objects
  /\ ToSet(router) \subseteq Objects
  /\ running \subseteq Objects
  /\ ping \in [Objects -> Nat]
  /\ adding \in [Reloads -> {"idle", "wait", "store", "done"}]
  /\ deleting \in [Reloads -> {"idle", "begin", "store", "wait", "done"}]
  /\ \A r \in Reloads : removed[r] \subseteq Addrs \X Names \X BOOLEAN
  /\ gone \in [Reloads -> SUBSET Objects]
  /\ current \subseteq {"add", "remove"} \X Reloads
  /\ adder \in [Objects -> {"idle", "init", "start", "wait", "done"}]
  /\ remover \in [Objects -> {"idle", "clients", "stop", "done"}]
  /\ target \in [Objects -> Objects \cup {NoContainer}]
  /\ expired \subseteq Reloads
  /\ kept \subseteq Addrs
  /\ overlap \in BOOLEAN
  /\ lost \in BOOLEAN

Routes(a) == {o \in ToSet(router) : Addr(o) = a /\ cont[o] \in running}

\* An endpoint that is configured all the time can always be routed to, through a container
\* that runs, while others come and go and while it is renamed itself; if the options
\* change again only after a change has been carried through.
NeverUnrouted == ~overlap /\ ~lost => \A a \in kept : Routes(a) # {}

\* What clients are negotiated to is routed to, through a container that runs, unless time
\* was over before the container of an addition was initialized.
NegotiatedIsRouted ==
  ~overlap /\ expired = {} => \A o \in ToSet(hub) : o \in Routes(Addr(o))

\* When all is done, both lists hold the endpoints of the options once, under their
\* names, no other container runs and none asks for the servers.
StoresAgree ==
  ~overlap /\ expired = {} /\ ~Busy =>
    /\ \A list \in {hub, router} :
         /\ Len(list) = Cardinality(Configured(config))
         /\ \A a \in Configured(config) : \E o \in ToSet(list) : Addr(o) = a /\ name[o] = config[a]
    /\ running = {cont[o] : o \in ToSet(router)}
    /\ \A c \in running : ping[c] = 0

\* Changes of the options are carried through or given up, also if a new endpoint cannot be
\* reached and whatever other changes come meanwhile; and the container of an endpoint that
\* was taken out of the options is stopped in the end.
ReloadsEnd ==
  /\ []<>(\A r \in Reloads : {adding[r], deleting[r]} \subseteq Ended)
  /\ []<>(overlap \/ expired # {} \/ \A c \in running : config[Addr(c)] # None)
=============================================================================
