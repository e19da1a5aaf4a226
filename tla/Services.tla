------------------------------- MODULE Services -------------------------------
(***************************************************************************)
(* codeOrchestra.colt.core.loading.LiveCodingHandlerManager and              *)
(* codeOrchestra.colt.core.ServiceProvider: one language handler is current,  *)
(* and the services it creates on demand are cached until it is disposed of.  *)
(*                                                                         *)
(* The manager is used by the JavaFX thread only and has no lock; get and     *)
(* dispose of the provider hold its class lock, and get asks the manager for  *)
(* the current handler while it does.                                       *)
(***************************************************************************)
EXTENDS Naturals

CONSTANTS Threads,   \* the threads that call ServiceProvider.get
          Ids,       \* the identifiers of handlers
          Names,     \* the services a handler can create
          RpcName,   \* that of them which answers remote calls
          Null,      \* null
          MaxLoads   \* bound: so many handlers are created

ASSUME RpcAssumption == RpcName \in Names
ASSUME LoadsAssumption == MaxLoads \in Nat

(* The n-th handler that was created, and its identifier. *)
Handlers == Ids \X (1..MaxLoads)

ASSUME HandlersAssumption == Null \notin Handlers \cup Names \cup Threads \cup Ids

VARIABLES
  currentHandler,
  manager,    \* what the JavaFX thread is at
  wanted,     \* the identifier it loads, or Null when it only disposes
  loads,      \* the number of handlers created
  cache,      \* the handler whose service is cached under each name, or Null
  holder,     \* the thread in the provider's lock, or Null
  asked,      \* the name it asks for
  creator,    \* the handler it has read
  live,       \* history: services created and not forgotten
  rpcService, \* the handler whose service answers remote calls, or Null
              \* for the default service
  refreshFailed, \* history: did the last refreshService throw?
  clearFailed \* history: did the last dispose of the provider throw?

providerVars == <<cache, holder, asked, creator, live>>
rpcVars == <<rpcService, refreshFailed>>
vars == <<currentHandler, manager, wanted, loads, providerVars, rpcVars,
          clearFailed>>

OrNull(S) == S \cup {Null}

TypeOK ==
  /\ currentHandler \in OrNull(Handlers)
  /\ manager \in {"idle", "clear", "create", "refresh", "init"}
  /\ wanted \in OrNull(Ids)
  /\ loads \in 0..MaxLoads
  /\ cache \in [Names -> OrNull(Handlers)]
  /\ holder \in OrNull(Threads)
  /\ asked \in Names
  /\ creator \in OrNull(Handlers) /\ (holder # Null => creator # Null)
  /\ live \in [Handlers -> [Names -> Nat]]
  /\ rpcService \in OrNull(Handlers)
  /\ refreshFailed \in BOOLEAN
  /\ clearFailed \in BOOLEAN

Init ==
  /\ currentHandler = Null
  /\ manager = "idle"
  /\ wanted = Null
  /\ loads = 0
  /\ cache = [n \in Names |-> Null]
  /\ holder = Null
  /\ asked \in Names
  /\ creator = Null
  /\ live = [h \in Handlers |-> [n \in Names |-> 0]]
  /\ rpcService = Null
  /\ refreshFailed = FALSE
  /\ clearFailed = FALSE

(***************************************************************************)
(* LiveCodingHandlerManager.                                               *)
(***************************************************************************)

(* load: the current handler is returned if it has the identifier, otherwise  *)
(* it is disposed of first.                                                 *)
Load(id) ==
  /\ manager = "idle"
  /\ currentHandler # Null => currentHandler[1] # id
  /\ wanted' = id
  /\ manager' = IF currentHandler = Null THEN "create" ELSE "clear"
  /\ currentHandler' = Null
  /\ UNCHANGED <<loads, providerVars, rpcVars, clearFailed>>

(* dispose, when the application ends: disposeHandler, then no handler. *)
Dispose ==
  /\ manager = "idle"
  /\ wanted' = Null
  /\ manager' = "clear"
  /\ currentHandler' = Null
  /\ UNCHANGED <<loads, providerVars, rpcVars, clearFailed>>

AfterClear == manager' = IF wanted = Null THEN "idle" ELSE "create"

(* Variant: the lock of the provider is not taken. *)
ClearUnlocked ==
  /\ manager = "clear"
  /\ AfterClear
  /\ cache' = [n \in Names |-> Null]
  /\ live' = [h \in Handlers |-> [n \in Names |->
                IF cache[n] = h THEN live[h][n] - 1 ELSE live[h][n]]]
  /\ clearFailed' = FALSE
  /\ UNCHANGED <<currentHandler, wanted, loads, holder, asked, creator, rpcVars>>

(* ServiceProvider.dispose: every cached service is disposed of, once. *)
Clear ==
  /\ manager = "clear"
  /\ holder = Null
  /\ AfterClear
  /\ cache' = [n \in Names |-> Null]
  /\ live' = [h \in Handlers |-> [n \in Names |->
                IF cache[n] = h THEN live[h][n] - 1 ELSE live[h][n]]]
  /\ clearFailed' = FALSE
  /\ UNCHANGED <<currentHandler, wanted, loads, holder, asked, creator, rpcVars>>

(* The dispose method of a service throws: the cache is not cleared, load and  *)
(* dispose end, and the services in it stay.                                *)
ClearFails ==
  /\ manager = "clear"
  /\ holder = Null
  /\ \E n \in Names : cache[n] # Null
  /\ manager' = "idle"
  /\ clearFailed' = TRUE
  /\ UNCHANGED <<currentHandler, wanted, loads, providerVars, rpcVars>>

(* The loader creates a handler of the identifier that is wanted. *)
CreateHandler ==
  /\ manager = "create"
  /\ loads < MaxLoads
  /\ loads' = loads + 1
  /\ currentHandler' = <<wanted, loads + 1>>
  /\ manager' = "refresh"
  /\ UNCHANGED <<wanted, providerVars, rpcVars, clearFailed>>

(* The identifier is unknown, or the constructor throws. *)
CreateHandlerFails ==
  /\ manager = "create"
  /\ manager' = "idle"
  /\ UNCHANGED <<currentHandler, wanted, loads, providerVars, rpcVars, clearFailed>>

(* ColtRemoteServiceServlet.refreshService: the service of the new handler     *)
(* answers remote calls, even before the handler is initialised.             *)
RefreshService ==
  /\ manager = "refresh"
  /\ holder = Null
  /\ manager' = "init"
  /\ rpcService' = IF cache[RpcName] = Null THEN currentHandler
                   ELSE cache[RpcName]
  /\ refreshFailed' = FALSE
  /\ IF cache[RpcName] # Null
     THEN UNCHANGED <<cache, live>>
     ELSE /\ cache' = [cache EXCEPT ![RpcName] = currentHandler]
          /\ live' = [live EXCEPT ![currentHandler][RpcName] = @ + 1]
  /\ UNCHANGED <<currentHandler, wanted, loads, holder, asked, creator, clearFailed>>

(* The handler has no such service, and the default answers; or it throws,    *)
(* which ends load: the handler is current but remote calls still go to the   *)
(* service they went to before.                                             *)
RefreshWithoutService ==
  /\ manager = "refresh"
  /\ holder = Null
  /\ cache[RpcName] = Null
  /\ \/ manager' = "init" /\ rpcService' = Null /\ refreshFailed' = FALSE
     \/ manager' = "idle" /\ refreshFailed' = TRUE /\ UNCHANGED rpcService
  /\ UNCHANGED <<currentHandler, wanted, loads, providerVars, clearFailed>>

(* initHandler and setPluginPane: if they throw the handler stays current. *)
InitHandler ==
  /\ manager = "init"
  /\ manager' = "idle"
  /\ UNCHANGED <<currentHandler, wanted, loads, providerVars, rpcVars, clearFailed>>

(***************************************************************************)
(* ServiceProvider.get.                                                    *)
(***************************************************************************)

(* A service that is cached is returned at once, and so is null when there is *)
(* no handler; otherwise the handler that is current now creates one.        *)
Get(t, n) ==
  /\ holder = Null
  /\ cache[n] = Null
  /\ currentHandler # Null
  /\ holder' = t
  /\ asked' = n
  /\ creator' = currentHandler
  /\ UNCHANGED <<currentHandler, manager, wanted, loads, cache, live, rpcVars, clearFailed>>

(* The service was created: it is cached and returned. *)
Put ==
  /\ holder # Null
  /\ cache' = [cache EXCEPT ![asked] = creator]
  /\ live' = [live EXCEPT ![creator][asked] = @ + 1]
  /\ holder' = Null
  /\ UNCHANGED <<currentHandler, manager, wanted, loads, asked, creator, rpcVars, clearFailed>>

(* The handler returned null or threw. *)
CreateServiceFails ==
  /\ holder # Null
  /\ holder' = Null
  /\ UNCHANGED <<currentHandler, manager, wanted, loads, cache, asked, creator,
                 live, rpcVars, clearFailed>>

Next ==
  \/ \E id \in Ids : Load(id)
  \/ Dispose \/ Clear \/ ClearFails \/ CreateHandler \/ CreateHandlerFails
  \/ RefreshService \/ RefreshWithoutService \/ InitHandler
  \/ \E t \in Threads, n \in Names : Get(t, n)
  \/ Put \/ CreateServiceFails

Spec == Init /\ [][Next]_vars

(***************************************************************************)
(* Correctness.                                                            *)
(***************************************************************************)

(* Between the disposal of a handler and that of its services a thread may    *)
(* still cache one of them; afterwards, and whatever handler comes next,      *)
(* ServiceProvider caches no service of any but the current handler.  The     *)
(* exception is a service whose dispose method threw, until the next dispose. *)
CacheIsCurrent ==
  manager # "clear" /\ ~clearFailed =>
    \A n \in Names : cache[n] \in {Null, currentHandler}

(* No service is created that is not disposed of with its handler: a service   *)
(* is forgotten only after its dispose method was called, and a handler never *)
(* has two of the same kind.                                                *)
NoServiceLeaks ==
  \A h \in Handlers, n \in Names :
    live[h][n] = (IF cache[n] = h THEN 1 ELSE 0)

(* Remote calls are answered by a service of the handler that is current, or   *)
(* by the default service, unless it could not be created or old services kept.         *)
RemoteCallsReachCurrent ==
  manager \in {"idle", "init"} /\ currentHandler # Null =>
    rpcService \in {currentHandler, Null} \/ refreshFailed \/ clearFailed

(* What every state of the manager and its services satisfies. *)
ServicesAreSound ==
  TypeOK /\ CacheIsCurrent /\ NoServiceLeaks /\ RemoteCallsReachCurrent

===============================================================================
