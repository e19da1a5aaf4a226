---------------------------- MODULE ServicesProofs ----------------------------
(***************************************************************************)
(* Proofs about Services for any threads, handlers and services.             *)
(***************************************************************************)
EXTENDS Services, TLAPS

(* The inductive invariant.  A thread in the provider's lock creates a service *)
(* that is not cached, by the current handler or by the one whose services are *)
(* about to be cleared.                                                      *)
CreatorInv ==
  holder # Null =>
    /\ cache[asked] = Null
    /\ manager # "clear" => creator = currentHandler

(* There is a current handler just when load has created one. *)
StageInv ==
  /\ manager \in {"clear", "create"} => currentHandler = Null
  /\ manager = "create" => wanted # Null
  /\ manager \in {"refresh", "init"} => currentHandler # Null

IInv == /\ TypeOK
        /\ CreatorInv
        /\ StageInv
        /\ CacheIsCurrent
        /\ NoServiceLeaks
        /\ RemoteCallsReachCurrent

(* Null can be told from the handlers and identifiers. *)
LEMMA NullIsNothing == Null \notin Handlers /\ Null \notin Ids /\ Null \notin Threads
  BY HandlersAssumption

LEMMA InitInv == Init => IInv
  <1> SUFFICES ASSUME Init PROVE IInv
    OBVIOUS
  <1>1. TypeOK
    <2>1. loads = 0 /\ asked \in Names
      BY DEF Init
    <2>4. 0 \in 0..MaxLoads
      BY LoadsAssumption
    <2>5. refreshFailed \in BOOLEAN /\ clearFailed \in BOOLEAN
      BY DEF Init
    <2>2. cache \in [Names -> OrNull(Handlers)]
      BY DEF Init, OrNull
    <2>3. live \in [Handlers -> [Names -> Nat]]
      BY DEF Init
    <2> QED
      BY <2>1, <2>2, <2>3, <2>4, <2>5 DEF Init, TypeOK, OrNull
  <1>2. CreatorInv /\ StageInv /\ CacheIsCurrent /\ RemoteCallsReachCurrent
    BY DEF Init, CreatorInv, StageInv, CacheIsCurrent, RemoteCallsReachCurrent
  <1>3. NoServiceLeaks
    BY NullIsNothing DEF Init, NoServiceLeaks
  <1> QED
    BY <1>1, <1>2, <1>3 DEF IInv

(* Steps that touch neither the cache nor what was created. *)
LEMMA ManagerKeeps ==
  ASSUME IInv,
         \/ \E id \in Ids : Load(id)
         \/ Dispose \/ ClearFails \/ CreateHandlerFails \/ RefreshWithoutService \/ InitHandler
  PROVE  IInv'
  <1> USE DEF IInv, Load, Dispose, ClearFails, CreateHandlerFails, RefreshWithoutService,
              InitHandler, providerVars, rpcVars
  <1>1. TypeOK'
    BY DEF TypeOK, OrNull
  <1>2. CreatorInv' /\ StageInv'
    BY NullIsNothing DEF CreatorInv, StageInv
  <1>3. CacheIsCurrent'
    BY DEF CacheIsCurrent, StageInv
  <1>4. NoServiceLeaks'
    BY DEF NoServiceLeaks
  <1>5. RemoteCallsReachCurrent'
    BY DEF RemoteCallsReachCurrent, StageInv
  <1> QED
    BY <1>1, <1>2, <1>3, <1>4, <1>5

(* Clearing disposes of each cached service once. *)
LEMMA ClearKeeps ==
  ASSUME IInv, Clear
  PROVE  IInv'
  <1> USE DEF IInv, Clear, AfterClear, rpcVars
  <1>1. NoServiceLeaks'
    <2> SUFFICES ASSUME NEW h \in Handlers, NEW n \in Names
                 PROVE  live'[h][n] = (IF cache'[n] = h THEN 1 ELSE 0)
      BY DEF NoServiceLeaks
    <2>1. live[h][n] = (IF cache[n] = h THEN 1 ELSE 0)
      BY DEF NoServiceLeaks
    <2>2. live'[h][n] = IF cache[n] = h THEN live[h][n] - 1 ELSE live[h][n]
      OBVIOUS
    <2>3. live'[h][n] = 0
      BY <2>1, <2>2
    <2>4. cache'[n] # h
      BY NullIsNothing
    <2> QED
      BY <2>3, <2>4
  <1>2. live' \in [Handlers -> [Names -> Nat]]
    <2>1. ASSUME NEW h \in Handlers, NEW n \in Names
          PROVE  (IF cache[n] = h THEN live[h][n] - 1 ELSE live[h][n]) \in Nat
      <3>1. live[h][n] \in Nat
        BY DEF TypeOK
      <3>2. cache[n] = h => live[h][n] = 1
        BY DEF NoServiceLeaks
      <3> QED
        BY <3>1, <3>2
    <2> QED
      BY <2>1
  <1>3. TypeOK'
    BY <1>2 DEF TypeOK, OrNull
  <1>4. CreatorInv' /\ StageInv' /\ CacheIsCurrent'
    BY DEF CreatorInv, StageInv, CacheIsCurrent, TypeOK
  <1>5. RemoteCallsReachCurrent'
    BY DEF RemoteCallsReachCurrent, StageInv
  <1> QED
    BY <1>1, <1>3, <1>4, <1>5

(* A new handler has an identifier of its own. *)
LEMMA CreateHandlerKeeps ==
  ASSUME IInv, CreateHandler
  PROVE  IInv'
  <1> USE DEF IInv, CreateHandler, providerVars, rpcVars
  <1>1. /\ currentHandler' \in Handlers /\ currentHandler = Null
        /\ loads' \in 0..MaxLoads
    <2>1. wanted \in Ids /\ loads + 1 \in 1..MaxLoads
      BY LoadsAssumption DEF TypeOK, OrNull, StageInv
    <2> QED
      BY <2>1 DEF Handlers, StageInv
  <1>2. TypeOK'
    BY <1>1 DEF TypeOK, OrNull
  <1>3. NoServiceLeaks' /\ RemoteCallsReachCurrent'
    BY DEF NoServiceLeaks, RemoteCallsReachCurrent
  <1>4. CreatorInv'
    BY <1>1, NullIsNothing DEF CreatorInv, TypeOK
  <1>5. StageInv' /\ CacheIsCurrent'
    BY <1>1, NullIsNothing DEF StageInv, CacheIsCurrent
  <1> QED
    BY <1>2, <1>3, <1>4, <1>5

(* Caching a service of h under a name that was free is counted once. *)
LEMMA CachedOnce ==
  ASSUME TypeOK, NoServiceLeaks, NEW h \in Handlers, NEW n \in Names,
         cache[n] = Null, cache' = [cache EXCEPT ![n] = h],
         live' = [live EXCEPT ![h][n] = @ + 1]
  PROVE  /\ NoServiceLeaks'
         /\ live' \in [Handlers -> [Names -> Nat]]
         /\ cache' \in [Names -> OrNull(Handlers)]
  <1>1. live[h][n] = 0
    BY NullIsNothing DEF NoServiceLeaks
  <1>2. ASSUME NEW g \in Handlers, NEW m \in Names
        PROVE  live'[g][m] = (IF cache'[m] = g THEN 1 ELSE 0)
    <2>1. live[g][m] = (IF cache[m] = g THEN 1 ELSE 0)
      BY DEF NoServiceLeaks
    <2>2. CASE g = h /\ m = n
      BY <1>1, <2>2 DEF TypeOK
    <2>3. CASE m = n /\ g # h
      <3>1. live'[g][m] = live[g][m]
        BY <2>3 DEF TypeOK
      <3> QED
        BY <2>1, <2>3, <3>1, NullIsNothing DEF TypeOK
    <2>4. CASE m # n
      <3>1. live'[g][m] = live[g][m]
        BY <2>4 DEF TypeOK
      <3> QED
        BY <2>1, <2>4, <3>1 DEF TypeOK
    <2> QED
      BY <2>2, <2>3, <2>4
  <1>3. live' \in [Handlers -> [Names -> Nat]]
    BY <1>1 DEF TypeOK
  <1> QED
    BY <1>2, <1>3 DEF NoServiceLeaks, TypeOK, OrNull

LEMMA RefreshKeeps ==
  ASSUME IInv, RefreshService
  PROVE  IInv'
  <1> USE DEF IInv, RefreshService
  <1>1. currentHandler \in Handlers
    BY DEF TypeOK, OrNull, StageInv
  <1>2. /\ NoServiceLeaks'
        /\ live' \in [Handlers -> [Names -> Nat]]
        /\ cache' \in [Names -> OrNull(Handlers)]
        /\ \A n \in Names : cache'[n] \in {cache[n], currentHandler}
    <2>1. CASE cache[RpcName] # Null
      BY <2>1 DEF NoServiceLeaks, TypeOK
    <2>2. CASE cache[RpcName] = Null
      BY <1>1, <2>2, CachedOnce, RpcAssumption DEF TypeOK
    <2> QED
      BY <2>1, <2>2
  <1>3. TypeOK'
    BY <1>1, <1>2, RpcAssumption DEF TypeOK, OrNull
  <1>4. CreatorInv' /\ StageInv'
    BY DEF CreatorInv, StageInv
  <1>5. RemoteCallsReachCurrent'
    BY RpcAssumption DEF RemoteCallsReachCurrent, CacheIsCurrent
  <1>6. CacheIsCurrent'
    BY <1>2 DEF CacheIsCurrent
  <1> QED
    BY <1>2, <1>3, <1>4, <1>5, <1>6

LEMMA GetKeeps ==
  ASSUME IInv, NEW t \in Threads, NEW n \in Names, Get(t, n)
  PROVE  IInv'
  <1> USE DEF IInv, Get, rpcVars
  <1>1. TypeOK'
    BY DEF TypeOK, OrNull
  <1>2. CreatorInv' /\ StageInv' /\ CacheIsCurrent'
    BY DEF CreatorInv, StageInv, CacheIsCurrent
  <1>3. NoServiceLeaks' /\ RemoteCallsReachCurrent'
    BY DEF NoServiceLeaks, RemoteCallsReachCurrent
  <1> QED
    BY <1>1, <1>2, <1>3

LEMMA PutKeeps ==
  ASSUME IInv, Put
  PROVE  IInv'
  <1> USE DEF IInv, Put, rpcVars
  <1>1. creator \in Handlers /\ asked \in Names /\ cache[asked] = Null
    BY DEF TypeOK, OrNull, CreatorInv
  <1>2. /\ NoServiceLeaks'
        /\ live' \in [Handlers -> [Names -> Nat]]
        /\ cache' \in [Names -> OrNull(Handlers)]
    BY <1>1, CachedOnce
  <1>3. TypeOK'
    BY <1>2 DEF TypeOK, OrNull
  <1>4. CacheIsCurrent'
    BY <1>1 DEF CacheIsCurrent, CreatorInv, TypeOK
  <1>5. CreatorInv' /\ StageInv' /\ RemoteCallsReachCurrent'
    BY DEF CreatorInv, StageInv, RemoteCallsReachCurrent
  <1> QED
    BY <1>2, <1>3, <1>4, <1>5

LEMMA NextKeeps == IInv /\ [Next]_vars => IInv'
  <1> SUFFICES ASSUME IInv, [Next]_vars PROVE IInv'
    OBVIOUS
  <1>1. CASE CreateServiceFails \/ UNCHANGED vars
    <2> USE <1>1 DEF IInv, CreateServiceFails, vars, providerVars, rpcVars
    <2>1. TypeOK' /\ CreatorInv' /\ StageInv'
      BY DEF TypeOK, OrNull, CreatorInv, StageInv
    <2>2. CacheIsCurrent' /\ NoServiceLeaks' /\ RemoteCallsReachCurrent'
      BY DEF CacheIsCurrent, NoServiceLeaks, RemoteCallsReachCurrent
    <2> QED
      BY <2>1, <2>2
  <1> QED
    BY <1>1, ManagerKeeps, ClearKeeps, CreateHandlerKeeps, RefreshKeeps,
       GetKeeps, PutKeeps DEF Next

(* IInv holds in every state. *)
THEOREM Invariant == Spec => []IInv
  BY InitInv, NextKeeps, PTL DEF Spec

(* The state of the manager and of the provider has its type: get never asks  *)
(* null for a service.                                                      *)
THEOREM ServicesTypeCorrect == Spec => []TypeOK
  BY Invariant, PTL DEF IInv

(* However get and dispose interleave, no service of a former handler is      *)
(* cached once its services have been disposed of.                           *)
THEOREM CacheFollowsHandler == Spec => []CacheIsCurrent
  BY Invariant, PTL DEF IInv

(* Every service that was created is in the cache, or its dispose was called. *)
THEOREM ServicesDoNotLeak == Spec => []NoServiceLeaks
  BY Invariant, PTL DEF IInv

(* Remote calls reach the current handler, unless its service could not be    *)
(* created or the former one's not be disposed of.                           *)
THEOREM RemoteCallsFollowHandler == Spec => []RemoteCallsReachCurrent
  BY Invariant, PTL DEF IInv

(* Any number of threads, services and handlers: the four together. *)
THEOREM ServicesCorrect == Spec => []ServicesAreSound
  BY Invariant, PTL DEF IInv, ServicesAreSound

===============================================================================
