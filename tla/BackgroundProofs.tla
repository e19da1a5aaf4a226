--------------------------- MODULE BackgroundProofs ---------------------------
(***************************************************************************)
(* What holds of remote calls, of the server of the projects' files and of the    *)
(* tracker of source files, for any calls, aliases and files, however long a      *)
(* second is and whatever the bounds: of each alone, and of the behaviours that     *)
(* MCBackground checks.                                                     *)
(***************************************************************************)
EXTENDS MCBackground, FiniteSetTheorems, TLAPS

(***************************************************************************)
(* RemoteService: the wake-ups balance the notifications, and a call that        *)
(* nothing overlapped is answered with its own outcome.                        *)
(***************************************************************************)

(* The command of a call is in one place at most, and nowhere before it is    *)
(* posted.                                                                 *)
Places ==
  /\ \A i, j \in 1..Len(fxQueue) : fxQueue[i] = fxQueue[j] => i = j
  /\ Queued \cap (handed \cup running \cup dropped) = {}
  /\ handed \cap (running \cup dropped) = {}
  /\ running \cap dropped = {}
  /\ \A c \in Callers : pc[c] \in {"idle", "refused"} =>
                          c \notin Pending \cup dropped

(* A call that nothing overlapped is alone, and the only notification that is  *)
(* still to come is its own.                                                *)
AloneOn(c) ==
  /\ pc[c] \in {"posted", "waiting", "woken"} => /\ InProgress = {c}
                                                 /\ Pending \subseteq {c}
  /\ pc[c] = "woken" => result[c] # "none"
  /\ pc[c] = "returned" => got[c] # "none"

Alone == woken = 0 => \A c \in Callers \ overlapped : AloneOn(c)

Finished == \A c \in running : result[c] # "none"

(***************************************************************************)
(* The queue of the JavaFX thread.                                          *)
(***************************************************************************)

LEMMA QueuedAppend ==
  ASSUME NEW S, NEW q \in Seq(S), NEW c \in S
  PROVE  {Append(q, c)[i] : i \in DOMAIN Append(q, c)} =
           {q[i] : i \in DOMAIN q} \cup {c}
<1>1. /\ DOMAIN Append(q, c) = 1..(Len(q) + 1) /\ DOMAIN q = 1..Len(q)
      /\ Len(q) \in Nat
  OBVIOUS
<1>2. \A i \in 1..Len(q) : Append(q, c)[i] = q[i]
  OBVIOUS
<1>3. Append(q, c)[Len(q) + 1] = c
  OBVIOUS
<1>4. 1..(Len(q) + 1) = (1..Len(q)) \cup {Len(q) + 1}
  BY <1>1
<1>5. QED
  BY <1>1, <1>2, <1>3, <1>4

LEMMA QueuedTail ==
  ASSUME NEW S, NEW q \in Seq(S), q # <<>>,
         \A i, j \in 1..Len(q) : q[i] = q[j] => i = j
  PROVE  /\ Tail(q) \in Seq(S) /\ Head(q) \in S
         /\ Head(q) \in {q[i] : i \in DOMAIN q}
         /\ {Tail(q)[i] : i \in DOMAIN Tail(q)} =
              {q[i] : i \in DOMAIN q} \ {Head(q)}
         /\ \A i, j \in 1..Len(Tail(q)) : Tail(q)[i] = Tail(q)[j] => i = j
<1>1. /\ Len(q) \in Nat \ {0} /\ DOMAIN q = 1..Len(q)
      /\ Tail(q) \in Seq(S) /\ Head(q) = q[1]
  OBVIOUS
<1>2. /\ Len(Tail(q)) = Len(q) - 1
      /\ DOMAIN Tail(q) = 1..(Len(q) - 1)
      /\ \A i \in 1..(Len(q) - 1) : Tail(q)[i] = q[i + 1]
  BY <1>1
<1>3. \A i \in 1..(Len(q) - 1) : i + 1 \in 1..Len(q) /\ i + 1 # 1
  BY <1>1
<1>4. \A i \in 1..Len(q) : i # 1 => /\ i - 1 \in 1..(Len(q) - 1)
                                    /\ (i - 1) + 1 = i
  BY <1>1
<1>5. {Tail(q)[i] : i \in DOMAIN Tail(q)} = {q[i] : i \in DOMAIN q} \ {Head(q)}
  <2>1. ASSUME NEW x \in {Tail(q)[i] : i \in DOMAIN Tail(q)}
        PROVE  x \in {q[i] : i \in DOMAIN q} \ {Head(q)}
    <3>1. PICK i \in 1..(Len(q) - 1) : x = q[i + 1]
      BY <1>2, <2>1
    <3>2. i + 1 \in 1..Len(q) /\ i + 1 # 1 /\ 1 \in 1..Len(q)
      BY <1>1, <1>3
    <3>3. QED
      BY <1>1, <3>1, <3>2
  <2>2. ASSUME NEW x \in {q[i] : i \in DOMAIN q} \ {Head(q)}
        PROVE  x \in {Tail(q)[i] : i \in DOMAIN Tail(q)}
    <3>1. PICK i \in 1..Len(q) : x = q[i] /\ i # 1
      BY <1>1, <2>2
    <3>2. x = Tail(q)[i - 1] /\ i - 1 \in DOMAIN Tail(q)
      BY <1>2, <1>4, <3>1
    <3>3. QED
      BY <3>2
  <2>3. QED
    BY <2>1, <2>2
<1>6. \A i, j \in 1..Len(Tail(q)) : Tail(q)[i] = Tail(q)[j] => i = j
  <2>1. SUFFICES ASSUME NEW i \in 1..(Len(q) - 1), NEW j \in 1..(Len(q) - 1),
                        q[i + 1] = q[j + 1]
                 PROVE  i = j
    BY <1>2
  <2>2. i + 1 = j + 1
    BY <1>3, <2>1
  <2>3. QED
    BY <1>1, <2>2
<1>7. 1 \in DOMAIN q /\ q[1] \in S
  BY <1>1
<1>8. Head(q) \in S /\ Head(q) \in {q[i] : i \in DOMAIN q}
  BY <1>1, <1>7
<1>9. QED
  BY <1>1, <1>5, <1>6, <1>8

(***************************************************************************)
(* Typing and the places of the commands.                                  *)
(***************************************************************************)

LEMMA Typing == Spec => []TypeOK
<1>1. Init => TypeOK
  BY CallersAssumption DEF Init, TypeOK, Outcomes
<1>2. TypeOK /\ [Next]_vars => TypeOK'
  <2>1. SUFFICES ASSUME TypeOK, [Next]_vars
                 PROVE  TypeOK'
    OBVIOUS
  <2>2. ASSUME NEW c \in Callers, Refuse(c) \/ Wait(c) \/ WakeAlone(c) \/ Return(c)
        PROVE  TypeOK'
    BY <2>1, <2>2 DEF TypeOK, Refuse, Wait, WakeAlone, Return, callVars, history
  <2>3. ASSUME NEW c \in Callers, Post(c)
        PROVE  TypeOK'
    <3>1. InProgress \subseteq Callers
      BY DEF InProgress
    <3>2. overlapped' \subseteq Callers
      BY <2>1, <2>3, <3>1 DEF TypeOK, Post
    <3>3. QED
      BY <2>1, <2>3, <3>2 DEF TypeOK, Post, callVars, history
  <2>4. ASSUME NEW c \in Callers, CallBack(c)
        PROVE  TypeOK'
    BY <2>1, <2>4 DEF TypeOK, CallBack, history, Outcomes
  <2>5. ASSUME NEW c \in Callers, Notify(c)
        PROVE  TypeOK'
    BY <2>1, <2>5 DEF TypeOK, Notify, Waiting, callVars
  <2>6. CASE Execute
    <3>1. Head(fxQueue) \in Callers /\ Tail(fxQueue) \in Seq(Callers)
      BY <2>1, <2>6 DEF TypeOK, Execute
    <3>2. QED
      BY <2>1, <2>6, <3>1 DEF TypeOK, Execute, history, Outcomes
  <2>7. CASE ExecuteAsync
    <3>1. Head(fxQueue) \in Callers /\ Tail(fxQueue) \in Seq(Callers)
      BY <2>1, <2>7 DEF TypeOK, ExecuteAsync
    <3>2. QED
      BY <2>1, <2>7, <3>1 DEF TypeOK, ExecuteAsync, history
  <2>8. CASE UNCHANGED vars
    BY <2>1, <2>8 DEF TypeOK, vars, callVars, history
  <2>9. QED
    BY <2>1, <2>2, <2>3, <2>4, <2>5, <2>6, <2>7, <2>8 DEF Next
<1>3. QED
  BY <1>1, <1>2, PTL DEF Spec

(* What the posting of a call does to the places. *)
LEMMA PostPlaces ==
  ASSUME TypeOK, Places, NEW c \in Callers, Post(c)
  PROVE  /\ Places'
         /\ Queued' = Queued \cup {c}
         /\ c \notin Pending \cup dropped
<1>1. c \notin Pending \cup dropped
  BY DEF Places, Post
<1>2. Queued' = Queued \cup {c}
  BY QueuedAppend DEF TypeOK, Post, Queued
<1>3. \A i, j \in 1..Len(fxQueue') : fxQueue'[i] = fxQueue'[j] => i = j
  <2>1. /\ Len(fxQueue') = Len(fxQueue) + 1 /\ Len(fxQueue) \in Nat
        /\ fxQueue'[Len(fxQueue) + 1] = c
        /\ \A i \in 1..Len(fxQueue) : fxQueue'[i] = fxQueue[i]
    BY DEF TypeOK, Post
  <2>2. \A i \in 1..Len(fxQueue) : fxQueue[i] \in Queued
    BY DEF TypeOK, Queued
  <2>3. c \notin Queued
    BY <1>1 DEF Pending
  <2>4. \A i \in 1..Len(fxQueue') : i \in 1..Len(fxQueue) \/ i = Len(fxQueue) + 1
    BY <2>1
  <2>5. QED
    BY <2>1, <2>2, <2>3, <2>4 DEF Places
<1>4. \A d \in Callers : pc'[d] \in {"idle", "refused"} =>
                           d # c /\ pc[d] \in {"idle", "refused"}
  BY DEF TypeOK, Post
<1>5. UNCHANGED <<running, handed, dropped>>
  BY DEF Post, callVars
<1>6. QED
  BY <1>1, <1>2, <1>3, <1>4, <1>5 DEF Places, Pending

(* What the JavaFX thread's taking of a Runnable does to the places. *)
LEMMA TakePlaces ==
  ASSUME TypeOK, Places, Execute \/ ExecuteAsync
  PROVE  /\ Places'
         /\ Queued' = Queued \ {Head(fxQueue)}
         /\ Head(fxQueue) \in Queued /\ Head(fxQueue) \in Callers
<1>1. fxQueue # <<>> /\ fxQueue' = Tail(fxQueue)
  BY DEF Execute, ExecuteAsync
<1>2. /\ Queued' = Queued \ {Head(fxQueue)}
      /\ Head(fxQueue) \in Queued /\ Head(fxQueue) \in Callers
      /\ \A i, j \in 1..Len(fxQueue') : fxQueue'[i] = fxQueue'[j] => i = j
  <2>1. fxQueue \in Seq(Callers)
    BY DEF TypeOK
  <2>2. \A i, j \in 1..Len(fxQueue) : fxQueue[i] = fxQueue[j] => i = j
    BY DEF Places
  <2>3. /\ Head(fxQueue) \in Callers
        /\ Head(fxQueue) \in {fxQueue[i] : i \in DOMAIN fxQueue}
        /\ {Tail(fxQueue)[i] : i \in DOMAIN Tail(fxQueue)} =
             {fxQueue[i] : i \in DOMAIN fxQueue} \ {Head(fxQueue)}
        /\ \A i, j \in 1..Len(Tail(fxQueue)) :
             Tail(fxQueue)[i] = Tail(fxQueue)[j] => i = j
    BY <1>1, <2>1, <2>2, QueuedTail
  <2>4. Queued' = {Tail(fxQueue)[i] : i \in DOMAIN Tail(fxQueue)}
    BY <1>1 DEF Queued
  <2>5. QED
    BY <1>1, <2>3, <2>4 DEF Queued
<1>3. pc' = pc
  BY DEF Execute, ExecuteAsync
<1>4. \A S : Head(fxQueue) \notin S \/ Head(fxQueue) \in S
  OBVIOUS
<1>5. CASE Execute
  <2>1. running' = running \cup {Head(fxQueue)} /\ UNCHANGED <<handed, dropped>>
    BY <1>5 DEF Execute
  <2>2. QED
    BY <1>2, <1>3, <2>1 DEF Places, Pending
<1>6. CASE ExecuteAsync
  <2>1. /\ running' = running
        /\ \/ handed' = handed \cup {Head(fxQueue)} /\ dropped' = dropped
           \/ dropped' = dropped \cup {Head(fxQueue)} /\ handed' = handed
    BY <1>6 DEF ExecuteAsync
  <2>2. QED
    BY <1>2, <1>3, <2>1 DEF Places, Pending
<1>7. QED
  BY <1>5, <1>6

LEMMA PlacesKept ==
  ASSUME TypeOK, Places, [Next]_vars
  PROVE  Places'
<1>1. ASSUME NEW c \in Callers, Refuse(c) \/ Wait(c) \/ WakeAlone(c) \/ Return(c)
      PROVE  Places'
  BY <1>1 DEF TypeOK, Places, Pending, Queued, Refuse, Wait, WakeAlone, Return,
     callVars, history
<1>2. ASSUME NEW c \in Callers, CallBack(c)
      PROVE  Places'
  BY <1>2 DEF Places, Pending, Queued, CallBack
<1>3. ASSUME NEW c \in Callers, Notify(c)
      PROVE  Places'
  <2>1. \A d \in Callers : pc'[d] \in {"idle", "refused"} =>
                             pc[d] \in {"idle", "refused"}
    BY <1>3 DEF TypeOK, Notify, Waiting
  <2>2. QED
    BY <1>3, <2>1 DEF Places, Pending, Queued, Notify, callVars
<1>4. CASE UNCHANGED vars
  BY <1>4 DEF Places, Pending, Queued, vars, callVars
<1>5. QED
  BY <1>1, <1>2, <1>3, <1>4, PostPlaces, TakePlaces DEF Next

LEMMA PlacesAlways == Spec => []Places
<1>1. Init => Places
  BY DEF Init, Places, Pending, Queued
<1>2. TypeOK /\ Places /\ [Next]_vars => Places'
  BY PlacesKept
<1>3. QED
  BY <1>1, <1>2, Typing, PTL DEF Spec

(***************************************************************************)
(* The balance of notifications and wake-ups.                               *)
(***************************************************************************)

LEMMA SetsAreFinite ==
  ASSUME TypeOK
  PROVE  /\ IsFiniteSet(Unwoken) /\ IsFiniteSet(Pending) /\ IsFiniteSet(dropped)
         /\ Cardinality(Unwoken) \in Nat
         /\ Cardinality(Pending) \in Nat
         /\ Cardinality(dropped) \in Nat
<1>1. Queued \subseteq Callers
  <2>1. \A i \in DOMAIN fxQueue : fxQueue[i] \in Callers
    BY DEF TypeOK
  <2>2. QED
    BY <2>1 DEF Queued
<1>2. Unwoken \subseteq Callers /\ Pending \subseteq Callers /\ dropped \subseteq Callers
  BY <1>1, CallersAssumption DEF TypeOK, Unwoken, Pending
<1>3. IsFiniteSet(Unwoken) /\ IsFiniteSet(Pending) /\ IsFiniteSet(dropped)
  BY <1>2, CallersAssumption, FS_Subset
<1>4. QED
  BY <1>3, FS_CardinalityType

LEMMA AddOne ==
  ASSUME NEW S, NEW x, IsFiniteSet(S), x \notin S
  PROVE  Cardinality(S \cup {x}) = Cardinality(S) + 1
BY FS_AddElement

LEMMA DropOne ==
  ASSUME NEW S, NEW x, IsFiniteSet(S), x \in S
  PROVE  Cardinality(S \ {x}) = Cardinality(S) - 1
BY FS_RemoveElement

LEMMA BalanceKept ==
  ASSUME TypeOK, Places, WakeupsBalance, [Next]_vars
  PROVE  WakeupsBalance'
<1>1. /\ IsFiniteSet(Unwoken) /\ IsFiniteSet(Pending) /\ IsFiniteSet(dropped)
      /\ Cardinality(Unwoken) \in Nat
      /\ Cardinality(Pending) \in Nat
      /\ Cardinality(dropped) \in Nat
  BY SetsAreFinite
<1>2. lost \in Nat /\ woken \in Nat
  BY DEF TypeOK
<1>3. ASSUME NEW c \in Callers, Refuse(c) \/ Wait(c) \/ Return(c)
      PROVE  WakeupsBalance'
  <2>1. Unwoken' = Unwoken
    BY <1>3 DEF TypeOK, Unwoken, Refuse, Wait, Return
  <2>2. UNCHANGED <<Pending, dropped, lost, woken>>
    BY <1>3 DEF Pending, Queued, Refuse, Wait, Return, callVars, history
  <2>3. QED
    BY <2>1, <2>2 DEF WakeupsBalance
<1>4. ASSUME NEW c \in Callers, WakeAlone(c)
      PROVE  WakeupsBalance'
  <2>1. c \in Unwoken /\ Unwoken' = Unwoken \ {c}
    BY <1>4 DEF TypeOK, Unwoken, WakeAlone
  <2>2. UNCHANGED <<Pending, dropped, lost>> /\ woken' = woken + 1
    BY <1>4 DEF Pending, Queued, WakeAlone, callVars
  <2>3. Cardinality(Unwoken') = Cardinality(Unwoken) - 1
    BY <1>1, <2>1, DropOne
  <2>4. QED
    BY <1>1, <1>2, <2>2, <2>3 DEF WakeupsBalance
<1>5. ASSUME NEW c \in Callers, Post(c)
      PROVE  WakeupsBalance'
  <2>1. c \notin Unwoken /\ Unwoken' = Unwoken \cup {c}
    BY <1>5 DEF TypeOK, Unwoken, Post
  <2>2. c \notin Pending /\ Pending' = Pending \cup {c}
    BY <1>5, PostPlaces DEF Pending, Post, callVars
  <2>3. UNCHANGED <<dropped, lost, woken>>
    BY <1>5 DEF Post, callVars
  <2>4. /\ Cardinality(Unwoken') = Cardinality(Unwoken) + 1
        /\ Cardinality(Pending') = Cardinality(Pending) + 1
    BY <1>1, <2>1, <2>2, AddOne
  <2>5. QED
    BY <1>1, <1>2, <2>3, <2>4 DEF WakeupsBalance
<1>6. CASE Execute
  <2>1. Pending' = Pending
    BY <1>6, TakePlaces DEF Pending, Execute
  <2>2. UNCHANGED <<Unwoken, dropped, lost, woken>>
    BY <1>6 DEF Unwoken, Execute, history
  <2>3. QED
    BY <2>1, <2>2 DEF WakeupsBalance
<1>7. CASE ExecuteAsync
  <2>1. UNCHANGED <<Unwoken, lost, woken>>
    BY <1>7 DEF Unwoken, ExecuteAsync, history
  <2>2. CASE handed' = handed \cup {Head(fxQueue)} /\ dropped' = dropped
    <3>1. Pending' = Pending
      BY <1>7, <2>2, TakePlaces DEF Pending, ExecuteAsync
    <3>2. QED
      BY <2>1, <2>2, <3>1 DEF WakeupsBalance
  <2>3. CASE dropped' = dropped \cup {Head(fxQueue)} /\ handed' = handed
    <3>1. /\ Head(fxQueue) \in Pending /\ Head(fxQueue) \notin dropped
          /\ Head(fxQueue) \notin handed \cup running
      BY <1>7, TakePlaces DEF Places, Pending
    <3>2. Pending' = Pending \ {Head(fxQueue)}
      BY <1>7, <2>3, <3>1, TakePlaces DEF Pending, ExecuteAsync
    <3>3. /\ Cardinality(Pending') = Cardinality(Pending) - 1
          /\ Cardinality(dropped') = Cardinality(dropped) + 1
      BY <1>1, <2>3, <3>1, <3>2, AddOne, DropOne
    <3>4. QED
      BY <1>1, <1>2, <2>1, <3>3 DEF WakeupsBalance
  <2>4. QED
    BY <1>7, <2>2, <2>3 DEF ExecuteAsync
<1>8. ASSUME NEW c \in Callers, CallBack(c)
      PROVE  WakeupsBalance'
  <2>1. UNCHANGED <<Unwoken, Pending, dropped, lost, woken>>
    BY <1>8 DEF Unwoken, Pending, Queued, CallBack, history
  <2>2. QED
    BY <2>1 DEF WakeupsBalance
<1>9. ASSUME NEW c \in Callers, Notify(c)
      PROVE  WakeupsBalance'
  <2>1. c \in Pending /\ Pending' = Pending \ {c}
    BY <1>9 DEF Places, Pending, Queued, Notify, callVars
  <2>2. Cardinality(Pending') = Cardinality(Pending) - 1
    BY <1>1, <2>1, DropOne
  <2>3. UNCHANGED <<dropped, woken>>
    BY <1>9 DEF Notify, callVars
  <2>4. CASE lost' = lost + 1 /\ UNCHANGED pc
    <3>1. Unwoken' = Unwoken
      BY <2>4 DEF Unwoken
    <3>2. QED
      BY <1>1, <1>2, <2>2, <2>3, <2>4, <3>1 DEF WakeupsBalance
  <2>5. ASSUME NEW d \in Waiting, pc' = [pc EXCEPT ![d] = "woken"], lost' = lost
        PROVE  WakeupsBalance'
    <3>1. d \in Unwoken /\ Unwoken' = Unwoken \ {d}
      BY <2>5 DEF TypeOK, Unwoken, Waiting
    <3>2. Cardinality(Unwoken') = Cardinality(Unwoken) - 1
      BY <1>1, <3>1, DropOne
    <3>3. lost' = lost
      BY <2>5
    <3>4. QED
      BY <1>1, <1>2, <2>2, <2>3, <3>2, <3>3 DEF WakeupsBalance
  <2>6. QED
    BY <1>9, <2>4, <2>5 DEF Notify
<1>10. CASE UNCHANGED vars
  BY <1>10 DEF WakeupsBalance, Unwoken, Pending, Queued, vars, callVars, history
<1>11. QED
  BY <1>3, <1>4, <1>5, <1>6, <1>7, <1>8, <1>9, <1>10 DEF Next

(* No wake-up is multiplied and none is dropped but those that are counted:    *)
(* the calls that were not woken are exactly as many as the notifications to   *)
(* come, lost before their wait, or never to be given by a command that threw. *)
THEOREM NotificationsBalance == Spec => []WakeupsBalance
<1>1. Init => WakeupsBalance
  <2>1. ASSUME Init
        PROVE  Unwoken = {} /\ Pending = {} /\ dropped = {} /\ lost = 0 /\ woken = 0
    BY <2>1 DEF Init, Unwoken, Pending, Queued
  <2>2. QED
    BY <2>1, FS_EmptySet DEF WakeupsBalance
<1>2. TypeOK /\ Places /\ WakeupsBalance /\ [Next]_vars => WakeupsBalance'
  BY BalanceKept
<1>3. QED
  BY <1>1, <1>2, Typing, PlacesAlways, PTL DEF Spec

(***************************************************************************)
(* Who returns early.                                                      *)
(***************************************************************************)

IInv == TypeOK /\ Places /\ WakeupsBalance /\ Finished /\ Alone

(* While nobody is in progress and nobody woke by itself, no notification is   *)
(* left over from earlier calls.                                            *)
LEMMA NothingLeftOver ==
  ASSUME TypeOK, WakeupsBalance, InProgress = {}, woken = 0
  PROVE  Pending = {}
<1>1. Unwoken = {}
  BY DEF Unwoken, InProgress
<1>2. Cardinality(Unwoken) = 0
  BY <1>1, FS_EmptySet
<1>3. Cardinality(Pending) = 0
  BY <1>2, SetsAreFinite DEF TypeOK, WakeupsBalance
<1>4. QED
  BY <1>3, SetsAreFinite, FS_EmptySet

LEMMA FinishedKept ==
  ASSUME TypeOK, Places, Finished, [Next]_vars
  PROVE  Finished'
<1>1. ASSUME NEW c \in Callers, \/ Refuse(c) \/ Post(c) \/ Wait(c) \/ WakeAlone(c)
                                \/ Return(c) \/ Notify(c)
      PROVE  Finished'
  BY <1>1 DEF Finished, Refuse, Post, Wait, WakeAlone, Return, Notify, callVars
<1>2. ASSUME NEW c \in Callers, CallBack(c)
      PROVE  Finished'
  BY <1>2 DEF TypeOK, Finished, CallBack
<1>3. CASE Execute
  BY <1>3, TakePlaces DEF TypeOK, Finished, Execute
<1>4. CASE ExecuteAsync \/ UNCHANGED vars
  BY <1>4 DEF Finished, ExecuteAsync, vars, callVars
<1>5. QED
  BY <1>1, <1>2, <1>3, <1>4 DEF Next

(* A step that touches neither the state of a call nor who is in progress     *)
(* and gives away no command keeps the call alone.                          *)
LEMMA AloneStays ==
  ASSUME NEW c \in Callers, AloneOn(c), pc' = pc, Pending' \subseteq Pending,
         got' = got, result'[c] = result[c] \/ result'[c] # "none"
  PROVE  AloneOn(c)'
BY DEF AloneOn, InProgress

LEMMA AlonePost ==
  ASSUME IInv, NEW d \in Callers, Post(d)
  PROVE  Alone'
<1>1. SUFFICES ASSUME woken = 0, NEW c \in Callers, c \notin overlapped'
               PROVE  AloneOn(c)'
  BY DEF Alone, Post
<1>2. c \notin overlapped /\ AloneOn(c)
  <2>1. c \notin overlapped
    BY <1>1 DEF Post
  <2>2. QED
    BY <1>1, <2>1 DEF IInv, Alone
<1>3. pc' = [pc EXCEPT ![d] = "posted"] /\ got' = got /\ result' = result
  BY DEF Post, callVars
<1>4. pc \in [Callers -> {"idle", "posted", "waiting", "woken", "returned", "refused"}]
  BY DEF IInv, TypeOK
<1>5. CASE c = d
  <2>1. InProgress = {}
    BY <1>1, <1>5 DEF Post
  <2>2. Pending = {}
    BY <1>1, <2>1, NothingLeftOver DEF IInv
  <2>3. InProgress' = {c} /\ Pending' = {c}
    <3>1. InProgress' = InProgress \cup {c}
      BY <1>3, <1>4, <1>5 DEF InProgress
    <3>2. Pending' = Pending \cup {c}
      BY <1>5, PostPlaces DEF IInv, Pending, Post, callVars
    <3>3. QED
      BY <2>1, <2>2, <3>1, <3>2
  <2>4. pc'[c] = "posted"
    BY <1>3, <1>4, <1>5
  <2>5. QED
    BY <2>3, <2>4 DEF AloneOn
<1>6. CASE c # d
  <2>1. c \notin InProgress
    BY <1>1 DEF Post
  <2>2. pc'[c] = pc[c]
    BY <1>3, <1>4, <1>6
  <2>3. QED
    BY <1>2, <1>3, <2>1, <2>2 DEF AloneOn, InProgress
<1>7. QED
  BY <1>5, <1>6

LEMMA AloneCaller ==
  ASSUME IInv, NEW d \in Callers, Refuse(d) \/ Wait(d) \/ WakeAlone(d) \/ Return(d)
  PROVE  Alone'
<1>1. CASE WakeAlone(d)
  BY <1>1 DEF IInv, TypeOK, Alone, WakeAlone
<1>2. CASE Refuse(d) \/ Wait(d) \/ Return(d)
  <2>1. SUFFICES ASSUME woken = 0, NEW c \in Callers, c \notin overlapped
                 PROVE  AloneOn(c)'
    BY <1>2 DEF Alone, Refuse, Wait, Return, history
  <2>2. AloneOn(c)
    BY <2>1 DEF IInv, Alone
  <2>3. Pending' = Pending /\ result' = result
    BY <1>2 DEF Pending, Queued, Refuse, Wait, Return, callVars
  <2>4. pc \in [Callers -> {"idle", "posted", "waiting", "woken", "returned", "refused"}]
    BY DEF IInv, TypeOK
  <2>5. CASE Refuse(d) \/ Wait(d)
    <3>1. InProgress' = InProgress /\ got' = got
      BY <2>4, <2>5 DEF InProgress, Refuse, Wait
    <3>2. \/ pc'[c] = pc[c]
          \/ pc'[c] = "refused"
          \/ pc[c] = "posted" /\ pc'[c] = "waiting"
      BY <2>4, <2>5 DEF Refuse, Wait
    <3>3. QED
      BY <2>2, <2>3, <3>1, <3>2 DEF AloneOn
  <2>6. CASE Return(d)
    <3>1. /\ d \in InProgress
          /\ pc' = [pc EXCEPT ![d] = "returned"]
          /\ got' = [got EXCEPT ![d] = result[d]]
      BY <2>6 DEF Return, InProgress
    <3>2. CASE c = d
      BY <2>2, <2>4, <2>6, <3>1, <3>2 DEF AloneOn, Return, IInv, TypeOK
    <3>3. CASE c # d
      <4>1. pc'[c] = pc[c] /\ got'[c] = got[c]
        BY <2>4, <3>1, <3>3 DEF IInv, TypeOK
      <4>2. pc[c] \notin {"posted", "waiting", "woken"}
        BY <2>2, <3>1, <3>3 DEF AloneOn
      <4>3. QED
        BY <2>2, <4>1, <4>2 DEF AloneOn
    <3>4. QED
      BY <3>2, <3>3
  <2>7. QED
    BY <1>2, <2>5, <2>6
<1>3. QED
  BY <1>1, <1>2

LEMMA AloneCommand ==
  ASSUME IInv, \/ Execute \/ ExecuteAsync
               \/ \E d \in Callers : CallBack(d)
  PROVE  Alone'
<1>1. SUFFICES ASSUME woken = 0, NEW c \in Callers, c \notin overlapped
               PROVE  AloneOn(c)'
  BY DEF Alone, Execute, ExecuteAsync, CallBack, history
<1>2. AloneOn(c)
  BY <1>1 DEF IInv, Alone
<1>3. pc' = pc /\ got' = got
  BY DEF Execute, ExecuteAsync, CallBack
<1>4. CASE Execute
  <2>1. Pending' \subseteq Pending
    BY <1>4, TakePlaces DEF IInv, Pending, Execute
  <2>2. result'[c] = result[c] \/ result'[c] # "none"
    BY <1>4 DEF IInv, TypeOK, Execute
  <2>3. QED
    BY <1>2, <1>3, <2>1, <2>2, AloneStays
<1>5. CASE ExecuteAsync
  <2>1. Pending' \subseteq Pending
    BY <1>5, TakePlaces DEF IInv, Pending, ExecuteAsync
  <2>2. result' = result
    BY <1>5 DEF ExecuteAsync
  <2>3. QED
    BY <1>2, <1>3, <2>1, <2>2, AloneStays
<1>6. ASSUME NEW d \in Callers, CallBack(d)
      PROVE  AloneOn(c)'
  <2>1. Pending' \subseteq Pending
    BY <1>6 DEF Pending, Queued, CallBack
  <2>2. result'[c] = result[c] \/ result'[c] # "none"
    BY <1>6 DEF IInv, TypeOK, CallBack
  <2>3. QED
    BY <1>2, <1>3, <2>1, <2>2, AloneStays
<1>7. QED
  BY <1>4, <1>5, <1>6

LEMMA AloneNotify ==
  ASSUME IInv, NEW n \in Callers, Notify(n)
  PROVE  Alone'
<1>1. SUFFICES ASSUME woken = 0, NEW c \in Callers, c \notin overlapped
               PROVE  AloneOn(c)'
  BY DEF Alone, Notify
<1>2. AloneOn(c)
  BY <1>1 DEF IInv, Alone
<1>3. Pending' \subseteq Pending /\ got' = got /\ result' = result
  BY DEF Pending, Queued, Notify, callVars
<1>4. CASE pc' = pc
  BY <1>2, <1>3, <1>4, AloneStays
<1>5. ASSUME NEW d \in Waiting, pc' = [pc EXCEPT ![d] = "woken"]
      PROVE  AloneOn(c)'
  <2>1. pc \in [Callers -> {"idle", "posted", "waiting", "woken", "returned", "refused"}]
    BY DEF IInv, TypeOK
  <2>2. d \in InProgress /\ InProgress' = InProgress
    BY <1>5, <2>1 DEF Waiting, InProgress
  <2>3. CASE c = d
    <3>1. Pending \subseteq {c} /\ InProgress = {c}
      BY <1>2, <1>5, <2>3 DEF AloneOn, Waiting
    <3>2. n = c
      BY <3>1 DEF Notify, Pending
    <3>3. result[c] # "none"
      BY <3>2 DEF IInv, Finished, Notify
    <3>4. pc'[c] = "woken"
      BY <1>5, <2>1, <2>3
    <3>5. QED
      BY <1>3, <2>2, <3>1, <3>3, <3>4 DEF AloneOn
  <2>4. CASE c # d
    <3>1. pc'[c] = pc[c]
      BY <1>5, <2>1, <2>4
    <3>2. QED
      BY <1>2, <1>3, <2>2, <3>1 DEF AloneOn
  <2>5. QED
    BY <2>3, <2>4
<1>6. QED
  BY <1>4, <1>5 DEF Notify

(* A call that returns null or nothing of its own command was overlapped by   *)
(* another, whose notification it took, unless somebody woke by himself: what  *)
(* the shared monitor costs, for any number of calls of either kind.          *)
THEOREM EarlyReturnsAreStolen == Spec => []EarlyReturnMeansOverlap
<1>1. Init => Finished /\ Alone
  BY DEF Init, Finished, Alone, AloneOn, InProgress
<1>2. IInv /\ [Next]_vars => Finished' /\ Alone'
  <2>1. SUFFICES ASSUME IInv, [Next]_vars
                 PROVE  Finished' /\ Alone'
    OBVIOUS
  <2>2. Finished'
    BY <2>1, FinishedKept DEF IInv
  <2>3. CASE UNCHANGED vars
    <3>1. /\ UNCHANGED <<InProgress, Pending, result, got, woken, overlapped, pc>>
      BY <2>3 DEF vars, callVars, history, InProgress, Pending, Queued
    <3>2. ASSUME NEW c \in Callers, AloneOn(c)
          PROVE  AloneOn(c)'
      BY <3>1, <3>2 DEF AloneOn
    <3>3. QED
      BY <2>1, <2>2, <3>1, <3>2 DEF IInv, Alone
  <2>4. QED
    BY <2>1, <2>2, <2>3, AlonePost, AloneCaller, AloneCommand, AloneNotify DEF Next
<1>3. TypeOK /\ Places /\ WakeupsBalance /\ Finished /\ Alone => EarlyReturnMeansOverlap
  BY DEF Alone, AloneOn, EarlyReturnMeansOverlap
<1>4. QED
  BY <1>1, <1>2, <1>3, Typing, PlacesAlways, NotificationsBalance, PTL DEF Spec, IInv

(* Any number of calls of either kind: the three together. *)
THEOREM CallsCorrect == Spec => []CallsAreSound
  BY Typing, NotificationsBalance, EarlyReturnsAreStolen, PTL DEF CallsAreSound

(* A behaviour of the whole is one of RemoteService, as its state is of nobody     *)
(* else's concern: so the same holds of it. *)
THEOREM CallsInBackground == BackgroundSpec => Spec /\ []CallsAreSound
<1>1. BackgroundInit => Init
  BY DEF BackgroundInit
<1>2. [BackgroundNext]_everything => [Next]_vars
  <2> SUFFICES ASSUME [BackgroundNext]_everything  PROVE  [Next]_vars
    OBVIOUS
  <2>1. CASE UNCHANGED everything
    BY <2>1 DEF everything
  <2>2. QED
    BY <2>1 DEF BackgroundNext, OfRemote, OfHandler, OfServer, OfTracker
<1>3. BackgroundSpec => Spec
  BY <1>1, <1>2, PTL DEF BackgroundSpec, Spec
<1>4. QED
  BY <1>3, CallsCorrect, PTL

(***************************************************************************)
(* ResourcesServer.                                                        *)
(***************************************************************************)

(* Every load starts one thread at most, and one that reloads is awake. *)
ThreadsInv ==
  /\ asleep + awake + (IF init = "idle" THEN 0 ELSE 1) <= inits
  /\ reloading => awake > 0

(* The list holds for each alias the handler the map has, and none for that of    *)
(* the handler that is going to be added. *)
ListInv ==
  /\ adder # "idle" => adding \in Server!Handlers
  /\ \A h \in activeHandlers :
       h = handlersMap[h.alias] /\ (adder = "add" => h.alias # adding.alias)

(* A server that runs has all the handlers, or a request to reload it is going to  *)
(* be made, or has been made since the last reload began. *)
ServedInv ==
  server = "running" =>
    served = activeHandlers \/ adder = "request" \/ (mustReload /\ ~reloading)

(* After dispose nobody is left to start the server, unless it came in between. *)
DisposedInv ==
  /\ disposed => mustStop
  /\ disposed /\ ~raced => init = "idle" /\ awake = 0 /\ server # "running"

ServerIInv == Server!TypeOK /\ ThreadsInv /\ ListInv /\ ServedInv /\ DisposedInv

LEMMA ServerInitInv == Server!Init => ServerIInv
<1> SUFFICES ASSUME Server!Init  PROVE  ServerIInv
  OBVIOUS
<1> USE Assumptions DEF Server!Init, Server!ServerAssumption
<1>1. Server!TypeOK
  <2>1. handlersMap \in [Aliases -> Server!Handlers \cup {Server!NoHandler}]
    OBVIOUS
  <2>2. /\ init \in {"idle", "create", "list", "start", "thread"}
        /\ server \in {"none", "new", "running", "stopped"}
        /\ adder \in {"idle", "begin", "add", "request"}
    OBVIOUS
  <2>3. {mustReload, recent, reloading, mustStop, disposed, died, raced} \subseteq BOOLEAN
    OBVIOUS
  <2>4. /\ asleep \in 0..MaxInits /\ awake \in 0..MaxInits
        /\ inits \in 0..MaxInits /\ adds \in 0..MaxAdds
    OBVIOUS
  <2>5. QED
    BY <2>1, <2>2, <2>3, <2>4 DEF Server!TypeOK
<1>2. ThreadsInv /\ ListInv
  BY DEF ThreadsInv, ListInv
<1>3. ServedInv /\ DisposedInv
  BY DEF ServedInv, DisposedInv
<1>4. QED
  BY <1>1, <1>2, <1>3 DEF ServerIInv

LEMMA ServerTyped ==
  ASSUME Server!TypeOK, ThreadsInv, ListInv, Server!Next
  PROVE  Server!TypeOK'
<1> USE Assumptions DEF Server!ServerAssumption, Server!TypeOK, Server!threads
<1>1. CASE Server!Load
  BY <1>1 DEF Server!Load
<1>2. CASE Server!Initialising
  <2>1. CASE Server!CreateServer
    BY <2>1 DEF Server!CreateServer
  <2>2. CASE Server!CreateList
    BY <2>2 DEF Server!CreateList
  <2>3. CASE Server!StartServer
    BY <2>3 DEF Server!StartServer, Server!ServerStarts
  <2>4. CASE Server!StartThread
    BY <2>4 DEF Server!StartThread, ThreadsInv
  <2>5. QED
    BY <1>2, <2>1, <2>2, <2>3, <2>4 DEF Server!Initialising
<1>3. CASE Server!TimePasses
  BY <1>3 DEF Server!TimePasses
<1>4. CASE Server!Reloading
  <2>1. CASE Server!LoopTest
    BY <2>1 DEF Server!LoopTest, ThreadsInv
  <2>2. CASE Server!NothingToDo
    BY <2>2 DEF Server!NothingToDo, ThreadsInv
  <2>3. CASE Server!DoReload
    BY <2>3 DEF Server!DoReload
  <2>4. CASE Server!Reloaded
    <3>1. /\ asleep' \in 0..MaxInits /\ awake' \in 0..MaxInits
          /\ inits' \in 0..MaxInits
      BY <2>4 DEF Server!Reloaded, ThreadsInv
    <3>2. /\ served' \subseteq activeHandlers'
          /\ server' \in {"none", "new", "running", "stopped"}
      BY <2>4 DEF Server!Reloaded, Server!ServerStarts
    <3>3. {mustReload', recent', reloading', mustStop', disposed', died', raced'}
            \subseteq BOOLEAN
      BY <2>4 DEF Server!Reloaded
    <3>4. QED
      BY <2>4, <3>1, <3>2, <3>3 DEF Server!Reloaded
  <2>5. QED
    BY <1>4, <2>1, <2>2, <2>3, <2>4 DEF Server!Reloading
<1>5. CASE Server!StopThread
  BY <1>5 DEF Server!StopThread
<1>6. CASE Server!StopServer
  BY <1>6 DEF Server!StopServer
<1>7. CASE Server!Adding
  BY <1>7 DEF Server!Adding, Server!RemoveHandler, Server!AddHandler,
              Server!ReloadServer, ListInv, Server!Handlers
<1>8. ASSUME NEW a \in Aliases, Server!AddAlias(a)  PROVE  Server!TypeOK'
  BY <1>8 DEF Server!AddAlias, Server!Handlers
<1>9. QED
  BY <1>1, <1>2, <1>3, <1>4, <1>5, <1>6, <1>7, <1>8 DEF Server!Next

LEMMA ServerThreads ==
  ASSUME Server!TypeOK, ThreadsInv, Server!Next
  PROVE  ThreadsInv'
<1> USE Assumptions DEF Server!ServerAssumption, Server!TypeOK, Server!threads, ThreadsInv
<1>1. CASE Server!Load
  BY <1>1 DEF Server!Load
<1>2. CASE Server!Initialising
  BY <1>2 DEF Server!Initialising, Server!CreateServer, Server!CreateList,
              Server!StartServer, Server!StartThread
<1>3. CASE Server!TimePasses
  BY <1>3 DEF Server!TimePasses
<1>4. CASE Server!Reloading
  BY <1>4 DEF Server!Reloading, Server!LoopTest, Server!NothingToDo, Server!DoReload,
              Server!Reloaded
<1>5. CASE Server!StopThread \/ Server!StopServer
  BY <1>5 DEF Server!StopThread, Server!StopServer
<1>6. CASE Server!Adding
  BY <1>6 DEF Server!Adding, Server!RemoveHandler, Server!AddHandler, Server!ReloadServer
<1>7. ASSUME NEW a \in Aliases, Server!AddAlias(a)  PROVE  ThreadsInv'
  BY <1>7 DEF Server!AddAlias
<1>8. QED
  BY <1>1, <1>2, <1>3, <1>4, <1>5, <1>6, <1>7 DEF Server!Next

LEMMA ServerList ==
  ASSUME Server!TypeOK, ListInv, Server!Next
  PROVE  ListInv'
<1> USE Assumptions DEF Server!ServerAssumption, Server!TypeOK, Server!threads, ListInv
<1>1. CASE Server!Load \/ Server!TimePasses \/ Server!StopThread \/ Server!StopServer
  BY <1>1 DEF Server!Load, Server!TimePasses, Server!StopThread, Server!StopServer
<1>2. CASE Server!Initialising
  BY <1>2 DEF Server!Initialising, Server!CreateServer, Server!CreateList,
              Server!StartServer, Server!StartThread
<1>3. CASE Server!Reloading
  BY <1>3 DEF Server!Reloading, Server!LoopTest, Server!NothingToDo, Server!DoReload,
              Server!Reloaded
<1>4. CASE Server!RemoveHandler
  BY <1>4 DEF Server!RemoveHandler, Server!Handlers
<1>5. CASE Server!AddHandler
  BY <1>5 DEF Server!AddHandler, Server!Handlers
<1>6. CASE Server!ReloadServer
  BY <1>6 DEF Server!ReloadServer
<1>7. ASSUME NEW a \in Aliases, Server!AddAlias(a)  PROVE  ListInv'
  BY <1>7 DEF Server!AddAlias, Server!Handlers
<1>8. QED
  BY <1>1, <1>2, <1>3, <1>4, <1>5, <1>6, <1>7 DEF Server!Next, Server!Adding

LEMMA ServerServed ==
  ASSUME Server!TypeOK, ServedInv, Server!Next
  PROVE  ServedInv'
<1> USE DEF Server!TypeOK, Server!threads, ServedInv
<1>1. CASE Server!Load \/ Server!TimePasses \/ Server!StopThread \/ Server!StopServer
  BY <1>1 DEF Server!Load, Server!TimePasses, Server!StopThread, Server!StopServer
<1>2. CASE Server!CreateServer \/ Server!CreateList \/ Server!StartThread
  BY <1>2 DEF Server!CreateServer, Server!CreateList, Server!StartThread
<1>3. CASE Server!StartServer
  BY <1>3 DEF Server!StartServer, Server!ServerStarts
<1>4. CASE Server!LoopTest \/ Server!NothingToDo \/ Server!DoReload
  BY <1>4 DEF Server!LoopTest, Server!NothingToDo, Server!DoReload
<1>5. CASE Server!Reloaded
  BY <1>5 DEF Server!Reloaded, Server!ServerStarts
<1>6. CASE Server!Adding
  BY <1>6 DEF Server!Adding, Server!RemoveHandler, Server!AddHandler, Server!ReloadServer
<1>7. ASSUME NEW a \in Aliases, Server!AddAlias(a)  PROVE  ServedInv'
  BY <1>7 DEF Server!AddAlias
<1>8. QED
  BY <1>1, <1>2, <1>3, <1>4, <1>5, <1>6, <1>7
     DEF Server!Next, Server!Initialising, Server!Reloading

LEMMA ServerDisposed ==
  ASSUME Server!TypeOK, ThreadsInv, DisposedInv, Server!Next
  PROVE  DisposedInv'
<1> USE DEF Server!TypeOK, Server!threads, DisposedInv
<1>1. CASE Server!Load \/ Server!TimePasses \/ Server!StopThread
  BY <1>1 DEF Server!Load, Server!TimePasses, Server!StopThread
<1>2. CASE Server!StopServer
  <2>1. /\ mustStop' /\ init' = init /\ awake' = awake
        /\ server' # "running"
    BY <1>2 DEF Server!StopServer
  <2>2. ~raced' => ~(init # "idle" \/ awake > 0)
    BY <1>2 DEF Server!StopServer
  <2>3. QED
    BY <2>1, <2>2
<1>3. CASE Server!Initialising
  BY <1>3 DEF Server!Initialising, Server!CreateServer, Server!CreateList,
              Server!StartServer, Server!StartThread
<1>4. CASE Server!LoopTest \/ Server!NothingToDo \/ Server!DoReload
  BY <1>4 DEF Server!LoopTest, Server!NothingToDo, Server!DoReload
<1>5. CASE Server!Reloaded
  BY <1>5 DEF Server!Reloaded, ThreadsInv
<1>6. CASE Server!Adding
  BY <1>6 DEF Server!Adding, Server!RemoveHandler, Server!AddHandler, Server!ReloadServer
<1>7. ASSUME NEW a \in Aliases, Server!AddAlias(a)  PROVE  DisposedInv'
  BY <1>7 DEF Server!AddAlias
<1>8. QED
  BY <1>1, <1>2, <1>3, <1>4, <1>5, <1>6, <1>7 DEF Server!Next, Server!Reloading

LEMMA ServerNextInv == ServerIInv /\ Server!Next => ServerIInv'
BY ServerTyped, ServerThreads, ServerList, ServerServed, ServerDisposed DEF ServerIInv

LEMMA ServerStutter == ServerIInv /\ UNCHANGED Server!vars => ServerIInv'
BY DEF ServerIInv, Server!TypeOK, ThreadsInv, ListInv, ServedInv, DisposedInv,
       Server!vars, Server!threads

LEMMA ServerIInvSound == ServerIInv => Server!ServerIsSound
BY DEF ServerIInv, ListInv, ServedInv, DisposedInv, Server!ServerIsSound,
       Server!NoRequestLost, Server!OneForAlias, Server!StaysDisposed

(* The invariant of the server alone. *)
THEOREM ServerInvariance == Server!Spec => []ServerIInv
<1>1. ServerIInv /\ [Server!Next]_Server!vars => ServerIInv'
  BY ServerNextInv, ServerStutter
<1>2. QED
  BY ServerInitInv, <1>1, PTL DEF Server!Spec

(* However many handlers are added while threads load, reload and dispose: no      *)
(* request to reload is lost, an alias stands for one directory, and a server that  *)
(* was disposed of stays so unless a thread was in the middle of starting it.        *)
THEOREM ServerAlone == Server!Spec => []Server!ServerIsSound
BY ServerInvariance, ServerIInvSound, PTL

(* The same of the behaviours that MCBackground checks. *)
THEOREM ServerCorrect == BackgroundSpec => []ServerIsSound
<1> DEFINE Inv == part = "server" => ServerIInv
<1>1. BackgroundInit => Inv
  BY ServerInitInv DEF BackgroundInit, Tracks
<1>2. Inv /\ [BackgroundNext]_everything => Inv'
  <2> SUFFICES ASSUME Inv, [BackgroundNext]_everything, part' = "server"
               PROVE  ServerIInv'
    OBVIOUS
  <2>1. CASE OfServer(Server!Next)
    BY <2>1, ServerNextInv DEF OfServer
  <2>2. CASE UNCHANGED everything
    BY <2>2, ServerStutter DEF everything, ofServer, Server!vars, Server!threads
  <2>3. QED
    BY <2>1, <2>2
       DEF BackgroundNext, OfRemote, OfHandler, OfTracker, Tracks
<1>3. Inv => ServerIsSound
  BY ServerIInvSound DEF ServerIsSound
<1>4. QED
  BY <1>1, <1>2, <1>3, PTL DEF BackgroundSpec

(***************************************************************************)
(* SourcesTracker.  Reuses, or b, says whether the SourceFiles are used again.      *)
(***************************************************************************)

Age(f) == now + 1 - lastModified[f]

(* A content that has not been reported, and should be. *)
Unseen(f) ==
  content[f] # Tracker(TRUE)!Missing /\ seen[f] # content[f] /\ ~hidden[f] /\ f \notin changed

(* The checksum that is known is that of another content, and is looked at in time. *)
Differs(b, f) == b /\ checkSum[f] \notin {Tracker(b)!Missing, content[f]} /\ Age(f) <= Second

(* The next comparison with the state shows that the file has changed: by its time   *)
(* stamp, or by its checksum. *)
WillShow(b, f) == state[f] # lastModified[f] \/ Differs(b, f)

(* What the comparison of a captured file that is still to come shows; if the file   *)
(* was written after it had been captured, the next round will show it. *)
Awaited(b, f) == IF newState[f] = lastModified[f] THEN WillShow(b, f) ELSE f \notin steady

(* What is written after the comparison is left to the next round. *)
Later(b, f) == f \notin steady /\ (newState[f] # lastModified[f] \/ Differs(b, f))

IsCaptured(f) == newState[f] # Tracker(TRUE)!NoEntry
Comparing == {"compare", "digest", "update"}

(* Where an unseen content stands in each phase of a round. *)
BetweenRounds(b, f) ==
  /\ round \in {"sleep", "report"} =>
       WillShow(b, f) /\ (f \in steady => state[f] = Tracker(b)!NoEntry)
  /\ round = "capture" /\ ~IsCaptured(f) => WillShow(b, f)

InRound(b, f) ==
  /\ round = "capture" \/ (round \in Comparing /\ f \in todo) => Awaited(b, f)
  /\ round = "digest" /\ current = {f} =>
       content[f] # oldChecksum \/ (newState[f] # lastModified[f] /\ f \notin steady)
  /\ round \in Comparing /\ f \notin todo /\ (round = "compare" \/ current # {f}) =>
       Later(b, f)

Owes(b, f) == BetweenRounds(b, f) /\ (IsCaptured(f) => InRound(b, f))

ChangesInv(b) == \A f \in Files : Unseen(f) => Owes(b, f)

(* Contents are numbered in the order they are written. *)
Numbered ==
  /\ \A f \in Files : content[f] <= changes + 1 /\ checkSum[f] <= changes + 1
  /\ oldChecksum <= changes + 1

PhasesInv ==
  /\ round \in {"sleep", "report"} => \A f \in Files : ~IsCaptured(f)
  /\ round \in {"sleep", "capture"} => changed = {}
  /\ round \notin {"digest", "update"} => current = {}
  /\ round = "capture" => \A f \in todo : ~IsCaptured(f)
  /\ round \in {"digest", "update"} => current \cap todo = {}

TrackerIInv(b) == Tracker(b)!TypeOK /\ Numbered /\ PhasesInv /\ ChangesInv(b)

LEMMA StampIsOfThisSecond ==
  ASSUME NEW b \in BOOLEAN, now \in Nat
  PROVE  /\ Tracker(b)!Stamp \in 1..(now + 1)
         /\ now + 1 - Tracker(b)!Stamp < Second
<1>1. Second \in Nat \ {0}
  BY Assumptions DEF Tracker!TrackerAssumption
<1>2. now % Second \in 0..(Second - 1) /\ now % Second <= now
  BY <1>1
<1>3. QED
  BY <1>1, <1>2 DEF Tracker!Stamp

LEMMA TrackerInitInv ==
  ASSUME NEW b \in BOOLEAN, Tracker(b)!Init
  PROVE  TrackerIInv(b)
<1> USE Assumptions DEF Tracker!TrackerAssumption, Tracker!Missing, Tracker!NoEntry
<1>1. Tracker(b)!TypeOK
  <2> USE DEF Tracker!Init, Tracker!Contents, Tracker!Stamps
  <2>1. /\ content \in [Files -> Tracker(b)!Contents] /\ seen = content
        /\ lastModified \in [Files -> Tracker(b)!Stamps]
        /\ \A f \in Files : content[f] = 0 <=> lastModified[f] = 0
    OBVIOUS
  <2>2. filesMap.known = TRUE /\ filesMap.files \subseteq Files
    BY DEF Tracker!Existing
  <2>3. /\ state \in [Files -> Tracker(b)!Stamps \cup {-1}]
        /\ newState \in [Files -> Tracker(b)!Stamps \cup {-1}]
        /\ checkSum \in [Files -> Tracker(b)!Contents]
        /\ hidden \in [Files -> BOOLEAN]
    OBVIOUS
  <2>4. /\ now \in 0..MaxTime /\ changes \in 0..MaxChanges
        /\ counter \in 0..CAPTURE_COUNTER /\ oldChecksum \in Tracker(b)!Contents
    OBVIOUS
  <2>5. steady \subseteq Files
    OBVIOUS
  <2>6. seen \in [Files -> Tracker(b)!Contents] /\ round = "sleep"
        /\ todo = {} /\ current = {} /\ changed = {}
    BY <2>1
  <2>7. QED
    BY <2>1, <2>2, <2>3, <2>4, <2>5, <2>6 DEF Tracker!TypeOK
<1>2. Numbered /\ PhasesInv
  BY DEF Tracker!Init, Numbered, PhasesInv, IsCaptured
<1>3. ChangesInv(b)
  BY DEF Tracker!Init, ChangesInv, Unseen
<1>4. QED
  BY <1>1, <1>2, <1>3 DEF TrackerIInv

LEMMA TrackerTyped ==
  ASSUME NEW b \in BOOLEAN, Tracker(b)!TypeOK, Tracker(b)!Next
  PROVE  Tracker(b)!TypeOK'
<1> USE Assumptions DEF Tracker!TrackerAssumption, Tracker!Missing, Tracker!NoEntry,
        Tracker!TypeOK, Tracker!Contents, Tracker!Stamps, Tracker!files
<1>1. CASE Tracker(b)!BeginRound
  BY <1>1 DEF Tracker!BeginRound, Tracker!List, Tracker!Existing
<1>2. CASE Tracker(b)!Captured
  BY <1>2 DEF Tracker!Captured
<1>3. CASE Tracker(b)!Compared
  BY <1>3 DEF Tracker!Compared
<1>4. CASE Tracker(b)!EndRound
  BY <1>4 DEF Tracker!EndRound
<1>5. ASSUME NEW f \in Files, Tracker(b)!AddFile(f)  PROVE  Tracker(b)!TypeOK'
  BY <1>5 DEF Tracker!AddFile
<1>6. ASSUME NEW f \in Files, Tracker(b)!Compare(f)  PROVE  Tracker(b)!TypeOK'
  BY <1>6 DEF Tracker!Compare
<1>7. ASSUME NEW f \in Files, Tracker(b)!Digest(f)  PROVE  Tracker(b)!TypeOK'
  BY <1>7 DEF Tracker!Digest
<1>8. ASSUME NEW f \in Files, Tracker(b)!AddToChanged(f)  PROVE  Tracker(b)!TypeOK'
  BY <1>8 DEF Tracker!AddToChanged
<1>9. ASSUME NEW f \in Files, Tracker(b)!Report(f)  PROVE  Tracker(b)!TypeOK'
  BY <1>9 DEF Tracker!Report
<1>10. CASE Tracker(b)!Tick
  <2>1. now' \in 0..MaxTime
    BY <1>10 DEF Tracker!Tick
  <2>2. hidden' \in [Files -> BOOLEAN]
    BY <1>10 DEF Tracker!Tick
  <2>3. QED
    BY <1>10, <2>1, <2>2 DEF Tracker!Tick
<1>11. ASSUME NEW f \in Files, Tracker(b)!Write(f)  PROVE  Tracker(b)!TypeOK'
  BY <1>11, StampIsOfThisSecond DEF Tracker!Write
<1>12. ASSUME NEW f \in Files, Tracker(b)!Delete(f)  PROVE  Tracker(b)!TypeOK'
  BY <1>12 DEF Tracker!Delete
<1>13. QED
  BY <1>1, <1>2, <1>3, <1>4, <1>5, <1>6, <1>7, <1>8, <1>9, <1>10, <1>11, <1>12
     DEF Tracker!Next, Tracker!Step

LEMMA TrackerNumbered ==
  ASSUME NEW b \in BOOLEAN, Tracker(b)!TypeOK, Numbered, Tracker(b)!Next
  PROVE  Numbered'
<1> USE Assumptions DEF Tracker!TrackerAssumption, Tracker!Missing, Tracker!NoEntry,
        Tracker!TypeOK, Tracker!Contents, Tracker!files, Numbered
<1>1. CASE Tracker(b)!BeginRound \/ Tracker(b)!Captured \/ Tracker(b)!Compared
             \/ Tracker(b)!EndRound \/ Tracker(b)!Tick
  BY <1>1 DEF Tracker!BeginRound, Tracker!Captured, Tracker!Compared,
              Tracker!EndRound, Tracker!Tick
<1>2. ASSUME NEW f \in Files, Tracker(b)!AddFile(f)  PROVE  Numbered'
  BY <1>2 DEF Tracker!AddFile
<1>3. ASSUME NEW f \in Files, Tracker(b)!Compare(f)  PROVE  Numbered'
  BY <1>3 DEF Tracker!Compare
<1>4. ASSUME NEW f \in Files, Tracker(b)!Digest(f) \/ Tracker(b)!Report(f)
      PROVE  Numbered'
  BY <1>4 DEF Tracker!Digest, Tracker!Report
<1>5. ASSUME NEW f \in Files, Tracker(b)!AddToChanged(f)  PROVE  Numbered'
  BY <1>5 DEF Tracker!AddToChanged
<1>6. ASSUME NEW f \in Files, Tracker(b)!Write(f)  PROVE  Numbered'
  BY <1>6 DEF Tracker!Write
<1>7. ASSUME NEW f \in Files, Tracker(b)!Delete(f)  PROVE  Numbered'
  BY <1>7 DEF Tracker!Delete
<1>8. QED
  BY <1>1, <1>2, <1>3, <1>4, <1>5, <1>6, <1>7 DEF Tracker!Next, Tracker!Step

LEMMA TrackerPhases ==
  ASSUME NEW b \in BOOLEAN, Tracker(b)!TypeOK, PhasesInv, Tracker(b)!Next
  PROVE  PhasesInv'
<1> USE DEF Tracker!TypeOK, Tracker!NoEntry, Tracker!files, PhasesInv, IsCaptured
<1>1. CASE Tracker(b)!BeginRound
  <2>1. todo' \subseteq Files
    BY <1>1 DEF Tracker!BeginRound, Tracker!List, Tracker!Existing
  <2>2. \A f \in Files : ~IsCaptured(f)'
    BY <1>1 DEF Tracker!BeginRound
  <2>3. QED
    BY <1>1, <2>1, <2>2 DEF Tracker!BeginRound
<1>2. CASE Tracker(b)!Captured \/ Tracker(b)!Compared \/ Tracker(b)!EndRound
             \/ Tracker(b)!Tick
  BY <1>2 DEF Tracker!Captured, Tracker!Compared, Tracker!EndRound, Tracker!Tick
<1>3. ASSUME NEW f \in Files, Tracker(b)!AddFile(f)  PROVE  PhasesInv'
  BY <1>3 DEF Tracker!AddFile
<1>4. ASSUME NEW f \in Files, Tracker(b)!Compare(f)  PROVE  PhasesInv'
  BY <1>4 DEF Tracker!Compare
<1>5. ASSUME NEW f \in Files,
             Tracker(b)!Digest(f) \/ Tracker(b)!AddToChanged(f) \/ Tracker(b)!Report(f)
      PROVE  PhasesInv'
  BY <1>5 DEF Tracker!Digest, Tracker!AddToChanged, Tracker!Report
<1>6. ASSUME NEW f \in Files, Tracker(b)!Write(f) \/ Tracker(b)!Delete(f)
      PROVE  PhasesInv'
  BY <1>6 DEF Tracker!Write, Tracker!Delete
<1>7. QED
  BY <1>1, <1>2, <1>3, <1>4, <1>5, <1>6 DEF Tracker!Next, Tracker!Step

LEMMA WriteOwes ==
  ASSUME NEW b \in BOOLEAN, TrackerIInv(b), NEW g \in Files, Tracker(b)!Write(g),
         NEW f \in Files, Unseen(f)'
  PROVE  Owes(b, f)'
<1> USE DEF TrackerIInv, Tracker!TypeOK, Tracker!Write, Tracker!Missing, Tracker!NoEntry,
        Unseen, Owes
<1>1. CASE f # g
  <2>1. Unseen(f) /\ Owes(b, f)
    BY <1>1 DEF ChangesInv
  <2>2. QED
    BY <1>1, <2>1 DEF BetweenRounds, InRound, WillShow, Awaited, Later, Differs, Age,
                      IsCaptured
<1>2. CASE f = g
  <2>1. Age(f)' <= Second /\ f \notin steady'
    BY <1>2, StampIsOfThisSecond, Assumptions DEF Age, Tracker!TrackerAssumption
  <2>2. content'[f] = changes + 2 /\ content'[f] \notin {checkSum[f], oldChecksum}
    BY <1>2 DEF Numbered, Tracker!Contents
  <2>3. \/ lastModified'[f] # Tracker(b)!KnownStamp(f)
        \/ f \in current
        \/ Differs(b, f)'
    BY <1>2, <2>1, <2>2 DEF Differs, Tracker!SameSecond
  <2>4. CASE f \in current
    <3>1. current = {f} /\ round \in {"digest", "update"} /\ f \notin todo
      BY <2>4 DEF PhasesInv
    <3>2. QED
      BY <2>2, <3>1 DEF BetweenRounds, InRound
  <2>5. CASE lastModified'[f] # Tracker(b)!KnownStamp(f) \/ Differs(b, f)'
    <3>1. CASE round \in Comparing /\ f \notin todo
      <4>1. Later(b, f)'
        BY <2>1, <2>5, <3>1 DEF Later, Tracker!KnownStamp, Comparing
      <4>2. QED
        BY <2>2, <3>1, <4>1 DEF BetweenRounds, InRound, Comparing
    <3>2. CASE ~(round \in Comparing /\ f \notin todo)
      <4>1. WillShow(b, f)' /\ Awaited(b, f)'
        BY <2>1, <2>5, <3>2 DEF WillShow, Awaited, Tracker!KnownStamp, Comparing
      <4>2. QED
        BY <2>1, <2>2, <3>2, <4>1 DEF BetweenRounds, InRound, Comparing
    <3>3. QED
      BY <3>1, <3>2
  <2>6. QED
    BY <2>3, <2>4, <2>5
<1>3. QED
  BY <1>1, <1>2

LEMMA DeleteOwes ==
  ASSUME NEW b \in BOOLEAN, TrackerIInv(b), NEW g \in Files, Tracker(b)!Delete(g),
         NEW f \in Files, Unseen(f)'
  PROVE  Owes(b, f)'
<1> USE DEF TrackerIInv, Tracker!TypeOK, Tracker!Delete, Tracker!Missing,
        Tracker!NoEntry, Tracker!files, Unseen, Owes
<1>1. f # g /\ Unseen(f) /\ Owes(b, f)
  BY DEF ChangesInv
<1>2. QED
  BY <1>1 DEF BetweenRounds, InRound, WillShow, Awaited, Later, Differs,
         Age, IsCaptured

LEMMA TickOwes ==
  ASSUME NEW b \in BOOLEAN, TrackerIInv(b), Tracker(b)!Tick,
         NEW f \in Files, Unseen(f)'
  PROVE  Owes(b, f)'
<1> USE DEF TrackerIInv, Tracker!TypeOK, Tracker!Tick, Tracker!Missing,
        Tracker!NoEntry, Unseen, Owes
<1>1. Unseen(f) /\ Owes(b, f)
  BY DEF ChangesInv
<1>2. \/ now + 1 - lastModified[f] < Second
      \/ lastModified[f] # Tracker(b)!KnownStamp(f)
      \/ f \in current
  <2>1. now \in Int /\ lastModified[f] \in Int /\ Second \in Int
    BY Assumptions DEF Tracker!Stamps, Tracker!TrackerAssumption
  <2>2. ~(/\ now + 1 - lastModified[f] >= Second
          /\ Tracker(b)!SameSecond(f, lastModified[f]) /\ seen[f] # content[f])
    OBVIOUS
  <2>3. f \notin changed /\ seen[f] # content[f]
    BY <1>1
  <2>4. QED
    BY <2>1, <2>2, <2>3 DEF Tracker!SameSecond
<1>3. Differs(b, f) /\ now + 1 - lastModified[f] < Second => Differs(b, f)'
  BY Assumptions DEF Differs, Age, Tracker!Stamps, Tracker!TrackerAssumption
<1>4. CASE round \in {"sleep", "report"}
  <2>1. current = {} /\ Tracker(b)!KnownStamp(f) = state[f] /\ ~IsCaptured(f)
    BY <1>4 DEF PhasesInv, Tracker!KnownStamp
  <2>2. WillShow(b, f)'
    BY <1>1, <1>2, <1>3, <1>4, <2>1 DEF BetweenRounds, WillShow
  <2>3. QED
    BY <1>1, <1>4, <2>1, <2>2 DEF BetweenRounds, IsCaptured
<1>5. CASE round = "capture" \/ (round \in Comparing /\ f \in todo)
  <2>1. f \notin current /\ Tracker(b)!KnownStamp(f) = state[f]
    BY <1>5 DEF PhasesInv, Tracker!KnownStamp
  <2>2. WillShow(b, f) => WillShow(b, f)'
    BY <1>2, <1>3, <2>1 DEF WillShow
  <2>3. QED
    BY <1>1, <1>5, <2>1, <2>2 DEF BetweenRounds, InRound, Awaited, IsCaptured, Comparing
<1>6. CASE round \in Comparing /\ f \notin todo
  <2>1. Tracker(b)!KnownStamp(f) = newState[f]
    BY <1>6 DEF Tracker!KnownStamp, Comparing
  <2>2. CASE round # "compare" /\ current = {f}
    BY <1>1, <1>6, <2>2 DEF BetweenRounds, InRound, IsCaptured, Comparing
  <2>3. CASE round = "compare" \/ current # {f}
    <3>1. f \notin current
      BY <1>6, <2>3 DEF PhasesInv
    <3>2. Later(b, f) => Later(b, f)'
      BY <1>2, <1>3, <2>1, <3>1 DEF Later
    <3>3. QED
      BY <1>1, <1>6, <2>3, <3>2 DEF BetweenRounds, InRound, IsCaptured, Comparing
  <2>4. QED
    BY <2>2, <2>3
<1>7. QED
  BY <1>4, <1>5, <1>6 DEF Comparing

LEMMA BeginOwes ==
  ASSUME NEW b \in BOOLEAN, TrackerIInv(b), Tracker(b)!BeginRound,
         NEW f \in Files, Unseen(f)'
  PROVE  Owes(b, f)'
<1> USE DEF TrackerIInv, Tracker!TypeOK, Tracker!BeginRound, Tracker!Missing,
        Tracker!NoEntry, Tracker!files, Unseen, Owes
<1>1. Unseen(f) /\ BetweenRounds(b, f)
  BY DEF ChangesInv
<1>2. WillShow(b, f)' /\ ~IsCaptured(f)'
  BY <1>1 DEF BetweenRounds, WillShow, Differs, Age, IsCaptured
<1>3. QED
  BY <1>2 DEF BetweenRounds

LEMMA AddFileOwes ==
  ASSUME NEW b \in BOOLEAN, TrackerIInv(b), NEW g \in Files, Tracker(b)!AddFile(g),
         NEW f \in Files, Unseen(f)'
  PROVE  Owes(b, f)'
<1> USE DEF TrackerIInv, Tracker!TypeOK, Tracker!AddFile, Tracker!Missing,
        Tracker!NoEntry, Tracker!files, Unseen, Owes
<1>1. Unseen(f) /\ Owes(b, f)
  BY DEF ChangesInv
<1>2. CASE f # g
  BY <1>1, <1>2 DEF BetweenRounds, InRound, WillShow, Awaited, Later, Differs,
         Age, IsCaptured
<1>3. CASE f = g
  <2>1. WillShow(b, f)
    BY <1>1, <1>3 DEF PhasesInv, BetweenRounds
  <2>2. WillShow(b, f)' /\ newState'[f] = lastModified'[f]
    BY <1>3, <2>1 DEF WillShow, Differs, Age
  <2>3. QED
    BY <2>2 DEF BetweenRounds, InRound, Awaited, Comparing
<1>4. QED
  BY <1>2, <1>3

LEMMA CapturedOwes ==
  ASSUME NEW b \in BOOLEAN, TrackerIInv(b), Tracker(b)!Captured,
         NEW f \in Files, Unseen(f)'
  PROVE  Owes(b, f)'
<1> USE DEF TrackerIInv, Tracker!TypeOK, Tracker!Captured, Tracker!Missing,
        Tracker!NoEntry, Tracker!files, Unseen, Owes
<1>1. Unseen(f) /\ Owes(b, f)
  BY DEF ChangesInv
<1>2. IsCaptured(f)' => f \in todo' /\ Awaited(b, f)'
  BY <1>1 DEF InRound, WillShow, Awaited, Differs, Age, IsCaptured
<1>3. QED
  BY <1>2 DEF BetweenRounds, InRound

LEMMA CompareOwes ==
  ASSUME NEW b \in BOOLEAN, TrackerIInv(b), NEW g \in Files, Tracker(b)!Compare(g),
         NEW f \in Files, Unseen(f)'
  PROVE  Owes(b, f)'
<1> USE DEF TrackerIInv, Tracker!TypeOK, Tracker!Compare, Tracker!Missing,
        Tracker!NoEntry, Tracker!files, Unseen, Owes
<1>1. Unseen(f) /\ Owes(b, f)
  BY DEF ChangesInv
<1>2. CASE f # g
  <2>1. /\ round \in Comparing /\ round' \in Comparing
        /\ round = "compare" \/ current # {f}
        /\ round' = "compare" \/ current' # {f}
        /\ f \in todo' <=> f \in todo
        /\ f \in changed' <=> f \in changed
    <3>1. round = "compare" /\ todo' = todo \ {g} /\ changed' = changed
      OBVIOUS
    <3>2. round' = "compare" \/ (round' \in {"digest", "update"} /\ current' = {g})
      <4>1. CASE newState[g] # state[g]
        BY <4>1
      <4>2. CASE newState[g] = state[g] /\ Tracker(b)!IsRecent(g)
        BY <4>2
      <4>3. CASE newState[g] = state[g] /\ ~Tracker(b)!IsRecent(g)
        BY <4>3
      <4>4. QED
        BY <4>1, <4>2, <4>3
    <3>3. QED
      BY <1>2, <3>1, <3>2 DEF Comparing
  <2>2. /\ IsCaptured(f)' <=> IsCaptured(f)
        /\ Awaited(b, f)' <=> Awaited(b, f)
        /\ Later(b, f)' <=> Later(b, f)
    BY <1>2 DEF IsCaptured, Awaited, Later, WillShow, Differs, Age
  <2>3. QED
    BY <1>1, <2>1, <2>2 DEF BetweenRounds, InRound, Comparing
<1>3. CASE f = g
  <2>1. IsCaptured(f) => Awaited(b, f)
    BY <1>1, <1>3 DEF InRound, Comparing
  <2>2. CASE newState[f] # state[f]
    BY <1>3, <2>2 DEF BetweenRounds, InRound
  <2>3. CASE newState[f] = state[f] /\ newState[f] # lastModified[f]
    BY <1>3, <2>1, <2>3
    DEF BetweenRounds, InRound, WillShow, Awaited, Later, Differs, Age, IsCaptured
  <2>4. CASE newState[f] = state[f] /\ newState[f] = lastModified[f]
    <3>1. Differs(b, f) /\ Tracker(b)!IsRecent(f)
      BY <2>1, <2>4
      DEF Awaited, WillShow, Differs, Age, Tracker!IsRecent, Tracker!Stamps, IsCaptured
    <3>2. round' = "digest" /\ oldChecksum' # content'[f] /\ f \notin todo'
      BY <1>3, <2>4, <3>1 DEF Differs
    <3>3. QED
      BY <1>3, <3>2 DEF BetweenRounds, InRound
  <2>5. QED
    BY <2>2, <2>3, <2>4
<1>4. QED
  BY <1>2, <1>3

LEMMA DigestOwes ==
  ASSUME NEW b \in BOOLEAN, TrackerIInv(b), NEW g \in Files, Tracker(b)!Digest(g),
         NEW f \in Files, Unseen(f)'
  PROVE  Owes(b, f)'
<1> USE DEF TrackerIInv, Tracker!TypeOK, Tracker!Digest, Tracker!Missing,
        Tracker!NoEntry, Tracker!files, Unseen, Owes
<1>1. Unseen(f) /\ Owes(b, f)
  BY DEF ChangesInv
<1>2. CASE f # g
  <2>1. /\ round \in Comparing /\ round' \in Comparing
        /\ round = "compare" \/ current # {f}
        /\ round' = "compare" \/ current' # {f}
        /\ f \in todo' <=> f \in todo
        /\ f \in changed' <=> f \in changed
    BY <1>2 DEF Comparing
  <2>2. /\ IsCaptured(f)' <=> IsCaptured(f)
        /\ Awaited(b, f)' <=> Awaited(b, f)
        /\ Later(b, f)' <=> Later(b, f)
    BY <1>2 DEF IsCaptured, Awaited, Later, WillShow, Differs, Age
  <2>3. QED
    BY <1>1, <2>1, <2>2 DEF BetweenRounds, InRound, Comparing
<1>3. CASE f = g
  <2>1. f \notin todo'
    BY <1>3 DEF PhasesInv
  <2>2. CASE content[f] = oldChecksum
    BY <1>1, <1>3, <2>1, <2>2
    DEF BetweenRounds, InRound, WillShow, Awaited, Later, Differs, Age, IsCaptured
  <2>3. CASE content[f] # oldChecksum
    BY <1>3, <2>1, <2>3 DEF BetweenRounds, InRound
  <2>4. QED
    BY <2>2, <2>3
<1>4. QED
  BY <1>2, <1>3

LEMMA AddToChangedOwes ==
  ASSUME NEW b \in BOOLEAN, TrackerIInv(b), NEW g \in Files, Tracker(b)!AddToChanged(g),
         NEW f \in Files, Unseen(f)'
  PROVE  Owes(b, f)'
<1> USE DEF TrackerIInv, Tracker!TypeOK, Tracker!AddToChanged, Tracker!Missing,
        Tracker!NoEntry, Tracker!files, Unseen, Owes
<1>1. Unseen(f) /\ Owes(b, f)
  BY DEF ChangesInv
<1>2. CASE f # g
  <2>1. /\ round \in Comparing /\ round' \in Comparing
        /\ round = "compare" \/ current # {f}
        /\ round' = "compare" \/ current' # {f}
        /\ f \in todo' <=> f \in todo
        /\ f \in changed' <=> f \in changed
    BY <1>2 DEF Comparing
  <2>2. /\ IsCaptured(f)' <=> IsCaptured(f)
        /\ Awaited(b, f)' <=> Awaited(b, f)
        /\ Later(b, f)' <=> Later(b, f)
    BY <1>2 DEF IsCaptured, Awaited, Later, WillShow, Differs, Age
  <2>3. QED
    BY <1>1, <2>1, <2>2 DEF BetweenRounds, InRound, Comparing
<1>3. CASE f = g
  BY <1>3 DEF PhasesInv, BetweenRounds, InRound
<1>4. QED
  BY <1>2, <1>3

LEMMA ComparedOwes ==
  ASSUME NEW b \in BOOLEAN, TrackerIInv(b), Tracker(b)!Compared,
         NEW f \in Files, Unseen(f)'
  PROVE  Owes(b, f)'
<1> USE DEF TrackerIInv, Tracker!TypeOK, Tracker!Compared, Tracker!Missing,
        Tracker!NoEntry, Tracker!files, Unseen, Owes
<1>1. Unseen(f) /\ Owes(b, f)
  BY DEF ChangesInv
<1>2. ~IsCaptured(f)'
  BY DEF IsCaptured
<1>3. ASSUME f \notin changed
      PROVE  /\ WillShow(b, f)'
             /\ f \in steady' => state'[f] = Tracker(b)!NoEntry
  <2>1. CASE IsCaptured(f)
    <3>1. Later(b, f)
      BY <1>1, <1>3, <2>1 DEF InRound, Comparing
    <3>2. QED
      BY <3>1, Assumptions
      DEF Later, WillShow, Differs, Age, Tracker!TrackerAssumption, Tracker!Stamps
  <2>2. CASE ~IsCaptured(f)
    BY <2>2 DEF IsCaptured, WillShow, Tracker!Stamps
  <2>3. QED
    BY <2>1, <2>2
<1>4. QED
  BY <1>2, <1>3 DEF BetweenRounds

LEMMA ReportOwes ==
  ASSUME NEW b \in BOOLEAN, TrackerIInv(b), NEW g \in Files, Tracker(b)!Report(g),
         NEW f \in Files, Unseen(f)'
  PROVE  Owes(b, f)'
<1> USE DEF TrackerIInv, Tracker!TypeOK, Tracker!Report, Tracker!Missing,
        Tracker!NoEntry, Tracker!files, Unseen, Owes
<1>1. f # g /\ Unseen(f) /\ Owes(b, f)
  BY DEF ChangesInv
<1>2. QED
  BY <1>1 DEF BetweenRounds, InRound, WillShow, Awaited, Later, Differs,
         Age, IsCaptured

LEMMA EndOwes ==
  ASSUME NEW b \in BOOLEAN, TrackerIInv(b), Tracker(b)!EndRound,
         NEW f \in Files, Unseen(f)'
  PROVE  Owes(b, f)'
<1> USE DEF TrackerIInv, Tracker!TypeOK, Tracker!EndRound, Tracker!Missing,
        Tracker!NoEntry, Tracker!files, Unseen, Owes
<1>1. Unseen(f) /\ BetweenRounds(b, f)
  BY DEF ChangesInv
<1>2. ~IsCaptured(f)
  BY DEF PhasesInv
<1>3. QED
  BY <1>1, <1>2 DEF BetweenRounds, WillShow, Differs, Age, IsCaptured

LEMMA TrackerNextInv ==
  ASSUME NEW b \in BOOLEAN, TrackerIInv(b), Tracker(b)!Next
  PROVE  TrackerIInv(b)'
<1>1. Tracker(b)!TypeOK' /\ Numbered' /\ PhasesInv'
  BY TrackerTyped, TrackerNumbered, TrackerPhases DEF TrackerIInv
<1>2. ASSUME NEW f \in Files, Unseen(f)'  PROVE  Owes(b, f)'
  BY <1>2, WriteOwes, DeleteOwes, TickOwes, BeginOwes, AddFileOwes, CapturedOwes,
     CompareOwes, DigestOwes, AddToChangedOwes, ComparedOwes, ReportOwes, EndOwes
  DEF Tracker!Next, Tracker!Step
<1>3. QED
  BY <1>1, <1>2 DEF TrackerIInv, ChangesInv

LEMMA TrackerStutter ==
  ASSUME NEW b \in BOOLEAN, TrackerIInv(b), UNCHANGED Tracker(b)!vars
  PROVE  TrackerIInv(b)'
<1> USE DEF Tracker!vars, Tracker!files
<1>1. Tracker(b)!TypeOK'
  BY DEF TrackerIInv, Tracker!TypeOK
<1>2. Numbered' /\ PhasesInv'
  BY DEF TrackerIInv, Numbered, PhasesInv, IsCaptured
<1>3. ChangesInv(b)'
  BY DEF TrackerIInv, ChangesInv, Unseen, Owes, BetweenRounds, InRound, WillShow, Awaited,
         Later, Differs, Age, IsCaptured
<1>4. QED
  BY <1>1, <1>2, <1>3 DEF TrackerIInv

LEMMA TrackerIInvSound ==
  ASSUME NEW b \in BOOLEAN, TrackerIInv(b)
  PROVE  Tracker(b)!TrackerIsSound
<1> USE DEF TrackerIInv, Tracker!Missing
<1>1. ASSUME NEW f \in Tracker(b)!Existing \cap steady, round = "sleep",
             state[f] # Tracker(b)!NoEntry, seen[f] # content[f], ~hidden[f]
      PROVE  FALSE
  <2>1. f \in Files /\ content[f] # Tracker(b)!Missing /\ f \notin changed
    BY <1>1 DEF Tracker!Existing, PhasesInv
  <2>2. QED
    BY <1>1, <2>1 DEF ChangesInv, Unseen, Owes, BetweenRounds
<1>2. QED
  BY <1>1 DEF Tracker!TrackerIsSound, Tracker!NoChangeMissed

(* The invariant of a tracker alone. *)
THEOREM TrackerInvariance ==
  ASSUME NEW b \in BOOLEAN
  PROVE  Tracker(b)!Spec => []TrackerIInv(b)
<1>1. Tracker(b)!Init => TrackerIInv(b)
  BY TrackerInitInv
<1>2. TrackerIInv(b) /\ [Tracker(b)!Next]_(Tracker(b)!vars) => TrackerIInv(b)'
  BY TrackerNextInv, TrackerStutter
<1>3. QED
  BY <1>1, <1>2, PTL DEF Tracker!Spec

(* Whatever is written and deleted at any point of a round, and however long rounds take: *)
(* after a round in which a file was left alone, what it holds has been reported, unless    *)
(* the change came in the second whose time stamp the tracker had already, and without a     *)
(* checksum known, or without a comparison before 1100 milliseconds were over. *)
THEOREM TrackerAlone ==
  ASSUME NEW b \in BOOLEAN
  PROVE  Tracker(b)!Spec => []Tracker(b)!TrackerIsSound
<1>1. TrackerIInv(b) => Tracker(b)!TrackerIsSound
  BY TrackerIInvSound
<1>2. QED
  BY TrackerInvariance, <1>1, PTL

(* The same of the behaviours that MCBackground checks. *)
THEOREM TrackerCorrect == BackgroundSpec => []TrackerIsSound
<1> DEFINE Inv == \A b \in BOOLEAN : Tracks(b) => TrackerIInv(b)
<1>1. BackgroundInit => Inv
  BY TrackerInitInv DEF BackgroundInit, Tracks
<1>2. Inv /\ [BackgroundNext]_everything => Inv'
  <2> SUFFICES ASSUME Inv, [BackgroundNext]_everything, NEW b \in BOOLEAN, Tracks(b)'
               PROVE  TrackerIInv(b)'
    OBVIOUS
  <2>1. CASE Tracks(b) /\ OfTracker(b, Tracker(b)!Next)
    BY <2>1, TrackerNextInv DEF OfTracker
  <2>2. CASE UNCHANGED everything
    <3>1. Tracks(b) /\ UNCHANGED Tracker(b)!vars
      BY <2>2 DEF everything, ofTracker, Tracks, Tracker!vars, Tracker!files
    <3>2. QED
      BY <3>1, TrackerStutter
  <2>3. QED
    BY <2>1, <2>2
       DEF BackgroundNext, OfRemote, OfHandler, OfServer, OfTracker, Tracks
<1>3. Inv => TrackerIsSound
  BY TrackerIInvSound DEF TrackerIsSound
<1>4. QED
  BY <1>1, <1>2, <1>3, PTL DEF BackgroundSpec

===============================================================================
