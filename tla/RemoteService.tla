---------------------------- MODULE RemoteService -----------------------------
(***************************************************************************)
(* codeOrchestra.colt.core.rpc.AbstractColtRemoteService: a remote call is    *)
(* handed to the JavaFX thread and its caller waits on the one monitor that    *)
(* all callers share.  The command notifies one waiter, any of them, when it   *)
(* is done.                                                                *)
(*                                                                         *)
(* A caller stands for one call of executeInDisplayAndWait or, if it is in    *)
(* Async, of executeInDisplayAsyncAndWait, whose command calls back later.     *)
(***************************************************************************)
EXTENDS Naturals, Sequences, FiniteSets

CONSTANTS Callers,   \* the calls
          Async,     \* those of executeInDisplayAsyncAndWait
          Spurious   \* may wait() return by itself, or be interrupted?

ASSUME CallersAssumption == IsFiniteSet(Callers) /\ Async \subseteq Callers
ASSUME SpuriousAssumption == Spurious \in BOOLEAN

VARIABLES
  pc,        \* what each caller is at
  fxQueue,   \* the Runnables handed to Platform.runLater
  running,   \* the commands that are done but have not notified yet
  handed,    \* asynchronous commands that will call back
  dropped,   \* those that threw: they never call back
  result,    \* result[0] or exception[0] of each call
  got,       \* what the call returned
  lost,      \* history: the notifications nobody waited for
  woken,     \* history: the wake-ups without a notification
  overlapped \* history: the calls during which another was in progress

callVars == <<handed, dropped, result>>
history == <<lost, woken, overlapped>>
vars == <<pc, fxQueue, running, callVars, got, history>>

Outcomes == {"none", "ok", "error"}

InProgress == {c \in Callers : pc[c] \in {"posted", "waiting", "woken"}}

(* The callers that have not been woken yet. *)
Unwoken == {c \in Callers : pc[c] \in {"posted", "waiting"}}

Queued == {fxQueue[i] : i \in DOMAIN fxQueue}

TypeOK ==
  /\ pc \in [Callers -> {"idle", "posted", "waiting", "woken", "returned",
                         "refused"}]
  /\ fxQueue \in Seq(Callers)
  /\ running \subseteq Callers /\ handed \subseteq Async /\ dropped \subseteq Async
  /\ result \in [Callers -> Outcomes]
  /\ got \in [Callers -> Outcomes]
  /\ lost \in Nat /\ woken \in Nat
  /\ overlapped \subseteq Callers

Init ==
  /\ pc = [c \in Callers |-> "idle"]
  /\ fxQueue = <<>>
  /\ running = {} /\ handed = {} /\ dropped = {}
  /\ result = [c \in Callers |-> "none"]
  /\ got = [c \in Callers |-> "none"]
  /\ lost = 0 /\ woken = 0
  /\ overlapped = {}

(***************************************************************************)
(* The callers.                                                            *)
(***************************************************************************)

(* The security token is not valid. *)
Refuse(c) ==
  /\ pc[c] = "idle"
  /\ pc' = [pc EXCEPT ![c] = "refused"]
  /\ UNCHANGED <<fxQueue, running, callVars, got, history>>

(* Platform.runLater *)
Post(c) ==
  /\ pc[c] = "idle"
  /\ pc' = [pc EXCEPT ![c] = "posted"]
  /\ fxQueue' = Append(fxQueue, c)
  /\ overlapped' = IF InProgress = {} THEN overlapped
                   ELSE overlapped \cup InProgress \cup {c}
  /\ UNCHANGED <<running, callVars, got, lost, woken>>

(* monitor.wait, whether the command was executed or not *)
Wait(c) ==
  /\ pc[c] = "posted"
  /\ pc' = [pc EXCEPT ![c] = "waiting"]
  /\ UNCHANGED <<fxQueue, running, callVars, got, history>>

(* A spurious wake-up, or an interrupt, which is ignored. *)
WakeAlone(c) ==
  /\ Spurious
  /\ pc[c] = "waiting"
  /\ pc' = [pc EXCEPT ![c] = "woken"]
  /\ woken' = woken + 1
  /\ UNCHANGED <<fxQueue, running, callVars, got, lost, overlapped>>

(* The caller returns what its own arrays hold by now: null if nothing. *)
Return(c) ==
  /\ pc[c] = "woken"
  /\ pc' = [pc EXCEPT ![c] = "returned"]
  /\ got' = [got EXCEPT ![c] = result[c]]
  /\ UNCHANGED <<fxQueue, running, callVars, history>>

(***************************************************************************)
(* The JavaFX thread, and the threads that call back.                       *)
(***************************************************************************)

(* The lambda of executeInDisplayAndWait: whatever the command throws is kept. *)
Execute ==
  /\ fxQueue # <<>>
  /\ Head(fxQueue) \notin Async
  /\ fxQueue' = Tail(fxQueue)
  /\ \E r \in {"ok", "error"} :
       result' = [result EXCEPT ![Head(fxQueue)] = r]
  /\ running' = running \cup {Head(fxQueue)}
  /\ UNCHANGED <<pc, handed, dropped, got, history>>

(* An asynchronous command is started; if it throws nobody is told. *)
ExecuteAsync ==
  /\ fxQueue # <<>>
  /\ Head(fxQueue) \in Async
  /\ fxQueue' = Tail(fxQueue)
  /\ \/ handed' = handed \cup {Head(fxQueue)} /\ UNCHANGED dropped
     \/ dropped' = dropped \cup {Head(fxQueue)} /\ UNCHANGED handed
  /\ UNCHANGED <<pc, running, result, got, history>>

(* onComplete and onError *)
CallBack(c) ==
  /\ c \in handed
  /\ handed' = handed \ {c}
  /\ \E r \in {"ok", "error"} : result' = [result EXCEPT ![c] = r]
  /\ running' = running \cup {c}
  /\ UNCHANGED <<pc, fxQueue, dropped, got, history>>

Waiting == {c \in Callers : pc[c] = "waiting"}

(* Variant: every waiter is woken. *)
NotifyEvery(c) ==
  /\ c \in running
  /\ running' = running \ {c}
  /\ pc' = [d \in Callers |-> IF pc[d] = "waiting" THEN "woken" ELSE pc[d]]
  /\ lost' = IF Waiting = {} THEN lost + 1 ELSE lost
  /\ UNCHANGED <<fxQueue, callVars, got, woken, overlapped>>

(* Variant: a command that failed does not notify. *)
NotifySuccess(c) ==
  /\ c \in running
  /\ result[c] = "ok"
  /\ running' = running \ {c}
  /\ \/ /\ Waiting = {}
        /\ lost' = lost + 1
        /\ UNCHANGED pc
     \/ /\ \E d \in Waiting : pc' = [pc EXCEPT ![d] = "woken"]
        /\ UNCHANGED lost
  /\ UNCHANGED <<fxQueue, callVars, got, woken, overlapped>>

(* monitor.notify, for the command of c: any of those that wait is woken. *)
Notify(c) ==
  /\ c \in running
  /\ running' = running \ {c}
  /\ \/ /\ Waiting = {}
        /\ lost' = lost + 1
        /\ UNCHANGED pc
     \/ /\ \E d \in Waiting : pc' = [pc EXCEPT ![d] = "woken"]
        /\ UNCHANGED lost
  /\ UNCHANGED <<fxQueue, callVars, got, woken, overlapped>>

Next ==
  \/ \E c \in Callers : \/ Refuse(c) \/ Post(c) \/ Wait(c) \/ WakeAlone(c)
                        \/ Return(c) \/ CallBack(c) \/ Notify(c)
  \/ Execute \/ ExecuteAsync

(* The JavaFX thread and the callers' own threads go on; a command that did   *)
(* not throw calls back.                                                    *)
Fairness ==
  /\ WF_vars(Execute) /\ WF_vars(ExecuteAsync)
  /\ \A c \in Callers : /\ WF_vars(Wait(c)) /\ WF_vars(Return(c))
                        /\ WF_vars(CallBack(c)) /\ WF_vars(Notify(c))

Spec == Init /\ [][Next]_vars /\ Fairness

(***************************************************************************)
(* Correctness.                                                            *)
(***************************************************************************)

(* The calls whose commands will still notify. *)
Pending == Queued \cup handed \cup running

(* Every call that was not woken yet has a notification to come for it, was   *)
(* lost to a notification before its wait, or its command threw: notify wakes  *)
(* one waiter, so wake-ups are neither multiplied nor dropped.               *)
WakeupsBalance ==
  Cardinality(Unwoken) + woken =
    Cardinality(Pending) + lost + Cardinality(dropped)

(* A call returns without its outcome only if another overlapped it, whose    *)
(* command woke it, or it was woken by itself.                              *)
EarlyReturnMeansOverlap ==
  woken = 0 =>
    \A c \in Callers : pc[c] = "returned" /\ got[c] = "none" => c \in overlapped

(* As long as no notification is lost, no command throws and nobody wakes by   *)
(* itself, every call returns.                                             *)
CallsReturn ==
  [](lost = 0 /\ dropped = {} /\ woken = 0) =>
    \A c \in Callers : (pc[c] = "posted") ~> (pc[c] = "returned")

(* Wake-ups and waiting calls balance, whoever takes them. *)
CallsAreSound == TypeOK /\ WakeupsBalance /\ EarlyReturnMeansOverlap

===============================================================================
