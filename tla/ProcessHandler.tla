---------------------------- MODULE ProcessHandler ----------------------------
(***************************************************************************)
(* codeOrchestra.colt.core.execution.ProcessHandler: the life of an external*)
(* process as seen by listeners and waiters.  Any thread may start the      *)
(* notifications, ask for the process to be destroyed or detached, report   *)
(* its termination, or wait for it.  What is asked for before startNotify   *)
(* is kept by the TasksRunner and run once the start was notified.          *)
(*                                                                         *)
(* Every thread makes one call.  The Runnable that destroyProcess,          *)
(* detachProcess or notifyTerminated hands to the TasksRunner is named by   *)
(* the thread that made it.  Each atomic access (a compareAndSet, a get, a  *)
(* synchronized block) and each round of listeners is an action.            *)
(***************************************************************************)
EXTENDS Naturals, Sequences, TLC

CONSTANTS Threads,   \* the threads that use the handler
          MayThrow   \* may destroyProcessImpl and detachProcessImpl throw?

ASSUME MayThrowAssumption == MayThrow \in BOOLEAN

STATE_INITIAL     == 0
STATE_RUNNING     == 1
STATE_TERMINATING == 2
STATE_TERMINATED  == 3

VARIABLES
  myState,        \* the AtomicInteger
  count,          \* the count of myWaitSemaphore, 1 after the constructor
  myPendingTasks, \* TasksRunner.myPendingTasks
  call,           \* the method each thread has called
  pc,             \* where each thread is in it
  todo,           \* the Runnables the thread is executing, the first one now
  announced,      \* history: events of each kind a listener has received
  ran             \* history: how often each Runnable was started

hvars == <<myState, count, myPendingTasks, call, pc, todo, announced, ran>>

Deferred == {"destroyProcess", "detachProcess", "notifyTerminated"}
Calls == Deferred \cup {"startNotify", "waitFor"}
Places == {"idle", "casStart", "take", "observers", "check", "add", "recheck",
           "run", "fireWill", "impl", "toTerminated", "fireTerminated", "up",
           "waiting", "interrupted", "done"}

TypeOK ==
  /\ myState \in STATE_INITIAL..STATE_TERMINATED
  /\ count \in 0..1
  /\ myPendingTasks \in Seq(Threads)
  /\ call \in [Threads -> Calls \cup {"none"}]
  /\ pc \in [Threads -> Places]
  /\ todo \in [Threads -> Seq(Threads)]
  /\ announced \in [{"started", "willTerminate", "terminated"} -> Nat]
  /\ ran \in [Threads -> Nat]

Init ==
  /\ myState = STATE_INITIAL
  /\ count = 1
  /\ myPendingTasks = << >>
  /\ call = [p \in Threads |-> "none"]
  /\ pc = [p \in Threads |-> "idle"]
  /\ todo = [p \in Threads |-> << >>]
  /\ announced = [s \in {"started", "willTerminate", "terminated"} |-> 0]
  /\ ran = [p \in Threads |-> 0]

isStartNotified == myState > STATE_INITIAL

Goto(p, place) == pc' = [pc EXCEPT ![p] = place]

(* One round of the event multicaster: the listener hears of the event. *)
Multicast(s) == announced' = [announced EXCEPT ![s] = @ + 1]

(* The thread p calls a method of the handler. *)
Call(p, m) ==
  /\ pc[p] = "idle"
  /\ call' = [call EXCEPT ![p] = m]
  /\ Goto(p, CASE m = "startNotify" -> "casStart"
               [] m = "waitFor"     -> "waiting"
               [] OTHER             -> "check")
  /\ UNCHANGED <<myState, count, myPendingTasks, todo, announced, ran>>

(***************************************************************************)
(* startNotify: the TasksRunner is the first listener, so the pending tasks *)
(* run before any other listener hears of the start.                        *)
(***************************************************************************)
StartNotify(p) ==
  /\ pc[p] = "casStart"
  /\ IF myState = STATE_INITIAL
     THEN myState' = STATE_RUNNING /\ Goto(p, "take")
     ELSE Goto(p, "done") /\ UNCHANGED myState
  /\ UNCHANGED <<count, myPendingTasks, call, todo, announced, ran>>

StartObservers(p) ==
  /\ pc[p] = "observers"
  /\ Multicast("started")
  /\ Goto(p, "done")
  /\ UNCHANGED <<myState, count, myPendingTasks, call, todo, ran>>

(* Where a thread goes when it has run its tasks. *)
AfterTasks(p) == IF call[p] = "startNotify" THEN "observers" ELSE "done"

(***************************************************************************)
(* TasksRunner.                                                            *)
(***************************************************************************)

(* execute: run the task at once if the start was notified, else keep it. *)
Execute(p) ==
  /\ pc[p] = "check"
  /\ IF isStartNotified
     THEN Goto(p, "run") /\ todo' = [todo EXCEPT ![p] = <<p>>]
     ELSE Goto(p, "add") /\ UNCHANGED todo
  /\ UNCHANGED <<myState, count, myPendingTasks, call, announced, ran>>

AddPending(p) ==
  /\ pc[p] = "add"
  /\ myPendingTasks' = Append(myPendingTasks, p)
  /\ Goto(p, "recheck")
  /\ UNCHANGED <<myState, count, call, todo, announced, ran>>

(* Variant: no second look after the add. *)
NoRecheck(p) ==
  /\ pc[p] = "recheck"
  /\ Goto(p, "done")
  /\ UNCHANGED <<myState, count, myPendingTasks, call, todo, announced, ran>>

(* The start may have been notified between the first look and the add. *)
Recheck(p) ==
  /\ pc[p] = "recheck"
  /\ Goto(p, IF isStartNotified THEN "take" ELSE "done")
  /\ UNCHANGED <<myState, count, myPendingTasks, call, todo, announced, ran>>

(* Variant: the list is copied, not cleared. *)
TakeWithoutClear(p) ==
  /\ pc[p] = "take"
  /\ todo' = [todo EXCEPT ![p] = myPendingTasks]
  /\ Goto(p, IF myPendingTasks = << >> THEN AfterTasks(p) ELSE "run")
  /\ UNCHANGED <<myState, count, myPendingTasks, call, announced, ran>>

(* runPendingTasks: copy and clear the list, then run the copy. *)
TakePending(p) ==
  /\ pc[p] = "take"
  /\ todo' = [todo EXCEPT ![p] = myPendingTasks]
  /\ myPendingTasks' = << >>
  /\ Goto(p, IF myPendingTasks = << >> THEN AfterTasks(p) ELSE "run")
  /\ UNCHANGED <<myState, count, call, announced, ran>>

(* The Runnable the thread executes has returned. *)
EndTask(p) ==
  /\ todo' = [todo EXCEPT ![p] = Tail(@)]
  /\ Goto(p, IF Tail(todo[p]) = << >> THEN AfterTasks(p) ELSE "run")

(***************************************************************************)
(* The Runnables.                                                          *)
(***************************************************************************)
Terminates(p) == call[Head(todo[p])] = "notifyTerminated"

(* Variant: TERMINATING is set without comparing the state with RUNNING. *)
BeginAgain(p) ==
  /\ pc[p] = "run"
  /\ ran' = [ran EXCEPT ![Head(todo[p])] = @ + 1]
  /\ myState' = STATE_TERMINATING
  /\ Goto(p, "fireWill")
  /\ UNCHANGED <<count, myPendingTasks, call, todo, announced>>

(* All three begin with RUNNING -> TERMINATING. *)
BeginTermination(p) ==
  /\ pc[p] = "run"
  /\ ran' = [ran EXCEPT ![Head(todo[p])] = @ + 1]
  /\ IF myState = STATE_RUNNING
     THEN /\ myState' = STATE_TERMINATING
          /\ Goto(p, "fireWill")
          /\ UNCHANGED todo
     ELSE /\ IF Terminates(p)
             THEN Goto(p, "toTerminated") /\ UNCHANGED todo
             ELSE EndTask(p)
          /\ UNCHANGED myState
  /\ UNCHANGED <<count, myPendingTasks, call, announced>>

(* fireProcessWillTerminate *)
FireWillTerminate(p) ==
  /\ pc[p] = "fireWill"
  /\ Multicast("willTerminate")
  /\ Goto(p, IF Terminates(p) THEN "toTerminated" ELSE "impl")
  /\ UNCHANGED <<myState, count, myPendingTasks, call, todo, ran>>

(* destroyProcessImpl or detachProcessImpl of the subclass. *)
Impl(p) ==
  /\ pc[p] = "impl"
  /\ EndTask(p)
  /\ UNCHANGED <<myState, count, myPendingTasks, call, announced, ran>>

(* The subclass throws: the tasks behind this one are lost; the caller sees *)
(* the exception, or the multicaster logs it and goes on to the observers.  *)
ImplThrows(p) ==
  /\ MayThrow
  /\ pc[p] = "impl"
  /\ todo' = [todo EXCEPT ![p] = << >>]
  /\ Goto(p, AfterTasks(p))
  /\ UNCHANGED <<myState, count, myPendingTasks, call, announced, ran>>

(* Variant: TERMINATED is set without comparing the state. *)
TerminateAgain(p) ==
  /\ pc[p] = "toTerminated"
  /\ myState' = STATE_TERMINATED
  /\ Goto(p, "fireTerminated")
  /\ UNCHANGED <<count, myPendingTasks, call, todo, announced, ran>>

(* notifyTerminated, TERMINATING -> TERMINATED *)
Terminate(p) ==
  /\ pc[p] = "toTerminated"
  /\ IF myState = STATE_TERMINATING
     THEN /\ myState' = STATE_TERMINATED
          /\ Goto(p, "fireTerminated")
          /\ UNCHANGED todo
     ELSE EndTask(p) /\ UNCHANGED myState
  /\ UNCHANGED <<count, myPendingTasks, call, announced, ran>>

FireTerminated(p) ==
  /\ pc[p] = "fireTerminated"
  /\ Multicast("terminated")
  /\ Goto(p, "up")
  /\ UNCHANGED <<myState, count, myPendingTasks, call, todo, ran>>

(* finally: myWaitSemaphore.up(), which does nothing at zero *)
ReleaseWaiters(p) ==
  /\ pc[p] = "up"
  /\ count' = IF count = 0 THEN 0 ELSE count - 1
  /\ EndTask(p)
  /\ UNCHANGED <<myState, myPendingTasks, call, announced, ran>>

(***************************************************************************)
(* waitFor: returns at count zero, or when the waiting thread is            *)
(* interrupted (the ProcessCanceledException is ignored).                   *)
(***************************************************************************)
WaitFor(p) ==
  /\ pc[p] = "waiting"
  /\ count = 0
  /\ Goto(p, "done")
  /\ UNCHANGED <<myState, count, myPendingTasks, call, todo, announced, ran>>

WaitInterrupted(p) ==
  /\ pc[p] = "waiting"
  /\ Goto(p, "interrupted")
  /\ UNCHANGED <<myState, count, myPendingTasks, call, todo, announced, ran>>

(* What a thread does without further choice once it has made its call. *)
Step(p) ==
  \/ StartNotify(p) \/ StartObservers(p)
  \/ Execute(p) \/ AddPending(p) \/ Recheck(p) \/ TakePending(p)
  \/ BeginTermination(p) \/ FireWillTerminate(p) \/ Impl(p) \/ ImplThrows(p)
  \/ Terminate(p) \/ FireTerminated(p) \/ ReleaseWaiters(p)
  \/ WaitFor(p)

Next == \E p \in Threads :
          \/ \E m \in Calls : Call(p, m)
          \/ Step(p)
          \/ WaitInterrupted(p)

Spec == Init /\ [][Next]_hvars

(* A thread that can take a step takes it; nobody is obliged to call. *)
FairSpec == Spec /\ \A p \in Threads : WF_hvars(Step(p))

(***************************************************************************)
(* Correctness.                                                            *)
(***************************************************************************)

(* The assertions of notifyTerminated and fireProcessWillTerminate: no task  *)
(* is executed before the start was notified.                               *)
TasksRunAfterStart ==
  \A p \in Threads :
    pc[p] \in {"run", "fireWill", "impl", "toTerminated", "fireTerminated",
               "up"} => isStartNotified

(* However many threads destroy, detach and report the end of the process,   *)
(* a listener hears of each stage once.                                     *)
EventsOnce == \A s \in {"started", "willTerminate", "terminated"} :
                announced[s] <= 1

(* waitFor() returns normally only after processTerminated was delivered. *)
WaitersSeeTermination ==
  \A p \in Threads : call[p] = "waitFor" /\ pc[p] = "done" =>
                       announced["terminated"] = 1

(* A task added while startNotify is under way is never left in the list:    *)
(* some thread is about to look at the list again.                          *)
NoTaskStranded ==
  isStartNotified /\ myPendingTasks # << >> =>
    \E p \in Threads : pc[p] \in {"recheck", "take"}

(* A task kept until the start is not executed twice, though both the        *)
(* starting thread and the adding thread run the pending tasks.             *)
TasksRunOnce == \A p \in Threads : ran[p] <= 1

(* The handler keeps the promises of ProcessLifecycle. *)
Lifecycle == INSTANCE ProcessLifecycle WITH
  life      <- myState,
  announced <- [s \in {"willTerminate", "terminated"} |-> announced[s]],
  released  <- (count = 0)
KeepsLifecycle == Lifecycle!LSpec

(* A request that is to be executed, now that the handler is started: this does   *)
(* not last, unless the subclass throws.                                      *)
Owed(p) == call[p] \in Deferred /\ isStartNotified /\ ran[p] # 1

(* A report of the end of the process that has not released the waiters yet: nor  *)
(* does this, whatever else was asked for at the same time.                    *)
Held(p) == call[p] = "notifyTerminated" /\ ran[p] = 1 /\ count # 0

(* The comment in startNotified of the TasksRunner: "at this point it is     *)
(* guaranteed that nothing will be added to myPendingTasks".                *)
NothingAddedAfterStart ==
  [][isStartNotified /\ (\A p \in Threads : pc[p] # "take") =>
       Len(myPendingTasks') <= Len(myPendingTasks)]_hvars

(* The start comes before all, each stage is announced once, and waiters and      *)
(* early requests are not forgotten.                                        *)
HandlerIsSound ==
  TypeOK /\ TasksRunAfterStart /\ EventsOnce /\ WaitersSeeTermination /\ NoTaskStranded

(* For TLC: the threads are interchangeable. *)
ThreadSymmetry == Permutations(Threads)
===============================================================================
