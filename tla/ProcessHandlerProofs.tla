------------------------- MODULE ProcessHandlerProofs -------------------------
(***************************************************************************)
(* Proofs about ProcessHandler for every set of threads, and about its      *)
(* subclass OSProcessHandler: whatever the pooled threads of the latter do,  *)
(* each of its steps is a step of ProcessHandler or leaves the handler       *)
(* alone, so that the theorems about the one hold of the other too.         *)
(***************************************************************************)
EXTENDS OSProcessHandler, SequenceTheorems, TLAPS

Working == {"run", "fireWill", "impl", "toTerminated", "fireTerminated", "up"}

(* A thread that executes tasks has one in hand, and the start was notified. *)
WorkInv ==
  \A p \in Threads :
    /\ pc[p] \in Working => todo[p] # << >>
    /\ pc[p] \in Working \cup {"take"} => isStartNotified

(* The starting thread is the one that moved the state out of INITIAL, and   *)
(* it has yet to tell the observers.                                        *)
Starting(p) == call[p] = "startNotify" /\ pc[p] \notin {"casStart", "done"}

StartInv ==
  /\ announced["started"] <= 1
  /\ myState = STATE_INITIAL => announced["started"] = 0
  /\ \A p \in Threads :
       /\ pc[p] = "observers" => call[p] = "startNotify"
       /\ Starting(p) => isStartNotified /\ announced["started"] = 0
  /\ \A p, q \in Threads : Starting(p) /\ Starting(q) => p = q

(* One thread moved the state to TERMINATING; until it has announced this,   *)
(* nobody has.                                                              *)
WillInv ==
  /\ announced["willTerminate"] <= 1
  /\ myState <= STATE_RUNNING => announced["willTerminate"] = 0
  /\ \A p \in Threads : pc[p] = "fireWill" =>
                           /\ myState >= STATE_TERMINATING
                           /\ announced["willTerminate"] = 0
  /\ \A p, q \in Threads : pc[p] = "fireWill" /\ pc[q] = "fireWill" => p = q

(* One thread moved the state to TERMINATED; it announces this, then it      *)
(* opens the semaphore.                                                     *)
Ending(p) == pc[p] \in {"fireTerminated", "up"}

EndInv ==
  /\ announced["terminated"] <= 1
  /\ myState <= STATE_TERMINATING => announced["terminated"] = 0
  /\ count = 0 => announced["terminated"] = 1
  /\ \A p \in Threads :
       /\ Ending(p) => myState = STATE_TERMINATED /\ count = 1
       /\ pc[p] = "fireTerminated" => announced["terminated"] = 0
       /\ pc[p] = "up" => announced["terminated"] = 1
  /\ \A p, q \in Threads : Ending(p) /\ Ending(q) => p = q

(* A thread in waitFor is nowhere else, and leaves it after the announcement. *)
WaitInv ==
  \A p \in Threads : call[p] = "waitFor" =>
    /\ pc[p] \in {"waiting", "interrupted", "done"}
    /\ pc[p] = "done" => announced["terminated"] = 1

IInv == /\ TypeOK
        /\ WorkInv
        /\ StartInv
        /\ WillInv
        /\ EndInv
        /\ WaitInv
        /\ NoTaskStranded

USE DEF STATE_INITIAL, STATE_RUNNING, STATE_TERMINATING, STATE_TERMINATED

(***************************************************************************)
(* The steps, seen through what the invariant talks about.                  *)
(***************************************************************************)

(* A step that only moves the thread p to the place l. *)
Quiet(p, l) ==
  /\ pc' = [pc EXCEPT ![p] = l]
  /\ UNCHANGED <<myState, announced, count, call>>
  /\ pc[p] \notin {"idle", "observers", "fireWill", "fireTerminated", "up",
                "done", "interrupted"}
  /\ l \notin {"idle", "casStart", "fireWill", "fireTerminated", "up", "waiting"}
  /\ l \in Working \cup {"take"} => isStartNotified
  /\ l = "observers" => call[p] = "startNotify"
  /\ pc[p] = "casStart" => l = "done"
  /\ pc[p] = "waiting" => l = "interrupted" \/ (l = "done" /\ count = 0)
  /\ pc[p] # "waiting" => l # "interrupted"

QuietStep(p) == \E l \in Places : Quiet(p, l)

(* The three successful compareAndSets: p moves the state on to s. *)
Advances(p, s, l) ==
  /\ myState = s - 1
  /\ myState' = s
  /\ pc' = [pc EXCEPT ![p] = l]
  /\ UNCHANGED <<announced, count, call>>

StateStep(p) ==
  \/ pc[p] = "casStart" /\ Advances(p, STATE_RUNNING, "take")
  \/ pc[p] = "run" /\ Advances(p, STATE_TERMINATING, "fireWill")
  \/ pc[p] = "toTerminated" /\ Advances(p, STATE_TERMINATED, "fireTerminated")

(* The end of a task: the rest of the tasks is left, and the thread goes on  *)
(* with them or, if there is none, leaves.                                  *)
LEMMA EndTaskFacts ==
  ASSUME TypeOK, NEW p \in Threads, todo[p] # << >>, EndTask(p)
  PROVE  /\ todo' \in [Threads -> Seq(Threads)]
         /\ \A q \in Threads : q # p => todo'[q] = todo[q]
         /\ \E l \in {"run", "observers", "done"} :
              /\ pc' = [pc EXCEPT ![p] = l]
              /\ l = "run" => todo'[p] # << >>
              /\ l = "observers" => call[p] = "startNotify"
  <1>1. Tail(todo[p]) \in Seq(Threads)
    BY DEF TypeOK
  <1>2. todo' = [todo EXCEPT ![p] = Tail(todo[p])]
    BY DEF EndTask
  <1>3. CASE Tail(todo[p]) = << >>
    BY <1>1, <1>2, <1>3 DEF EndTask, TypeOK, Goto, AfterTasks
  <1>4. CASE Tail(todo[p]) # << >>
    BY <1>1, <1>2, <1>4 DEF EndTask, TypeOK, Goto
  <1> QED
    BY <1>3, <1>4

(* A task that ends without a change of anything else is a quiet step. *)
LEMMA EndTaskIsQuiet ==
  ASSUME IInv, NEW p \in Threads, EndTask(p),
         pc[p] \in {"run", "impl", "toTerminated"},
         UNCHANGED <<myState, announced, count, call>>
  PROVE  QuietStep(p)
  <1>1. todo[p] # << >> /\ isStartNotified
    BY DEF IInv, WorkInv, Working
  <1>2. PICK l \in {"run", "observers", "done"} :
          /\ pc' = [pc EXCEPT ![p] = l]
          /\ l = "observers" => call[p] = "startNotify"
    BY <1>1, EndTaskFacts DEF IInv
  <1>3. Quiet(p, l)
    BY <1>1, <1>2 DEF Quiet, isStartNotified
  <1> QED
    BY <1>2, <1>3 DEF QuietStep, Places

(* Every step of a thread is a call, quiet, a move of the state, one of the  *)
(* three announcements or the release of the waiters.                       *)
LEMMA StepKinds ==
  ASSUME IInv, NEW p \in Threads, Step(p) \/ WaitInterrupted(p)
  PROVE  \/ QuietStep(p) \/ StateStep(p)
         \/ StartObservers(p) \/ FireWillTerminate(p) \/ FireTerminated(p)
         \/ ReleaseWaiters(p)
  <1> USE DEF Goto
  <1>1. CASE StartNotify(p)
    <2>1. CASE myState = STATE_INITIAL
      BY <1>1, <2>1 DEF StartNotify, StateStep, Advances
    <2>2. CASE myState # STATE_INITIAL
      <3>1. Quiet(p, "done")
        BY <1>1, <2>2 DEF StartNotify, Quiet, Working
      <3> QED
        BY <3>1 DEF QuietStep, Places
    <2> QED
      BY <2>1, <2>2
  <1>2. CASE Execute(p)
    <2>1. Quiet(p, IF isStartNotified THEN "run" ELSE "add")
      BY <1>2 DEF Execute, Quiet, Working
    <2> QED
      BY <2>1 DEF QuietStep, Places
  <1>3. CASE AddPending(p)
    <2>1. Quiet(p, "recheck")
      BY <1>3 DEF AddPending, Quiet, Working
    <2> QED
      BY <2>1 DEF QuietStep, Places
  <1>4. CASE Recheck(p)
    <2>1. Quiet(p, IF isStartNotified THEN "take" ELSE "done")
      BY <1>4 DEF Recheck, Quiet, Working
    <2> QED
      BY <2>1 DEF QuietStep, Places
  <1>5. CASE TakePending(p)
    <2>1. isStartNotified
      BY <1>5 DEF IInv, WorkInv, TakePending
    <2>2. Quiet(p, IF myPendingTasks = << >> THEN AfterTasks(p) ELSE "run")
      BY <1>5, <2>1 DEF TakePending, Quiet, Working, AfterTasks
    <2> QED
      BY <2>2 DEF QuietStep, Places, AfterTasks
  <1>6. CASE BeginTermination(p)
    <2>1. CASE myState = STATE_RUNNING
      BY <1>6, <2>1 DEF BeginTermination, StateStep, Advances
    <2>2. CASE myState # STATE_RUNNING /\ Terminates(p)
      <3>1. isStartNotified
        BY <1>6 DEF IInv, WorkInv, Working, BeginTermination
      <3>2. Quiet(p, "toTerminated")
        BY <1>6, <2>2, <3>1 DEF BeginTermination, Quiet
      <3> QED
        BY <3>2 DEF QuietStep, Places
    <2>3. CASE myState # STATE_RUNNING /\ ~Terminates(p)
      BY <1>6, <2>3, EndTaskIsQuiet DEF BeginTermination
    <2> QED
      BY <2>1, <2>2, <2>3
  <1>7. CASE Impl(p)
    BY <1>7, EndTaskIsQuiet DEF Impl
  <1>8. CASE ImplThrows(p)
    <2>1. Quiet(p, AfterTasks(p))
      BY <1>8 DEF ImplThrows, Quiet, Working, AfterTasks
    <2> QED
      BY <2>1 DEF QuietStep, Places, AfterTasks
  <1>9. CASE Terminate(p)
    <2>1. CASE myState = STATE_TERMINATING
      BY <1>9, <2>1 DEF Terminate, StateStep, Advances
    <2>2. CASE myState # STATE_TERMINATING
      BY <1>9, <2>2, EndTaskIsQuiet DEF Terminate
    <2> QED
      BY <2>1, <2>2
  <1>10. CASE WaitFor(p)
    <2>1. Quiet(p, "done")
      BY <1>10 DEF WaitFor, Quiet, Working
    <2> QED
      BY <2>1 DEF QuietStep, Places
  <1>11. CASE WaitInterrupted(p)
    <2>1. Quiet(p, "interrupted")
      BY <1>11 DEF WaitInterrupted, Quiet, Working
    <2> QED
      BY <2>1 DEF QuietStep, Places
  <1> QED
    BY <1>1, <1>2, <1>3, <1>4, <1>5, <1>6, <1>7, <1>8, <1>9, <1>10, <1>11
       DEF Step

(***************************************************************************)
(* The invariant, conjunct by conjunct.                                    *)
(***************************************************************************)

(* What a step of p leaves to execute: a thread that executes tasks still    *)
(* has one in hand.                                                         *)
LEMMA KeepsTodo ==
  ASSUME IInv, NEW p \in Threads,
         (\E m \in Calls : Call(p, m)) \/ Step(p) \/ WaitInterrupted(p)
  PROVE  /\ todo' \in [Threads -> Seq(Threads)]
         /\ myPendingTasks' \in Seq(Threads)
         /\ ran' \in [Threads -> Nat]
         /\ \A q \in Threads : pc'[q] \in Working => todo'[q] # << >>
  <1> DEFINE Goal == /\ todo' \in [Threads -> Seq(Threads)]
                     /\ myPendingTasks' \in Seq(Threads)
                     /\ ran' \in [Threads -> Nat]
                     /\ \A q \in Threads : pc'[q] \in Working => todo'[q] # << >>
  <1>0. /\ pc \in [Threads -> Places]
        /\ todo \in [Threads -> Seq(Threads)]
        /\ myPendingTasks \in Seq(Threads)
        /\ ran \in [Threads -> Nat]
        /\ \A q \in Threads : pc[q] \in Working => todo[q] # << >>
    BY DEF IInv, TypeOK, WorkInv
  <1>1. ASSUME UNCHANGED <<todo, myPendingTasks, ran>>,
               NEW l \in Places, pc' = [pc EXCEPT ![p] = l],
               l \in Working => pc[p] \in Working
        PROVE  Goal
    BY <1>0, <1>1
  <1>2. ASSUME NEW m \in Calls, Call(p, m) PROVE Goal
    <2>1. \E l \in {"casStart", "waiting", "check"} : pc' = [pc EXCEPT ![p] = l]
      BY <1>2 DEF Call, Goto
    <2> QED
      BY <1>1, <1>2, <2>1 DEF Call, Places, Working
  <1>3. CASE Execute(p)
    <2>1. <<p>> \in Seq(Threads) /\ <<p>> # << >>
      OBVIOUS
    <2> QED
      BY <1>0, <1>3, <2>1 DEF Execute, Goto, Working
  <1>4. CASE AddPending(p)
    BY <1>0, <1>4 DEF AddPending, Goto, Working
  <1>5. CASE TakePending(p)
    BY <1>0, <1>5 DEF TakePending, Goto, Working, AfterTasks
  <1>6. ASSUME EndTask(p), pc[p] \in Working, ran' \in [Threads -> Nat],
               UNCHANGED myPendingTasks
        PROVE  Goal
    <2>1. todo[p] # << >> /\ TypeOK
      BY <1>0, <1>6 DEF IInv
    <2> QED
      BY <1>0, <1>6, <2>1, EndTaskFacts DEF Working
  <1>7. CASE BeginTermination(p)
    <2>1. Head(todo[p]) \in Threads
      BY <1>0, <1>7 DEF BeginTermination, Working
    <2>2. ran' \in [Threads -> Nat]
      BY <1>0, <1>7, <2>1 DEF BeginTermination
    <2>3. CASE UNCHANGED todo
      BY <1>0, <1>7, <2>2, <2>3 DEF BeginTermination, Goto, Working, EndTask
    <2>4. CASE EndTask(p)
      BY <1>6, <1>7, <2>2, <2>4 DEF BeginTermination, Working
    <2> QED
      BY <1>7, <2>3, <2>4 DEF BeginTermination
  <1>8. CASE Impl(p)
    BY <1>0, <1>6, <1>8 DEF Impl, Working
  <1>9. CASE ImplThrows(p)
    BY <1>0, <1>9 DEF ImplThrows, Goto, AfterTasks, Working
  <1>10. CASE Terminate(p)
    <2>1. CASE UNCHANGED todo
      BY <1>0, <1>10, <2>1 DEF Terminate, Goto, Working, EndTask
    <2>2. CASE EndTask(p)
      BY <1>0, <1>6, <1>10, <2>2 DEF Terminate, Working
    <2> QED
      BY <1>10, <2>1, <2>2 DEF Terminate
  <1>11. CASE ReleaseWaiters(p)
    BY <1>0, <1>6, <1>11 DEF ReleaseWaiters, Working
  <1>12. CASE StartNotify(p) \/ StartObservers(p) \/ Recheck(p) \/ WaitFor(p)
              \/ WaitInterrupted(p)
    BY <1>0, <1>12 DEF StartNotify, StartObservers, Recheck, WaitFor,
                       WaitInterrupted, Goto, Working
  <1>13. CASE FireWillTerminate(p) \/ FireTerminated(p)
    BY <1>0, <1>13 DEF FireWillTerminate, FireTerminated, Goto, Working
  <1> QED
    BY <1>2, <1>3, <1>4, <1>5, <1>7, <1>8, <1>9, <1>10, <1>11, <1>12, <1>13
       DEF Step

(* A task added while the start is notified is not forgotten. *)
LEMMA KeepsPending ==
  ASSUME IInv, NEW p \in Threads,
         (\E m \in Calls : Call(p, m)) \/ Step(p) \/ WaitInterrupted(p)
  PROVE  NoTaskStranded'
  <1> USE DEF IInv, TypeOK, NoTaskStranded, isStartNotified
  <1>1. ASSUME UNCHANGED <<myState, myPendingTasks>>, pc[p] \notin {"recheck", "take"},
               \A q \in Threads : q # p => pc'[q] = pc[q]
        PROVE  NoTaskStranded'
    BY <1>1
  <1>2. \A q \in Threads : q # p => pc'[q] = pc[q]
    BY DEF Call, Step, StartNotify, StartObservers, Execute, AddPending,
           Recheck, TakePending, BeginTermination, FireWillTerminate, Impl,
           ImplThrows, Terminate, FireTerminated, ReleaseWaiters, WaitFor,
           WaitInterrupted, Goto, EndTask
  <1>3. CASE StartNotify(p)
    BY <1>3 DEF StartNotify, Goto
  <1>4. CASE AddPending(p)
    BY <1>4 DEF AddPending, Goto
  <1>5. CASE Recheck(p)
    BY <1>5 DEF Recheck, Goto
  <1>6. CASE TakePending(p)
    BY <1>6 DEF TakePending
  <1>7. ASSUME \/ BeginTermination(p) \/ Terminate(p),
               isStartNotified
        PROVE  NoTaskStranded'
    BY <1>2, <1>7 DEF BeginTermination, Terminate
  <1>8. CASE BeginTermination(p) \/ Terminate(p)
    BY <1>7, <1>8 DEF WorkInv, Working, BeginTermination, Terminate
  <1> QED
    BY <1>1, <1>2, <1>3, <1>4, <1>5, <1>6, <1>8
       DEF Call, Step, StartObservers, Execute, FireWillTerminate, Impl,
           ImplThrows, FireTerminated, ReleaseWaiters, WaitFor, WaitInterrupted

(* The start is announced by the thread that moved the state, once. *)
LEMMA KeepsStart ==
  ASSUME IInv, NEW p \in Threads,
         (\E m \in Calls : Call(p, m)) \/ Step(p) \/ WaitInterrupted(p)
  PROVE  StartInv'
  <1> USE DEF IInv, TypeOK, StartInv, Starting, isStartNotified
  <1>1. ASSUME NEW m \in Calls, Call(p, m) PROVE StartInv'
    BY <1>1 DEF Call, Goto, Calls, Deferred
  <1>2. CASE QuietStep(p)
    BY <1>2 DEF QuietStep, Quiet, Places
  <1>3. CASE StateStep(p)
    <2>1. CASE pc[p] = "casStart" /\ Advances(p, STATE_RUNNING, "take")
      BY <2>1 DEF Advances
    <2>2. CASE pc[p] = "run" /\ Advances(p, STATE_TERMINATING, "fireWill")
      BY <2>2 DEF Advances
    <2>3. CASE pc[p] = "toTerminated" /\ Advances(p, STATE_TERMINATED, "fireTerminated")
      BY <2>3 DEF Advances
    <2> QED
      BY <1>3, <2>1, <2>2, <2>3 DEF StateStep
  <1>4. CASE StartObservers(p)
    <2>1. /\ announced["started"] = 0 /\ announced'["started"] = 1
          /\ call[p] = "startNotify" /\ isStartNotified
          /\ UNCHANGED <<myState, call>>
          /\ pc' = [pc EXCEPT ![p] = "done"]
      <3>1. call[p] = "startNotify" /\ Starting(p)
        BY <1>4 DEF StartObservers
      <3>2. announced["started"] = 0 /\ isStartNotified
        BY <3>1
      <3>3. announced'["started"] = 1
        BY <1>4, <3>2 DEF StartObservers, Multicast
      <3> QED
        BY <1>4, <3>1, <3>2, <3>3 DEF StartObservers, Goto
    <2>2. ~Starting(p)' /\ \A q \in Threads : q # p => (Starting(q)' <=> Starting(q))
      BY <2>1
    <2>3. \A q \in Threads : q # p => ~Starting(q)
      BY <1>4, <2>1 DEF StartObservers
    <2> QED
      BY <2>1, <2>2, <2>3
  <1>5. CASE FireWillTerminate(p)
    BY <1>5 DEF FireWillTerminate, Goto, Multicast
  <1>6. CASE FireTerminated(p)
    BY <1>6 DEF FireTerminated, Goto, Multicast
  <1>7. CASE ReleaseWaiters(p)
    <2>1. todo[p] # << >>
      BY <1>7 DEF ReleaseWaiters, WorkInv, Working
    <2>2. PICK l \in {"run", "observers", "done"} :
            /\ pc' = [pc EXCEPT ![p] = l]
            /\ l = "observers" => call[p] = "startNotify"
      BY <1>7, <2>1, EndTaskFacts DEF ReleaseWaiters
    <2> QED
      BY <1>7, <2>2 DEF ReleaseWaiters
  <1> QED
    BY <1>1, <1>2, <1>3, <1>4, <1>5, <1>6, <1>7, StepKinds

(* The coming termination is announced by the thread that moved the state. *)
LEMMA KeepsWill ==
  ASSUME IInv, NEW p \in Threads,
         (\E m \in Calls : Call(p, m)) \/ Step(p) \/ WaitInterrupted(p)
  PROVE  WillInv'
  <1> USE DEF IInv, TypeOK, WillInv
  <1>1. ASSUME NEW m \in Calls, Call(p, m) PROVE WillInv'
    BY <1>1 DEF Call, Goto, Calls, Deferred
  <1>2. CASE QuietStep(p)
    BY <1>2 DEF QuietStep, Quiet, Places
  <1>3. CASE StateStep(p)
    <2>1. CASE pc[p] = "casStart" /\ Advances(p, STATE_RUNNING, "take")
      BY <2>1 DEF Advances
    <2>2. CASE pc[p] = "run" /\ Advances(p, STATE_TERMINATING, "fireWill")
      BY <2>2 DEF Advances
    <2>3. CASE pc[p] = "toTerminated" /\ Advances(p, STATE_TERMINATED, "fireTerminated")
      BY <2>3 DEF Advances
    <2> QED
      BY <1>3, <2>1, <2>2, <2>3 DEF StateStep
  <1>4. CASE StartObservers(p)
    BY <1>4 DEF StartObservers, Goto, Multicast
  <1>5. CASE FireWillTerminate(p)
    BY <1>5 DEF FireWillTerminate, Goto, Multicast
  <1>6. CASE FireTerminated(p)
    BY <1>6 DEF FireTerminated, Goto, Multicast
  <1>7. CASE ReleaseWaiters(p)
    <2>1. todo[p] # << >>
      BY <1>7 DEF ReleaseWaiters, WorkInv, Working
    <2>2. PICK l \in {"run", "observers", "done"} :
            /\ pc' = [pc EXCEPT ![p] = l]
            /\ l = "observers" => call[p] = "startNotify"
      BY <1>7, <2>1, EndTaskFacts DEF ReleaseWaiters
    <2> QED
      BY <1>7, <2>2 DEF ReleaseWaiters
  <1> QED
    BY <1>1, <1>2, <1>3, <1>4, <1>5, <1>6, <1>7, StepKinds

(* The termination is announced, and the waiters released, by one thread. *)
LEMMA KeepsEnd ==
  ASSUME IInv, NEW p \in Threads,
         (\E m \in Calls : Call(p, m)) \/ Step(p) \/ WaitInterrupted(p)
  PROVE  EndInv'
  <1> USE DEF IInv, TypeOK, EndInv, Ending
  <1>1. ASSUME NEW m \in Calls, Call(p, m) PROVE EndInv'
    BY <1>1 DEF Call, Goto, Calls, Deferred
  <1>2. CASE QuietStep(p)
    BY <1>2 DEF QuietStep, Quiet, Places
  <1>3. CASE StateStep(p)
    BY <1>3 DEF StateStep, Advances
  <1>4. CASE StartObservers(p)
    BY <1>4 DEF StartObservers, Goto, Multicast
  <1>5. CASE FireWillTerminate(p)
    BY <1>5 DEF FireWillTerminate, Goto, Multicast
  <1>6. CASE FireTerminated(p)
    BY <1>6 DEF FireTerminated, Goto, Multicast
  <1>7. CASE ReleaseWaiters(p)
    <2>1. todo[p] # << >>
      BY <1>7 DEF ReleaseWaiters, WorkInv, Working
    <2>2. PICK l \in {"run", "observers", "done"} :
            /\ pc' = [pc EXCEPT ![p] = l]
            /\ l = "observers" => call[p] = "startNotify"
      BY <1>7, <2>1, EndTaskFacts DEF ReleaseWaiters
    <2> QED
      BY <1>7, <2>2 DEF ReleaseWaiters
  <1> QED
    BY <1>1, <1>2, <1>3, <1>4, <1>5, <1>6, <1>7, StepKinds

(* A waiter leaves waitFor() only through the open semaphore. *)
LEMMA KeepsWait ==
  ASSUME IInv, NEW p \in Threads,
         (\E m \in Calls : Call(p, m)) \/ Step(p) \/ WaitInterrupted(p)
  PROVE  WaitInv'
  <1> USE DEF IInv, TypeOK, WaitInv, EndInv, Ending
  <1>1. ASSUME NEW m \in Calls, Call(p, m) PROVE WaitInv'
    BY <1>1 DEF Call, Goto, Calls, Deferred
  <1>2. CASE QuietStep(p)
    <2>1. PICK l \in Places : Quiet(p, l)
      BY <1>2 DEF QuietStep
    <2>2. /\ pc' = [pc EXCEPT ![p] = l]
          /\ UNCHANGED <<announced, count, call>>
          /\ pc[p] \notin {"idle", "done"}
          /\ pc[p] = "waiting" => l = "interrupted" \/ (l = "done" /\ count = 0)
      BY <2>1 DEF Quiet
    <2>3. ASSUME NEW q \in Threads, call[q] = "waitFor"
          PROVE  /\ pc'[q] \in {"waiting", "interrupted", "done"}
                 /\ pc'[q] = "done" => announced["terminated"] = 1
      <3>1. CASE q = p
        BY <2>1, <2>2, <2>3, <3>1 DEF Quiet
      <3>2. CASE q # p
        BY <2>2, <2>3, <3>2
      <3> QED
        BY <3>1, <3>2
    <2> QED
      BY <2>2, <2>3
  <1>3. CASE StateStep(p)
    BY <1>3 DEF StateStep, Advances
  <1>4. CASE StartObservers(p)
    BY <1>4 DEF StartObservers, Goto, Multicast
  <1>5. CASE FireWillTerminate(p)
    BY <1>5 DEF FireWillTerminate, Goto, Multicast
  <1>6. CASE FireTerminated(p)
    BY <1>6 DEF FireTerminated, Goto, Multicast
  <1>7. CASE ReleaseWaiters(p)
    <2>1. todo[p] # << >>
      BY <1>7 DEF ReleaseWaiters, WorkInv, Working
    <2>2. PICK l \in {"run", "observers", "done"} :
            /\ pc' = [pc EXCEPT ![p] = l]
            /\ l = "observers" => call[p] = "startNotify"
      BY <1>7, <2>1, EndTaskFacts DEF ReleaseWaiters
    <2> QED
      BY <1>7, <2>2 DEF ReleaseWaiters
  <1> QED
    BY <1>1, <1>2, <1>3, <1>4, <1>5, <1>6, <1>7, StepKinds

(* The second half of WorkInv. *)
WorkStarted ==
  \A p \in Threads : pc[p] \in Working \cup {"take"} => isStartNotified

(* A thread at work, or about to take the pending tasks, finds the start notified. *)
LEMMA KeepsWorking ==
  ASSUME IInv, NEW p \in Threads,
         (\E m \in Calls : Call(p, m)) \/ Step(p) \/ WaitInterrupted(p)
  PROVE  WorkStarted'
  <1> USE DEF IInv, TypeOK, WorkStarted, WorkInv, Working, isStartNotified
  <1>1. ASSUME NEW m \in Calls, Call(p, m) PROVE WorkStarted'
    BY <1>1 DEF Call, Goto, Calls, Deferred
  <1>2. CASE QuietStep(p)
    BY <1>2 DEF QuietStep, Quiet, Places
  <1>3. CASE StateStep(p)
    BY <1>3 DEF StateStep, Advances
  <1>4. CASE StartObservers(p)
    BY <1>4 DEF StartObservers, Goto, Multicast
  <1>5. CASE FireWillTerminate(p)
    BY <1>5 DEF FireWillTerminate, Goto, Multicast
  <1>6. CASE FireTerminated(p)
    BY <1>6 DEF FireTerminated, Goto, Multicast
  <1>7. CASE ReleaseWaiters(p)
    <2>1. todo[p] # << >>
      BY <1>7 DEF ReleaseWaiters, WorkInv, Working
    <2>2. PICK l \in {"run", "observers", "done"} :
            /\ pc' = [pc EXCEPT ![p] = l]
            /\ l = "observers" => call[p] = "startNotify"
      BY <1>7, <2>1, EndTaskFacts DEF ReleaseWaiters
    <2> QED
      BY <1>7, <2>2 DEF ReleaseWaiters
  <1> QED
    BY <1>1, <1>2, <1>3, <1>4, <1>5, <1>6, <1>7, StepKinds

(* Where a thread may be, what the state may be, and the counters. *)
LEMMA KeepsTypes ==
  ASSUME IInv, NEW p \in Threads,
         (\E m \in Calls : Call(p, m)) \/ Step(p) \/ WaitInterrupted(p)
  PROVE  TypeOK'
  <1> DEFINE Events == {"started", "willTerminate", "terminated"}
             Small == /\ myState \in 0..3 /\ count \in 0..1
                      /\ call \in [Threads -> Calls \cup {"none"}]
                      /\ announced \in [Events -> Nat]
  <1>1. Small /\ pc \in [Threads -> Places]
    BY DEF IInv, TypeOK
  <1>2. ASSUME NEW l \in Places, pc' = [pc EXCEPT ![p] = l]
        PROVE  pc' \in [Threads -> Places]
    BY <1>1, <1>2
  <1>3. ASSUME NEW m \in Calls, Call(p, m)
        PROVE  Small' /\ pc' \in [Threads -> Places]
    BY <1>1, <1>3 DEF Call, Goto, Places
  <1>4. ASSUME QuietStep(p)
        PROVE  Small' /\ pc' \in [Threads -> Places]
    <2>1. UNCHANGED <<myState, announced, count, call>>
      BY <1>4 DEF QuietStep, Quiet
    <2>2. \E l \in Places : pc' = [pc EXCEPT ![p] = l]
      BY <1>4 DEF QuietStep, Quiet
    <2> QED
      BY <1>1, <1>2, <2>1, <2>2
  <1>5. ASSUME StateStep(p)
        PROVE  Small' /\ pc' \in [Threads -> Places]
    <2>1. myState' \in 1..3 /\ UNCHANGED <<announced, count, call>>
      BY <1>5 DEF StateStep, Advances
    <2>2. \E l \in {"take", "fireWill", "fireTerminated"} :
            pc' = [pc EXCEPT ![p] = l]
      BY <1>5 DEF StateStep, Advances
    <2> QED
      BY <1>1, <1>2, <2>1, <2>2 DEF Places
  <1>6. ASSUME StartObservers(p) \/ FireWillTerminate(p) \/ FireTerminated(p)
        PROVE  Small' /\ pc' \in [Threads -> Places]
    <2>1. \E s \in Events : announced' = [announced EXCEPT ![s] = @ + 1]
      BY <1>6 DEF StartObservers, FireWillTerminate, FireTerminated, Multicast
    <2>2. UNCHANGED <<myState, count, call>>
      BY <1>6 DEF StartObservers, FireWillTerminate, FireTerminated
    <2>3. \E l \in {"done", "toTerminated", "impl", "up"} :
            pc' = [pc EXCEPT ![p] = l]
      BY <1>6 DEF StartObservers, FireWillTerminate, FireTerminated, Goto
    <2>4. announced' \in [Events -> Nat]
      BY <1>1, <2>1
    <2> QED
      BY <1>1, <1>2, <2>2, <2>3, <2>4 DEF Places
  <1>7. ASSUME ReleaseWaiters(p)
        PROVE  Small' /\ pc' \in [Threads -> Places]
    <2>1. todo[p] # << >>
      BY <1>7 DEF IInv, ReleaseWaiters, WorkInv, Working
    <2>2. \E l \in {"run", "observers", "done"} : pc' = [pc EXCEPT ![p] = l]
      BY <1>7, <2>1, EndTaskFacts DEF IInv, ReleaseWaiters
    <2>3. count' \in 0..1 /\ UNCHANGED <<myState, call, announced>>
      BY <1>1, <1>7 DEF ReleaseWaiters
    <2> QED
      BY <1>1, <1>2, <2>2, <2>3 DEF Places
  <1>8. Small' /\ pc' \in [Threads -> Places]
    BY <1>3, <1>4, <1>5, <1>6, <1>7, StepKinds
  <1> QED
    BY <1>8, KeepsTodo DEF TypeOK

LEMMA NextInv == IInv /\ [Next]_hvars => IInv'
  <1> SUFFICES ASSUME IInv, [Next]_hvars PROVE IInv'
    OBVIOUS
  <1>1. CASE UNCHANGED hvars
    BY <1>1 DEF hvars, IInv, TypeOK, WorkInv, StartInv, Starting, WillInv,
                EndInv, Ending, WaitInv, NoTaskStranded, isStartNotified
  <1>2. ASSUME NEW p \in Threads,
               (\E m \in Calls : Call(p, m)) \/ Step(p) \/ WaitInterrupted(p)
        PROVE  IInv'
    <2>1. WorkInv'
      BY <1>2, KeepsTodo, KeepsWorking DEF WorkInv, WorkStarted
    <2> QED
      BY <1>2, <2>1, KeepsTypes, KeepsStart, KeepsWill, KeepsEnd, KeepsWait,
         KeepsPending DEF IInv
  <1> QED
    BY <1>1, <1>2 DEF Next

LEMMA InitInv == Init => IInv
  <1> SUFFICES ASSUME Init PROVE IInv
    OBVIOUS
  <1> USE DEF Init, isStartNotified
  <1>1. TypeOK
    <2>1. << >> \in Seq(Threads)
      OBVIOUS
    <2> QED
      BY <2>1 DEF TypeOK, Places, Calls, Deferred
  <1>2. WorkInv /\ WaitInv /\ NoTaskStranded
    BY DEF WorkInv, WaitInv, NoTaskStranded, Working
  <1>3. StartInv /\ WillInv /\ EndInv
    BY DEF StartInv, WillInv, EndInv, Starting, Ending
  <1> QED
    BY <1>1, <1>2, <1>3 DEF IInv

(* Every reachable state satisfies the inductive invariant. *)
THEOREM Invariance == Spec => []IInv
  <1> QED
    BY InitInv, NextInv, PTL DEF Spec

(* The state never leaves its types. *)
THEOREM TypeCorrect == Spec => []TypeOK
  <1>1. IInv => TypeOK
    BY DEF IInv
  <1> QED
    BY <1>1, Invariance, PTL

(* No destroy, detach or termination report is executed before the start. *)
THEOREM NothingBeforeStart == Spec => []TasksRunAfterStart
  <1>1. IInv => TasksRunAfterStart
    BY DEF IInv, WorkInv, Working, TasksRunAfterStart
  <1> QED
    BY <1>1, Invariance, PTL

(* Listeners hear of the start, the coming and the past termination once,    *)
(* whatever number of threads destroy, detach and report at the same time.  *)
THEOREM EachEventOnce == Spec => []EventsOnce
  <1>1. IInv => EventsOnce
    BY DEF IInv, StartInv, WillInv, EndInv, EventsOnce
  <1> QED
    BY <1>1, Invariance, PTL

(* waitFor() does not return before the termination was announced. *)
THEOREM WaitersAreLast == Spec => []WaitersSeeTermination
  <1>1. IInv => WaitersSeeTermination
    BY DEF IInv, WaitInv, WaitersSeeTermination
  <1> QED
    BY <1>1, Invariance, PTL

(* A task added while the start is notified is picked up by some thread. *)
THEOREM PendingTasksAreSeen == Spec => []NoTaskStranded
  <1>1. IInv => NoTaskStranded
    BY DEF IInv
  <1> QED
    BY <1>1, Invariance, PTL

(* Any number of threads that make any of the calls: the five together. *)
THEOREM HandlerCorrect == Spec => []HandlerIsSound
  <1> QED
    BY TypeCorrect, NothingBeforeStart, EachEventOnce, WaitersAreLast,
       PendingTasksAreSeen, PTL DEF HandlerIsSound

(* The handler implements the abstract life of a process: what it does       *)
(* beside moving the state, announcing and releasing is invisible.          *)
THEOREM Refinement == Spec => KeepsLifecycle
  <1> DEFINE Told == [s \in {"willTerminate", "terminated"} |-> announced[s]]
  <1>1. Init => Lifecycle!LInit
    <2>1. ASSUME Init PROVE Told = [s \in {"willTerminate", "terminated"} |-> 0]
      BY <2>1 DEF Init
    <2> QED
      BY <2>1 DEF Init, Lifecycle!LInit, Lifecycle!Stages
  <1>2. IInv /\ [Next]_hvars => [Lifecycle!LNext]_(Lifecycle!lvars)
    <2> SUFFICES ASSUME IInv, [Next]_hvars
                 PROVE  Lifecycle!LNext \/ UNCHANGED Lifecycle!lvars
      OBVIOUS
    <2>1. ASSUME UNCHANGED <<myState, count>>, Told' = Told
          PROVE  UNCHANGED Lifecycle!lvars
      BY <2>1 DEF Lifecycle!lvars
    <2>2. ASSUME UNCHANGED <<myState, count, announced>>
          PROVE  UNCHANGED Lifecycle!lvars
      BY <2>2 DEF Lifecycle!lvars
    <2>3. ASSUME NEW p \in Threads, StateStep(p)
          PROVE  Lifecycle!Advance
      BY <2>3 DEF StateStep, Advances, Lifecycle!Advance
    <2>4. ASSUME NEW p \in Threads, StartObservers(p)
          PROVE  UNCHANGED Lifecycle!lvars
      <3>1. Told' = Told
        BY <2>4 DEF StartObservers, Multicast, IInv, TypeOK
      <3> QED
        BY <2>1, <2>4, <3>1 DEF StartObservers
    <2>5. ASSUME NEW p \in Threads, FireWillTerminate(p)
          PROVE  Lifecycle!Announce("willTerminate")
      <3>1. myState >= 2 /\ announced["willTerminate"] = 0
        BY <2>5 DEF FireWillTerminate, IInv, WillInv
      <3>2. Told' = [Told EXCEPT !["willTerminate"] = 1]
        <4>1. announced' = [announced EXCEPT !["willTerminate"] = 1]
          BY <2>5, <3>1 DEF FireWillTerminate, Multicast
        <4>2. announced \in [{"started", "willTerminate", "terminated"} -> Nat]
          BY DEF IInv, TypeOK
        <4> QED
          BY <4>1, <4>2
      <3> QED
        BY <2>5, <3>1, <3>2 DEF FireWillTerminate, Lifecycle!Announce
    <2>6. ASSUME NEW p \in Threads, FireTerminated(p)
          PROVE  Lifecycle!Announce("terminated")
      <3>1. myState = 3 /\ announced["terminated"] = 0
        BY <2>6 DEF FireTerminated, IInv, EndInv, Ending
      <3>2. Told' = [Told EXCEPT !["terminated"] = 1]
        <4>1. announced' = [announced EXCEPT !["terminated"] = 1]
          BY <2>6, <3>1 DEF FireTerminated, Multicast
        <4>2. announced \in [{"started", "willTerminate", "terminated"} -> Nat]
          BY DEF IInv, TypeOK
        <4> QED
          BY <4>1, <4>2
      <3> QED
        BY <2>6, <3>1, <3>2 DEF FireTerminated, Lifecycle!Announce
    <2>7. ASSUME NEW p \in Threads, ReleaseWaiters(p)
          PROVE  Lifecycle!Release
      <3>1. count = 1 /\ announced["terminated"] = 1
        BY <2>7 DEF ReleaseWaiters, IInv, EndInv, Ending
      <3> QED
        BY <2>7, <3>1 DEF ReleaseWaiters, Lifecycle!Release
    <2>8. ASSUME NEW p \in Threads, Step(p) \/ WaitInterrupted(p)
          PROVE  Lifecycle!LNext \/ UNCHANGED Lifecycle!lvars
      <3>1. CASE QuietStep(p)
        BY <2>2, <3>1 DEF QuietStep, Quiet
      <3> QED
        BY <2>3, <2>4, <2>5, <2>6, <2>7, <2>8, <3>1, StepKinds
           DEF Lifecycle!LNext, Lifecycle!Stages
    <2>9. ASSUME NEW p \in Threads, NEW m \in Calls, Call(p, m)
          PROVE  UNCHANGED Lifecycle!lvars
      BY <2>2, <2>9 DEF Call
    <2>10. CASE UNCHANGED hvars
      BY <2>2, <2>10 DEF hvars
    <2> QED
      BY <2>8, <2>9, <2>10 DEF Next
  <1> QED
    BY <1>1, <1>2, Invariance, PTL DEF Spec, KeepsLifecycle, Lifecycle!LSpec

(***************************************************************************)
(* A task is executed once: where a task waits to be executed.              *)
(***************************************************************************)

(* The i-th pending task is t; the k-th task in the hands of q is t, and q   *)
(* has not begun it.                                                        *)
Pends(t, i) == i \in 1..Len(myPendingTasks) /\ myPendingTasks[i] = t
InHand(t, q, k) ==
  k \in 1..Len(todo[q]) /\ todo[q][k] = t /\ (k > 1 \/ pc[q] = "run")

WaitsNowhere(t) == /\ \A i \in Nat : ~Pends(t, i)
                   /\ \A q \in Threads, k \in Nat : ~InHand(t, q, k)

(* The thread t has not handed its task to the TasksRunner. *)
Unmade(t) == pc[t] \in {"idle", "check", "add"}

(* A task waits at one place at most, and nowhere before it is made or after *)
(* it was begun.                                                            *)
OnePlace ==
  \A t \in Threads :
    /\ \A i, j \in Nat : Pends(t, i) /\ Pends(t, j) => i = j
    /\ \A q, r \in Threads, k, l \in Nat :
         InHand(t, q, k) /\ InHand(t, r, l) => q = r /\ k = l
    /\ \A i, k \in Nat, q \in Threads : ~(Pends(t, i) /\ InHand(t, q, k))

OnceInv ==
  /\ OnePlace
  /\ \A t \in Threads : /\ Unmade(t) => WaitsNowhere(t) /\ ran[t] = 0
                        /\ ran[t] <= 1
                        /\ ran[t] = 1 => WaitsNowhere(t)

(* A step of p after which every task waits where it waited before: in the   *)
(* hands of p, perhaps d places further back.                               *)
LEMMA CarriedOn ==
  ASSUME TypeOK, TypeOK', OnceInv, NEW p \in Threads, NEW d \in Nat,
         \A q \in Threads \ {p} : todo'[q] = todo[q] /\ pc'[q] = pc[q],
         \A k \in 1..Len(todo'[p]) : (k > 1 \/ pc'[p] = "run") =>
           /\ k + d \in 1..Len(todo[p])
           /\ todo'[p][k] = todo[p][k + d]
           /\ (k + d > 1 \/ pc[p] = "run"),
         UNCHANGED <<myPendingTasks, ran>>,
         pc'[p] \in {"idle", "check", "add"} => Unmade(p)
  PROVE  OnceInv'
  <1> DEFINE e(q) == IF q = p THEN d ELSE 0
  <1>1. \A q \in Threads : e(q) \in Nat
    OBVIOUS
  <1>2. ASSUME NEW t \in Threads, NEW q \in Threads, NEW k \in Nat, InHand(t, q, k)'
        PROVE  InHand(t, q, k + e(q)) /\ k + e(q) \in Nat
    <2>1. k \in 1..Len(todo'[q]) /\ todo'[q][k] = t /\ (k > 1 \/ pc'[q] = "run")
      BY <1>2 DEF InHand
    <2>2. CASE q = p
      BY <2>1, <2>2 DEF InHand
    <2>3. CASE q # p
      BY <2>1, <2>3 DEF InHand
    <2> QED
      BY <2>2, <2>3
  <1>3. \A t \in Threads, i \in Nat : Pends(t, i)' <=> Pends(t, i)
    BY DEF Pends
  <1>4. OnePlace'
    <2> SUFFICES ASSUME NEW t \in Threads
                 PROVE  /\ \A i, j \in Nat : Pends(t, i)' /\ Pends(t, j)' => i = j
                        /\ \A q, r \in Threads, k, l \in Nat :
                             InHand(t, q, k)' /\ InHand(t, r, l)' => q = r /\ k = l
                        /\ \A i, k \in Nat, q \in Threads :
                             ~(Pends(t, i)' /\ InHand(t, q, k)')
      BY DEF OnePlace
    <2>1. ASSUME NEW q \in Threads, NEW r \in Threads, NEW k \in Nat, NEW l \in Nat,
                 InHand(t, q, k)', InHand(t, r, l)'
          PROVE  q = r /\ k = l
      <3>1. q = r /\ k + e(q) = l + e(r)
        BY <1>2, <2>1 DEF OnceInv, OnePlace
      <3> QED
        BY <1>1, <3>1
    <2> QED
      BY <1>2, <1>3, <2>1 DEF OnceInv, OnePlace
  <1>5. ASSUME NEW t \in Threads, WaitsNowhere(t) PROVE WaitsNowhere(t)'
    BY <1>2, <1>3, <1>5 DEF WaitsNowhere
  <1>6. ASSUME NEW t \in Threads, Unmade(t)' PROVE Unmade(t)
    BY <1>6 DEF Unmade
  <1> QED
    BY <1>4, <1>5, <1>6 DEF OnceInv

(* The end of a task drops it, and shifts the others by one. *)
LEMMA EndCarriesOn ==
  ASSUME TypeOK, TypeOK', OnceInv, NEW p \in Threads, EndTask(p), pc[p] \in Working,
         todo[p] # << >>, UNCHANGED <<myPendingTasks, ran>>
  PROVE  OnceInv'
  <1>1. /\ todo'[p] = Tail(todo[p])
        /\ todo[p] \in Seq(Threads)
        /\ Len(todo'[p]) = Len(todo[p]) - 1
        /\ Len(todo[p]) \in Nat
        /\ \A k \in 1..Len(todo'[p]) : todo'[p][k] = todo[p][k + 1]
    BY HeadTailProperties, EmptySeq DEF EndTask, TypeOK
  <1>2. \A q \in Threads \ {p} : todo'[q] = todo[q] /\ pc'[q] = pc[q]
    BY DEF EndTask, TypeOK, Goto
  <1>3. pc'[p] \notin {"idle", "check", "add"}
    BY DEF EndTask, TypeOK, Goto, AfterTasks
  <1>4. \A k \in 1..Len(todo'[p]) : /\ k + 1 \in 1..Len(todo[p])
                                    /\ todo'[p][k] = todo[p][k + 1]
                                    /\ k + 1 > 1
    BY <1>1
  <1> QED
    BY <1>2, <1>3, <1>4, CarriedOn

(* A step that moves the thread only, and not to the beginning of a task. *)
LEMMA MoveCarriesOn ==
  ASSUME TypeOK, TypeOK', OnceInv, NEW p \in Threads, NEW l \in Places,
         pc' = [pc EXCEPT ![p] = l], l # "run",
         l \in {"idle", "check", "add"} => Unmade(p),
         UNCHANGED <<todo, myPendingTasks, ran>>
  PROVE  OnceInv'
  <1>1. pc'[p] = l /\ \A q \in Threads \ {p} : todo'[q] = todo[q] /\ pc'[q] = pc[q]
    BY DEF TypeOK
  <1>2. \A k \in 1..Len(todo'[p]) : k > 1 => /\ k + 0 \in 1..Len(todo[p])
                                             /\ todo'[p][k] = todo[p][k + 0]
                                             /\ k + 0 > 1
    BY DEF TypeOK
  <1> QED
    BY <1>1, <1>2, CarriedOn


(* Execute: a task that waits nowhere is begun at once by its own thread. *)
LEMMA ExecuteOnce ==
  ASSUME IInv, TypeOK', OnceInv, NEW p \in Threads, Execute(p)
  PROVE  OnceInv'
  <1>1. TypeOK /\ Unmade(p)
    BY DEF IInv, Execute, Unmade
  <1>2. CASE isStartNotified
    <2>1. /\ todo'[p] = <<p>> /\ pc'[p] = "run"
          /\ \A q \in Threads \ {p} : todo'[q] = todo[q] /\ pc'[q] = pc[q]
          /\ UNCHANGED <<myPendingTasks, ran>>
      BY <1>1, <1>2 DEF Execute, Goto, TypeOK
    <2>2. ASSUME NEW t \in Threads, NEW q \in Threads, NEW k \in Nat, InHand(t, q, k)'
          PROVE  IF q = p THEN t = p /\ k = 1 ELSE InHand(t, q, k)
      BY <2>1, <2>2 DEF InHand
    <2>3. \A t \in Threads, i \in Nat : Pends(t, i)' <=> Pends(t, i)
      BY <2>1 DEF Pends
    <2>4. WaitsNowhere(p) /\ ran[p] = 0
      BY <1>1 DEF OnceInv
    <2>5. OnePlace'
      <3> SUFFICES ASSUME NEW t \in Threads
                   PROVE  /\ \A i, j \in Nat : Pends(t, i)' /\ Pends(t, j)' => i = j
                          /\ \A q, r \in Threads, k, l \in Nat :
                               InHand(t, q, k)' /\ InHand(t, r, l)' => q = r /\ k = l
                          /\ \A i, k \in Nat, q \in Threads :
                               ~(Pends(t, i)' /\ InHand(t, q, k)')
        BY DEF OnePlace
      <3>1. CASE t = p
        BY <2>2, <2>3, <2>4, <3>1 DEF WaitsNowhere
      <3>2. CASE t # p
        BY <2>2, <2>3, <3>2 DEF OnceInv, OnePlace
      <3> QED
        BY <3>1, <3>2
    <2>6. ASSUME NEW t \in Threads \ {p}, WaitsNowhere(t) PROVE WaitsNowhere(t)'
      BY <2>2, <2>3, <2>6 DEF WaitsNowhere
    <2>7. ~Unmade(p)' /\ \A t \in Threads \ {p} : Unmade(t)' <=> Unmade(t)
      BY <2>1 DEF Unmade
    <2> QED
      BY <2>1, <2>4, <2>5, <2>6, <2>7 DEF OnceInv
  <1>3. CASE ~isStartNotified
    BY <1>1, <1>3, MoveCarriesOn DEF Execute, Goto, Places
  <1> QED
    BY <1>2, <1>3

(* AddPending: a task that waits nowhere is kept at the end of the list. *)
LEMMA AddPendingOnce ==
  ASSUME IInv, TypeOK', OnceInv, NEW p \in Threads, AddPending(p)
  PROVE  OnceInv'
  <1> DEFINE n == Len(myPendingTasks)
  <1>1. TypeOK /\ Unmade(p)
    BY DEF IInv, AddPending, Unmade
  <1>2. /\ n \in Nat /\ Len(myPendingTasks') = n + 1 /\ myPendingTasks'[n + 1] = p
        /\ \A i \in 1..n : myPendingTasks'[i] = myPendingTasks[i]
    BY <1>1, AppendProperties DEF AddPending, TypeOK
  <1>3. /\ todo' = todo /\ ran' = ran /\ pc'[p] = "recheck"
        /\ \A q \in Threads \ {p} : pc'[q] = pc[q]
    BY <1>1 DEF AddPending, Goto, TypeOK
  <1>4. ASSUME NEW t \in Threads, NEW q \in Threads, NEW k \in Nat, InHand(t, q, k)'
        PROVE  InHand(t, q, k)
    BY <1>3, <1>4 DEF InHand
  <1>5. ASSUME NEW t \in Threads, NEW i \in Nat, Pends(t, i)'
        PROVE  IF i = n + 1 THEN t = p ELSE Pends(t, i)
    BY <1>2, <1>5 DEF Pends
  <1>6. WaitsNowhere(p) /\ ran[p] = 0
    BY <1>1 DEF OnceInv
  <1>7. OnePlace'
    <2> SUFFICES ASSUME NEW t \in Threads
                 PROVE  /\ \A i, j \in Nat : Pends(t, i)' /\ Pends(t, j)' => i = j
                        /\ \A q, r \in Threads, k, l \in Nat :
                             InHand(t, q, k)' /\ InHand(t, r, l)' => q = r /\ k = l
                        /\ \A i, k \in Nat, q \in Threads :
                             ~(Pends(t, i)' /\ InHand(t, q, k)')
      BY DEF OnePlace
    <2>1. CASE t = p
      BY <1>4, <1>5, <1>6, <2>1 DEF WaitsNowhere
    <2>2. CASE t # p
      BY <1>4, <1>5, <2>2 DEF OnceInv, OnePlace
    <2> QED
      BY <2>1, <2>2
  <1>8. ASSUME NEW t \in Threads \ {p}, WaitsNowhere(t) PROVE WaitsNowhere(t)'
    BY <1>4, <1>5, <1>8 DEF WaitsNowhere
  <1>9. ~Unmade(p)' /\ \A t \in Threads \ {p} : Unmade(t)' <=> Unmade(t)
    BY <1>3 DEF Unmade
  <1> QED
    BY <1>3, <1>6, <1>7, <1>8, <1>9 DEF OnceInv

(* TakePending: the pending tasks go, in their order, into the hands of p,   *)
(* and nobody else can take them.                                           *)
LEMMA TakePendingOnce ==
  ASSUME IInv, TypeOK', OnceInv, NEW p \in Threads, TakePending(p)
  PROVE  OnceInv'
  <1>1. TypeOK /\ pc[p] = "take"
    BY DEF IInv, TakePending
  <1>2. /\ todo'[p] = myPendingTasks /\ myPendingTasks' = << >> /\ ran' = ran
        /\ \A q \in Threads \ {p} : todo'[q] = todo[q] /\ pc'[q] = pc[q]
        /\ pc'[p] \notin {"idle", "check", "add"}
    BY <1>1 DEF TakePending, Goto, TypeOK, AfterTasks
  <1>3. ASSUME NEW t \in Threads, NEW q \in Threads, NEW k \in Nat, InHand(t, q, k)'
        PROVE  IF q = p THEN Pends(t, k) ELSE InHand(t, q, k)
    BY <1>2, <1>3 DEF InHand, Pends
  <1>4. \A t \in Threads, i \in Nat : ~Pends(t, i)'
    BY <1>2 DEF Pends
  <1>5. OnePlace'
    <2> SUFFICES ASSUME NEW t \in Threads
                 PROVE  \A q, r \in Threads, k, l \in Nat :
                          InHand(t, q, k)' /\ InHand(t, r, l)' => q = r /\ k = l
      BY <1>4 DEF OnePlace
    <2> QED
      BY <1>3 DEF OnceInv, OnePlace
  <1>6. ASSUME NEW t \in Threads, WaitsNowhere(t) PROVE WaitsNowhere(t)'
    BY <1>3, <1>4, <1>6 DEF WaitsNowhere
  <1>7. \A t \in Threads : Unmade(t)' => Unmade(t)
    BY <1>2 DEF Unmade
  <1> QED
    BY <1>2, <1>5, <1>6, <1>7 DEF OnceInv

(* BeginTermination: the task begun waited in the hands of p, and now waits  *)
(* nowhere.                                                                 *)
LEMMA BeginOnce ==
  ASSUME IInv, TypeOK', OnceInv, NEW p \in Threads, BeginTermination(p)
  PROVE  OnceInv'
  <1>0. /\ TypeOK /\ pc[p] = "run" /\ todo[p] \in Seq(Threads) /\ todo[p] # << >>
        /\ Len(todo[p]) \in Nat /\ 1 \in 1..Len(todo[p])
        /\ Head(todo[p]) \in Threads /\ Head(todo[p]) = todo[p][1]
    <2>1. TypeOK /\ pc[p] = "run"
      BY DEF IInv, BeginTermination
    <2>2. todo[p] \in Seq(Threads)
      BY <2>1 DEF TypeOK
    <2>3. todo[p] # << >>
      BY <2>1 DEF IInv, WorkInv, Working
    <2>4. QED
      BY <2>1, <2>2, <2>3, EmptySeq
  <1>1. PICK h \in Threads : h = Head(todo[p])
    BY <1>0
  <1>2. InHand(h, p, 1)
    BY <1>0, <1>1 DEF InHand
  <1>3. ran[h] = 0 /\ ~Unmade(h)
    <2>1. ~WaitsNowhere(h)
      BY <1>2 DEF WaitsNowhere
    <2>2. ran[h] \in Nat
      BY <1>0 DEF TypeOK
    <2> QED
      BY <2>1, <2>2 DEF OnceInv
  <1>4. /\ ran'[h] = 1 /\ \A t \in Threads \ {h} : ran'[t] = ran[t]
        /\ myPendingTasks' = myPendingTasks
    BY <1>0, <1>1, <1>3 DEF BeginTermination, TypeOK
  <1>5. \/ todo' = todo /\ pc'[p] \in {"fireWill", "toTerminated"}
        \/ todo'[p] = Tail(todo[p]) /\ pc'[p] \in {"run", "observers", "done"}
    BY <1>0 DEF BeginTermination, Goto, TypeOK, EndTask, AfterTasks
  <1>6. \A q \in Threads \ {p} : todo'[q] = todo[q] /\ pc'[q] = pc[q]
    BY <1>0 DEF BeginTermination, Goto, TypeOK, EndTask
  <1>7. PICK s \in {0, 1} :
          \A k \in 1..Len(todo'[p]) : (k > 1 \/ pc'[p] = "run") =>
            /\ k + s \in 1..Len(todo[p]) /\ k + s > 1 /\ todo'[p][k] = todo[p][k + s]
    <2>1. CASE todo' = todo /\ pc'[p] \in {"fireWill", "toTerminated"}
      <3>1. \A k \in 1..Len(todo'[p]) : (k > 1 \/ pc'[p] = "run") =>
              /\ k + 0 \in 1..Len(todo[p]) /\ k + 0 > 1 /\ todo'[p][k] = todo[p][k + 0]
        BY <1>0, <2>1
      <3> QED
        BY <3>1
    <2>2. CASE todo'[p] = Tail(todo[p]) /\ pc'[p] \in {"run", "observers", "done"}
      <3>1. \A k \in 1..Len(todo'[p]) :
              k + 1 \in 1..Len(todo[p]) /\ k + 1 > 1 /\ todo'[p][k] = todo[p][k + 1]
        BY <1>0, <2>2, HeadTailProperties
      <3> QED
        BY <3>1
    <2> QED
      BY <1>5, <2>1, <2>2
  <1>8. ASSUME NEW t \in Threads, NEW k \in Nat, InHand(t, p, k)'
        PROVE  InHand(t, p, k + s) /\ t # h
    <2>1. InHand(t, p, k + s) /\ k + s > 1
      BY <1>0, <1>7, <1>8 DEF InHand
    <2> QED
      BY <1>2, <2>1 DEF OnceInv, OnePlace
  <1>9. ASSUME NEW t \in Threads, NEW q \in Threads \ {p}, NEW k \in Nat, InHand(t, q, k)'
        PROVE  InHand(t, q, k) /\ t # h
    <2>1. InHand(t, q, k)
      BY <1>6, <1>9 DEF InHand
    <2> QED
      BY <1>2, <2>1 DEF OnceInv, OnePlace
  <1>10. ASSUME NEW t \in Threads, NEW i \in Nat, Pends(t, i)'
         PROVE  Pends(t, i) /\ t # h
    <2>1. Pends(t, i)
      BY <1>4, <1>10 DEF Pends
    <2> QED
      BY <1>2, <2>1 DEF OnceInv, OnePlace
  <1>11. WaitsNowhere(h)'
    BY <1>8, <1>9, <1>10 DEF WaitsNowhere
  <1>12. ASSUME NEW t \in Threads, WaitsNowhere(t) PROVE WaitsNowhere(t)'
    <2>1. \A k \in Nat : ~InHand(t, p, k)'
      BY <1>7, <1>8, <1>12 DEF WaitsNowhere
    <2> QED
      BY <1>9, <1>10, <1>12, <2>1 DEF WaitsNowhere
  <1>13. OnePlace'
    <2> SUFFICES ASSUME NEW t \in Threads
                 PROVE  /\ \A i, j \in Nat : Pends(t, i)' /\ Pends(t, j)' => i = j
                        /\ \A q, r \in Threads, k, l \in Nat :
                             InHand(t, q, k)' /\ InHand(t, r, l)' => q = r /\ k = l
                        /\ \A i, k \in Nat, q \in Threads :
                             ~(Pends(t, i)' /\ InHand(t, q, k)')
      BY DEF OnePlace
    <2>1. \A i, j \in Nat : Pends(t, i)' /\ Pends(t, j)' => i = j
      BY <1>10 DEF OnceInv, OnePlace
    <2>2. ASSUME NEW q \in Threads, NEW r \in Threads, NEW k \in Nat, NEW l \in Nat,
                 InHand(t, q, k)', InHand(t, r, l)'
          PROVE  q = r /\ k = l
      <3>1. /\ InHand(t, q, IF q = p THEN k + s ELSE k)
            /\ InHand(t, r, IF r = p THEN l + s ELSE l)
        BY <1>8, <1>9, <2>2
      <3>2. q = r /\ (IF q = p THEN k + s ELSE k) = (IF r = p THEN l + s ELSE l)
        BY <1>7, <3>1 DEF OnceInv, OnePlace
      <3> QED
        BY <1>7, <3>2
    <2>3. ASSUME NEW i \in Nat, NEW k \in Nat, NEW q \in Threads,
                 Pends(t, i)', InHand(t, q, k)'
          PROVE  FALSE
      <3>1. Pends(t, i) /\ InHand(t, q, IF q = p THEN k + s ELSE k)
        BY <1>8, <1>9, <1>10, <2>3
      <3> QED
        BY <1>7, <3>1 DEF OnceInv, OnePlace
    <2> QED
      BY <2>1, <2>2, <2>3
  <1>14. \A t \in Threads : Unmade(t)' => Unmade(t)
    BY <1>5, <1>6 DEF Unmade
  <1> QED
    BY <1>3, <1>4, <1>11, <1>12, <1>13, <1>14 DEF OnceInv

(* Every step keeps every task at one place, begun once at most. *)
LEMMA KeepsOnce ==
  ASSUME IInv, TypeOK', OnceInv, NEW p \in Threads,
         (\E m \in Calls : Call(p, m)) \/ Step(p) \/ WaitInterrupted(p)
  PROVE  OnceInv'
  <1> USE DEF Goto, Places, Unmade
  <1>1. TypeOK
    BY DEF IInv
  <1>2. ASSUME NEW l \in Places, pc' = [pc EXCEPT ![p] = l], l # "run",
               l \in {"idle", "check", "add"} => Unmade(p),
               UNCHANGED <<todo, myPendingTasks, ran>>
        PROVE  OnceInv'
    BY <1>1, <1>2, MoveCarriesOn
  <1>3. ASSUME NEW m \in Calls, Call(p, m) PROVE OnceInv'
    BY <1>2, <1>3 DEF Call, Calls, Deferred
  <1>4. CASE Execute(p)
    BY <1>4, ExecuteOnce
  <1>5. CASE AddPending(p)
    BY <1>5, AddPendingOnce
  <1>6. CASE TakePending(p)
    BY <1>6, TakePendingOnce
  <1>7. CASE BeginTermination(p)
    BY <1>7, BeginOnce
  <1>8. CASE Impl(p) \/ ReleaseWaiters(p) \/ (Terminate(p) /\ EndTask(p))
    <2>1. EndTask(p) /\ pc[p] \in Working /\ UNCHANGED <<myPendingTasks, ran>>
      BY <1>8 DEF Impl, ReleaseWaiters, Terminate, Working
    <2>2. todo[p] # << >>
      BY <2>1 DEF IInv, WorkInv
    <2> QED
      BY <1>1, <2>1, <2>2, EndCarriesOn
  <1>9. CASE ImplThrows(p)
    <2>1. /\ todo'[p] = << >> /\ pc'[p] \notin {"idle", "check", "add"}
          /\ \A q \in Threads \ {p} : todo'[q] = todo[q] /\ pc'[q] = pc[q]
          /\ UNCHANGED <<myPendingTasks, ran>>
      BY <1>1, <1>9 DEF ImplThrows, AfterTasks, TypeOK
    <2>2. 1..Len(todo'[p]) = {}
      BY <2>1
    <2>3. \A k \in 1..Len(todo'[p]) : (k > 1 \/ pc'[p] = "run") =>
            /\ k + 0 \in 1..Len(todo[p])
            /\ todo'[p][k] = todo[p][k + 0]
            /\ (k + 0 > 1 \/ pc[p] = "run")
      BY <2>2
    <2> QED
      BY <1>1, <2>1, <2>3, CarriedOn
  <1>10. CASE Terminate(p) /\ ~EndTask(p)
    BY <1>2, <1>10 DEF Terminate
  <1>11. CASE StartNotify(p)
    BY <1>2, <1>11 DEF StartNotify
  <1>12. CASE Recheck(p)
    BY <1>2, <1>12 DEF Recheck
  <1>13. CASE StartObservers(p) \/ FireTerminated(p) \/ WaitFor(p) \/ WaitInterrupted(p)
    BY <1>2, <1>13 DEF StartObservers, FireTerminated, WaitFor, WaitInterrupted
  <1>14. CASE FireWillTerminate(p)
    BY <1>2, <1>14 DEF FireWillTerminate
  <1> QED
    BY <1>3, <1>4, <1>5, <1>6, <1>7, <1>8, <1>9, <1>10, <1>11, <1>12, <1>13, <1>14
       DEF Step

THEOREM OnceInvariance == Spec => []OnceInv
  <1>1. Init => OnceInv
    BY DEF Init, OnceInv, OnePlace, WaitsNowhere, Unmade, Pends, InHand
  <1>2. IInv /\ IInv' /\ OnceInv /\ [Next]_hvars => OnceInv'
    <2> SUFFICES ASSUME IInv, IInv', OnceInv, [Next]_hvars PROVE OnceInv'
      OBVIOUS
    <2>1. CASE UNCHANGED hvars
      BY <2>1 DEF hvars, OnceInv, OnePlace, WaitsNowhere, Unmade, Pends, InHand
    <2>2. ASSUME NEW p \in Threads,
                 (\E m \in Calls : Call(p, m)) \/ Step(p) \/ WaitInterrupted(p)
          PROVE  OnceInv'
      BY <2>2, KeepsOnce DEF IInv
    <2> QED
      BY <2>1, <2>2 DEF Next
  <1> QED
    BY <1>1, <1>2, Invariance, PTL DEF Spec

(* However many threads start the handler, add tasks and take the pending    *)
(* ones at the same time, none is executed twice.                           *)
THEOREM NoTaskRunsTwice == Spec => []TasksRunOnce
  <1>1. OnceInv => TasksRunOnce
    BY DEF OnceInv, TasksRunOnce
  <1> QED
    BY <1>1, OnceInvariance, PTL


(***************************************************************************)
(* The handler of a process of the operating system.                        *)
(***************************************************************************)

(* A step of a thread of the handler, with the hooks of the subclass. *)
LEMMA OSStepIsStep ==
  ASSUME NEW p \in Threads, OSStep(p)
  PROVE  Step(p)
<1>1. CASE PlainStep(p)
  BY <1>1 DEF PlainStep, Step
<1>2. CASE OSStartObservers(p)
  BY <1>2 DEF OSStartObservers, Step
<1>3. CASE DestroyProcessImpl(p)
  BY <1>3 DEF DestroyProcessImpl, Step
<1>4. CASE DetachProcessImpl(p)
  BY <1>4 DEF DetachProcessImpl, Step
<1>5. CASE OSFireTerminated(p)
  BY <1>5 DEF OSFireTerminated, Step
<1>6. QED
  BY <1>1, <1>2, <1>3, <1>4, <1>5 DEF OSStep

(* The calls that the pooled threads and the clients make. *)
LEMMA OSCallIsCall ==
  ASSUME ClientCall \/ NotifyProcessTerminated \/ NotifyProcessDetached
  PROVE  \E p \in Threads, m \in Calls : Call(p, m)
<1>1. /\ {Starter, Waiter, Detacher} \subseteq Threads
      /\ Clients \subseteq Threads
  BY RolesAssumption
<1>2. {"startNotify", "destroyProcess", "detachProcess", "waitFor",
       "notifyTerminated"} \subseteq Calls
  BY DEF Calls, Deferred
<1>3. CASE ClientCall
  BY <1>1, <1>2, <1>3 DEF ClientCall
<1>4. CASE NotifyProcessTerminated
  BY <1>1, <1>2, <1>4 DEF NotifyProcessTerminated
<1>5. CASE NotifyProcessDetached
  BY <1>1, <1>2, <1>5 DEF NotifyProcessDetached
<1>6. QED
  BY <1>3, <1>4, <1>5

LEMMA OSNextIsNext ==
  ASSUME [OSNext]_vars
  PROVE  [Next]_hvars
<1>1. CASE \E p \in Threads : OSStep(p)
  BY <1>1, OSStepIsStep DEF Next
<1>2. CASE ClientCall \/ NotifyProcessTerminated \/ NotifyProcessDetached
  BY <1>2, OSCallIsCall DEF Next
<1>3. CASE ClientInterrupted
  <2>1. PICK p \in Clients : WaitInterrupted(p)
    BY <1>3 DEF ClientInterrupted
  <2>2. p \in Threads
    BY RolesAssumption
  <2>3. QED
    BY <2>1, <2>2 DEF Next
<1>4. CASE \/ WaiterStarts \/ WaitForProcess \/ TakeCallback \/ TellReaders
           \/ JoinReaders \/ Detach
  BY <1>4 DEF WaiterStarts, WaitForProcess, TakeCallback, TellReaders,
     JoinReaders, Detach
<1>5. CASE \E r \in Readers : ReadAvailable(r) \/ ReaderFails(r) \/ ProcessWrites(r)
  BY <1>5 DEF ReadAvailable, ReaderFails, ProcessWrites
<1>6. CASE ProcessExits \/ Dispose
  BY <1>6 DEF ProcessExits, Dispose
<1>7. CASE UNCHANGED vars
  BY <1>7 DEF vars
<1>8. QED
  BY <1>1, <1>2, <1>3, <1>4, <1>5, <1>6, <1>7 DEF OSNext, WaiterStep, DetacherStep

(* The handler of an operating-system process implements ProcessHandler: no  *)
(* thread of the pool touches its state but through the handler's methods.  *)
THEOREM Implements == OSSpec => Spec
<1>1. OSInit => Init
  BY DEF OSInit
<1>2. [OSNext]_vars => [Next]_hvars
  BY OSNextIsNext
<1>3. QED
  BY <1>1, <1>2, PTL DEF OSSpec, Spec

(* Destroying, detaching and the exit of the process race with each other,   *)
(* yet a listener of an OSProcessHandler hears of each stage once.          *)
THEOREM OSEachEventOnce == OSSpec => []EventsOnce
  BY Implements, EachEventOnce

(* A thread that waits for an OSProcessHandler gets through only after the   *)
(* termination was announced, by the waiting or by the detaching thread.    *)
THEOREM OSWaitersAreLast == OSSpec => []WaitersSeeTermination
  BY Implements, WaitersAreLast

(* The exit of a process that nobody has yet started to observe is kept for  *)
(* the start, as is every request made before it.                           *)
THEOREM OSPendingTasksAreSeen == OSSpec => []NoTaskStranded
  BY Implements, PendingTasksAreSeen

(* What ProcessHandler promises of every state holds of an OSProcessHandler. *)
THEOREM OSHandlerCorrect == OSSpec => []HandlerIsSound
  BY Implements, HandlerCorrect

(* No task of an OSProcessHandler is executed twice. *)
THEOREM OSNoTaskRunsTwice == OSSpec => []TasksRunOnce
  BY Implements, NoTaskRunsTwice

(***************************************************************************)
(* What listeners hear of the process.  The invariant follows the callback: *)
(* startNotify leaves it when it starts the readers, the waiting thread     *)
(* takes it after the process has exited, tells the readers and awaits      *)
(* their ends.  Nothing but a Detach interrupts that thread.                *)
(***************************************************************************)

(* Who reports a termination, and whose report is being carried out. *)
ReportInv ==
  /\ \A p \in Threads : /\ pc[p] = "idle" <=> call[p] = "none"
                        /\ call[p] = "notifyTerminated" => p \in {Waiter, Detacher}
                        /\ pc[p] \in {"toTerminated", "fireTerminated", "up"} => Terminates(p)
  /\ call[Waiter] = "notifyTerminated" => waiter = "notify"
  /\ call[Detacher] = "notifyTerminated" => Detached
  /\ announced["terminated"] = 1 => endedBy \in Threads /\ call[endedBy] = "notifyTerminated"

(* How far the waiting thread is, and what this says of process and callback. *)
WaiterInv ==
  /\ ~Detached => ~interrupted /\ waiter # "lost"
  /\ ~Detached /\ waiter \in {"take", "tell", "join", "notify"} =>
       process = "exited" /\ exitCode = "real"
  /\ waiter \in {"tell", "join", "notify"} => callback = "taken"
  /\ callback # "none" =>
       announced["started"] = 1 /\ \A r \in Readers : reader[r] # "none"

(* A reader that ended by itself was told, and had read everything. *)
ReaderInv ==
  /\ heard \in [Readers -> Nat]
  /\ \A r \in Readers :
       /\ told[r] => waiter \in {"join", "notify"}
       /\ reader[r] = "done" /\ ~destroyed => told[r]
       /\ reader[r] = "done" /\ ~destroyed /\ ~Detached => heard[r] = written[r]
       /\ waiter = "notify" /\ ~Detached => reader[r] = "done"

OSIInv == IInv /\ OSTypeOK /\ ReportInv /\ WaiterInv /\ ReaderInv /\ SilenceAfterEnd

Reporting == {"toTerminated", "fireTerminated", "up"}

(* A step of p changes the place of p only, and brings p to report a         *)
(* termination only with such a task in its hands.                          *)
LEMMA StepReports ==
  ASSUME IInv, NEW p \in Threads, Step(p) \/ WaitInterrupted(p)
  PROVE  /\ call' = call /\ pc[p] # "idle" /\ pc'[p] # "idle"
         /\ \A q \in Threads \ {p} : pc'[q] = pc[q] /\ todo'[q] = todo[q]
         /\ pc'[p] \in Reporting =>
              todo'[p] = todo[p] /\ (pc[p] \in Reporting \/ Terminates(p))
<1> USE DEF Goto, Reporting
<1>1. pc \in [Threads -> Places] /\ todo \in [Threads -> Seq(Threads)]
  BY DEF IInv, TypeOK
<1>2. CASE StartNotify(p) \/ StartObservers(p) \/ WaitFor(p) \/ WaitInterrupted(p)
  BY <1>1, <1>2 DEF StartNotify, StartObservers, WaitFor, WaitInterrupted
<1>3. CASE Execute(p) \/ AddPending(p) \/ Recheck(p) \/ TakePending(p)
  BY <1>1, <1>3 DEF Execute, AddPending, Recheck, TakePending, AfterTasks
<1>4. CASE BeginTermination(p) \/ Terminate(p)
  BY <1>1, <1>4 DEF BeginTermination, Terminate, EndTask, AfterTasks
<1>5. CASE FireWillTerminate(p) \/ FireTerminated(p) \/ ReleaseWaiters(p)
  BY <1>1, <1>5 DEF FireWillTerminate, FireTerminated, ReleaseWaiters, EndTask,
                    AfterTasks
<1>6. CASE Impl(p) \/ ImplThrows(p)
  BY <1>1, <1>6 DEF Impl, ImplThrows, EndTask, AfterTasks
<1>7. QED
  BY <1>2, <1>3, <1>4, <1>5, <1>6 DEF Step

(* The announcements of a step. *)
LEMMA StepAnnounces ==
  ASSUME IInv, NEW p \in Threads, Step(p) \/ WaitInterrupted(p)
  PROVE  /\ ~StartObservers(p) => announced'["started"] = announced["started"]
         /\ ~FireTerminated(p) => announced'["terminated"] = announced["terminated"]
<1>1. announced \in [{"started", "willTerminate", "terminated"} -> Nat]
  BY DEF IInv, TypeOK
<1>2. CASE StartObservers(p) \/ FireWillTerminate(p) \/ FireTerminated(p)
  BY <1>1, <1>2 DEF StartObservers, FireWillTerminate, FireTerminated, Multicast
<1>3. CASE ~(StartObservers(p) \/ FireWillTerminate(p) \/ FireTerminated(p))
  BY <1>3 DEF Step, StartNotify, Execute, AddPending, Recheck, TakePending,
     BeginTermination, Impl, ImplThrows, Terminate, ReleaseWaiters, WaitFor,
     WaitInterrupted
<1>4. QED
  BY <1>2, <1>3

LEMMA RolesDiffer ==
  /\ Waiter \in Threads /\ Detacher \in Threads /\ Starter \in Threads
  /\ Clients \subseteq Threads
  /\ Waiter # Detacher /\ Waiter # Starter /\ Detacher # Starter
  /\ Waiter \notin Clients /\ Detacher \notin Clients
  BY RolesAssumption

(* The last conjunct of ReportInv. *)
EndIsReported ==
  announced["terminated"] = 1 =>
    endedBy \in Threads /\ call[endedBy] = "notifyTerminated"

(* What a step of a thread says of reports, if it does not end the waiting. *)
LEMMA StepKeepsReports ==
  ASSUME OSIInv, IInv', NEW p \in Threads, Step(p) \/ WaitInterrupted(p),
         UNCHANGED waiter, Detached => Detached', EndIsReported'
  PROVE  ReportInv'
<1> USE DEF OSIInv, ReportInv
<1>1. /\ call' = call /\ pc[p] # "idle" /\ pc'[p] # "idle"
      /\ \A q \in Threads \ {p} : pc'[q] = pc[q] /\ todo'[q] = todo[q]
      /\ pc'[p] \in Reporting =>
           todo'[p] = todo[p] /\ (pc[p] \in Reporting \/ Terminates(p))
  BY StepReports
<1>2. ASSUME NEW q \in Threads
      PROVE  /\ pc'[q] = "idle" <=> call'[q] = "none"
             /\ call'[q] = "notifyTerminated" => q \in {Waiter, Detacher}
             /\ pc'[q] \in {"toTerminated", "fireTerminated", "up"} => Terminates(q)'
  <2>1. CASE q = p
    BY <1>1, <2>1 DEF Terminates, Reporting
  <2>2. CASE q # p
    BY <1>1, <2>2 DEF Terminates
  <2>3. QED
    BY <2>1, <2>2
<1>3. QED
  BY <1>1, <1>2 DEF EndIsReported

(* A step that adds nothing to what the handler does. *)
LEMMA PlainKeeps ==
  ASSUME OSIInv, IInv', NEW p \in Threads,
         PlainStep(p) \/ (WaitInterrupted(p) /\ UNCHANGED osvars)
  PROVE  OSIInv'
<1> USE DEF OSIInv
<1>1. /\ Step(p) \/ WaitInterrupted(p)
      /\ UNCHANGED osvars
      /\ ~StartObservers(p) /\ ~FireTerminated(p)
  BY DEF PlainStep, Step, StartObservers, FireTerminated, StartNotify, Execute,
     AddPending, Recheck, TakePending, BeginTermination, FireWillTerminate,
     Terminate, ReleaseWaiters, WaitFor, WaitInterrupted
<1>2. /\ announced'["started"] = announced["started"]
      /\ announced'["terminated"] = announced["terminated"]
      /\ call' = call
  BY <1>1, StepAnnounces, StepReports
<1>3. OSTypeOK'
  BY <1>1 DEF OSTypeOK, osvars, IInv
<1>4. ReportInv'
  BY <1>1, <1>2, StepKeepsReports DEF osvars, Detached, ReportInv, EndIsReported
<1>5. WaiterInv' /\ ReaderInv' /\ SilenceAfterEnd'
  BY <1>1, <1>2 DEF WaiterInv, ReaderInv, SilenceAfterEnd, osvars, Detached
<1>6. QED
  BY <1>3, <1>4, <1>5

(* The start: the readers begin, and the callback is left, for the first time. *)
LEMMA StartObserversKeeps ==
  ASSUME OSIInv, IInv', NEW p \in Threads, OSStartObservers(p)
  PROVE  OSIInv'
<1> USE DEF OSIInv
<1>1. /\ StartObservers(p) /\ Step(p)
      /\ UNCHANGED <<process, destroyed, shutdown, waiter, interrupted, exitCode,
                     told, written, heard, detacher, endedBy, textAfterEnd>>
  BY DEF OSStartObservers, Step
<1>2. announced["started"] = 0 /\ announced'["started"] = 1
  <2>1. Starting(p)
    BY <1>1 DEF StartObservers, IInv, StartInv, Starting
  <2>2. announced["started"] = 0
    BY <2>1 DEF IInv, StartInv
  <2>3. QED
    BY <1>1, <2>2 DEF StartObservers, Multicast, IInv, TypeOK
<1>3. callback = "none" /\ waiter \notin {"tell", "join", "notify"}
  BY <1>2 DEF WaiterInv
<1>4. announced'["terminated"] = announced["terminated"] /\ call' = call
  BY <1>1, StepAnnounces, StepReports DEF StartObservers, FireTerminated
<1>5. \/ reader' = reader /\ callback' = callback
      \/ reader' = [r \in Readers |-> "running"] /\ callback' = "set"
  BY DEF OSStartObservers
<1>6. OSTypeOK'
  BY <1>1, <1>5 DEF OSTypeOK, IInv
<1>7. ReportInv'
  BY <1>1, <1>4, StepKeepsReports DEF Detached, ReportInv, EndIsReported
<1>8. WaiterInv' /\ ReaderInv' /\ SilenceAfterEnd'
  BY <1>1, <1>2, <1>3, <1>4, <1>5 DEF WaiterInv, ReaderInv, SilenceAfterEnd, Detached
<1>9. QED
  BY <1>6, <1>7, <1>8

(* destroyProcessImpl and detachProcessImpl. *)
LEMMA HooksKeep ==
  ASSUME OSIInv, IInv', NEW p \in Threads, DestroyProcessImpl(p) \/ DetachProcessImpl(p)
  PROVE  OSIInv'
<1> USE DEF OSIInv
<1>1. /\ Impl(p) \/ ImplThrows(p)
      /\ Step(p)
      /\ UNCHANGED <<process, shutdown, waiter, interrupted, exitCode, callback,
                     reader, told, written, heard, endedBy, textAfterEnd>>
      /\ destroyed' \in {destroyed, TRUE} /\ detacher' \in {detacher, "queued"}
  BY DEF DestroyProcessImpl, DetachProcessImpl, Step
<1>2. /\ announced'["started"] = announced["started"]
      /\ announced'["terminated"] = announced["terminated"]
      /\ call' = call
  BY <1>1, StepAnnounces, StepReports DEF Impl, ImplThrows, StartObservers, FireTerminated
<1>3. OSTypeOK'
  BY <1>1 DEF OSTypeOK, IInv
<1>4. ReportInv'
  BY <1>1, <1>2, StepKeepsReports DEF Detached, ReportInv, EndIsReported
<1>5. WaiterInv' /\ ReaderInv' /\ SilenceAfterEnd'
  <2>0. destroyed => destroyed'
    <3>1. destroyed' = destroyed \/ destroyed' = TRUE
      BY <1>1
    <3>2. QED
      BY <3>1, Zenon
  <2>1. Detached => Detached'
    BY <1>1 DEF Detached
  <2>2. WaiterInv' /\ SilenceAfterEnd'
    BY <1>1, <1>2, <2>1 DEF WaiterInv, SilenceAfterEnd
  <2>3. ReaderInv'
    BY <1>1, <2>0, <2>1 DEF ReaderInv
  <2>4. QED
    BY <2>2, <2>3
<1>6. QED
  BY <1>3, <1>4, <1>5

(* The announcement of the end, by the report of the waiting or detaching thread. *)
LEMMA FireTerminatedKeeps ==
  ASSUME OSIInv, IInv', NEW p \in Threads, OSFireTerminated(p)
  PROVE  OSIInv'
<1> USE DEF OSIInv
<1>1. /\ FireTerminated(p) /\ Step(p) /\ ~StartObservers(p)
      /\ endedBy' = Head(todo[p])
      /\ UNCHANGED <<process, destroyed, shutdown, waiter, interrupted, exitCode,
                     callback, reader, told, written, heard, detacher, textAfterEnd>>
  BY DEF OSFireTerminated, Step, FireTerminated, StartObservers
<1>2. announced'["started"] = announced["started"] /\ call' = call
  BY <1>1, StepAnnounces, StepReports
<1>3. endedBy' \in Threads /\ call'[endedBy'] = "notifyTerminated"
  <2>1. pc[p] = "fireTerminated" /\ Terminates(p)
    BY <1>1 DEF FireTerminated, ReportInv
  <2>2. todo[p] \in Seq(Threads) /\ todo[p] # << >>
    BY <2>1 DEF IInv, TypeOK, WorkInv, Working
  <2>3. QED
    BY <1>1, <1>2, <2>1, <2>2 DEF Terminates
<1>4. OSTypeOK'
  BY <1>1, <1>3 DEF OSTypeOK, IInv
<1>5. ReportInv'
  BY <1>1, <1>3, StepKeepsReports DEF Detached, EndIsReported
<1>6. WaiterInv' /\ ReaderInv' /\ SilenceAfterEnd'
  BY <1>1, <1>2 DEF WaiterInv, ReaderInv, SilenceAfterEnd, Detached
<1>7. QED
  BY <1>4, <1>5, <1>6

(* A call makes its thread busy; a termination is reported by the waiting    *)
(* thread after its work, or by the detaching one.                          *)
LEMMA CallsKeep ==
  ASSUME OSIInv, IInv', ClientCall \/ NotifyProcessTerminated \/ NotifyProcessDetached
  PROVE  OSIInv'
<1> USE DEF OSIInv
<1>1. PICK p \in Threads, m \in Calls :
        /\ Call(p, m)
        /\ m = "notifyTerminated" => \/ p = Waiter /\ waiter = "notify"
                                     \/ p = Detacher /\ Detached
  <2>1. {"startNotify", "destroyProcess", "detachProcess", "waitFor",
         "notifyTerminated"} \subseteq Calls
    BY DEF Calls, Deferred
  <2>2. CASE ClientCall
    BY <2>1, <2>2, RolesDiffer DEF ClientCall
  <2>3. CASE NotifyProcessTerminated
    BY <2>1, <2>3, RolesDiffer DEF NotifyProcessTerminated
  <2>4. CASE NotifyProcessDetached
    BY <2>1, <2>4, RolesDiffer DEF NotifyProcessDetached, Detached
  <2>5. QED
    BY <2>2, <2>3, <2>4
<1>2. UNCHANGED osvars
  BY DEF ClientCall, NotifyProcessTerminated, NotifyProcessDetached
<1>3. /\ pc[p] = "idle" /\ pc'[p] \in {"casStart", "waiting", "check"}
      /\ call[p] = "none" /\ call'[p] = m /\ m # "none"
      /\ \A q \in Threads \ {p} : pc'[q] = pc[q] /\ call'[q] = call[q]
      /\ UNCHANGED <<todo, announced>>
  BY <1>1 DEF Call, Goto, IInv, TypeOK, ReportInv, Calls, Deferred
<1>4. OSTypeOK'
  BY <1>2 DEF OSTypeOK, osvars, IInv
<1>5. ReportInv'
  <2>1. ASSUME NEW q \in Threads
        PROVE  /\ pc'[q] = "idle" <=> call'[q] = "none"
               /\ call'[q] = "notifyTerminated" => q \in {Waiter, Detacher}
    BY <1>1, <1>3 DEF ReportInv
  <2>2. ASSUME NEW q \in Threads, pc'[q] \in {"toTerminated", "fireTerminated", "up"}
        PROVE  Terminates(q)'
    <3>1. q # p /\ pc[q] \in {"toTerminated", "fireTerminated", "up"}
      BY <1>3, <2>2
    <3>2. Terminates(q)
      BY <3>1 DEF ReportInv
    <3>3. Head(todo[q]) \in Threads
      BY <3>1 DEF IInv, TypeOK, WorkInv, Working
    <3>4. QED
      BY <1>3, <3>2, <3>3 DEF Terminates
  <2>3. /\ call'[Waiter] = "notifyTerminated" => waiter' = "notify"
        /\ call'[Detacher] = "notifyTerminated" => Detached'
    BY <1>1, <1>2, <1>3, RolesDiffer DEF ReportInv, osvars, Detached
  <2>4. EndIsReported'
    BY <1>2, <1>3 DEF ReportInv, EndIsReported, osvars
  <2>5. QED
    BY <2>1, <2>2, <2>3, <2>4 DEF ReportInv, EndIsReported
<1>6. WaiterInv' /\ ReaderInv' /\ SilenceAfterEnd'
  BY <1>2, <1>3 DEF WaiterInv, ReaderInv, SilenceAfterEnd, osvars, Detached
<1>7. QED
  BY <1>4, <1>5, <1>6

(* The steps of the pooled threads and of the world leave the handler alone. *)
LEMMA WaiterKeeps ==
  ASSUME OSIInv, UNCHANGED hvars, IInv',
         WaiterStarts \/ WaitForProcess \/ TakeCallback \/ TellReaders \/ JoinReaders
  PROVE  OSIInv'
<1> USE DEF OSIInv, hvars
<1>1. UNCHANGED <<process, destroyed, shutdown, reader, written, heard, detacher,
                  endedBy, textAfterEnd>>
  BY DEF WaiterStarts, WaitForProcess, TakeCallback, TellReaders, JoinReaders
<1>2. OSTypeOK'
  BY <1>1 DEF WaiterStarts, WaitForProcess, TakeCallback, TellReaders, JoinReaders,
     OSTypeOK, IInv
<1>3. ReportInv'
  BY <1>1 DEF WaiterStarts, WaitForProcess, TakeCallback, TellReaders, JoinReaders,
     ReportInv, Terminates, Detached
<1>4. WaiterInv'
  BY <1>1 DEF WaiterStarts, WaitForProcess, TakeCallback, TellReaders, JoinReaders,
     WaiterInv, Detached
<1>5. ReaderInv'
  BY <1>1 DEF WaiterStarts, WaitForProcess, TakeCallback, TellReaders, JoinReaders,
     WaiterInv, ReaderInv, Detached, OSTypeOK
<1>6. SilenceAfterEnd'
  BY <1>1 DEF SilenceAfterEnd, Detached
<1>7. QED
  BY <1>2, <1>3, <1>4, <1>5, <1>6

LEMMA DetachKeeps ==
  ASSUME OSIInv, UNCHANGED hvars, IInv', Detach
  PROVE  OSIInv'
<1> USE DEF OSIInv, hvars, Detach, Detached
<1>1. OSTypeOK'
  BY DEF OSTypeOK, IInv
<1>2. ReportInv'
  BY DEF ReportInv, Terminates
<1>3. WaiterInv' /\ ReaderInv' /\ SilenceAfterEnd'
  BY DEF WaiterInv, ReaderInv, SilenceAfterEnd
<1>4. QED
  BY <1>1, <1>2, <1>3

(* A reader announces text after the end only if the process was detached:    *)
(* else the waiting thread, which reported the end, had awaited it.          *)
LEMMA ReadersKeep ==
  ASSUME OSIInv, UNCHANGED hvars, IInv', NEW r \in Readers,
         ReadAvailable(r) \/ ReaderFails(r) \/ ProcessWrites(r)
  PROVE  OSIInv'
<1> USE DEF OSIInv, hvars
<1>1. UNCHANGED <<process, destroyed, shutdown, waiter, interrupted, exitCode,
                  callback, told, detacher, endedBy>>
  BY DEF ReadAvailable, ReaderFails, ProcessWrites
<1>2. ReportInv'
  BY <1>1 DEF ReportInv, Terminates, Detached
<1>3. \A q \in Readers : heard[q] \in 0..written[q] /\ written[q] \in 0..MaxOutput
  BY DEF OSTypeOK
<1>4. CASE ReadAvailable(r)
  <2>1. /\ heard' = [heard EXCEPT ![r] = written[r]] /\ written' = written
        /\ reader[r] = "running"
        /\ reader' \in [Readers -> {"none", "running", "done"}]
        /\ \A q \in Readers : reader'[q] = "done" =>
             reader[q] = "done" \/ (q = r /\ told[r])
        /\ \A q \in Readers : reader[q] = "done" => reader'[q] = "done"
        /\ \A q \in Readers : reader[q] # "none" => reader'[q] # "none"
    BY <1>4 DEF ReadAvailable, OSTypeOK
  <2>2. /\ heard' \in [Readers -> Nat] /\ heard'[r] = written[r]
        /\ \A q \in Readers \ {r} : heard'[q] = heard[q]
    BY <1>3, <2>1, OutputAssumption DEF ReaderInv
  <2>3. textAfterEnd' \in BOOLEAN /\ (textAfterEnd' => Detached)
    <3>1. ASSUME announced["terminated"] > 0, ~Detached PROVE reader[r] = "done"
      <4>1. announced["terminated"] = 1
        BY <3>1 DEF IInv, EndInv, TypeOK
      <4>2. waiter = "notify"
        BY <3>1, <4>1 DEF ReportInv
      <4>3. QED
        BY <3>1, <4>2 DEF ReaderInv
    <3>2. QED
      BY <1>4, <2>1, <3>1 DEF ReadAvailable, SilenceAfterEnd, OSTypeOK
  <2>4. OSTypeOK'
    BY <1>1, <1>3, <2>1, <2>2, <2>3 DEF OSTypeOK, IInv
  <2>5. WaiterInv'
    BY <1>1, <2>1 DEF WaiterInv, Detached
  <2>6. ReaderInv' /\ SilenceAfterEnd'
    BY <1>1, <2>1, <2>2, <2>3 DEF ReaderInv, SilenceAfterEnd, Detached
  <2>7. QED
    BY <1>2, <2>4, <2>5, <2>6
<1>5. CASE ReaderFails(r)
  <2>1. /\ UNCHANGED <<heard, written, textAfterEnd>> /\ destroyed
        /\ reader' \in [Readers -> {"none", "running", "done"}]
        /\ \A q \in Readers : reader[q] = "done" => reader'[q] = "done"
        /\ \A q \in Readers : reader[q] # "none" => reader'[q] # "none"
    BY <1>5 DEF ReaderFails, OSTypeOK
  <2>2. OSTypeOK' /\ SilenceAfterEnd'
    BY <1>1, <2>1 DEF OSTypeOK, IInv, SilenceAfterEnd, Detached
  <2>3. WaiterInv' /\ ReaderInv'
    BY <1>1, <2>1 DEF WaiterInv, ReaderInv, Detached
  <2>4. QED
    BY <1>2, <2>2, <2>3
<1>6. CASE ProcessWrites(r)
  <2>1. /\ UNCHANGED <<heard, reader, textAfterEnd>> /\ process = "alive"
        /\ written[r] < MaxOutput /\ written' = [written EXCEPT ![r] = @ + 1]
    BY <1>6 DEF ProcessWrites
  <2>2. /\ written' \in [Readers -> 0..MaxOutput]
        /\ \A q \in Readers : heard[q] \in 0..written'[q]
    BY <1>3, <2>1, OutputAssumption DEF OSTypeOK
  <2>3. OSTypeOK' /\ SilenceAfterEnd' /\ WaiterInv'
    BY <1>1, <2>1, <2>2 DEF OSTypeOK, IInv, SilenceAfterEnd, WaiterInv, Detached
  <2>4. \A q \in Readers : told[q] => Detached
    BY <2>1 DEF ReaderInv, WaiterInv
  <2>5. ReaderInv'
    BY <1>1, <2>1, <2>4 DEF ReaderInv, Detached
  <2>6. QED
    BY <1>2, <2>3, <2>5
<1>7. QED
  BY <1>4, <1>5, <1>6

(* The process exits, or the pool is shut down. *)
LEMMA WorldKeeps ==
  ASSUME OSIInv, UNCHANGED hvars, IInv', ProcessExits \/ Dispose
  PROVE  OSIInv'
<1> USE DEF OSIInv, hvars
<1>1. /\ UNCHANGED <<destroyed, waiter, interrupted, exitCode, callback, reader, told,
                     written, heard, detacher, endedBy, textAfterEnd>>
      /\ process' \in {process, "exited"} /\ shutdown' \in {shutdown, TRUE}
  BY DEF ProcessExits, Dispose
<1>2. OSTypeOK'
  BY <1>1 DEF OSTypeOK, IInv
<1>3. ReportInv'
  BY <1>1 DEF ReportInv, Terminates, Detached
<1>4. WaiterInv' /\ ReaderInv' /\ SilenceAfterEnd'
  BY <1>1 DEF WaiterInv, ReaderInv, SilenceAfterEnd, Detached
<1>5. QED
  BY <1>2, <1>3, <1>4

LEMMA OSInitInv == OSInit => OSIInv
<1> SUFFICES ASSUME OSInit PROVE OSIInv
  OBVIOUS
<1>1. Init /\ IInv
  BY InitInv DEF OSInit
<1>2. OSTypeOK
  <2>1. 0 \in 0..MaxOutput /\ 0 \in 0..0
    BY OutputAssumption
  <2>2. /\ written \in [Readers -> 0..MaxOutput]
        /\ \A r \in Readers : heard[r] \in 0..written[r]
    BY <2>1 DEF OSInit
  <2>3. {destroyed, shutdown, interrupted, textAfterEnd} \subseteq BOOLEAN
    BY DEF OSInit
  <2>4. QED
    BY <1>1, <2>2, <2>3 DEF OSInit, OSTypeOK, IInv
<1>3. ReportInv
  BY <1>1, RolesDiffer DEF OSInit, Init, ReportInv
<1>4. WaiterInv /\ ReaderInv /\ SilenceAfterEnd
  BY DEF OSInit, WaiterInv, ReaderInv, SilenceAfterEnd, Detached
<1>5. QED
  BY <1>1, <1>2, <1>3, <1>4 DEF OSIInv

LEMMA OSNextInv == OSIInv /\ [OSNext]_vars => OSIInv'
<1> SUFFICES ASSUME OSIInv, [OSNext]_vars PROVE OSIInv'
  OBVIOUS
<1>1. IInv'
  BY OSNextIsNext, NextInv DEF OSIInv
<1>2. CASE \E p \in Threads : OSStep(p)
  BY <1>1, <1>2, PlainKeeps, StartObserversKeeps, HooksKeep, FireTerminatedKeeps
     DEF OSStep
<1>3. CASE ClientInterrupted
  BY <1>1, <1>3, PlainKeeps, RolesDiffer DEF ClientInterrupted
<1>4. CASE ClientCall \/ NotifyProcessTerminated \/ NotifyProcessDetached
  BY <1>1, <1>4, CallsKeep
<1>5. CASE WaiterStarts \/ WaitForProcess \/ TakeCallback \/ TellReaders \/ JoinReaders
  <2>1. UNCHANGED hvars
    BY <1>5 DEF WaiterStarts, WaitForProcess, TakeCallback, TellReaders, JoinReaders
  <2>2. QED
    BY <1>1, <1>5, <2>1, WaiterKeeps
<1>6. CASE Detach
  <2>1. UNCHANGED hvars
    BY <1>6 DEF Detach
  <2>2. QED
    BY <1>1, <1>6, <2>1, DetachKeeps
<1>7. CASE \E r \in Readers : ReadAvailable(r) \/ ReaderFails(r) \/ ProcessWrites(r)
  <2>1. UNCHANGED hvars
    BY <1>7 DEF ReadAvailable, ReaderFails, ProcessWrites
  <2>2. QED
    BY <1>1, <1>7, <2>1, ReadersKeep
<1>8. CASE ProcessExits \/ Dispose
  <2>1. UNCHANGED hvars
    BY <1>8 DEF ProcessExits, Dispose
  <2>2. QED
    BY <1>1, <1>8, <2>1, WorldKeeps
<1>9. CASE UNCHANGED vars
  <2>1. UNCHANGED hvars /\ UNCHANGED osvars
    BY <1>9 DEF vars
  <2>2. OSTypeOK' /\ ReportInv'
    BY <1>1, <2>1 DEF OSIInv, hvars, osvars, OSTypeOK, ReportInv, Terminates, Detached, IInv
  <2>3. WaiterInv' /\ ReaderInv' /\ SilenceAfterEnd'
    BY <2>1 DEF OSIInv, hvars, osvars, WaiterInv, ReaderInv, SilenceAfterEnd, Detached
  <2>4. QED
    BY <1>1, <2>2, <2>3 DEF OSIInv
<1>10. QED
  BY <1>2, <1>3, <1>4, <1>5, <1>6, <1>7, <1>8, <1>9 DEF OSNext, WaiterStep, DetacherStep

THEOREM OSInvariance == OSSpec => []OSIInv
  BY OSInitInv, OSNextInv, PTL DEF OSSpec

(* Any number of readers, chunks of output and clients that destroy, detach  *)
(* and wait: the output is announced before the end, the end is the          *)
(* process's own, and its exit code is real, unless it was detached.        *)
THEOREM OSOutputIsSound == OSSpec => []OutputIsSound
<1>1. OSIInv => OutputIsSound
  <2> SUFFICES ASSUME OSIInv PROVE OutputIsSound
    OBVIOUS
  <2>1. ASSUME announced["terminated"] = 1, ~Detached
        PROVE  endedBy = Waiter /\ waiter = "notify"
    BY <2>1 DEF OSIInv, ReportInv
  <2>2. NoOutputLost
    BY <2>1 DEF OSIInv, WaiterInv, ReaderInv, NoOutputLost
  <2>3. ExitCodeIsReal
    BY <2>1 DEF OSIInv, WaiterInv, ExitCodeIsReal
  <2>4. QED
    BY <2>2, <2>3 DEF OSIInv, OutputIsSound
<1>2. QED
  BY <1>1, OSInvariance, PTL

===============================================================================
