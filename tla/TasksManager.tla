----------------------------- MODULE TasksManager -----------------------------
(***************************************************************************)
(* codeOrchestra.colt.core.tasks.TasksManager: background tasks are put in  *)
(* a queue; one daemon thread, the Executor, starts the task at the head in *)
(* a thread of its own and waits until the JavaFX thread has handled the    *)
(* task's final event before it starts the next one.                        *)
(*                                                                         *)
(* A synchronized (myLock) block is one action, myLock.wait() splits it in  *)
(* two.  The fields read outside the lock are read in actions of their own. *)
(***************************************************************************)
EXTENDS Naturals, Sequences

CONSTANTS Tasks,         \* the ColtTask objects the program schedules
          NoTask,        \* null
          CancelQueued   \* may a task be cancelled before it was started?

ASSUME TasksAssumption == NoTask \notin Tasks
ASSUME CancelAssumption == CancelQueued \in BOOLEAN

VARIABLES
  queue,          \* tasksQueue
  workerStarted,  \* Executor.workerStarted
  mustStop,       \* Executor.mustStop: "unset", "set" by dispose without the
                  \* lock, "published" once dispose has released the lock
  executor,       \* where the Executor thread is
  worker,         \* the JavaFX state of each task
  handler,        \* the ColtTaskEventHandler registered with each task
  fxEvents,       \* final task events posted to the JavaFX thread
  fxCallback,     \* the onOK/onFail the JavaFX thread has yet to call
  reported        \* history: every onOK/onFail call

vars == <<queue, workerStarted, mustStop, executor, worker, handler,
          fxEvents, fxCallback, reported>>

Final == {"succeeded", "failed", "cancelled"}
Reports == [task : Tasks, outcome : Final]
NoReport == [task |-> NoTask, outcome |-> "none"]

TypeOK ==
  /\ queue \in Seq(Tasks)
  /\ workerStarted \in BOOLEAN
  /\ mustStop \in {"unset", "set", "published"}
  /\ executor \in {"check", "enter", "waiting", "woken", "stopped"}
  /\ worker \in [Tasks -> {"new", "ready", "running"} \cup Final]
  /\ handler \in [Tasks -> {"none", "armed", "disposed"}]
  /\ fxEvents \in Seq(Tasks)
  /\ fxCallback \in Reports \cup {NoReport}
  /\ reported \in Seq(Reports)

Init ==
  /\ queue = << >>
  /\ workerStarted = FALSE
  /\ mustStop = "unset"
  /\ executor = "check"
  /\ worker = [t \in Tasks |-> "new"]
  /\ handler = [t \in Tasks |-> "none"]
  /\ fxEvents = << >>
  /\ fxCallback = NoReport
  /\ reported = << >>

(* Variant of notifyAll() that wakes nobody. *)
NotifyNobody == UNCHANGED executor

(* myLock.notifyAll(): only the Executor ever waits on myLock. *)
NotifyAll == executor' = IF executor = "waiting" THEN "woken" ELSE executor

(***************************************************************************)
(* The users of the manager.                                               *)
(***************************************************************************)

(* Variant of schedule that starts the task at once. *)
ScheduleAndStart(t) ==
  /\ worker[t] = "new"
  /\ queue' = Append(queue, t)
  /\ worker' = [worker EXCEPT ![t] = "ready"]
  /\ handler' = [handler EXCEPT ![t] = "armed"]
  /\ UNCHANGED <<workerStarted, mustStop, executor, fxEvents, fxCallback,
                 reported>>

(* schedule: notify if the queue was empty, then offer the task.  Every     *)
(* caller creates the task it schedules.                                    *)
Schedule(t) ==
  /\ worker[t] = "new"
  /\ IF queue = << >> THEN NotifyAll ELSE UNCHANGED executor
  /\ queue' = Append(queue, t)
  /\ worker' = [worker EXCEPT ![t] = "ready"]
  /\ UNCHANGED <<workerStarted, mustStop, handler, fxEvents, fxCallback,
                 reported>>

(* dispose, first line: mustStop is assigned without the lock. *)
DisposeSet ==
  /\ mustStop = "unset"
  /\ mustStop' = "set"
  /\ UNCHANGED <<queue, workerStarted, executor, worker, handler, fxEvents,
                 fxCallback, reported>>

(* dispose, the synchronized block. *)
DisposeNotify ==
  /\ mustStop = "set"
  /\ mustStop' = "published"
  /\ NotifyAll
  /\ UNCHANGED <<queue, workerStarted, worker, handler, fxEvents, fxCallback,
                 reported>>

(* Task.cancel(), by whoever holds the task: a running task may always be   *)
(* cancelled, one that is not yet running if CancelQueued.                  *)
Cancel(t) ==
  /\ worker[t] = "running" \/ (CancelQueued /\ worker[t] = "ready")
  /\ worker' = [worker EXCEPT ![t] = "cancelled"]
  /\ fxEvents' = Append(fxEvents, t)
  /\ UNCHANGED <<queue, workerStarted, mustStop, executor, handler,
                 fxCallback, reported>>

(***************************************************************************)
(* The Executor thread.                                                    *)
(***************************************************************************)

(* while (!mustStop), read without the lock: a set mustStop may be missed.  *)
ExecutorCheck ==
  /\ executor = "check"
  /\ \/ mustStop # "unset" /\ executor' = "stopped"
     \/ executor' = "enter"
  /\ UNCHANGED <<queue, workerStarted, mustStop, worker, handler, fxEvents,
                 fxCallback, reported>>

(* Variant: no second look at mustStop. *)
StartHeadWithoutCheck ==
  /\ executor' = "check"
  /\ IF ~workerStarted /\ queue # << >>
     THEN /\ workerStarted' = TRUE
          /\ handler' = [handler EXCEPT ![Head(queue)] = "armed"]
     ELSE UNCHANGED <<workerStarted, handler>>

(* The part of the loop's body below the wait, with the lock held.          *)
StartHeadOrLoop ==
  \/ /\ mustStop # "unset"
     /\ executor' = "stopped"
     /\ UNCHANGED <<workerStarted, handler>>
  \/ /\ mustStop # "published"
     /\ executor' = "check"
     /\ IF ~workerStarted /\ queue # << >>
        THEN /\ workerStarted' = TRUE
             /\ handler' = [handler EXCEPT ![Head(queue)] = "armed"]
        ELSE UNCHANGED <<workerStarted, handler>>

(* Entering the synchronized block: wait, or go straight on. *)
ExecutorEnter ==
  /\ executor = "enter"
  /\ IF workerStarted \/ queue = << >>
     THEN executor' = "waiting" /\ UNCHANGED <<workerStarted, handler>>
     ELSE StartHeadOrLoop
  /\ UNCHANGED <<queue, mustStop, worker, fxEvents, fxCallback, reported>>

(* The wait is over and the lock is held again. *)
ExecutorResume ==
  /\ executor = "woken"
  /\ StartHeadOrLoop
  /\ UNCHANGED <<queue, mustStop, worker, fxEvents, fxCallback, reported>>

(* Object.wait() may return without a notification. *)
SpuriousWakeup ==
  /\ executor = "waiting"
  /\ executor' = "woken"
  /\ UNCHANGED <<queue, workerStarted, mustStop, worker, handler, fxEvents,
                 fxCallback, reported>>

(***************************************************************************)
(* The thread of a task, new Thread(first): FutureTask.run() does nothing   *)
(* when the task was cancelled before.                                      *)
(***************************************************************************)
WorkerRun(t) ==
  /\ handler[t] = "armed"
  /\ worker[t] = "ready"
  /\ worker' = [worker EXCEPT ![t] = "running"]
  /\ UNCHANGED <<queue, workerStarted, mustStop, executor, handler, fxEvents,
                 fxCallback, reported>>

WorkerFinish(t) ==
  /\ worker[t] = "running"
  /\ \E o \in {"succeeded", "failed"} : worker' = [worker EXCEPT ![t] = o]
  /\ fxEvents' = Append(fxEvents, t)
  /\ UNCHANGED <<queue, workerStarted, mustStop, executor, handler,
                 fxCallback, reported>>

(***************************************************************************)
(* The JavaFX thread delivers the final events in the order of posting.     *)
(***************************************************************************)

(* Variant of handle that looks at the head of the queue and leaves it there. *)
HandleWithPeek ==
  /\ fxCallback = NoReport
  /\ fxEvents # << >>
  /\ LET t == Head(fxEvents) IN
       /\ handler[t] = "armed"
       /\ handler' = [handler EXCEPT ![t] = "disposed"]
       /\ fxCallback' = [task |-> Head(queue), outcome |-> worker[t]]
  /\ fxEvents' = Tail(fxEvents)
  /\ workerStarted' = FALSE
  /\ NotifyAll
  /\ UNCHANGED <<queue, mustStop, worker, reported>>

(* ColtTaskEventHandler.handle up to the end of the synchronized block: the *)
(* head of the queue is taken for the task the event is about.              *)
Handle ==
  /\ fxCallback = NoReport
  /\ fxEvents # << >>
  /\ LET t == Head(fxEvents) IN
       /\ handler[t] = "armed"
       /\ handler' = [handler EXCEPT ![t] = "disposed"]
       /\ fxCallback' = [task |-> Head(queue), outcome |-> worker[t]]
  /\ fxEvents' = Tail(fxEvents)
  /\ queue' = Tail(queue)
  /\ workerStarted' = FALSE
  /\ NotifyAll
  /\ UNCHANGED <<mustStop, worker, reported>>

(* The event of a task without a handler (it was cancelled before the       *)
(* Executor registered one) or of a handler that is disposed is dropped.    *)
HandleNothing ==
  /\ fxCallback = NoReport
  /\ fxEvents # << >>
  /\ handler[Head(fxEvents)] # "armed"
  /\ fxEvents' = Tail(fxEvents)
  /\ UNCHANGED <<queue, workerStarted, mustStop, executor, worker, handler,
                 fxCallback, reported>>

(* handle after the synchronized block: onOK or onFail of doneTask. *)
Callback ==
  /\ fxCallback # NoReport
  /\ reported' = Append(reported, fxCallback)
  /\ fxCallback' = NoReport
  /\ UNCHANGED <<queue, workerStarted, mustStop, executor, worker, handler,
                 fxEvents>>

ExecutorStep == ExecutorCheck \/ ExecutorEnter \/ ExecutorResume
FxStep == Handle \/ HandleNothing \/ Callback

Next ==
  \/ \E t \in Tasks : Schedule(t) \/ Cancel(t) \/ WorkerRun(t) \/ WorkerFinish(t)
  \/ DisposeSet \/ DisposeNotify
  \/ ExecutorStep \/ SpuriousWakeup
  \/ FxStep

Spec == Init /\ [][Next]_vars

(* The JVM schedules the Executor, the JavaFX thread and the task threads;  *)
(* a task that runs is assumed to end.                                      *)
Fairness ==
  /\ WF_vars(ExecutorStep)
  /\ WF_vars(FxStep)
  /\ \A t \in Tasks : WF_vars(WorkerRun(t)) /\ WF_vars(WorkerFinish(t))

FairSpec == Spec /\ Fairness

(***************************************************************************)
(* Correctness.                                                            *)
(***************************************************************************)

(* handle() removes the head of the queue whatever task its event is about: *)
(* this is right only because a task that runs is always the head, and no   *)
(* other task runs beside it (the body of a cancelled one may linger).      *)
RunningTaskIsHead ==
  \A t \in Tasks : worker[t] = "running" =>
                     workerStarted /\ queue # << >> /\ Head(queue) = t

(* onOK and onFail are called on the task that really ended so: the doneTask *)
(* of handle() is the task of the event.                                    *)
ReportsOwnOutcome ==
  /\ fxCallback # NoReport => fxCallback.outcome = worker[fxCallback.task]
  /\ \A i \in 1..Len(reported) :
        reported[i].outcome = worker[reported[i].task]

(* The comment on myLock: the Executor never sleeps while the queue is       *)
(* non-empty and no worker is started.                                      *)
NoLostWakeup == executor = "waiting" => workerStarted \/ queue = << >>

(* Once dispose() has returned, the Executor starts no further task. *)
NothingStartsAfterDispose ==
  [][mustStop = "published" => (workerStarted' => workerStarted)]_vars

(* The tasks are executed one by one in the order of schedule(). *)
Ended == [i \in 1..Len(reported) |-> reported[i].task]
Pipeline == INSTANCE TaskPipeline WITH
  pending <- IF workerStarted THEN Tail(queue) ELSE queue,
  current <- IF workerStarted THEN Head(queue) ELSE NoTask,
  retired <- IF fxCallback = NoReport THEN Ended
                                      ELSE Append(Ended, fxCallback.task)
RunsInOrder == Pipeline!PSpec

IsReported(t) == \E i \in 1..Len(reported) : reported[i].task = t

(* The final event of the head was dropped before a handler was registered:  *)
(* workerStarted can never become false again.                              *)
Wedged == /\ workerStarted
          /\ worker[Head(queue)] \in Final
          /\ \A i \in 1..Len(fxEvents) : fxEvents[i] # Head(queue)

(* Every scheduled task is answered by onOK or onFail, unless the manager is *)
(* disposed or wedged; and it is wedged only by a task that was cancelled     *)
(* while it was queued.                                                     *)
ReportedUnlessWedged ==
  /\ \A t \in Tasks : worker[t] = "ready" ~>
       (IsReported(t) \/ mustStop # "unset" \/ Wedged)
  /\ [](Wedged => CancelQueued /\ worker[Head(queue)] = "cancelled")

(* What every state of the manager satisfies. *)
ManagerIsSound == TypeOK /\ RunningTaskIsHead /\ ReportsOwnOutcome /\ NoLostWakeup

===============================================================================
