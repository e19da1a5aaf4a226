-------------------------- MODULE TasksManagerProofs --------------------------
(***************************************************************************)
(* Proofs about TasksManager for every set of tasks.                        *)
(***************************************************************************)
EXTENDS TasksManager, SequenceTheorems, TLAPS

(* The inductive invariant.  A handler is armed exactly for the head of the *)
(* queue while workerStarted holds, a task runs only with an armed handler, *)
(* the events under way are about tasks that have ended, and the outcomes   *)
(* on record are those of the tasks.                                        *)
ArmedIsHead ==
  /\ \A t \in Tasks : handler[t] = "armed" =>
                        workerStarted /\ queue # << >> /\ Head(queue) = t
  /\ workerStarted => queue # << >>

RunningIsArmed ==
  \A t \in Tasks : worker[t] = "running" => handler[t] = "armed"

EventsAreFinal == \A i \in 1..Len(fxEvents) : worker[fxEvents[i]] \in Final

IInv == /\ TypeOK
        /\ ArmedIsHead
        /\ RunningIsArmed
        /\ EventsAreFinal
        /\ ReportsOwnOutcome
        /\ NoLostWakeup

(* NoTask can be told from the tasks, so NoReport can be told from a report. *)
LEMMA NoReportIsNoReport == NoReport \notin Reports
  BY TasksAssumption DEF NoReport, Reports

(* Appending a task to a sequence of ended tasks keeps them ended. *)
LEMMA AppendIsFinal ==
  ASSUME NEW s \in Seq(Tasks), NEW t \in Tasks, NEW w,
         \A i \in 1..Len(s) : w[s[i]] \in Final, w[t] \in Final
  PROVE  \A i \in 1..Len(Append(s, t)) : w[Append(s, t)[i]] \in Final
  OBVIOUS

LEMMA InitInv == Init => IInv
  <1> SUFFICES ASSUME Init PROVE IInv
    OBVIOUS
  <1> USE DEF Init
  <1>1. TypeOK
    <2>1. << >> \in Seq(Tasks) /\ << >> \in Seq(Reports)
      OBVIOUS
    <2>2. /\ worker \in [Tasks -> {"new", "ready", "running"} \cup Final]
          /\ handler \in [Tasks -> {"none", "armed", "disposed"}]
      OBVIOUS
    <2> QED
      BY <2>1, <2>2 DEF TypeOK
  <1>2. ArmedIsHead /\ RunningIsArmed /\ EventsAreFinal /\ NoLostWakeup
    BY DEF ArmedIsHead, RunningIsArmed, EventsAreFinal, NoLostWakeup
  <1>3. ReportsOwnOutcome
    BY DEF ReportsOwnOutcome
  <1> QED
    BY <1>1, <1>2, <1>3 DEF IInv

(* What is on record is about tasks that have ended, so a step that moves a  *)
(* task that has not ended leaves the record and the events under way true. *)
LEMMA MoveKeepsRecord ==
  ASSUME IInv, NEW t \in Tasks, worker[t] \notin Final,
         NEW w \in {"new", "ready", "running"} \cup Final,
         worker' = [worker EXCEPT ![t] = w],
         UNCHANGED <<fxCallback, reported>>
  PROVE  /\ ReportsOwnOutcome'
         /\ UNCHANGED fxEvents => EventsAreFinal'
         /\ w \in Final /\ fxEvents' = Append(fxEvents, t) => EventsAreFinal'
  <1>1. ASSUME NEW r \in Reports, r.outcome = worker[r.task]
        PROVE  r.outcome = worker'[r.task]
    BY <1>1 DEF IInv, TypeOK, Reports
  <1>2. fxCallback # NoReport => fxCallback \in Reports
    BY DEF IInv, TypeOK
  <1>3. \A i \in 1..Len(reported) : reported[i] \in Reports
    BY DEF IInv, TypeOK
  <1>4. ReportsOwnOutcome'
    BY <1>1, <1>2, <1>3 DEF IInv, ReportsOwnOutcome
  <1>5. \A i \in 1..Len(fxEvents) : fxEvents[i] \in Tasks /\ worker'[fxEvents[i]] \in Final
    BY DEF IInv, TypeOK, EventsAreFinal
  <1>6. w \in Final => worker'[t] \in Final
    BY DEF IInv, TypeOK
  <1>7. w \in Final /\ fxEvents' = Append(fxEvents, t) => EventsAreFinal'
    BY <1>5, <1>6, AppendIsFinal DEF IInv, TypeOK, EventsAreFinal
  <1> QED
    BY <1>4, <1>5, <1>7 DEF EventsAreFinal

(* Starting the head, or not, keeps the invariant: before, no handler was   *)
(* armed, because workerStarted was false.                                  *)
LEMMA StartKeepsInv ==
  ASSUME IInv,
         \/ StartHeadOrLoop
         \/ /\ workerStarted \/ queue = << >>
            /\ executor' = "waiting"
            /\ UNCHANGED <<workerStarted, handler>>,
         UNCHANGED <<queue, mustStop, worker, fxEvents, fxCallback, reported>>
  PROVE  IInv'
  <1> USE DEF IInv, TypeOK
  <1>1. TypeOK' /\ NoLostWakeup'
    BY DEF StartHeadOrLoop, NoLostWakeup
  <1>2. ArmedIsHead' /\ RunningIsArmed'
    <2>1. CASE UNCHANGED <<workerStarted, handler>>
      BY <2>1 DEF ArmedIsHead, RunningIsArmed
    <2>2. CASE /\ ~workerStarted /\ queue # << >>
               /\ workerStarted' = TRUE
               /\ handler' = [handler EXCEPT ![Head(queue)] = "armed"]
      BY <2>2 DEF ArmedIsHead, RunningIsArmed
    <2> QED
      BY <2>1, <2>2 DEF StartHeadOrLoop
  <1>3. EventsAreFinal' /\ ReportsOwnOutcome'
    BY DEF EventsAreFinal, ReportsOwnOutcome
  <1> QED
    BY <1>1, <1>2, <1>3

LEMMA NextInv == IInv /\ [Next]_vars => IInv'
  <1> SUFFICES ASSUME IInv, [Next]_vars PROVE IInv'
    OBVIOUS
  <1> USE DEF IInv
  <1>1. ASSUME NEW t \in Tasks, Schedule(t) PROVE IInv'
    <2>1. ReportsOwnOutcome' /\ EventsAreFinal'
      BY <1>1, MoveKeepsRecord DEF Schedule, Final
    <2>2. TypeOK'
      BY <1>1 DEF Schedule, TypeOK, Final, NotifyAll
    <2>3. ArmedIsHead' /\ RunningIsArmed'
      <3>1. queue' # << >> /\ (queue # << >> => Head(queue') = Head(queue))
        BY <1>1 DEF Schedule, TypeOK
      <3> QED
        BY <1>1, <3>1 DEF Schedule, TypeOK, ArmedIsHead, RunningIsArmed
    <2>4. NoLostWakeup'
      BY <1>1 DEF Schedule, NoLostWakeup, NotifyAll
    <2> QED
      BY <2>1, <2>2, <2>3, <2>4
  <1>2. ASSUME NEW t \in Tasks, Cancel(t) PROVE IInv'
    <2>1. ReportsOwnOutcome' /\ EventsAreFinal'
      BY <1>2, MoveKeepsRecord DEF Cancel, Final
    <2>2. TypeOK'
      BY <1>2 DEF Cancel, TypeOK, Final
    <2>3. ArmedIsHead' /\ RunningIsArmed'
      BY <1>2 DEF Cancel, TypeOK, ArmedIsHead, RunningIsArmed
    <2>4. NoLostWakeup'
      BY <1>2 DEF Cancel, NoLostWakeup
    <2> QED
      BY <2>1, <2>2, <2>3, <2>4
  <1>3. ASSUME NEW t \in Tasks, WorkerRun(t) PROVE IInv'
    <2>1. ReportsOwnOutcome' /\ EventsAreFinal'
      BY <1>3, MoveKeepsRecord DEF WorkerRun, Final
    <2>2. TypeOK'
      BY <1>3 DEF WorkerRun, TypeOK, Final
    <2>3. ArmedIsHead' /\ RunningIsArmed'
      BY <1>3 DEF WorkerRun, TypeOK, ArmedIsHead, RunningIsArmed
    <2>4. NoLostWakeup'
      BY <1>3 DEF WorkerRun, NoLostWakeup
    <2> QED
      BY <2>1, <2>2, <2>3, <2>4
  <1>4. ASSUME NEW t \in Tasks, WorkerFinish(t) PROVE IInv'
    <2>1. ReportsOwnOutcome' /\ EventsAreFinal'
      BY <1>4, MoveKeepsRecord DEF WorkerFinish, Final
    <2>2. TypeOK'
      BY <1>4 DEF WorkerFinish, TypeOK, Final
    <2>3. ArmedIsHead' /\ RunningIsArmed'
      BY <1>4 DEF WorkerFinish, TypeOK, ArmedIsHead, RunningIsArmed
    <2>4. NoLostWakeup'
      BY <1>4 DEF WorkerFinish, NoLostWakeup
    <2> QED
      BY <2>1, <2>2, <2>3, <2>4
  <1> USE DEF TypeOK, ArmedIsHead, RunningIsArmed, EventsAreFinal,
              ReportsOwnOutcome, NoLostWakeup
  <1>5. CASE DisposeSet
    BY <1>5 DEF DisposeSet
  <1>6. CASE DisposeNotify
    BY <1>6 DEF DisposeNotify, NotifyAll
  <1>7. CASE ExecutorCheck
    BY <1>7 DEF ExecutorCheck
  <1>8. CASE ExecutorEnter
    BY <1>8, StartKeepsInv DEF ExecutorEnter
  <1>9. CASE ExecutorResume
    BY <1>9, StartKeepsInv DEF ExecutorResume
  <1>10. CASE SpuriousWakeup
    BY <1>10 DEF SpuriousWakeup
  <1>11. CASE Handle
    <2> DEFINE t == Head(fxEvents)
    <2>1. /\ t \in Tasks /\ worker[t] \in Final
          /\ workerStarted /\ queue # << >> /\ Head(queue) = t
      BY <1>11 DEF Handle
    <2>2. fxCallback' = [task |-> t, outcome |-> worker[t]]
      BY <1>11, <2>1 DEF Handle
    <2>3. TypeOK'
      <3>1. fxCallback' \in Reports
        BY <2>1, <2>2 DEF Reports
      <3>2. queue' \in Seq(Tasks) /\ fxEvents' \in Seq(Tasks)
        BY <1>11, <2>1 DEF Handle
      <3>3. /\ handler' \in [Tasks -> {"none", "armed", "disposed"}]
            /\ executor' \in {"check", "enter", "waiting", "woken", "stopped"}
            /\ workerStarted' \in BOOLEAN
            /\ UNCHANGED <<mustStop, worker, reported>>
        BY <1>11 DEF Handle, NotifyAll
      <3> QED
        BY <3>1, <3>2, <3>3
    <2>4. ArmedIsHead' /\ RunningIsArmed'
      BY <1>11, <2>1 DEF Handle, Final
    <2>5. EventsAreFinal'
      BY <1>11, <2>1 DEF Handle
    <2>6. ReportsOwnOutcome'
      BY <1>11, <2>2 DEF Handle
    <2>7. NoLostWakeup'
      BY <1>11 DEF Handle, NotifyAll
    <2> QED
      BY <2>3, <2>4, <2>5, <2>6, <2>7
  <1>12. CASE HandleNothing
    BY <1>12 DEF HandleNothing
  <1>13. CASE Callback
    BY <1>13, NoReportIsNoReport DEF Callback, Reports
  <1>14. CASE UNCHANGED vars
    BY <1>14 DEF vars
  <1> QED
    BY <1>1, <1>2, <1>3, <1>4, <1>5, <1>6, <1>7, <1>8, <1>9, <1>10, <1>11,
       <1>12, <1>13, <1>14 DEF Next, ExecutorStep, FxStep

(* Every reachable state satisfies the inductive invariant. *)
THEOREM Invariance == Spec => []IInv
  <1> QED
    BY InitInv, NextInv, PTL DEF Spec

(* The state never leaves its types. *)
THEOREM TypeCorrect == Spec => []TypeOK
  <1>1. IInv => TypeOK
    BY DEF IInv
  <1> QED
    BY <1>1, Invariance, PTL

(* handle() always removes the task that ran: a running task is the head. *)
THEOREM HeadRuns == Spec => []RunningTaskIsHead
  <1>1. IInv => RunningTaskIsHead
    BY DEF IInv, ArmedIsHead, RunningIsArmed, RunningTaskIsHead
  <1> QED
    BY <1>1, Invariance, PTL

(* onOK and onFail are called with the outcome of the task they belong to. *)
THEOREM OutcomesAreOwn == Spec => []ReportsOwnOutcome
  <1>1. IInv => ReportsOwnOutcome
    BY DEF IInv
  <1> QED
    BY <1>1, Invariance, PTL

(* The Executor does not sleep while there is a task it could start. *)
THEOREM WakeupsAreNotLost == Spec => []NoLostWakeup
  <1>1. IInv => NoLostWakeup
    BY DEF IInv
  <1> QED
    BY <1>1, Invariance, PTL

(* Any set of tasks, scheduled and cancelled at any time: the four together.     *)
THEOREM ManagerCorrect == Spec => []ManagerIsSound
  <1> QED
    BY TypeCorrect, HeadRuns, OutcomesAreOwn, WakeupsAreNotLost, PTL
    DEF ManagerIsSound

(* After dispose() no step makes workerStarted true. *)
THEOREM DisposeIsFinal == Spec => NothingStartsAfterDispose
  <1>1. [Next]_vars =>
          [mustStop = "published" => (workerStarted' => workerStarted)]_vars
    BY DEF Next, vars, Schedule, Cancel, WorkerRun, WorkerFinish, DisposeSet,
           DisposeNotify, ExecutorStep, ExecutorCheck, ExecutorEnter,
           ExecutorResume, StartHeadOrLoop, SpuriousWakeup, FxStep, Handle,
           HandleNothing, Callback
  <1> QED
    BY <1>1, PTL DEF Spec, NothingStartsAfterDispose

(* The tasks of a longer record are those of the record and one more. *)
LEMMA EndedAppends ==
  ASSUME IInv, NEW r \in Reports, reported' = Append(reported, r)
  PROVE  Ended' = Append(Ended, r.task)
  <1> DEFINE n == Len(reported)
  <1>1. /\ reported \in Seq(Reports) /\ n \in Nat
        /\ Len(reported') = n + 1
        /\ \A i \in 1..n : reported'[i] = reported[i]
        /\ reported'[n + 1] = r
    BY DEF IInv, TypeOK
  <1>2. Ended \in Seq(Tasks) /\ Len(Ended) = n
    <2>1. \A i \in 1..n : reported[i].task \in Tasks
      <3>1. \A i \in 1..n : reported[i] \in Reports
        BY <1>1
      <3>2. \A x \in Reports : x.task \in Tasks
        BY DEF Reports
      <3> QED
        BY <3>1, <3>2
    <2>2. Ended \in [1..n -> Tasks]
      BY <2>1 DEF Ended
    <2> QED
      BY <1>1, <2>2
  <1>3. r.task \in Tasks
    BY DEF Reports
  <1>4. /\ Append(Ended, r.task) = [i \in 1..(n + 1) |-> IF i = n + 1 THEN r.task ELSE Ended[i]]
    BY <1>2, <1>3
  <1>5. Ended' = [i \in 1..(n + 1) |-> reported'[i].task]
    BY <1>1 DEF Ended
  <1> QED
    BY <1>1, <1>4, <1>5 DEF Ended

(* Tasks are executed one at a time in the order of schedule(): every step   *)
(* of the manager is a step of the pipeline or leaves the pipeline alone.   *)
THEOREM Refinement == Spec => RunsInOrder
  <1>1. Init => Pipeline!PInit
    BY DEF Init, Pipeline!PInit, Ended
  <1>2. IInv /\ [Next]_vars => [Pipeline!PNext]_(Pipeline!pvars)
    <2> SUFFICES ASSUME IInv, [Next]_vars
                 PROVE  Pipeline!PNext \/ UNCHANGED Pipeline!pvars
      OBVIOUS
    <2> USE DEF IInv, TypeOK
    <2>1. ASSUME NEW t \in Tasks, Schedule(t) PROVE Pipeline!Submit(t)
      <3>1. /\ queue' = Append(queue, t)
            /\ UNCHANGED <<workerStarted, fxCallback, reported>>
        BY <2>1 DEF Schedule
      <3>2. queue # << >> => /\ Head(queue') = Head(queue)
                            /\ Tail(queue') = Append(Tail(queue), t)
        BY <3>1
      <3> QED
        BY <3>1, <3>2 DEF Pipeline!Submit, ArmedIsHead, Ended
    <2>2. ASSUME UNCHANGED <<queue, workerStarted, fxCallback, reported>>
          PROVE  UNCHANGED Pipeline!pvars
      BY <2>2 DEF Pipeline!pvars, Ended
    <2>3. ASSUME StartHeadOrLoop, UNCHANGED <<queue, fxCallback, reported>>
          PROVE  Pipeline!Activate \/ UNCHANGED Pipeline!pvars
      BY <2>3, <2>2 DEF StartHeadOrLoop, Pipeline!Activate, Ended
    <2>4. CASE Handle
      <3>1. /\ workerStarted /\ ~workerStarted'
            /\ queue # << >> /\ queue' = Tail(queue)
            /\ Head(queue) \in Tasks
        BY <2>4 DEF Handle, ArmedIsHead
      <3>2. /\ fxCallback = NoReport /\ fxCallback' # NoReport
            /\ fxCallback'.task = Head(queue)
            /\ Ended' = Ended
        BY <2>4, <3>1, TasksAssumption DEF Handle, NoReport, Ended
      <3>3. Pipeline!Retire
        BY <3>1, <3>2, TasksAssumption DEF Pipeline!Retire
      <3> QED
        BY <3>3 DEF Pipeline!PNext
    <2>5. CASE Callback
      <3>1. fxCallback \in Reports /\ fxCallback # NoReport /\ fxCallback' = NoReport
        BY <2>5 DEF Callback
      <3>2. Ended' = Append(Ended, fxCallback.task)
        BY <2>5, <3>1, EndedAppends DEF Callback
      <3> QED
        BY <2>5, <3>1, <3>2 DEF Callback, Pipeline!pvars
    <2>6. ASSUME NEW t \in Tasks, Cancel(t) \/ WorkerRun(t) \/ WorkerFinish(t)
          PROVE  UNCHANGED Pipeline!pvars
      BY <2>2, <2>6 DEF Cancel, WorkerRun, WorkerFinish
    <2>7. CASE \/ DisposeSet \/ DisposeNotify \/ ExecutorCheck
               \/ SpuriousWakeup \/ HandleNothing \/ UNCHANGED vars
      BY <2>2, <2>7 DEF DisposeSet, DisposeNotify, ExecutorCheck,
                        SpuriousWakeup, HandleNothing, vars
    <2>8. CASE ExecutorEnter \/ ExecutorResume
      BY <2>2, <2>3, <2>8 DEF ExecutorEnter, ExecutorResume, Pipeline!PNext
    <2>9. CASE \E t \in Tasks : Schedule(t)
      BY <2>1, <2>9 DEF Pipeline!PNext
    <2> QED
      BY <2>4, <2>5, <2>6, <2>7, <2>8, <2>9 DEF Next, ExecutorStep, FxStep
  <1> QED
    BY <1>1, <1>2, Invariance, PTL DEF Spec, RunsInOrder, Pipeline!PSpec

===============================================================================
