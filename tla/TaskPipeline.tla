----------------------------- MODULE TaskPipeline -----------------------------
(***************************************************************************)
(* What a background-task executor promises to its users: the tasks are     *)
(* executed one at a time, in the order they were submitted, and each       *)
(* execution is retired once.  Module TasksManager implements this.         *)
(***************************************************************************)
EXTENDS Sequences

CONSTANTS Tasks,  \* the tasks that may be submitted
          NoTask  \* "nothing is being executed"

VARIABLES pending,  \* submitted, not yet picked up, oldest first
          current,  \* the task being executed, or NoTask
          retired   \* the tasks whose execution is over, oldest first

pvars == <<pending, current, retired>>

PInit == /\ pending = << >>
         /\ current = NoTask
         /\ retired = << >>

(* A user hands over a task. *)
Submit(t) == /\ pending' = Append(pending, t)
             /\ UNCHANGED <<current, retired>>

(* The oldest pending task becomes the current one. *)
Activate == /\ current = NoTask
            /\ pending # << >>
            /\ current' = Head(pending)
            /\ pending' = Tail(pending)
            /\ UNCHANGED retired

(* The current task is over. *)
Retire == /\ current # NoTask
          /\ retired' = Append(retired, current)
          /\ current' = NoTask
          /\ UNCHANGED pending

PNext == (\E t \in Tasks : Submit(t)) \/ Activate \/ Retire

PSpec == PInit /\ [][PNext]_pvars
===============================================================================
