--------------------------- MODULE ProcessLifecycle ---------------------------
(***************************************************************************)
(* What a process handler promises to listeners and waiters: a process is   *)
(* started once, begins to terminate once and terminates once; each of the  *)
(* two stages is announced once, and whoever waits for the process is       *)
(* released only after its termination was announced.  Module               *)
(* ProcessHandler implements this.                                         *)
(***************************************************************************)
EXTENDS Naturals

VARIABLES life,        \* 0 initial, 1 running, 2 terminating, 3 terminated
          announced,   \* how often each stage was announced to a listener
          released     \* are waiters let through?

lvars == <<life, announced, released>>

Stages == {"willTerminate", "terminated"}

LInit == /\ life = 0
         /\ announced = [s \in Stages |-> 0]
         /\ released = FALSE

(* The handler enters the next stage of its life. *)
Advance == /\ life \in 0..2
           /\ life' = life + 1
           /\ UNCHANGED <<announced, released>>

(* A stage that was entered is announced.  A process may turn out to be     *)
(* terminated before it was announced that it will be.                      *)
Announce(s) == /\ life >= (IF s = "terminated" THEN 3 ELSE 2)
               /\ announced[s] = 0
               /\ announced' = [announced EXCEPT ![s] = 1]
               /\ UNCHANGED <<life, released>>

Release == /\ announced["terminated"] = 1
           /\ ~released
           /\ released' = TRUE
           /\ UNCHANGED <<life, announced>>

LNext == Advance \/ (\E s \in Stages : Announce(s)) \/ Release

LSpec == LInit /\ [][LNext]_lvars
===============================================================================
