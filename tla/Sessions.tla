-------------------------------- MODULE Sessions -------------------------------
(***************************************************************************)
(* The connected sessions and what the window shows of them: the listeners     *)
(* that AbstractLiveCodingManager calls, the session indicator, the buttons     *)
(* that run and stop, and the timer by which a run that brings no session is     *)
(* given up.                                                               *)
(*                                                                         *)
(* Sessions begin and end on threads of their own; the JavaFX thread may end    *)
(* them too.  The manager's subclass keeps currentSessions and calls fire...;    *)
(* it is external: a session is in the map when its start is fired, out of it    *)
(* when its end is, and is not stopped before its start was fired.             *)
(***************************************************************************)
EXTENDS Naturals, Sequences, SequencesExt, FiniteSets

CONSTANTS Clients,    \* sessions
          MaxStarts,  \* bound: sessions that begin
          MaxRuns     \* bound: runs

SessionsAssumption == MaxStarts \in Nat /\ MaxRuns \in Nat

Nobody == [kind |-> "none", session |-> "none", direct |-> FALSE]

VARIABLES
  currentSessions,  \* the sessions of the manager
  untold,     \* sessions whose start or end is to be fired: to their events
  firing,     \* the event whose holder has listenerMonitor, or Nobody
  sessions,   \* those the indicator knows
  fxQueue,    \* the Runnables handed to the JavaFX thread
  stopping,   \* the sessions that stopAllSession has not come to
  indicator, status, player,  \* what is shown (see TypeOK)
  compiling,  \* runs that are being compiled
  timers,     \* threads of onRunComplete that sleep
  givingUp,   \* those that have found no session
  starts, runs,  \* bounded: sessions begun, runs
  overtaken,  \* history: an update ran at once before one that was posted
  overruled,  \* history: a run was given up although there was a session
  contented   \* history: a run was left alone because there was a session

view == <<indicator, status, player>>
bounds == <<starts, runs>>
history == <<overtaken, overruled, contented>>
run == <<compiling, timers, givingUp, runs>>
vars == <<currentSessions, untold, firing, sessions, fxQueue, stopping, view, run,
          starts, history>>

Events == [kind : {"start", "end"}, session : Clients, direct : BOOLEAN]
Updates == {"on", "off", "play", "stop", "error"}

TypeOK ==
  /\ currentSessions \subseteq Clients /\ sessions \subseteq Clients
  /\ untold \subseteq Events /\ firing \in Events \cup {Nobody}
  /\ fxQueue \in Seq(Updates) /\ stopping \subseteq Clients
  /\ indicator \in {"on", "off"} /\ player.selected \in {"play", "stop"}
  /\ {status.selected, status.disable, player.disable} \subseteq BOOLEAN
  /\ compiling \in 0..MaxRuns /\ timers \in 0..MaxRuns /\ givingUp \in 0..MaxRuns
  /\ starts \in 0..MaxStarts /\ runs \in 0..MaxRuns
  /\ {overtaken, overruled, contented} \subseteq BOOLEAN

Init ==
  /\ currentSessions = {} /\ untold = {} /\ firing = Nobody /\ sessions = {}
  /\ fxQueue = <<>> /\ stopping = {}
  /\ indicator = "off" /\ status = [selected |-> FALSE, disable |-> FALSE]
  /\ player = [selected |-> "stop", disable |-> FALSE]
  /\ compiling = 0 /\ timers = 0 /\ givingUp = 0
  /\ starts = 0 /\ runs = 0
  /\ overtaken = FALSE /\ overruled = FALSE /\ contented = FALSE

(* The JavaFX thread is in no handler: it has stopped all sessions it was to    *)
(* stop and told of it. *)
FxIdle == stopping = {} /\ ~\E e \in untold \cup {firing} : e.direct

------------------------------------------------------------------------------
(* The Runnables of the JavaFX thread. *)

RunOn ==
  /\ indicator' = "on" /\ status' = [selected |-> TRUE, disable |-> FALSE]
  /\ UNCHANGED <<player, overruled>>
  /\ contented' = (contented /\ player.disable)

RunOff ==
  /\ indicator' = "off" /\ status' = [status EXCEPT !.selected = FALSE]
  /\ UNCHANGED <<player, overruled, contented>>

RunPlay ==
  /\ player' = [selected |-> "play", disable |-> FALSE]
  /\ overruled' = FALSE /\ contented' = (contented /\ status.disable)
  /\ UNCHANGED <<indicator, status>>

RunStop ==
  /\ player' = [selected |-> "stop", disable |-> FALSE]
  /\ overruled' = FALSE /\ contented' = (contented /\ status.disable)
  /\ UNCHANGED <<indicator, status>>

onRunError ==
  /\ player' = [selected |-> "stop", disable |-> FALSE]
  /\ status' = [selected |-> FALSE, disable |-> FALSE]
  /\ overruled' = (overruled \/ currentSessions # {}) /\ contented' = FALSE
  /\ UNCHANGED indicator

RunLater ==
  /\ FxIdle /\ fxQueue # <<>>
  /\ CASE Head(fxQueue) = "on" -> RunOn
       [] Head(fxQueue) = "off" -> RunOff
       [] Head(fxQueue) = "play" -> RunPlay
       [] Head(fxQueue) = "stop" -> RunStop
       [] Head(fxQueue) = "error" -> onRunError
  /\ fxQueue' = Tail(fxQueue)
  /\ UNCHANGED <<currentSessions, untold, firing, sessions, stopping, run, starts,
                 overtaken>>

------------------------------------------------------------------------------
(* Sessions begin and end. *)

StartSession(c) ==
  /\ starts < MaxStarts
  /\ c \notin currentSessions /\ ~\E e \in untold \cup {firing} : e.session = c
  /\ currentSessions' = currentSessions \cup {c}
  /\ untold' = untold \cup {[kind |-> "start", session |-> c, direct |-> FALSE]}
  /\ starts' = starts + 1
  /\ UNCHANGED <<firing, sessions, fxQueue, stopping, view, run, history>>

(* By the thread of the session, or by the JavaFX thread. *)
EndSession(c, fx) ==
  /\ c \in currentSessions /\ ~\E e \in untold \cup {firing} : e.session = c
  /\ currentSessions' = currentSessions \ {c}
  /\ untold' = untold \cup {[kind |-> "end", session |-> c, direct |-> fx]}

SessionEnds(c) ==
  /\ EndSession(c, FALSE)
  /\ UNCHANGED <<firing, sessions, fxQueue, stopping, view, run, starts, history>>

(* stopAllSession goes through a copy of the sessions; those that have gone in   *)
(* the meantime need no stopping. *)
StopNext(c) ==
  /\ c \in stopping /\ ~\E e \in untold \cup {firing} : e.direct
  /\ \/ EndSession(c, TRUE)
     \/ c \notin currentSessions /\ UNCHANGED <<currentSessions, untold>>
  /\ stopping' = stopping \ {c}
  /\ UNCHANGED <<firing, sessions, fxQueue, view, run, starts, history>>

(* executeInFXThread(r), where run is what r does: at once or later. *)
Execute(fx, r, now) ==
  IF fx
  THEN /\ now /\ UNCHANGED fxQueue
       /\ overtaken' = (r = "off" /\ "on" \in Range(fxQueue))
  ELSE /\ fxQueue' = Append(fxQueue, r) /\ overtaken' = FALSE
       /\ UNCHANGED <<view, overruled, contented>>

(* onSessionStart and onSessionEnd of SessionIndicatorController. *)
TellIndicator(e) ==
  IF e.kind = "start"
  THEN /\ sessions' = sessions \cup {e.session}
       /\ Execute(e.direct, "on", RunOn)
  ELSE /\ sessions' = sessions \ {e.session}
       /\ IF sessions' = {} THEN Execute(e.direct, "off", RunOff)
          ELSE UNCHANGED <<fxQueue, view, history>>

(* fireSessionStart and fireSessionEnd take the monitor and tell the indicator... *)
Fire(e) ==
  /\ e \in untold /\ firing = Nobody
  /\ untold' = untold \ {e} /\ firing' = e
  /\ TellIndicator(e)
  /\ UNCHANGED <<currentSessions, stopping, run, starts>>

(* ... and then the window, which looks at the manager's sessions. *)
TellGUI(e) ==
  CASE e.kind = "start" -> <<"play">>
    [] e.kind = "end" -> IF currentSessions = {} THEN <<"stop">> ELSE <<>>

FireGUI ==
  /\ firing # Nobody
  /\ firing' = Nobody
  /\ fxQueue' = fxQueue \o TellGUI(firing)
  /\ UNCHANGED <<currentSessions, untold, sessions, stopping, view, run, starts,
                 history>>

------------------------------------------------------------------------------
(* The buttons. *)

(* runSession: the settings are valid, and compile() is called, or they are not.  *)
RunSession(pressed, valid) ==
  IF valid
  THEN /\ runs < MaxRuns /\ runs' = runs + 1 /\ compiling' = compiling + 1
       /\ player' = [selected |-> pressed, disable |-> TRUE]
       /\ UNCHANGED <<timers, givingUp, indicator, overruled, contented>>
  ELSE onRunError /\ UNCHANGED run

RunPressed(valid) ==
  /\ FxIdle /\ RunSession(player.selected, valid)
  /\ valid => status' = [status EXCEPT !.disable = TRUE]
  /\ UNCHANGED <<currentSessions, untold, firing, sessions, fxQueue, stopping,
                 starts, overtaken>>

PlayPressed(valid) ==
  /\ FxIdle /\ ~player.disable /\ player.selected # "play"
  /\ RunSession("play", valid)
  /\ valid => status' = [status EXCEPT !.disable = TRUE]
  /\ UNCHANGED <<currentSessions, untold, firing, sessions, fxQueue, stopping,
                 starts, overtaken>>

StopPressed ==
  /\ FxIdle /\ ~player.disable /\ player.selected # "stop"
  /\ player' = [player EXCEPT !.selected = "stop"]
  /\ stopping' = currentSessions
  /\ UNCHANGED <<currentSessions, untold, firing, sessions, fxQueue, indicator,
                 status, run, starts, history>>

(* The status button is a toggle: it runs when it gets selected. *)
StatusPressed(valid) ==
  /\ FxIdle /\ ~status.disable
  /\ IF status.selected
     THEN /\ status' = [status EXCEPT !.selected = FALSE]
          /\ stopping' = currentSessions
          /\ UNCHANGED <<run, player, indicator, overruled, contented>>
     ELSE /\ RunSession(player.selected, valid)
          /\ valid => status' = [selected |-> TRUE, disable |-> TRUE]
          /\ UNCHANGED stopping
  /\ UNCHANGED <<currentSessions, untold, firing, sessions, fxQueue, starts,
                 overtaken>>

(* compile() ends: onRunError, or onRunComplete, which starts a thread. *)
CompileFails ==
  /\ FxIdle /\ compiling > 0
  /\ compiling' = compiling - 1 /\ onRunError
  /\ UNCHANGED <<currentSessions, untold, firing, sessions, fxQueue, stopping, starts,
                 timers, givingUp, runs, overtaken>>

onRunComplete ==
  /\ compiling > 0
  /\ compiling' = compiling - 1 /\ timers' = timers + 1
  /\ UNCHANGED <<currentSessions, untold, firing, sessions, fxQueue, stopping, view,
                 starts, givingUp, runs, history>>

(* Variant: the timer does not give up. *)
TimerContent ==
  /\ timers > 0
  /\ timers' = timers - 1 /\ contented' = (contented \/ currentSessions # {})
  /\ UNCHANGED <<currentSessions, untold, firing, sessions, fxQueue, stopping, view,
                 starts, compiling, givingUp, runs, overtaken, overruled>>

(* Three seconds later *)
TimerLooks ==
  /\ timers > 0
  /\ timers' = timers - 1
  /\ IF currentSessions = {} THEN givingUp' = givingUp + 1 /\ UNCHANGED contented
     ELSE contented' = TRUE /\ UNCHANGED givingUp
  /\ UNCHANGED <<currentSessions, untold, firing, sessions, fxQueue, stopping, view,
                 starts, compiling, runs, overtaken, overruled>>

GiveUp ==
  /\ givingUp > 0
  /\ givingUp' = givingUp - 1 /\ fxQueue' = Append(fxQueue, "error")
  /\ UNCHANGED <<currentSessions, untold, firing, sessions, stopping, view, starts,
                 compiling, timers, runs, history>>

Next ==
  \/ \E c \in Clients : StartSession(c) \/ SessionEnds(c) \/ StopNext(c)
  \/ \E e \in untold : Fire(e)
  \/ FireGUI \/ RunLater
  \/ \E valid \in BOOLEAN : \/ RunPressed(valid) \/ PlayPressed(valid)
                            \/ StatusPressed(valid)
  \/ StopPressed \/ CompileFails \/ onRunComplete \/ TimerLooks \/ GiveUp

Spec == Init /\ [][Next]_vars

------------------------------------------------------------------------------
Settled ==
  /\ fxQueue = <<>> /\ untold = {} /\ firing = Nobody /\ stopping = {}
  /\ compiling + timers + givingUp = 0

(* When everything is at rest and no session is connected the player shows      *)
(* "stop" and can be pressed: however runs, sessions and the timers overlap,     *)
(* the last of them brings it back. *)
RestIsStopped ==
  Settled /\ currentSessions = {} => player = [selected |-> "stop", disable |-> FALSE]

(* With a session connected the player shows "play", unless a run was given up    *)
(* or failed in spite of it. *)
ConnectedIsPlaying ==
  Settled /\ currentSessions # {} /\ ~overruled => player.selected = "play"

(* The indicator is on just when there is a session, unless its last update ran   *)
(* at once, on the JavaFX thread, and overtook one that was posted. *)
IndicatorIsRight ==
  Settled /\ ~overtaken => (indicator = "on" <=> currentSessions # {})

(* A button stays disabled only if a run ended with a session connected, so that  *)
(* its timer left the buttons as they were. *)
DisabledByRun == Settled /\ (status.disable \/ player.disable) => contented

(* The window agrees with the sessions whenever nothing is under way. *)
WindowIsRight ==
  TypeOK /\ RestIsStopped /\ ConnectedIsPlaying /\ IndicatorIsRight /\ DisabledByRun

==============================================================================
