-------------------------------- MODULE Effects -------------------------------
(***************************************************************************)
(* jQuery's effects: the queue of an element, the animations that show and      *)
(* hide it, delays, and the one interval that moves all animations on.  The     *)
(* pages scroll and fold their lists with them.                               *)
(*                                                                         *)
(* An animation is about one property, the height: 0, in between (1) or the     *)
(* natural one (2).  Everything runs on one thread; what a call still has to    *)
(* do when it has come to another function is kept in "todo", the innermost     *)
(* first.  Functions the page gives to an animation are left out.              *)
(***************************************************************************)
EXTENDS Integers, Sequences, FiniteSets

CONSTANTS Elems,      \* elements
          Calls,      \* the methods that are called
          Duration,   \* ticks that an animation takes
          MaxCalls    \* bound: calls of these methods

EffectsAssumption ==
  /\ Elems # {}
  /\ Calls \subseteq {"show", "hide", "toggle", "delay", "stop", "stopAtEnd",
                      "stopAll", "clearQueue", "finish", "promise"}
  /\ Duration \in Nat \ {0} /\ MaxCalls \in Nat

Acts == {"show", "hide", "toggle"}
Entries == Acts \cup {"delay", "inprogress"}
None == 0
Between == 1
Full == 2

VARIABLES
  queue,     \* the fx queue of an element
  hooked,    \* has the element queue hooks?
  stopper,   \* does hooks.stop name a timeout that is to come?
  delays,    \* how many timeouts of delays are to come
  promised,  \* a promise that the queue will be empty
  timers,    \* jQuery.timers
  ticking,   \* is the interval running?
  shown,     \* is the element displayed?
  height,    \* the height in its style
  clipped,   \* is its overflow hidden?
  fxshow,    \* what the element remembers of how it was
  todo,      \* what the call that is under way still has to do
  calls      \* bounded: calls made

elements == <<shown, height, clipped, fxshow>>
vars == <<queue, hooked, stopper, delays, promised, timers, ticking, elements,
          todo, calls>>

NoShow == [on |-> FALSE, hidden |-> "unset", height |-> None]

TypeOK ==
  /\ queue \in [Elems -> Seq(Entries)]
  /\ hooked \in [Elems -> BOOLEAN] /\ stopper \in [Elems -> BOOLEAN]
  /\ delays \in [Elems -> Nat]
  /\ \A e \in Elems : stopper[e] => delays[e] > 0
  /\ promised \in [Elems -> {"none", "waiting", "resolved"}]
  /\ \A i \in DOMAIN timers : timers[i].elem \in Elems /\ timers[i].left \in 0..Duration
  /\ ticking \in BOOLEAN
  /\ shown \in [Elems -> BOOLEAN] /\ clipped \in [Elems -> BOOLEAN]
  /\ height \in [Elems -> None..Full]
  /\ calls \in 0..MaxCalls

Init ==
  /\ queue = [e \in Elems |-> <<>>]
  /\ hooked = [e \in Elems |-> FALSE] /\ stopper = [e \in Elems |-> FALSE]
  /\ delays = [e \in Elems |-> 0]
  /\ promised = [e \in Elems |-> "none"]
  /\ timers = <<>> /\ ticking = FALSE
  /\ shown \in [Elems -> BOOLEAN]
  /\ height = [e \in Elems |-> Full]
  /\ clipped = [e \in Elems |-> FALSE]
  /\ fxshow = [e \in Elems |-> NoShow]
  /\ todo = <<>> /\ calls = 0

Do(what, e) == [do |-> what, elem |-> e, at |-> 0, goto |-> FALSE, any |-> FALSE, act |-> "show"]

Without(s, i) == SubSeq(s, 1, i - 1) \o SubSeq(s, i + 1, Len(s))

(***************************************************************************)
(* An animation.                                                           *)
(***************************************************************************)

(* What show, hide and toggle find nothing to do about: the opposite is asked. *)
Skips(e, act) == act = IF shown[e] THEN "show" ELSE "hide"

(* A toggle that was stopped goes the other way. *)
Hidden(e) == IF fxshow[e].hidden # "unset" THEN fxshow[e].hidden = "yes" ELSE ~shown[e]

(* The height to come back to. *)
Original(e) ==
  IF fxshow[e].on /\ fxshow[e].height # None THEN fxshow[e].height ELSE height[e]

(* defaultPrefilter and createTween: the tween, and what is done at its end. *)
Animation(e, act) ==
  LET fresh == ~fxshow[e].on
  IN  [elem |-> e, left |-> Duration,
       start |-> IF Hidden(e) /\ fresh THEN Between ELSE height[e],
       end |-> IF ~Hidden(e) THEN None
               ELSE IF fresh THEN height[e] ELSE fxshow[e].height,
       hides |-> ~Hidden(e), original |-> Original(e), clipped |-> clipped[e]]

Noted(e, act) ==
  [on |-> TRUE,
   hidden |-> IF act # "toggle" THEN fxshow[e].hidden ELSE IF Hidden(e) THEN "no" ELSE "yes",
   height |-> IF fxshow[e].on THEN fxshow[e].height ELSE height[e]]

(* The element at the start: the first tick has put it there. *)
Begin(e, act) ==
  /\ shown' = [shown EXCEPT ![e] = TRUE]
  /\ height' = [height EXCEPT ![e] = Animation(e, act).start]
  /\ clipped' = [clipped EXCEPT ![e] = TRUE]
  /\ fxshow' = [fxshow EXCEPT ![e] = Noted(e, act)]

(* The last frame, and the functions of done: the element is hidden, what it    *)
(* remembers is dropped and its style is what it was. *)
Resolved(e, t) ==
  /\ shown' = [shown EXCEPT ![e] = ~t.hides]
  /\ height' = [height EXCEPT ![e] = t.original]
  /\ clipped' = [clipped EXCEPT ![e] = t.clipped]
  /\ fxshow' = [fxshow EXCEPT ![e] = NoShow]

(* Stopped on the way: overflow is put right, the height stays. *)
Rejected(e, t) ==
  /\ clipped' = [clipped EXCEPT ![e] = t.clipped]
  /\ UNCHANGED <<shown, height, fxshow>>

(***************************************************************************)
(* The queue.                                                              *)
(***************************************************************************)

(* hooks.empty: who waits is told, the queue and its hooks are removed. *)
Emptied(e) ==
  /\ promised' = [promised EXCEPT ![e] = IF @ = "waiting" THEN "resolved" ELSE @]
  /\ queue' = [queue EXCEPT ![e] = <<>>]
  /\ hooked' = [hooked EXCEPT ![e] = FALSE]
  /\ stopper' = [stopper EXCEPT ![e] = FALSE]

Waiting(e) == IF queue[e] # <<>> /\ Head(queue[e]) = "inprogress"
              THEN Tail(queue[e]) ELSE queue[e]

(* Variant: nothing marks that the function of the queue is at work. *)
InProgressUnmarked(rest) == rest

InProgress(rest) == <<"inprogress">> \o rest

(* jQuery.dequeue *)
Dequeue ==
  LET e == Head(todo).elem
      next == Head(Waiting(e))
  IN  /\ todo # <<>> /\ Head(todo).do = "dequeue"
      /\ UNCHANGED calls
      /\ IF Waiting(e) = <<>>
         THEN /\ Emptied(e)
              /\ todo' = Tail(todo)
              /\ UNCHANGED <<delays, timers, ticking, elements>>
         ELSE /\ queue' = [queue EXCEPT ![e] = InProgress(Tail(Waiting(e)))]
              /\ hooked' = [hooked EXCEPT ![e] = TRUE]
              /\ UNCHANGED promised
              /\ \/ /\ next = "delay"
                    /\ delays' = [delays EXCEPT ![e] = @ + 1]
                    /\ stopper' = [stopper EXCEPT ![e] = TRUE]
                    /\ todo' = Tail(todo)
                    /\ UNCHANGED <<timers, ticking, elements>>
                 \/ /\ next # "delay"
                    /\ stopper' = [stopper EXCEPT ![e] = FALSE]
                    /\ UNCHANGED delays
                    /\ IF Skips(e, next)
                       THEN /\ todo' = <<Do("dequeue", e)>> \o Tail(todo)
                            /\ UNCHANGED <<timers, ticking, elements>>
                       ELSE /\ timers' = Append(timers, Animation(e, next))
                            /\ ticking' = TRUE
                            /\ Begin(e, next)
                            /\ todo' = Tail(todo)

(***************************************************************************)
(* The page's calls.                                                       *)
(***************************************************************************)

Call(method) ==
  /\ method \in Calls
  /\ todo = <<>>
  /\ calls < MaxCalls
  /\ calls' = calls + 1

(* animate and delay: the queue is started if nothing is at work. *)
Enqueue(e, entry) ==
  /\ Call(entry)
  /\ queue' = [queue EXCEPT ![e] = Append(@, entry)]
  /\ hooked' = [hooked EXCEPT ![e] = TRUE]
  /\ todo' = IF Head(queue'[e]) = "inprogress" THEN <<>> ELSE <<Do("dequeue", e)>>
  /\ UNCHANGED <<stopper, delays, promised, timers, ticking, elements>>

(* queue("fx", []), which is clearQueue: the mark goes, too. *)
ClearQueue(e) ==
  /\ Call("clearQueue")
  /\ queue' = [queue EXCEPT ![e] = <<>>]
  /\ hooked' = [hooked EXCEPT ![e] = TRUE]
  /\ todo' = <<Do("dequeue", e)>>
  /\ UNCHANGED <<stopper, delays, promised, timers, ticking, elements>>

(* hooks.stop: the timeout of a delay is cleared. *)
StopDelay(e) ==
  /\ stopper' = [stopper EXCEPT ![e] = FALSE]
  /\ delays' = [delays EXCEPT ![e] = IF stopper[e] THEN @ - 1 ELSE @]

StopLoop(e, goto, any) ==
  [do |-> "stop", elem |-> e, at |-> Len(timers), goto |-> goto, any |-> any, act |-> "show"]

(* stop(goto) *)
Stop(e, goto) ==
  /\ Call(IF goto THEN "stopAtEnd" ELSE "stop")
  /\ StopDelay(e)
  /\ todo' = <<StopLoop(e, goto, FALSE)>>
  /\ UNCHANGED <<queue, hooked, promised, timers, ticking, elements>>

(* stop(true): the queue is cleared and started first, by which the hooks are    *)
(* gone when hooks.stop would be called. *)
StopAll(e) ==
  /\ Call("stopAll")
  /\ queue' = [queue EXCEPT ![e] = <<>>]
  /\ hooked' = [hooked EXCEPT ![e] = TRUE]
  /\ todo' = <<Do("dequeue", e), StopLoop(e, FALSE, FALSE)>>
  /\ UNCHANGED <<stopper, delays, promised, timers, ticking, elements>>

(* finish: the queue is emptied, what runs is stopped at its end, and what was   *)
(* queued is begun and ended at once. *)
Finish(e) ==
  /\ Call("finish")
  /\ StopDelay(e)
  /\ queue' = [queue EXCEPT ![e] = <<>>]
  /\ todo' = <<StopLoop(e, TRUE, TRUE)>>
             \o [i \in DOMAIN Waiting(e) |->
                   [Do("finish", e) EXCEPT !.act = Waiting(e)[i]]]
  /\ UNCHANGED <<hooked, promised, timers, ticking, elements>>

(* promise(): resolved at once unless the element has queue hooks. *)
Promise(e) ==
  /\ promised[e] # "waiting"
  /\ Call("promise")
  /\ promised' = [promised EXCEPT ![e] = IF hooked[e] THEN "waiting" ELSE "resolved"]
  /\ UNCHANGED <<queue, hooked, stopper, delays, timers, ticking, elements, todo>>

(***************************************************************************)
(* What the calls go on to do.                                              *)
(***************************************************************************)

(* The loop of stop over the timers, from the last one on. *)
StopTimer ==
  LET task == Head(todo)
      e == task.elem
      t == timers[task.at]
      later == [task EXCEPT !.at = @ - 1]
  IN  /\ todo # <<>> /\ task.do = "stop" /\ task.at > 0
      /\ IF t.elem # e
         THEN todo' = <<later>> \o Tail(todo) /\ UNCHANGED <<timers, elements>>
         ELSE /\ timers' = Without(timers, task.at)
              /\ IF task.goto
                 THEN /\ Resolved(e, t)
                      /\ todo' = <<Do("dequeue", e), [later EXCEPT !.any = TRUE]>> \o Tail(todo)
                 ELSE /\ Rejected(e, t)
                      /\ todo' = <<[later EXCEPT !.any = TRUE]>> \o Tail(todo)
      /\ UNCHANGED <<queue, hooked, stopper, delays, promised, ticking, calls>>

(* Its end: the next one is started unless an animation's end has done so. *)
StopEnds ==
  LET task == Head(todo)
  IN  /\ todo # <<>> /\ task.do = "stop" /\ task.at = 0
      /\ todo' = (IF ~task.any \/ ~task.goto THEN <<Do("dequeue", task.elem)>> ELSE <<>>)
                 \o Tail(todo)
      /\ UNCHANGED <<queue, hooked, stopper, delays, promised, timers, ticking,
                     elements, calls>>

(* An animation that is begun and ended at once; a delay has no finish. *)
FinishEntry ==
  LET e == Head(todo).elem
      act == Head(todo).act
  IN  /\ todo # <<>> /\ Head(todo).do = "finish"
      /\ IF act \notin Acts
         THEN todo' = Tail(todo) /\ UNCHANGED <<ticking, elements>>
         ELSE /\ todo' = <<Do("dequeue", e)>> \o Tail(todo)
              /\ IF Skips(e, act) THEN UNCHANGED <<ticking, elements>>
                 ELSE ticking' = TRUE /\ Resolved(e, Animation(e, act))
      /\ UNCHANGED <<queue, hooked, stopper, delays, promised, timers, calls>>

(***************************************************************************)
(* Time.                                                                   *)
(***************************************************************************)

DelayEnds(e) ==
  /\ todo = <<>>
  /\ delays[e] > 0
  /\ delays' = [delays EXCEPT ![e] = @ - 1]
  /\ stopper' \in {[stopper EXCEPT ![e] = FALSE]}
                  \cup (IF delays[e] > 1 THEN {stopper} ELSE {})
  /\ todo' = <<Do("dequeue", e)>>
  /\ UNCHANGED <<queue, hooked, promised, timers, ticking, elements, calls>>

(* jQuery.fx.tick: a while has gone by. *)
Tick ==
  /\ todo = <<>>
  /\ ticking
  /\ timers' = [i \in DOMAIN timers |->
                  [timers[i] EXCEPT !.left = IF @ = 0 THEN 0 ELSE @ - 1]]
  /\ todo' = <<[Do("tick", CHOOSE e \in Elems : TRUE) EXCEPT !.at = 1]>>
  /\ UNCHANGED <<queue, hooked, stopper, delays, promised, ticking, elements, calls>>

(* The next timer: it moves its element on or ends, by which the next function   *)
(* of the queue begins. *)
TickTimer ==
  LET i == Head(todo).at
      t == timers[i]
  IN  /\ todo # <<>> /\ Head(todo).do = "tick" /\ i <= Len(timers)
      /\ IF t.left > 0
         THEN /\ height' = [height EXCEPT ![t.elem] = IF t.start = t.end THEN t.end ELSE Between]
              /\ todo' = <<[Head(todo) EXCEPT !.at = i + 1]>>
              /\ UNCHANGED <<timers, shown, clipped, fxshow>>
         ELSE /\ timers' = Without(timers, i)
              /\ Resolved(t.elem, t)
              /\ todo' = <<Do("dequeue", t.elem), Head(todo)>>
      /\ UNCHANGED <<queue, hooked, stopper, delays, promised, ticking, calls>>

TickEnds ==
  /\ todo # <<>> /\ Head(todo).do = "tick" /\ Head(todo).at > Len(timers)
  /\ todo' = <<>>
  /\ ticking' = (timers # <<>>)
  /\ UNCHANGED <<queue, hooked, stopper, delays, promised, timers, elements, calls>>

Next ==
  \/ \E e \in Elems :
       \/ \E entry \in Acts \cup {"delay"} : Enqueue(e, entry)
       \/ \E goto \in BOOLEAN : Stop(e, goto)
       \/ ClearQueue(e) \/ StopAll(e) \/ Finish(e) \/ Promise(e) \/ DelayEnds(e)
  \/ Tick
  \/ Dequeue \/ StopTimer \/ StopEnds \/ FinishEntry \/ TickTimer \/ TickEnds

Spec == Init /\ [][Next]_vars

(***************************************************************************)
(* Correctness.                                                            *)
(***************************************************************************)

Running(e) == {i \in DOMAIN timers : timers[i].elem = e}
AtRest(e) == todo = <<>> /\ Running(e) = {} /\ delays[e] = 0

(* The functions of a queue are at work one after the other: there are no two   *)
(* animations of an element, nor one beside a delay.                         *)
OneAtATime ==
  todo = <<>> => \A e \in Elems : Cardinality(Running(e)) + delays[e] <= 1

(* A queue that is not empty is at work, so that somebody will come back to it. *)
QueueAtWork ==
  todo = <<>> =>
    \A e \in Elems : queue[e] # <<>> => Running(e) # {} \/ delays[e] > 0

(* Somebody moves the animations on. *)
IntervalRuns == timers # <<>> => ticking

(* Whatever was stopped and turned back in between: the natural height is known *)
(* as long as the element does not have it, and comes back in the end.         *)
HeightComesBack ==
  \A e \in Elems :
    IF fxshow[e].on THEN fxshow[e].height = Full
    ELSE Running(e) = {} => height[e] = Full

(* An element that is at rest is not clipped. *)
Unclipped == \A e \in Elems : AtRest(e) => ~clipped[e]

(* Queue, interval and elements agree: see the parts. *)
EffectsAreRight ==
  TypeOK /\ OneAtATime /\ QueueAtWork /\ IntervalRuns /\ HeightComesBack /\ Unclipped

===============================================================================
